---------------------------- MODULE BrowserLogin ----------------------------
(***************************************************************************)
(* What a browser login promises (ssologin.go), whichever flow it runs: a   *)
(* token only after the operator approved, a refusal reported only of an    *)
(* operator who refused, "not approved in time" only when time was up or    *)
(* the operator had refused, and one of these, or an error, in the end.     *)
(***************************************************************************)
VARIABLES
  said,       \* what the operator has answered, in any tab
  due,        \* the time to answer in has passed
  verdict     \* what the login returns

loginVars == <<said, due, verdict>>
Answers == {"approved", "denied"}

LoginInit == said = {} /\ due = FALSE /\ verdict = "open"

Answer ==
  /\ \E a \in Answers : said' = said \cup {a}
  /\ UNCHANGED <<due, verdict>>
TimePasses == due' = TRUE /\ UNCHANGED <<said, verdict>>

Returns(v) == verdict = "open" /\ verdict' = v /\ UNCHANGED <<said, due>>
Succeed == "approved" \in said /\ Returns("token")
Refused == "denied" \in said /\ Returns("denied")
TooLate == (due \/ "denied" \in said) /\ Returns("timed out")
Break   == Returns("error")
End     == Succeed \/ Refused \/ TooLate \/ Break

LoginNext == Answer \/ TimePasses \/ End
LoginSafety == LoginInit /\ [][LoginNext]_loginVars
LoginSpec   == LoginSafety /\ WF_loginVars(End)
=============================================================================

------------------------------ MODULE LoginFlow ------------------------------
(***************************************************************************)
(* One browser login, in both its flows (ssologin.go).  The authorization   *)
(* code flow waits for the browser's redirect on a loopback server, whose    *)
(* handlers run beside it; the device code flow polls the service.  Time is  *)
(* counted in poll intervals.  The service, the browser and its operator are *)
(* external.                                                                 *)
(***************************************************************************)
EXTENDS Naturals

CONSTANTS
  Budget,       \* when the context of the caller ends
  SignIn,       \* pkceSignInTimeout
  Lifetimes,    \* of a device code, 0 where the service states none
  MaxInterval   \* bound: how far slow_down stretches the interval

ASSUME Times ==
  /\ Budget \in Nat \ {0} /\ SignIn \in Nat /\ Lifetimes \subseteq Nat
  /\ MaxInterval \in Nat \ {0}

VARIABLES
  flow,       \* "pkce" or "device"
  at,         \* where the login is
  verdict,    \* what it returned, or "open"
  said,       \* the operator's answers
  listening,  \* the callback server accepts requests
  results,    \* its channel of one result, or "empty"
  clock,
  lifetime,   \* of the device code
  issued,     \* when the service issued it
  expiresAt,  \* when the time bmcp allows is over, 0 while it has no end
  interval, wake

flowVars == <<flow, at, verdict, said, listening, results, clock, lifetime,
              issued, expiresAt, interval, wake>>
waiting  == <<clock, lifetime, issued, expiresAt, interval, wake>>
server   == <<listening, results>>

FlowInit ==
  /\ flow \in {"pkce", "device"} /\ at = "register" /\ verdict = "open"
  /\ said = {} /\ listening = FALSE /\ results = "empty"
  /\ clock = 0 /\ lifetime \in Lifetimes
  /\ issued = 0 /\ expiresAt = 0 /\ interval = 1 /\ wake = 0

ContextEnded == clock >= Budget \/ (expiresAt # 0 /\ clock >= expiresAt)
Go(l)     == at' = l /\ UNCHANGED verdict
Return(v) == at' = "done" /\ verdict' = v

\* Any call to the service may fail, or be cut off by the context.
Register ==
  /\ at = "register"
  /\ Return("error") \/ Go(IF flow = "pkce" THEN "listen" ELSE "authorize")
  /\ UNCHANGED <<flow, said, server, waiting>>

-----------------------------------------------------------------------------
(* pkceLogin *)

\* The server listens before the browser is opened, and the operator's time
\* counts from then.
Listen ==
  /\ at = "listen"
  /\ \/ Return("error") /\ UNCHANGED listening
        /\ UNCHANGED expiresAt
     \/ Go("select") /\ listening' = TRUE /\ expiresAt' = clock + SignIn
  /\ UNCHANGED <<flow, said, results, clock, lifetime, issued, interval, wake>>

\* Mutant: a redirect with another state ends the login.
Handle_anyState(res, stateFits) ==
  /\ listening
  /\ results' = IF results = "empty" THEN res ELSE results
  /\ UNCHANGED <<flow, at, verdict, said, listening, waiting>>

\* A request at the callback: a wrong state is refused, and a result that does
\* not fit into the channel dropped.
Handle(res, stateFits) ==
  /\ listening
  /\ results' = IF stateFits /\ results = "empty" THEN res ELSE results
  /\ UNCHANGED <<flow, at, verdict, said, listening, waiting>>

\* The browser brings what the operator said, more than once when it reloads;
\* anybody else on the machine does not know the state.  The code takes every
\* "error" of a redirect for a refusal: here the service sends one only when the
\* operator refused, and none for a trouble of its own.
Redirect ==
  \/ "approved" \in said /\ (Handle("code", TRUE) \/ Handle("nothing", TRUE))
  \/ "denied" \in said /\ Handle("refusal", TRUE)
Stranger == \E res \in {"code", "refusal"} : Handle(res, FALSE)

\* The first result, or the timeout: either when both are there.  The server
\* goes before the code is redeemed.
TakeResult ==
  /\ at = "select" /\ results # "empty"
  /\ listening' = FALSE
  /\ CASE results = "code"    -> Go("redeem")
       [] results = "refusal" -> Return("denied")
       [] OTHER               -> Return("error")
  /\ UNCHANGED <<flow, said, results, waiting>>

SignInEnds ==
  /\ at = "select" /\ ContextEnded
  /\ listening' = FALSE
  /\ Return("timed out")
  /\ UNCHANGED <<flow, said, results, waiting>>

Redeem ==
  /\ at = "redeem"
  /\ Return("token") \/ Return("error")
  /\ UNCHANGED <<flow, said, server, waiting>>

-----------------------------------------------------------------------------
(* deviceCodeLogin *)

Authorize ==
  /\ at = "authorize"
  /\ Go("reply")
  /\ issued' = clock
  /\ UNCHANGED <<flow, said, server, clock, lifetime, expiresAt, interval, wake>>

\* The lifetime is counted from the reply, which is later than the service
\* counts it from.
Reply ==
  /\ at = "reply"
  /\ \/ Return("error") /\ UNCHANGED <<expiresAt, wake>>
     \/ /\ Go("sleep")
        /\ expiresAt' = IF lifetime = 0 THEN 0 ELSE clock + lifetime
        /\ wake' = clock + interval
  /\ UNCHANGED <<flow, said, server, clock, lifetime, issued, interval>>

Sleep ==
  /\ at = "sleep"
  /\ \/ clock >= wake /\ Go("poll")
     \/ ContextEnded /\ Return("timed out")
  /\ UNCHANGED <<flow, said, server, waiting>>

\* What the service can answer a poll.
CodeLives == lifetime = 0 \/ clock < issued + lifetime
Answerable ==
  {"failure"}
    \cup (IF CodeLives THEN {} ELSE {"expired", "invalid"})
    \cup (IF "denied" \in said THEN {"invalid"} ELSE {})
    \cup (IF CodeLives /\ "approved" \in said THEN {"token"} ELSE {})
    \cup (IF CodeLives /\ said = {} THEN {"pending"} ELSE {})
    \cup (IF interval < MaxInterval THEN {"slow"} ELSE {})

\* Mutant: an invalid grant is taken for an expiry only after the deadline.
NearExpiry_late == expiresAt # 0 /\ clock >= expiresAt
\* The poll that outlives the code is answered invalid_grant.
NearExpiry == expiresAt # 0 /\ clock + interval >= expiresAt

Poll ==
  /\ at = "poll"
  /\ \E a \in Answerable :
       /\ interval' = IF a = "slow" THEN interval + 1 ELSE interval
       /\ wake' = IF a \in {"pending", "slow"} THEN clock + interval' ELSE wake
       /\ CASE a = "token"             -> Return("token") \/ Return("error")
            [] a \in {"pending", "slow"} -> Go("sleep")
            [] OTHER ->
                 IF \/ ContextEnded \/ a = "expired"
                    \/ a = "invalid" /\ NearExpiry
                 THEN Return("timed out")
                 ELSE Return(IF a = "invalid" THEN "denied" ELSE "error")
  /\ UNCHANGED <<flow, said, server, clock, lifetime, issued, expiresAt>>

-----------------------------------------------------------------------------
(* Around the login *)

\* In a browser the operator can go back and answer again; a device code takes
\* one answer, while it lives.
OperatorAnswers ==
  /\ \/ at = "select"
     \/ at \in {"sleep", "poll"} /\ said = {} /\ CodeLives
  /\ \E a \in {"approved", "denied"} : said' = said \cup {a}
  /\ UNCHANGED <<flow, at, verdict, server, waiting>>

\* The service answers the authorization request within an interval.
Tick ==
  /\ verdict = "open" /\ clock < Budget
  /\ at = "reply" => clock < issued + interval
  /\ clock' = clock + 1
  /\ UNCHANGED <<flow, at, verdict, said, server, lifetime, issued, expiresAt,
                 interval, wake>>

FlowStep ==
  \/ Register \/ Listen \/ TakeResult \/ SignInEnds \/ Redeem
  \/ Authorize \/ Reply \/ Sleep \/ Poll
FlowNext == FlowStep \/ Redirect \/ Stranger \/ OperatorAnswers \/ Tick

\* What the login may do; MCSsoParts adds that it runs, and that time goes on.
FlowSafety == FlowInit /\ [][FlowNext]_flowVars

\* The time allowed to the operator is over.
TimeIsUp ==
  \/ clock >= Budget
  \/ /\ expiresAt # 0
     /\ IF flow = "pkce" THEN clock >= expiresAt ELSE ~CodeLives

Promise == INSTANCE BrowserLogin WITH due <- TimeIsUp

-----------------------------------------------------------------------------
(* Properties *)

(* Both flows keep the promise of BrowserLogin: no stranger's redirect, second
   callback, reload, slow_down or expiry of the device code makes the login
   return a token nobody approved, report a refusal nobody gave, or give up
   before its time; and it returns. *)
LoginImplements == Promise!LoginSpec
=============================================================================

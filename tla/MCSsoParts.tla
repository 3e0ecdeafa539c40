----------------------------- MODULE MCSsoParts -----------------------------
(***************************************************************************)
(* The two parts of a login that keep nothing in common while they run: the  *)
(* browser login, and the store that its token goes to.  A behaviour is      *)
(* about one of them; the store's begins where a login ended.                *)
(***************************************************************************)
EXTENDS LoginFlow, CredStore

VARIABLE part

vars == <<part, flowVars, storeVars>>

Init ==
  /\ part \in {"flow", "store"} /\ FlowInit /\ StoreInit
  /\ IF part = "store" THEN flow = "pkce" /\ lifetime = 0 ELSE backend = "file"

Flow ==
  /\ part = "flow" /\ FlowNext
  /\ UNCHANGED <<part, storeVars>>

NoLogin ==
  /\ part = "store" /\ Register /\ verdict' = "error"
  /\ UNCHANGED <<part, storeVars>>

Store ==
  /\ part = "store" /\ verdict # "open" /\ StoreNext
  /\ UNCHANGED <<part, flowVars>>

Finished ==
  /\ verdict # "open"
  /\ \A c \in Client : call[c] = Idle
  /\ part = "flow" \/ calls = MaxCalls
  /\ UNCHANGED vars

Next == Flow \/ NoLogin \/ Store \/ Finished

(* The service answers or the call to it ends with the caller's context, and
   time goes on. *)
Spec ==
  /\ Init /\ [][Next]_vars
  /\ WF_vars(NoLogin)
  /\ WF_vars(part = "flow" /\ FlowStep /\ UNCHANGED <<part, storeVars>>)
  /\ WF_vars(part = "flow" /\ Tick /\ UNCHANGED <<part, storeVars>>)
=============================================================================

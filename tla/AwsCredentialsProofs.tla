------------------------- MODULE AwsCredentialsProofs -------------------------
(* Theorems about HelperStreams and AwsCredentials, for any invocation whose   *)
(* retrievals follow one another, and any number of them.                      *)
EXTENDS AwsCredentials, FiniteSetTheorems, TLAPS

-----------------------------------------------------------------------------
(* The streams by themselves *)

Early == {"idle", "choose", "chain", "incomplete", "load", "gate", "sdk"}

StreamsTyped == StreamsTypeOK /\ pc \in [Call -> CallPcs]

\* Retrievals follow one another, and each starts its goroutine once, late.
InTurn ==
  /\ \A r, q \in Call : Active(r) /\ Active(q) => r = q
  /\ \A r \in Call :
       /\ pc[r] \in Early \cup {"open", "swapIn", "swapErr", "retrieve"} => go[r] = "none"
       /\ pc[r] \in Early \cup {"open", "swapIn"} => swapped[r] = {}

\* A stream that is kept: see KeepIs.
Spared(s) == s \in sunk \/ Allowed(s)

\* A sink that a retrieval under way has installed and will still restore.
Held(r, s) ==
  /\ s \in swapped[r]
  /\ \/ pc[r] \in {"swapErr", "retrieve", "wait", "restoreErr"}
     \/ s = "in" /\ pc[r] = "restoreIn"

\* What is to be swapped is what is not kept, and what a helper is not to have
\* is out of its way.
Covered ==
  \A r \in Call :
    /\ pc[r] \in {"open", "swapIn", "swapErr"} => need[r] = {s \in Stream : ~Spared(s)}
    /\ \A s \in Stream : Held(r, s) => fd[s] = r /\ s \notin sunk /\ ~Allowed(s)
    /\ pc[r] = "swapErr" => Spared("in") \/ Held(r, "in")
    /\ r \in helper /\ pc[r] \in {"retrieve", "wait", "restoreErr"} =>
         \A s \in Stream : Spared(s) \/ Held(r, s)

\* A sink is installed while its retrieval runs, or latched when the context of
\* one had ended; it is open then, and there is no other open one, except those
\* about to be installed.
Installed ==
  /\ \A s \in sunk : fd[s] \in expired /\ ~Allowed(s)
  /\ \A s \in Stream : fd[s] # Real =>
       <<s, fd[s]>> \in open /\ (s \in sunk \/ Held(fd[s], s))
  /\ \A s \in Stream, q \in Call :
       LET pending == /\ s \in need[q]
                      /\ pc[q] = "swapIn" \/ (s = "err" /\ pc[q] = "swapErr")
       IN  /\ pending => <<s, q>> \in open
           /\ <<s, q>> \in open => fd[s] = q \/ pending

Building(r) == go[r] \in {"start", "readIn", "exec"}

\* While the SDK builds a command, the streams stay out of its way, even if its
\* retrieval has been given up.
Pending ==
  \A r \in Call : Building(r) =>
    /\ r \in helper
    /\ \/ pc[r] = "wait"
       \/ r \in expired /\ pc[r] \in {"restoreErr", "restoreIn", "abandoned"}
    /\ \A s \in Stream : Spared(s) \/ Held(r, s)

\* What a retrieval returned is what its goroutine came to, unless it was given up.
Returned ==
  \A r \in Call : pc[r] \in {"restoreErr", "restoreIn"} =>
    /\ got[r] # "none"
    /\ got[r] \in {"ok", "failed"} => go[r] = got[r]
    /\ got[r] = "abandoned" => r \in expired

\* What a command was given.
Commanded ==
  \A r \in Call :
    /\ go[r] \in {"readIn", "exec"} => cmd[r]["err"] = fd["err"]
    /\ go[r] = "exec" => cmd[r]["in"] = fd["in"]
    /\ Started(r) => \A s \in Stream : cmd[r][s] = Real <=> Allowed(s)
    /\ closed[r] = {}

\* What a failure is told to have been denied.
Recorded ==
  /\ \A s \in discarded : ~Allowed(s)
  /\ \A r \in Call :
       /\ pc[r] \in {"open", "swapIn", "swapErr"} => sunk \subseteq discarded
       /\ pc[r] = "swapErr" => "in" \in discarded \/ Allowed("in")
       /\ r \in helper /\ pc[r] \in {"retrieve", "wait", "restoreErr", "restoreIn"} =>
            \A s \in Stream : s \in discarded \/ Allowed(s)
       /\ told[r] # NoMessage => Started(r) /\ told[r] = {s \in Stream : ~Allowed(s)}

StreamsInv ==
  /\ StreamsTyped /\ InTurn /\ Covered /\ Installed
  /\ Pending /\ Returned /\ Commanded /\ Recorded

\* What leads up to a retrieval leaves the streams alone.
Prepare(r) ==
  /\ pc[r] \in Early \ {"sdk"} /\ (pc[r] = "idle" => MayCall(r))
  /\ \E l \in Early \cup {"ok", "failed", "refused"} : To(r, l)
  /\ helper' \in {helper, helper \cup {r}}
  /\ UNCHANGED <<policy, streams, need, swapped, expired, got, sdk, told>>

StreamsNext == \E r \in Call : Prepare(r) \/ StreamStep(r)

\* Everything is kept but what a helper is not to have and no sink is latched for.
LEMMA KeepIs ==
  ASSUME StreamsTyped, NEW s \in Stream
  PROVE  Keep(s) <=> Spared(s)
BY DEF Spared, StreamsTyped, StreamsTypeOK, Stream, Policies, Keep, keepStderr, keepStdin, Allowed

\* The types, by who keeps them.
StreamTypes ==
  /\ fd \in [Stream -> Call \cup {Real}]
  /\ open \subseteq Stream \X Call /\ sunk \subseteq Stream /\ discarded \subseteq Stream
StepTypes ==
  /\ pc \in [Call -> CallPcs] /\ helper \subseteq Call /\ expired \subseteq Call
  /\ got \in [Call -> {"none", "ok", "failed", "abandoned"}]
  /\ need \in [Call -> SUBSET Stream] /\ swapped \in [Call -> SUBSET Stream]
SdkTypes ==
  /\ go \in [Call -> GoPcs]
  /\ cmd \in [Call -> [Stream -> Call \cup {Real}]]
  /\ closed \in [Call -> SUBSET Stream]
ToldTypes == told \in [Call -> (SUBSET Stream) \cup {NoMessage}]

LEMMA Types ==
  StreamsTyped <=> policy \in Policies /\ StreamTypes /\ StepTypes /\ SdkTypes /\ ToldTypes
BY DEF StreamsTyped, StreamsTypeOK, StreamTypes, StepTypes, SdkTypes, ToldTypes

LEMMA StreamsTypedKept ==
  StreamsTyped /\ Returned /\ [StreamsNext]_helperVars => StreamsTyped'
<1> SUFFICES ASSUME StreamsTyped, Returned, [StreamsNext]_helperVars PROVE StreamsTyped'
  OBVIOUS
<1>0. policy \in Policies /\ StreamTypes /\ StepTypes /\ SdkTypes /\ ToldTypes
  BY Types
<1> DEFINE Kept0 == policy' \in Policies /\ StreamTypes' /\ StepTypes' /\ SdkTypes' /\ ToldTypes'
<1> SUFFICES Kept0
  BY Types DEF StreamsTyped, StreamsTypeOK, StreamTypes, StepTypes, SdkTypes, ToldTypes
<1>s. UNCHANGED streams => StreamTypes'
  BY <1>0 DEF streams, StreamTypes
<1>k. UNCHANGED sdk => SdkTypes'
  BY <1>0 DEF sdk, SdkTypes
<1>t. UNCHANGED told => ToldTypes'
  BY <1>0 DEF ToldTypes
<1>c. \A l \in {"ok", "failed", "refused", "abandoned"} \cup Early \cup StreamPcs : l \in CallPcs
  BY DEF Early, CallPcs, StreamPcs
<1> USE DEF To
<1>1. CASE UNCHANGED helperVars
  BY <1>0, <1>s, <1>k, <1>t, <1>1 DEF helperVars, steps, StepTypes
<1>2. ASSUME NEW r \in Call, Prepare(r) PROVE Kept0
  <2>1. StepTypes'
    BY <1>0, <1>2, <1>c DEF Prepare, StepTypes
  <2> QED
    BY <1>0, <1>2, <1>s, <1>k, <1>t, <2>1 DEF Prepare
<1>3. ASSUME NEW r \in Call, Begin(r) PROVE Kept0
  <2>1. StepTypes'
    BY <1>0, <1>3, <1>c DEF Begin, StepTypes, StreamPcs
  <2>2. StreamTypes'
    BY <1>0, <1>3 DEF Begin, StreamTypes
  <2> QED
    BY <1>0, <1>3, <1>k, <1>t, <2>1, <2>2 DEF Begin
<1>4. ASSUME NEW r \in Call, OpenSinks(r) PROVE Kept0
  <2>1. StepTypes'
    BY <1>0, <1>4, <1>c DEF OpenSinks, StepTypes, StreamPcs
  <2>2. StreamTypes'
    <3>1. need[r] \X {r} \subseteq Stream \X Call
      BY <1>0 DEF StepTypes
    <3> QED
      BY <1>0, <1>4, <3>1 DEF OpenSinks, StreamTypes
  <2> QED
    BY <1>0, <1>4, <1>k, <1>t, <2>1, <2>2 DEF OpenSinks
<1>5. ASSUME NEW r \in Call, NEW s \in Stream, NEW from, NEW l \in StreamPcs,
             Swap(r, s, from, l)
      PROVE  Kept0
  <2>1. StreamTypes'
    BY <1>0, <1>5 DEF Swap, StreamTypes
  <2>2. swapped' \in [Call -> SUBSET Stream]
    <3>1. swapped[r] \cup {s} \in SUBSET Stream
      BY <1>0 DEF StepTypes
    <3> QED
      BY <1>0, <1>5, <3>1 DEF Swap, StepTypes
  <2>3. StepTypes'
    BY <1>0, <1>5, <1>c, <2>2 DEF Swap, StepTypes
  <2> QED
    BY <1>0, <1>5, <1>k, <1>t, <2>1, <2>3 DEF Swap
<1>6. ASSUME NEW r \in Call, SwapIn(r) \/ SwapErr(r) PROVE Kept0
  BY <1>5, <1>6 DEF SwapIn, SwapErr, Stream, StreamPcs
<1>7. ASSUME NEW r \in Call, Retrieve(r) PROVE Kept0
  <2>1. StepTypes'
    BY <1>0, <1>7, <1>c DEF Retrieve, StepTypes, StreamPcs
  <2>2. SdkTypes'
    BY <1>0, <1>7 DEF Retrieve, SdkTypes, GoPcs
  <2> QED
    BY <1>0, <1>7, <1>s, <1>t, <2>1, <2>2 DEF Retrieve
<1>8. ASSUME NEW r \in Call, Return(r) \/ Expire(r) PROVE Kept0
  <2>1. StepTypes'
    BY <1>0, <1>8, <1>c DEF Return, Expire, StepTypes, StreamPcs
  <2> QED
    BY <1>0, <1>8, <1>s, <1>k, <1>t, <2>1 DEF Return, Expire
<1>9. ASSUME NEW r \in Call, NEW s \in Stream, Restore(r, s), UNCHANGED discarded
      PROVE  StreamTypes'
  BY <1>0, <1>9 DEF Restore, StreamTypes
<1>10. ASSUME NEW r \in Call, RestoreErr(r) \/ RestoreIn(r) PROVE Kept0
  <2>1. StreamTypes'
    BY <1>9, <1>10 DEF RestoreErr, RestoreIn, Stream
  <2>2. pc[r] = "restoreIn" => got[r] \in {"ok", "failed", "abandoned"}
    BY <1>0 DEF Returned, StepTypes
  <2>3. StepTypes'
    BY <1>0, <1>10, <1>c, <2>2 DEF RestoreErr, RestoreIn, StepTypes, StreamPcs
  <2>4. ToldTypes'
    BY <1>0, <1>10 DEF RestoreErr, RestoreIn, ToldTypes, StreamTypes
  <2> QED
    BY <1>0, <1>10, <1>k, <2>1, <2>3, <2>4 DEF RestoreErr, RestoreIn
<1>11. ASSUME NEW r \in Call, NEW s \in Stream, NEW from, NEW l \in GoPcs,
              GoRead(r, s, from, l)
       PROVE  Kept0
  <2>1. cmd' = [cmd EXCEPT ![r] = [cmd[r] EXCEPT ![s] = fd[s]]]
    BY <1>11 DEF GoRead
  <2>2. [cmd[r] EXCEPT ![s] = fd[s]] \in [Stream -> Call \cup {Real}]
    BY <1>0 DEF SdkTypes, StreamTypes
  <2>3. SdkTypes'
    BY <1>0, <1>11, <2>1, <2>2 DEF GoRead, SdkTypes
  <2>4. StepTypes'
    BY <1>0, <1>11 DEF GoRead, StepTypes, steps
  <2> QED
    BY <1>0, <1>11, <1>s, <1>t, <2>3, <2>4 DEF GoRead
<1>12. ASSUME NEW r \in Call, GoReadErr(r) \/ GoReadIn(r) PROVE Kept0
  BY <1>11, <1>12 DEF GoReadErr, GoReadIn, Stream, GoPcs
<1>13. ASSUME NEW r \in Call, GoExec(r) \/ GoEnd(r) PROVE Kept0
  <2>1. SdkTypes'
    BY <1>0, <1>13 DEF GoExec, GoEnd, SdkTypes, GoPcs
  <2>2. StepTypes'
    BY <1>0, <1>13 DEF GoExec, GoEnd, StepTypes, steps
  <2> QED
    BY <1>0, <1>13, <1>s, <1>t, <2>1, <2>2 DEF GoExec, GoEnd
<1> QED
  BY <1>1, <1>2, <1>3, <1>4, <1>6, <1>7, <1>8, <1>10, <1>12, <1>13
     DEF StreamsNext, StreamStep

\* A step is its own retrieval's, apart from the streams.
LEMMA OnlyOwn ==
  ASSUME StreamsTyped, NEW r \in Call, Prepare(r) \/ StreamStep(r)
  PROVE  /\ policy' = policy
         /\ \A q \in Call \ {r} :
              /\ pc'[q] = pc[q] /\ need'[q] = need[q] /\ swapped'[q] = swapped[q]
              /\ got'[q] = got[q] /\ go'[q] = go[q] /\ cmd'[q] = cmd[q]
              /\ closed'[q] = closed[q] /\ told'[q] = told[q]
              /\ q \in helper' <=> q \in helper
              /\ q \in expired' <=> q \in expired
<1>0. StepTypes /\ SdkTypes /\ ToldTypes
  BY Types
<1> USE <1>0 DEF To, StepTypes, SdkTypes, ToldTypes, streams, steps, sdk
<1>1. CASE Prepare(r)
  BY <1>1 DEF Prepare
<1>2. CASE Begin(r) \/ OpenSinks(r)
  BY <1>2 DEF Begin, OpenSinks
<1>3. CASE SwapIn(r) \/ SwapErr(r)
  BY <1>3 DEF SwapIn, SwapErr, Swap
<1>4. CASE Retrieve(r) \/ Return(r)
  BY <1>4 DEF Retrieve, Return
<1>5. CASE Expire(r)
  BY <1>5 DEF Expire
<1>6. CASE RestoreErr(r) \/ RestoreIn(r)
  BY <1>6 DEF RestoreErr, RestoreIn
<1>7. CASE GoReadErr(r) \/ GoReadIn(r) \/ GoExec(r) \/ GoEnd(r)
  BY <1>7 DEF GoReadErr, GoReadIn, GoRead, GoExec, GoEnd
<1> QED
  BY <1>1, <1>2, <1>3, <1>4, <1>5, <1>6, <1>7 DEF StreamStep

\* Where its own retrieval is before and after it.
LEMMA Moves ==
  ASSUME StreamsTyped, Returned, NEW r \in Call, StreamStep(r)
  PROVE  \/ /\ pc'[r] = pc[r] /\ UNCHANGED <<swapped, need, got>>
            /\ \/ go'[r] = go[r] /\ Active(r)
               \/ Building(r) /\ (Building(r)' \/ go'[r] = "running")
               \/ go[r] = "running" /\ go'[r] \in {"ok", "failed"}
         \/ /\ pc[r] = "retrieve" /\ pc'[r] = "wait" /\ go'[r] \in {"start", "running"}
            /\ UNCHANGED <<swapped, need, got>>
         \/ /\ go'[r] = go[r]
            /\ \/ pc[r] = "sdk" /\ pc'[r] \in {"open", "retrieve"} /\ UNCHANGED swapped
               \/ /\ pc[r] = "open" /\ pc'[r] \in {"swapIn", "refused", "retrieve"}
                  /\ UNCHANGED swapped
               \/ pc[r] = "swapIn" /\ pc'[r] = "swapErr"
               \/ pc[r] = "swapErr" /\ pc'[r] = "retrieve"
               \/ pc[r] = "wait" /\ pc'[r] = "restoreErr"
               \/ pc[r] = "restoreErr" /\ pc'[r] = "restoreIn"
               \/ pc[r] = "restoreIn" /\ pc'[r] \in {"ok", "failed", "abandoned"}
<1>0. StepTypes /\ SdkTypes
  BY Types
<1> USE <1>0 DEF To, StepTypes, SdkTypes, streams, steps, sdk
<1>2. CASE Begin(r)
  BY <1>2 DEF Begin
<1>3. CASE OpenSinks(r)
  BY <1>3 DEF OpenSinks
<1>4. CASE SwapIn(r) \/ SwapErr(r)
  BY <1>4 DEF SwapIn, SwapErr, Swap
<1>5. CASE Retrieve(r)
  BY <1>5 DEF Retrieve
<1>6. CASE Return(r)
  BY <1>6 DEF Return
<1>7. CASE Expire(r)
  BY <1>7 DEF Expire
<1>8. CASE RestoreErr(r) \/ RestoreIn(r)
  BY <1>8 DEF RestoreErr, RestoreIn, Returned
<1>9. CASE GoReadErr(r) \/ GoReadIn(r)
  BY <1>9 DEF GoReadErr, GoReadIn, GoRead, Building
<1>10. CASE GoExec(r)
  BY <1>10 DEF GoExec, Building
<1>11. CASE GoEnd(r)
  BY <1>11 DEF GoEnd
<1> QED
  BY <1>2, <1>3, <1>4, <1>5, <1>6, <1>7, <1>8, <1>9, <1>10, <1>11 DEF StreamStep

\* Retrievals that follow one another do so after every step.
LEMMA InTurnKept ==
  ASSUME ~Serving, StreamsTyped, InTurn, Returned, [StreamsNext]_helperVars PROVE InTurn'
<1> USE DEF InTurn, Active, Early
<1>1. CASE UNCHANGED helperVars
  BY <1>1 DEF helperVars, steps, sdk
<1>2. ASSUME NEW r \in Call, Prepare(r) PROVE InTurn'
  <2>1. /\ pc[r] \in Early \ {"sdk"} /\ (pc[r] = "idle" => \A q \in Call : ~Active(q))
        /\ pc'[r] \in Early \cup {"ok", "failed", "refused"} /\ UNCHANGED <<swapped, go>>
    BY <1>2, Types DEF Prepare, MayCall, To, StepTypes, sdk
  <2> QED
    BY <1>2, <2>1, OnlyOwn
<1>3. ASSUME NEW r \in Call, StreamStep(r) PROVE InTurn'
  BY <1>3, OnlyOwn, Moves DEF Building
<1> QED
  BY <1>1, <1>2, <1>3 DEF StreamsNext

\* What a goroutine came to stays, and a retrieval returns that or is given up.
LEMMA ReturnedKept ==
  ASSUME StreamsTyped, InTurn, Returned, [StreamsNext]_helperVars PROVE Returned'
<1> USE DEF Returned, Active, Early
<1>0. StepTypes /\ SdkTypes
  BY Types
<1>1. CASE UNCHANGED helperVars
  BY <1>1 DEF helperVars, steps, sdk
<1>2. ASSUME NEW r \in Call, Prepare(r) PROVE Returned'
  <2>1. pc'[r] \in Early \cup {"ok", "failed", "refused"}
    BY <1>0, <1>2 DEF Prepare, To, StepTypes
  <2> QED
    BY <1>2, <2>1, OnlyOwn
<1>3. ASSUME NEW r \in Call, Return(r) PROVE Returned'
  <2>1. /\ go' = go /\ expired' = expired
        /\ \/ go[r] \in {"ok", "failed"} /\ got'[r] = go[r]
           \/ r \in expired /\ got'[r] = "abandoned"
    BY <1>0, <1>3 DEF Return, StepTypes, sdk
  <2> QED
    BY <1>3, <2>1, OnlyOwn DEF StreamStep
<1>4. ASSUME NEW r \in Call, StreamStep(r), ~Return(r) PROVE Returned'
  <2>1. /\ got' = got /\ expired \subseteq expired'
        /\ pc[r] # "wait" \/ pc'[r] = "wait"
    BY <1>0, <1>4
       DEF StreamStep, Begin, OpenSinks, SwapIn, SwapErr, Swap, Retrieve, Expire,
           RestoreErr, RestoreIn, GoReadErr, GoReadIn, GoRead, GoExec, GoEnd, steps, To,
           StepTypes
  <2> QED
    BY <1>4, <2>1, OnlyOwn, Moves DEF Building
<1> QED
  BY <1>1, <1>2, <1>3, <1>4 DEF StreamsNext

\* What a step does to the streams.
LEMMA Shared ==
  ASSUME StreamsTyped, NEW r \in Call, StreamStep(r)
  PROVE  \/ UNCHANGED <<fd, open, sunk>> /\ pc[r] \notin {"restoreErr", "restoreIn"}
         \/ UNCHANGED <<fd, open, sunk>> /\ pc'[r] = pc[r]
         \/ /\ UNCHANGED <<fd, open, sunk>>
            /\ \/ pc[r] = "restoreErr" /\ "err" \notin swapped[r]
               \/ pc[r] = "restoreIn" /\ "in" \notin swapped[r]
         \/ /\ pc[r] = "open" /\ open' = open \cup (need[r] \X {r})
            /\ UNCHANGED <<fd, sunk>>
         \/ \E s \in need[r] :
              /\ \/ s = "in" /\ pc[r] = "swapIn"
                 \/ s = "err" /\ pc[r] = "swapErr"
              /\ fd' = [fd EXCEPT ![s] = r] /\ UNCHANGED <<open, sunk>>
         \/ \E s \in swapped[r] :
              /\ \/ s = "in" /\ pc[r] = "restoreIn"
                 \/ s = "err" /\ pc[r] = "restoreErr"
              /\ \/ r \in expired /\ sunk' = sunk \cup {s} /\ UNCHANGED <<fd, open>>
                 \/ /\ r \notin expired /\ fd' = [fd EXCEPT ![s] = Real]
                    /\ open' = open \ {<<s, r>>} /\ UNCHANGED sunk
<1> USE DEF streams, steps
<1>1. CASE RestoreErr(r) \/ RestoreIn(r)
  BY <1>1 DEF RestoreErr, RestoreIn, Restore
<1>2. CASE SwapIn(r) \/ SwapErr(r)
  BY <1>2 DEF SwapIn, SwapErr, Swap
<1>3. CASE OpenSinks(r)
  BY <1>3 DEF OpenSinks
<1>4. CASE Begin(r) \/ Retrieve(r) \/ Return(r)
  BY <1>4 DEF Begin, Retrieve, Return
<1>5. CASE Expire(r) \/ GoReadErr(r) \/ GoReadIn(r) \/ GoExec(r) \/ GoEnd(r)
  BY <1>5 DEF Expire, GoReadErr, GoReadIn, GoRead, GoExec, GoEnd
<1> QED
  BY <1>1, <1>2, <1>3, <1>4, <1>5 DEF StreamStep

\* Nobody assigns a stream while a command is being built.
LEMMA Still ==
  ASSUME StreamsTyped, InTurn, Covered, Pending, NEW r \in Call, StreamStep(r),
         NEW s \in Stream, fd'[s] # fd[s], NEW q \in Call
  PROVE  ~Building(q)
<1> SUFFICES ASSUME Building(q) PROVE FALSE
  OBVIOUS
<1>0. StreamTypes /\ StepTypes
  BY Types
<1>1. CASE s \in need[r] /\ pc[r] \in {"swapIn", "swapErr"}
  <2>1. ~Spared(s) /\ go[r] = "none"
    BY <1>1 DEF Covered, InTurn
  <2>2. Held(q, s)
    BY <2>1 DEF Pending
  <2>3. q = r
    BY <1>1, <2>2 DEF InTurn, Active, Held
  <2> QED
    BY <2>1, <2>3 DEF Building
<1>2. CASE /\ s \in swapped[r] /\ r \notin expired
           /\ \/ s = "in" /\ pc[r] = "restoreIn"
              \/ s = "err" /\ pc[r] = "restoreErr"
  <2>1. Held(r, s)
    BY <1>2 DEF Held
  <2>2. ~Spared(s)
    BY <2>1 DEF Covered, Spared
  <2>3. Held(q, s)
    BY <2>2 DEF Pending
  <2>4. q = r
    BY <1>2, <2>3 DEF InTurn, Active, Held
  <2> QED
    BY <1>2, <2>4 DEF Pending
<1> QED
  BY <1>0, <1>1, <1>2, Shared DEF StreamTypes, StepTypes

\* While one retrieval is under way no other one touches the streams.
LEMMA Aside ==
  ASSUME StreamsTyped, InTurn, NEW r \in Call, StreamStep(r),
         NEW q \in Call \ {r}, Active(q)
  PROVE  UNCHANGED <<fd, open, sunk>>
<1>1. ~Active(r)
  BY DEF InTurn
<1> QED
  BY <1>1, Shared DEF Active

LEMMA CoveredKept ==
  ASSUME StreamsTyped, InTurn, Covered, Returned, [StreamsNext]_helperVars PROVE Covered'
<1> DEFINE Part(q) ==
      /\ pc[q] \in {"open", "swapIn", "swapErr"} => need[q] = {s \in Stream : ~Spared(s)}
      /\ \A s \in Stream : Held(q, s) => fd[s] = q /\ s \notin sunk /\ ~Allowed(s)
      /\ pc[q] = "swapErr" => Spared("in") \/ Held(q, "in")
      /\ q \in helper /\ pc[q] \in {"retrieve", "wait", "restoreErr"} =>
           \A s \in Stream : Spared(s) \/ Held(q, s)
<1>0. StepTypes /\ SdkTypes /\ StreamTypes /\ \A q \in Call : Part(q)
  BY Types DEF Covered
<1>a. (\A q \in Call : Part(q)') => Covered'
  BY DEF Covered
<1> USE <1>0 DEF Held, Spared, Allowed
<1>1. CASE UNCHANGED helperVars
  BY <1>1 DEF helperVars, steps, sdk, streams, Covered
<1>2. ASSUME NEW r \in Call, Prepare(r), NEW q \in Call PROVE Part(q)'
  <2>1. /\ pc'[r] \in Early \cup {"ok", "failed", "refused"}
        /\ UNCHANGED <<fd, open, sunk>>
    BY <1>2 DEF Prepare, To, StepTypes, streams
  <2> QED
    BY <1>2, <2>1, OnlyOwn DEF Early
<1>3. ASSUME NEW r \in Call, StreamStep(r), NEW q \in Call \ {r} PROVE Part(q)'
  <2>1. Active(q) => UNCHANGED <<fd, open, sunk>>
    BY <1>3, Aside
  <2> QED
    BY <1>3, <2>1, OnlyOwn DEF Active
<1>4. ASSUME NEW r \in Call, Begin(r) PROVE Part(r)'
  <2>1. /\ need'[r] = {s \in Stream : ~Spared(s)} /\ UNCHANGED <<policy, fd, sunk, swapped>>
        /\ swapped[r] = {}
        /\ \/ pc'[r] = "open"
           \/ pc'[r] = "retrieve" /\ \A s \in Stream : Spared(s)
    BY <1>4, KeepIs DEF Begin, To, StepTypes, InTurn, Early
  <2> QED
    BY <2>1
<1>5. ASSUME NEW r \in Call, OpenSinks(r) PROVE Part(r)'
  <2>1. /\ pc[r] = "open" /\ swapped[r] = {}
        /\ UNCHANGED <<policy, fd, sunk, swapped, need, helper>>
        /\ \/ pc'[r] = "swapIn" \/ pc'[r] = "refused"
           \/ pc'[r] = "retrieve" /\ r \notin helper
    BY <1>5 DEF OpenSinks, To, StepTypes, InTurn
  <2> QED
    BY <2>1
<1>6. ASSUME NEW r \in Call, SwapIn(r) PROVE Part(r)'
  <2>1. /\ pc[r] = "swapIn" /\ pc'[r] = "swapErr" /\ swapped[r] = {}
        /\ UNCHANGED <<policy, sunk, need>>
        /\ \/ "in" \in need[r] /\ fd'["in"] = r /\ swapped'[r] = {"in"}
           \/ "in" \notin need[r] /\ swapped'[r] = {}
    BY <1>6 DEF SwapIn, Swap, To, StepTypes, StreamTypes, InTurn, Stream
  <2> QED
    BY <2>1 DEF Stream
<1>7. ASSUME NEW r \in Call, SwapErr(r) PROVE Part(r)'
  <2>1. /\ pc[r] = "swapErr" /\ pc'[r] = "retrieve" /\ fd'["in"] = fd["in"]
        /\ UNCHANGED <<policy, sunk>>
        /\ \/ "err" \in need[r] /\ fd'["err"] = r /\ swapped'[r] = swapped[r] \cup {"err"}
           \/ "err" \notin need[r] /\ UNCHANGED <<fd, swapped>>
    BY <1>7 DEF SwapErr, Swap, To, StepTypes, StreamTypes, Stream
  <2> QED
    BY <2>1 DEF Stream
<1>8. ASSUME NEW r \in Call,
             \/ Retrieve(r) \/ Return(r) \/ Expire(r)
             \/ GoReadErr(r) \/ GoReadIn(r) \/ GoExec(r) \/ GoEnd(r)
      PROVE  Part(r)'
  <2>1. /\ UNCHANGED <<policy, fd, sunk, swapped, need, helper>>
        /\ \/ pc'[r] = pc[r]
           \/ pc[r] = "retrieve" /\ pc'[r] = "wait"
           \/ pc[r] = "wait" /\ pc'[r] = "restoreErr"
    BY <1>8 DEF Retrieve, Return, Expire, GoReadErr, GoReadIn, GoRead, GoExec, GoEnd,
                To, StepTypes, streams, steps
  <2> QED
    BY <2>1
<1>9. ASSUME NEW r \in Call, RestoreErr(r) PROVE Part(r)'
  <2>1. /\ pc[r] = "restoreErr" /\ pc'[r] = "restoreIn" /\ UNCHANGED <<policy, swapped>>
        /\ fd'["in"] = fd["in"] /\ ("in" \in sunk' <=> "in" \in sunk)
    BY <1>9 DEF RestoreErr, Restore, To, StepTypes, StreamTypes, Stream
  <2> QED
    BY <2>1 DEF Stream
<1>10. ASSUME NEW r \in Call, RestoreIn(r) PROVE Part(r)'
  <2>1. pc'[r] \in {"ok", "failed", "abandoned"}
    BY <1>10 DEF RestoreIn, Returned, To, StepTypes
  <2> QED
    BY <2>1
<1>11. ASSUME NEW r \in Call, StreamStep(r) PROVE Part(r)'
  BY <1>4, <1>5, <1>6, <1>7, <1>8, <1>9, <1>10, <1>11 DEF StreamStep
<1> QED
  BY <1>1, <1>2, <1>3, <1>11, <1>a DEF StreamsNext

LEMMA InstalledKept ==
  ASSUME StreamsTyped, InTurn, Covered, Installed, Returned, [StreamsNext]_helperVars
  PROVE  Installed'
<1> DEFINE Opening(q, s) == /\ s \in need[q]
                            /\ pc[q] = "swapIn" \/ (s = "err" /\ pc[q] = "swapErr")
           Part(s) ==
             /\ s \in sunk => fd[s] \in expired /\ ~Allowed(s)
             /\ fd[s] # Real => <<s, fd[s]>> \in open /\ (s \in sunk \/ Held(fd[s], s))
             /\ \A q \in Call : /\ Opening(q, s) => <<s, q>> \in open
                                /\ <<s, q>> \in open => fd[s] = q \/ Opening(q, s)
<1>0. StepTypes /\ StreamTypes /\ \A s \in Stream : Part(s)
  BY Types DEF Installed, StreamTypes
<1>a. StreamTypes' /\ (\A s \in Stream : Part(s)') => Installed'
  BY DEF Installed, StreamTypes
<1>b. StreamTypes'
  BY StreamsTypedKept, Types DEF StreamsTyped, StreamsTypeOK, StreamTypes
<1> USE <1>0 DEF Held, Allowed
<1>1. CASE UNCHANGED helperVars
  BY <1>1 DEF helperVars, steps, streams, Installed
<1>2. ASSUME NEW r \in Call, Prepare(r), NEW s \in Stream PROVE Part(s)'
  <2>1. /\ pc[r] \in Early /\ pc'[r] \in Early \cup {"ok", "failed", "refused"}
        /\ UNCHANGED <<fd, open, sunk, need, swapped, expired>>
    BY <1>2 DEF Prepare, To, StepTypes, streams
  <2> QED
    BY <1>2, <2>1, OnlyOwn, RealIsNoCall DEF Early, StreamTypes
<1>3. ASSUME NEW r \in Call, OpenSinks(r), NEW s \in Stream PROVE Part(s)'
  <2>1. /\ pc[r] = "open" /\ pc'[r] \in {"swapIn", "refused", "retrieve"}
        /\ UNCHANGED <<fd, sunk, need, swapped, expired>>
        /\ \/ open' = open \cup (need[r] \X {r}) /\ pc'[r] = "swapIn"
           \/ open' = open /\ pc'[r] # "swapIn"
    BY <1>3 DEF OpenSinks, To, StepTypes
  <2> QED
    BY <1>3, <2>1, OnlyOwn, RealIsNoCall DEF StreamStep, StreamTypes
<1>4. ASSUME NEW r \in Call, SwapIn(r), NEW s \in Stream PROVE Part(s)'
  <2>1. /\ pc[r] = "swapIn" /\ pc'[r] = "swapErr" /\ fd'["err"] = fd["err"]
        /\ UNCHANGED <<sunk, open, need, expired>>
        /\ \/ /\ "in" \in need[r] /\ fd'["in"] = r
              /\ swapped'[r] = swapped[r] \cup {"in"}
           \/ "in" \notin need[r] /\ UNCHANGED <<fd, swapped>>
    BY <1>4 DEF SwapIn, Swap, To, StepTypes, StreamTypes, Stream
  <2>2. "in" \in need[r] => "in" \notin sunk /\ fd["in"] = Real
    <3> SUFFICES ASSUME "in" \in need[r], fd["in"] # Real PROVE FALSE
      BY <2>1 DEF Covered, Spared, Stream
    <3>1. "in" \notin sunk
      BY <2>1 DEF Covered, Spared
    <3>2. Held(fd["in"], "in") /\ fd["in"] \in Call
      BY <3>1 DEF Stream, StreamTypes
    <3>3. fd["in"] = r
      BY <2>1, <3>2 DEF InTurn, Active
    <3> QED
      BY <2>1, <3>2, <3>3
  <2> QED
    BY <1>4, <2>1, <2>2, OnlyOwn, RealIsNoCall DEF StreamStep, StreamTypes, Stream
<1>5. ASSUME NEW r \in Call, SwapErr(r), NEW s \in Stream PROVE Part(s)'
  <2>1. /\ pc[r] = "swapErr" /\ pc'[r] = "retrieve" /\ fd'["in"] = fd["in"]
        /\ UNCHANGED <<sunk, open, need, expired>>
        /\ \/ /\ "err" \in need[r] /\ fd'["err"] = r
              /\ swapped'[r] = swapped[r] \cup {"err"}
           \/ "err" \notin need[r] /\ UNCHANGED <<fd, swapped>>
    BY <1>5 DEF SwapErr, Swap, To, StepTypes, StreamTypes, Stream
  <2>2. "err" \in need[r] => "err" \notin sunk /\ (fd["err"] = Real \/ fd["err"] = r)
    <3> SUFFICES ASSUME "err" \in need[r], fd["err"] # Real
                 PROVE  "err" \notin sunk /\ fd["err"] = r
      BY <2>1 DEF Covered, Spared, Stream
    <3>1. "err" \notin sunk
      BY <2>1 DEF Covered, Spared
    <3>2. Held(fd["err"], "err") /\ fd["err"] \in Call
      BY <3>1 DEF Stream, StreamTypes
    <3> QED
      BY <2>1, <3>1, <3>2 DEF InTurn, Active
  <2> QED
    BY <1>5, <2>1, <2>2, OnlyOwn, RealIsNoCall DEF StreamStep, StreamTypes, Stream
<1>6. ASSUME NEW r \in Call, NEW s \in Stream,
             \/ Begin(r) \/ Retrieve(r) \/ Return(r) \/ Expire(r)
             \/ GoReadErr(r) \/ GoReadIn(r) \/ GoExec(r) \/ GoEnd(r)
      PROVE  Part(s)'
  <2>1. /\ UNCHANGED <<fd, open, sunk, swapped>> /\ expired \subseteq expired'
        /\ \/ pc'[r] = pc[r] /\ need' = need
           \/ /\ pc[r] = "sdk" /\ pc'[r] \in {"open", "retrieve"}
           \/ pc[r] = "retrieve" /\ pc'[r] = "wait" /\ need' = need
           \/ pc[r] = "wait" /\ pc'[r] = "restoreErr" /\ need' = need
    BY <1>6 DEF Begin, Retrieve, Return, Expire, GoReadErr, GoReadIn, GoRead, GoExec,
                GoEnd, To, StepTypes, streams, steps
  <2> QED
    BY <1>6, <2>1, OnlyOwn, RealIsNoCall DEF StreamStep, StreamTypes
<1>7. ASSUME NEW r \in Call, NEW t \in Stream, NEW s \in Stream, Restore(r, t),
             UNCHANGED <<swapped, expired, need>>,
             \/ t = "err" /\ pc[r] = "restoreErr" /\ pc'[r] = "restoreIn"
             \/ /\ t = "in" /\ pc[r] = "restoreIn"
                /\ pc'[r] \in {"ok", "failed", "abandoned"},
             RestoreErr(r) \/ RestoreIn(r)
      PROVE  Part(s)'
  <2>0. /\ policy' = policy
        /\ \A q \in Call, u \in Stream :
             /\ Opening(q, u)' <=> Opening(q, u)
             /\ q # r \/ u # t => (Held(q, u)' <=> Held(q, u))
    BY <1>7, OnlyOwn DEF StreamStep, Stream
  <2>1. CASE UNCHANGED <<fd, open, sunk>> /\ t \notin swapped[r]
    <3>1. ~Held(r, t)
      BY <2>1
    <3> HIDE DEF Held, Opening
    <3> QED
      BY <1>7, <2>0, <2>1, <3>1, RealIsNoCall DEF StreamTypes
  <2>2. CASE t \in swapped[r] /\ r \in expired /\ sunk' = sunk \cup {t} /\ UNCHANGED <<fd, open>>
    <3>1. fd[t] = r /\ ~Allowed(t)
      BY <1>7, <2>2 DEF Covered
    <3> HIDE DEF Held, Opening
    <3> QED
      BY <1>7, <2>0, <2>2, <3>1, RealIsNoCall DEF StreamTypes
  <2>3. CASE /\ t \in swapped[r] /\ fd'[t] = Real /\ open' = open \ {<<t, r>>} /\ sunk' = sunk
             /\ \A u \in Stream \ {t} : fd'[u] = fd[u]
    <3>0. ~Opening(r, t)
      BY <1>7
    <3>1. fd[t] = r /\ t \notin sunk
      BY <1>7, <2>3 DEF Covered
    <3>2. \A q \in Call, u \in Stream : <<u, q>> \in open' <=> <<u, q>> \in open /\ (u # t \/ q # r)
      BY <2>3
    <3> HIDE DEF Held, Opening
    <3>3. CASE s = t
      <4>1. s \notin sunk' /\ fd'[s] = Real
        BY <2>3, <3>1, <3>3
      <4>2. ASSUME NEW q \in Call
            PROVE  /\ Opening(q, s)' => <<s, q>> \in open'
                   /\ <<s, q>> \in open' => Opening(q, s)'
        <5>1. Opening(q, s)' <=> Opening(q, s)
          BY <2>0
        <5>2. /\ Opening(q, s) => <<s, q>> \in open
              /\ <<s, q>> \in open => fd[s] = q \/ Opening(q, s)
          BY <1>0
        <5>3. <<s, q>> \in open' <=> <<s, q>> \in open /\ q # r
          BY <3>2, <3>3
        <5> QED
          BY <3>0, <3>1, <3>3, <5>1, <5>2, <5>3
      <4> HIDE DEF Opening
      <4> QED
        BY <4>1, <4>2
    <3>4. CASE s # t
      <4>1. /\ fd'[s] = fd[s] /\ (fd[s] # Real => fd[s] \in Call)
            /\ s \in sunk' <=> s \in sunk
            /\ \A q \in Call : <<s, q>> \in open' <=> <<s, q>> \in open
            /\ \A q \in Call : Held(q, s)' <=> Held(q, s)
            /\ \A q \in Call : Opening(q, s)' <=> Opening(q, s)
        BY <2>0, <2>3, <3>2, <3>4 DEF StreamTypes
      <4>2. policy' = policy /\ expired' = expired
        BY <1>7, <2>0
      <4>3. Part(s)
        BY <1>0
      <4> QED
        BY <4>1, <4>2, <4>3
    <3> QED
      BY <3>3, <3>4
  <2> QED
    BY <1>7, <2>1, <2>2, <2>3 DEF Restore, StreamTypes
<1>8. ASSUME NEW r \in Call, NEW s \in Stream, RestoreErr(r) \/ RestoreIn(r)
      PROVE  Part(s)'
  <2>1. CASE RestoreErr(r)
    <3>1. /\ Restore(r, "err") /\ pc[r] = "restoreErr" /\ pc'[r] = "restoreIn"
          /\ UNCHANGED <<swapped, expired, need>>
      BY <2>1 DEF RestoreErr, To, StepTypes
    <3> QED
      BY <1>7, <2>1, <3>1 DEF Stream
  <2>2. CASE RestoreIn(r)
    <3>1. /\ Restore(r, "in") /\ pc[r] = "restoreIn"
          /\ pc'[r] \in {"ok", "failed", "abandoned"}
          /\ UNCHANGED <<swapped, expired, need>>
      BY <2>2 DEF RestoreIn, To, StepTypes, Returned
    <3> QED
      BY <1>7, <2>2, <3>1 DEF Stream
  <2> QED
    BY <1>8, <2>1, <2>2
<1>9. ASSUME NEW r \in Call, NEW s \in Stream, StreamStep(r) PROVE Part(s)'
  BY <1>3, <1>4, <1>5, <1>6, <1>8, <1>9 DEF StreamStep
<1> QED
  BY <1>1, <1>2, <1>9, <1>a, <1>b DEF StreamsNext

\* A latch stays.
LEMMA LatchKept ==
  ASSUME StreamsTyped, NEW r \in Call, Prepare(r) \/ StreamStep(r)
  PROVE  sunk \subseteq sunk'
<1>1. CASE Prepare(r)
  BY <1>1 DEF Prepare, streams
<1>2. CASE StreamStep(r)
  BY <1>2, Shared
<1> QED
  BY <1>1, <1>2

LEMMA PendingKept ==
  ASSUME StreamsTyped, InTurn, Covered, Pending, Returned, [StreamsNext]_helperVars
  PROVE  Pending'
<1> DEFINE Part(q) ==
      Building(q) => /\ q \in helper
                     /\ \/ pc[q] = "wait"
                        \/ q \in expired /\ pc[q] \in {"restoreErr", "restoreIn", "abandoned"}
                     /\ \A s \in Stream : Spared(s) \/ Held(q, s)
<1>0. StepTypes /\ SdkTypes /\ StreamTypes /\ \A q \in Call : Part(q)
  BY Types DEF Pending
<1>a. (\A q \in Call : Part(q)') => Pending'
  BY DEF Pending
<1> USE <1>0 DEF Held, Spared, Allowed, Building, StepTypes, SdkTypes
<1>1. CASE UNCHANGED helperVars
  BY <1>1 DEF helperVars, steps, sdk, streams, Pending
<1>2. ASSUME NEW r \in Call, Prepare(r) \/ StreamStep(r), NEW q \in Call \ {r}
      PROVE  Part(q)'
  BY <1>2, OnlyOwn, LatchKept
<1>3. ASSUME NEW r \in Call, Prepare(r) PROVE Part(r)'
  <2>1. go[r] = "none" /\ go' = go
    BY <1>3 DEF Prepare, sdk, InTurn
  <2> QED
    BY <2>1
<1>4. ASSUME NEW r \in Call, Begin(r) \/ OpenSinks(r) \/ SwapIn(r) \/ SwapErr(r)
      PROVE  Part(r)'
  <2>1. go[r] = "none" /\ go' = go
    BY <1>4 DEF Begin, OpenSinks, SwapIn, SwapErr, Swap, sdk, InTurn, Early
  <2> QED
    BY <2>1
<1>5. ASSUME NEW r \in Call, Retrieve(r) PROVE Part(r)'
  <2>1. /\ pc[r] = "retrieve" /\ pc'[r] = "wait"
        /\ UNCHANGED <<policy, sunk, swapped, helper>>
        /\ go'[r] = "start" => r \in helper
        /\ go'[r] \in {"start", "running"}
    BY <1>5 DEF Retrieve, To, streams
  <2> QED
    BY <2>1 DEF Covered
<1>6. ASSUME NEW r \in Call, Return(r) PROVE Part(r)'
  <2>1. /\ pc[r] = "wait" /\ pc'[r] = "restoreErr"
        /\ UNCHANGED <<policy, sunk, swapped, helper, go, expired>>
        /\ go[r] \in {"ok", "failed"} \/ r \in expired
    BY <1>6 DEF Return, To, streams, sdk
  <2> QED
    BY <2>1
<1>7. ASSUME NEW r \in Call,
             Expire(r) \/ GoReadErr(r) \/ GoReadIn(r) \/ GoExec(r) \/ GoEnd(r)
      PROVE  Part(r)'
  <2>1. /\ UNCHANGED <<policy, pc, sunk, swapped, helper>> /\ expired \subseteq expired'
        /\ Building(r)' => Building(r)
    BY <1>7 DEF Expire, GoReadErr, GoReadIn, GoRead, GoExec, GoEnd, streams, steps, sdk
  <2> QED
    BY <2>1
<1>8. ASSUME NEW r \in Call, RestoreErr(r) PROVE Part(r)'
  <2>1. /\ pc[r] = "restoreErr" /\ pc'[r] = "restoreIn"
        /\ UNCHANGED <<policy, swapped, helper, go, expired>>
        /\ sunk \subseteq sunk'
        /\ r \in expired /\ "err" \in swapped[r] => "err" \in sunk'
    BY <1>8 DEF RestoreErr, Restore, To, sdk
  <2> QED
    BY <2>1 DEF Stream
<1>9. ASSUME NEW r \in Call, RestoreIn(r) PROVE Part(r)'
  <2>1. /\ pc[r] = "restoreIn" /\ pc'[r] = got[r]
        /\ UNCHANGED <<policy, swapped, helper, go, expired>>
        /\ sunk \subseteq sunk'
        /\ r \in expired /\ "in" \in swapped[r] => "in" \in sunk'
    BY <1>9 DEF RestoreIn, Restore, To, sdk
  <2>2. Building(r) => got[r] = "abandoned"
    BY <2>1 DEF Returned
  <2> QED
    BY <2>1, <2>2 DEF Stream
<1>10. ASSUME NEW r \in Call, StreamStep(r) PROVE Part(r)'
  BY <1>4, <1>5, <1>6, <1>7, <1>8, <1>9, <1>10 DEF StreamStep
<1> QED
  BY <1>1, <1>2, <1>3, <1>10, <1>a DEF StreamsNext

\* What a helper about to start gets: the real stream if it is allowed one, and
\* otherwise an open sink.
LEMMA Given ==
  ASSUME StreamsTyped, Covered, Installed, Pending, NEW r \in Call, Building(r),
         NEW s \in Stream
  PROVE  /\ fd[s] = Real <=> Allowed(s)
         /\ fd[s] # Real => <<s, fd[s]>> \in open
<1>0. StepTypes /\ StreamTypes
  BY Types
<1>1. CASE Allowed(s)
  <2>1. s \notin sunk /\ \A q \in Call : ~Held(q, s)
    BY <1>1 DEF Installed, Covered
  <2> QED
    BY <1>0, <1>1, <2>1 DEF Installed, StreamTypes
<1>2. CASE ~Allowed(s)
  <2>1. s \in sunk \/ Held(r, s)
    BY <1>2 DEF Pending, Spared
  <2>2. fd[s] \in Call
    BY <1>0, <2>1 DEF Installed, Covered, StepTypes
  <2> QED
    BY <1>2, <2>2, RealIsNoCall DEF Installed
<1> QED
  BY <1>1, <1>2

LEMMA CommandedKept ==
  ASSUME StreamsTyped, InTurn, Covered, Installed, Pending, Commanded,
         [StreamsNext]_helperVars
  PROVE  Commanded'
<1> DEFINE Part(q) ==
      /\ go[q] \in {"readIn", "exec"} => cmd[q]["err"] = fd["err"]
      /\ go[q] = "exec" => cmd[q]["in"] = fd["in"]
      /\ Started(q) => \A s \in Stream : cmd[q][s] = Real <=> Allowed(s)
      /\ closed[q] = {}
<1>0. StepTypes /\ SdkTypes /\ StreamTypes /\ \A q \in Call : Part(q)
  BY Types DEF Commanded
<1>a. (\A q \in Call : Part(q)') => Commanded'
  BY DEF Commanded
<1> USE <1>0 DEF Allowed, Started, StepTypes, SdkTypes
<1>1. CASE UNCHANGED helperVars
  BY <1>1 DEF helperVars, steps, sdk, streams, Commanded
<1>2. ASSUME NEW r \in Call, Prepare(r) \/ StreamStep(r), NEW q \in Call, Building(q),
             NEW s \in Stream
      PROVE  fd'[s] = fd[s]
  BY <1>2, Still DEF Prepare, streams
<1>3. ASSUME NEW r \in Call, Prepare(r) \/ StreamStep(r), NEW q \in Call \ {r}
      PROVE  Part(q)'
  BY <1>2, <1>3, OnlyOwn DEF Building, Stream
<1>4. ASSUME NEW r \in Call, Prepare(r) PROVE Part(r)'
  <2>1. go[r] = "none" /\ UNCHANGED <<go, closed>>
    BY <1>4 DEF Prepare, sdk, InTurn
  <2> QED
    BY <2>1
<1>5. ASSUME NEW r \in Call,
             \/ Begin(r) \/ OpenSinks(r) \/ SwapIn(r) \/ SwapErr(r)
             \/ Return(r) \/ Expire(r) \/ RestoreErr(r) \/ RestoreIn(r)
      PROVE  Part(r)'
  <2>1. UNCHANGED <<policy, helper, go, cmd, closed>>
    BY <1>5 DEF Begin, OpenSinks, SwapIn, SwapErr, Swap, Return, Expire, RestoreErr,
                RestoreIn, sdk
  <2>2. StreamStep(r)
    BY <1>5 DEF StreamStep
  <2> QED
    BY <1>2, <2>1, <2>2 DEF Building, Stream
<1>6. ASSUME NEW r \in Call, Retrieve(r) PROVE Part(r)'
  <2>1. /\ go'[r] = IF r \in helper THEN "start" ELSE "running"
        /\ UNCHANGED <<helper, closed>>
    BY <1>6 DEF Retrieve
  <2> QED
    BY <2>1
<1>7. ASSUME NEW r \in Call, GoReadErr(r) \/ GoReadIn(r) PROVE Part(r)'
  <2>1. /\ UNCHANGED <<fd, closed>>
        /\ \/ go[r] = "start" /\ go'[r] = "readIn" /\ cmd'[r]["err"] = fd["err"]
           \/ /\ go[r] = "readIn" /\ go'[r] = "exec"
              /\ cmd'[r]["err"] = cmd[r]["err"] /\ cmd'[r]["in"] = fd["in"]
    BY <1>7 DEF GoReadErr, GoReadIn, GoRead, streams, Stream
  <2> QED
    BY <2>1
<1>8. ASSUME NEW r \in Call, GoExec(r) PROVE Part(r)'
  <2>1. /\ go[r] = "exec" /\ go'[r] = "running" /\ UNCHANGED <<policy, helper, cmd>>
        /\ closed'[r] = {s \in Stream : cmd[r][s] # Real /\ <<s, cmd[r][s]>> \notin open}
    BY <1>8 DEF GoExec, steps
  <2>2. \A s \in Stream : cmd[r][s] = fd[s]
    BY <2>1 DEF Stream
  <2>3. \A s \in Stream : /\ fd[s] = Real <=> Allowed(s)
                          /\ fd[s] # Real => <<s, fd[s]>> \in open
    BY <2>1, Given DEF Building
  <2>4. closed'[r] = {}
    BY <2>1, <2>2, <2>3
  <2> QED
    BY <2>1, <2>2, <2>3, <2>4
<1>9. ASSUME NEW r \in Call, GoEnd(r) PROVE Part(r)'
  <2>1. /\ go[r] = "running" /\ go'[r] \in {"ok", "failed"}
        /\ UNCHANGED <<policy, helper, cmd, closed>>
    BY <1>9 DEF GoEnd, steps
  <2> QED
    BY <2>1
<1>10. ASSUME NEW r \in Call, StreamStep(r) PROVE Part(r)'
  BY <1>5, <1>6, <1>7, <1>8, <1>9, <1>10 DEF StreamStep
<1> QED
  BY <1>1, <1>3, <1>4, <1>10, <1>a DEF StreamsNext

LEMMA RecordedKept ==
  ASSUME StreamsTyped, InTurn, Covered, Installed, Returned, Recorded,
         [StreamsNext]_helperVars
  PROVE  Recorded'
<1> DEFINE Part(q) ==
      /\ pc[q] \in {"open", "swapIn", "swapErr"} => sunk \subseteq discarded
      /\ pc[q] = "swapErr" => "in" \in discarded \/ Allowed("in")
      /\ q \in helper /\ pc[q] \in {"retrieve", "wait", "restoreErr", "restoreIn"} =>
           \A s \in Stream : s \in discarded \/ Allowed(s)
      /\ told[q] # NoMessage => Started(q) /\ told[q] = {s \in Stream : ~Allowed(s)}
    Judged == \A s \in discarded : ~Allowed(s)
<1>0. /\ StepTypes /\ SdkTypes /\ StreamTypes /\ ToldTypes
      /\ Judged /\ \A q \in Call : Part(q)
  BY Types DEF Recorded
<1>a. Judged' /\ (\A q \in Call : Part(q)') => Recorded'
  BY DEF Recorded
<1> USE <1>0 DEF Allowed, Started, StepTypes, SdkTypes, ToldTypes
<1>1. CASE UNCHANGED helperVars
  BY <1>1 DEF helperVars, steps, sdk, streams, Recorded
<1>2. ASSUME NEW r \in Call, Prepare(r) PROVE Judged' /\ Part(r)'
  <2>1. /\ go[r] = "none" /\ UNCHANGED <<policy, discarded, told>>
        /\ pc'[r] \in Early \cup {"ok", "failed", "refused"}
    BY <1>2 DEF Prepare, To, sdk, streams, InTurn
  <2>2. told[r] = NoMessage
    BY <2>1
  <2> QED
    BY <2>1, <2>2 DEF Early
<1>3. ASSUME NEW r \in Call, StreamStep(r) PROVE discarded \subseteq discarded'
  BY <1>3 DEF StreamStep, Begin, OpenSinks, SwapIn, SwapErr, Swap, Retrieve, Return,
     Expire, RestoreErr, RestoreIn, GoReadErr, GoReadIn, GoRead, GoExec, GoEnd, streams
<1>4. ASSUME NEW r \in Call, Prepare(r) \/ StreamStep(r), NEW q \in Call \ {r}
      PROVE  Part(q)'
  <2>1. Active(q) => UNCHANGED sunk
    BY <1>4, Aside DEF Prepare, streams
  <2>2. discarded \subseteq discarded'
    BY <1>3, <1>4 DEF Prepare, streams
  <2>3. /\ policy' = policy /\ pc'[q] = pc[q] /\ go'[q] = go[q] /\ told'[q] = told[q]
        /\ q \in helper' <=> q \in helper
    BY <1>4, OnlyOwn
  <2> QED
    BY <2>1, <2>2, <2>3 DEF Active
<1>5. ASSUME NEW r \in Call, Begin(r) PROVE Judged' /\ Part(r)'
  <2>1. /\ UNCHANGED <<policy, sunk, go, told, helper>> /\ discarded' = discarded \cup sunk
        /\ go[r] = "none"
        /\ \/ pc'[r] = "open"
           \/ pc'[r] = "retrieve" /\ \A s \in Stream : Spared(s)
    BY <1>5, KeepIs DEF Begin, To, sdk, InTurn, Early
  <2>2. told[r] = NoMessage
    BY <2>1
  <2> QED
    BY <2>1, <2>2 DEF Spared, Installed
<1>6. ASSUME NEW r \in Call, OpenSinks(r) PROVE Judged' /\ Part(r)'
  <2>1. /\ pc[r] = "open" /\ UNCHANGED <<policy, sunk, discarded, go, told, helper>>
        /\ \/ pc'[r] = "swapIn" \/ pc'[r] = "refused"
           \/ pc'[r] = "retrieve" /\ r \notin helper
    BY <1>6 DEF OpenSinks, To, sdk
  <2> QED
    BY <2>1
<1>7. ASSUME NEW r \in Call, SwapIn(r) PROVE Judged' /\ Part(r)'
  <2>1. /\ pc[r] = "swapIn" /\ pc'[r] = "swapErr"
        /\ UNCHANGED <<policy, sunk, go, told, helper>>
        /\ \/ "in" \in need[r] /\ discarded' = discarded \cup {"in"}
           \/ "in" \notin need[r] /\ discarded' = discarded
    BY <1>7 DEF SwapIn, Swap, To, sdk
  <2>2. need[r] = {s \in Stream : s \notin sunk /\ ~Allowed(s)}
    BY <2>1 DEF Covered, Spared
  <2> QED
    BY <2>1, <2>2 DEF Stream
<1>8. ASSUME NEW r \in Call, SwapErr(r) PROVE Judged' /\ Part(r)'
  <2>1. /\ pc[r] = "swapErr" /\ pc'[r] = "retrieve"
        /\ UNCHANGED <<policy, sunk, go, told, helper>>
        /\ \/ "err" \in need[r] /\ discarded' = discarded \cup {"err"}
           \/ "err" \notin need[r] /\ discarded' = discarded
    BY <1>8 DEF SwapErr, Swap, To, sdk
  <2>2. need[r] = {s \in Stream : s \notin sunk /\ ~Allowed(s)}
    BY <2>1 DEF Covered, Spared
  <2> QED
    BY <2>1, <2>2 DEF Stream
<1>9. ASSUME NEW r \in Call,
             \/ Retrieve(r) \/ Return(r) \/ Expire(r) \/ RestoreErr(r)
             \/ GoReadErr(r) \/ GoReadIn(r) \/ GoExec(r) \/ GoEnd(r)
      PROVE  Judged' /\ Part(r)'
  <2>1. /\ UNCHANGED <<policy, discarded, told, helper>>
        /\ \/ pc'[r] = pc[r] /\ sunk' = sunk
           \/ pc[r] = "retrieve" /\ pc'[r] = "wait"
           \/ pc[r] = "wait" /\ pc'[r] = "restoreErr"
           \/ pc[r] = "restoreErr" /\ pc'[r] = "restoreIn"
    BY <1>9 DEF Retrieve, Return, Expire, RestoreErr, GoReadErr, GoReadIn, GoRead, GoExec,
                GoEnd, To, streams, steps, sdk
  <2>2. \/ go'[r] = go[r]
        \/ go[r] = "running" /\ go'[r] \in {"ok", "failed"}
        \/ go[r] \notin {"running", "ok", "failed"}
    BY <1>9 DEF Retrieve, Return, Expire, RestoreErr, GoReadErr, GoReadIn, GoRead, GoExec,
                GoEnd, sdk, InTurn, Early
  <2> QED
    BY <2>1, <2>2
<1>10. ASSUME NEW r \in Call, RestoreIn(r) PROVE Judged' /\ Part(r)'
  <2>1. /\ pc[r] = "restoreIn" /\ pc'[r] = got[r]
        /\ UNCHANGED <<policy, discarded, go, helper>>
        /\ \/ told'[r] = told[r]
           \/ /\ got[r] = "failed" /\ r \in helper /\ told'[r] = discarded
    BY <1>10 DEF RestoreIn, To, sdk
  <2>2. got[r] \in {"ok", "failed", "abandoned"} /\ (got[r] = "failed" => go[r] = "failed")
    BY <2>1 DEF Returned
  <2>3. r \in helper => discarded = {s \in Stream : ~Allowed(s)}
    BY <2>1 DEF StreamTypes
  <2> QED
    BY <2>1, <2>2, <2>3
<1>11. ASSUME NEW r \in Call, StreamStep(r) PROVE Judged' /\ Part(r)'
  BY <1>5, <1>6, <1>7, <1>8, <1>9, <1>10, <1>11 DEF StreamStep
<1>12. ASSUME NEW r \in Call, Prepare(r) \/ StreamStep(r) PROVE Recorded'
  <2>1. Judged' /\ Part(r)'
    BY <1>2, <1>11, <1>12
  <2>2. \A q \in Call \ {r} : Part(q)'
    BY <1>4, <1>12
  <2> QED
    BY <2>1, <2>2, <1>a
<1> QED
  BY <1>1, <1>12 DEF StreamsNext

\* What leads up to a retrieval, and what it reports, is none of the streams' business.
LEMMA StreamSteps ==
  ASSUME [Next]_vars PROVE [StreamsNext]_helperVars
<1> USE DEF Early, To
<1>1. ASSUME NEW r \in Call, Begins(r) PROVE Prepare(r)
  BY <1>1 DEF Begins, Prepare, MayCall
<1>2. ASSUME NEW r \in Call, Choose(r) PROVE Prepare(r)
  BY <1>2 DEF Choose, Prepare
<1>3. ASSUME NEW r \in Call, Chain(r) PROVE Prepare(r)
  <2>1. \E l \in {"refused", "incomplete", "load"} : pc' = [pc EXCEPT ![r] = l]
    BY <1>3 DEF Chain
  <2> QED
    BY <1>3, <2>1 DEF Chain, Prepare
<1>4. ASSUME NEW r \in Call, Load(r) PROVE Prepare(r)
  <2>1. /\ \E l \in {"refused", "gate", "sdk"} : pc' = [pc EXCEPT ![r] = l]
        /\ helper' \in {helper, helper \cup {r}}
    BY <1>4 DEF Load
  <2> QED
    BY <1>4, <2>1 DEF Load, Prepare
<1>5. ASSUME NEW r \in Call, Native(r) PROVE Prepare(r)
  <2>1. \E l \in {"ok", "failed", "refused"} : pc' = [pc EXCEPT ![r] = l]
    BY <1>5 DEF Native
  <2> QED
    BY <1>5, <2>1 DEF Native, Prepare
<1>6. ASSUME NEW r \in Call, SDKStep(r) PROVE StreamStep(r)
  BY <1>6 DEF SDKStep, Retrieving, Refuses, Ends, StreamStep
<1>7. ASSUME KeysExpire \/ AllEnded \/ UNCHANGED vars PROVE UNCHANGED helperVars
  BY <1>7 DEF KeysExpire, AllEnded, vars
<1> QED
  BY <1>1, <1>2, <1>3, <1>4, <1>5, <1>6, <1>7 DEF Next, StreamsNext

LEMMA StreamsInitially ==
  ASSUME policy \in Policies, StreamsInit PROVE StreamsInv
<1> USE DEF StreamsInit
<1>1. StreamsTyped
  <2>1. StreamTypes
    BY DEF StreamTypes
  <2>2. StepTypes
    BY DEF StepTypes, CallPcs
  <2>3. SdkTypes
    BY DEF SdkTypes, GoPcs
  <2>4. ToldTypes
    <3>1. NoMessage \in (SUBSET Stream) \cup {NoMessage}
      OBVIOUS
    <3> HIDE DEF NoMessage
    <3> QED
      BY <3>1 DEF ToldTypes
  <2> QED
    BY <2>1, <2>2, <2>3, <2>4, Types
<1>2. InTurn /\ Returned
  BY DEF InTurn, Active, Early, Returned
<1>3. Covered
  BY DEF Covered, Held, Spared
<1>4. Installed
  BY DEF Installed
<1>5. Pending /\ Commanded
  BY DEF Pending, Building, Commanded, Started
<1>6. Recorded
  BY DEF Recorded
<1> QED
  BY <1>1, <1>2, <1>3, <1>4, <1>5, <1>6 DEF StreamsInv

LEMMA StreamsInvKept ==
  ASSUME ~Serving, StreamsInv, [StreamsNext]_helperVars PROVE StreamsInv'
BY StreamsTypedKept, InTurnKept, CoveredKept, InstalledKept, PendingKept, ReturnedKept,
   CommandedKept, RecordedKept DEF StreamsInv

LEMMA InvocationPolicy ==
  ASSUME Init PROVE policy \in Policies
<1> PICK i \in Inputs : policy = i.policy
  BY DEF Init
<1> QED
  BY InputsAreInvocations

LEMMA StreamsHold ==
  ASSUME ~Serving PROVE Spec => []StreamsInv
<1>1. Init => StreamsInv
  BY InvocationPolicy, StreamsInitially DEF Init
<1>2. StreamsInv /\ [Next]_vars => StreamsInv'
  BY StreamSteps, StreamsInvKept
<1> QED
  BY <1>1, <1>2, PTL DEF Spec

-----------------------------------------------------------------------------
(* The theorems about the streams *)

(* Contained: whatever the policy, whenever the SDK builds the command and
   whoever else has been given up, a helper is started on no stream that is not
   its to have (retrieveCredentials). *)
THEOREM HelpersContained ==
  ASSUME ~Serving PROVE Spec => []Contained
<1>1. StreamsInv => Contained
  BY DEF StreamsInv, Commanded, Contained
<1> QED
  BY <1>1, StreamsHold, PTL

(* PromptsReach: and a helper that may prompt or read its input gets the real
   stream. *)
THEOREM PromptsAnswered ==
  ASSUME ~Serving PROVE Spec => []PromptsReach
<1>1. StreamsInv => PromptsReach
  BY DEF StreamsInv, Commanded, PromptsReach
<1> QED
  BY <1>1, StreamsHold, PTL

(* SinksKept: no sink is closed under a helper, and however many retrievals are
   given up, one sink at most is left for each stream. *)
THEOREM SinksAccounted ==
  ASSUME ~Serving PROVE Spec => []SinksKept
<1>1. StreamsInv => SinksKept
  <2> SUFFICES ASSUME StreamsInv, \A r \in Call : ~Active(r), NEW s \in Stream
               PROVE  LET left == {q \in Call : <<s, q>> \in open}
                      IN  Cardinality(left) <= 1 /\ left \subseteq expired
    BY DEF StreamsInv, Commanded, SinksKept
  <2> DEFINE left == {q \in Call : <<s, q>> \in open}
  <2>1. \A q \in left : q = fd[s] /\ q \in expired
    <3> SUFFICES ASSUME NEW q \in Call, <<s, q>> \in open PROVE q = fd[s] /\ q \in expired
      OBVIOUS
    <3>1. fd[s] = q
      BY DEF StreamsInv, Installed, Active
    <3>2. s \in sunk
      BY <3>1, RealIsNoCall DEF StreamsInv, Installed, Held, Active
    <3> QED
      BY <3>1, <3>2 DEF StreamsInv, Installed
  <2>2. left = {} \/ left = {fd[s]}
    BY <2>1
  <2>3. Cardinality({}) = 0 /\ Cardinality({fd[s]}) = 1
    BY FS_EmptySet, FS_Singleton
  <2>4. Cardinality(left) <= 1
    <3> HIDE DEF left
    <3> QED
      BY <2>2, <2>3
  <2>5. left \subseteq expired
    BY <2>1
  <2> QED
    BY <2>4, <2>5
<1> QED
  BY <1>1, StreamsHold, PTL

(* QuietWrites: no step of bmcp assigns a stream that a goroutine of the SDK, of
   this retrieval or of one given up earlier, has yet to read. *)
THEOREM NoRaceOnStreams ==
  ASSUME ~Serving PROVE Spec => QuietWrites
<1> DEFINE Quiet == \A s \in Stream : fd'[s] # fd[s] => \A r \in Call : ~YetToRead(r, s)
<1>1. StreamsInv /\ [Next]_vars => [Quiet]_helperVars
  <2> SUFFICES ASSUME StreamsInv, [StreamsNext]_helperVars PROVE Quiet
    BY StreamSteps
  <2>1. CASE UNCHANGED helperVars
    BY <2>1 DEF helperVars, streams
  <2>2. ASSUME NEW r \in Call, Prepare(r) PROVE Quiet
    BY <2>2 DEF Prepare, streams
  <2>3. ASSUME NEW r \in Call, StreamStep(r) PROVE Quiet
    BY <2>3, Still DEF StreamsInv, YetToRead, Building
  <2> QED
    BY <2>1, <2>2, <2>3 DEF StreamsNext
<1> QED
  BY <1>1, StreamsHold, PTL DEF Spec, QuietWrites

-----------------------------------------------------------------------------
(* The choice of the credentials *)

\* Which profile is configured: the one of the highest place that names any.
LEMMA Configured ==
  ASSUME setup \in Setups
  PROVE  /\ cfgProfile = None <=> setup.named = {}
         /\ cfgProfile # "default"
         /\ namedForThisInvocation <=> setup.named \cap {"--profile", "BMCP_PROFILE"} # {}
<1> DEFINE First(i) == /\ Places[i] \in setup.named
                       /\ \A j \in 1 .. i - 1 : Places[j] \notin setup.named
<1>1. /\ Places[1] = "--profile" /\ Places[2] = "BMCP_PROFILE" /\ Places[3] = "AWS_PROFILE"
      /\ Places[4] = "AWS_DEFAULT_PROFILE" /\ Places[5] = "config.toml"
  BY DEF Places
<1>2. CASE setup.named = {}
  BY <1>2 DEF cfgProfile, namedForThisInvocation, None
<1>3. CASE setup.named # {}
  <2>1. \E i \in 1 .. 5 : Places[i] \in setup.named
    BY <1>3 DEF Setups, PlaceNames
  <2>2. \E i \in 1 .. 5 : First(i)
    BY <2>1
  <2>3. PICK k \in 1 .. 5 : k = (CHOOSE i \in 1 .. 5 : First(i)) /\ First(k)
    BY <2>2
  <2>4. cfgProfile = Places[k]
    BY <1>3, <2>3 DEF cfgProfile
  <2>5. k \in {1, 2} <=> setup.named \cap {"--profile", "BMCP_PROFILE"} # {}
    <3>1. k > 2 => 1 \in 1 .. k - 1 /\ 2 \in 1 .. k - 1
      OBVIOUS
    <3>2. k > 2 => Places[1] \notin setup.named /\ Places[2] \notin setup.named
      BY <2>3, <3>1
    <3>3. k \in {1, 2} \/ k > 2
      OBVIOUS
    <3> QED
      BY <1>1, <2>3, <3>2, <3>3
  <2>6. Places[k] \in {"--profile", "BMCP_PROFILE"} <=> k \in {1, 2}
    BY <1>1
  <2>7. Places[k] # None /\ Places[k] # "default"
    BY <1>1 DEF None
  <2> QED
    BY <1>3, <2>4, <2>5, <2>6, <2>7 DEF namedForThisInvocation
<1> QED
  BY <1>2, <1>3

\* What depends on the invocation alone.
LEMMA SameInvocation ==
  ASSUME UNCHANGED setup
  PROVE  /\ cfgProfile' = cfgProfile /\ envCredentialSource' = envCredentialSource
         /\ namedForThisInvocation' <=> namedForThisInvocation
         /\ \A p : Shape(p)' = Shape(p) /\ SDKDispatch(p)' = SDKDispatch(p)
         /\ \A p : SDKSource(p)' = SDKSource(p)
         /\ \A p : profileUsesSSO(p)' <=> profileUsesSSO(p)
         /\ \A p : ssoChain(p)' = ssoChain(p)
<1>1. cfgProfile' = cfgProfile
  BY DEF cfgProfile
<1>2. envCredentialSource' = envCredentialSource
  BY DEF envCredentialSource
<1>3. namedForThisInvocation' <=> namedForThisInvocation
  BY <1>1 DEF namedForThisInvocation
<1>4. \A p : Shape(p)' = Shape(p)
  BY DEF Shape
<1>5. \A p : SDKDispatch(p)' = SDKDispatch(p)
  BY <1>4 DEF SDKDispatch, SDKLeaf
<1>6. \A p : SDKSource(p)' = SDKSource(p)
  BY <1>2, <1>5 DEF SDKSource
<1>7. \A p : profileUsesSSO(p)' <=> profileUsesSSO(p)
  BY <1>4 DEF profileUsesSSO, leafUsesSSO, ssoLeafConfig
<1>8. \A p : ssoChain(p)' = ssoChain(p)
  BY <1>4, <1>7 DEF ssoChain, ssoLeafConfig
<1> QED
  BY <1>1, <1>2, <1>3, <1>4, <1>5, <1>6, <1>7, <1>8

\* The environment's credentials outrank the configured profile.
Outranked ==
  /\ cfgProfile # None /\ ~namedForThisInvocation /\ envCredentialSource # None
  /\ ~Demoted

\* The profile of the three questions bmcp asks, at different times.
Answered ==
  /\ sharedProfileFor.profile = IF Outranked THEN None ELSE cfgProfile
  /\ sharedProfileFor.outrankedBy = IF Outranked THEN envCredentialSource ELSE None
  /\ ssoProfileFor =
       IF Outranked THEN None
       ELSE IF cfgProfile # None THEN cfgProfile
       ELSE IF envCredentialSource = None /\ profileUsesSSO("default") THEN "default"
       ELSE None
  /\ describeCredentialSource =
       IF cfgProfile # None /\ ~Outranked THEN cfgProfile
       ELSE IF envCredentialSource # None THEN envCredentialSource ELSE "default"

LEMMA Answers == Answered
<1>1. /\ sharedProfileFor.profile = IF Outranked THEN None ELSE cfgProfile
      /\ sharedProfileFor.outrankedBy = IF Outranked THEN envCredentialSource ELSE None
  BY DEF sharedProfileFor, Outranked
<1>2. "default" # None
  BY DEF None
<1>3. Outranked => cfgProfile # None /\ envCredentialSource # None
  BY DEF Outranked
<1> HIDE DEF Outranked
<1> QED
  BY <1>1, <1>2, <1>3 DEF Answered, ssoProfileFor, describeCredentialSource

LEMMA AnswersLater == Answered'
BY Answers, PTL

\* A profile once in use stays: the keys of the environment only ever expire.
LEMMA Aged ==
  ASSUME [Next]_vars
  PROVE  /\ UNCHANGED <<setup, machine>> /\ (~Outranked => ~Outranked')
         /\ envCredentialsExpired => envCredentialsExpired'
<1>1. UNCHANGED <<setup, machine>> /\ (late' = late \/ late' = TRUE)
  BY DEF Next, vars, fixed, Begins, Choose, Chain, Load, Native, SDKStep, KeysExpire, AllEnded
<1>2. (Demoted => Demoted') /\ (envCredentialsExpired => envCredentialsExpired')
  BY <1>1 DEF Demoted, envCredentialsExpired
<1> QED
  BY <1>1, <1>2, SameInvocation DEF Outranked

-----------------------------------------------------------------------------
(* The choice *)

Invocation == setup \in Setups /\ machine \in Machines

\* The profile and the region handed to the SDK.
Chosen(r) ==
  pc[r] \notin {"idle", "choose"} =>
    /\ opt[r] \in {None, cfgProfile}
    /\ opt[r] # None => ~Outranked
    /\ opt[r] = None /\ cfgProfile # None =>
         ~namedForThisInvocation /\ envCredentialSource # None
    /\ setup.region = "none" /\ cfgProfile # None
         /\ Shape(cfgProfile).readable /\ Shape(cfgProfile).region =>
         \/ region[r] = cfgProfile
         \/ region[r] = None /\ opt[r] = cfgProfile /\ used[r] = Nothing

\* What bmcp resolves natively, and what it may leave to the SDK.
Chained(r) ==
  /\ native[r] # None => ssoChain(native[r]) = "native" /\ native[r] = ssoProfileFor
  /\ native[r] = None /\ (pc[r] = "load" \/ used[r] # Nothing) =>
       /\ opt[r] # None => ssoChain(opt[r]) = "sdk"
       /\ opt[r] = None /\ envCredentialSource = None => ssoChain("default") = "sdk"

\* What a call then consulted.
Consulted(r) ==
  /\ used[r] # Nothing =>
       /\ pc[r] \notin {"idle", "choose", "chain", "incomplete", "load"}
       /\ used[r] = IF native[r] # None THEN [who |-> native[r], how |-> "native"]
                    ELSE SDKSource(opt[r])
  /\ pc[r] = "gate" => used[r] # Nothing /\ native[r] # None
  /\ pc[r] \in StreamPcs => used[r] # Nothing /\ native[r] = None

Choices == \A r \in Call : Chosen(r) /\ Chained(r) /\ Consulted(r)

\* Every variable is a function on the calls.
PerCall ==
  /\ DOMAIN pc = Call /\ DOMAIN opt = Call /\ DOMAIN region = Call
  /\ DOMAIN native = Call /\ DOMAIN used = Call /\ DOMAIN named = Call
  /\ DOMAIN store = Call /\ DOMAIN remedy = Call
  /\ got \in [Call -> {"none", "ok", "failed", "abandoned"}]

ChoiceInv == Invocation /\ PerCall /\ Choices

\* A retrieval of the SDK leaves the choice alone.
LEMMA SDKMoves ==
  ASSUME PerCall, NEW r \in Call, SDKStep(r)
  PROVE  /\ UNCHANGED <<setup, machine, late, opt, region, native, used, store, remedy>>
         /\ PerCall'
         /\ \A q \in Call \ {r} : pc'[q] = pc[q] /\ named'[q] = named[q]
         /\ \/ pc'[r] = pc[r]
            \/ /\ pc[r] \in StreamPcs
               /\ pc'[r] \in StreamPcs \cup {"ok", "failed", "abandoned", "refused", "none"}
         /\ \/ /\ named'[r] = named[r]
               /\ pc'[r] = pc[r] \/ pc'[r] \in StreamPcs \cup {"ok"}
            \/ /\ pc[r] = "open" /\ r \in helper /\ pc'[r] = "refused"
               /\ named'[r] = describeCredentialSource
            \/ /\ pc[r] = "restoreIn" /\ pc'[r] = got[r] /\ got[r] # "ok"
               /\ named'[r] = describeCredentialSource
<1> USE DEF PerCall, To, StreamPcs, Names
<1>1. UNCHANGED <<setup, machine, late, opt, region, native, used, store, remedy>>
  BY DEF SDKStep, fixed
<1>2. CASE Ends(r)
  <2>1. pc[r] = "restoreIn" /\ pc' = [pc EXCEPT ![r] = got[r]] /\ got' = got
    BY <1>2 DEF Ends, RestoreIn
  <2>2. CASE got[r] = "ok"
    BY <1>1, <1>2, <2>1, <2>2 DEF Ends
  <2>3. CASE got[r] # "ok"
    BY <1>1, <1>2, <2>1, <2>3 DEF Ends
  <2> QED
    BY <2>2, <2>3
<1>4. CASE Refuses(r)
  <2>1. /\ pc[r] = "open" /\ got' = got
        /\ \/ pc' = [pc EXCEPT ![r] = "swapIn"]
           \/ pc' = [pc EXCEPT ![r] = "retrieve"]
           \/ r \in helper /\ pc' = [pc EXCEPT ![r] = "refused"]
    BY <1>4 DEF Refuses, OpenSinks
  <2>2. CASE pc'[r] = "refused"
    BY <1>1, <1>4, <2>1, <2>2 DEF Refuses
  <2>3. CASE pc'[r] # "refused"
    BY <1>1, <1>4, <2>1, <2>3 DEF Refuses
  <2> QED
    BY <2>2, <2>3
<1>3. CASE Retrieving(r)
  <2>1. named' = named
    BY <1>3 DEF Retrieving
  <2>2. CASE Begin(r) \/ Retrieve(r)
    BY <1>1, <2>1, <2>2 DEF Begin, Retrieve
  <2>3. CASE SwapIn(r) \/ SwapErr(r) \/ RestoreErr(r)
    BY <1>1, <2>1, <2>3 DEF SwapIn, SwapErr, Swap, RestoreErr
  <2>4. CASE Return(r)
    BY <1>1, <2>1, <2>4 DEF Return
  <2>5. CASE Expire(r) \/ GoReadErr(r) \/ GoReadIn(r) \/ GoExec(r) \/ GoEnd(r)
    BY <1>1, <2>1, <2>5 DEF Expire, GoReadErr, GoReadIn, GoRead, GoExec, GoEnd, steps
  <2> QED
    BY <1>3, <2>2, <2>3, <2>4, <2>5 DEF Retrieving
<1> QED
  BY <1>2, <1>3, <1>4 DEF SDKStep

\* The steps that choose, one by one.
LEMMA ChoosingMoves ==
  ASSUME PerCall, NEW r \in Call,
         Begins(r) \/ Choose(r) \/ Chain(r) \/ Load(r) \/ Native(r)
  PROVE  /\ UNCHANGED <<setup, machine, late, got>> /\ PerCall'
         /\ \A q \in Call \ {r} :
              /\ pc'[q] = pc[q] /\ opt'[q] = opt[q] /\ region'[q] = region[q]
              /\ native'[q] = native[q] /\ used'[q] = used[q] /\ named'[q] = named[q]
              /\ store'[q] = store[q] /\ remedy'[q] = remedy[q]
<1> USE DEF PerCall, To
<1>1. CASE Begins(r)
  BY <1>1 DEF Begins, fixed, choices
<1>2. CASE Choose(r)
  BY <1>2 DEF Choose, fixed
<1>3. CASE Chain(r)
  BY <1>3 DEF Chain, fixed
<1>4. CASE Load(r)
  <2>1. \E l : pc' = [pc EXCEPT ![r] = l]
    BY <1>4 DEF Load
  <2>2. /\ UNCHANGED <<setup, machine, late, got, opt, native, store, remedy>>
        /\ \E l : region' = [region EXCEPT ![r] = l] \/ region' = region
        /\ \E l : used' = [used EXCEPT ![r] = l] \/ used' = used
        /\ \E l : named' = [named EXCEPT ![r] = l] \/ named' = named
    BY <1>4 DEF Load, Names, fixed
  <2> QED
    BY <2>1, <2>2
<1>5. CASE Native(r)
  <2>1. /\ UNCHANGED <<setup, machine, late, got, opt, region, native, used>>
        /\ \E l : pc' = [pc EXCEPT ![r] = l]
        /\ \E l : store' = [store EXCEPT ![r] = l]
        /\ \E l : remedy' = [remedy EXCEPT ![r] = l] \/ remedy' = remedy
        /\ \E l : named' = [named EXCEPT ![r] = l] \/ named' = named
    BY <1>5 DEF Native, fixed
  <2> QED
    BY <2>1
<1> QED
  BY <1>1, <1>2, <1>3, <1>4, <1>5

\* What is chosen depends on the invocation alone, and on what is outranked.
LEMMA ChoicesStand ==
  ASSUME ChoiceInv, [Next]_vars, NEW q \in Call,
         opt'[q] = opt[q], region'[q] = region[q], native'[q] = native[q],
         used'[q] = used[q],
         \/ pc'[q] = pc[q]
         \/ pc[q] \in StreamPcs /\ pc'[q] \notin {"idle", "choose", "chain", "incomplete", "load", "gate"}
  PROVE  Chosen(q)' /\ Chained(q)' /\ Consulted(q)'
<1>0. /\ UNCHANGED setup /\ (~Outranked => ~Outranked')
  BY Aged
<1>1. Chosen(q) /\ Chained(q) /\ Consulted(q)
  BY DEF ChoiceInv, Choices
<1>2. Chosen(q)'
  BY <1>0, <1>1, SameInvocation DEF Chosen, StreamPcs
<1>3. native[q] # None => native'[q] = ssoProfileFor'
  <2>1. cfgProfile' = cfgProfile /\ (Outranked' => cfgProfile # None)
    BY <1>0, SameInvocation DEF Outranked
  <2> QED
    BY <1>0, <1>1, <2>1, Answers, AnswersLater, SameInvocation DEF Chained, Answered
<1>4. Chained(q)'
  BY <1>0, <1>1, <1>3, SameInvocation DEF Chained, Consulted, StreamPcs
<1>5. Consulted(q)'
  BY <1>0, <1>1, SameInvocation DEF Consulted, StreamPcs
<1> QED
  BY <1>2, <1>4, <1>5

\* Each step of the choice, for its own call.
LEMMA ChoosingKept ==
  ASSUME ChoiceInv, NEW r \in Call,
         Begins(r) \/ Choose(r) \/ Chain(r) \/ Load(r) \/ Native(r)
  PROVE  Chosen(r)' /\ Chained(r)' /\ Consulted(r)'
<1>0. /\ Chosen(r) /\ Chained(r) /\ Consulted(r) /\ PerCall /\ setup \in Setups
      /\ UNCHANGED <<setup, late>> /\ PerCall'
  BY ChoosingMoves DEF ChoiceInv, Choices, Invocation
<1>1. Outranked' <=> Outranked
  BY <1>0, SameInvocation DEF Outranked, Demoted, envCredentialsExpired
<1>2. ssoProfileFor' = ssoProfileFor
  BY <1>0, <1>1, Answers, AnswersLater, SameInvocation DEF Answered
<1> USE DEF PerCall, To, StreamPcs
<1>3. CASE Begins(r)
  <2>1. /\ pc[r] = "idle" /\ pc'[r] = "choose"
        /\ UNCHANGED <<opt, region, native, used>>
    BY <1>0, <1>3 DEF Begins, MayCall, choices
  <2> QED
    BY <1>0, <1>1, <1>2, <2>1, SameInvocation DEF Chosen, Chained, Consulted
<1>4. CASE Choose(r)
  <2>1. /\ pc[r] = "choose" /\ pc'[r] = "chain" /\ opt'[r] = sharedProfileFor.profile
        /\ region'[r] = regionOption /\ UNCHANGED <<native, used>>
    BY <1>0, <1>4 DEF Choose
  <2>2. Chained(r)' /\ Consulted(r)'
    BY <1>0, <1>1, <1>2, <2>1, SameInvocation DEF Chained, Consulted
  <2>3. /\ opt'[r] = IF Outranked THEN None ELSE cfgProfile
        /\ Outranked => cfgProfile # None /\ ~namedForThisInvocation /\ envCredentialSource # None
    BY <2>1, Answers DEF Answered, Outranked
  <2>4. ASSUME setup.region = "none", Shape(cfgProfile).readable, Shape(cfgProfile).region
        PROVE  region'[r] = cfgProfile \/ (region'[r] = None /\ opt'[r] = cfgProfile)
    <3>1. sharedProfileFor.outrankedBy # None <=> Outranked
      BY <2>3, Answers DEF Answered
    <3>2. regionOption = IF Outranked THEN cfgProfile ELSE None
      BY <2>4, <3>1 DEF regionOption
    <3> QED
      <4>1. CASE Outranked
        BY <2>1, <3>2, <4>1
      <4>2. CASE ~Outranked
        BY <2>1, <2>3, <3>2, <4>2
      <4> QED
        BY <4>1, <4>2
  <2>5. used[r] = Nothing
    BY <1>0, <2>1 DEF Consulted
  <2>6. cfgProfile' = cfgProfile /\ Shape(cfgProfile)' = Shape(cfgProfile)
    BY <1>0, SameInvocation DEF Shape
  <2>7. opt'[r] \in {None, cfgProfile} /\ (opt'[r] # None => ~Outranked)
    BY <2>3
  <2>8. opt'[r] = None /\ cfgProfile # None
          => ~namedForThisInvocation /\ envCredentialSource # None
    BY <2>3
  <2>9. UNCHANGED <<setup, used>>
    BY <1>0, <2>1
  <2>10. Chosen(r)'
    BY <1>0, <1>1, <2>4, <2>5, <2>6, <2>7, <2>8, <2>9, SameInvocation DEF Chosen
  <2> QED
    BY <2>2, <2>10
<1>5. CASE Chain(r)
  <2>1. /\ pc[r] = "chain" /\ pc'[r] \in {"refused", "incomplete", "load"}
        /\ native'[r] = IF ssoChain(ssoProfileFor) = "native" THEN ssoProfileFor ELSE None
        /\ pc'[r] = "load" => ssoChain(ssoProfileFor) \notin {"mfa", "incomplete"}
        /\ UNCHANGED <<opt, region, used>>
    BY <1>0, <1>5 DEF Chain
  <2>2. used[r] = Nothing
    BY <1>0, <2>1 DEF Consulted
  <2>3. ssoChain(ssoProfileFor) \in {"sdk", "native", "mfa", "incomplete"}
    BY DEF ssoChain
  <2>4. Chosen(r)' /\ Consulted(r)'
    BY <1>0, <1>1, <2>1, <2>2, SameInvocation DEF Chosen, Consulted
  <2>5. native'[r] # None => ssoChain(native[r])' = "native" /\ native'[r] = ssoProfileFor'
    BY <1>0, <1>2, <2>1, SameInvocation
  <2>6. ASSUME native'[r] = None, pc'[r] = "load"
        PROVE  ssoChain(ssoProfileFor) = "sdk"
    BY <2>1, <2>3, <2>6 DEF ssoChain
  <2>7. ASSUME native'[r] = None, pc'[r] = "load"
        PROVE  /\ opt[r] # None => ssoChain(opt[r]) = "sdk"
               /\ opt[r] = None /\ envCredentialSource = None => ssoChain("default") = "sdk"
    <3>1. opt[r] # None => ssoProfileFor = opt[r]
      BY <1>0, <2>1, Answers DEF Chosen, Answered
    <3>2. opt[r] = None /\ envCredentialSource = None /\ profileUsesSSO("default")
            => ssoProfileFor = "default"
      BY <1>0, <2>1, Answers DEF Chosen, Answered, Outranked
    <3> QED
      BY <2>6, <2>7, <3>1, <3>2 DEF ssoChain
  <2> QED
    BY <1>0, <2>1, <2>2, <2>4, <2>5, <2>7, SameInvocation DEF Chained
<1>6. CASE Load(r)
  <2>1. pc[r] \in {"incomplete", "load"} /\ UNCHANGED <<opt, native>>
    BY <1>6 DEF Load
  <2>2. used[r] = Nothing
    BY <1>0, <2>1 DEF Consulted
  <2>3. CASE pc[r] = "incomplete" \/ SDKLoadFails(opt[r])
    <3>1. pc'[r] = "refused" /\ UNCHANGED <<region, used>>
      BY <1>0, <1>6, <2>3 DEF Load
    <3> QED
      BY <1>0, <1>1, <1>2, <2>1, <2>2, <3>1, SameInvocation DEF Chosen, Chained, Consulted
  <2>4. CASE pc[r] = "load" /\ ~SDKLoadFails(opt[r])
    <3>1. /\ region'[r] = SDKRegion(opt[r], region[r])
          /\ used'[r] = IF native[r] # None THEN [who |-> native[r], how |-> "native"]
                        ELSE SDKSource(opt[r])
          /\ pc'[r] = IF native[r] # None THEN "gate" ELSE "sdk"
      BY <1>0, <1>6, <2>4 DEF Load
    <3>2. used'[r] # Nothing
      BY <3>1 DEF Nothing, SDKSource
    <3>3. Chained(r)' /\ Consulted(r)'
      BY <1>0, <1>2, <2>1, <2>4, <3>1, <3>2, SameInvocation DEF Chained, Consulted
    <3>4. setup.region = "none" /\ cfgProfile # None
            /\ Shape(cfgProfile).readable /\ Shape(cfgProfile).region => region'[r] = cfgProfile
      BY <1>0, <2>1, <3>1 DEF Chosen, SDKRegion, SDKProfile
    <3>5. /\ opt[r] \in {None, cfgProfile} /\ (opt[r] # None => ~Outranked)
          /\ opt[r] = None /\ cfgProfile # None =>
               ~namedForThisInvocation /\ envCredentialSource # None
      BY <1>0, <2>4 DEF Chosen
    <3> HIDE DEF StreamPcs, PerCall, To
    <3> QED
      BY <1>0, <1>1, <2>1, <3>3, <3>4, <3>5, SameInvocation DEF Chosen
  <2> QED
    BY <2>1, <2>3, <2>4
<1>7. CASE Native(r)
  <2>1. /\ pc[r] = "gate" /\ pc'[r] \in {"ok", "failed", "refused"}
        /\ UNCHANGED <<opt, region, native, used>>
    BY <1>0, <1>7 DEF Native
  <2> QED
    BY <1>0, <1>1, <1>2, <2>1, SameInvocation DEF Chosen, Chained, Consulted
<1> QED
  BY <1>3, <1>4, <1>5, <1>6, <1>7

LEMMA ChoicesInitially == Init => ChoiceInv
<1> SUFFICES ASSUME Init PROVE ChoiceInv
  OBVIOUS
<1>1. setup \in Setups /\ machine \in Machines
  <2> PICK i \in Inputs : setup = i.setup /\ machine = i.machine
    BY DEF Init
  <2> QED
    BY InputsAreInvocations
<1> DEFINE none == [r \in Call |-> None]  nothing == [r \in Call |-> Nothing]
<1>2. /\ opt = none /\ region = none /\ native = none /\ named = none
      /\ used = nothing /\ store = nothing /\ remedy = nothing
      /\ pc = [r \in Call |-> "idle"] /\ got = [r \in Call |-> "none"]
  BY DEF Init, StreamsInit
<1>3. PerCall
  BY <1>2 DEF PerCall
<1>4. Choices
  BY <1>2 DEF Choices, Chosen, Chained, Consulted, StreamPcs
<1> QED
  BY <1>1, <1>3, <1>4 DEF ChoiceInv, Invocation

LEMMA ChoiceInvKept == ChoiceInv /\ [Next]_vars => ChoiceInv'
<1> SUFFICES ASSUME ChoiceInv, [Next]_vars PROVE ChoiceInv'
  OBVIOUS
<1>0. PerCall
  BY DEF ChoiceInv
<1>1. Invocation'
  BY Aged DEF ChoiceInv, Invocation
<1>2. CASE KeysExpire \/ AllEnded \/ UNCHANGED vars
  <2>1. UNCHANGED <<pc, got, opt, region, native, used, named, store, remedy>>
    BY <1>2 DEF KeysExpire, AllEnded, vars, helperVars, steps, choices
  <2>2. PerCall'
    BY <1>0, <2>1 DEF PerCall
  <2> QED
    BY <1>1, <2>1, <2>2, ChoicesStand DEF ChoiceInv, Choices
<1>3. ASSUME NEW r \in Call, Begins(r) \/ Choose(r) \/ Chain(r) \/ Load(r) \/ Native(r)
      PROVE  ChoiceInv'
  <2>1. \A q \in Call \ {r} : Chosen(q)' /\ Chained(q)' /\ Consulted(q)'
    BY <1>0, <1>3, ChoosingMoves, ChoicesStand
  <2> QED
    BY <1>0, <1>1, <1>3, <2>1, ChoosingMoves, ChoosingKept DEF ChoiceInv, Choices
<1>4. ASSUME NEW r \in Call, SDKStep(r) PROVE ChoiceInv'
  <2>1. /\ UNCHANGED <<opt, region, native, used>> /\ PerCall'
        /\ \A q \in Call \ {r} : pc'[q] = pc[q]
        /\ \/ pc'[r] = pc[r]
           \/ /\ pc[r] \in StreamPcs
              /\ pc'[r] \in StreamPcs \cup {"ok", "failed", "abandoned", "refused", "none"}
    BY <1>0, <1>4, SDKMoves
  <2>2. pc'[r] = pc[r] \/ (/\ pc[r] \in StreamPcs
                           /\ pc'[r] \notin {"idle", "choose", "chain", "incomplete", "load", "gate"})
    BY <2>1 DEF StreamPcs
  <2> QED
    BY <1>1, <2>1, <2>2, ChoicesStand DEF ChoiceInv, Choices
<1> QED
  BY <1>2, <1>3, <1>4 DEF Next

LEMMA ChoicesHold == Spec => []ChoiceInv
BY ChoicesInitially, ChoiceInvKept, PTL DEF Spec

(* IdentityHeld: for any environment, any profiles and any moment at which the
   environment's keys expire, a call gets the profile named for the invocation,
   and otherwise none while the environment has credentials that work
   (sharedProfileFor, ssoProfileFor, ambientProfileRegion). *)
THEOREM Identity == Spec => []IdentityHeld
<1>1. ChoiceInv => IdentityHeld
  <2> SUFFICES ASSUME ChoiceInv, NEW r \in Call, used[r] # Nothing
               PROVE  /\ IF setup.named \cap {"--profile", "BMCP_PROFILE"} # {}
                           THEN used[r].who = cfgProfile
                           ELSE used[r].how # "environment"
                                  => ~setup.web /\ (setup.keys = "none" \/ envCredentialsExpired)
                      /\ setup.region = "none" /\ cfgProfile # None
                           /\ Shape(cfgProfile).readable /\ Shape(cfgProfile).region
                           => region[r] = cfgProfile
    BY DEF IdentityHeld
  <2>0. /\ setup \in Setups /\ Chosen(r) /\ Chained(r)
        /\ pc[r] \notin {"idle", "choose"}
        /\ used[r] = IF native[r] # None THEN [who |-> native[r], how |-> "native"]
                     ELSE SDKSource(opt[r])
    BY DEF ChoiceInv, Invocation, Choices, Consulted
  <2>a. setup.region = "none" /\ cfgProfile # None
          /\ Shape(cfgProfile).readable /\ Shape(cfgProfile).region
          => region[r] = cfgProfile
    BY <2>0 DEF Chosen
  <2>1. CASE namedForThisInvocation
    <3>1. cfgProfile # None /\ ~Outranked
      BY <2>0, <2>1, Configured DEF Outranked, namedForThisInvocation, None
    <3>2. opt[r] = cfgProfile
      BY <2>0, <2>1, <3>1 DEF Chosen
    <3>3. native[r] # None => native[r] = cfgProfile
      BY <2>0, <3>1, Answers DEF Chained, Answered
    <3>4. SDKSource(cfgProfile).who = cfgProfile
      BY <3>1 DEF SDKSource
    <3>5. used[r].who = cfgProfile
      BY <2>0, <3>2, <3>3, <3>4
    <3> QED
      BY <2>a, <2>0, <2>1, <3>5, Configured
  <2>2. CASE ~namedForThisInvocation
    <3>1. native[r] # None \/ opt[r] # None \/ envCredentialSource = None
            \/ used[r].how = "environment"
      BY <2>0 DEF SDKSource
    <3>2. native[r] # None => ~Outranked /\ (cfgProfile = None => envCredentialSource = None)
      BY <2>0, Answers DEF Chained, Answered
    <3>3. opt[r] # None => ~Outranked /\ cfgProfile # None
      BY <2>0 DEF Chosen
    <3>4. used[r].how # "environment" => envCredentialSource = None \/ Demoted
      BY <2>2, <3>1, <3>2, <3>3 DEF Outranked
    <3>5. used[r].how # "environment"
            => ~setup.web /\ (setup.keys = "none" \/ envCredentialsExpired)
      BY <2>0, <3>4 DEF envCredentialSource, Demoted, None
    <3> QED
      BY <2>a, <2>0, <2>2, <3>5, Configured
  <2> QED
    BY <2>1, <2>2
<1> QED
  BY <1>1, ChoicesHold, PTL

\* bmcp and the SDK look at the same leaf.
LEMMA Leaves ==
  ASSUME setup \in Setups, NEW p
  PROVE  /\ SDKLeaf(p) = ssoLeafConfig(p) /\ ssoLeafConfig(p) \in Nodes
         /\ Shape(p).readable \in BOOLEAN /\ Shape(p).mfa \in BOOLEAN
<1>1. Shape(p) \in Shapes
  BY DEF Shape, Setups
<1>2. Shape(p).nodes \in Seq(Nodes) \ {<<>>}
  BY <1>1 DEF Shapes
<1>3. Len(Shape(p).nodes) \in 1 .. Len(Shape(p).nodes)
  BY <1>2
<1> QED
  BY <1>1, <1>2, <1>3 DEF Shapes, SDKLeaf, ssoLeafConfig

(* NativeIsSDK: for any chain of profiles, what bmcp resolves natively ends at an
   SSO leaf in the SDK's switch, and what it leaves to the SDK never does
   (leafUsesSSO, resolveSSOChain), although it asks for the profile twice. *)
THEOREM NativeAgrees == Spec => []NativeIsSDK
<1>1. ASSUME setup \in Setups, NEW p
      PROVE  SDKDispatch(p) = "sso" <=> profileUsesSSO(p)
  <2>1. ssoLeafConfig(p).types \subseteq Kinds
    BY <1>1, Leaves DEF Nodes
  <2> QED
    BY <1>1, <2>1, Leaves DEF SDKDispatch, profileUsesSSO, leafUsesSSO, Kinds
<1>2. ChoiceInv => NativeIsSDK
  <2> SUFFICES ASSUME ChoiceInv, NEW r \in Call, used[r] # Nothing
               PROVE  IF native[r] # None THEN SDKDispatch(native[r]) = "sso"
                      ELSE used[r].how # "sso"
    BY DEF NativeIsSDK
  <2>0. /\ setup \in Setups /\ Chosen(r) /\ Chained(r) /\ Consulted(r)
        /\ pc[r] \notin {"idle", "choose"}
    BY DEF ChoiceInv, Invocation, Choices, Consulted
  <2>1. CASE native[r] # None
    BY <1>1, <2>0, <2>1 DEF Chained, ssoChain
  <2>2. ASSUME native[r] = None, used[r].how = "sso" PROVE FALSE
    <3>1. used[r] = SDKSource(opt[r])
      BY <2>0, <2>2 DEF Consulted
    <3> DEFINE p == IF opt[r] = None THEN "default" ELSE opt[r]
    <3>2. /\ used[r] = [who |-> p, how |-> SDKDispatch(p)]
          /\ opt[r] = None => envCredentialSource = None
      BY <2>2, <3>1 DEF SDKSource
    <3>3. profileUsesSSO(p)
      BY <1>1, <2>0, <2>2, <3>2
    <3>4. ssoChain(p) = "sdk"
      BY <2>0, <2>2, <3>2 DEF Chained
    <3> QED
      BY <3>3, <3>4, Configured, <2>0 DEF ssoChain, None
  <2> QED
    BY <2>1, <2>2
<1> QED
  BY <1>2, ChoicesHold, PTL

-----------------------------------------------------------------------------
(* What a failure reports *)

\* Nothing stands above the configured profile, or the default where none is.
Plain == ~Outranked /\ (cfgProfile = None => envCredentialSource = None)

Reported(r) ==
  /\ pc[r] \in {"failed", "abandoned"} \/ (pc[r] = "refused" /\ r \in helper)
       => named[r] # None
  /\ named[r] # None =>
       /\ pc[r] \in {"failed", "abandoned", "refused"}
       /\ named[r] = Source(r) \/ Overtaken(r)
  /\ pc[r] = "incomplete" => Plain
  /\ r \in helper => used[r] # Nothing /\ used[r].how = "process"
  /\ remedy[r] # Nothing =>
       /\ pc[r] = "failed" /\ remedy[r].profile = used[r].who
       /\ LET login == [machine EXCEPT !.flag = remedy[r].flag]
          IN  resolveBackend(login, TRUE).name = store[r].name
  /\ used[r] # Nothing /\ used[r].how = "environment" /\ used[r].who = "environment keys"
       => go[r] # "failed"

ReportsInv == StreamsInv /\ ChoiceInv /\ \A r \in Call : Reported(r)

\* The command handed back leads to the store that was asked.
LEMMA RemedyLeadsBack ==
  ASSUME machine \in Machines, NEW ui \in BOOLEAN
  PROVE  LET b == resolveBackend(machine, ui)
             login == [machine EXCEPT !.flag = RemedyFlag(machine, b.name)]
         IN  resolveBackend(login, TRUE).name = b.name
<1> DEFINE name == IF Setting(machine) \in {"unset", "auto"} THEN Preferred(machine, ui)
                   ELSE Setting(machine)
           login == [machine EXCEPT !.flag = RemedyFlag(machine, name)]
<1>1. resolveBackend(machine, ui).name = name
  BY DEF resolveBackend
<1>2. name \notin {"unset", "auto"}
  BY DEF Preferred
<1>3. login.flag = IF machine.flag # "unset" THEN name ELSE "unset"
  BY DEF RemedyFlag, FromFlag, Machines
<1>4. /\ login.env = machine.env /\ login.file = machine.file
      /\ login.goos = machine.goos /\ login.probe = machine.probe
  BY DEF Machines
<1>5. Setting(login) = IF machine.flag # "unset" THEN name ELSE Setting(machine)
  BY <1>2, <1>3, <1>4 DEF Setting
<1>6. Preferred(login, TRUE) = Preferred(machine, ui)
  BY <1>4 DEF Preferred, Reachable
<1>7. resolveBackend(login, TRUE).name = name
  BY <1>2, <1>5, <1>6 DEF resolveBackend
<1> QED
  BY <1>1, <1>7

\* Whom the SDK asks.
LEMMA Sourced ==
  ASSUME NEW o
  PROVE  /\ o # None => SDKSource(o).who = o
         /\ o = None /\ envCredentialSource = None => SDKSource(o).who = "default"
         /\ o = None /\ envCredentialSource # None =>
              SDKSource(o).who = envCredentialSource /\ SDKSource(o).how = "environment"
BY DEF SDKSource

\* A source is described as it was consulted, unless the environment's keys
\* were, which do not fail.
LEMMA Described ==
  ASSUME ChoiceInv, NEW r \in Call, used[r] # Nothing,
         ~(used[r].how = "environment" /\ used[r].who = "environment keys")
  PROVE  describeCredentialSource = used[r].who
<1>0. /\ Chosen(r) /\ Chained(r) /\ pc[r] \notin {"idle", "choose"}
      /\ used[r] = IF native[r] # None THEN [who |-> native[r], how |-> "native"]
                   ELSE SDKSource(opt[r])
  BY DEF ChoiceInv, Choices, Consulted
<1>1. CASE native[r] # None
  <2>1. used[r].who = native[r]
    BY <1>0, <1>1
  <2>2. native[r] = ssoProfileFor
    BY <1>0, <1>1 DEF Chained
  <2>3. Outranked => cfgProfile # None
    BY DEF Outranked
  <2> QED
    BY <1>1, <2>1, <2>2, <2>3, Answers DEF Answered
<1>2. CASE native[r] = None /\ opt[r] # None
  <2>1. used[r].who = opt[r]
    BY <1>0, <1>2, Sourced
  <2>2. opt[r] = cfgProfile /\ ~Outranked
    BY <1>0, <1>2 DEF Chosen
  <2> QED
    BY <1>2, <2>1, <2>2, Answers DEF Answered
<1>3. CASE native[r] = None /\ opt[r] = None /\ envCredentialSource = None
  <2>1. used[r].who = "default" /\ cfgProfile = None
    BY <1>0, <1>3, Sourced DEF Chosen
  <2> QED
    BY <1>3, <2>1, Answers DEF Answered
<1>4. CASE native[r] = None /\ opt[r] = None /\ envCredentialSource # None
  <2>1. used[r].who = envCredentialSource /\ used[r].how = "environment"
    BY <1>0, <1>4, Sourced
  <2>2. envCredentialSource # "environment keys"
    BY <2>1
  <2>3. setup.web
    BY <1>4, <2>2 DEF envCredentialSource
  <2>4. cfgProfile # None => Outranked
    BY <1>0, <1>4, <2>3 DEF Chosen, Outranked, Demoted
  <2> QED
    <3>1. describeCredentialSource = envCredentialSource
      BY <1>4, <2>4, Answers DEF Answered
    <3> QED
      BY <2>1, <3>1
<1> QED
  BY <1>1, <1>2, <1>3, <1>4

\* What comes of the environment was consulted for want of a profile.
LEMMA OfEnvironment ==
  ASSUME ChoiceInv, NEW r \in Call, used[r] # Nothing
  PROVE  \/ used[r].how # "environment"
         \/ /\ opt[r] = None /\ envCredentialSource # None
            /\ used[r].who = envCredentialSource
<1>0. used[r] = IF native[r] # None THEN [who |-> native[r], how |-> "native"]
                ELSE SDKSource(opt[r])
  BY DEF ChoiceInv, Choices, Consulted
<1>1. CASE native[r] # None
  <2>1. used[r].how = "native"
    BY <1>0, <1>1
  <2> QED
    BY <2>1
<1>2. CASE native[r] = None /\ ~(opt[r] = None /\ envCredentialSource # None)
  <2> DEFINE p == IF opt[r] = None THEN "default" ELSE opt[r]
  <2>1. used[r] = [who |-> p, how |-> SDKDispatch(p)]
    BY <1>0, <1>2 DEF SDKSource
  <2>2. SDKDispatch(p) # "environment"
    BY DEF SDKDispatch
  <2>3. used[r].how = SDKDispatch(p)
    BY <2>1
  <2> QED
    BY <2>2, <2>3
<1>3. CASE native[r] = None /\ opt[r] = None /\ envCredentialSource # None
  BY <1>0, <1>3, Sourced
<1> QED
  BY <1>1, <1>2, <1>3

\* Keys of the environment are described as such, or as the profile that took
\* their place when they had expired.
LEMMA DescribedKeys ==
  ASSUME ChoiceInv, NEW r \in Call, used[r] # Nothing,
         used[r].how = "environment", used[r].who = "environment keys"
  PROVE  \/ describeCredentialSource = used[r].who
         \/ envCredentialsExpired /\ describeCredentialSource = cfgProfile
<1>1. Chosen(r) /\ pc[r] \notin {"idle", "choose"}
  BY DEF ChoiceInv, Choices, Consulted
<1>2. /\ opt[r] = None /\ envCredentialSource # None
      /\ used[r].who = envCredentialSource
  BY OfEnvironment
<1>4. cfgProfile # None => ~namedForThisInvocation
  BY <1>1, <1>2 DEF Chosen
<1>5. CASE cfgProfile # None /\ ~Outranked
  <2>1. envCredentialsExpired
    BY <1>2, <1>4, <1>5 DEF Outranked, Demoted
  <2> QED
    BY <1>5, <2>1, Answers DEF Answered
<1>6. CASE ~(cfgProfile # None /\ ~Outranked)
  BY <1>2, <1>6, Answers DEF Answered
<1> QED
  BY <1>5, <1>6

\* An attempt whose configuration did not load is described as what it was to use.
LEMMA DescribedEarly ==
  ASSUME ChoiceInv, NEW r \in Call, Reported(r), pc[r] \in {"incomplete", "load"},
         pc[r] = "incomplete" \/ SDKLoadFails(opt[r])
  PROVE  used[r] = Nothing /\ describeCredentialSource = Source(r)
<1>0. Chosen(r) /\ used[r] = Nothing
  BY DEF ChoiceInv, Choices, Consulted
<1>1. Plain
  <2>1. CASE pc[r] = "incomplete"
    BY <2>1 DEF Reported
  <2>2. CASE SDKLoadFails(opt[r])
    <3>1. opt[r] # None \/ envCredentialSource = None
      BY <2>2 DEF SDKLoadFails, SDKSource
    <3>2. /\ opt[r] \in {None, cfgProfile} /\ (opt[r] # None => ~Outranked)
          /\ opt[r] = None /\ cfgProfile # None => envCredentialSource # None
      BY <1>0 DEF Chosen
    <3>3. envCredentialSource = None => ~Outranked
      BY DEF Outranked
    <3> QED
      BY <3>1, <3>2, <3>3 DEF Plain
  <2> QED
    BY <2>1, <2>2
<1>2. describeCredentialSource = IF cfgProfile = None THEN "default" ELSE cfgProfile
  BY <1>1, Answers DEF Answered, Plain
<1> QED
  BY <1>0, <1>2 DEF Source

\* A source always has a name.
LEMMA Unnamed == describeCredentialSource # None
<1>1. "default" # None
  BY DEF None
<1> QED
  BY <1>1, Answers DEF Answered

LEMMA ReportedKept ==
  ASSUME ReportsInv, [Next]_vars, NEW q \in Call PROVE Reported(q)'
<1>0. StreamsInv /\ StreamsTyped /\ PerCall /\ Reported(q) /\ machine \in Machines /\ ChoiceInv
  BY DEF ReportsInv, StreamsInv, ChoiceInv, Invocation
<1>g. go \in [Call -> GoPcs]
  BY <1>0, Types DEF SdkTypes
<1>m. machine' = machine
  BY Aged
<1>a. /\ cfgProfile' = cfgProfile /\ (Plain => Plain')
      /\ envCredentialsExpired => envCredentialsExpired'
  BY Aged, SameInvocation DEF Plain
<1>b. /\ used'[q] = used[q] => Source(q)' = Source(q)
      /\ used'[q] = used[q] /\ named'[q] = named[q] /\ pc'[q] = pc[q]
           => (Overtaken(q) => Overtaken(q)')
  BY <1>a DEF Source, Overtaken
<1>1. ASSUME /\ used'[q] = used[q] /\ remedy'[q] = remedy[q] /\ store'[q] = store[q]
             /\ named'[q] = named[q] /\ go'[q] = go[q] /\ pc'[q] = pc[q]
             /\ q \in helper' <=> q \in helper
      PROVE  Reported(q)'
  BY <1>0, <1>m, <1>a, <1>b, <1>1 DEF Reported
<1>2. CASE KeysExpire \/ AllEnded \/ UNCHANGED vars
  BY <1>1, <1>2 DEF KeysExpire, AllEnded, vars, helperVars, steps, sdk, choices
<1>3. ASSUME NEW r \in Call \ {q},
             Begins(r) \/ Choose(r) \/ Chain(r) \/ Load(r) \/ Native(r)
      PROVE  Reported(q)'
  <2>1. go' = go /\ (q \in helper' <=> q \in helper)
    BY <1>3 DEF Begins, Choose, Chain, Load, Native, sdk
  <2> QED
    BY <1>0, <1>1, <1>3, <2>1, ChoosingMoves
<1>4. ASSUME NEW r \in Call \ {q}, SDKStep(r) PROVE Reported(q)'
  <2>1. StreamStep(r)
    BY <1>4 DEF SDKStep, Retrieving, Refuses, Ends, StreamStep
  <2>2. go'[q] = go[q] /\ (q \in helper' <=> q \in helper)
    BY <1>0, <2>1, OnlyOwn
  <2> QED
    BY <1>0, <1>1, <1>4, <2>2, SDKMoves
<1>5. CASE Begins(q) \/ Choose(q) \/ Chain(q)
  <2>1. /\ pc[q] \in {"idle", "choose", "chain"}
        /\ pc'[q] \in {"choose", "chain", "refused", "incomplete", "load"}
        /\ UNCHANGED <<remedy, go, named, used, helper>>
    BY <1>0, <1>5 DEF Begins, MayCall, Choose, Chain, To, PerCall, sdk, choices
  <2>2. used[q] = Nothing
    BY <1>0, <2>1 DEF ChoiceInv, Choices, Consulted
  <2>3. remedy[q] = Nothing /\ named[q] = None /\ q \notin helper /\ go[q] = "none"
    BY <1>0, <2>1, <2>2 DEF Reported, StreamsInv, InTurn, Early
  <2>4. ASSUME pc'[q] = "incomplete" PROVE Plain
    <3>1. ssoChain(ssoProfileFor) = "incomplete"
      BY <1>0, <1>5, <2>4 DEF Begins, MayCall, Choose, Chain, To, PerCall
    <3>2. ssoProfileFor # None
      BY <3>1 DEF ssoChain
    <3> QED
      BY <3>2, Answers DEF Answered, Plain
  <2> QED
    BY <1>a, <2>1, <2>2, <2>3, <2>4 DEF Reported
<1>8. CASE Load(q)
  <2>1. pc[q] \in {"incomplete", "load"} /\ UNCHANGED <<remedy, go>>
    BY <1>8 DEF Load, sdk
  <2>2. used[q] = Nothing
    BY <1>0, <2>1 DEF ChoiceInv, Choices, Consulted
  <2>3. remedy[q] = Nothing /\ named[q] = None /\ q \notin helper /\ go[q] = "none"
    BY <1>0, <2>1, <2>2 DEF Reported, StreamsInv, InTurn, Early
  <2>4. CASE pc[q] = "incomplete" \/ SDKLoadFails(opt[q])
    <3>1. /\ pc'[q] = "refused" /\ UNCHANGED <<used, helper>>
          /\ named'[q] = describeCredentialSource
      BY <1>0, <1>8, <2>4 DEF Load, Names, To, PerCall
    <3>2. named'[q] # None /\ named'[q] = Source(q)'
      BY <1>0, <1>b, <2>1, <2>4, <3>1, DescribedEarly, Unnamed
    <3> QED
      BY <2>1, <2>2, <2>3, <3>1, <3>2 DEF Reported
  <2>5. CASE ~(pc[q] = "incomplete" \/ SDKLoadFails(opt[q]))
    <3> DEFINE source == IF native[q] # None THEN [who |-> native[q], how |-> "native"]
                         ELSE SDKSource(opt[q])
    <3>1. /\ pc'[q] \in {"gate", "sdk"} /\ UNCHANGED named /\ used'[q] = source
          /\ helper' = IF source.how = "process" THEN helper \cup {q} ELSE helper
      BY <1>0, <1>8, <2>5 DEF Load, To, PerCall
    <3>2. source # Nothing
      BY DEF Nothing, SDKSource
    <3> HIDE DEF source
    <3> QED
      BY <2>1, <2>3, <3>1, <3>2 DEF Reported
  <2> QED
    BY <2>4, <2>5
<1>6. CASE Native(q)
  <2>1. pc[q] = "gate" /\ UNCHANGED <<used, go, helper>>
    BY <1>6 DEF Native, sdk
  <2>2. /\ used[q] # Nothing /\ used[q] = [who |-> native[q], how |-> "native"]
        /\ remedy[q] = Nothing /\ named[q] = None /\ native[q] # None
    BY <1>0, <2>1 DEF Reported, ChoiceInv, Choices, Consulted
  <2>3. used[q].who = native[q] /\ used[q].how = "native"
    BY <2>2
  <2>10. describeCredentialSource = native[q]
    BY <1>0, <2>2, <2>3, Described
  <2>4. PICK fits \in BOOLEAN :
          LET b == resolveBackend(machine, MayAsk(fits)) IN
            /\ store' = [store EXCEPT ![q] = b]
            /\ \/ pc'[q] \in {"ok", "refused"} /\ remedy' = remedy /\ named' = named
               \/ /\ remedy' = [remedy EXCEPT ![q] =
                       [profile |-> native[q], flag |-> RemedyFlag(machine, b.name)]]
                  /\ named'[q] = native[q] /\ pc'[q] = "failed"
               \/ named'[q] = native[q] /\ remedy' = remedy /\ pc'[q] = "failed"
    BY <1>0, <1>6, <2>10 DEF Native, To, PerCall
  <2>5. MayAsk(fits) \in BOOLEAN
    BY <1>0, Types DEF MayAsk, Policies
  <2> DEFINE b == resolveBackend(machine, MayAsk(fits))
  <2>6. resolveBackend([machine EXCEPT !.flag = RemedyFlag(machine, b.name)], TRUE).name = b.name
    BY <1>0, <2>5, RemedyLeadsBack
  <2>7. store'[q] = b /\ used'[q].who = native[q]
    BY <1>0, <2>1, <2>3, <2>4 DEF PerCall
  <2>8. /\ pc'[q] \in {"ok", "refused", "failed"}
        /\ pc'[q] = "failed" => named'[q] # None
        /\ named'[q] # None => pc'[q] = "failed" /\ named'[q] = Source(q)'
    <3>1. Source(q)' = native[q]
      BY <2>1, <2>2, <2>7 DEF Source
    <3> QED
      BY <2>2, <2>4, <3>1
  <2>9. remedy'[q] # Nothing =>
          pc'[q] = "failed"
            /\ remedy'[q] = [profile |-> native[q], flag |-> RemedyFlag(machine, b.name)]
    BY <1>0, <2>2, <2>4 DEF PerCall
  <2> HIDE DEF b
  <2>11. ASSUME remedy'[q] # Nothing
         PROVE  /\ remedy'[q].profile = used'[q].who
                /\ LET login == [machine' EXCEPT !.flag = remedy'[q].flag]
                   IN  resolveBackend(login, TRUE).name = store'[q].name
    <3>1. /\ remedy'[q].profile = native[q]
          /\ remedy'[q].flag = RemedyFlag(machine, b.name)
      BY <2>9, <2>11
    <3> QED
      BY <1>m, <2>6, <2>7, <3>1
  <2>12. used'[q].how = "native" /\ q \notin helper'
    BY <1>0, <2>1, <2>3 DEF Reported
  <2> QED
    BY <2>8, <2>9, <2>11, <2>12 DEF Reported
<1>7. CASE SDKStep(q)
  <2>1. /\ UNCHANGED <<used, remedy, store>>
        /\ \/ pc'[q] = pc[q]
           \/ /\ pc[q] \in StreamPcs
              /\ pc'[q] \in StreamPcs \cup {"ok", "failed", "abandoned", "refused", "none"}
        /\ \/ /\ named'[q] = named[q]
              /\ pc'[q] = pc[q] \/ pc'[q] \in StreamPcs \cup {"ok"}
           \/ /\ pc[q] = "open" /\ q \in helper /\ pc'[q] = "refused"
              /\ named'[q] = describeCredentialSource
           \/ /\ pc[q] = "restoreIn" /\ pc'[q] = got[q] /\ got[q] # "ok"
              /\ named'[q] = describeCredentialSource
    BY <1>0, <1>7, SDKMoves
  <2>h. helper' = helper
    BY <1>7 DEF SDKStep, Retrieving, Refuses, Ends, Begin, OpenSinks, SwapIn, SwapErr, Swap,
                Retrieve, Return, Expire, RestoreErr, RestoreIn, GoReadErr, GoReadIn, GoRead,
                GoExec, GoEnd, steps
  <2>2. go'[q] = "failed" => go[q] = "failed" \/
          ~(used[q].how = "environment" /\ used[q].who = "environment keys")
    <3>1. CASE \/ Begin(q) \/ Refuses(q) \/ SwapIn(q) \/ SwapErr(q) \/ Retrieve(q)
               \/ Return(q) \/ Expire(q) \/ RestoreErr(q)
      BY <1>g, <3>1
         DEF Begin, Refuses, OpenSinks, SwapIn, SwapErr, Swap, Retrieve, Return, Expire,
             RestoreErr, sdk
    <3>2. CASE GoReadErr(q) \/ GoReadIn(q) \/ GoExec(q)
      BY <1>g, <3>2 DEF GoReadErr, GoReadIn, GoRead, GoExec
    <3>3. CASE Ends(q)
      BY <3>3 DEF Ends, RestoreIn, sdk
    <3>4. CASE used[q].how = "environment" /\ used[q].who = "environment keys" => go'[q] = "ok"
      BY <3>4
    <3> QED
      BY <1>7, <3>1, <3>2, <3>3, <3>4 DEF SDKStep, Retrieving
  <2>3. CASE named'[q] = named[q] /\ pc'[q] = pc[q]
    BY <1>0, <1>m, <1>a, <1>b, <2>1, <2>2, <2>3, <2>h DEF Reported
  <2>4. ASSUME pc[q] \in StreamPcs
        PROVE  /\ used[q] # Nothing /\ named[q] = None /\ remedy[q] = Nothing
               /\ pc'[q] # "incomplete"
    BY <1>0, <2>1, <2>4 DEF Reported, ChoiceInv, Choices, Consulted, StreamPcs
  <2>5. CASE /\ pc[q] \in StreamPcs /\ named'[q] = named[q]
             /\ pc'[q] \in StreamPcs \cup {"ok"}
    BY <1>0, <2>1, <2>2, <2>4, <2>5, <2>h DEF Reported, StreamPcs
  <2>6. CASE pc[q] = "open" /\ q \in helper /\ pc'[q] = "refused"
             /\ named'[q] = describeCredentialSource
    <3>1. used[q] # Nothing /\ used[q].how = "process"
      BY <1>0, <2>6 DEF Reported
    <3>2. describeCredentialSource = used[q].who
      BY <1>0, <3>1, Described
    <3>3. named'[q] = Source(q)' /\ named'[q] # None
      BY <2>1, <2>6, <3>1, <3>2, Unnamed DEF Source
    <3> QED
      BY <1>0, <2>1, <2>2, <2>4, <2>6, <2>h, <3>1, <3>3 DEF Reported, StreamPcs
  <2>7. CASE pc[q] = "restoreIn" /\ pc'[q] = got[q] /\ got[q] # "ok"
             /\ named'[q] = describeCredentialSource
    <3>1. /\ got[q] \in {"failed", "abandoned"} /\ (got[q] = "failed" => go[q] = "failed")
          /\ used[q] # Nothing
      BY <1>0, <2>4, <2>7 DEF PerCall, StreamsInv, Returned, StreamPcs
    <3>2. named'[q] # None
      BY <2>7, Unnamed
    <3>3. named'[q] = Source(q)' \/ Overtaken(q)'
      <4>1. CASE ~(used[q].how = "environment" /\ used[q].who = "environment keys")
        BY <1>0, <2>1, <2>7, <3>1, <4>1, Described DEF Source
      <4>2. CASE used[q].how = "environment" /\ used[q].who = "environment keys"
        <5>1. pc'[q] = "abandoned"
          BY <1>0, <2>7, <3>1, <4>2 DEF Reported
        <5>2. \/ named'[q] = used[q].who
              \/ envCredentialsExpired /\ named'[q] = cfgProfile
          BY <1>0, <2>7, <3>1, <4>2, DescribedKeys
        <5> QED
          BY <1>a, <2>1, <3>1, <4>2, <5>1, <5>2 DEF Source, Overtaken
      <4> QED
        BY <4>1, <4>2
    <3> QED
      BY <1>0, <2>1, <2>2, <2>4, <2>7, <2>h, <3>1, <3>2, <3>3 DEF Reported, StreamPcs
  <2> QED
    BY <2>1, <2>3, <2>5, <2>6, <2>7 DEF StreamPcs
<1> QED
  BY <1>2, <1>3, <1>4, <1>5, <1>6, <1>7, <1>8 DEF Next

LEMMA ReportsHold ==
  ASSUME ~Serving PROVE Spec => []ReportsInv
<1>1. Init => ReportsInv
  <2> SUFFICES ASSUME Init PROVE ReportsInv
    OBVIOUS
  <2>1. StreamsInv
    BY InvocationPolicy, StreamsInitially DEF Init
  <2>2. ASSUME NEW r \in Call PROVE Reported(r)
    <3>1. /\ pc[r] = "idle" /\ remedy[r] = Nothing /\ used[r] = Nothing
          /\ named[r] = None /\ r \notin helper
      BY DEF Init, StreamsInit
    <3> QED
      BY <3>1 DEF Reported
  <2> QED
    BY <2>1, <2>2, ChoicesInitially DEF ReportsInv
<1>2. ReportsInv /\ [Next]_vars => ReportsInv'
  BY StreamSteps, StreamsInvKept, ChoiceInvKept, ReportedKept DEF ReportsInv
<1> QED
  BY <1>1, <1>2, PTL DEF Spec

(* ReportsTrue: whatever goes through authFailure, failures, refusals and
   retrievals that were given up, names the source that was consulted, whatever
   has changed in between, with the one exception of Overtaken; a failed helper's
   message the streams it was denied, and a login that is asked for reaches the
   store this call read (describeCredentialSource, helperStreamsNote, Remedy). *)
THEOREM Reports ==
  ASSUME ~Serving PROVE Spec => []ReportsTrue
<1>1. ReportsInv => ReportsTrue
  <2> SUFFICES ASSUME ReportsInv, NEW r \in Call
               PROVE  /\ pc[r] \in {"failed", "abandoned"} \/ (pc[r] = "refused" /\ r \in helper)
                           => named[r] # None
                      /\ named[r] # None => named[r] = Source(r) \/ Overtaken(r)
                      /\ told[r] # NoMessage => told[r] = {s \in Stream : cmd[r][s] # Real}
                      /\ remedy[r] # Nothing =>
                           /\ remedy[r].profile = used[r].who
                           /\ LET login == [machine EXCEPT !.flag = remedy[r].flag]
                              IN  resolveBackend(login, TRUE).name = store[r].name
    BY DEF ReportsTrue
  <2>1. told[r] # NoMessage => told[r] = {s \in Stream : cmd[r][s] # Real}
    <3>1. told[r] # NoMessage => Started(r) /\ told[r] = {s \in Stream : ~Allowed(s)}
      BY DEF ReportsInv, StreamsInv, Recorded
    <3>2. Started(r) => \A s \in Stream : cmd[r][s] = Real <=> Allowed(s)
      BY DEF ReportsInv, StreamsInv, Commanded
    <3> QED
      BY <3>1, <3>2
  <2> QED
    BY <2>1 DEF ReportsInv, Reported
<1> QED
  BY <1>1, ReportsHold, PTL

=============================================================================

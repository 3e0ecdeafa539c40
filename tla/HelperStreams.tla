---------------------------- MODULE HelperStreams ----------------------------
(***************************************************************************)
(* The standard streams of a credential_process helper (awsauth.go:         *)
(* retrieveCredentials).  The SDK hands a helper whatever os.Stdin and      *)
(* os.Stderr hold at the moment its own goroutine builds the command, and   *)
(* that goroutine outlives a retrieval whose context has ended.  bmcp points *)
(* the two variables at sinks while a retrieval runs, puts them back after, *)
(* and latches a sink it may not take away any more.                        *)
(*                                                                         *)
(* A value of one of the variables is Real, the descriptor bmcp started     *)
(* with, or the retrieval whose sink it is.                                 *)
(***************************************************************************)
EXTENDS Naturals, FiniteSets

CONSTANTS Call,       \* the retrievals of one process
          Real,       \* the startup descriptor
          Serving     \* BOOLEAN: retrievals run concurrently, as under serve

ASSUME RealIsNoCall == Real \notin Call
ASSUME ServingIsBoolean == Serving \in BOOLEAN

VARIABLES
  policy,       \* what the invocation is: fixed before the first retrieval
  fd,           \* os.Stdin and os.Stderr
  open,         \* the sinks that are open, as <<stream, retrieval>>
  sunk,         \* stderrSunk and stdinSunk: the latched streams
  discarded,    \* helperStderrDiscarded and helperStdinDiscarded
  pc,           \* where each retrieval is
  helper,       \* the chain of a retrieval runs a credential_process
  need,         \* the streams a retrieval opens sinks for
  swapped,      \* the streams whose restore it has deferred
  expired,      \* retrievals whose context has ended
  got,          \* what provider.Retrieve returned: the end of its goroutine,
                \* or of the context
  go,           \* the SDK's goroutine of each retrieval
  cmd,          \* the descriptors that goroutine has put in its command
  closed,       \* history: the sinks that were closed when its helper started
  told          \* history: the discards a failure message named

streams == <<fd, open, sunk, discarded>>
steps   == <<pc, helper, need, swapped, expired, got>>
sdk     == <<go, cmd, closed>>
helperVars == <<policy, streams, steps, sdk, told>>

Stream == {"in", "err"}
NoMessage == {"none"}

StreamPcs == {"sdk", "open", "swapIn", "swapErr", "retrieve", "wait",
              "restoreErr", "restoreIn"}
CallPcs   == {"idle", "choose", "chain", "incomplete", "load", "gate", "ok", "failed",
              "refused", "abandoned"} \cup StreamPcs
GoPcs     == {"none", "start", "readIn", "exec", "running", "ok", "failed"}

Policies == [machine : BOOLEAN, nonInteractive : BOOLEAN, tty : BOOLEAN,
             owns : BOOLEAN, typed : BOOLEAN]

StreamsTypeOK ==
  /\ policy \in Policies
  /\ fd \in [Stream -> Call \cup {Real}]
  /\ open \subseteq Stream \X Call
  /\ sunk \subseteq Stream /\ discarded \subseteq Stream
  /\ helper \subseteq Call /\ expired \subseteq Call
  /\ got \in [Call -> {"none", "ok", "failed", "abandoned"}]
  /\ need \in [Call -> SUBSET Stream] /\ swapped \in [Call -> SUBSET Stream]
  /\ go \in [Call -> GoPcs]
  /\ cmd \in [Call -> [Stream -> Call \cup {Real}]]
  /\ closed \in [Call -> SUBSET Stream]
  /\ told \in [Call -> (SUBSET Stream) \cup {NoMessage}]

StreamsInit ==
  /\ fd = [s \in Stream |-> Real]
  /\ open = {} /\ sunk = {} /\ discarded = {}
  /\ pc = [r \in Call |-> "idle"]
  /\ helper = {} /\ expired = {} /\ got = [r \in Call |-> "none"]
  /\ need = [r \in Call |-> {}] /\ swapped = [r \in Call |-> {}]
  /\ go = [r \in Call |-> "none"]
  /\ cmd = [r \in Call |-> [s \in Stream |-> Real]]
  /\ closed = [r \in Call |-> {}]
  /\ told = [r \in Call |-> NoMessage]

-----------------------------------------------------------------------------
Active(r) == pc[r] \notin {"idle", "ok", "failed", "refused", "abandoned"}
MayCall(r) == pc[r] = "idle" /\ (Serving \/ \A q \in Call : ~Active(q))
To(r, l) == pc' = [pc EXCEPT ![r] = l]

\* Two policies: who can see fd 2, and who is reading fd 0.
keepStderr ==
  "err" \in sunk \/ (~policy.machine /\ ~policy.nonInteractive /\ policy.tty)
\* Mutant: one gate for both streams.
keepStdin_oneGate == keepStderr
keepStdin == "in" \in sunk \/ ~policy.owns
\* Mutant: a latched stream is judged again.
Keep_again(s) ==
  IF s = "err" THEN ~policy.machine /\ ~policy.nonInteractive /\ policy.tty
  ELSE ~policy.owns
Keep(s) == IF s = "err" THEN keepStderr ELSE keepStdin

\* The discards of an earlier retrieval are recorded, then the policies asked.
Begin(r) ==
  /\ pc[r] = "sdk"
  /\ discarded' = discarded \cup sunk
  /\ need' = [need EXCEPT ![r] = {s \in Stream : ~Keep(s)}]
  /\ To(r, IF \A s \in Stream : Keep(s) THEN "retrieve" ELSE "open")
  /\ UNCHANGED <<policy, fd, open, sunk, helper, got, swapped, expired, sdk, told>>

\* Both sinks are opened before either is installed; where one cannot be, a
\* chain that runs a helper is refused and any other retrieved without them.
OpenSinks(r) ==
  /\ pc[r] = "open"
  /\ \/ /\ open' = open \cup (need[r] \X {r})
        /\ To(r, "swapIn")
     \/ /\ To(r, IF r \in helper THEN "refused" ELSE "retrieve")
        /\ UNCHANGED open
  /\ UNCHANGED <<policy, fd, sunk, discarded, helper, need, got, swapped,
                 expired, sdk, told>>

Swap(r, s, from, next) ==
  /\ pc[r] = from
  /\ IF s \in need[r]
       THEN /\ discarded' = discarded \cup {s}
            /\ fd' = [fd EXCEPT ![s] = r]
            /\ swapped' = [swapped EXCEPT ![r] = @ \cup {s}]
       ELSE UNCHANGED <<discarded, fd, swapped>>
  /\ To(r, next)
  /\ UNCHANGED <<policy, open, sunk, helper, need, got, expired, sdk, told>>

SwapIn(r)  == Swap(r, "in", "swapIn", "swapErr")
SwapErr(r) == Swap(r, "err", "swapErr", "retrieve")

\* provider.Retrieve: the cache starts its goroutine and waits for it or for
\* the context.
Retrieve(r) ==
  /\ pc[r] = "retrieve"
  /\ go' = [go EXCEPT ![r] = IF r \in helper THEN "start" ELSE "running"]
  /\ To(r, "wait")
  /\ UNCHANGED <<policy, streams, helper, need, got, swapped, expired, cmd,
                 closed, told>>

Return(r) ==
  /\ pc[r] = "wait"
  /\ \/ go[r] \in {"ok", "failed"} /\ got' = [got EXCEPT ![r] = go[r]]
     \/ r \in expired /\ got' = [got EXCEPT ![r] = "abandoned"]
  /\ To(r, "restoreErr")
  /\ UNCHANGED <<policy, streams, helper, need, swapped, expired, sdk, told>>

\* Any other end of the context than the caller's own is the same to it.
Expire(r) ==
  /\ Active(r) /\ r \notin expired
  /\ expired' = expired \cup {r}
  /\ UNCHANGED <<policy, streams, pc, helper, need, got, swapped, sdk, told>>

\* The deferred restore of a stream: left in place, open and latched where the
\* context has ended, put back and closed where it has not.
\* Mutant: the sink is closed although its goroutine may outlive the call.
Restore_closes(r, s) ==
  IF s \notin swapped[r] THEN UNCHANGED <<fd, open, sunk>>
  ELSE /\ open' = open \ {<<s, r>>}
       /\ IF r \in expired THEN sunk' = sunk \cup {s} /\ UNCHANGED fd
          ELSE fd' = [fd EXCEPT ![s] = Real] /\ UNCHANGED sunk
\* Mutant: the stream is put back whether or not the context has ended.
Restore_always(r, s) ==
  IF s \notin swapped[r] THEN UNCHANGED <<fd, open, sunk>>
  ELSE /\ fd' = [fd EXCEPT ![s] = Real] /\ open' = open \ {<<s, r>>}
       /\ UNCHANGED sunk
Restore(r, s) ==
  IF s \notin swapped[r] THEN UNCHANGED <<fd, open, sunk>>
  ELSE IF r \in expired THEN sunk' = sunk \cup {s} /\ UNCHANGED <<fd, open>>
  ELSE /\ fd' = [fd EXCEPT ![s] = Real] /\ open' = open \ {<<s, r>>}
       /\ UNCHANGED sunk

\* Deferred last, run first.
RestoreErr(r) ==
  /\ pc[r] = "restoreErr"
  /\ Restore(r, "err")
  /\ To(r, "restoreIn")
  /\ UNCHANGED <<policy, discarded, helper, need, got, swapped, expired, sdk, told>>

\* A helper's failure is reported from its type, with the discards it may owe
\* its failure to; what the cache returned decides which failure it is.
RestoreIn(r) ==
  /\ pc[r] = "restoreIn"
  /\ Restore(r, "in")
  /\ To(r, got[r])
  /\ told' = IF got[r] = "failed" /\ r \in helper
               THEN [told EXCEPT ![r] = discarded] ELSE told
  /\ UNCHANGED <<policy, discarded, helper, need, swapped, expired, got, sdk>>

-----------------------------------------------------------------------------
(* The SDK's goroutine: NewCommand reads os.Stderr, then os.Stdin; the command
   is started; the helper ends. *)

GoRead(r, s, from, next) ==
  /\ go[r] = from
  /\ cmd' = [cmd EXCEPT ![r][s] = fd[s]]
  /\ go' = [go EXCEPT ![r] = next]
  /\ UNCHANGED <<policy, streams, steps, closed, told>>
GoReadErr(r) == GoRead(r, "err", "start", "readIn")
GoReadIn(r)  == GoRead(r, "in", "readIn", "exec")

GoExec(r) ==
  /\ go[r] = "exec"
  /\ closed' = [closed EXCEPT ![r] =
       {s \in Stream : cmd[r][s] # Real /\ <<s, cmd[r][s]>> \notin open}]
  /\ go' = [go EXCEPT ![r] = "running"]
  /\ UNCHANGED <<policy, streams, steps, cmd, told>>

GoEnd(r) ==
  /\ go[r] = "running"
  /\ \E end \in {"ok", "failed"} : go' = [go EXCEPT ![r] = end]
  /\ UNCHANGED <<policy, streams, steps, cmd, closed, told>>

StreamStep(r) ==
  \/ Begin(r) \/ OpenSinks(r) \/ SwapIn(r) \/ SwapErr(r) \/ Retrieve(r)
  \/ Return(r) \/ Expire(r) \/ RestoreErr(r) \/ RestoreIn(r)
  \/ GoReadErr(r) \/ GoReadIn(r) \/ GoExec(r) \/ GoEnd(r)

-----------------------------------------------------------------------------
(* By itself: calls of a process whose chain runs a helper, under serve. *)

ServeCall(r) ==
  /\ MayCall(r)
  /\ helper' = helper \cup {r}
  /\ To(r, "sdk")
  /\ UNCHANGED <<policy, streams, need, got, swapped, expired, sdk, told>>

\* cmdServe: a machine format, fd 0 its own, nobody typing.
ServePolicy == [machine |-> TRUE, nonInteractive |-> FALSE, tty |-> FALSE,
                owns |-> TRUE, typed |-> FALSE]
ServeInit == StreamsInit /\ policy = ServePolicy
AllServed ==
  /\ \A r \in Call : pc[r] # "idle" /\ ~Active(r) /\ go[r] \in {"none", "ok", "failed"}
  /\ UNCHANGED helperVars
ServeNext == (\E r \in Call : ServeCall(r) \/ StreamStep(r)) \/ AllServed
ServeSpec == ServeInit /\ [][ServeNext]_helperVars

-----------------------------------------------------------------------------
(* Properties *)

\* What a helper may have: a stderr somebody watches, a stdin bmcp leaves alone.
Allowed(s) ==
  IF s = "in" THEN ~policy.owns
  ELSE policy.tty /\ ~policy.machine /\ ~policy.nonInteractive
Started(r) == r \in helper /\ go[r] \in {"running", "ok", "failed"}

(* A helper is never started on a stream that is not its to have: the stdin
   bmcp reads itself, or a stderr that is captured, promised to a document or
   watched by nobody.  It holds however late the SDK builds the command, after
   the retrieval was given up and while later ones run (#61, #65). *)
Contained ==
  \A r \in Call : Started(r)
    => \A s \in Stream : cmd[r][s] = Real => Allowed(s)

(* And the other way round: a helper that may prompt, or read what was piped
   in for it, gets the real stream, unless an abandoned retrieval has left its
   sink there for good. *)
PromptsReach ==
  \A r \in Call : Started(r)
    => \A s \in Stream : Allowed(s) => cmd[r][s] = Real

(* No step assigns os.Stdin or os.Stderr while an SDK goroutine, abandoned or
   not, has yet to read it: it would be a data race, and the helper's stream
   anybody's guess. *)
YetToRead(r, s) == go[r] = "start" \/ (s = "in" /\ go[r] = "readIn")
QuietWrites ==
  [][\A s \in Stream : fd'[s] # fd[s] => \A r \in Call : ~YetToRead(r, s)]_helperVars

(* A sink lives as long as a helper may start on it and no longer: none is
   closed under a helper, whose first file would become its stderr, and when
   all is over only retrievals whose context ended have left one open, one for
   each stream however many were abandoned. *)
SinksKept ==
  /\ \A r \in Call : closed[r] = {}
  /\ (\A r \in Call : ~Active(r)) =>
       \A s \in Stream :
         LET left == {q \in Call : <<s, q>> \in open}
         IN  Cardinality(left) <= 1 /\ left \subseteq expired
=============================================================================

-------------------------- MODULE LoginStoreProofs --------------------------
(***************************************************************************)
(* Theorems about LoginFlow and CredStore: both keep, step by step, what     *)
(* BrowserLogin and ItemStore promise.                                       *)
(***************************************************************************)
EXTENDS LoginFlow, CredStore, TLAPS

-----------------------------------------------------------------------------
(* The browser login *)

\* Which flow each place belongs to, and the times it knows.
Timed ==
  /\ clock \in Nat /\ issued \in Nat /\ expiresAt \in Nat /\ lifetime \in Nat
  /\ interval \in Nat /\ flow \in {"pkce", "device"}
  /\ at \in {"register", "listen", "select", "redeem", "authorize", "reply",
             "sleep", "poll", "done"}
  /\ at \in {"listen", "select", "redeem"} => flow = "pkce"
  /\ at \in {"authorize", "reply", "sleep", "poll"} => flow = "device"
  /\ at \in {"register", "listen", "authorize", "reply"} => expiresAt = 0
  /\ verdict = "open" <=> at # "done"

\* A result in the channel, or taken from it, is what the operator said.
Said ==
  /\ results = "code" => "approved" \in said
  /\ results = "refusal" => "denied" \in said
  /\ at = "redeem" => "approved" \in said

\* The code's end as bmcp counts it lies behind the service's, by an interval
\* at most.
Lagging ==
  /\ at = "reply" => issued <= clock /\ clock <= issued + interval
  /\ at \in {"sleep", "poll"} /\ lifetime # 0 =>
       /\ expiresAt >= issued + lifetime
       /\ expiresAt <= issued + lifetime + interval
  /\ at \in {"sleep", "poll"} /\ lifetime = 0 => expiresAt = 0

FlowInv == Timed /\ Said /\ Lagging

\* One answer of the service to a poll, as Poll takes it.
PollStep(a) ==
  /\ at = "poll"
  /\ interval' = IF a = "slow" THEN interval + 1 ELSE interval
  /\ CASE a = "token"             -> Return("token") \/ Return("error")
       [] a \in {"pending", "slow"} -> Go("sleep")
       [] OTHER ->
            IF \/ ContextEnded \/ a = "expired"
               \/ a = "invalid" /\ NearExpiry
            THEN Return("timed out")
            ELSE Return(IF a = "invalid" THEN "denied" ELSE "error")
  /\ UNCHANGED <<flow, said, server, clock, lifetime, issued, expiresAt>>

LEMMA Ended ==
  ASSUME TakeResult, results # "code"
  PROVE  \/ results = "refusal" /\ Return("denied")
         \/ Return("error")
BY DEF TakeResult

LEMMA PollFrame ==
  ASSUME NEW a, PollStep(a)
  PROVE  /\ at = "poll" /\ interval' = IF a = "slow" THEN interval + 1 ELSE interval
         /\ UNCHANGED <<flow, said, server, clock, lifetime, issued, expiresAt>>
BY DEF PollStep

LEMMA PollEnds ==
  ASSUME NEW a, PollStep(a)
  PROVE  \/ a = "token" /\ Return("token")
         \/ a \notin {"token", "pending", "slow"} /\ Return("timed out")
              /\ (ContextEnded \/ a = "expired" \/ (a = "invalid" /\ NearExpiry))
         \/ a = "invalid" /\ ~ContextEnded /\ ~NearExpiry /\ Return("denied")
         \/ Return("error")
         \/ Go("sleep")
<1>1. CASE a = "token"
  BY <1>1 DEF PollStep
<1>2. CASE a \in {"pending", "slow"}
  BY <1>2 DEF PollStep
<1>3. CASE a \notin {"token", "pending", "slow"}
  <2>1. IF \/ ContextEnded \/ a = "expired"
           \/ a = "invalid" /\ NearExpiry
        THEN Return("timed out")
        ELSE Return(IF a = "invalid" THEN "denied" ELSE "error")
    BY <1>3 DEF PollStep
  <2>2. CASE ContextEnded \/ a = "expired" \/ (a = "invalid" /\ NearExpiry)
    BY <1>3, <2>1, <2>2
  <2>3. CASE ~ContextEnded /\ a = "invalid" /\ ~NearExpiry
    BY <2>1, <2>3
  <2>4. CASE ~ContextEnded /\ a \notin {"invalid", "expired"}
    <3>1. Return("error")
      BY <2>1, <2>4 DEF Return
    <3>. QED
      BY <3>1
  <2>. QED
    BY <2>2, <2>3, <2>4
<1>. QED
  BY <1>1, <1>2, <1>3

LEMMA FlowStart == FlowInit => FlowInv
BY Times DEF FlowInit, FlowInv, Timed, Said, Lagging

LEMMA FlowKept == FlowInv /\ [FlowNext]_flowVars => FlowInv'
<1>. SUFFICES ASSUME FlowInv, [FlowNext]_flowVars PROVE FlowInv'
  OBVIOUS
<1>. USE DEF FlowInv, Timed, Said, Lagging, Go, Return, server, waiting
<1>1. CASE UNCHANGED flowVars
  BY <1>1 DEF flowVars
<1>2. CASE Register
  BY <1>2 DEF Register
<1>3. CASE Listen
  BY <1>3, Times DEF Listen
<1>4. CASE TakeResult
  <2>1. CASE results = "code"
    BY <1>4, <2>1 DEF TakeResult
  <2>2. CASE results # "code" /\ (at' = "done" /\ verdict' # "open")
    BY <1>4, <2>2 DEF TakeResult
  <2>3. results # "code" => at' = "done" /\ verdict' # "open"
    BY <1>4, Ended DEF TakeResult
  <2>. QED
    BY <2>1, <2>2, <2>3
<1>5. CASE SignInEnds
  BY <1>5 DEF SignInEnds
<1>6. CASE Redeem
  BY <1>6 DEF Redeem
<1>7. CASE Authorize
  BY <1>7 DEF Authorize
<1>8. CASE Reply
  BY <1>8 DEF Reply
<1>9. CASE Sleep
  BY <1>9 DEF Sleep
<1>10. CASE Poll
  <2>. PICK a \in Answerable : PollStep(a)
    BY <1>10 DEF Poll, PollStep
  <2>1. /\ at = "poll" /\ interval' = IF a = "slow" THEN interval + 1 ELSE interval
        /\ UNCHANGED <<flow, said, server, clock, lifetime, issued, expiresAt>>
    BY PollFrame
  <2>2. \/ at' = "done" /\ verdict' # "open"
        \/ at' = "sleep" /\ verdict' = verdict
    BY PollEnds
  <2>. QED
    BY <2>1, <2>2
<1>11. CASE Redirect
  BY <1>11 DEF Redirect, Handle
<1>12. CASE Stranger
  BY <1>12 DEF Stranger, Handle
<1>13. CASE OperatorAnswers
  BY <1>13 DEF OperatorAnswers
<1>14. CASE Tick
  BY <1>14 DEF Tick
<1>. QED
  BY <1>1, <1>2, <1>3, <1>4, <1>5, <1>6, <1>7, <1>8, <1>9, <1>10, <1>11, <1>12,
     <1>13, <1>14 DEF FlowNext, FlowStep

\* A step of the login is a step of what it promises, or none.
LEMMA FlowStepKeepsPromise ==
  FlowInv /\ [FlowNext]_flowVars => [Promise!LoginNext]_(Promise!loginVars)
<1>. SUFFICES ASSUME FlowInv, [FlowNext]_flowVars
              PROVE  [Promise!LoginNext]_(Promise!loginVars)
  OBVIOUS
<1>. USE DEF FlowInv, Timed
<1>1. ASSUME said' = said, verdict' = verdict, TimeIsUp => TimeIsUp'
      PROVE  [Promise!LoginNext]_(Promise!loginVars)
  <2>1. CASE TimeIsUp'
    BY <1>1, <2>1 DEF Promise!LoginNext, Promise!TimePasses
  <2>2. CASE ~TimeIsUp'
    BY <1>1, <2>2 DEF Promise!loginVars, TimeIsUp
  <2>. QED
    BY <2>1, <2>2
<1>2. ASSUME said' = said, TimeIsUp' = TimeIsUp, verdict = "open",
             \/ verdict' = "error"
             \/ verdict' = "token" /\ "approved" \in said
             \/ verdict' = "denied" /\ "denied" \in said
             \/ verdict' = "timed out" /\ (TimeIsUp \/ "denied" \in said)
      PROVE  [Promise!LoginNext]_(Promise!loginVars)
  BY <1>2 DEF Promise!LoginNext, Promise!End, Promise!Succeed, Promise!Refused,
              Promise!TooLate, Promise!Break, Promise!Returns
<1>3. ASSUME UNCHANGED <<clock, flow, lifetime, issued, expiresAt>>
      PROVE  TimeIsUp' = TimeIsUp
  BY <1>3 DEF TimeIsUp, CodeLives
<1>4. ASSUME verdict' = verdict, UNCHANGED <<said, clock, flow, lifetime, issued, expiresAt>>
      PROVE  [Promise!LoginNext]_(Promise!loginVars)
  BY <1>1, <1>3, <1>4
<1>. USE DEF Go, Return, server, waiting
<1>5. CASE UNCHANGED flowVars
  BY <1>4, <1>5 DEF flowVars
<1>6. CASE Register
  BY <1>2, <1>3, <1>4, <1>6 DEF Register
<1>7. CASE Listen
  <2>1. CASE Return("error") /\ UNCHANGED <<listening, expiresAt>>
    BY <1>2, <1>3, <1>7, <2>1 DEF Listen
  <2>2. CASE Go("select")
    <3>1. TimeIsUp => TimeIsUp'
      BY <1>7, <2>2 DEF Listen, TimeIsUp
    <3>. QED
      BY <1>1, <1>7, <2>2, <3>1 DEF Listen
  <2>. QED
    BY <1>7, <2>1, <2>2 DEF Listen
<1>8. CASE TakeResult
  <2>1. TimeIsUp' = TimeIsUp /\ said' = said /\ verdict = "open"
    BY <1>3, <1>8 DEF TakeResult
  <2>2. CASE results = "code"
    BY <1>4, <1>8, <2>2 DEF TakeResult
  <2>3. CASE results # "code"
    BY <1>2, <1>8, <2>1, <2>3, Ended DEF Said
  <2>. QED
    BY <2>2, <2>3
<1>9. CASE SignInEnds
  <2>1. TimeIsUp /\ said' = said /\ verdict = "open" /\ verdict' = "timed out"
    BY <1>9 DEF SignInEnds, TimeIsUp, ContextEnded
  <2>2. TimeIsUp' = TimeIsUp
    BY <1>3, <1>9 DEF SignInEnds
  <2>. QED
    BY <1>2, <2>1, <2>2
<1>10. CASE Redeem
  BY <1>2, <1>3, <1>10 DEF Redeem, Said
<1>11. CASE Authorize
  <2>1. TimeIsUp => TimeIsUp'
    BY <1>11 DEF Authorize, TimeIsUp
  <2>. QED
    BY <1>1, <1>11, <2>1 DEF Authorize
<1>12. CASE Reply
  <2>1. CASE Return("error") /\ UNCHANGED expiresAt
    BY <1>2, <1>3, <1>12, <2>1 DEF Reply
  <2>2. CASE Go("sleep")
    <3>1. TimeIsUp => TimeIsUp'
      BY <1>12, <2>2 DEF Reply, TimeIsUp
    <3>. QED
      BY <1>1, <1>12, <2>2, <3>1 DEF Reply
  <2>. QED
    BY <1>12, <2>1, <2>2 DEF Reply
<1>13. ASSUME at \in {"sleep", "poll"}, ContextEnded
       PROVE  TimeIsUp
  BY <1>13 DEF Lagging, ContextEnded, TimeIsUp, CodeLives
<1>14. CASE Sleep
  <2>1. CASE at' = "poll" /\ verdict' = verdict
    BY <1>4, <1>14, <2>1 DEF Sleep
  <2>2. CASE ContextEnded /\ verdict' = "timed out"
    <3>1. TimeIsUp /\ TimeIsUp' = TimeIsUp
      BY <1>3, <1>13, <1>14, <2>2 DEF Sleep
    <3>. QED
      BY <1>2, <1>14, <2>2, <3>1 DEF Sleep
  <2>. QED
    BY <1>14, <2>1, <2>2 DEF Sleep
<1>15. CASE Poll
  <2>. PICK a \in Answerable : PollStep(a)
    BY <1>15 DEF Poll, PollStep
  <2>1. /\ at = "poll" /\ verdict = "open" /\ said' = said /\ TimeIsUp' = TimeIsUp
    BY <1>3, PollFrame
  <2>2. a = "token" => "approved" \in said
    BY DEF Answerable
  <2>3. ASSUME ~CodeLives, lifetime \in Nat, at = "poll"
        PROVE  TimeIsUp
    BY <2>3 DEF Lagging, TimeIsUp, CodeLives
  <2>4. a = "expired" => TimeIsUp
    <3>1. a = "expired" => ~CodeLives
      BY DEF Answerable
    <3>. QED
      BY <2>1, <2>3, <3>1
  <2>5. a = "invalid" => TimeIsUp \/ "denied" \in said
    <3>1. a = "invalid" => ~CodeLives \/ "denied" \in said
      BY DEF Answerable
    <3>. QED
      BY <2>1, <2>3, <3>1
  <2>6. ~CodeLives => NearExpiry
    BY <2>1 DEF Lagging, CodeLives, NearExpiry
  <2>7. a = "invalid" /\ ~NearExpiry => "denied" \in said
    <3>1. a = "invalid" => ~CodeLives \/ "denied" \in said
      BY DEF Answerable
    <3>. QED
      BY <2>6, <3>1
  <2>8. CASE Go("sleep")
    BY <1>1, <2>1, <2>8
  <2>9. CASE ~Go("sleep")
    <3>1. \/ verdict' = "error"
          \/ verdict' = "token" /\ "approved" \in said
          \/ verdict' = "denied" /\ "denied" \in said
          \/ verdict' = "timed out" /\ (TimeIsUp \/ "denied" \in said)
      BY <1>13, <2>1, <2>2, <2>4, <2>5, <2>7, <2>9, PollEnds
    <3>. QED
      BY <1>2, <2>1, <3>1
  <2>. QED
    BY <2>8, <2>9
<1>16. CASE Redirect
  BY <1>4, <1>16 DEF Redirect, Handle
<1>17. CASE Stranger
  BY <1>4, <1>17 DEF Stranger, Handle
<1>18. CASE OperatorAnswers
  <2>1. TimeIsUp' = TimeIsUp
    BY <1>3, <1>18 DEF OperatorAnswers
  <2>. QED
    BY <1>18, <2>1 DEF OperatorAnswers, Promise!LoginNext, Promise!Answer, Promise!Answers
<1>19. CASE Tick
  <2>1. TimeIsUp => TimeIsUp'
    BY <1>19, Times DEF Tick, TimeIsUp, CodeLives
  <2>. QED
    BY <1>1, <1>19, <2>1 DEF Tick
<1>. QED
  BY <1>5, <1>6, <1>7, <1>8, <1>9, <1>10, <1>11, <1>12, <1>14, <1>15, <1>16,
     <1>17, <1>18, <1>19 DEF FlowNext, FlowStep

\* Nobody has answered, and no time has passed.
LEMMA FlowStartKeepsPromise == FlowInit => Promise!LoginInit
BY Times DEF FlowInit, Promise!LoginInit, TimeIsUp

(* The safety half of LoginImplements, for every budget, sign-in time, lifetime
   and interval: neither flow of login returns a token nobody approved, reports
   a refusal nobody gave or gives up before its time (pkceLogin,
   deviceCodeLogin). *)
THEOREM LoginKeepsPromise == FlowSafety => Promise!LoginSafety
<1>1. FlowInit => FlowInv
  BY FlowStart
<1>2. FlowInv /\ [FlowNext]_flowVars => FlowInv'
  BY FlowKept
<1>3. FlowInv /\ [FlowNext]_flowVars => [Promise!LoginNext]_(Promise!loginVars)
  BY FlowStepKeepsPromise
<1>. QED
  BY <1>1, <1>2, <1>3, FlowStartKeepsPromise, PTL DEF FlowSafety, Promise!LoginSafety

-----------------------------------------------------------------------------
(* The stores *)

Contents == Value \cup {Nothing}
StorePcs ==
  {"idle", "read", "fetch", "write", "add", "mkdir", "temp", "lost", "delete",
   "drop", "list", "names", "each", "tree", "answer"}

\* Only the AWS CLI tears an item.
WorldTyped ==
  /\ backend \in {"aws-cli-cache", "file", "keychain", "secret-service"}
  /\ stored \in [Item -> Contents \cup {Torn}] /\ path \in [Item -> Nat]
  /\ call \in [Client -> Calls \cup {Idle}]
  /\ held \in [Client -> [Item -> SUBSET Contents]]
  /\ \A i \in Item : stored[i] = Torn => backend = "aws-cli-cache"
OwnTyped ==
  /\ pc \in [Client -> StorePcs]
  /\ todo \in [Client -> SUBSET Item]
  /\ found \in [Client -> SUBSET (Item \X Nat)]
  /\ failed \in [Client -> BOOLEAN]
  /\ result \in [Client -> Contents \cup {"ok", "error", "none"}]

\* A place belongs to a kind of call and, some of them, to a backend.
Placed(c) ==
  /\ call[c] = Idle <=> pc[c] = "idle"
  /\ pc[c] \in {"read", "fetch"} => call[c].kind = "read"
  /\ pc[c] \in {"write", "add", "mkdir", "temp", "lost"} => call[c].kind = "write"
  /\ pc[c] = "delete" => call[c].kind = "delete"
  /\ pc[c] = "drop" => call[c].kind \in {"delete", "clear"}
  /\ pc[c] \in {"list", "names", "each", "tree"} => call[c].kind = "clear"
  /\ pc[c] \in {"fetch", "drop", "names"} => backend = "secret-service"
  /\ pc[c] = "tree" => backend = "aws-cli-cache"

\* A call has seen what every item holds now.
Seen(c) ==
  IF call[c] = Idle THEN held[c] = [i \in Item |-> {}]
  ELSE \A i \in Item : Content(stored[i]) \in held[c][i]

\* An object found that is not the item's any more: the item was absent once.
Outlived(c) ==
  call[c] # Idle =>
    \A f \in found[c] : path[f[1]] # f[2] => Nothing \in held[c][f[1]]

\* What a call fetches, drops or has still to delete is its own.
Aimed(c) ==
  /\ call[c] # Idle => todo[c] \subseteq call[c].of
  /\ pc[c] = "fetch" => \A f \in found[c] : f[1] \in call[c].of
  /\ pc[c] = "drop" => \E f \in Item \X Nat : found[c] = {f} /\ f[1] \in call[c].of

\* A clear that goes well has seen each of its items absent, or will.
Pends(c, i) ==
  \/ pc[c] = "list"
  \/ pc[c] \in {"names", "each", "drop"} /\ i \in todo[c]
  \/ pc[c] \in {"names", "drop"} /\ \E f \in found[c] : f[1] = i
  \/ pc[c] \in {"each", "tree"} /\ backend = "aws-cli-cache" /\ i \in Role
Sweeps(c) ==
  call[c].kind = "clear" /\ ~failed[c] /\ pc[c] # "answer" =>
    \A i \in call[c].of : Nothing \in held[c][i] \/ Pends(c, i)

\* What a call is about to return, it has seen.
Justified(c) ==
  \/ result[c] = "error"
  \/ call[c].kind = "read" /\ \E i \in call[c].of : result[c] \in held[c][i]
  \/ /\ call[c].kind = "write" /\ result[c] = "ok"
     /\ \E i \in call[c].of : call[c].val \in held[c][i]
  \/ /\ call[c].kind \in {"delete", "clear"} /\ result[c] = "ok"
     /\ \A i \in call[c].of : Nothing \in held[c][i]
Vouched(c) == pc[c] = "answer" => Justified(c)

ClientInv(c) ==
  Placed(c) /\ Outlived(c) /\ Aimed(c) /\ Sweeps(c) /\ Vouched(c)
StoreInv ==
  /\ WorldTyped /\ OwnTyped
  /\ \A c \in Client : Seen(c) /\ ClientInv(c)

LEMMA CallFacts ==
  ASSUME WorldTyped, NEW c \in Client, call[c] # Idle
  PROVE  /\ call[c] \in Calls /\ call[c].of \subseteq Item
         /\ call[c].kind \in {"read", "delete", "write", "clear"}
         /\ call[c].kind = "write" => call[c].val \in Value
         /\ call[c].kind # "clear" => \E i \in Item : call[c].of = {i}
         /\ call[c].kind = "clear" => call[c].of \in {Role, Item}
<1>1. call[c] \in Calls
  BY DEF WorldTyped
<1>2. Role \subseteq Item
  BY DEF Item
<1>3. CASE call[c] \in [kind : {"read", "delete"}, of : {{i} : i \in Item}, val : {Nothing}]
  BY <1>1, <1>3
<1>4. CASE call[c] \in [kind : {"write"}, of : {{i} : i \in Item}, val : Value]
  BY <1>1, <1>4
<1>5. CASE call[c] \in [kind : {"clear"}, of : {Role, Item}, val : {Nothing}]
  BY <1>1, <1>2, <1>5
<1>. QED
  BY <1>1, <1>3, <1>4, <1>5 DEF Calls

\* The one item of a call that is not a clear.
LEMMA TheItemFacts ==
  ASSUME WorldTyped, NEW c \in Client, call[c] # Idle, call[c].kind # "clear"
  PROVE  TheItem(c) \in Item /\ call[c].of = {TheItem(c)}
<1>. PICK j \in Item : call[c].of = {j}
  BY CallFacts
<1>. QED
  BY DEF TheItem

LEMMA ContentFacts ==
  /\ \A x \in Contents : Content(x) = x /\ x # Torn
  /\ \A x \in Contents \cup {Torn} : Content(x) \in Contents
  /\ \A x : x # Torn => Content(x) = x
BY Readable DEF Content, Contents

\* What the world may do in a step: nothing, or put something in one item.
Changes(i, x) ==
  i \in Item /\ x \in Contents \cup {Torn} /\ (x = Torn => backend = "aws-cli-cache")
    /\ Put(i, x)
Stays == Kept \/ \E i \in Item, x \in Contents \cup {Torn} : Changes(i, x)

LEMMA WorldStays ==
  ASSUME WorldTyped, Stays, UNCHANGED <<backend, call>>, Watch,
         \A c \in Client : Seen(c)
  PROVE  /\ WorldTyped'
         /\ \A c \in Client : Seen(c)'
         /\ \A c \in Client, i \in Item : held[c][i] \subseteq held'[c][i]
         /\ \A c \in Client : call[c] # Idle => \A i \in Item :
              held'[c][i] = {Content(stored'[i])} \cup held[c][i]
<1>1. /\ stored' \in [Item -> Contents \cup {Torn}] /\ path' \in [Item -> Nat]
      /\ \A i \in Item : stored'[i] = Torn => backend = "aws-cli-cache"
  <2>1. CASE Kept
    BY <2>1 DEF WorldTyped, Kept
  <2>2. ASSUME NEW i \in Item, NEW x \in Contents \cup {Torn}, Changes(i, x)
        PROVE  /\ stored' \in [Item -> Contents \cup {Torn}] /\ path' \in [Item -> Nat]
               /\ \A j \in Item : stored'[j] = Torn => backend = "aws-cli-cache"
    BY <2>2 DEF WorldTyped, Changes, Put
  <2>. QED
    BY <2>1, <2>2 DEF Stays
<1>2. \A i \in Item : Content(stored'[i]) \in Contents
  BY <1>1, ContentFacts
<1>3. ASSUME NEW c \in Client, call[c] # Idle, NEW i \in Item
      PROVE  held'[c][i] = {Content(stored'[i])} \cup held[c][i]
  BY <1>3 DEF Watch
<1>4. ASSUME NEW c \in Client, call[c] = Idle
      PROVE  held'[c] = [i \in Item |-> {}]
  BY <1>4 DEF Watch
<1>5. held' \in [Client -> [Item -> SUBSET Contents]]
  BY <1>2 DEF Watch, WorldTyped
<1>6. ASSUME NEW c \in Client PROVE Seen(c)'
  <2>1. CASE call[c] = Idle
    <3>1. held'[c] = [i \in Item |-> {}]
      BY <1>4, <2>1
    <3>. QED
      BY <2>1, <3>1 DEF Seen
  <2>2. CASE call[c] # Idle
    <3>1. \A i \in Item : Content(stored[i])' = Content(stored'[i])
      BY DEF Content
    <3>. QED
      BY <1>3, <2>2, <3>1 DEF Seen
  <2>. QED
    BY <2>1, <2>2
<1>7. ASSUME NEW c \in Client, NEW i \in Item PROVE held[c][i] \subseteq held'[c][i]
  BY <1>3, <1>4, <1>7 DEF Seen
<1>8. WorldTyped'
  BY <1>1, <1>5 DEF WorldTyped
<1>. QED
  BY <1>3, <1>6, <1>7, <1>8

\* A number found stays the item's, or the item has been absent.
LEMMA NumbersStay ==
  ASSUME WorldTyped, Stays, UNCHANGED <<backend, call>>, Watch,
         \A c \in Client : Seen(c),
         NEW c \in Client, call[c] # Idle, NEW f \in Item \X Nat,
         path[f[1]] # f[2] => Nothing \in held[c][f[1]]
  PROVE  path'[f[1]] # f[2] => Nothing \in held'[c][f[1]]
<1>1. held[c][f[1]] \subseteq held'[c][f[1]]
  BY WorldStays
<1>2. CASE path'[f[1]] = path[f[1]]
  BY <1>1, <1>2
<1>3. CASE path'[f[1]] # path[f[1]]
  <2>1. PICK i \in Item, x \in Contents \cup {Torn} : Changes(i, x)
    BY <1>3 DEF Stays, Kept
  <2>2. stored[i] = Nothing /\ f[1] = i
    BY <1>3, <2>1 DEF Changes, Put, WorldTyped
  <2>3. Content(stored[i]) = Nothing
    BY <2>2, ContentFacts DEF Contents
  <2>. QED
    BY <1>1, <2>2, <2>3 DEF Seen
<1>. QED
  BY <1>2, <1>3

-----------------------------------------------------------------------------
(* One step within a call *)

\* What a step of a call changes of the world is what was asked of it.
Effect(c) ==
  \/ Kept
  \/ \E i \in call[c].of :
       \/ call[c].kind = "write" /\ Put(i, call[c].val)
       \/ call[c].kind \in {"delete", "clear"} /\ Put(i, Nothing)
\* Of the others, a writer may lose its temporary file.
LeavesOthers(c) ==
  \A d \in Client \ {c} :
    /\ pc'[d] = pc[d] \/ (pc[d] = "temp" /\ pc'[d] = "lost")
    /\ todo'[d] = todo[d] /\ found'[d] = found[d] /\ failed'[d] = failed[d]
    /\ result'[d] = result[d]
Moves(c) ==
  /\ call[c] # Idle /\ UNCHANGED <<backend, call>> /\ Watch
  /\ Effect(c) /\ LeavesOthers(c) /\ OwnTyped'

LEMMA EffectStays ==
  ASSUME WorldTyped, NEW c \in Client, call[c] # Idle, Effect(c)
  PROVE  Stays
<1>1. CASE Kept
  BY <1>1 DEF Stays
<1>2. ASSUME NEW i \in call[c].of, call[c].kind = "write", Put(i, call[c].val)
      PROVE  Stays
  <2>1. i \in Item /\ call[c].val \in Contents /\ call[c].val # Torn
    BY <1>2, CallFacts, ContentFacts DEF Contents
  <2>. QED
    BY <1>2, <2>1 DEF Stays, Changes
<1>3. ASSUME NEW i \in call[c].of, Put(i, Nothing)
      PROVE  Stays
  <2>1. i \in Item /\ Nothing \in Contents /\ Nothing # Torn
    BY <1>3, CallFacts, ContentFacts DEF Contents
  <2>. QED
    BY <1>3, <2>1 DEF Stays, Changes
<1>. QED
  BY <1>1, <1>2, <1>3 DEF Effect

\* A put of the store is a put of what bmcp takes the store for.
LEMMA PutIsPut ==
  ASSUME WorldTyped, UNCHANGED <<backend, call>>, Watch, \A c \in Client : Seen(c),
         \A d \in Client : call[d] = Idle => result'[d] = result[d],
         NEW i \in Item, NEW x \in Contents \cup {Torn}, Put(i, x)
  PROVE  Promised!Put(i, Content(x))
<1>. DEFINE items  == [j \in Item |-> Content(stored[j])]
            answer == [c \in Client |-> IF call[c] = Idle THEN result[c] ELSE "none"]
            items1 == [j \in Item |-> Content(stored'[j])]
<1>1. \A j \in Item : stored'[j] = IF j = i THEN x ELSE stored[j]
  BY DEF Put, WorldTyped
<1>2. items1 = [items EXCEPT ![i] = Content(x)]
  BY <1>1
<1>3. answer' = answer
  OBVIOUS
<1>4. ASSUME NEW d \in Client
      PROVE  held'[d] = IF call[d] = Idle THEN held[d]
                        ELSE [held[d] EXCEPT ![i] = @ \cup {Content(x)}]
  <2>1. held'[d] = [j \in Item |-> IF call[d] = Idle THEN {}
                      ELSE {Content(stored'[j])} \cup (IF call[d] = Idle THEN {} ELSE held[d][j])]
    BY DEF Watch
  <2>2. CASE call[d] = Idle
    BY <2>1, <2>2 DEF Seen
  <2>3. CASE call[d] # Idle
    <3>1. held[d] \in [Item -> SUBSET Contents]
      BY DEF WorldTyped
    <3>2. ASSUME NEW j \in Item
          PROVE  held'[d][j] = [held[d] EXCEPT ![i] = @ \cup {Content(x)}][j]
      <4>1. held'[d][j] = {Content(stored'[j])} \cup held[d][j]
        BY <2>1, <2>3
      <4>2. CASE j = i
        BY <1>1, <3>1, <4>1, <4>2
      <4>3. CASE j # i
        <5>1. Content(stored[j]) \in held[d][j]
          BY <2>3 DEF Seen
        <5>. QED
          BY <1>1, <3>1, <4>1, <4>3, <5>1
      <4>. QED
        BY <4>2, <4>3
    <3>3. held'[d] = [j \in Item |-> held'[d][j]]
      BY <2>1
    <3>. QED
      BY <2>3, <3>1, <3>2, <3>3
  <2>. QED
    BY <2>2, <2>3
<1>5. held' = [d \in Client |-> IF call[d] = Idle THEN held[d]
                                ELSE [held[d] EXCEPT ![i] = @ \cup {Content(x)}]]
  <2>1. held' = [d \in Client |-> held'[d]]
    BY DEF Watch
  <2>. QED
    BY <1>4, <2>1
<1>6. Shared' = Shared
  BY DEF Shared
<1>7. \A j \in Item : Content(stored[j])' = Content(stored'[j])
  BY DEF Content
<1>8. items' = items1
  BY <1>7
<1>9. Promised!Idle = Idle
  BY DEF Promised!Idle, Idle
<1>. QED
  BY <1>2, <1>3, <1>5, <1>6, <1>8, <1>9 DEF Promised!Put

LEMMA KeptIsStutter ==
  ASSUME WorldTyped, UNCHANGED <<backend, call>>, Watch, \A c \in Client : Seen(c),
         \A d \in Client : call[d] = Idle => result'[d] = result[d],
         stored' = stored
  PROVE  UNCHANGED Promised!storeVars
<1>. DEFINE items  == [j \in Item |-> Content(stored[j])]
            answer == [c \in Client |-> IF call[c] = Idle THEN result[c] ELSE "none"]
<1>1. items' = items
  BY DEF Content
<1>2. answer' = answer
  OBVIOUS
<1>3. ASSUME NEW d \in Client
      PROVE  held'[d] = held[d]
  <2>1. held'[d] = [j \in Item |-> IF call[d] = Idle THEN {}
                      ELSE {Content(stored'[j])} \cup (IF call[d] = Idle THEN {} ELSE held[d][j])]
    BY DEF Watch
  <2>2. CASE call[d] = Idle
    BY <2>1, <2>2 DEF Seen
  <2>3. CASE call[d] # Idle
    <3>1. held[d] = [j \in Item |-> held[d][j]]
      BY DEF WorldTyped
    <3>2. ASSUME NEW j \in Item PROVE held'[d][j] = held[d][j]
      BY <2>1, <2>3, <3>2 DEF Seen
    <3>3. held'[d] = [j \in Item |-> held'[d][j]]
      BY <2>1
    <3>. QED
      BY <3>1, <3>2, <3>3
  <2>. QED
    BY <2>2, <2>3
<1>4. held' = held
  <2>1. held' = [d \in Client |-> held'[d]] /\ held = [d \in Client |-> held[d]]
    BY DEF Watch, WorldTyped
  <2>. QED
    BY <1>3, <2>1
<1>5. Shared' = Shared
  BY DEF Shared
<1>. QED
  BY <1>1, <1>2, <1>4, <1>5 DEF Promised!storeVars

LEMMA MoveKeepsPromise ==
  ASSUME StoreInv, NEW c \in Client, Moves(c)
  PROVE  [Promised!StoreNext]_(Promised!storeVars)
<1>1. /\ WorldTyped /\ UNCHANGED <<backend, call>> /\ Watch
      /\ \A d \in Client : Seen(d)
      /\ \A d \in Client : call[d] = Idle => result'[d] = result[d]
  BY DEF StoreInv, Moves, LeavesOthers
<1>2. CASE Kept
  BY <1>1, <1>2, KeptIsStutter DEF Kept
<1>3. ASSUME NEW i \in call[c].of, call[c].kind = "write", Put(i, call[c].val)
      PROVE  Promised!TakesEffect(c)
  <2>1. i \in Item /\ call[c].val \in Contents
    BY <1>1, <1>3, CallFacts DEF Contents, Moves
  <2>2. Promised!Put(i, call[c].val)
    BY <1>1, <1>3, <2>1, PutIsPut, ContentFacts
  <2>. QED
    BY <1>3, <2>2 DEF Promised!TakesEffect
<1>4. ASSUME NEW i \in call[c].of, call[c].kind \in {"delete", "clear"}, Put(i, Nothing)
      PROVE  Promised!TakesEffect(c)
  <2>1. i \in Item /\ Nothing \in Contents
    BY <1>1, <1>4, CallFacts DEF Contents, Moves
  <2>2. Promised!Put(i, Nothing)
    BY <1>1, <1>4, <2>1, PutIsPut, ContentFacts
  <2>. QED
    BY <1>4, <2>2 DEF Promised!TakesEffect
<1>. QED
  BY <1>2, <1>3, <1>4 DEF Moves, Effect, Promised!StoreNext

\* What a call that takes no step relies on stays.
LEMMA Undisturbed ==
  ASSUME StoreInv, NEW d \in Client, Outlived(d)',
         \A i \in Item : held[d][i] \subseteq held'[d][i],
         call'[d] = call[d], backend' = backend,
         pc'[d] = pc[d] \/ (pc[d] = "temp" /\ pc'[d] = "lost"),
         todo'[d] = todo[d], found'[d] = found[d], failed'[d] = failed[d],
         result'[d] = result[d]
  PROVE  ClientInv(d)'
<1>1. Placed(d) /\ Outlived(d) /\ Aimed(d) /\ Sweeps(d) /\ Vouched(d) /\ WorldTyped
  BY DEF StoreInv, ClientInv
<1>2. Placed(d)'
  BY <1>1 DEF Placed
<1>3. Aimed(d)'
  BY <1>1 DEF Aimed
<1>4. Sweeps(d)'
  <2>. SUFFICES ASSUME call[d].kind = "clear", ~failed[d], pc'[d] # "answer",
                       NEW i \in call[d].of
                PROVE  Nothing \in held'[d][i] \/ Pends(d, i)'
    BY DEF Sweeps
  <2>1. call[d] # Idle
    BY DEF Idle
  <2>2. i \in Item
    BY <1>1, <2>1, CallFacts
  <2>. QED
    BY <1>1, <2>2 DEF Sweeps, Pends
<1>5. Vouched(d)'
  <2>. SUFFICES ASSUME pc'[d] = "answer" PROVE Justified(d)'
    BY DEF Vouched
  <2>1. Justified(d) /\ call[d] # Idle
    BY <1>1 DEF Vouched, Placed
  <2>2. call[d].of \subseteq Item
    BY <1>1, <2>1, CallFacts
  <2>. QED
    BY <2>1, <2>2 DEF Justified
<1>. QED
  BY <1>2, <1>3, <1>4, <1>5 DEF ClientInv

\* In particular when the world changes beside it.
LEMMA OutlivedStays ==
  ASSUME StoreInv, Stays, UNCHANGED <<backend, call>>, Watch,
         NEW d \in Client, found'[d] = found[d]
  PROVE  /\ Outlived(d)'
         /\ \A i \in Item : held[d][i] \subseteq held'[d][i]
<1>1. WorldTyped /\ \A e \in Client : Seen(e)
  BY DEF StoreInv
<1>2. ASSUME call[d] # Idle, NEW f \in found[d]
      PROVE  path'[f[1]] # f[2] => Nothing \in held'[d][f[1]]
  <2>1. f \in Item \X Nat /\ Outlived(d)
    BY DEF StoreInv, OwnTyped, ClientInv
  <2>. QED
    BY <1>1, <1>2, <2>1, NumbersStay DEF Outlived
<1>. QED
  BY <1>1, <1>2, WorldStays DEF Outlived

LEMMA OthersKept ==
  ASSUME StoreInv, NEW c \in Client, Moves(c), NEW d \in Client, d # c
  PROVE  ClientInv(d)'
<1>1. Stays /\ UNCHANGED <<backend, call>> /\ Watch
  BY EffectStays DEF StoreInv, Moves
<1>2. /\ pc'[d] = pc[d] \/ (pc[d] = "temp" /\ pc'[d] = "lost")
      /\ todo'[d] = todo[d] /\ found'[d] = found[d] /\ failed'[d] = failed[d]
      /\ result'[d] = result[d]
  BY DEF Moves, LeavesOthers
<1>. QED
  BY <1>1, <1>2, OutlivedStays, Undisturbed

\* It is left to say what the step does for the call itself.
LEMMA MoveKeeps ==
  ASSUME StoreInv, NEW c \in Client, Moves(c), ClientInv(c)'
  PROVE  StoreInv'
<1>1. /\ WorldTyped /\ Stays /\ UNCHANGED <<backend, call>> /\ Watch
      /\ \A e \in Client : Seen(e)
  BY EffectStays DEF StoreInv, Moves
<1>2. WorldTyped' /\ OwnTyped' /\ \A d \in Client : Seen(d)'
  BY <1>1, WorldStays DEF Moves
<1>3. \A d \in Client : ClientInv(d)'
  BY OthersKept
<1>. QED
  BY <1>2, <1>3 DEF StoreInv

-----------------------------------------------------------------------------
(* The steps of a call, one by one *)

LEMMA ObjectFacts ==
  ASSUME WorldTyped, NEW S \in SUBSET Item
  PROVE  /\ Objects(S) \subseteq Item \X Nat
         /\ \A f \in Objects(S) : f[1] \in S /\ path[f[1]] = f[2]
         /\ \A i \in S : stored[i] # Nothing => <<i, path[i]>> \in Objects(S)
BY DEF Objects, WorldTyped

LEMMA OutlivedKept ==
  ASSUME StoreInv, NEW c \in Client, Moves(c),
         \A f \in found'[c] : f \in found[c] \/ path'[f[1]] = f[2]
  PROVE  Outlived(c)'
<1>. SUFFICES ASSUME NEW f \in found'[c]
              PROVE  path'[f[1]] # f[2] => Nothing \in held'[c][f[1]]
  BY DEF Outlived
<1>1. CASE path'[f[1]] = f[2]
  BY <1>1
<1>2. CASE f \in found[c]
  <2>1. /\ WorldTyped /\ Stays /\ UNCHANGED <<backend, call>> /\ Watch
        /\ \A e \in Client : Seen(e)
        /\ call[c] # Idle /\ f \in Item \X Nat /\ Outlived(c)
    BY <1>2, EffectStays DEF StoreInv, Moves, OwnTyped, ClientInv
  <2>. QED
    BY <1>2, <2>1, NumbersStay DEF Outlived
<1>. QED
  BY <1>1, <1>2

\* What the call has seen before and what it sees after the step.
LEMMA Sees ==
  ASSUME StoreInv, NEW c \in Client, Moves(c)
  PROVE  /\ \A i \in Item : held[c][i] \subseteq held'[c][i]
         /\ \A i \in Item : Content(stored[i]) \in held'[c][i]
         /\ \A i \in Item : Content(stored'[i]) \in held'[c][i]
<1>1. /\ WorldTyped /\ Stays /\ UNCHANGED <<backend, call>> /\ Watch
      /\ \A e \in Client : Seen(e)
  BY EffectStays DEF StoreInv, Moves
<1>2. /\ \A i \in Item : held[c][i] \subseteq held'[c][i]
      /\ \A i \in Item : held'[c][i] = {Content(stored'[i])} \cup held[c][i]
  BY <1>1, WorldStays DEF Moves
<1>. QED
  BY <1>1, <1>2 DEF Seen, Moves

\* The invariant of the call whose step it is, when the step ends it.
LEMMA GivesKeep ==
  ASSUME StoreInv, NEW c \in Client, Moves(c), pc'[c] = "answer",
         todo'[c] \subseteq todo[c], found'[c] \subseteq found[c], Justified(c)'
  PROVE  ClientInv(c)'
<1>1. Outlived(c)'
  BY OutlivedKept
<1>2. Placed(c)'
  BY DEF Placed, Moves
<1>3. Aimed(c)'
  BY DEF Aimed, Moves, StoreInv, ClientInv
<1>4. Sweeps(c)' /\ Vouched(c)'
  BY DEF Sweeps, Vouched
<1>. QED
  BY <1>1, <1>2, <1>3, <1>4 DEF ClientInv

\* The invariant of a call that is no clear and goes on without a search.
LEMMA GoesKeep ==
  ASSUME StoreInv, NEW c \in Client, Moves(c),
         call[c].kind \in {"read", "write", "delete"},
         pc'[c] \notin {"answer", "fetch", "drop"}, Placed(c)',
         todo'[c] = todo[c], found'[c] = found[c]
  PROVE  ClientInv(c)'
<1>1. Outlived(c)'
  BY OutlivedKept
<1>2. Aimed(c)'
  BY DEF Aimed, Moves, StoreInv, ClientInv
<1>3. Sweeps(c)' /\ Vouched(c)'
  BY DEF Sweeps, Vouched, Moves
<1>. QED
  BY <1>1, <1>2, <1>3 DEF ClientInv

\* What every step starts from.
LEMMA Starts ==
  ASSUME StoreInv, NEW c \in Client, pc[c] # "idle"
  PROVE  /\ call[c] # Idle /\ WorldTyped /\ OwnTyped /\ Seen(c)
         /\ Placed(c) /\ Outlived(c) /\ Aimed(c) /\ Sweeps(c) /\ Vouched(c)
BY DEF StoreInv, ClientInv, Placed

LEMMA ReadMoves ==
  ASSUME StoreInv, NEW c \in Client, Read(c)
  PROVE  Moves(c) /\ ClientInv(c)'
<1>. DEFINE i == TheItem(c)
<1>1. /\ pc[c] = "read" /\ call[c] # Idle /\ call[c].kind = "read"
      /\ i \in Item /\ call[c].of = {i}
  BY Starts, TheItemFacts DEF Read, Placed
<1>. HIDE DEF i
<1>2. CASE backend = "secret-service" /\ stored[i] # Nothing
  <2>1. /\ pc' = [pc EXCEPT ![c] = "fetch"]
        /\ found' = [found EXCEPT ![c] = Objects({i})]
        /\ UNCHANGED <<stored, path, todo, failed, result, backend, call>> /\ Watch
    BY <1>2 DEF Read, To, Rest, i
  <2>2. Objects({i}) \subseteq Item \X Nat
    BY <1>1, Starts, ObjectFacts
  <2>3. Moves(c)
    BY <1>1, <2>1, <2>2, Starts DEF Moves, Effect, Kept, LeavesOthers, OwnTyped, StorePcs
  <2>4. found'[c] = Objects({i}) /\ pc'[c] = "fetch" /\ todo' = todo
    BY <1>1, <2>1, Starts DEF OwnTyped
  <2>5. \A f \in found'[c] : f[1] = i /\ path'[f[1]] = f[2]
    BY <1>1, <2>1, <2>4, Starts, ObjectFacts
  <2>6. Outlived(c)'
    BY <2>3, <2>5, OutlivedKept
  <2>7. Placed(c)'
    BY <1>1, <1>2, <2>1, <2>4 DEF Placed
  <2>8. Aimed(c)'
    BY <1>1, <2>1, <2>4, <2>5, Starts DEF Aimed
  <2>9. Sweeps(c)' /\ Vouched(c)'
    BY <1>1, <2>1, <2>4 DEF Sweeps, Vouched
  <2>. QED
    BY <2>3, <2>6, <2>7, <2>8, <2>9 DEF ClientInv
<1>3. CASE ~(backend = "secret-service" /\ stored[i] # Nothing)
  <2>1. /\ pc' = [pc EXCEPT ![c] = "answer"]
        /\ result' = [result EXCEPT ![c] = Content(stored[i])]
        /\ UNCHANGED <<stored, path, todo, found, failed, backend, call>> /\ Watch
    BY <1>3 DEF Read, Give, To, Rest, i
  <2>2. Content(stored[i]) \in Contents
    BY <1>1, Starts, ContentFacts DEF WorldTyped
  <2>3. Moves(c)
    BY <1>1, <2>1, <2>2, Starts DEF Moves, Effect, Kept, LeavesOthers, OwnTyped, StorePcs
  <2>4. Justified(c)'
    BY <1>1, <2>1, <2>3, Starts, Sees DEF Justified, OwnTyped
  <2>. QED
    BY <1>1, <2>1, <2>3, <2>4, Starts, GivesKeep DEF OwnTyped
<1>. QED
  BY <1>2, <1>3

LEMMA FetchMoves ==
  ASSUME StoreInv, NEW c \in Client, Fetch(c)
  PROVE  Moves(c) /\ ClientInv(c)'
<1>1. /\ pc[c] = "fetch" /\ call[c] # Idle /\ call[c].kind = "read"
      /\ backend = "secret-service"
  BY Starts DEF Fetch, Placed
<1>2. PICK f \in found[c] : Give(c, IF Lives(f) THEN stored[f[1]] ELSE Nothing)
  BY DEF Fetch
<1>3. f \in Item \X Nat /\ f[1] \in call[c].of /\ f[1] \in Item
  BY <1>1, Starts DEF OwnTyped, Aimed
<1>. DEFINE x == IF Lives(f) THEN stored[f[1]] ELSE Nothing
<1>4. x \in held[c][f[1]]
  <2>1. CASE Lives(f)
    BY <1>1, <1>3, <2>1, Starts, ContentFacts DEF WorldTyped, Seen
  <2>2. CASE ~Lives(f)
    BY <1>1, <1>3, <2>2, Starts, ContentFacts DEF Lives, Seen, Outlived, Contents
  <2>. QED
    BY <2>1, <2>2
<1>5. x \in Contents
  BY <1>3, <1>4, Starts DEF WorldTyped, Fetch
<1>. HIDE DEF x
<1>6. /\ pc' = [pc EXCEPT ![c] = "answer"] /\ result' = [result EXCEPT ![c] = x]
      /\ UNCHANGED <<stored, path, todo, found, failed, backend, call>> /\ Watch
  BY <1>2 DEF Fetch, Give, To, Rest, x
<1>7. Moves(c)
  BY <1>1, <1>5, <1>6, Starts DEF Moves, Effect, Kept, LeavesOthers, OwnTyped, StorePcs
<1>8. Justified(c)'
  BY <1>1, <1>3, <1>4, <1>6, <1>7, Starts, Sees DEF Justified, OwnTyped
<1>. QED
  BY <1>1, <1>6, <1>7, <1>8, Starts, GivesKeep DEF OwnTyped

LEMMA WriteMoves ==
  ASSUME StoreInv, NEW c \in Client, Write(c)
  PROVE  Moves(c) /\ ClientInv(c)'
<1>. DEFINE i == TheItem(c)
<1>1. /\ pc[c] = "write" /\ call[c] # Idle /\ call[c].kind = "write"
      /\ i \in Item /\ call[c].of = {i} /\ call[c].val \in Value
  BY Starts, TheItemFacts, CallFacts DEF Write, Placed
<1>2. UNCHANGED <<todo, found, failed, backend, call>> /\ Watch
  BY DEF Write, Rest
<1>. HIDE DEF i
<1>3. ASSUME Put(i, call[c].val), NEW r \in {"ok", "error"}, Give(c, r)
      PROVE  Moves(c) /\ ClientInv(c)'
  <2>1. Moves(c)
    BY <1>1, <1>2, <1>3, Starts
    DEF Moves, Effect, Give, To, LeavesOthers, OwnTyped, StorePcs
  <2>2. pc'[c] = "answer" /\ result'[c] = r
    BY <1>1, <1>3, Starts DEF Give, To, OwnTyped
  <2>3. call[c].val \in held'[c][i]
    <3>1. stored'[i] = call[c].val
      BY <1>1, <1>3, Starts DEF Put, WorldTyped
    <3>. QED
      BY <1>1, <2>1, <3>1, Sees, ContentFacts DEF Contents
  <2>4. Justified(c)'
    BY <1>1, <1>2, <2>2, <2>3 DEF Justified
  <2>. QED
    BY <1>2, <2>1, <2>2, <2>4, GivesKeep
<1>4. ASSUME NEW l \in {"add", "mkdir"}, To(c, l), Kept, UNCHANGED result
      PROVE  Moves(c) /\ ClientInv(c)'
  <2>1. Moves(c)
    BY <1>1, <1>2, <1>4, Starts
    DEF Moves, Effect, To, LeavesOthers, OwnTyped, StorePcs
  <2>2. pc'[c] = l
    BY <1>1, <1>4, Starts DEF To, OwnTyped
  <2>3. Placed(c)'
    BY <1>1, <1>2, <1>4, <2>2 DEF Placed
  <2>. QED
    BY <1>1, <1>2, <1>4, <2>1, <2>2, <2>3, GoesKeep
<1>. QED
  BY <1>3, <1>4 DEF Write, i

LEMMA AddMoves ==
  ASSUME StoreInv, NEW c \in Client, Add(c)
  PROVE  Moves(c) /\ ClientInv(c)'
<1>. DEFINE i == TheItem(c)
<1>1. /\ pc[c] = "add" /\ call[c] # Idle /\ call[c].kind = "write"
      /\ i \in Item /\ call[c].of = {i} /\ call[c].val \in Value
  BY Starts, TheItemFacts, CallFacts DEF Add, Placed
<1>2. UNCHANGED <<todo, found, failed, backend, call>> /\ Watch
  BY DEF Add, Rest
<1>. HIDE DEF i
<1>3. CASE stored[i] = Nothing
  <2>0. Put(i, call[c].val) /\ Give(c, "ok")
    BY <1>3 DEF Add, i
  <2>1. Moves(c)
    BY <1>1, <1>2, <2>0, Starts
    DEF Moves, Effect, Give, To, LeavesOthers, OwnTyped, StorePcs
  <2>2. pc'[c] = "answer" /\ result'[c] = "ok"
    BY <1>1, <2>0, Starts DEF Give, To, OwnTyped
  <2>3. call[c].val \in held'[c][i]
    <3>1. stored'[i] = call[c].val
      BY <1>1, <2>0, Starts DEF Put, WorldTyped
    <3>. QED
      BY <1>1, <2>1, <3>1, Sees, ContentFacts DEF Contents
  <2>4. Justified(c)'
    BY <1>1, <1>2, <2>2, <2>3 DEF Justified
  <2>. QED
    BY <1>2, <2>1, <2>2, <2>4, GivesKeep
<1>4. CASE stored[i] # Nothing
  <2>0. Kept /\ Give(c, "error")
    BY <1>4 DEF Add, i
  <2>1. Moves(c)
    BY <1>1, <1>2, <2>0, Starts
    DEF Moves, Effect, Give, To, LeavesOthers, OwnTyped, StorePcs
  <2>2. pc'[c] = "answer" /\ result'[c] = "error"
    BY <1>1, <2>0, Starts DEF Give, To, OwnTyped
  <2>. QED
    BY <1>2, <2>1, <2>2, GivesKeep DEF Justified
<1>. QED
  BY <1>3, <1>4

\* A step that only answers with an error.
LEMMA ErrorMoves ==
  ASSUME StoreInv, NEW c \in Client, pc[c] # "idle", Give(c, "error"), Kept,
         UNCHANGED <<todo, found, failed, backend, call>>, Watch
  PROVE  Moves(c) /\ ClientInv(c)'
<1>1. Moves(c)
  BY Starts DEF Moves, Effect, Give, To, LeavesOthers, OwnTyped, StorePcs
<1>2. pc'[c] = "answer" /\ result'[c] = "error"
  BY Starts DEF Give, To, OwnTyped
<1>. QED
  BY <1>1, <1>2, GivesKeep DEF Justified

LEMMA CreateTempMoves ==
  ASSUME StoreInv, NEW c \in Client, CreateTemp(c)
  PROVE  Moves(c) /\ ClientInv(c)'
<1>1. pc[c] = "mkdir" /\ call[c] # Idle /\ call[c].kind = "write"
  BY Starts DEF CreateTemp, Placed
<1>2. UNCHANGED <<todo, found, failed, backend, call>> /\ Kept /\ Watch
  BY DEF CreateTemp, Rest, Kept
<1>3. CASE Give(c, "error")
  BY <1>1, <1>2, <1>3, ErrorMoves
<1>4. CASE To(c, "temp") /\ UNCHANGED result
  <2>1. Moves(c)
    BY <1>1, <1>2, <1>4, Starts
    DEF Moves, Effect, To, LeavesOthers, OwnTyped, StorePcs
  <2>2. pc'[c] = "temp"
    BY <1>1, <1>4, Starts DEF To, OwnTyped
  <2>3. Placed(c)'
    BY <1>1, <1>2, <2>2 DEF Placed
  <2>. QED
    BY <1>1, <1>2, <2>1, <2>2, <2>3, GoesKeep
<1>. QED
  BY <1>3, <1>4 DEF CreateTemp

LEMMA RenameMoves ==
  ASSUME StoreInv, NEW c \in Client, Rename(c)
  PROVE  Moves(c) /\ ClientInv(c)'
<1>. DEFINE i == TheItem(c)
<1>1. /\ pc[c] \in {"temp", "lost"} /\ call[c] # Idle /\ call[c].kind = "write"
      /\ i \in Item /\ call[c].of = {i} /\ call[c].val \in Value
  BY Starts, TheItemFacts, CallFacts DEF Rename, Placed
<1>2. UNCHANGED <<todo, found, failed, backend, call>> /\ Watch
  BY DEF Rename, Rest
<1>. HIDE DEF i
<1>3. CASE pc[c] = "temp"
  <2>0. Put(i, call[c].val) /\ Give(c, "ok")
    BY <1>3 DEF Rename, i
  <2>1. Moves(c)
    BY <1>1, <1>2, <2>0, Starts
    DEF Moves, Effect, Give, To, LeavesOthers, OwnTyped, StorePcs
  <2>2. pc'[c] = "answer" /\ result'[c] = "ok"
    BY <1>1, <2>0, Starts DEF Give, To, OwnTyped
  <2>3. call[c].val \in held'[c][i]
    <3>1. stored'[i] = call[c].val
      BY <1>1, <2>0, Starts DEF Put, WorldTyped
    <3>. QED
      BY <1>1, <2>1, <3>1, Sees, ContentFacts DEF Contents
  <2>4. Justified(c)'
    BY <1>1, <1>2, <2>2, <2>3 DEF Justified
  <2>. QED
    BY <1>2, <2>1, <2>2, <2>4, GivesKeep
<1>4. CASE pc[c] # "temp"
  BY <1>1, <1>2, <1>4, ErrorMoves DEF Rename
<1>. QED
  BY <1>3, <1>4

LEMMA DeleteMoves ==
  ASSUME StoreInv, NEW c \in Client, Delete(c)
  PROVE  Moves(c) /\ ClientInv(c)'
<1>. DEFINE i == TheItem(c)
<1>1. /\ pc[c] = "delete" /\ call[c] # Idle /\ call[c].kind = "delete"
      /\ i \in Item /\ call[c].of = {i}
  BY Starts, TheItemFacts, CallFacts DEF Delete, Placed
<1>2. UNCHANGED <<todo, failed, backend, call>> /\ Watch
  BY DEF Delete, Rest
<1>. HIDE DEF i
<1>3. CASE backend = "secret-service" /\ stored[i] # Nothing
  <2>1. /\ pc' = [pc EXCEPT ![c] = "drop"]
        /\ found' = [found EXCEPT ![c] = Objects({i})] /\ Kept /\ UNCHANGED result
    BY <1>3 DEF Delete, To, i
  <2>2. Objects({i}) = {<<i, path[i]>>} /\ <<i, path[i]>> \in Item \X Nat
    BY <1>1, <1>3, Starts DEF Objects, WorldTyped
  <2>3. Moves(c)
    BY <1>1, <1>2, <2>1, <2>2, Starts
    DEF Moves, Effect, LeavesOthers, OwnTyped, StorePcs
  <2>4. found'[c] = {<<i, path[i]>>} /\ pc'[c] = "drop" /\ path' = path
    BY <1>1, <2>1, <2>2, Starts DEF OwnTyped, Kept
  <2>5. Outlived(c)'
    BY <2>3, <2>4, OutlivedKept
  <2>6. Placed(c)'
    BY <1>1, <1>2, <1>3, <2>4 DEF Placed
  <2>7. Aimed(c)'
    BY <1>1, <1>2, <2>2, <2>4, Starts DEF Aimed
  <2>8. Sweeps(c)' /\ Vouched(c)'
    BY <1>1, <1>2, <2>4 DEF Sweeps, Vouched
  <2>. QED
    BY <2>3, <2>5, <2>6, <2>7, <2>8 DEF ClientInv
<1>4. CASE ~(backend = "secret-service" /\ stored[i] # Nothing)
  <2>1. Put(i, Nothing) /\ Give(c, "ok") /\ UNCHANGED found
    BY <1>4 DEF Delete, i
  <2>2. Moves(c)
    BY <1>1, <1>2, <2>1, Starts
    DEF Moves, Effect, Give, To, LeavesOthers, OwnTyped, StorePcs
  <2>3. pc'[c] = "answer" /\ result'[c] = "ok"
    BY <1>1, <2>1, Starts DEF Give, To, OwnTyped
  <2>4. Nothing \in held'[c][i]
    <3>1. stored'[i] = Nothing
      BY <1>1, <2>1, Starts DEF Put, WorldTyped
    <3>. QED
      BY <1>1, <2>2, <3>1, Sees, ContentFacts DEF Contents
  <2>5. Justified(c)'
    BY <1>1, <1>2, <2>3, <2>4 DEF Justified
  <2>. QED
    BY <1>2, <2>1, <2>2, <2>3, <2>5, GivesKeep
<1>. QED
  BY <1>3, <1>4

\* The invariant of a clear that goes on.
LEMMA ClearKeeps ==
  ASSUME StoreInv, NEW c \in Client, Moves(c), call[c].kind = "clear",
         pc'[c] \in {"names", "each", "tree"}, Placed(c)',
         todo'[c] \subseteq call[c].of,
         \A f \in found'[c] : f \in found[c] \/ path'[f[1]] = f[2],
         ~failed'[c] => \A i \in call[c].of : Nothing \in held'[c][i] \/ Pends(c, i)'
  PROVE  ClientInv(c)'
<1>1. Outlived(c)'
  BY OutlivedKept
<1>2. Aimed(c)'
  BY DEF Aimed, Moves
<1>3. Sweeps(c)' /\ Vouched(c)'
  BY DEF Sweeps, Vouched, Moves
<1>. QED
  BY <1>1, <1>2, <1>3 DEF ClientInv

LEMMA DropMoves ==
  ASSUME StoreInv, NEW c \in Client, Drop(c)
  PROVE  Moves(c) /\ ClientInv(c)'
<1>1. /\ pc[c] = "drop" /\ call[c] # Idle /\ call[c].kind \in {"delete", "clear"}
      /\ backend = "secret-service" /\ call[c].of \subseteq Item
  BY Starts, CallFacts DEF Drop, Placed
<1>2. /\ UNCHANGED <<todo, backend, call>> /\ Watch
      /\ found' = [found EXCEPT ![c] = {}]
  BY DEF Drop, Rest
<1>3. PICK f \in Item \X Nat : found[c] = {f} /\ f[1] \in call[c].of
  BY <1>1, Starts DEF Aimed
<1>4. IF Lives(f) THEN Put(f[1], Nothing) ELSE Kept
  BY <1>3 DEF Drop
<1>5. PICK r \in {"ok", "error"} :
        IF call[c].kind = "clear"
        THEN /\ failed' = [failed EXCEPT ![c] = @ \/ r = "error"]
             /\ To(c, "each") /\ UNCHANGED result
        ELSE Give(c, r) /\ UNCHANGED failed
  BY DEF Drop
<1>6. Effect(c)
  BY <1>1, <1>3, <1>4 DEF Effect
<1>7. /\ OwnTyped' /\ LeavesOthers(c) /\ found'[c] = {}
      /\ call[c].kind = "clear" => pc'[c] = "each" /\ (~failed'[c] => ~failed[c])
      /\ call[c].kind # "clear" => pc'[c] = "answer" /\ result'[c] = r
  BY <1>1, <1>2, <1>5, Starts DEF OwnTyped, LeavesOthers, To, Give, StorePcs
<1>8. Moves(c)
  BY <1>1, <1>2, <1>6, <1>7 DEF Moves
<1>9. Nothing \in held'[c][f[1]]
  <2>1. f[1] \in Item
    BY <1>3
  <2>2. CASE Lives(f)
    <3>1. stored'[f[1]] = Nothing
      BY <1>1, <1>4, <2>1, <2>2, Starts DEF Put, WorldTyped
    <3>. QED
      BY <1>8, <2>1, <3>1, Sees, ContentFacts DEF Contents
  <2>3. CASE stored[f[1]] = Nothing
    BY <1>8, <2>1, <2>3, Sees, ContentFacts DEF Contents
  <2>4. CASE path[f[1]] # f[2]
    BY <1>1, <1>3, <1>8, <2>1, <2>4, Starts, Sees DEF Outlived
  <2>. QED
    BY <2>2, <2>3, <2>4 DEF Lives
<1>10. CASE call[c].kind = "clear"
  <2>1. Placed(c)'
    BY <1>1, <1>2, <1>7, <1>10 DEF Placed
  <2>2. ASSUME ~failed'[c], NEW i \in call[c].of
        PROVE  Nothing \in held'[c][i] \/ Pends(c, i)'
    <3>1. Nothing \in held[c][i] \/ Pends(c, i)
      BY <1>1, <1>7, <1>10, <2>2, Starts DEF Sweeps
    <3>2. CASE Nothing \in held[c][i]
      BY <1>1, <1>8, <3>2, Sees
    <3>3. CASE i = f[1]
      BY <1>9, <3>3
    <3>4. CASE i # f[1] /\ Pends(c, i)
      BY <1>1, <1>2, <1>3, <1>7, <1>10, <3>4 DEF Pends
    <3>. QED
      BY <3>1, <3>2, <3>3, <3>4
  <2>. QED
    BY <1>1, <1>2, <1>7, <1>8, <1>10, <2>1, <2>2, Starts, ClearKeeps DEF Aimed
<1>11. CASE call[c].kind # "clear"
  <2>1. call[c].of = {f[1]}
    BY <1>1, <1>3, <1>11, Starts, CallFacts
  <2>2. Justified(c)'
    BY <1>1, <1>2, <1>7, <1>9, <1>11, <2>1 DEF Justified
  <2>. QED
    BY <1>2, <1>7, <1>8, <1>11, <2>2, GivesKeep
<1>. QED
  BY <1>10, <1>11

LEMMA ListMoves ==
  ASSUME StoreInv, NEW c \in Client, List(c)
  PROVE  Moves(c) /\ ClientInv(c)'
<1>1. /\ pc[c] = "list" /\ call[c] # Idle /\ call[c].kind = "clear"
      /\ call[c].of \subseteq Item
  BY Starts, CallFacts DEF List, Placed
<1>2. /\ UNCHANGED <<failed, result, backend, call>> /\ Watch /\ Kept
  BY DEF List, Rest, Kept
<1>3. CASE backend = "secret-service"
  <2>1. /\ pc' = [pc EXCEPT ![c] = "names"]
        /\ found' = [found EXCEPT ![c] = Objects(Item)] /\ UNCHANGED todo
    BY <1>3 DEF List, To
  <2>2. /\ Objects(Item) \subseteq Item \X Nat
        /\ \A f \in Objects(Item) : path[f[1]] = f[2]
        /\ \A i \in Item : stored[i] # Nothing => <<i, path[i]>> \in Objects(Item)
    BY <1>1, Starts, ObjectFacts
  <2>3. Moves(c)
    BY <1>1, <1>2, <2>1, <2>2, Starts
    DEF Moves, Effect, LeavesOthers, OwnTyped, StorePcs
  <2>4. found'[c] = Objects(Item) /\ pc'[c] = "names" /\ path' = path
    BY <1>1, <1>2, <2>1, <2>2, Starts DEF OwnTyped, Kept
  <2>5. Placed(c)'
    BY <1>1, <1>2, <1>3, <2>4 DEF Placed
  <2>6. ASSUME NEW i \in call[c].of
        PROVE  Nothing \in held'[c][i] \/ Pends(c, i)'
    <3>1. CASE stored[i] = Nothing
      BY <1>1, <2>3, <3>1, Sees, ContentFacts DEF Contents
    <3>2. CASE stored[i] # Nothing
      <4>1. <<i, path[i]>> \in found'[c] /\ <<i, path[i]>>[1] = i
        BY <1>1, <2>2, <2>4, <3>2
      <4>. QED
        BY <2>4, <4>1 DEF Pends
    <3>. QED
      BY <3>1, <3>2
  <2>. QED
    BY <1>1, <2>1, <2>2, <2>3, <2>4, <2>5, <2>6, Starts, ClearKeeps DEF Aimed
<1>4. CASE backend # "secret-service"
  <2>. DEFINE td == IF backend = "aws-cli-cache" THEN call[c].of \cap {Token}
                    ELSE {i \in call[c].of : stored[i] # Nothing}
  <2>1. /\ pc' = [pc EXCEPT ![c] = "each"]
        /\ todo' = [todo EXCEPT ![c] = td] /\ UNCHANGED found
    BY <1>4 DEF List, To
  <2>2. td \subseteq Item /\ td \subseteq call[c].of
    BY <1>1
  <2>3. ASSUME NEW i \in call[c].of, i \notin td
        PROVE  \/ backend = "aws-cli-cache" /\ i \in Role
               \/ stored[i] = Nothing
    BY <1>1, <2>3 DEF Item
  <2>. HIDE DEF td
  <2>4. Moves(c)
    BY <1>1, <1>2, <2>1, <2>2, Starts
    DEF Moves, Effect, LeavesOthers, OwnTyped, StorePcs
  <2>5. todo'[c] = td /\ pc'[c] = "each" /\ found' = found
    BY <1>1, <2>1, Starts DEF OwnTyped
  <2>6. Placed(c)'
    BY <1>1, <1>2, <1>4, <2>5 DEF Placed
  <2>7. ASSUME NEW i \in call[c].of
        PROVE  Nothing \in held'[c][i] \/ Pends(c, i)'
    <3>1. CASE stored[i] = Nothing
      BY <1>1, <2>4, <3>1, Sees, ContentFacts DEF Contents
    <3>2. CASE stored[i] # Nothing
      BY <1>2, <2>3, <2>5, <3>2 DEF Pends
    <3>. QED
      BY <3>1, <3>2
  <2>. QED
    BY <1>1, <2>2, <2>4, <2>5, <2>6, <2>7, ClearKeeps
<1>. QED
  BY <1>3, <1>4

LEMMA NameMoves ==
  ASSUME StoreInv, NEW c \in Client, Name(c)
  PROVE  Moves(c) /\ ClientInv(c)'
<1>1. /\ pc[c] = "names" /\ call[c] # Idle /\ call[c].kind = "clear"
      /\ call[c].of \subseteq Item /\ backend = "secret-service"
  BY Starts, CallFacts DEF Name, Placed
<1>2. UNCHANGED <<failed, backend, call>> /\ Watch /\ Kept
  BY DEF Name, Rest, Kept
<1>3. ASSUME NEW i \in call[c].of, ~failed[c]
      PROVE  \/ Nothing \in held[c][i] \/ i \in todo[c]
             \/ \E f \in found[c] : f[1] = i
  BY <1>1, <1>3, Starts DEF Sweeps, Pends
<1>4. CASE found[c] = {}
  <2>1. pc' = [pc EXCEPT ![c] = "each"] /\ UNCHANGED <<todo, found, result>>
    BY <1>4 DEF Name, To
  <2>2. Moves(c)
    BY <1>1, <1>2, <2>1, Starts
    DEF Moves, Effect, LeavesOthers, OwnTyped, StorePcs
  <2>3. pc'[c] = "each"
    BY <1>1, <2>1, Starts DEF OwnTyped
  <2>4. Placed(c)'
    BY <1>1, <1>2, <2>3 DEF Placed
  <2>5. ASSUME ~failed'[c], NEW i \in call[c].of
        PROVE  Nothing \in held'[c][i] \/ Pends(c, i)'
    BY <1>1, <1>2, <1>3, <1>4, <2>1, <2>2, <2>3, <2>5, Sees DEF Pends
  <2>. QED
    BY <1>1, <2>1, <2>2, <2>3, <2>4, <2>5, Starts, ClearKeeps DEF Aimed
<1>5. CASE found[c] # {}
  <2>1. PICK f \in found[c] :
          IF Lives(f)
          THEN /\ found' = [found EXCEPT ![c] = @ \ {f}]
               /\ todo' = [todo EXCEPT ![c] = @ \cup (call[c].of \cap {f[1]})]
               /\ UNCHANGED <<pc, result>>
          ELSE Give(c, "error") /\ UNCHANGED <<todo, found>>
    BY <1>5 DEF Name
  <2>2. CASE Lives(f)
    <3>1. /\ found' = [found EXCEPT ![c] = @ \ {f}]
          /\ todo' = [todo EXCEPT ![c] = @ \cup (call[c].of \cap {f[1]})]
          /\ UNCHANGED <<pc, result>>
      BY <2>1, <2>2
    <3>2. Moves(c)
      BY <1>1, <1>2, <3>1, Starts
      DEF Moves, Effect, LeavesOthers, OwnTyped
    <3>3. found'[c] = found[c] \ {f} /\ todo'[c] = todo[c] \cup (call[c].of \cap {f[1]})
      BY <1>1, <3>1, Starts DEF OwnTyped
    <3>4. Placed(c)'
      BY <1>1, <1>2, <3>1 DEF Placed
    <3>5. ASSUME ~failed'[c], NEW i \in call[c].of
          PROVE  Nothing \in held'[c][i] \/ Pends(c, i)'
      <4>1. CASE Nothing \in held[c][i]
        BY <1>1, <3>2, <4>1, Sees
      <4>2. CASE i \in todo[c] \/ i = f[1]
        BY <1>1, <3>1, <3>3, <4>2 DEF Pends
      <4>3. CASE i # f[1] /\ \E g \in found[c] : g[1] = i
        BY <1>1, <3>1, <3>3, <4>3 DEF Pends
      <4>. QED
        BY <1>2, <1>3, <3>5, <4>1, <4>2, <4>3
    <3>. QED
      BY <1>1, <3>1, <3>2, <3>3, <3>4, <3>5, Starts, ClearKeeps DEF Aimed
  <2>3. CASE ~Lives(f)
    BY <1>1, <1>2, <2>1, <2>3, ErrorMoves
  <2>. QED
    BY <2>2, <2>3
<1>. QED
  BY <1>4, <1>5

LEMMA EachMoves ==
  ASSUME StoreInv, NEW c \in Client, Each(c)
  PROVE  Moves(c) /\ ClientInv(c)'
<1>1. /\ pc[c] = "each" /\ call[c] # Idle /\ call[c].kind = "clear"
      /\ call[c].of \subseteq Item /\ todo[c] \subseteq call[c].of
  BY Starts, CallFacts DEF Each, Placed, Aimed
<1>2. UNCHANGED <<failed, backend, call>> /\ Watch
  BY DEF Each, Rest
<1>3. ASSUME NEW i \in call[c].of, ~failed[c]
      PROVE  \/ Nothing \in held[c][i] \/ i \in todo[c]
             \/ backend = "aws-cli-cache" /\ i \in Role
  BY <1>1, <1>3, Starts DEF Sweeps, Pends
<1>4. ASSUME NEW i \in todo[c], todo' = [todo EXCEPT ![c] = @ \ {i}],
             UNCHANGED result,
             IF backend = "secret-service"
             THEN /\ Kept /\ found' = [found EXCEPT ![c] = Objects({i})]
                  /\ IF stored[i] = Nothing THEN UNCHANGED pc ELSE To(c, "drop")
             ELSE Put(i, Nothing) /\ UNCHANGED <<pc, found>>
      PROVE  Moves(c) /\ ClientInv(c)'
  <2>1. i \in Item /\ todo'[c] = todo[c] \ {i}
    BY <1>1, <1>4, Starts DEF OwnTyped
  <2>2. CASE backend # "secret-service"
    <3>1. Put(i, Nothing) /\ UNCHANGED <<pc, found>>
      BY <1>4, <2>2
    <3>2. Moves(c)
      BY <1>1, <1>2, <1>4, <3>1, Starts DEF Moves, Effect, LeavesOthers, OwnTyped
    <3>3. Placed(c)'
      BY <1>1, <1>2, <3>1 DEF Placed
    <3>4. Nothing \in held'[c][i]
      <4>1. stored'[i] = Nothing
        BY <1>1, <2>1, <3>1, Starts DEF Put, WorldTyped
      <4>. QED
        BY <2>1, <3>2, <4>1, Sees, ContentFacts DEF Contents
    <3>5. ASSUME ~failed'[c], NEW j \in call[c].of
          PROVE  Nothing \in held'[c][j] \/ Pends(c, j)'
      <4>1. CASE Nothing \in held[c][j]
        BY <1>1, <3>2, <4>1, Sees
      <4>2. CASE Nothing \notin held[c][j] /\ j # i
        BY <1>1, <1>2, <1>3, <2>1, <3>1, <3>5, <4>2 DEF Pends
      <4>. QED
        BY <3>4, <4>1, <4>2
    <3>. QED
      BY <1>1, <2>1, <3>1, <3>2, <3>3, <3>5, ClearKeeps
  <2>3. CASE backend = "secret-service" /\ stored[i] = Nothing
    <3>1. /\ Kept /\ found' = [found EXCEPT ![c] = Objects({i})] /\ UNCHANGED pc
      BY <1>4, <2>3
    <3>2. /\ Objects({i}) \subseteq Item \X Nat
          /\ \A f \in Objects({i}) : path[f[1]] = f[2]
      BY <1>1, <2>1, Starts, ObjectFacts
    <3>3. Moves(c)
      BY <1>1, <1>2, <1>4, <3>1, <3>2, Starts DEF Moves, Effect, LeavesOthers, OwnTyped
    <3>4. Placed(c)'
      BY <1>1, <1>2, <3>1 DEF Placed
    <3>5. found'[c] = Objects({i}) /\ path' = path
      BY <1>1, <3>1, Starts DEF OwnTyped, Kept
    <3>6. ASSUME ~failed'[c], NEW j \in call[c].of
          PROVE  Nothing \in held'[c][j] \/ Pends(c, j)'
      <4>1. CASE Nothing \in held[c][j]
        BY <1>1, <3>3, <4>1, Sees
      <4>2. CASE j = i
        BY <2>1, <2>3, <3>3, <4>2, Sees, ContentFacts DEF Contents
      <4>3. CASE Nothing \notin held[c][j] /\ j # i
        BY <1>1, <1>2, <1>3, <2>1, <3>1, <3>6, <4>3 DEF Pends
      <4>. QED
        BY <4>1, <4>2, <4>3
    <3>. QED
      BY <1>1, <2>1, <3>1, <3>2, <3>3, <3>4, <3>5, <3>6, ClearKeeps
  <2>4. CASE backend = "secret-service" /\ stored[i] # Nothing
    <3>1. /\ Kept /\ found' = [found EXCEPT ![c] = Objects({i})]
          /\ pc' = [pc EXCEPT ![c] = "drop"]
      BY <1>4, <2>4 DEF To
    <3>2. Objects({i}) = {<<i, path[i]>>} /\ <<i, path[i]>> \in Item \X Nat
      BY <1>1, <2>1, <2>4, Starts DEF Objects, WorldTyped
    <3>3. Moves(c)
      BY <1>1, <1>2, <1>4, <3>1, <3>2, Starts
      DEF Moves, Effect, LeavesOthers, OwnTyped, StorePcs
    <3>4. found'[c] = {<<i, path[i]>>} /\ path' = path /\ pc'[c] = "drop"
      BY <1>1, <3>1, <3>2, Starts DEF OwnTyped, Kept
    <3>5. Placed(c)'
      BY <1>1, <1>2, <2>4, <3>4 DEF Placed
    <3>6. Outlived(c)'
      BY <3>3, <3>4, OutlivedKept
    <3>7. Aimed(c)'
      BY <1>1, <1>2, <2>1, <3>2, <3>4 DEF Aimed
    <3>8. ASSUME ~failed'[c], NEW j \in call[c].of
          PROVE  Nothing \in held'[c][j] \/ Pends(c, j)'
      <4>1. CASE Nothing \in held[c][j]
        BY <1>1, <3>3, <4>1, Sees
      <4>2. CASE j = i
        BY <3>4, <4>2 DEF Pends
      <4>3. CASE Nothing \notin held[c][j] /\ j # i
        BY <1>1, <1>2, <1>3, <2>1, <2>4, <3>4, <3>8, <4>3 DEF Pends
      <4>. QED
        BY <4>1, <4>2, <4>3
    <3>9. Sweeps(c)' /\ Vouched(c)'
      BY <1>2, <3>4, <3>8 DEF Sweeps, Vouched
    <3>. QED
      BY <3>3, <3>5, <3>6, <3>7, <3>9 DEF ClientInv
  <2>. QED
    BY <2>2, <2>3, <2>4
<1>5. ASSUME todo[c] = {}, Kept, UNCHANGED <<todo, found>>,
             IF backend = "aws-cli-cache" THEN To(c, "tree") /\ UNCHANGED result
                                          ELSE Give(c, Cleared(c))
      PROVE  Moves(c) /\ ClientInv(c)'
  <2>1. CASE backend = "aws-cli-cache"
    <3>1. pc' = [pc EXCEPT ![c] = "tree"] /\ UNCHANGED result
      BY <1>5, <2>1 DEF To
    <3>2. Moves(c)
      BY <1>1, <1>2, <1>5, <3>1, Starts
      DEF Moves, Effect, LeavesOthers, OwnTyped, StorePcs
    <3>3. pc'[c] = "tree"
      BY <1>1, <3>1, Starts DEF OwnTyped
    <3>4. Placed(c)'
      BY <1>1, <1>2, <2>1, <3>3 DEF Placed
    <3>5. ASSUME ~failed'[c], NEW j \in call[c].of
          PROVE  Nothing \in held'[c][j] \/ Pends(c, j)'
      <4>1. CASE Nothing \in held[c][j]
        BY <1>1, <3>2, <4>1, Sees
      <4>2. CASE Nothing \notin held[c][j]
        BY <1>2, <1>3, <1>5, <3>3, <3>5, <4>2 DEF Pends
      <4>. QED
        BY <4>1, <4>2
    <3>. QED
      BY <1>1, <1>5, <3>2, <3>3, <3>4, <3>5, ClearKeeps
  <2>2. CASE backend # "aws-cli-cache"
    <3>1. Give(c, Cleared(c)) /\ Cleared(c) \in {"ok", "error"}
      BY <1>5, <2>2 DEF Cleared
    <3>2. Moves(c)
      BY <1>1, <1>2, <1>5, <3>1, Starts
      DEF Moves, Effect, Give, To, LeavesOthers, OwnTyped, StorePcs
    <3>3. pc'[c] = "answer" /\ result'[c] = Cleared(c)
      BY <1>1, <3>1, Starts DEF Give, To, OwnTyped
    <3>4. Cleared(c) = "ok" => \A j \in call[c].of : Nothing \in held'[c][j]
      <4>. SUFFICES ASSUME ~failed[c], NEW j \in call[c].of
                    PROVE  Nothing \in held'[c][j]
        BY DEF Cleared
      <4>1. Nothing \in held[c][j]
        BY <1>3, <1>5, <2>2
      <4>. QED
        BY <1>1, <3>2, <4>1, Sees
    <3>5. Justified(c)'
      BY <1>1, <1>2, <3>1, <3>3, <3>4 DEF Justified
    <3>. QED
      BY <1>5, <3>2, <3>3, <3>5, GivesKeep
  <2>. QED
    BY <2>1, <2>2
<1>. QED
  BY <1>4, <1>5 DEF Each

LEMMA UnlinkMoves ==
  ASSUME StoreInv, NEW c \in Client, Unlink(c)
  PROVE  Moves(c) /\ ClientInv(c)'
<1>1. /\ pc[c] = "tree" /\ call[c] # Idle /\ call[c].kind = "clear"
      /\ call[c].of \subseteq Item /\ Role \subseteq call[c].of
      /\ todo[c] \subseteq call[c].of
  BY Starts, CallFacts DEF Unlink, Placed, Aimed, Item
<1>2. UNCHANGED <<todo, found, failed, result, backend, call>> /\ Watch
  BY DEF Unlink, Rest, own
<1>3. Moves(c) /\ pc'[c] = "tree"
  <2>1. ASSUME NEW i \in Role, Put(i, Nothing), UNCHANGED pc
        PROVE  Moves(c) /\ pc'[c] = "tree"
    BY <1>1, <1>2, <2>1, Starts DEF Moves, Effect, LeavesOthers, OwnTyped
  <2>2. ASSUME NEW d \in Client, pc[d] = "temp", To(d, "lost"), Kept
        PROVE  Moves(c) /\ pc'[c] = "tree"
    BY <1>1, <1>2, <2>2, Starts
    DEF Moves, Effect, To, LeavesOthers, OwnTyped, StorePcs
  <2>. QED
    BY <2>1, <2>2 DEF Unlink
<1>4. Placed(c)'
  BY <1>1, <1>2, <1>3, Starts DEF Placed
<1>5. ASSUME ~failed'[c], NEW j \in call[c].of
      PROVE  Nothing \in held'[c][j] \/ Pends(c, j)'
  <2>1. Nothing \in held[c][j] \/ Pends(c, j)
    BY <1>1, <1>2, <1>5, Starts DEF Sweeps
  <2>2. CASE Nothing \in held[c][j]
    BY <1>1, <1>3, <2>2, Sees
  <2>3. CASE Pends(c, j)
    BY <1>1, <1>2, <1>3, <2>3 DEF Pends
  <2>. QED
    BY <2>1, <2>2, <2>3
<1>. QED
  BY <1>1, <1>2, <1>3, <1>4, <1>5, ClearKeeps

LEMMA RemoveDirMoves ==
  ASSUME StoreInv, NEW c \in Client, RemoveDir(c)
  PROVE  Moves(c) /\ ClientInv(c)'
<1>1. /\ pc[c] = "tree" /\ call[c] # Idle /\ call[c].kind = "clear"
      /\ call[c].of \subseteq Item
  BY Starts, CallFacts DEF RemoveDir, Placed
<1>2. UNCHANGED <<todo, found, failed, backend, call>> /\ Kept /\ Watch
  BY DEF RemoveDir, Rest, Kept
<1>3. Give(c, Cleared(c)) /\ Cleared(c) \in {"ok", "error"}
  BY DEF RemoveDir, Cleared
<1>4. Moves(c)
  BY <1>1, <1>2, <1>3, Starts
  DEF Moves, Effect, Give, To, LeavesOthers, OwnTyped, StorePcs
<1>5. pc'[c] = "answer" /\ result'[c] = Cleared(c)
  BY <1>1, <1>3, Starts DEF Give, To, OwnTyped
<1>6. Cleared(c) = "ok" => \A j \in call[c].of : Nothing \in held'[c][j]
  <2>. SUFFICES ASSUME ~failed[c], NEW j \in call[c].of
                PROVE  Nothing \in held'[c][j]
    BY DEF Cleared
  <2>1. Nothing \in held[c][j] \/ j \in Role
    BY <1>1, Starts DEF Sweeps, Pends
  <2>2. CASE j \in Role
    <3>1. stored[j] = Nothing /\ j \in Item
      BY <2>2 DEF RemoveDir, Item
    <3>. QED
      BY <1>4, <3>1, Sees, ContentFacts DEF Contents
  <2>. QED
    BY <1>1, <1>4, <2>1, <2>2, Sees
<1>7. Justified(c)'
  BY <1>1, <1>2, <1>3, <1>5, <1>6 DEF Justified
<1>. QED
  BY <1>2, <1>4, <1>5, <1>7, GivesKeep

LEMMA FailMoves ==
  ASSUME StoreInv, NEW c \in Client, Fail(c)
  PROVE  Moves(c) /\ ClientInv(c)'
<1>1. pc[c] # "idle" /\ call[c] # Idle /\ call[c].of \subseteq Item
  BY Starts, CallFacts DEF Fail
<1>2. UNCHANGED <<found, backend, call>> /\ Kept /\ Watch
  BY DEF Fail, Rest, Kept
<1>3. CASE pc[c] = "drop" /\ call[c].kind = "clear"
  <2>1. /\ failed' = [failed EXCEPT ![c] = TRUE] /\ pc' = [pc EXCEPT ![c] = "each"]
        /\ UNCHANGED <<todo, result>>
    BY <1>3 DEF Fail, To
  <2>2. Moves(c)
    BY <1>1, <1>2, <2>1, Starts
    DEF Moves, Effect, LeavesOthers, OwnTyped, StorePcs
  <2>3. pc'[c] = "each" /\ failed'[c]
    BY <1>1, <2>1, Starts DEF OwnTyped
  <2>4. Placed(c)'
    BY <1>1, <1>2, <1>3, <2>3 DEF Placed
  <2>. QED
    BY <1>1, <1>2, <1>3, <2>1, <2>2, <2>3, <2>4, Starts, ClearKeeps DEF Aimed
<1>4. CASE ~(pc[c] = "drop" /\ call[c].kind = "clear") /\ pc[c] = "each" /\ todo[c] # {}
  <2>1. PICK i \in todo[c] : todo' = [todo EXCEPT ![c] = @ \ {i}]
    BY <1>4 DEF Fail
  <2>2. failed' = [failed EXCEPT ![c] = TRUE] /\ UNCHANGED <<pc, result>>
    BY <1>4 DEF Fail
  <2>3. Moves(c)
    BY <1>1, <1>2, <2>1, <2>2, Starts
    DEF Moves, Effect, LeavesOthers, OwnTyped
  <2>4. pc' = pc /\ failed'[c] /\ todo'[c] \subseteq todo[c]
    BY <1>1, <2>1, <2>2, Starts DEF OwnTyped
  <2>5. Placed(c)' /\ call[c].kind = "clear"
    BY <1>1, <1>2, <1>4, <2>4, Starts DEF Placed
  <2>. QED
    BY <1>1, <1>2, <1>4, <2>3, <2>4, <2>5, Starts, ClearKeeps DEF Aimed
<1>5. CASE /\ ~(pc[c] = "drop" /\ call[c].kind = "clear")
           /\ ~(pc[c] = "each" /\ todo[c] # {})
  <2>1. Give(c, "error") /\ UNCHANGED <<todo, failed>>
    BY <1>5 DEF Fail, Unanswered
  <2>. QED
    BY <1>1, <1>2, <2>1, ErrorMoves
<1>. QED
  BY <1>3, <1>4, <1>5

-----------------------------------------------------------------------------
(* The steps around a call, and the theorem *)

LEMMA CallMoves ==
  ASSUME StoreInv, NEW c \in Client, ClientStep(c), ~Answer(c)
  PROVE  Moves(c) /\ ClientInv(c)'
BY ReadMoves, FetchMoves, WriteMoves, AddMoves, CreateTempMoves, RenameMoves,
   DeleteMoves, DropMoves, ListMoves, NameMoves, EachMoves, UnlinkMoves,
   RemoveDirMoves, FailMoves DEF ClientStep

\* The AWS CLI writes an item that is shared, and nothing else.
LEMMA CLIKeeps ==
  ASSUME StoreInv, CLIWrites
  PROVE  StoreInv' /\ Promised!Outside
<1>1. PICK x \in Contents \cup {Torn} : Put(Token, x)
  BY DEF CLIWrites, Contents
<1>2. /\ UNCHANGED <<backend, call, pc, todo, found, failed, result>> /\ Watch
      /\ backend = "aws-cli-cache" /\ Token \in Item
      /\ WorldTyped /\ OwnTyped /\ \A d \in Client : Seen(d)
  BY DEF CLIWrites, own, Item, StoreInv
<1>3. Stays
  BY <1>1, <1>2 DEF Stays, Changes
<1>4. WorldTyped' /\ \A d \in Client : Seen(d)'
  BY <1>2, <1>3, WorldStays
<1>5. OwnTyped'
  BY <1>2 DEF OwnTyped
<1>6. \A d \in Client : ClientInv(d)'
  BY <1>2, <1>3, OutlivedStays, Undisturbed
<1>7. Promised!Put(Token, Content(x))
  BY <1>1, <1>2, PutIsPut
<1>8. Token \in Shared /\ Content(x) \in Value \cup {Nothing}
  BY <1>2, ContentFacts DEF Shared, Contents
<1>. QED
  BY <1>4, <1>5, <1>6, <1>7, <1>8 DEF StoreInv, Promised!Outside

\* A call begins or ends, and the others have seen nothing new.
LEMMA OthersSee ==
  ASSUME StoreInv, NEW c \in Client, Watch, UNCHANGED <<backend, stored, path>>,
         \A d \in Client \ {c} : call'[d] = call[d] /\ found'[d] = found[d]
  PROVE  \A d \in Client \ {c} : held'[d] = held[d] /\ Seen(d)' /\ Outlived(d)'
<1>. TAKE d \in Client \ {c}
<1>1. held'[d] = [j \in Item |-> IF call[d] = Idle THEN {}
                    ELSE {Content(stored[j])} \cup (IF call[d] = Idle THEN {} ELSE held[d][j])]
  BY DEF Watch
<1>2. Seen(d) /\ Outlived(d) /\ held[d] \in [Item -> SUBSET Contents]
  BY DEF StoreInv, ClientInv, WorldTyped
<1>3. held'[d] = held[d]
  <2>1. CASE call[d] = Idle
    BY <1>1, <1>2, <2>1 DEF Seen
  <2>2. CASE call[d] # Idle
    <3>1. held[d] = [j \in Item |-> held[d][j]]
      BY <1>2
    <3>2. ASSUME NEW j \in Item PROVE held'[d][j] = held[d][j]
      BY <1>1, <1>2, <2>2, <3>2 DEF Seen
    <3>3. held'[d] = [j \in Item |-> held'[d][j]]
      BY <1>1
    <3>. QED
      BY <3>1, <3>2, <3>3
  <2>. QED
    BY <2>1, <2>2
<1>4. \A j \in Item : Content(stored[j])' = Content(stored[j])
  BY DEF Content
<1>5. Seen(d)'
  BY <1>2, <1>3, <1>4 DEF Seen
<1>6. Outlived(d)'
  BY <1>2, <1>3 DEF Outlived
<1>. QED
  BY <1>3, <1>5, <1>6

\* What the two have in common with a stutter of the promise.
LEMMA ItemsStay ==
  ASSUME UNCHANGED <<backend, stored>>
  PROVE  /\ [i \in Item |-> Content(stored[i])]' = [i \in Item |-> Content(stored[i])]
         /\ Shared' = Shared
BY DEF Content, Shared

LEMMA BeginKeeps ==
  ASSUME StoreInv, NEW c \in Client, NEW o \in Calls, Begin(c, o)
  PROVE  StoreInv' /\ Promised!Begin(c, o)
<1>1. /\ call[c] = Idle /\ call' = [call EXCEPT ![c] = o]
      /\ pc' = [pc EXCEPT ![c] = IF o.kind = "clear" THEN "list" ELSE o.kind]
      /\ todo' = [todo EXCEPT ![c] = {}] /\ found' = [found EXCEPT ![c] = {}]
      /\ failed' = [failed EXCEPT ![c] = FALSE]
      /\ result' = [result EXCEPT ![c] = "none"]
      /\ UNCHANGED <<backend, stored, path>> /\ Watch
  BY DEF Begin, To, world
<1>2. WorldTyped /\ OwnTyped /\ \A d \in Client : Seen(d)
  BY DEF StoreInv
<1>3. o # Idle /\ o.kind \in {"read", "write", "delete", "clear"} /\ o.of \subseteq Item
  BY DEF Calls, Idle, Item
<1>4. /\ call'[c] = o /\ todo'[c] = {} /\ found'[c] = {} /\ ~failed'[c]
      /\ pc'[c] = IF o.kind = "clear" THEN "list" ELSE o.kind
      /\ \A d \in Client \ {c} :
           /\ call'[d] = call[d] /\ pc'[d] = pc[d] /\ todo'[d] = todo[d]
           /\ found'[d] = found[d] /\ failed'[d] = failed[d] /\ result'[d] = result[d]
  BY <1>1, <1>2 DEF WorldTyped, OwnTyped
<1>5. \A d \in Client \ {c} : held'[d] = held[d] /\ Seen(d)' /\ Outlived(d)'
  BY <1>1, <1>4, OthersSee
<1>6. held'[c] = [i \in Item |-> {Content(stored[i])}]
  BY <1>1, <1>3, <1>4 DEF Watch
<1>7. held' = [held EXCEPT ![c] = [i \in Item |-> {Content(stored[i])}]]
  <2>1. held' = [d \in Client |-> held'[d]]
    BY <1>1 DEF Watch
  <2>. QED
    BY <1>2, <1>5, <1>6, <2>1 DEF WorldTyped
<1>8. WorldTyped'
  <2>1. \A i \in Item : {Content(stored[i])} \subseteq Contents
    BY <1>2, ContentFacts DEF WorldTyped
  <2>2. held' \in [Client -> [Item -> SUBSET Contents]]
    BY <1>2, <1>7, <2>1 DEF WorldTyped
  <2>. QED
    BY <1>1, <1>2, <2>2 DEF WorldTyped
<1>9. OwnTyped'
  BY <1>1, <1>2, <1>3 DEF OwnTyped, StorePcs
<1>10. Seen(c)'
  <2>1. \A i \in Item : Content(stored[i])' = Content(stored[i])
    BY <1>1 DEF Content
  <2>. QED
    BY <1>3, <1>4, <1>6, <2>1 DEF Seen
<1>11. ClientInv(c)'
  BY <1>3, <1>4 DEF ClientInv, Placed, Outlived, Aimed, Sweeps, Pends, Vouched
<1>12. \A d \in Client \ {c} : ClientInv(d)'
  BY <1>1, <1>4, <1>5, Undisturbed
<1>13. StoreInv'
  BY <1>5, <1>8, <1>9, <1>10, <1>11, <1>12 DEF StoreInv
<1>. DEFINE answer == [d \in Client |-> IF call[d] = Idle THEN result[d] ELSE "none"]
<1>14. answer' = [answer EXCEPT ![c] = "none"]
  BY <1>1, <1>2, <1>3, <1>4 DEF OwnTyped
<1>15. Promised!Idle = Idle
  BY DEF Promised!Idle, Idle
<1>16. [i \in Item |-> {[j \in Item |-> Content(stored[j])][i]}]
         = [i \in Item |-> {Content(stored[i])}]
  OBVIOUS
<1>17. Promised!Begin(c, o)
  BY <1>1, <1>3, <1>7, <1>14, <1>15, <1>16, ItemsStay DEF Promised!Begin
<1>. QED
  BY <1>13, <1>17

LEMMA JustifiedIsAllowed ==
  ASSUME StoreInv, NEW c \in Client, call[c] # Idle, Justified(c)
  PROVE  result[c] \in Promised!Allowed(c)
<1>1. call[c].kind \in {"read", "write", "delete", "clear"}
  BY CallFacts DEF StoreInv
<1>2. CASE result[c] = "error"
  BY <1>2 DEF Promised!Allowed
<1>3. ASSUME call[c].kind = "read", NEW i \in call[c].of, result[c] \in held[c][i]
      PROVE  result[c] \in Promised!Allowed(c)
  <2>1. result[c] \in UNION {Promised!Held(c, j) : j \in call[c].of}
    BY <1>3 DEF Promised!Held
  <2>. QED
    BY <1>3, <2>1 DEF Promised!Allowed
<1>4. ASSUME call[c].kind = "write", result[c] = "ok", NEW i \in call[c].of,
             call[c].val \in held[c][i]
      PROVE  result[c] \in Promised!Allowed(c)
  <2>1. "ok" \in {"ok" : j \in {k \in call[c].of : call[c].val \in Promised!Held(c, k)}}
    BY <1>4 DEF Promised!Held
  <2>. QED
    BY <1>4, <2>1 DEF Promised!Allowed
<1>5. ASSUME call[c].kind \in {"delete", "clear"}, result[c] = "ok",
             \A i \in call[c].of : Nothing \in held[c][i]
      PROVE  result[c] \in Promised!Allowed(c)
  <2>1. \A i \in call[c].of : Nothing \in Promised!Held(c, i)
    BY <1>5 DEF Promised!Held
  <2>. QED
    BY <1>5, <2>1 DEF Promised!Allowed
<1>. QED
  BY <1>1, <1>2, <1>3, <1>4, <1>5 DEF Justified

LEMMA AnswerKeeps ==
  ASSUME StoreInv, NEW c \in Client, Answer(c)
  PROVE  StoreInv' /\ Promised!Return(c)
<1>1. /\ pc[c] = "answer" /\ pc' = [pc EXCEPT ![c] = "idle"]
      /\ call' = [call EXCEPT ![c] = Idle]
      /\ UNCHANGED <<backend, stored, path, todo, found, failed, result>> /\ Watch
  BY DEF Answer, To, world, own
<1>2. /\ WorldTyped /\ OwnTyped /\ call[c] # Idle /\ Justified(c)
  BY <1>1, Starts DEF Vouched
<1>3. /\ call'[c] = Idle /\ pc'[c] = "idle"
      /\ \A d \in Client \ {c} : call'[d] = call[d] /\ pc'[d] = pc[d]
  BY <1>1, <1>2 DEF WorldTyped, OwnTyped
<1>4. \A d \in Client \ {c} : held'[d] = held[d] /\ Seen(d)' /\ Outlived(d)'
  BY <1>1, <1>3, OthersSee
<1>5. held'[c] = [i \in Item |-> {}]
  BY <1>1, <1>3 DEF Watch
<1>6. held' = [held EXCEPT ![c] = [i \in Item |-> {}]]
  <2>1. held' = [d \in Client |-> held'[d]]
    BY <1>1 DEF Watch
  <2>. QED
    BY <1>2, <1>4, <1>5, <2>1 DEF WorldTyped
<1>7. WorldTyped'
  <2>1. held' \in [Client -> [Item -> SUBSET Contents]]
    BY <1>2, <1>6 DEF WorldTyped
  <2>. QED
    BY <1>1, <1>2, <2>1 DEF WorldTyped
<1>8. OwnTyped'
  BY <1>1, <1>2 DEF OwnTyped, StorePcs
<1>9. Seen(c)' /\ ClientInv(c)'
  BY <1>3, <1>5 DEF Seen, ClientInv, Placed, Outlived, Aimed, Sweeps, Vouched, Idle
<1>10. \A d \in Client \ {c} : ClientInv(d)'
  BY <1>1, <1>3, <1>4, Undisturbed
<1>11. StoreInv'
  BY <1>4, <1>7, <1>8, <1>9, <1>10 DEF StoreInv
<1>. DEFINE answer == [d \in Client |-> IF call[d] = Idle THEN result[d] ELSE "none"]
<1>12. answer' = [answer EXCEPT ![c] = result[c]]
  BY <1>1, <1>2, <1>3
<1>13. Promised!Idle = Idle /\ Promised!NotHeld = [i \in Item |-> {}]
  BY DEF Promised!Idle, Idle, Promised!NotHeld
<1>14. result[c] \in Promised!Allowed(c)
  BY <1>2, JustifiedIsAllowed
<1>15. Promised!Return(c)
  BY <1>1, <1>2, <1>6, <1>12, <1>13, <1>14, ItemsStay DEF Promised!Return
<1>. QED
  BY <1>11, <1>15

LEMMA StoreStart == StoreInit => StoreInv /\ Promised!StoreInit
<1>. SUFFICES ASSUME StoreInit PROVE StoreInv /\ Promised!StoreInit
  OBVIOUS
<1>. USE DEF StoreInit
<1>1. WorldTyped
  BY ContentFacts DEF WorldTyped, Contents
<1>2. OwnTyped
  BY DEF OwnTyped, StorePcs
<1>3. ASSUME NEW c \in Client PROVE Seen(c) /\ ClientInv(c)
  BY DEF Seen, ClientInv, Placed, Outlived, Aimed, Sweeps, Vouched, Idle
<1>4. Promised!Idle = Idle /\ Promised!NotHeld = [i \in Item |-> {}]
  BY DEF Promised!Idle, Idle, Promised!NotHeld
<1>5. Content(Nothing) = Nothing /\ Shared \subseteq Item
  BY ContentFacts DEF Shared, Item, Contents
<1>6. [i \in Item |-> Content(stored[i])] = [i \in Item |-> Nothing]
  BY <1>5
<1>7. Promised!StoreInit
  BY <1>4, <1>5, <1>6 DEF Promised!StoreInit
<1>. QED
  BY <1>1, <1>2, <1>3, <1>7 DEF StoreInv

LEMMA StoreStep ==
  StoreInv /\ [StoreNext]_storeVars
    => StoreInv' /\ [Promised!StoreNext]_(Promised!storeVars)
<1>. SUFFICES ASSUME StoreInv, [StoreNext]_storeVars
              PROVE  StoreInv' /\ [Promised!StoreNext]_(Promised!storeVars)
  OBVIOUS
<1>1. CASE UNCHANGED storeVars
  <2>1. StoreInv'
    BY <1>1 DEF storeVars, world, own, StoreInv, WorldTyped, OwnTyped, Seen, ClientInv,
       Placed, Outlived, Aimed, Sweeps, Pends, Vouched, Justified, Content
  <2>2. UNCHANGED Promised!storeVars
    BY <1>1 DEF storeVars, world, own, Promised!storeVars, Content, Shared
  <2>. QED
    BY <2>1, <2>2
<1>2. CASE CLIWrites
  BY <1>2, CLIKeeps DEF Promised!StoreNext
<1>3. ASSUME NEW c \in Client, Answer(c)
      PROVE  StoreInv' /\ Promised!StoreNext
  BY <1>3, AnswerKeeps DEF Promised!StoreNext
<1>4. ASSUME NEW c \in Client, ClientStep(c), ~Answer(c)
      PROVE  StoreInv' /\ [Promised!StoreNext]_(Promised!storeVars)
  BY <1>4, CallMoves, MoveKeeps, MoveKeepsPromise
<1>5. ASSUME NEW c \in Client, NEW o \in Calls, Begin(c, o)
      PROVE  StoreInv' /\ Promised!StoreNext
  <2>1. StoreInv' /\ Promised!Begin(c, o)
    BY <1>5, BeginKeeps
  <2>2. /\ o = [kind |-> o.kind, of |-> o.of, val |-> o.val]
        /\ o.kind \in {"read", "write", "delete", "clear"} /\ o.of \in SUBSET Item
        /\ o.val \in Value \cup {Nothing}
    BY DEF Calls, Item
  <2>3. Promised!Begin(c, [kind |-> o.kind, of |-> o.of, val |-> o.val])
    BY <2>1, <2>2
  <2>. QED
    BY <2>1, <2>2, <2>3 DEF Promised!StoreNext
<1>. QED
  BY <1>1, <1>2, <1>3, <1>4, <1>5 DEF StoreNext

(* StoreImplements, for any clients, roles and values: whatever steps a backend
   takes and whoever comes in between, no read of a part or of something that
   was never there, no "absent" of an item that could not be read, no success
   of a write or a clear that has not happened (the credStore interface). *)
THEOREM StoreKeepsPromise == StoreSpec => StoreImplements
<1>. QED
  BY StoreStart, StoreStep, PTL DEF StoreSpec, StoreImplements, Promised!StoreSpec

=============================================================================

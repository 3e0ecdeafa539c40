----------------------------- MODULE CredStore -----------------------------
(***************************************************************************)
(* The four credential stores (credstore_keyed.go, credstore_files.go,       *)
(* credstore_secretservice.go, credstore_darwin.go) under the calls of       *)
(* several processes: how many steps a call takes in each, and what another  *)
(* process can do in between.  There is one session: its token, and the role *)
(* credentials minted from it.  The Secret Service, the keychain, the file   *)
(* system and the AWS CLI are external; the service serves calls in the      *)
(* order it receives them, so one that bmcp gave up on has happened before   *)
(* any later one.  A prompt that nobody answers in time (runPrompt) takes no *)
(* effect afterwards.                                                        *)
(***************************************************************************)
EXTENDS Naturals

CONSTANTS
  Client, Token, Role, Value, Nothing,
  Torn,        \* what the AWS CLI's truncating write leaves for a moment
  MaxCalls     \* bound: calls begun

ASSUME Readable == Nothing \notin Value /\ Torn \notin Value \cup {Nothing}

Item == {Token} \cup Role

VARIABLES
  backend,
  stored,      \* what each item holds
  path,        \* the number of the item's object in the Secret Service
  credsDir,    \* aws-cli-cache: the session's directory of role credentials
  call, pc,    \* what each client does, and where it is in doing it
  todo,        \* items a clear has still to delete
  found,       \* objects a search returned, as <<item, number>>
  failed,      \* a delete of the clear has failed
  result,      \* of the client's call
  held,        \* history: what each item has held since the call began
  calls

world == <<backend, stored, path, credsDir>>
own   == <<todo, found, failed, result>>
storeVars == <<world, call, pc, own, held, calls>>

Idle == [kind |-> "none", of |-> {}, val |-> Nothing]
Calls ==
  [kind : {"read", "delete"}, of : {{i} : i \in Item}, val : {Nothing}]
    \cup [kind : {"write"}, of : {{i} : i \in Item}, val : Value]
    \cup [kind : {"clear"}, of : {Role, Item}, val : {Nothing}]
Files == backend \in {"file", "aws-cli-cache"}
Shared == IF backend = "aws-cli-cache" THEN {Token} ELSE {}

StoreInit ==
  /\ backend \in {"aws-cli-cache", "file", "keychain", "secret-service"}
  /\ stored = [i \in Item |-> Nothing] /\ path = [i \in Item |-> 0]
  /\ credsDir = FALSE
  /\ call = [c \in Client |-> Idle] /\ pc = [c \in Client |-> "idle"]
  /\ todo = [c \in Client |-> {}] /\ found = [c \in Client |-> {}]
  /\ failed = [c \in Client |-> FALSE] /\ result = [c \in Client |-> "none"]
  /\ held = [c \in Client |-> [i \in Item |-> {}]] /\ calls = 0

\* A token that does not parse is no token (classifyStoreRead).
Content(x) == IF x = Torn THEN Nothing ELSE x

Watch ==
  held' = [c \in Client |-> [i \in Item |->
             IF call'[c] = Idle THEN {}
             ELSE {Content(stored'[i])}
                    \cup (IF call[c] = Idle THEN {} ELSE held[c][i])]]

TheItem(c) == CHOOSE i \in Item : call[c].of = {i}
To(c, l)   == pc' = [pc EXCEPT ![c] = l]
Give(c, r) == To(c, "answer") /\ result' = [result EXCEPT ![c] = r]

\* A new object of the Secret Service has a path no object had before.
Put(i, x) ==
  /\ stored' = [stored EXCEPT ![i] = x]
  /\ path' = IF backend = "secret-service" /\ stored[i] = Nothing /\ x # Nothing
             THEN [path EXCEPT ![i] = @ + 1] ELSE path
Kept == UNCHANGED <<stored, path>>
Lives(f) == stored[f[1]] # Nothing /\ path[f[1]] = f[2]
Objects(s) == {<<i, path[i]>> : i \in {j \in s : stored[j] # Nothing}}

Begin(c, o) ==
  /\ call[c] = Idle /\ calls < MaxCalls /\ calls' = calls + 1
  /\ call' = [call EXCEPT ![c] = o]
  /\ To(c, IF o.kind = "clear" THEN "list" ELSE o.kind)
  /\ todo' = [todo EXCEPT ![c] = {}] /\ found' = [found EXCEPT ![c] = {}]
  /\ failed' = [failed EXCEPT ![c] = FALSE]
  /\ result' = [result EXCEPT ![c] = "none"]
  /\ UNCHANGED world /\ Watch

Answer(c) ==
  /\ pc[c] = "answer" /\ To(c, "idle")
  /\ call' = [call EXCEPT ![c] = Idle]
  /\ UNCHANGED <<world, own, calls>> /\ Watch

\* The rest of a call: what it leaves alone.
Rest == UNCHANGED <<backend, call, calls>> /\ Watch

-----------------------------------------------------------------------------
(* Reading an item *)

Read(c) ==
  /\ pc[c] = "read"
  /\ LET i == TheItem(c) IN
     IF backend = "secret-service" /\ stored[i] # Nothing
     THEN /\ To(c, "fetch") /\ found' = [found EXCEPT ![c] = Objects({i})]
          /\ UNCHANGED result
     ELSE Give(c, Content(stored[i])) /\ UNCHANGED found
  /\ UNCHANGED <<stored, path, credsDir, todo, failed>> /\ Rest

\* Secret Service: an object that has gone since the search is not found.
Fetch(c) ==
  /\ pc[c] = "fetch"
  /\ \E f \in found[c] : Give(c, IF Lives(f) THEN stored[f[1]] ELSE Nothing)
  /\ UNCHANGED <<stored, path, credsDir, todo, found, failed>> /\ Rest

-----------------------------------------------------------------------------
(* Writing an item *)

InCredsDir(c) == backend = "aws-cli-cache" /\ call[c].of \subseteq Role

\* Secret Service: one call that creates or replaces.  Keychain: an update, and
\* an add when there is nothing to update.  Files: a temporary file, renamed.
Write(c) ==
  /\ pc[c] = "write"
  /\ LET i == TheItem(c) IN
     \/ /\ backend = "keychain" => stored[i] # Nothing
        /\ ~Files
        /\ Put(i, call[c].val) /\ \E r \in {"ok", "error"} : Give(c, r)
        /\ UNCHANGED credsDir
     \/ /\ backend = "keychain" /\ stored[i] = Nothing
        /\ To(c, "add") /\ Kept /\ UNCHANGED <<credsDir, result>>
     \/ /\ Files /\ To(c, "mkdir") /\ Kept /\ UNCHANGED result
        /\ credsDir' = (credsDir \/ InCredsDir(c))
  /\ UNCHANGED <<todo, found, failed>> /\ Rest

Add(c) ==
  /\ pc[c] = "add"
  /\ LET i == TheItem(c) IN
     IF stored[i] = Nothing THEN Put(i, call[c].val) /\ Give(c, "ok")
                            ELSE Kept /\ Give(c, "error")
  /\ UNCHANGED <<credsDir, todo, found, failed>> /\ Rest

CreateTemp(c) ==
  /\ pc[c] = "mkdir"
  /\ IF InCredsDir(c) /\ ~credsDir THEN Give(c, "error")
     ELSE To(c, "temp") /\ UNCHANGED result
  /\ UNCHANGED <<stored, path, credsDir, todo, found, failed>> /\ Rest

Rename(c) ==
  /\ pc[c] \in {"temp", "lost"}
  /\ IF pc[c] = "temp" THEN Put(TheItem(c), call[c].val) /\ Give(c, "ok")
                       ELSE Kept /\ Give(c, "error")
  /\ UNCHANGED <<credsDir, todo, found, failed>> /\ Rest

-----------------------------------------------------------------------------
(* Deleting an item, or every item of the session *)

Delete(c) ==
  /\ pc[c] = "delete"
  /\ LET i == TheItem(c) IN
     IF backend = "secret-service" /\ stored[i] # Nothing
     THEN /\ To(c, "drop") /\ found' = [found EXCEPT ![c] = Objects({i})]
          /\ Kept /\ UNCHANGED result
     ELSE Put(i, Nothing) /\ Give(c, "ok") /\ UNCHANGED found
  /\ UNCHANGED <<credsDir, todo, failed>> /\ Rest

\* Secret Service: an object that has gone since the search counts as deleted,
\* and one whose deletion was not answered as not.
Drop(c) ==
  /\ pc[c] = "drop"
  /\ \E f \in found[c] : IF Lives(f) THEN Put(f[1], Nothing) ELSE Kept
  /\ found' = [found EXCEPT ![c] = {}]
  /\ \E r \in {"ok", "error"} :
       IF call[c].kind = "clear"
       THEN /\ failed' = [failed EXCEPT ![c] = @ \/ r = "error"]
            /\ To(c, "each") /\ UNCHANGED result
       ELSE Give(c, r) /\ UNCHANGED failed
  /\ UNCHANGED <<credsDir, todo>> /\ Rest

\* A clear lists first.  The Secret Service lists the objects of every session
\* and is then asked for the name of each.
List(c) ==
  /\ pc[c] = "list"
  /\ IF backend = "secret-service"
     THEN /\ found' = [found EXCEPT ![c] = Objects(Item)]
          /\ To(c, "names") /\ UNCHANGED todo
     ELSE /\ todo' = [todo EXCEPT ![c] =
               IF backend = "aws-cli-cache" THEN call[c].of \cap {Token}
               ELSE {i \in call[c].of : stored[i] # Nothing}]
          /\ To(c, "each") /\ UNCHANGED found
  /\ UNCHANGED <<stored, path, credsDir, failed, result>> /\ Rest

\* One that has gone fails the whole listing, and nothing is deleted.
Name(c) ==
  /\ pc[c] = "names"
  /\ IF found[c] = {} THEN To(c, "each") /\ UNCHANGED <<todo, found, result>>
     ELSE \E f \in found[c] :
            IF Lives(f)
            THEN /\ found' = [found EXCEPT ![c] = @ \ {f}]
                 /\ todo' = [todo EXCEPT ![c] = @ \cup (call[c].of \cap {f[1]})]
                 /\ UNCHANGED <<pc, result>>
            ELSE Give(c, "error") /\ UNCHANGED <<todo, found>>
  /\ UNCHANGED <<stored, path, credsDir, failed>> /\ Rest

\* Mutant: a clear that failed to delete something succeeds.
Cleared_anyway(c) == "ok"
Cleared(c) == IF failed[c] THEN "error" ELSE "ok"

Each(c) ==
  /\ pc[c] = "each"
  /\ \/ \E i \in todo[c] :
          /\ todo' = [todo EXCEPT ![c] = @ \ {i}]
          /\ IF backend = "secret-service"
             THEN /\ Kept /\ found' = [found EXCEPT ![c] = Objects({i})]
                  /\ IF stored[i] = Nothing THEN UNCHANGED pc ELSE To(c, "drop")
             ELSE Put(i, Nothing) /\ UNCHANGED <<pc, found>>
          /\ UNCHANGED result
     \/ /\ todo[c] = {} /\ Kept /\ UNCHANGED <<todo, found>>
        /\ IF backend = "aws-cli-cache" THEN To(c, "tree") /\ UNCHANGED result
                                        ELSE Give(c, Cleared(c))
  /\ UNCHANGED <<credsDir, failed>> /\ Rest

\* RemoveAll: entry by entry, the temporary files of other writers too, until
\* the directory can be removed or is gone.
Unlink(c) ==
  /\ pc[c] = "tree"
  /\ \/ \E i \in Role : stored[i] # Nothing /\ Put(i, Nothing) /\ UNCHANGED pc
     \/ \E d \in Client : pc[d] = "temp" /\ InCredsDir(d) /\ To(d, "lost") /\ Kept
  /\ UNCHANGED <<credsDir, own>> /\ Rest

RemoveDir(c) ==
  /\ pc[c] = "tree" /\ \A i \in Role : stored[i] = Nothing
  /\ ~\E d \in Client : pc[d] = "temp" /\ InCredsDir(d)
  /\ credsDir' = FALSE /\ Give(c, Cleared(c))
  /\ UNCHANGED <<stored, path, todo, found, failed>> /\ Rest

-----------------------------------------------------------------------------
(* What goes wrong *)

\* Mutant: a store that cannot be read is taken for an empty one.
Unanswered_absent(c) == IF call[c].kind = "read" THEN Nothing ELSE "error"
\* The store is locked, its prompt dismissed, the disk full, the call timed out
\* or the process killed.
Unanswered(c) == "error"

\* A clear goes on with its other items.
Fail(c) ==
  /\ pc[c] \notin {"idle", "answer"}
  /\ IF pc[c] = "drop" /\ call[c].kind = "clear"
     THEN failed' = [failed EXCEPT ![c] = TRUE] /\ To(c, "each") /\ UNCHANGED <<todo, result>>
     ELSE IF pc[c] = "each" /\ todo[c] # {}
     THEN /\ failed' = [failed EXCEPT ![c] = TRUE]
          /\ \E i \in todo[c] : todo' = [todo EXCEPT ![c] = @ \ {i}]
          /\ UNCHANGED <<pc, result>>
     ELSE Give(c, Unanswered(c)) /\ UNCHANGED <<todo, failed>>
  /\ UNCHANGED <<stored, path, credsDir, found>> /\ Rest

\* The AWS CLI truncates the token file it shares, and writes it.
CLIWrites ==
  /\ backend = "aws-cli-cache"
  /\ \E x \in IF stored[Token] = Torn THEN Value ELSE {Torn, Nothing} : Put(Token, x)
  /\ UNCHANGED <<backend, credsDir, call, pc, own, calls>> /\ Watch

ClientStep(c) ==
  \/ Answer(c) \/ Read(c) \/ Fetch(c) \/ Write(c) \/ Add(c) \/ CreateTemp(c)
  \/ Rename(c) \/ Delete(c) \/ Drop(c) \/ List(c) \/ Name(c) \/ Each(c)
  \/ Unlink(c) \/ RemoveDir(c) \/ Fail(c)
StoreNext ==
  \/ CLIWrites
  \/ \E c \in Client : ClientStep(c) \/ \E o \in Calls : Begin(c, o)
StoreSpec == StoreInit /\ [][StoreNext]_storeVars

Promised == INSTANCE ItemStore WITH
  items  <- [i \in Item |-> Content(stored[i])],
  answer <- [c \in Client |-> IF call[c] = Idle THEN result[c] ELSE "none"],
  shared <- Shared

-----------------------------------------------------------------------------
(* Properties *)

(* Whatever steps a backend takes and whoever comes in between, each store
   keeps the promise of ItemStore: no read of a part or of something that was
   never there, no "absent" of an item it could not read, no success of a
   write or a clear that has not happened. *)
StoreImplements == Promised!StoreSpec
=============================================================================

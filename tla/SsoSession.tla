------------------------------ MODULE SsoSession ------------------------------
(***************************************************************************)
(* One AWS SSO session shared by concurrent bmcp processes: the stored     *)
(* token, the role credentials minted from it and the browser-login marker *)
(* (ssoprovider.go, sessionlock.go).  Each process is one invocation: a    *)
(* tool call that needs credentials, "bmcp login", "bmcp clear" or "bmcp   *)
(* clear --all".  Reads of the store take no lock; every change of it is   *)
(* made under the session lock of CredLocks, one store operation a step,   *)
(* because lock-free readers and crashes see the store between two of them.*)
(*                                                                         *)
(* Time is the life left to an access token: 2 outlives the refresh        *)
(* window, 1 can be used, 0 has expired.                                   *)
(***************************************************************************)
EXTENDS CredLocks

CONSTANTS
  Hops,          \* BOOLEAN: the profile chain assumes roles above the SSO leaf
  Kinds,         \* the invocations that may start
  MaxTokens,     \* bound: access tokens the service and the CLI issue
  MaxLogins,     \* bound: logins started, by bmcp or by the AWS CLI
  MaxGens,       \* bound: generations stamped
  MaxKeys,       \* bound: role credentials minted
  MaxAgings,     \* bound: expiry steps of access tokens
  MaxCrashes,    \* bound: processes that die in the middle
  MaxCLI,        \* bound: rewrites of the token file by the AWS CLI
  Faults,        \* BOOLEAN: store operations fail, replies get lost
  Suspends       \* BOOLEAN: a login may outlive its marker's maximum age

ASSUME OneSession == \A p, q \in Process : SessionOf[p] = SessionOf[q]
ASSUME Switches ==
  /\ Hops \in BOOLEAN /\ Faults \in BOOLEAN /\ Suspends \in BOOLEAN
  /\ Kinds \subseteq {"call", "login", "clear", "clearAll"}
ASSUME Bounds ==
  /\ MaxTokens \in Nat \ {0} /\ MaxLogins \in Nat \ {0}
  /\ MaxGens \in Nat \ {0} /\ MaxKeys \in Nat \ {0}
  /\ MaxAgings \in Nat /\ MaxCrashes \in Nat /\ MaxCLI \in Nat

None == [none |-> TRUE]

VARIABLES
  token,      \* the stored token, or None (absent or unparseable)
  role,       \* the cached role credentials of each cache key, or None
  marker,     \* the login marker file, or None
  pc,         \* where each process is
  kind, ui,   \* its invocation, and whether it may open a browser
  tok,        \* the token it works with
  nxt,        \* the record read or built inside its critical section
  rec,        \* the role credentials it holds
  login,      \* the login it runs or waits for: a marker ID; for a clear, the
              \* last login begun before it
  flag,       \* the Flags that hold in it
  life,       \* life of each access token issued
  spent,      \* refresh tokens consumed by a rotation
  nTok, nGen, nLogin, nKey, nAge, nCrash, nCLI,   \* counters, all bounded
  aged,       \* logins whose marker is older than loginMarkerMaxAge
  lineage,    \* history: the login of the token each generation was stamped on
  cut,        \* history: the last login begun before the last clear
  gaveUp,     \* history: logins a waiter reported as ended without a token
  replayed    \* history: a refresh token was redeemed after its rotation

store   == <<token, role, marker>>
work    == <<tok, nxt, rec, login, flag>>
ids     == <<nTok, nGen, nLogin, nKey>>
env     == <<life, spent, aged, nAge, nCrash, nCLI>>
history == <<lineage, cut, gaveUp, replayed>>
fixed   == <<kind, ui>>
vars    == <<hold, pc, store, work, ids, env, history, fixed>>

CredKeys == IF Hops THEN {"leaf", "final"} ELSE {"final"}
LeafKey  == IF Hops THEN "leaf" ELSE "final"

TokenIds == 0 .. MaxTokens      \* 0: no refresh token
Gens     == 0 .. MaxGens        \* 0: no generation
Logins   == 0 .. MaxLogins

\* at: access token; rt: refresh token; of: the login both descend from;
\* fits: written for the start URL, region and scopes now configured.
Tokens  == [at : TokenIds, rt : TokenIds, gen : Gens, of : Logins, fits : BOOLEAN]
RoleRecs == [key : 0 .. MaxKeys, gen : Gens, of : Logins]
Markers == [id : Logins, pid : Process, discard : BOOLEAN]
Flags ==
  {"force",      \* refresh after a 401
   "alive",      \* usableToken: the token can still be used
   "curAlive",   \* refresh: so can the stored one
   "retried", "loggedIn",
   "failed"}     \* a store operation or the login failed

EntryPcs ==      \* a session lock is asked for on the way here
  {"stamp", "refresh", "saveLeaf", "saveFinal", "drop", "login", "save",
   "evict", "discard"}
SectionPcs == EntryPcs \cup
  {"stampWrite", "redeem", "rotate", "write", "rejectTok", "rejectRole",
   "dropTok", "dropRole", "saveWrite", "saveEnd", "discardWrite",
   "clearRole", "clearTok", "lastRole", "lastTok"}
OpenPcs ==
  {"idle", "read", "cached", "leafCached", "token", "mint", "assume",
   "loginRead", "browser", "unlockedEnd", "unlockedRm", "poll", "peek",
   "reread", "issued"}
EndPcs == {"done", "failed", "crashed"}
Pcs == SectionPcs \cup OpenPcs \cup EndPcs

ControlOK ==
  /\ LocksTypeOK
  /\ pc \in [Process -> Pcs]
  /\ kind \in [Process -> {"call", "login", "clear", "clearAll"}]
  /\ ui \in [Process -> BOOLEAN]
StoreOK ==
  /\ token \in Tokens \cup {None}
  /\ role \in [CredKeys -> RoleRecs \cup {None}]
  /\ marker \in Markers \cup {None}
WorkOK ==
  /\ tok \in [Process -> Tokens \cup {None}]
  /\ nxt \in [Process -> Tokens \cup Markers \cup {None}]
  /\ rec \in [Process -> RoleRecs \cup {None}]
  /\ login \in [Process -> Logins]
  /\ flag \in [Process -> SUBSET Flags]
IdsOK ==
  /\ nTok \in TokenIds /\ nGen \in Gens /\ nLogin \in Logins
  /\ nKey \in 0 .. MaxKeys
EnvOK ==
  /\ life \in [1 .. MaxTokens -> 0 .. 2]
  /\ spent \subseteq TokenIds /\ aged \subseteq Logins
  /\ nAge \in 0 .. MaxAgings /\ nCrash \in 0 .. MaxCrashes
  /\ nCLI \in 0 .. MaxCLI
HistoryOK ==
  /\ lineage \in [Gens -> Logins] /\ cut \in Logins
  /\ gaveUp \subseteq Logins /\ replayed \in BOOLEAN
TypeOK ==
  ControlOK /\ StoreOK /\ WorkOK /\ IdsOK /\ EnvOK /\ HistoryOK

Init ==
  /\ LocksInit
  /\ pc = [p \in Process |-> "idle"]
  /\ \/ token = None
     \/ token \in [at : {1}, rt : {0, 1}, gen : {0, 1}, of : {1}, fits : BOOLEAN]
  /\ \/ role = [k \in CredKeys |-> None]
     \/ /\ role = [k \in CredKeys |-> [key |-> 1, gen |-> 1, of |-> 1]]
        /\ token # None /\ token.gen = 0 => MaxCLI > 0
  /\ marker = None
  /\ kind = [p \in Process |-> "call"] /\ ui = [p \in Process |-> FALSE]
  /\ tok = [p \in Process |-> None]
  /\ nxt = [p \in Process |-> None]
  /\ rec = [p \in Process |-> None]
  /\ login = [p \in Process |-> 0]
  /\ flag = [p \in Process |-> {}]
  /\ \E l \in 0 .. 2 : life = [a \in 1 .. MaxTokens |-> IF a = 1 THEN l ELSE 2]
  /\ spent = {} /\ aged = {} /\ gaveUp = {}
  /\ nTok = 1 /\ nGen = 1 /\ nLogin = 1 /\ nKey = 1
  /\ nAge = 0 /\ nCrash = 0 /\ nCLI = 0
  /\ cut = 0 /\ replayed = FALSE /\ lineage = [g \in Gens |-> 1]

-----------------------------------------------------------------------------
(* What the code asks of a stored record.                                  *)

Matches(t)     == t # None /\ t.fits
Long(t)        == life[t.at] = 2     \* outlives ssoRefreshWindow
Usable(t)      == life[t.at] >= 1    \* outlives ssoAccessTokenMargin
Refreshable(t) == t.rt # 0
CacheHit(r, g) == r # None /\ g # 0 /\ r.gen = g

Ended(p)    == pc[p] \in EndPcs
\* Mutant: a discarded login no longer counts as one in flight.
MarkerLive_discarded ==
  marker # None /\ ~marker.discard /\ marker.id \notin aged /\ ~Ended(marker.pid)
\* Mutant: the process that wrote the marker is not looked at.
MarkerLive_anyPid == marker # None /\ marker.id \notin aged
MarkerLive  == marker # None /\ marker.id \notin aged /\ ~Ended(marker.pid)
Mine(p)     == marker # None /\ marker.id = login[p]
\* Mutant: LoginWanted does not compare the marker's ID.
Wanted_anyId(p) == marker # None /\ ~marker.discard
Wanted(p)   == Mine(p) /\ ~marker.discard
NoRoles     == [k \in CredKeys |-> None]
Stored      == IF Matches(token) THEN token ELSE None

-----------------------------------------------------------------------------
(* Control.  To(p, l) leaves the critical section p is in, if any, and asks
   for the session lock when l needs it; Stay(p, l) moves on inside. *)

To(p, l) ==
  /\ pc' = [pc EXCEPT ![p] = l]
  /\ SetHold(p, IF l \in EntryPcs THEN "wantGlobal" ELSE "none")
Stay(p, l) == pc' = [pc EXCEPT ![p] = l] /\ UNCHANGED hold
At(p, l)   == pc[p] = l /\ (l \in SectionPcs => InSession(p) \/ InAll(p))

SetTok(p, t)   == tok' = [tok EXCEPT ![p] = t]
SetNxt(p, r)   == nxt' = [nxt EXCEPT ![p] = r]
SetFlags(p, F) == flag' = [flag EXCEPT ![p] = @ \cup F]

\* A store operation that may fail, leaving the item as it was.
Attempt(done, kept) == done \/ (Faults /\ kept)

TakeLock(p) ==
  /\ TakeGlobalShared(p) \/ TakeSession(p) \/ TakeAll(p)
  /\ UNCHANGED <<pc, store, work, ids, env, history, fixed>>

\* A tool call may open a browser or not; bmcp login always may.
Start(p) ==
  /\ pc[p] = "idle"
  /\ \E k \in Kinds :
       /\ kind' = [kind EXCEPT ![p] = k]
       /\ \/ /\ k = "call" /\ To(p, "read")
             /\ \E b \in BOOLEAN : ui' = [ui EXCEPT ![p] = b]
          \/ k = "login" /\ To(p, "loginRead") /\ ui' = [ui EXCEPT ![p] = TRUE]
          \/ k = "clear" /\ To(p, "discard") /\ UNCHANGED ui
          \/ /\ k = "clearAll"
             /\ pc' = [pc EXCEPT ![p] = "discard"] /\ AskAll(p)
             /\ UNCHANGED ui
  /\ UNCHANGED <<store, work, ids, env, history>>

-----------------------------------------------------------------------------
(* credentials: the stored token, its generation, the cached role credentials *)

ReadStored(p) ==
  /\ At(p, "read")
  /\ \/ /\ SetTok(p, Stored)
        /\ To(p, IF Stored = None THEN "token"
                 ELSE IF token.gen = 0 THEN "stamp" ELSE "cached")
     \/ Faults /\ To(p, "failed") /\ UNCHANGED tok
  /\ UNCHANGED <<store, nxt, rec, login, flag, ids, env, history, fixed>>

\* stampGeneration re-reads under the lock, and stamps only the same token.
Stamp(p) ==
  /\ At(p, "stamp")
  /\ \/ /\ Matches(token) /\ token.at = tok[p].at
        /\ IF token.gen = 0
             THEN SetNxt(p, token) /\ Stay(p, "stampWrite") /\ UNCHANGED tok
             ELSE SetTok(p, token) /\ To(p, "cached") /\ UNCHANGED nxt
     \/ /\ Faults \/ ~(Matches(token) /\ token.at = tok[p].at)
        /\ To(p, "cached")
        /\ UNCHANGED <<tok, nxt>>
  /\ UNCHANGED <<store, rec, login, flag, ids, env, history, fixed>>

StampWrite(p) ==
  /\ At(p, "stampWrite")
  /\ nGen < MaxGens
  /\ LET stamped == [nxt[p] EXCEPT !.gen = nGen + 1] IN
       Attempt(token' = stamped /\ SetTok(p, stamped), UNCHANGED <<token, tok>>)
  /\ nGen' = nGen + 1
  /\ lineage' = [lineage EXCEPT ![nGen + 1] = nxt[p].of]
  /\ To(p, "cached")
  /\ UNCHANGED <<role, marker, nxt, rec, login, flag, nTok, nLogin, nKey, env,
                 cut, gaveUp, replayed, fixed>>

\* cachedRole for the final credentials.  A hit may also have expired.
Cached(p) ==
  /\ At(p, "cached")
  /\ \/ /\ CacheHit(role["final"], tok[p].gen)
        /\ rec' = [rec EXCEPT ![p] = role["final"]]
        /\ To(p, "issued")
     \/ To(p, IF Hops THEN "leafCached" ELSE "token") /\ UNCHANGED rec
     \/ Faults /\ To(p, "failed") /\ UNCHANGED rec
  /\ UNCHANGED <<store, tok, nxt, login, flag, ids, env, history, fixed>>

LeafCached(p) ==
  /\ At(p, "leafCached")
  /\ \/ /\ CacheHit(role["leaf"], tok[p].gen)
        /\ rec' = [rec EXCEPT ![p] = role["leaf"]]
        /\ To(p, "assume")
     \/ To(p, "token") /\ UNCHANGED rec
     \/ Faults /\ To(p, "failed") /\ UNCHANGED rec
  /\ UNCHANGED <<store, tok, nxt, login, flag, ids, env, history, fixed>>

\* usableToken: the token as it is, a refresh of it, or a login.
UsableToken(p) ==
  /\ At(p, "token")
  /\ LET t == tok[p] IN
       IF t = None THEN To(p, "login") /\ UNCHANGED flag
       ELSE /\ flag' = [flag EXCEPT ![p] =
                 (@ \ {"alive", "force"}) \cup (IF Usable(t) THEN {"alive"} ELSE {})]
            /\ To(p, IF Long(t) THEN "mint"
                     ELSE IF Refreshable(t) THEN "refresh"
                     ELSE IF Usable(t) THEN "mint" ELSE "login")
  /\ UNCHANGED <<store, tok, nxt, rec, login, ids, env, history, fixed>>

\* GetRoleCredentials with the token: minted, 401, or another failure.  The
\* first 401 forces a refresh, the next one drops the token.
Mint(p) ==
  /\ At(p, "mint")
  /\ \/ /\ nKey < MaxKeys
        /\ rec' = [rec EXCEPT ![p] =
             [key |-> nKey + 1, gen |-> tok[p].gen, of |-> tok[p].of]]
        /\ nKey' = nKey + 1
        /\ To(p, "saveLeaf")
        /\ UNCHANGED flag
     \/ /\ SetFlags(p, {"retried", "force"})
        /\ To(p, IF "retried" \in flag[p] THEN "drop" ELSE "refresh")
        /\ UNCHANGED <<rec, nKey>>
     \/ To(p, "failed") /\ UNCHANGED <<rec, nKey, flag>>
  /\ UNCHANGED <<store, tok, nxt, login, nTok, nGen, nLogin, env, history, fixed>>

\* Mutant: the generation is not compared before the write.
SaveRole_always(p, from, key, next) ==
  /\ At(p, from)
  /\ role' = [role EXCEPT ![key] = rec[p]]
  /\ To(p, next)
  /\ UNCHANGED <<token, marker, work, ids, env, history, fixed>>

\* writeRoleCredsIfCurrent: only while the generation is still the stored one.
SaveRole(p, from, key, next) ==
  /\ At(p, from)
  /\ IF token # None /\ rec[p].gen # 0 /\ token.gen = rec[p].gen
       THEN Attempt(role' = [role EXCEPT ![key] = rec[p]], UNCHANGED role)
       ELSE UNCHANGED role
  /\ To(p, next)
  /\ UNCHANGED <<token, marker, work, ids, env, history, fixed>>

AfterSaveLeaf == IF Hops THEN "assume" ELSE "issued"
SaveLeaf(p)   == SaveRole(p, "saveLeaf", LeafKey, AfterSaveLeaf)
SaveFinal(p)  == SaveRole(p, "saveFinal", "final", "issued")

\* assumeHops: new credentials, stamped with the generation of the leaf's.
AssumeHops(p) ==
  /\ At(p, "assume")
  /\ \/ /\ nKey < MaxKeys
        /\ rec' = [rec EXCEPT ![p].key = nKey + 1]
        /\ nKey' = nKey + 1
        /\ To(p, "saveFinal")
     \/ To(p, "failed") /\ UNCHANGED <<rec, nKey>>
  /\ UNCHANGED <<store, tok, nxt, login, flag, nTok, nGen, nLogin, env, history,
                 fixed>>

\* The gateway answers a request signed with rec: a rejection evicts it.
Gateway(p) ==
  /\ At(p, "issued")
  /\ To(p, "done") \/ To(p, "evict")
  /\ UNCHANGED <<store, work, ids, env, history, fixed>>

\* evictRoleCredsIfSame: never a newer entry another process saved.
Evict(p) ==
  /\ At(p, "evict")
  /\ LET cur == role["final"] IN
       IF cur # None /\ cur.gen = rec[p].gen /\ cur.key = rec[p].key
         THEN Attempt(role' = [role EXCEPT !["final"] = None], UNCHANGED role)
         ELSE UNCHANGED role
  /\ To(p, "done")
  /\ UNCHANGED <<token, marker, work, ids, env, history, fixed>>

-----------------------------------------------------------------------------
(* refresh: the stored token is re-read under the lock, and the refresh token
   is redeemed while the lock is held. *)

\* Where the caller goes with the outcome: ssoLogin, the 401 path of
\* leafCredentials (force), or usableToken.
AfterRefresh(p, outcome) ==
  CASE kind[p] = "login" -> IF outcome = "ok" THEN "done" ELSE "login"
    [] kind[p] # "login" /\ "force" \in flag[p] ->
         (CASE outcome = "ok" -> "token"
            [] outcome = "transient" -> "failed"
            [] OTHER -> "drop")
    [] OTHER ->
         IF outcome = "ok" \/ (outcome # "gone" /\ "alive" \in flag[p]) THEN "mint"
         ELSE IF outcome = "transient" THEN "failed" ELSE "login"

\* Another process's newer token: any usable one after a 401, else one that
\* outlives the refresh window.
Newer(p) ==
  /\ token.at # tok[p].at
  /\ Usable(token)
  /\ "force" \in flag[p] \/ Long(token)

RefreshRead(p) ==
  /\ At(p, "refresh")
  /\ \/ /\ ~Matches(token)
        /\ To(p, AfterRefresh(p, "gone"))
        /\ UNCHANGED <<tok, nxt, flag>>
     \/ /\ Matches(token) /\ Newer(p)
        /\ SetTok(p, token)
        /\ To(p, AfterRefresh(p, "ok"))
        /\ UNCHANGED <<nxt, flag>>
     \/ /\ Matches(token) /\ ~Newer(p) /\ ~Refreshable(token)
        /\ To(p, AfterRefresh(p, "rejected"))
        /\ UNCHANGED <<tok, nxt, flag>>
     \/ /\ Matches(token) /\ ~Newer(p) /\ Refreshable(token)
        /\ SetNxt(p, token)
        /\ flag' = [flag EXCEPT ![p] =
             (@ \ {"curAlive"}) \cup (IF Usable(token) THEN {"curAlive"} ELSE {})]
        /\ Stay(p, "redeem")
        /\ UNCHANGED tok
     \/ /\ Faults    \* bmcp login goes on, except from a store_locked error
        /\ \E l \in {"failed"} \cup (IF kind[p] = "login" THEN {"login"} ELSE {}) :
             To(p, l)
        /\ UNCHANGED <<tok, nxt, flag>>
  /\ UNCHANGED <<store, rec, login, ids, env, history, fixed>>

\* A refresh token survives a reply without a new one; a rotation consumes it.
Redeem(p) ==
  /\ At(p, "redeem")
  /\ replayed' = (replayed \/ nxt[p].rt \in spent)
  /\ \/ /\ nTok < MaxTokens /\ nxt[p].rt \notin spent
        /\ nTok' = nTok + 1
        /\ \/ /\ nxt' = [nxt EXCEPT ![p].at = nTok + 1]
              /\ Stay(p, "write")
              /\ UNCHANGED spent
           \/ /\ nxt' = [nxt EXCEPT ![p].at = nTok + 1, ![p].rt = nTok + 1]
              /\ spent' = spent \cup {nxt[p].rt}
              /\ Stay(p, "rotate")
     \/ /\ IF "force" \in flag[p] \/ "curAlive" \notin flag[p]
             THEN Stay(p, "rejectTok")
             ELSE To(p, AfterRefresh(p, "rejected"))
        /\ UNCHANGED <<nTok, nxt, spent>>
     \/ /\ To(p, AfterRefresh(p, "transient"))
        /\ Attempt(UNCHANGED spent, spent' = spent \cup {nxt[p].rt})
        /\ UNCHANGED <<nTok, nxt>>
  /\ UNCHANGED <<store, tok, rec, login, flag, nGen, nLogin, nKey, life, aged,
                 nAge, nCrash, nCLI, lineage, cut, gaveUp, fixed>>

\* Mutant: a new token keeps the generation of the first.
Retire_reused(p, from, next) ==
  /\ At(p, from)
  /\ nxt' = [nxt EXCEPT ![p].gen = 1]
  /\ role' = NoRoles
  /\ Stay(p, next)
  /\ UNCHANGED <<token, marker, tok, rec, login, flag, nTok, nLogin, nKey, nGen,
                 lineage, env, cut, gaveUp, replayed, fixed>>

\* saveNewToken, first half: a fresh generation, and the role credentials of
\* the old one deleted before the new token is written.
Retire(p, from, next) ==
  /\ At(p, from)
  /\ nGen < MaxGens
  /\ nxt' = [nxt EXCEPT ![p].gen = nGen + 1]
  /\ nGen' = nGen + 1
  /\ lineage' = [lineage EXCEPT ![nGen + 1] = nxt[p].of]
  /\ Attempt(role' = NoRoles, UNCHANGED role)
  /\ Stay(p, next)
  /\ UNCHANGED <<token, marker, tok, rec, login, flag, nTok, nLogin, nKey, env,
                 cut, gaveUp, replayed, fixed>>

Rotate(p) == Retire(p, "rotate", "write")

\* Mutant: the refresh token of the rotation is not saved.
WriteRefreshed_oldRefresh(p) ==
  /\ At(p, "write")
  /\ token' = [nxt[p] EXCEPT !.rt = token.rt]
  /\ SetTok(p, nxt[p])
  /\ To(p, AfterRefresh(p, "ok"))
  /\ UNCHANGED <<role, marker, nxt, rec, login, flag, ids, env, history, fixed>>

\* The refreshed token is used even when saving it failed.
WriteRefreshed(p) ==
  /\ At(p, "write")
  /\ Attempt(token' = nxt[p], UNCHANGED token)
  /\ SetTok(p, nxt[p])
  /\ To(p, AfterRefresh(p, "ok"))
  /\ UNCHANGED <<role, marker, nxt, rec, login, flag, ids, env, history, fixed>>

\* deleteLocked, on behalf of refresh or dropToken: the token, then the role
\* credentials.
DeleteTok(p, from, next) ==
  /\ At(p, from)
  /\ Attempt(token' = None, UNCHANGED token)
  /\ Stay(p, next)
  /\ UNCHANGED <<role, marker, work, ids, env, history, fixed>>

RejectTok(p) == DeleteTok(p, "rejectTok", "rejectRole")
DropTok(p)   == DeleteTok(p, "dropTok", "dropRole")

RejectRole(p) ==
  /\ At(p, "rejectRole")
  /\ Attempt(role' = NoRoles, UNCHANGED role)
  /\ To(p, AfterRefresh(p, "rejected"))
  /\ UNCHANGED <<token, marker, work, ids, env, history, fixed>>

\* dropToken: only the token that was rejected; then the error, or a login.
AfterDrop(p) == IF "loggedIn" \in flag[p] THEN "failed" ELSE "login"

Drop(p) ==
  /\ At(p, "drop")
  /\ \/ token # None /\ token.at = tok[p].at /\ Stay(p, "dropTok")
     \/ /\ Faults \/ ~(token # None /\ token.at = tok[p].at)
        /\ To(p, AfterDrop(p))
  /\ UNCHANGED <<store, work, ids, env, history, fixed>>

DropRole(p) ==
  /\ At(p, "dropRole")
  /\ Attempt(role' = NoRoles, UNCHANGED role)
  /\ To(p, AfterDrop(p))
  /\ UNCHANGED <<token, marker, work, ids, env, history, fixed>>

-----------------------------------------------------------------------------
(* login and awaitLogin *)

\* ssoLogin: nothing to do, a refresh, or a login.
LoginRead(p) ==
  /\ At(p, "loginRead")
  /\ \/ /\ SetTok(p, Stored)
        /\ To(p, IF Stored = None THEN "login"
                 ELSE IF Long(token) THEN "done"
                 ELSE IF Refreshable(token) THEN "refresh" ELSE "login")
     \/ Faults /\ To(p, "failed") /\ UNCHANGED tok
  /\ UNCHANGED <<store, nxt, rec, login, flag, ids, env, history, fixed>>

\* A login returns t: leafCredentials mints with it, bmcp login is done.
LoginReturn(p, t) ==
  /\ SetTok(p, t)
  /\ SetFlags(p, {"loggedIn"})
  /\ To(p, IF kind[p] = "login" THEN "done" ELSE "mint")

\* Under the lock: a token is there, or a login is in flight, or none may be
\* started, or this process starts one and marks it.
LoginBegin(p) ==
  /\ At(p, "login")
  /\ \/ IF Matches(token) /\ Usable(token)
          THEN LoginReturn(p, token) /\ UNCHANGED <<marker, login, nLogin>>
        ELSE IF MarkerLive
          THEN /\ login' = [login EXCEPT ![p] = marker.id]
               /\ To(p, "poll") \/ To(p, "failed")    \* deviceFlowFits, or not
               /\ UNCHANGED <<marker, nLogin, tok, flag>>
        ELSE IF ~ui[p]
          THEN /\ marker' = None                      \* a dead one is removed
               /\ To(p, "failed")
               /\ UNCHANGED <<login, nLogin, tok, flag>>
        ELSE /\ nLogin < MaxLogins
             /\ nLogin' = nLogin + 1
             /\ login' = [login EXCEPT ![p] = nLogin + 1]
             /\ \/ /\ marker' = [id |-> nLogin + 1, pid |-> p, discard |-> FALSE]
                   /\ To(p, "browser")
                \/ Faults /\ marker' = None /\ To(p, "failed")
             /\ UNCHANGED <<tok, flag>>
     \/ Faults /\ To(p, "failed") /\ UNCHANGED <<marker, login, nLogin, tok, flag>>
  /\ UNCHANGED <<token, role, nxt, rec, nTok, nGen, nKey, env, history, fixed>>

\* The browser login itself, without the lock: a token, or none.
Browser(p) ==
  /\ At(p, "browser")
  /\ \/ /\ nTok < MaxTokens
        /\ nTok' = nTok + 1
        /\ \E r \in {0, nTok + 1} :
             SetNxt(p, [at |-> nTok + 1, rt |-> r, gen |-> 0, of |-> login[p],
                        fits |-> TRUE])
     \/ SetNxt(p, None) /\ UNCHANGED nTok
  /\ To(p, "save")
  /\ UNCHANGED <<store, tok, rec, login, flag, nGen, nLogin, nKey, env, history,
                 fixed>>

\* EndLogin under the lock; its error is ignored.
EndLogin(p) ==
  IF Mine(p) THEN Attempt(marker' = None, UNCHANGED marker) ELSE UNCHANGED marker

SaveDiscard(p) ==
  /\ At(p, "save")
  /\ nxt[p] = None \/ ~Wanted(p) \/ Faults    \* or the marker cannot be read
  /\ EndLogin(p)
  /\ To(p, "failed")
  /\ UNCHANGED <<token, role, work, ids, env, history, fixed>>

\* Mutant: the marker goes first.
SaveRetire_markerFirst(p) ==
  /\ At(p, "save") /\ nxt[p] # None /\ Wanted(p)
  /\ nxt' = [nxt EXCEPT ![p].gen = nGen + 1] /\ nGen' = nGen + 1
  /\ lineage' = [lineage EXCEPT ![nGen + 1] = nxt[p].of]
  /\ role' = NoRoles /\ marker' = None
  /\ Stay(p, "saveWrite")
  /\ UNCHANGED <<token, tok, rec, login, flag, nTok, nLogin, nKey, env, cut,
                 gaveUp, replayed, fixed>>

SaveRetire(p) ==
  /\ nxt[p] # None /\ Wanted(p)
  /\ Retire(p, "save", "saveWrite")

SaveWrite(p) ==
  /\ At(p, "saveWrite")
  /\ Attempt(token' = nxt[p], UNCHANGED token)
  /\ Stay(p, "saveEnd")
  /\ UNCHANGED <<role, marker, work, ids, env, history, fixed>>

\* The marker goes last.
SaveEnd(p) ==
  /\ At(p, "saveEnd")
  /\ EndLogin(p)
  /\ LoginReturn(p, nxt[p])
  /\ UNCHANGED <<token, role, nxt, rec, login, ids, env, history, fixed>>

\* The lock could not be taken to save: nothing is saved, the marker still
\* goes, read and removed without the lock.
UnlockedReturn(p, ok) ==
  IF ok THEN LoginReturn(p, nxt[p]) ELSE To(p, "failed") /\ UNCHANGED <<tok, flag>>

UnlockedEnd(p) ==
  /\ At(p, "unlockedEnd")
  /\ \E ok \in BOOLEAN :
       /\ IF nxt[p] # None /\ Wanted(p) THEN ok \/ Faults ELSE ~ok
       /\ \/ /\ Mine(p)
             /\ SetFlags(p, IF ok THEN {} ELSE {"failed"})
             /\ To(p, "unlockedRm")
             /\ UNCHANGED tok
          \/ (Faults \/ ~Mine(p)) /\ UnlockedReturn(p, ok)
  /\ UNCHANGED <<store, nxt, rec, login, ids, env, history, fixed>>

UnlockedRm(p) ==
  /\ At(p, "unlockedRm")
  /\ Attempt(marker' = None, UNCHANGED marker)
  /\ UnlockedReturn(p, "failed" \notin flag[p])
  /\ UNCHANGED <<token, role, nxt, rec, login, ids, env, history, fixed>>

\* awaitLogin, all without the lock: the token, then the marker, then the
\* token once more.
TakeStored(p, else) ==
  IF Matches(token) /\ Usable(token) THEN LoginReturn(p, token)
  ELSE To(p, else) /\ UNCHANGED <<tok, flag>>

Poll(p) ==
  /\ At(p, "poll")
  /\ \/ TakeStored(p, "peek")
     \/ To(p, "failed") /\ UNCHANGED <<tok, flag>>     \* its context ends
  /\ UNCHANGED <<store, nxt, rec, login, ids, env, history, fixed>>

Peek(p) ==
  /\ At(p, "peek")
  /\ \/ To(p, IF MarkerLive /\ Mine(p) THEN "poll" ELSE "reread")
     \/ Faults /\ To(p, "failed")
  /\ UNCHANGED <<store, work, ids, env, history, fixed>>

Reread(p) ==
  /\ At(p, "reread")
  /\ \/ /\ TakeStored(p, "failed")
        /\ gaveUp' = IF Matches(token) /\ Usable(token) THEN gaveUp
                     ELSE gaveUp \cup {login[p]}
     \/ /\ Faults /\ To(p, "failed")
        /\ gaveUp' = gaveUp \cup {login[p]}
        /\ UNCHANGED <<tok, flag>>
  /\ UNCHANGED <<store, nxt, rec, login, ids, env, lineage, cut, replayed, fixed>>

-----------------------------------------------------------------------------
(* bmcp clear and bmcp clear --all *)

\* clear deletes the role credentials before the token; what a store's
\* ClearAll deletes first differs between the backends.
AfterDiscard(p) ==
  Stay(p, "clearRole") \/ (kind[p] = "clearAll" /\ Stay(p, "clearTok"))

\* Mutant: clear leaves a login in flight alone.
Discard_not(p) ==
  /\ At(p, "discard")
  /\ login' = [login EXCEPT ![p] = nLogin]
  /\ AfterDiscard(p)
  /\ UNCHANGED <<store, tok, nxt, rec, flag, ids, env, history, fixed>>

\* DiscardLogin reads the marker and rewrites it, so that the login it names
\* is not saved; a login ending without the lock may remove it in between.
Discard(p) ==
  /\ At(p, "discard")
  /\ \/ marker = None /\ AfterDiscard(p) /\ UNCHANGED <<nxt, flag>>
     \/ marker # None /\ SetNxt(p, marker) /\ Stay(p, "discardWrite") /\ UNCHANGED flag
     \/ Faults /\ SetFlags(p, {"failed"}) /\ AfterDiscard(p) /\ UNCHANGED nxt
  /\ login' = [login EXCEPT ![p] = nLogin]
  /\ UNCHANGED <<store, tok, rec, ids, env, history, fixed>>

\* Mutant: clear removes the marker.
DiscardWrite_removes(p) ==
  /\ At(p, "discardWrite")
  /\ marker' = None
  /\ AfterDiscard(p)
  /\ UNCHANGED <<token, role, tok, nxt, rec, login, flag, ids, env, history, fixed>>

\* Mutant: the rewritten marker has lost the process that runs the login.
DiscardWrite_noPid(p) ==
  /\ At(p, "discardWrite")
  /\ marker' = [id |-> nxt[p].id, pid |-> None, discard |-> TRUE]
  /\ AfterDiscard(p)
  /\ UNCHANGED <<token, role, tok, nxt, rec, login, flag, ids, env, history, fixed>>

DiscardWrite(p) ==
  /\ At(p, "discardWrite")
  /\ \/ marker' = [nxt[p] EXCEPT !.discard = TRUE] /\ UNCHANGED flag
     \/ Faults /\ SetFlags(p, {"failed"}) /\ UNCHANGED marker
  /\ AfterDiscard(p)
  /\ UNCHANGED <<token, role, tok, nxt, rec, login, ids, env, history, fixed>>

\* Every step is attempted, and the first error is what clear reports.
ClearRoles(p) ==
  \/ role' = NoRoles /\ UNCHANGED flag
  \/ Faults /\ SetFlags(p, {"failed"}) /\ UNCHANGED role
ClearToken(p) ==
  \/ token' = None /\ UNCHANGED flag
  \/ Faults /\ SetFlags(p, {"failed"}) /\ UNCHANGED token

\* Mutant: clear reports success whatever failed.
ClearEnds_anyhow(p) == To(p, "done") /\ cut' = login[p]

ClearEnds(p) ==
  IF "failed" \in flag'[p] THEN To(p, "failed") /\ UNCHANGED cut
  ELSE To(p, "done") /\ cut' = login[p]

ClearRole(p) ==
  /\ \/ At(p, "clearRole") /\ ClearRoles(p) /\ Stay(p, "lastTok") /\ UNCHANGED cut
     \/ At(p, "lastRole") /\ ClearRoles(p) /\ ClearEnds(p)
  /\ UNCHANGED <<token, marker, tok, nxt, rec, login, ids, env, lineage, gaveUp,
                 replayed, fixed>>

ClearTok(p) ==
  /\ \/ At(p, "clearTok") /\ ClearToken(p) /\ Stay(p, "lastRole") /\ UNCHANGED cut
     \/ At(p, "lastTok") /\ ClearToken(p) /\ ClearEnds(p)
  /\ UNCHANGED <<role, marker, tok, nxt, rec, login, ids, env, lineage, gaveUp,
                 replayed, fixed>>

-----------------------------------------------------------------------------
(* What happens around the invocations *)

\* A lock could not be had before the context ended: what each caller does.
LockTimeout(p) ==
  /\ Waiting(p)
  /\ To(p, CASE pc[p] = "stamp"     -> "cached"
             [] pc[p] = "refresh"   -> IF kind[p] = "login" THEN "login"
                                       ELSE "failed"
             [] pc[p] = "saveLeaf"  -> AfterSaveLeaf
             [] pc[p] = "saveFinal" -> "issued"
             [] pc[p] = "drop"      -> AfterDrop(p)
             [] pc[p] = "save"      -> "unlockedEnd"
             [] pc[p] = "evict"     -> "done"
             [] OTHER               -> "failed")
  /\ UNCHANGED <<store, work, ids, env, history, fixed>>

Crash(p) ==
  /\ pc[p] \notin EndPcs \cup {"idle"}
  /\ nCrash < MaxCrashes
  /\ nCrash' = nCrash + 1
  /\ To(p, "crashed")
  /\ UNCHANGED <<store, work, ids, life, spent, aged, nAge, nCLI, history, fixed>>

AgeToken ==
  /\ nAge < MaxAgings
  /\ \E a \in 1 .. nTok : life[a] > 0 /\ life' = [life EXCEPT ![a] = @ - 1]
  /\ nAge' = nAge + 1
  /\ UNCHANGED <<hold, pc, store, work, ids, spent, aged, nCrash, nCLI, history,
                 fixed>>

AgeMarker ==
  /\ Suspends /\ marker # None /\ marker.id \notin aged
  /\ aged' = aged \cup {marker.id}
  /\ UNCHANGED <<hold, pc, store, work, ids, life, spent, nAge, nCrash, nCLI,
                 history, fixed>>

\* The AWS CLI shares the token file of the aws-cli-cache backend, takes no
\* lock of bmcp's, and drops the generation when it rewrites the file.
CLILogin ==
  /\ nTok < MaxTokens /\ nLogin < MaxLogins
  /\ token' = [at |-> nTok + 1, rt |-> nTok + 1, gen |-> 0, of |-> nLogin + 1,
               fits |-> TRUE]
  /\ nTok' = nTok + 1 /\ nLogin' = nLogin + 1
  /\ UNCHANGED spent

CLIRefresh ==
  /\ token # None /\ token.rt \notin spent \cup {0}
  /\ nTok < MaxTokens
  /\ \/ token' = [token EXCEPT !.at = nTok + 1, !.gen = 0] /\ UNCHANGED spent
     \/ /\ token' = [token EXCEPT !.at = nTok + 1, !.rt = nTok + 1, !.gen = 0]
        /\ spent' = spent \cup {token.rt}
  /\ nTok' = nTok + 1
  /\ UNCHANGED nLogin

CLILogout == token' = None /\ UNCHANGED <<nTok, nLogin, spent>>

AwsCLI ==
  /\ nCLI < MaxCLI
  /\ nCLI' = nCLI + 1
  /\ CLILogin \/ CLIRefresh \/ CLILogout
  /\ UNCHANGED <<hold, pc, role, marker, work, nGen, nKey, life, aged, nAge,
                 nCrash, history, fixed>>

Retrieve(p) ==
  \/ ReadStored(p) \/ Stamp(p) \/ StampWrite(p) \/ Cached(p) \/ LeafCached(p)
  \/ UsableToken(p) \/ Mint(p) \/ SaveLeaf(p) \/ AssumeHops(p) \/ SaveFinal(p)
  \/ Gateway(p) \/ Evict(p)
Refresh(p) ==
  \/ RefreshRead(p) \/ Redeem(p) \/ Rotate(p) \/ WriteRefreshed(p)
  \/ RejectTok(p) \/ RejectRole(p) \/ Drop(p) \/ DropTok(p) \/ DropRole(p)
Login(p) ==
  \/ LoginRead(p) \/ LoginBegin(p) \/ Browser(p) \/ SaveDiscard(p)
  \/ SaveRetire(p) \/ SaveWrite(p) \/ SaveEnd(p) \/ UnlockedEnd(p)
  \/ UnlockedRm(p) \/ Poll(p) \/ Peek(p) \/ Reread(p)
Clear(p) == Discard(p) \/ DiscardWrite(p) \/ ClearRole(p) \/ ClearTok(p)

\* Every way an invocation moves on by itself.
Step(p) ==
  Start(p) \/ TakeLock(p) \/ LockTimeout(p) \/ Retrieve(p) \/ Refresh(p)
  \/ Login(p) \/ Clear(p)

AllEnded == (\A p \in Process : Ended(p)) /\ UNCHANGED vars

Next ==
  \/ \E p \in Process : Step(p) \/ Crash(p)
  \/ AgeToken \/ AgeMarker \/ AwsCLI
  \/ AllEnded

Spec     == Init /\ [][Next]_vars
FairSpec == Spec /\ \A p \in Process : WF_vars(Step(p))

-----------------------------------------------------------------------------
(* Properties *)

(* What "bmcp clear" removed stays removed: once a clear has ended well, no
   token and no role credentials that descend from a login started before it
   are stored, whatever calls, refreshes, logins and saves were under way
   while it ran (README.md: a login waiting when clear runs is discarded). *)
NoResurrection ==
  /\ token # None => token.of > cut
  /\ \A k \in CredKeys : role[k] # None => role[k].of > cut

(* Role credentials are used only with the login they were minted from: those
   cached under the stored token's generation, and those a call signs with,
   descend from the same login as the token (stampGeneration, saveNewToken
   and writeRoleCredsIfCurrent between them). *)
SameLogin ==
  /\ \A k \in CredKeys :
       token # None /\ CacheHit(role[k], token.gen) => role[k].of = token.of
  /\ \A p \in Process :
       pc[p] \in {"saveLeaf", "assume", "saveFinal", "issued"}
         => rec[p].of = tok[p].of

(* While only bmcp writes the store and its deletions succeed, cached role
   credentials beside a token are of that token's generation: saveNewToken
   deletes the old generation's before the new token can be seen, and a crash
   between the two leaves none behind it. *)
OnlyCurrentRoles ==
  \A k \in CredKeys : token # None /\ role[k] # None => role[k].gen = token.gen

(* What a critical section read or checked still holds when it acts on it:
   the token to stamp, to replace or to delete is the stored one, and the
   login to save is still wanted (the re-reads of stampGeneration, refresh,
   dropToken and login, made under the lock the write is made under). *)
CheckedStillHolds ==
  \A p \in Process :
    /\ pc[p] \in {"stampWrite", "redeem", "rejectTok"} => token = nxt[p]
    /\ pc[p] \in {"rotate", "write"} => token # None /\ token.of = nxt[p].of
    /\ pc[p] = "dropTok" => token # None /\ token.at = tok[p].at
    /\ pc[p] = "saveWrite" => Wanted(p)

(* Parallel calls share one browser login: no two processes wait for a browser
   at once, a login whose marker has outlived loginMarkerMaxAge apart
   (BeginLogin and LoginMarker under the session lock). *)
OneBrowser ==
  \A p, q \in Process :
    p # q /\ pc[p] = "browser" /\ pc[q] = "browser"
      => login[p] \in aged \/ login[q] \in aged

(* "EndLogin removes m's marker, and leaves anyone else's alone": a login in
   the browser keeps its marker until its own process ends it, or the marker
   has outlived loginMarkerMaxAge.  (Where one has, a login that ends without
   the lock can remove the marker of the next.) *)
MarkerKept ==
  \A p \in Process : pc[p] = "browser" /\ login[p] \notin aged => Mine(p)

(* A waiter reports that a login ended without a token only when it did: no
   login is still to be saved, or in the browser, after a waiter gave it up
   (the marker goes after the token is written, and awaitLogin reads the token
   once more after it has seen the marker gone). *)
NoGiveUpOnSuccess ==
  \A p \in Process :
    pc[p] \in {"browser", "saveWrite", "saveEnd"} /\ login[p] \notin aged
      => login[p] \notin gaveUp

(* A refresh token is never redeemed again after the rotation that consumed
   it: the provider would revoke the session.  (Processes that live, replies
   that arrive and a store only bmcp writes: otherwise it cannot be avoided.) *)
NoReplay == ~replayed

(* Every invocation that starts ends: no lock and no poll of ssoprovider.go keeps
   a process for ever, whatever the others do.  The run that checks it starts
   logins and clears only: the retry of a rejected call in leafCredentials
   (ssoprovider.go:350) takes part in the safety runs and not in this one. *)
EveryInvocationEnds == \A p \in Process : pc[p] # "idle" ~> Ended(p)
=============================================================================

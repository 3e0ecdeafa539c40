--------------------------- MODULE SsoSessionProofs ---------------------------
(* Theorems about SsoSession, for any number of processes, with the AWS CLI, *)
(* crashes, faults and suspended logins or without them, except where a      *)
(* theorem names what it does without.                                       *)
EXTENDS SsoSession, CredLocksProofs

-----------------------------------------------------------------------------
(* What a step finds in hand when it uses a local: never the absent value.   *)

TokPcs == {"stamp", "stampWrite", "cached", "leafCached", "mint", "refresh",
           "redeem", "rotate", "write", "rejectTok", "rejectRole", "drop",
           "dropTok", "dropRole"}
NxtPcs == {"stampWrite", "redeem", "rotate", "write", "saveWrite", "saveEnd"}
RecPcs == {"saveLeaf", "assume", "saveFinal", "issued", "evict"}

InHand ==
  \A p \in Process :
    /\ pc[p] \in TokPcs => tok[p] \in Tokens
    /\ pc[p] \in NxtPcs => nxt[p] \in Tokens
    /\ pc[p] \in {"save", "unlockedEnd", "unlockedRm"} => nxt[p] \in Tokens \cup {None}
    /\ pc[p] = "unlockedRm" /\ "failed" \notin flag[p] => nxt[p] \in Tokens
    /\ pc[p] = "discardWrite" => nxt[p] \in Markers
    /\ pc[p] = "leafCached" => Hops
    /\ pc[p] \in RecPcs => rec[p] \in RoleRecs

TypeInv == TypeOK /\ InHand

\* A record that matches the settings is there.
LEMMA MatchesSome == \A t : Matches(t) => t # None
  BY DEF Matches

\* The keys the SSO leaf and the chain save under are cache keys.
LEMMA Keys ==
  "final" \in CredKeys /\ LeafKey \in CredKeys /\ (Hops => "leaf" \in CredKeys)
  BY DEF CredKeys, LeafKey

\* A browser login yields a well-formed token.
LEMMA BrowserToken ==
  ASSUME TypeInv, NEW p \in Process, nTok < MaxTokens, NEW r \in {0, nTok + 1}
  PROVE  [at |-> nTok + 1, rt |-> r, gen |-> 0, of |-> login[p], fits |-> TRUE]
           \in Tokens
  BY Bounds DEF TypeInv, TypeOK, WorkOK, IdsOK, Tokens, TokenIds, Gens

\* A refreshed or stamped token is well-formed.
LEMMA TokenUpdate ==
  ASSUME NEW t \in Tokens, NEW a \in TokenIds, NEW g \in Gens
  PROVE  /\ [t EXCEPT !.at = a, !.gen = g] \in Tokens
         /\ [t EXCEPT !.at = a, !.rt = a, !.gen = g] \in Tokens
  BY DEF Tokens

\* What a browser login leaves in hand: a token, or none.
LEMMA BrowserNxt ==
  ASSUME TypeInv, NEW p \in Process, Browser(p)
  PROVE  nxt'[p] \in Tokens \cup {None}
<1> USE DEF TypeInv, TypeOK, WorkOK
<1>1. CASE nxt' = [nxt EXCEPT ![p] = None]
  BY <1>1
<1>2. ASSUME nTok < MaxTokens, NEW r \in {0, nTok + 1},
             nxt' = [nxt EXCEPT ![p] = [at |-> nTok + 1, rt |-> r, gen |-> 0,
                                        of |-> login[p], fits |-> TRUE]]
      PROVE  nxt'[p] \in Tokens
  BY <1>2, BrowserToken
<1> QED
  BY <1>1, <1>2 DEF Browser, SetNxt

\* No step stores anything ill-formed.
LEMMA StoreStep == TypeInv /\ [Next]_vars => StoreOK'
<1> SUFFICES ASSUME TypeInv, [Next]_vars PROVE StoreOK'
  OBVIOUS
<1> USE DEF TypeInv, TypeOK, StoreOK, store
<1>1. ASSUME NEW p \in Process, StampWrite(p) PROVE StoreOK'
  BY <1>1, Bounds, MatchesSome, Keys DEF StampWrite, Attempt, At, InHand,
      NxtPcs, WorkOK, IdsOK, RecPcs, Tokens, TokenIds, Gens, Logins
<1>2. ASSUME NEW p \in Process, SaveLeaf(p) \/ SaveFinal(p) \/ Evict(p) PROVE
    StoreOK'
  BY <1>2, Bounds, MatchesSome, Keys DEF SaveLeaf, SaveRole, AfterSaveLeaf,
      LeafKey, SaveFinal, Evict, Attempt, At, InHand, NxtPcs, WorkOK, IdsOK,
      RecPcs
<1>3. ASSUME NEW p \in Process, Rotate(p) \/ RejectRole(p) \/ DropRole(p) \/
    SaveRetire(p) \/ ClearRole(p) PROVE StoreOK'
  BY <1>3, Bounds, MatchesSome, Keys DEF Rotate, Retire, NoRoles, RejectRole,
      AfterRefresh, DropRole, AfterDrop, SaveRetire, Wanted, Mine, ClearRole,
      ClearRoles, ClearEnds, Attempt, At, InHand, NxtPcs, WorkOK, IdsOK,
      RecPcs
<1>4. ASSUME NEW p \in Process, WriteRefreshed(p) \/ SaveWrite(p) PROVE
    StoreOK'
  BY <1>4, Bounds, MatchesSome, Keys DEF WriteRefreshed, AfterRefresh,
      SaveWrite, Attempt, At, InHand, NxtPcs, WorkOK, IdsOK, RecPcs
<1>5. ASSUME NEW p \in Process, RejectTok(p) \/ DropTok(p) \/ ClearTok(p)
    PROVE StoreOK'
  BY <1>5, Bounds, MatchesSome, Keys DEF RejectTok, DeleteTok, DropTok,
      ClearTok, ClearToken, ClearEnds, Attempt, At, InHand, NxtPcs, WorkOK,
      IdsOK, RecPcs
<1>6. ASSUME NEW p \in Process, LoginBegin(p) PROVE StoreOK'
  <2> DEFINE m == [id |-> nLogin + 1, pid |-> p, discard |-> FALSE]
  <2>1. nLogin < MaxLogins => m \in Markers
    BY Bounds DEF Markers, Logins, IdsOK
  <2>2. UNCHANGED <<token, role>>
    BY <1>6 DEF LoginBegin
  <2>3. marker' \in {marker, None} \/ (nLogin < MaxLogins /\ marker' = m)
    BY <1>6 DEF LoginBegin
  <2> QED
    BY <2>1, <2>2, <2>3
<1>7. ASSUME NEW p \in Process, SaveDiscard(p) \/ SaveEnd(p) \/ UnlockedRm(p)
    PROVE StoreOK'
  BY <1>7, Bounds, MatchesSome, Keys DEF SaveDiscard, EndLogin, Mine, Wanted,
      SaveEnd, LoginReturn, UnlockedRm, UnlockedReturn, Attempt, At, InHand,
      NxtPcs, WorkOK, IdsOK, RecPcs
<1>8. ASSUME NEW p \in Process, DiscardWrite(p) PROVE StoreOK'
  BY <1>8, Bounds, MatchesSome, Keys DEF DiscardWrite, AfterDiscard, Attempt,
      At, InHand, NxtPcs, WorkOK, IdsOK, RecPcs, Markers
<1>9. CASE AwsCLI
  <2>1. CASE CLILogin
    BY <1>9, <2>1, Bounds DEF AwsCLI, CLILogin, IdsOK, Tokens, TokenIds, Gens, Logins
  <2>2. CASE CLIRefresh
    <3>1. 0 \in Gens /\ (nTok < MaxTokens => nTok + 1 \in TokenIds)
      BY Bounds DEF Gens, IdsOK, TokenIds
    <3>2. token \in Tokens /\ nTok < MaxTokens
      BY <1>9, <2>2 DEF AwsCLI, CLIRefresh
    <3>3. /\ [token EXCEPT !.at = nTok + 1, !.gen = 0] \in Tokens
          /\ [token EXCEPT !.at = nTok + 1, !.rt = nTok + 1, !.gen = 0] \in Tokens
      BY <3>1, <3>2, TokenUpdate
    <3> QED
      BY <1>9, <2>2, <3>3 DEF AwsCLI, CLIRefresh
  <2>3. CASE CLILogout
    BY <1>9, <2>3 DEF AwsCLI, CLILogout
  <2> QED
    BY <1>9, <2>1, <2>2, <2>3 DEF AwsCLI
<1>10. ASSUME NEW p \in Process, Start(p) \/ TakeLock(p) \/ LockTimeout(p) \/
    ReadStored(p) \/ Stamp(p) \/ Cached(p) \/ LeafCached(p) \/ UsableToken(p)
    \/ Mint(p) \/ AssumeHops(p) \/ Gateway(p) \/ RefreshRead(p) \/ Redeem(p)
    \/ Drop(p) \/ LoginRead(p) \/ Browser(p) \/ UnlockedEnd(p) \/ Poll(p) \/
    Peek(p) \/ Reread(p) \/ Discard(p) \/ Crash(p) PROVE StoreOK'
  BY <1>10 DEF Start, AskAll, TakeLock, TakeGlobalShared, TakeSession,
      TakeAll, LockTimeout, ReadStored, Stamp, Cached, LeafCached,
      UsableToken, Mint, AssumeHops, Gateway, RefreshRead, Redeem, Drop,
      LoginRead, Browser, UnlockedEnd, UnlockedReturn, LoginReturn, Poll,
      TakeStored, Peek, Reread, Discard, AfterDiscard, Crash
<1>11. CASE AgeToken \/ AgeMarker
  BY <1>11 DEF AgeToken, AgeMarker
<1>12. CASE UNCHANGED vars
  BY <1>12 DEF vars
<1> QED
  BY <1>1, <1>2, <1>3, <1>4, <1>5, <1>6, <1>7, <1>8, <1>9, <1>10, <1>11, <1>12
      DEF Next, Step, Retrieve, Refresh, Login, Clear, AllEnded

\* No step leaves a process with an ill-formed local.
LEMMA WorkStep == TypeInv /\ [Next]_vars => WorkOK'
<1> SUFFICES ASSUME TypeInv, [Next]_vars PROVE WorkOK'
  OBVIOUS
<1> USE DEF TypeInv, TypeOK, WorkOK, work, SetTok, SetNxt, SetFlags
<1>1. ASSUME NEW p \in Process, ReadStored(p) \/ LoginRead(p) \/ Stamp(p)
    PROVE WorkOK'
  BY <1>1, Bounds, MatchesSome, Keys DEF ReadStored, Stored, LoginRead, Stamp,
      Attempt, At, InHand, NxtPcs, StoreOK
<1>2. ASSUME NEW p \in Process, StampWrite(p) PROVE WorkOK'
  BY <1>2, Bounds, MatchesSome, Keys DEF StampWrite, Attempt, At, InHand,
      NxtPcs, StoreOK, Tokens, TokenIds, Gens, Logins, IdsOK
<1>3. ASSUME NEW p \in Process, Cached(p) \/ LeafCached(p) PROVE WorkOK'
  BY <1>3, Keys DEF Cached, LeafCached, CacheHit, At, InHand, StoreOK
<1>4. ASSUME NEW p \in Process, UsableToken(p) PROVE WorkOK'
  BY <1>4, Bounds, MatchesSome, Keys DEF UsableToken, Long, Usable,
      Refreshable, Attempt, At, InHand, NxtPcs, StoreOK, Flags
<1>5. ASSUME NEW p \in Process, Mint(p) PROVE WorkOK'
  BY <1>5, Bounds, MatchesSome, Keys DEF Mint, Attempt, At, InHand, NxtPcs,
      StoreOK, RoleRecs, IdsOK, Tokens, TokPcs, Flags
<1>6. ASSUME NEW p \in Process, AssumeHops(p) PROVE WorkOK'
  BY <1>6, Bounds, MatchesSome, Keys DEF AssumeHops, Attempt, At, InHand,
      NxtPcs, StoreOK, RoleRecs, IdsOK, RecPcs
<1>7. ASSUME NEW p \in Process, RefreshRead(p) PROVE WorkOK'
  BY <1>7, Bounds, MatchesSome, Keys DEF RefreshRead, AfterRefresh, Attempt,
      At, InHand, NxtPcs, StoreOK, Flags, Usable
<1>8. ASSUME NEW p \in Process, Redeem(p) PROVE WorkOK'
  BY <1>8, Bounds, MatchesSome, Keys DEF Redeem, AfterRefresh, Attempt, At,
      InHand, NxtPcs, StoreOK, Tokens, TokenIds, Gens, Logins, IdsOK
<1>9. ASSUME NEW p \in Process, Rotate(p) \/ SaveRetire(p) PROVE WorkOK'
  BY <1>9, Bounds, MatchesSome, Keys DEF Rotate, Retire, NoRoles, SaveRetire,
      Wanted, Mine, Attempt, At, InHand, NxtPcs, StoreOK, Tokens, TokenIds,
      Gens, Logins, IdsOK
<1>10. ASSUME NEW p \in Process, WriteRefreshed(p) PROVE WorkOK'
  BY <1>10, Bounds, MatchesSome, Keys DEF WriteRefreshed, AfterRefresh,
      Attempt, At, InHand, NxtPcs, StoreOK
<1>11. ASSUME NEW p \in Process, LoginBegin(p) PROVE WorkOK'
  BY <1>11, Bounds, MatchesSome, Keys DEF LoginBegin, LoginReturn, Attempt,
      At, InHand, NxtPcs, StoreOK, IdsOK, Logins, Markers, MarkerLive, Flags
<1>12. ASSUME NEW p \in Process, Browser(p) PROVE WorkOK'
  BY <1>12, BrowserNxt DEF Browser
<1>13. ASSUME NEW p \in Process, SaveEnd(p) PROVE WorkOK'
  BY <1>13, Bounds, MatchesSome, Keys DEF SaveEnd, EndLogin, LoginReturn,
      Mine, Attempt, At, InHand, NxtPcs, StoreOK, Flags
<1>14. ASSUME NEW p \in Process, UnlockedEnd(p) \/ UnlockedRm(p) PROVE WorkOK'
  BY <1>14, Bounds, MatchesSome, Keys DEF UnlockedEnd, UnlockedReturn,
      LoginReturn, Mine, Wanted, UnlockedRm, Attempt, At, InHand, NxtPcs,
      StoreOK, Flags
<1>15. ASSUME NEW p \in Process, Poll(p) \/ Reread(p) PROVE WorkOK'
  BY <1>15, Bounds, MatchesSome, Keys DEF Poll, TakeStored, LoginReturn,
      Reread, Attempt, At, InHand, NxtPcs, StoreOK, Flags
<1>16. ASSUME NEW p \in Process, Discard(p) PROVE WorkOK'
  BY <1>16, Bounds, MatchesSome, Keys DEF Discard, AfterDiscard, Attempt, At,
      InHand, NxtPcs, StoreOK, IdsOK, Flags
<1>17. ASSUME NEW p \in Process, DiscardWrite(p) \/ ClearRole(p) \/
    ClearTok(p) PROVE WorkOK'
  BY <1>17, Bounds, MatchesSome, Keys DEF DiscardWrite, AfterDiscard,
      ClearRole, ClearRoles, ClearEnds, NoRoles, ClearTok, ClearToken,
      Attempt, At, InHand, NxtPcs, StoreOK, Flags
<1>18. ASSUME NEW p \in Process, Start(p) \/ TakeLock(p) \/ LockTimeout(p) \/
    SaveLeaf(p) \/ SaveFinal(p) \/ Gateway(p) \/ Evict(p) \/ RejectTok(p) \/
    RejectRole(p) \/ Drop(p) \/ DropTok(p) \/ DropRole(p) \/ SaveDiscard(p) \/
    SaveWrite(p) \/ Peek(p) \/ Crash(p) PROVE WorkOK'
  BY <1>18 DEF Start, AskAll, TakeLock, TakeGlobalShared, TakeSession,
      TakeAll, LockTimeout, SaveLeaf, SaveRole, SaveFinal, Gateway, Evict,
      RejectTok, DeleteTok, RejectRole, Drop, DropTok, DropRole, SaveDiscard,
      EndLogin, SaveWrite, Peek, Crash
<1>19. CASE AgeToken \/ AgeMarker \/ AwsCLI
  BY <1>19 DEF AgeToken, AgeMarker, AwsCLI, CLILogin, CLIRefresh, CLILogout
<1>20. CASE UNCHANGED vars
  BY <1>20 DEF vars
<1> QED
  BY <1>1, <1>2, <1>3, <1>4, <1>5, <1>6, <1>7, <1>8, <1>9, <1>10, <1>11,
      <1>12, <1>13, <1>14, <1>15, <1>16, <1>17, <1>18, <1>19, <1>20 DEF Next,
      Step, Retrieve, Refresh, Login, Clear, AllEnded

\* The counters of issued things stay within their bounds.
LEMMA IdsStep == TypeInv /\ [Next]_vars => IdsOK'
<1> SUFFICES ASSUME TypeInv, [Next]_vars PROVE IdsOK'
  OBVIOUS
<1> USE DEF TypeInv, TypeOK, IdsOK, ids, TokenIds, Gens, Logins
<1>1. ASSUME NEW p \in Process, StampWrite(p) PROVE IdsOK'
  BY <1>1, Bounds DEF StampWrite
<1>2. ASSUME NEW p \in Process, Rotate(p) \/ SaveRetire(p) PROVE IdsOK'
  BY <1>2, Bounds DEF Rotate, SaveRetire, Retire
<1>3. ASSUME NEW p \in Process, Mint(p) \/ AssumeHops(p) PROVE IdsOK'
  BY <1>3, Bounds DEF Mint, AssumeHops
<1>4. ASSUME NEW p \in Process, Redeem(p) \/ Browser(p) PROVE IdsOK'
  BY <1>4, Bounds DEF Redeem, AfterRefresh, Browser
<1>5. ASSUME NEW p \in Process, LoginBegin(p) PROVE IdsOK'
  BY <1>5, Bounds DEF LoginBegin, LoginReturn
<1>6. CASE AwsCLI
  BY <1>6, Bounds DEF AwsCLI, CLILogin, CLIRefresh, CLILogout
<1>7. ASSUME NEW p \in Process, Start(p) \/ TakeLock(p) \/ LockTimeout(p) \/
    ReadStored(p) \/ Stamp(p) \/ Cached(p) \/ LeafCached(p) \/ UsableToken(p)
    \/ SaveLeaf(p) \/ SaveFinal(p) \/ Gateway(p) \/ Evict(p) \/ RefreshRead(p)
    \/ WriteRefreshed(p) \/ RejectTok(p) \/ RejectRole(p) \/ Drop(p) \/
    DropTok(p) \/ DropRole(p) \/ LoginRead(p) \/ SaveDiscard(p) \/
    SaveWrite(p) \/ SaveEnd(p) \/ UnlockedEnd(p) \/ UnlockedRm(p) \/ Poll(p)
    \/ Peek(p) \/ Reread(p) \/ Discard(p) \/ DiscardWrite(p) \/ ClearRole(p)
    \/ ClearTok(p) \/ Crash(p) PROVE IdsOK'
  BY <1>7 DEF Start, AskAll, TakeLock, TakeGlobalShared, TakeSession, TakeAll,
      LockTimeout, ReadStored, Stamp, Cached, LeafCached, UsableToken,
      SaveLeaf, SaveRole, SaveFinal, Gateway, Evict, RefreshRead,
      WriteRefreshed, RejectTok, DeleteTok, RejectRole, Drop, DropTok,
      DropRole, LoginRead, SaveDiscard, EndLogin, SaveWrite, SaveEnd,
      LoginReturn, UnlockedEnd, UnlockedReturn, UnlockedRm, Poll, TakeStored,
      Peek, Reread, Discard, AfterDiscard, DiscardWrite, ClearRole,
      ClearRoles, ClearEnds, ClearTok, ClearToken, Crash
<1>8. CASE AgeToken \/ AgeMarker
  BY <1>8 DEF AgeToken, AgeMarker
<1>9. CASE UNCHANGED vars
  BY <1>9 DEF vars
<1> QED
  BY <1>1, <1>2, <1>3, <1>4, <1>5, <1>6, <1>7, <1>8, <1>9 DEF Next, Step,
      Retrieve, Refresh, Login, Clear, AllEnded

\* So does what the services and the clock keep.
LEMMA EnvStep == TypeInv /\ [Next]_vars => EnvOK'
<1> SUFFICES ASSUME TypeInv, [Next]_vars PROVE EnvOK'
  OBVIOUS
<1> USE DEF TypeInv, TypeOK, EnvOK, env
<1>1. ASSUME NEW p \in Process, Redeem(p) PROVE EnvOK'
  BY <1>1, Bounds DEF Redeem, AfterRefresh, InHand, NxtPcs, Tokens, TokenIds,
      Attempt, At
<1>2. ASSUME NEW p \in Process, Crash(p) PROVE EnvOK'
  BY <1>2, Bounds DEF Crash
<1>3. CASE AgeToken
  BY <1>3, Bounds DEF AgeToken, IdsOK, TokenIds
<1>4. CASE AgeMarker
  BY <1>4, Bounds DEF AgeMarker, StoreOK, Markers
<1>5. CASE AwsCLI
  BY <1>5, Bounds DEF AwsCLI, CLILogin, CLIRefresh, CLILogout, StoreOK, Tokens
<1>6. ASSUME NEW p \in Process, Start(p) \/ TakeLock(p) \/ LockTimeout(p) \/
    ReadStored(p) \/ Stamp(p) \/ StampWrite(p) \/ Cached(p) \/ LeafCached(p)
    \/ UsableToken(p) \/ Mint(p) \/ SaveLeaf(p) \/ AssumeHops(p) \/
    SaveFinal(p) \/ Gateway(p) \/ Evict(p) \/ RefreshRead(p) \/ Rotate(p) \/
    WriteRefreshed(p) \/ RejectTok(p) \/ RejectRole(p) \/ Drop(p) \/
    DropTok(p) \/ DropRole(p) \/ LoginRead(p) \/ LoginBegin(p) \/ Browser(p)
    \/ SaveDiscard(p) \/ SaveRetire(p) \/ SaveWrite(p) \/ SaveEnd(p) \/
    UnlockedEnd(p) \/ UnlockedRm(p) \/ Poll(p) \/ Peek(p) \/ Reread(p) \/
    Discard(p) \/ DiscardWrite(p) \/ ClearRole(p) \/ ClearTok(p) PROVE EnvOK'
  BY <1>6 DEF Start, AskAll, TakeLock, TakeGlobalShared, TakeSession, TakeAll,
      LockTimeout, ReadStored, Stamp, StampWrite, Cached, LeafCached,
      UsableToken, Mint, SaveLeaf, SaveRole, AssumeHops, SaveFinal, Gateway,
      Evict, RefreshRead, Rotate, Retire, WriteRefreshed, RejectTok,
      DeleteTok, RejectRole, Drop, DropTok, DropRole, LoginRead, LoginBegin,
      LoginReturn, Browser, SaveDiscard, EndLogin, SaveRetire, SaveWrite,
      SaveEnd, UnlockedEnd, UnlockedReturn, UnlockedRm, Poll, TakeStored,
      Peek, Reread, Discard, AfterDiscard, DiscardWrite, ClearRole,
      ClearRoles, ClearEnds, ClearTok, ClearToken
<1>7. CASE UNCHANGED vars
  BY <1>7 DEF vars
<1> QED
  BY <1>1, <1>2, <1>3, <1>4, <1>5, <1>6, <1>7 DEF Next, Step, Retrieve,
      Refresh, Login, Clear, AllEnded

\* And the history.
LEMMA HistoryStep == TypeInv /\ [Next]_vars => HistoryOK'
<1> SUFFICES ASSUME TypeInv, [Next]_vars PROVE HistoryOK'
  OBVIOUS
<1> USE DEF TypeInv, TypeOK, HistoryOK, history, Gens, Logins
<1>1. ASSUME NEW p \in Process, StampWrite(p) \/ Rotate(p) \/ SaveRetire(p)
    PROVE HistoryOK'
  BY <1>1, Bounds DEF StampWrite, Rotate, Retire, NoRoles, SaveRetire, Wanted,
      Mine, IdsOK, WorkOK, InHand, NxtPcs, Tokens, At
<1>2. ASSUME NEW p \in Process, Redeem(p) PROVE HistoryOK'
  BY <1>2, Bounds DEF Redeem, AfterRefresh, IdsOK, WorkOK, InHand, NxtPcs,
      Tokens, At
<1>3. ASSUME NEW p \in Process, Reread(p) PROVE HistoryOK'
  BY <1>3, Bounds DEF Reread, TakeStored, LoginReturn, IdsOK, WorkOK, InHand,
      NxtPcs, Tokens, At
<1>4. ASSUME NEW p \in Process, ClearRole(p) \/ ClearTok(p) PROVE HistoryOK'
  BY <1>4 DEF ClearRole, ClearTok, ClearEnds, WorkOK
<1>5. ASSUME NEW p \in Process, Start(p) \/ TakeLock(p) \/ LockTimeout(p) \/
    ReadStored(p) \/ Stamp(p) \/ Cached(p) \/ LeafCached(p) \/ UsableToken(p)
    \/ Mint(p) \/ SaveLeaf(p) \/ AssumeHops(p) \/ SaveFinal(p) \/ Gateway(p)
    \/ Evict(p) \/ RefreshRead(p) \/ WriteRefreshed(p) \/ RejectTok(p) \/
    RejectRole(p) \/ Drop(p) \/ DropTok(p) \/ DropRole(p) \/ LoginRead(p) \/
    LoginBegin(p) \/ Browser(p) \/ SaveDiscard(p) \/ SaveWrite(p) \/
    SaveEnd(p) \/ UnlockedEnd(p) \/ UnlockedRm(p) \/ Poll(p) \/ Peek(p) \/
    Discard(p) \/ DiscardWrite(p) \/ Crash(p) PROVE HistoryOK'
  BY <1>5 DEF Start, AskAll, TakeLock, TakeGlobalShared, TakeSession, TakeAll,
      LockTimeout, ReadStored, Stamp, Cached, LeafCached, UsableToken, Mint,
      SaveLeaf, SaveRole, AssumeHops, SaveFinal, Gateway, Evict, RefreshRead,
      WriteRefreshed, RejectTok, DeleteTok, RejectRole, Drop, DropTok,
      DropRole, LoginRead, LoginBegin, LoginReturn, Browser, SaveDiscard,
      EndLogin, SaveWrite, SaveEnd, UnlockedEnd, UnlockedReturn, UnlockedRm,
      Poll, TakeStored, Peek, Discard, AfterDiscard, DiscardWrite, Crash
<1>6. CASE AgeToken \/ AgeMarker \/ AwsCLI
  BY <1>6 DEF AgeToken, AgeMarker, AwsCLI, CLILogin, CLIRefresh, CLILogout
<1>7. CASE UNCHANGED vars
  BY <1>7 DEF vars
<1> QED
  BY <1>1, <1>2, <1>3, <1>4, <1>5, <1>6, <1>7 DEF Next, Step, Retrieve,
      Refresh, Login, Clear, AllEnded

\* Every jump goes to a place of the code, with a lock state CredLocks knows.
LEMMA ControlStep == TypeInv /\ [Next]_vars => ControlOK'
<1> SUFFICES ASSUME TypeInv, [Next]_vars PROVE ControlOK'
  OBVIOUS
<1> USE DEF TypeInv, TypeOK, ControlOK, fixed, To, Stay, At, SetHold,
    LocksTypeOK, HoldStates, Pcs, SectionPcs, EntryPcs, OpenPcs, EndPcs
<1>1. ASSUME NEW p \in Process, Start(p) PROVE ControlOK'
  <2>1. kind' \in [Process -> {"call", "login", "clear", "clearAll"}]
    BY <1>1, Switches DEF Start
  <2>2. ui' \in [Process -> BOOLEAN]
    BY <1>1 DEF Start
  <2>3. pc' \in [Process -> Pcs] /\ LocksTypeOK'
    BY <1>1 DEF Start, AskAll
  <2> QED
    BY <2>1, <2>2, <2>3
<1>2. ASSUME NEW p \in Process, TakeLock(p) PROVE ControlOK'
  BY <1>2, Switches DEF TakeLock, TakeGlobalShared, TakeSession, TakeAll
<1>3. ASSUME NEW p \in Process, LockTimeout(p) PROVE ControlOK'
  BY <1>3, Switches DEF LockTimeout, AfterSaveLeaf, AfterDrop, Waiting
<1>4. ASSUME NEW p \in Process, ReadStored(p) \/ Stamp(p) \/ StampWrite(p)
    PROVE ControlOK'
  BY <1>4, Switches DEF ReadStored, Stored, Stamp, StampWrite
<1>5. ASSUME NEW p \in Process, Cached(p) \/ LeafCached(p) \/ UsableToken(p)
    \/ Mint(p) PROVE ControlOK'
  BY <1>5, Switches DEF Cached, CacheHit, LeafCached, UsableToken, Long,
      Usable, Refreshable, Mint
<1>6. ASSUME NEW p \in Process, SaveLeaf(p) \/ SaveFinal(p) \/ AssumeHops(p)
    \/ Gateway(p) \/ Evict(p) PROVE ControlOK'
  BY <1>6, Switches DEF SaveLeaf, SaveRole, AfterSaveLeaf, LeafKey, SaveFinal,
      AssumeHops, Gateway, Evict
<1>7. ASSUME NEW p \in Process, RefreshRead(p) PROVE ControlOK'
  BY <1>7, Switches DEF RefreshRead, AfterRefresh
<1>8. ASSUME NEW p \in Process, Redeem(p) PROVE ControlOK'
  BY <1>8, Switches DEF Redeem, AfterRefresh
<1>9. ASSUME NEW p \in Process, Rotate(p) \/ WriteRefreshed(p) \/ RejectTok(p)
    PROVE ControlOK'
  BY <1>9, Switches DEF Rotate, Retire, NoRoles, WriteRefreshed, AfterRefresh,
      RejectTok, DeleteTok
<1>10. ASSUME NEW p \in Process, RejectRole(p) \/ Drop(p) \/ DropTok(p) \/
    DropRole(p) PROVE ControlOK'
  BY <1>10, Switches DEF RejectRole, NoRoles, AfterRefresh, Drop, AfterDrop,
      DropTok, DeleteTok, DropRole
<1>11. ASSUME NEW p \in Process, LoginRead(p) \/ LoginBegin(p) PROVE
    ControlOK'
  BY <1>11, Switches DEF LoginRead, Stored, LoginBegin, LoginReturn
<1>12. ASSUME NEW p \in Process, Browser(p) \/ SaveDiscard(p) \/ SaveRetire(p)
    \/ SaveWrite(p) \/ SaveEnd(p) PROVE ControlOK'
  BY <1>12, Switches DEF Browser, SaveDiscard, EndLogin, Mine, Wanted,
      SaveRetire, Retire, NoRoles, SaveWrite, SaveEnd, LoginReturn
<1>13. ASSUME NEW p \in Process, UnlockedEnd(p) \/ UnlockedRm(p) PROVE
    ControlOK'
  BY <1>13, Switches DEF UnlockedEnd, UnlockedReturn, LoginReturn, Mine,
      Wanted, UnlockedRm
<1>14. ASSUME NEW p \in Process, Poll(p) \/ Peek(p) \/ Reread(p) PROVE
    ControlOK'
  BY <1>14, Switches DEF Poll, TakeStored, LoginReturn, Peek, MarkerLive,
      Reread
<1>15. ASSUME NEW p \in Process, Discard(p) \/ DiscardWrite(p) PROVE
    ControlOK'
  BY <1>15, Switches DEF Discard, AfterDiscard, DiscardWrite
<1>16. ASSUME NEW p \in Process, ClearRole(p) \/ ClearTok(p) PROVE ControlOK'
  BY <1>16, Switches DEF ClearRole, ClearRoles, ClearEnds, NoRoles, ClearTok,
      ClearToken
<1>17. ASSUME NEW p \in Process, Crash(p) PROVE ControlOK'
  BY <1>17, Switches DEF Crash
<1>18. CASE AgeToken \/ AgeMarker \/ AwsCLI
  BY <1>18 DEF AgeToken, AgeMarker, AwsCLI, CLILogin, CLIRefresh, CLILogout
<1>19. CASE UNCHANGED vars
  BY <1>19 DEF vars
<1> QED
  BY <1>1, <1>2, <1>3, <1>4, <1>5, <1>6, <1>7, <1>8, <1>9, <1>10, <1>11,
      <1>12, <1>13, <1>14, <1>15, <1>16, <1>17, <1>18, <1>19 DEF Next, Step,
      Retrieve, Refresh, Login, Clear, AllEnded

\* No step leads to a place whose local is absent.
LEMMA InHandStep == TypeInv /\ [Next]_vars => InHand'
<1> SUFFICES ASSUME TypeInv, [Next]_vars PROVE InHand'
  OBVIOUS
<1> USE DEF TypeInv, TypeOK, InHand, ControlOK, WorkOK, work, To, Stay, At,
    SetHold, TokPcs, NxtPcs, RecPcs
<1>1. ASSUME NEW p \in Process, Start(p) PROVE InHand'
  BY <1>1, Bounds, MatchesSome, Keys DEF Start, AskAll, SetTok, SetNxt,
      SetFlags, Attempt, StoreOK
<1>2. ASSUME NEW p \in Process, TakeLock(p) PROVE InHand'
  BY <1>2, Bounds, MatchesSome, Keys DEF TakeLock, TakeGlobalShared,
      TakeSession, TakeAll, SetTok, SetNxt, SetFlags, Attempt, StoreOK
<1>3. ASSUME NEW p \in Process, LockTimeout(p) PROVE InHand'
  BY <1>3, Bounds, MatchesSome, Keys DEF LockTimeout, AfterSaveLeaf,
      AfterDrop, Waiting, SetTok, SetNxt, SetFlags, Attempt, StoreOK
<1>4. ASSUME NEW p \in Process, ReadStored(p) PROVE InHand'
  BY <1>4, Bounds, MatchesSome, Keys DEF ReadStored, Stored, SetTok, SetNxt,
      SetFlags, Attempt, StoreOK
<1>5. ASSUME NEW p \in Process, Stamp(p) PROVE InHand'
  BY <1>5, Bounds, MatchesSome, Keys DEF Stamp, SetTok, SetNxt, SetFlags,
      Attempt, StoreOK
<1>6. ASSUME NEW p \in Process, StampWrite(p) PROVE InHand'
  BY <1>6, Bounds, MatchesSome, Keys DEF StampWrite, SetTok, SetNxt, SetFlags,
      Attempt, StoreOK, Tokens, TokenIds, Gens, Logins, IdsOK
<1>7. ASSUME NEW p \in Process, Cached(p) \/ LeafCached(p) PROVE InHand'
  BY <1>7, Bounds, MatchesSome, Keys DEF Cached, CacheHit, LeafCached, SetTok,
      SetNxt, SetFlags, Attempt, StoreOK
<1>8. ASSUME NEW p \in Process, UsableToken(p) PROVE InHand'
  BY <1>8, Bounds, MatchesSome, Keys DEF UsableToken, Long, Usable,
      Refreshable, SetTok, SetNxt, SetFlags, Attempt, StoreOK
<1>9. ASSUME NEW p \in Process, Mint(p) PROVE InHand'
  BY <1>9, Bounds, MatchesSome, Keys DEF Mint, SetTok, SetNxt, SetFlags,
      Attempt, StoreOK, RoleRecs, IdsOK, Tokens
<1>10. ASSUME NEW p \in Process, SaveLeaf(p) \/ SaveFinal(p) \/ Gateway(p) \/
    Evict(p) PROVE InHand'
  BY <1>10, Bounds, MatchesSome, Keys DEF SaveLeaf, SaveRole, AfterSaveLeaf,
      LeafKey, SaveFinal, Gateway, Evict, SetTok, SetNxt, SetFlags, Attempt,
      StoreOK
<1>11. ASSUME NEW p \in Process, AssumeHops(p) PROVE InHand'
  BY <1>11, Bounds, MatchesSome, Keys DEF AssumeHops, SetTok, SetNxt,
      SetFlags, Attempt, StoreOK, RoleRecs, IdsOK
<1>12. ASSUME NEW p \in Process, RefreshRead(p) PROVE InHand'
  BY <1>12, Bounds, MatchesSome, Keys DEF RefreshRead, AfterRefresh, SetTok,
      SetNxt, SetFlags, Attempt, StoreOK
<1>13. ASSUME NEW p \in Process, Redeem(p) PROVE InHand'
  BY <1>13, Bounds, MatchesSome, Keys DEF Redeem, AfterRefresh, SetTok,
      SetNxt, SetFlags, Attempt, StoreOK, Tokens, TokenIds, Gens, Logins,
      IdsOK
<1>14. ASSUME NEW p \in Process, Rotate(p) PROVE InHand'
  BY <1>14, Bounds, MatchesSome, Keys DEF Rotate, Retire, NoRoles, SetTok,
      SetNxt, SetFlags, Attempt, StoreOK, Tokens, TokenIds, Gens, Logins,
      IdsOK
<1>15. ASSUME NEW p \in Process, WriteRefreshed(p) PROVE InHand'
  BY <1>15, Bounds, MatchesSome, Keys DEF WriteRefreshed, AfterRefresh,
      SetTok, SetNxt, SetFlags, Attempt, StoreOK
<1>16. ASSUME NEW p \in Process, RejectTok(p) \/ DropTok(p) PROVE InHand'
  BY <1>16, Bounds, MatchesSome, Keys DEF RejectTok, DeleteTok, DropTok,
      SetTok, SetNxt, SetFlags, Attempt, StoreOK
<1>17. ASSUME NEW p \in Process, RejectRole(p) PROVE InHand'
  BY <1>17, Bounds, MatchesSome, Keys DEF RejectRole, NoRoles, AfterRefresh,
      SetTok, SetNxt, SetFlags, Attempt, StoreOK
<1>18. ASSUME NEW p \in Process, Drop(p) \/ DropRole(p) PROVE InHand'
  BY <1>18, Bounds, MatchesSome, Keys DEF Drop, AfterDrop, DropRole, NoRoles,
      SetTok, SetNxt, SetFlags, Attempt, StoreOK
<1>19. ASSUME NEW p \in Process, LoginRead(p) PROVE InHand'
  BY <1>19, Bounds, MatchesSome, Keys DEF LoginRead, Stored, SetTok, SetNxt,
      SetFlags, Attempt, StoreOK
<1>20. ASSUME NEW p \in Process, LoginBegin(p) PROVE InHand'
  BY <1>20, Bounds, MatchesSome, Keys DEF LoginBegin, LoginReturn, SetTok,
      SetNxt, SetFlags, Attempt, StoreOK
<1>21. ASSUME NEW p \in Process, Browser(p) PROVE InHand'
  BY <1>21, BrowserNxt DEF Browser, SetNxt
<1>22. ASSUME NEW p \in Process, SaveDiscard(p) PROVE InHand'
  BY <1>22, Bounds, MatchesSome, Keys DEF SaveDiscard, EndLogin, Mine, Wanted,
      SetTok, SetNxt, SetFlags, Attempt, StoreOK
<1>23. ASSUME NEW p \in Process, SaveRetire(p) PROVE InHand'
  BY <1>23, Bounds, MatchesSome, Keys DEF SaveRetire, Retire, NoRoles, Wanted,
      Mine, SetTok, SetNxt, SetFlags, Attempt, StoreOK, Tokens, TokenIds,
      Gens, Logins, IdsOK
<1>24. ASSUME NEW p \in Process, SaveWrite(p) \/ SaveEnd(p) PROVE InHand'
  BY <1>24, Bounds, MatchesSome, Keys DEF SaveWrite, SaveEnd, EndLogin,
      LoginReturn, Mine, SetTok, SetNxt, SetFlags, Attempt, StoreOK
<1>25. ASSUME NEW p \in Process, UnlockedEnd(p) PROVE InHand'
  BY <1>25, Bounds, MatchesSome, Keys DEF UnlockedEnd, UnlockedReturn,
      LoginReturn, Mine, Wanted, SetTok, SetNxt, SetFlags, Attempt, StoreOK
<1>26. ASSUME NEW p \in Process, UnlockedRm(p) PROVE InHand'
  BY <1>26, Bounds, MatchesSome, Keys DEF UnlockedRm, UnlockedReturn,
      LoginReturn, SetTok, SetNxt, SetFlags, Attempt, StoreOK
<1>27. ASSUME NEW p \in Process, Poll(p) PROVE InHand'
  BY <1>27, Bounds, MatchesSome, Keys DEF Poll, TakeStored, LoginReturn,
      SetTok, SetNxt, SetFlags, Attempt, StoreOK
<1>28. ASSUME NEW p \in Process, Peek(p) PROVE InHand'
  BY <1>28, Bounds, MatchesSome, Keys DEF Peek, MarkerLive, SetTok, SetNxt,
      SetFlags, Attempt, StoreOK
<1>29. ASSUME NEW p \in Process, Reread(p) PROVE InHand'
  BY <1>29, Bounds, MatchesSome, Keys DEF Reread, TakeStored, LoginReturn,
      SetTok, SetNxt, SetFlags, Attempt, StoreOK
<1>30. ASSUME NEW p \in Process, Discard(p) \/ DiscardWrite(p) PROVE InHand'
  BY <1>30, Bounds, MatchesSome, Keys DEF Discard, AfterDiscard, DiscardWrite,
      SetTok, SetNxt, SetFlags, Attempt, StoreOK
<1>31. ASSUME NEW p \in Process, ClearRole(p) \/ ClearTok(p) PROVE InHand'
  BY <1>31, Bounds, MatchesSome, Keys DEF ClearRole, ClearRoles, ClearEnds,
      NoRoles, ClearTok, ClearToken, SetTok, SetNxt, SetFlags, Attempt,
      StoreOK
<1>32. ASSUME NEW p \in Process, Crash(p) PROVE InHand'
  BY <1>32, Bounds, MatchesSome, Keys DEF Crash, SetTok, SetNxt, SetFlags,
      Attempt, StoreOK
<1>33. CASE AgeToken \/ AgeMarker \/ AwsCLI
  BY <1>33 DEF AgeToken, AgeMarker, AwsCLI, CLILogin, CLIRefresh, CLILogout
<1>34. CASE UNCHANGED vars
  BY <1>34 DEF vars
<1> QED
  BY <1>1, <1>2, <1>3, <1>4, <1>5, <1>6, <1>7, <1>8, <1>9, <1>10, <1>11,
      <1>12, <1>13, <1>14, <1>15, <1>16, <1>17, <1>18, <1>19, <1>20, <1>21,
      <1>22, <1>23, <1>24, <1>25, <1>26, <1>27, <1>28, <1>29, <1>30, <1>31,
      <1>32, <1>33, <1>34 DEF Next, Step, Retrieve, Refresh, Login, Clear,
      AllEnded

\* The initial states are well-typed.
LEMMA TypeInitially == Init => TypeInv
<1> SUFFICES ASSUME Init PROVE TypeInv
  OBVIOUS
<1> USE Bounds DEF Init, TypeInv, TypeOK
<1>1. ControlOK
  BY DEF LocksInit, ControlOK, LocksTypeOK, HoldStates, Pcs, OpenPcs
<1>2. StoreOK
  <2>1. [key |-> 1, gen |-> 1, of |-> 1] \in RoleRecs
    BY DEF RoleRecs, Gens, Logins
  <2>2. \A r \in {0, 1}, g \in {0, 1}, b \in BOOLEAN :
          [at |-> 1, rt |-> r, gen |-> g, of |-> 1, fits |-> b] \in Tokens
    BY DEF Tokens, TokenIds, Gens, Logins
  <2>3. token \in Tokens \cup {None}
    BY <2>2
  <2> QED
    BY <2>1, <2>3 DEF StoreOK
<1>3. WorkOK
  BY DEF WorkOK, Logins
<1>4. IdsOK
  BY DEF IdsOK, TokenIds, Gens, Logins
<1>5. EnvOK
  BY DEF EnvOK
<1>6. HistoryOK
  <2>1. 0 \in Logins /\ 1 \in Logins
    BY DEF Logins
  <2> QED
    BY <2>1 DEF HistoryOK
<1>7. InHand
  BY DEF InHand, TokPcs, NxtPcs, RecPcs
<1> QED
  BY <1>1, <1>2, <1>3, <1>4, <1>5, <1>6, <1>7

\* One inductive invariant of types.
LEMMA TypeStep == TypeInv /\ [Next]_vars => TypeInv'
  BY StoreStep, WorkStep, IdsStep, EnvStep, HistoryStep, ControlStep, InHandStep
  DEF TypeInv, TypeOK

(* Every variable keeps its type, and no step uses an absent token, record or
   role credential: the control flow of ssoprovider.go never reaches one. *)
THEOREM TypeCorrect == Spec => []TypeOK
<1>1. TypeInv => TypeOK
  BY DEF TypeInv
<1> QED
  BY <1>1, TypeInitially, TypeStep, PTL DEF Spec

-----------------------------------------------------------------------------
(* The critical sections.                                                   *)

Exclusion == GlobalAlone /\ SessionAlone
InnerPcs  == SectionPcs \ EntryPcs
Inside(p) == InSession(p) \/ InAll(p)

\* Past the entry of a critical section its lock is held.
Held == \A p \in Process : pc[p] \in InnerPcs => Inside(p)

LockInv == TypeInv /\ Exclusion /\ Held

\* All processes share one session, so two are never inside at once.
LEMMA OneInside ==
  ASSUME Exclusion, NEW p \in Process, NEW q \in Process, Inside(p), Inside(q)
  PROVE  p = q
  BY OneSession DEF Exclusion, GlobalAlone, SessionAlone, Inside, InSession, InAll

\* A process that gives its lock up, or only asks for one, excludes nobody less.
LEMMA LoosenLock ==
  ASSUME LocksTypeOK, Exclusion, NEW p \in Process,
         NEW h \in {"none", "wantGlobal", "wantAll"}, SetHold(p, h)
  PROVE  Exclusion'
  BY DEF LocksTypeOK, Exclusion, GlobalAlone, SessionAlone, SetHold

\* Every step of an invocation moves its lock as CredLocks allows.
LEMMA ExclusionStep == LockInv /\ [Next]_vars => Exclusion'
<1> SUFFICES ASSUME LockInv, [Next]_vars PROVE Exclusion'
  OBVIOUS
<1> USE DEF LockInv, TypeInv, TypeOK, ControlOK
<1>1. ASSUME NEW p \in Process, TakeLock(p) PROVE Exclusion'
  BY <1>1 DEF TakeLock, TakeGlobalShared, TakeSession, TakeAll, SetHold,
     GlobalSharedFree, SessionFree, GlobalExclusiveFree, LocksTypeOK,
     Exclusion, GlobalAlone, SessionAlone
<1>2. ASSUME NEW p \in Process, NEW l, To(p, l) PROVE Exclusion'
  BY <1>2, LoosenLock DEF To
<1>3. ASSUME NEW p \in Process, AskAll(p) PROVE Exclusion'
  BY <1>3, LoosenLock DEF AskAll
<1>4. CASE UNCHANGED hold
  BY <1>4 DEF Exclusion, GlobalAlone, SessionAlone
<1>5. ASSUME NEW p \in Process, Retrieve(p)
      PROVE  UNCHANGED hold \/ \E l : To(p, l)
  BY <1>5 DEF Retrieve, ReadStored, Stamp, StampWrite, Cached, LeafCached,
     UsableToken, Mint, SaveLeaf, SaveRole, AssumeHops, SaveFinal, Gateway, Evict,
     Stay
<1>6. ASSUME NEW p \in Process, Refresh(p)
      PROVE  UNCHANGED hold \/ \E l : To(p, l)
  BY <1>6 DEF Refresh, RefreshRead, Redeem, Rotate, Retire, WriteRefreshed,
     RejectTok, RejectRole, Drop, DropTok, DeleteTok, DropRole, Stay
<1>7. ASSUME NEW p \in Process, Login(p)
      PROVE  UNCHANGED hold \/ \E l : To(p, l)
  BY <1>7 DEF Login, LoginRead, LoginBegin, Browser, SaveDiscard, SaveRetire,
     Retire, SaveWrite, SaveEnd, UnlockedEnd, UnlockedRm, Poll, Peek, Reread,
     TakeStored, LoginReturn, UnlockedReturn, Stay
<1>8. ASSUME NEW p \in Process, Clear(p)
      PROVE  UNCHANGED hold \/ \E l : To(p, l)
  BY <1>8 DEF Clear, Discard, DiscardWrite, AfterDiscard, ClearRole, ClearTok,
     ClearEnds, Stay
<1>9. ASSUME NEW p \in Process, Start(p) \/ LockTimeout(p) \/ Crash(p)
      PROVE  AskAll(p) \/ \E l : To(p, l)
  BY <1>9 DEF Start, LockTimeout, Crash
<1>10. CASE AgeToken \/ AgeMarker \/ AwsCLI \/ UNCHANGED vars
  BY <1>4, <1>10 DEF AgeToken, AgeMarker, AwsCLI, vars
<1> QED
  BY <1>1, <1>2, <1>3, <1>4, <1>5, <1>6, <1>7, <1>8, <1>9, <1>10
  DEF Next, Step, AllEnded

\* No step goes past the entry of a critical section without its lock, or
\* keeps a lock it left the section of.
LEMMA HeldStep == LockInv /\ [Next]_vars => Held'
<1> SUFFICES ASSUME LockInv, [Next]_vars PROVE Held'
  OBVIOUS
<1> USE DEF LockInv, TypeInv, TypeOK, ControlOK, Held, To, Stay, At, SetHold,
    InnerPcs, Inside, InSession, InAll, SectionPcs, EntryPcs, LocksTypeOK
<1>1. ASSUME NEW p \in Process, Start(p) PROVE Held'
  BY <1>1 DEF Start, AskAll
<1>2. ASSUME NEW p \in Process, TakeLock(p) PROVE Held'
  BY <1>2 DEF TakeLock, TakeGlobalShared, TakeSession, TakeAll
<1>3. ASSUME NEW p \in Process, LockTimeout(p) PROVE Held'
  BY <1>3 DEF LockTimeout, AfterSaveLeaf, AfterDrop, Waiting
<1>4. ASSUME NEW p \in Process, ReadStored(p) PROVE Held'
  BY <1>4 DEF ReadStored, Stored
<1>5. ASSUME NEW p \in Process, Stamp(p) PROVE Held'
  BY <1>5 DEF Stamp
<1>6. ASSUME NEW p \in Process, StampWrite(p) PROVE Held'
  BY <1>6 DEF StampWrite
<1>7. ASSUME NEW p \in Process, Cached(p) \/ LeafCached(p) PROVE Held'
  BY <1>7 DEF Cached, CacheHit, LeafCached
<1>8. ASSUME NEW p \in Process, UsableToken(p) PROVE Held'
  BY <1>8 DEF UsableToken, Long, Usable, Refreshable
<1>9. ASSUME NEW p \in Process, Mint(p) PROVE Held'
  BY <1>9 DEF Mint
<1>10. ASSUME NEW p \in Process, SaveLeaf(p) \/ SaveFinal(p) \/ Gateway(p) \/
    Evict(p) PROVE Held'
  BY <1>10 DEF SaveLeaf, SaveRole, AfterSaveLeaf, LeafKey, SaveFinal, Gateway,
      Evict
<1>11. ASSUME NEW p \in Process, AssumeHops(p) PROVE Held'
  BY <1>11 DEF AssumeHops
<1>12. ASSUME NEW p \in Process, RefreshRead(p) PROVE Held'
  BY <1>12 DEF RefreshRead, AfterRefresh
<1>13. ASSUME NEW p \in Process, Redeem(p) PROVE Held'
  BY <1>13 DEF Redeem, AfterRefresh
<1>14. ASSUME NEW p \in Process, Rotate(p) PROVE Held'
  BY <1>14 DEF Rotate, Retire, NoRoles
<1>15. ASSUME NEW p \in Process, WriteRefreshed(p) PROVE Held'
  BY <1>15 DEF WriteRefreshed, AfterRefresh
<1>16. ASSUME NEW p \in Process, RejectTok(p) \/ DropTok(p) PROVE Held'
  BY <1>16 DEF RejectTok, DeleteTok, DropTok
<1>17. ASSUME NEW p \in Process, RejectRole(p) PROVE Held'
  BY <1>17 DEF RejectRole, NoRoles, AfterRefresh
<1>18. ASSUME NEW p \in Process, Drop(p) \/ DropRole(p) PROVE Held'
  BY <1>18 DEF Drop, AfterDrop, DropRole, NoRoles
<1>19. ASSUME NEW p \in Process, LoginRead(p) PROVE Held'
  BY <1>19 DEF LoginRead, Stored
<1>20. ASSUME NEW p \in Process, LoginBegin(p) PROVE Held'
  BY <1>20 DEF LoginBegin, LoginReturn
<1>21. ASSUME NEW p \in Process, Browser(p) PROVE Held'
  BY <1>21 DEF Browser
<1>22. ASSUME NEW p \in Process, SaveDiscard(p) PROVE Held'
  BY <1>22 DEF SaveDiscard, EndLogin, Mine, Wanted
<1>23. ASSUME NEW p \in Process, SaveRetire(p) PROVE Held'
  BY <1>23 DEF SaveRetire, Retire, NoRoles, Wanted, Mine
<1>24. ASSUME NEW p \in Process, SaveWrite(p) \/ SaveEnd(p) PROVE Held'
  BY <1>24 DEF SaveWrite, SaveEnd, EndLogin, LoginReturn, Mine
<1>25. ASSUME NEW p \in Process, UnlockedEnd(p) PROVE Held'
  BY <1>25 DEF UnlockedEnd, UnlockedReturn, LoginReturn, Mine, Wanted
<1>26. ASSUME NEW p \in Process, UnlockedRm(p) PROVE Held'
  BY <1>26 DEF UnlockedRm, UnlockedReturn, LoginReturn
<1>27. ASSUME NEW p \in Process, Poll(p) PROVE Held'
  BY <1>27 DEF Poll, TakeStored, LoginReturn
<1>28. ASSUME NEW p \in Process, Peek(p) PROVE Held'
  BY <1>28 DEF Peek, MarkerLive
<1>29. ASSUME NEW p \in Process, Reread(p) PROVE Held'
  BY <1>29 DEF Reread, TakeStored, LoginReturn
<1>30. ASSUME NEW p \in Process, Discard(p) \/ DiscardWrite(p) PROVE Held'
  BY <1>30 DEF Discard, AfterDiscard, DiscardWrite
<1>31. ASSUME NEW p \in Process, ClearRole(p) \/ ClearTok(p) PROVE Held'
  BY <1>31 DEF ClearRole, ClearRoles, ClearEnds, NoRoles, ClearTok, ClearToken
<1>32. ASSUME NEW p \in Process, Crash(p) PROVE Held'
  BY <1>32 DEF Crash
<1>33. CASE AgeToken \/ AgeMarker \/ AwsCLI
  BY <1>33 DEF AgeToken, AgeMarker, AwsCLI, CLILogin, CLIRefresh, CLILogout
<1>34. CASE UNCHANGED vars
  BY <1>34 DEF vars
<1> QED
  BY <1>1, <1>2, <1>3, <1>4, <1>5, <1>6, <1>7, <1>8, <1>9, <1>10, <1>11,
      <1>12, <1>13, <1>14, <1>15, <1>16, <1>17, <1>18, <1>19, <1>20, <1>21,
      <1>22, <1>23, <1>24, <1>25, <1>26, <1>27, <1>28, <1>29, <1>30, <1>31,
      <1>32, <1>33, <1>34 DEF Next, Step, Retrieve, Refresh, Login, Clear,
      AllEnded

-----------------------------------------------------------------------------
(* Generations.  A generation belongs to one login for good: every record    *)
(* that carries it descends from the login it was stamped for.               *)

From(r) == r.gen # 0 => r.gen <= nGen /\ lineage[r.gen] = r.of

FinishPcs == {"save", "unlockedEnd", "unlockedRm"}
UsePcs    == {"saveLeaf", "assume", "saveFinal", "issued"}

Lineage ==
  /\ token # None => From(token)
  /\ \A k \in CredKeys : role[k] # None => From(role[k])
  /\ \A p \in Process :
       /\ tok[p] # None => From(tok[p])
       /\ pc[p] \in NxtPcs \cup FinishPcs /\ nxt[p] # None => From(nxt[p])
       /\ rec[p] # None => From(rec[p])
       /\ pc[p] \in UsePcs => rec[p].of = tok[p].of

\* The absent value is no record.
LEMMA NoneApart == None \notin Tokens /\ None \notin RoleRecs /\ None \notin Markers
  BY DEF None, Tokens, RoleRecs, Markers

\* A new generation leaves the older ones with their logins.
LEMMA FromKept ==
  ASSUME TypeInv, nGen < MaxGens, nGen' = nGen + 1, NEW l,
         lineage' = [lineage EXCEPT ![nGen + 1] = l],
         NEW r \in Tokens \cup RoleRecs, From(r)
  PROVE  From(r)'
<1>1. r.gen \in Nat /\ r.gen \in Gens
  BY Bounds DEF Tokens, RoleRecs, Gens
<1>2. lineage \in [Gens -> Logins] /\ nGen \in Nat
  BY Bounds DEF TypeInv, TypeOK, HistoryOK, IdsOK, Gens
<1> QED
  BY <1>1, <1>2 DEF From

\* A record stamped with the new generation descends from its login.
LEMMA FromNew ==
  ASSUME TypeInv, nGen < MaxGens, nGen' = nGen + 1, NEW l,
         lineage' = [lineage EXCEPT ![nGen + 1] = l],
         NEW r, r.gen = nGen + 1, r.of = l
  PROVE  From(r)'
<1>1. nGen + 1 \in Gens /\ lineage \in [Gens -> Logins] /\ nGen \in Nat
  BY Bounds DEF TypeInv, TypeOK, HistoryOK, IdsOK, Gens
<1> QED
  BY <1>1 DEF From

\* One step that stamps the record at hand.
LEMMA Stamping ==
  ASSUME TypeInv, NEW p \in Process, nxt[p] \in Tokens, nGen < MaxGens,
         nGen' = nGen + 1, lineage' = [lineage EXCEPT ![nGen + 1] = nxt[p].of]
  PROVE  /\ \A r \in Tokens \cup RoleRecs : From(r) => From(r)'
         /\ \A r : r = [nxt[p] EXCEPT !.gen = nGen + 1] => From(r)'
<1>1. \A r \in Tokens \cup RoleRecs : From(r) => From(r)'
  BY FromKept
<1>2. ASSUME NEW r, r = [nxt[p] EXCEPT !.gen = nGen + 1] PROVE From(r)'
  <2>1. r.gen = nGen + 1 /\ r.of = nxt[p].of
    BY <1>2 DEF Tokens
  <2> QED
    BY <2>1, FromNew
<1> QED
  BY <1>1, <1>2

\* A refreshed token keeps the generation, for now, and the login.
LEMMA RedeemKeeps ==
  ASSUME TypeInv, NEW p \in Process, Redeem(p)
  PROVE  /\ nxt[p] \in Tokens
         /\ nxt'[p].gen = nxt[p].gen /\ nxt'[p].of = nxt[p].of
<1>1. nxt[p] \in Tokens /\ nxt \in [Process -> Tokens \cup Markers \cup {None}]
  BY DEF Redeem, At, TypeInv, TypeOK, WorkOK, InHand, NxtPcs
<1> DEFINE kept == [nxt[p] EXCEPT !.at = nTok + 1]
           rotated == [nxt[p] EXCEPT !.at = nTok + 1, !.rt = nTok + 1]
<1>2. /\ kept.gen = nxt[p].gen /\ kept.of = nxt[p].of
      /\ rotated.gen = nxt[p].gen /\ rotated.of = nxt[p].of
  BY <1>1 DEF Tokens
<1>3. nxt'[p] \in {nxt[p], kept, rotated}
  BY <1>1 DEF Redeem
<1> HIDE DEF kept, rotated
<1> QED
  BY <1>1, <1>2, <1>3

\* Every generation keeps its login, and every record that carries it.
LEMMA LineageStep == LockInv /\ Lineage /\ [Next]_vars => Lineage'
<1> SUFFICES ASSUME LockInv /\ Lineage, [Next]_vars PROVE Lineage'
  OBVIOUS
<1> USE DEF LockInv, TypeInv, TypeOK, ControlOK, WorkOK, StoreOK, Lineage, To,
    Stay, At, NxtPcs, FinishPcs, UsePcs, store, work, ids, history
<1>1. ASSUME NEW p \in Process, Start(p) PROVE Lineage'
  BY <1>1, Keys DEF Start, AskAll, SetTok, SetNxt, Attempt, From
<1>2. ASSUME NEW p \in Process, TakeLock(p) PROVE Lineage'
  BY <1>2, Keys DEF TakeLock, TakeGlobalShared, TakeSession, TakeAll, SetTok,
      SetNxt, Attempt, From
<1>3. ASSUME NEW p \in Process, LockTimeout(p) PROVE Lineage'
  BY <1>3, Keys DEF LockTimeout, AfterSaveLeaf, AfterDrop, Waiting, SetTok,
      SetNxt, Attempt, From
<1>4. ASSUME NEW p \in Process, ReadStored(p) PROVE Lineage'
  BY <1>4, Keys DEF ReadStored, Stored, SetTok, SetNxt, Attempt, From
<1>5. ASSUME NEW p \in Process, Stamp(p) PROVE Lineage'
  BY <1>5, Keys DEF Stamp, SetTok, SetNxt, Attempt, From
<1>6. ASSUME NEW p \in Process, StampWrite(p) PROVE Lineage'
  <2>1. nxt[p] \in Tokens /\ nGen < MaxGens /\ nGen' = nGen + 1
        /\ lineage' = [lineage EXCEPT ![nGen + 1] = nxt[p].of]
    BY <1>6 DEF StampWrite, Retire, InHand
  <2> QED
    BY <1>6, <2>1, Stamping, NoneApart DEF StampWrite, InHand, SetTok, Attempt
<1>7. ASSUME NEW p \in Process, Cached(p) \/ LeafCached(p) PROVE Lineage'
  BY <1>7, Keys, NoneApart DEF Cached, LeafCached, CacheHit, InHand, TokPcs, From
<1>8. ASSUME NEW p \in Process, UsableToken(p) PROVE Lineage'
  BY <1>8, Keys DEF UsableToken, Long, Usable, Refreshable, SetTok, SetNxt,
      Attempt, From
<1>9. ASSUME NEW p \in Process, Mint(p) PROVE Lineage'
  <2>1. tok[p] \in Tokens /\ tok[p] # None
    BY <1>9, NoneApart DEF Mint, InHand, TokPcs
  <2> QED
    BY <1>9, <2>1 DEF Mint, From
<1>10. ASSUME NEW p \in Process, SaveLeaf(p) \/ SaveFinal(p) PROVE Lineage'
  BY <1>10, Keys DEF SaveLeaf, SaveRole, AfterSaveLeaf, LeafKey, SaveFinal,
      SetTok, SetNxt, Attempt, From
<1>11. ASSUME NEW p \in Process, Gateway(p) PROVE Lineage'
  BY <1>11, Keys DEF Gateway, SetTok, SetNxt, Attempt, From
<1>12. ASSUME NEW p \in Process, Evict(p) PROVE Lineage'
  BY <1>12, Keys DEF Evict, SetTok, SetNxt, Attempt, From
<1>13. ASSUME NEW p \in Process, AssumeHops(p) PROVE Lineage'
  BY <1>13, NoneApart DEF AssumeHops, InHand, RecPcs, RoleRecs, From
<1>14. ASSUME NEW p \in Process, RefreshRead(p) PROVE Lineage'
  BY <1>14, Keys DEF RefreshRead, AfterRefresh, SetTok, SetNxt, Attempt, From
<1>15. ASSUME NEW p \in Process, Redeem(p) PROVE Lineage'
  <2>1. nxt[p] \in Tokens
    BY <1>15 DEF Redeem, InHand
  <2>2. nxt'[p].gen = nxt[p].gen /\ nxt'[p].of = nxt[p].of
    BY <1>15, RedeemKeeps
  <2>3. /\ \A q \in Process \ {p} : nxt'[q] = nxt[q] /\ pc'[q] = pc[q]
        /\ pc'[p] \notin UsePcs \cup FinishPcs
    BY <1>15 DEF Redeem, AfterRefresh
  <2>4. UNCHANGED <<token, role, tok, rec, nGen, lineage>>
    BY <1>15 DEF Redeem
  <2> QED
    BY <2>1, <2>2, <2>3, <2>4, NoneApart, <1>15 DEF Redeem, From
<1>16. ASSUME NEW p \in Process, Rotate(p) PROVE Lineage'
  <2>1. nxt[p] \in Tokens /\ nGen < MaxGens /\ nGen' = nGen + 1
        /\ lineage' = [lineage EXCEPT ![nGen + 1] = nxt[p].of]
    BY <1>16 DEF Rotate, Retire, InHand
  <2> QED
    BY <1>16, <2>1, Stamping, NoneApart DEF Rotate, InHand, Retire, Attempt, NoRoles
<1>17. ASSUME NEW p \in Process, WriteRefreshed(p) PROVE Lineage'
  BY <1>17, Keys DEF WriteRefreshed, AfterRefresh, SetTok, SetNxt, Attempt,
      From
<1>18. ASSUME NEW p \in Process, RejectTok(p) \/ DropTok(p) PROVE Lineage'
  BY <1>18, Keys DEF RejectTok, DeleteTok, DropTok, SetTok, SetNxt, Attempt,
      From
<1>19. ASSUME NEW p \in Process, RejectRole(p) PROVE Lineage'
  BY <1>19, Keys DEF RejectRole, NoRoles, AfterRefresh, SetTok, SetNxt,
      Attempt, From
<1>20. ASSUME NEW p \in Process, Drop(p) \/ DropRole(p) PROVE Lineage'
  BY <1>20, Keys DEF Drop, AfterDrop, DropRole, NoRoles, SetTok, SetNxt,
      Attempt, From
<1>21. ASSUME NEW p \in Process, LoginRead(p) PROVE Lineage'
  BY <1>21, Keys DEF LoginRead, Stored, SetTok, SetNxt, Attempt, From
<1>22. ASSUME NEW p \in Process, LoginBegin(p) PROVE Lineage'
  BY <1>22, Keys DEF LoginBegin, LoginReturn, SetTok, SetNxt, Attempt, From
<1>23. ASSUME NEW p \in Process, Browser(p) PROVE Lineage'
  BY <1>23 DEF Browser, SetNxt, From
<1>24. ASSUME NEW p \in Process, SaveDiscard(p) PROVE Lineage'
  BY <1>24, Keys DEF SaveDiscard, EndLogin, Mine, Wanted, SetTok, SetNxt,
      Attempt, From
<1>25. ASSUME NEW p \in Process, SaveRetire(p) PROVE Lineage'
  <2>1. nxt[p] \in Tokens /\ nGen < MaxGens /\ nGen' = nGen + 1
        /\ lineage' = [lineage EXCEPT ![nGen + 1] = nxt[p].of]
    BY <1>25 DEF SaveRetire, Retire, InHand
  <2> QED
    BY <1>25, <2>1, Stamping, NoneApart DEF SaveRetire, InHand, Retire, Attempt, NoRoles
<1>26. ASSUME NEW p \in Process, SaveWrite(p) \/ SaveEnd(p) PROVE Lineage'
  BY <1>26, Keys DEF SaveWrite, SaveEnd, EndLogin, LoginReturn, Mine, SetTok,
      SetNxt, Attempt, From
<1>27. ASSUME NEW p \in Process, UnlockedEnd(p) PROVE Lineage'
  BY <1>27, Keys DEF UnlockedEnd, UnlockedReturn, LoginReturn, Mine, Wanted,
      SetTok, SetNxt, Attempt, From
<1>28. ASSUME NEW p \in Process, UnlockedRm(p) PROVE Lineage'
  BY <1>28, Keys DEF UnlockedRm, UnlockedReturn, LoginReturn, SetTok, SetNxt,
      Attempt, From
<1>29. ASSUME NEW p \in Process, Poll(p) PROVE Lineage'
  BY <1>29, Keys DEF Poll, TakeStored, LoginReturn, SetTok, SetNxt, Attempt,
      From
<1>30. ASSUME NEW p \in Process, Peek(p) PROVE Lineage'
  BY <1>30, Keys DEF Peek, MarkerLive, SetTok, SetNxt, Attempt, From
<1>31. ASSUME NEW p \in Process, Reread(p) PROVE Lineage'
  BY <1>31, Keys DEF Reread, TakeStored, LoginReturn, SetTok, SetNxt, Attempt,
      From
<1>32. ASSUME NEW p \in Process, Discard(p) \/ DiscardWrite(p) PROVE Lineage'
  BY <1>32, Keys DEF Discard, AfterDiscard, DiscardWrite, SetTok, SetNxt,
      Attempt, From
<1>33. ASSUME NEW p \in Process, ClearRole(p) \/ ClearTok(p) PROVE Lineage'
  BY <1>33, Keys DEF ClearRole, ClearRoles, ClearEnds, NoRoles, ClearTok,
      ClearToken, SetTok, SetNxt, Attempt, From
<1>34. ASSUME NEW p \in Process, Crash(p) PROVE Lineage'
  BY <1>34, Keys DEF Crash, SetTok, SetNxt, Attempt, From
<1>35. CASE AgeToken \/ AgeMarker
  BY <1>35, Keys DEF AgeToken, AgeMarker, SetTok, SetNxt, Attempt, From
<1>36. CASE AwsCLI
  <2>1. token' # None => From(token')
    <3>1. CASE CLILogin
      BY <3>1 DEF CLILogin, From
    <3>2. CASE CLIRefresh
      <4>1. token \in Tokens
        BY <3>2 DEF CLIRefresh
      <4>2. token'.gen = 0
        <5> DEFINE kept == [token EXCEPT !.at = nTok + 1, !.gen = 0]
                   rotated == [token EXCEPT !.at = nTok + 1, !.rt = nTok + 1,
                                            !.gen = 0]
        <5>1. kept.gen = 0 /\ rotated.gen = 0
          BY <4>1 DEF Tokens
        <5>2. token' \in {kept, rotated}
          BY <3>2 DEF CLIRefresh
        <5> HIDE DEF kept, rotated
        <5> QED
          BY <5>1, <5>2
      <4> QED
        BY <4>2 DEF From
    <3>3. CASE CLILogout
      BY <3>3 DEF CLILogout
    <3> QED
      BY <1>36, <3>1, <3>2, <3>3 DEF AwsCLI
  <2> QED
    BY <1>36, <2>1 DEF AwsCLI, From
<1>37. CASE UNCHANGED vars
  BY <1>37 DEF vars, From
<1> QED
  BY <1>1, <1>2, <1>3, <1>4, <1>5, <1>6, <1>7, <1>8, <1>9, <1>10, <1>11,
      <1>12, <1>13, <1>14, <1>15, <1>16, <1>17, <1>18, <1>19, <1>20, <1>21,
      <1>22, <1>23, <1>24, <1>25, <1>26, <1>27, <1>28, <1>29, <1>30, <1>31,
      <1>32, <1>33, <1>34, <1>35, <1>36, <1>37 DEF Next, Step, Retrieve,
      Refresh, Login, Clear, AllEnded

-----------------------------------------------------------------------------
(* The last clear, and what may still be written.                           *)

WritePcs == {"stampWrite", "redeem", "rotate", "write", "saveWrite"}
ClearPcs == {"clearRole", "clearTok", "lastRole", "lastTok"}

\* Stored: nothing from before the last clear, nor a login whose result would be
\* saved.
StoredSince ==
  /\ cut <= nLogin
  /\ NoResurrection
  /\ marker # None /\ ~marker.discard => marker.id > cut

\* In the hands of whoever is inside: a record of a later login, and a browser
\* login's own token until the marker is checked.
InHandSince ==
  \A p \in Process :
    /\ pc[p] \in WritePcs => nxt[p].of > cut
    /\ pc[p] \in {"save", "saveWrite"} /\ nxt[p] # None => nxt[p].of = login[p]

\* A clear on its way, as long as nothing failed in it.
Clearing ==
  \A p \in Process :
    /\ pc[p] \in ClearPcs \cup {"discardWrite"} => login[p] <= nLogin
    /\ "failed" \notin flag[p] =>
         /\ pc[p] \in ClearPcs => marker = None \/ marker.discard
         /\ pc[p] = "lastTok" => role = NoRoles
         /\ pc[p] = "lastRole" /\ token # None => token.of > login[p]

ClearInv == StoredSince /\ InHandSince /\ Clearing
SafeInv == LockInv /\ Lineage /\ ClearInv

\* Whoever writes or clears does so alone.
LEMMA AloneInside ==
  ASSUME LockInv, NEW p \in Process, Inside(p)
  PROVE  \A q \in Process :
           pc[q] \in WritePcs \cup ClearPcs \cup {"discardWrite"} => q = p
<1>1. WritePcs \cup ClearPcs \cup {"discardWrite"} \subseteq InnerPcs
  BY DEF WritePcs, ClearPcs, InnerPcs, SectionPcs, EntryPcs
<1> QED
  BY <1>1, OneInside DEF LockInv, Held

\* The AWS CLI's refresh keeps the login.
LEMMA RefreshedByCLI ==
  ASSUME StoreOK, CLIRefresh
  PROVE  token # None /\ token'.of = token.of
<1>1. token \in Tokens /\ token # None
  BY DEF CLIRefresh, StoreOK
<1> DEFINE kept == [token EXCEPT !.at = nTok + 1, !.gen = 0]
           rotated == [token EXCEPT !.at = nTok + 1, !.rt = nTok + 1, !.gen = 0]
<1>2. kept.of = token.of /\ rotated.of = token.of
  BY <1>1 DEF Tokens
<1>3. token' \in {kept, rotated}
  BY DEF CLIRefresh
<1> HIDE DEF kept, rotated
<1> QED
  BY <1>1, <1>2, <1>3

\* While another process is inside, no clear is on its way.
LEMMA NobodyClears ==
  ASSUME SafeInv, NEW p \in Process, Inside(p),
         \A q \in Process \ {p} : pc'[q] = pc[q],
         pc'[p] \notin ClearPcs \cup {"discardWrite"}
  PROVE  Clearing'
<1>1. \A q \in Process : pc'[q] \notin ClearPcs \cup {"discardWrite"}
  BY AloneInside DEF SafeInv
<1> QED
  BY <1>1 DEF Clearing, ClearPcs

\* No step stores anything from before the last clear, nor does a clear end
\* well over anything it should have removed.
LEMMA SinceStep == SafeInv /\ [Next]_vars => StoredSince'
<1> SUFFICES ASSUME SafeInv, [Next]_vars PROVE StoredSince'
  OBVIOUS
<1> USE DEF SafeInv, LockInv, TypeInv, TypeOK, ControlOK, WorkOK, StoreOK,
    ClearInv, StoredSince, NoResurrection, store, ids, history
<1>1. ASSUME NEW p \in Process, StampWrite(p) PROVE StoredSince'
  BY <1>1, Keys, NoneApart DEF StampWrite, InHandSince, WritePcs, Attempt, At,
      InHand, NxtPcs, Tokens
<1>2. ASSUME NEW p \in Process, SaveLeaf(p) \/ SaveFinal(p) PROVE StoredSince'
  BY <1>2, Keys, NoneApart DEF SaveLeaf, SaveRole, AfterSaveLeaf, LeafKey,
      SaveFinal, Lineage, From, InHand, Attempt, At, RecPcs
<1>3. ASSUME NEW p \in Process, Evict(p) PROVE StoredSince'
  BY <1>3, Keys, NoneApart DEF Evict, Attempt
<1>4. ASSUME NEW p \in Process, Rotate(p) \/ RejectRole(p) \/ DropRole(p)
    PROVE StoredSince'
  BY <1>4, Keys, NoneApart DEF Rotate, Retire, NoRoles, RejectRole,
      AfterRefresh, DropRole, AfterDrop, Attempt
<1>5. ASSUME NEW p \in Process, WriteRefreshed(p) \/ SaveWrite(p) PROVE
    StoredSince'
  BY <1>5, Keys, NoneApart DEF WriteRefreshed, AfterRefresh, SaveWrite,
      Attempt, At, InHandSince, WritePcs
<1>6. ASSUME NEW p \in Process, RejectTok(p) \/ DropTok(p) PROVE StoredSince'
  BY <1>6, Keys, NoneApart DEF RejectTok, DeleteTok, DropTok, Attempt
<1>7. ASSUME NEW p \in Process, LoginBegin(p) PROVE StoredSince'
  BY <1>7, Keys, NoneApart DEF LoginBegin, LoginReturn, IdsOK, HistoryOK,
      Logins
<1>8. ASSUME NEW p \in Process, SaveDiscard(p) \/ SaveEnd(p) \/ UnlockedRm(p)
    PROVE StoredSince'
  BY <1>8, Keys, NoneApart DEF SaveDiscard, EndLogin, Mine, Wanted, SaveEnd,
      LoginReturn, UnlockedRm, UnlockedReturn, Attempt
<1>9. ASSUME NEW p \in Process, SaveRetire(p) PROVE StoredSince'
  BY <1>9, Keys, NoneApart DEF SaveRetire, Retire, NoRoles, Wanted, Mine,
      Attempt
<1>10. ASSUME NEW p \in Process, DiscardWrite(p) PROVE StoredSince'
  BY <1>10, Keys, NoneApart DEF DiscardWrite, AfterDiscard, At, InHand,
      Markers
<1>11. ASSUME NEW p \in Process, ClearRole(p) PROVE StoredSince'
  <2>1. /\ UNCHANGED <<token, marker, login, nLogin>>
        /\ role' = NoRoles \/ UNCHANGED role
    BY <1>11 DEF ClearRole, ClearRoles
  <2>2. CASE UNCHANGED cut
    BY <2>1, <2>2 DEF NoRoles
  <2>3. CASE cut' = login[p] /\ cut' # cut
    <3>1. pc[p] = "lastRole" /\ "failed" \notin flag'[p] /\ ClearRoles(p)
      BY <1>11, <2>3 DEF ClearRole, ClearEnds, At
    <3>4. "failed" \notin flag[p] /\ role' = NoRoles
      BY <3>1 DEF ClearRoles, SetFlags
    <3>2. /\ token # None => token.of > login[p]
          /\ marker = None \/ marker.discard
          /\ login[p] <= nLogin
      BY <3>1, <3>4 DEF Clearing, ClearPcs
    <3> QED
      BY <2>1, <2>3, <3>4, <3>2 DEF NoRoles
  <2> QED
    BY <1>11, <2>2, <2>3 DEF ClearRole, ClearEnds
<1>12. ASSUME NEW p \in Process, ClearTok(p) PROVE StoredSince'
  <2>1. /\ UNCHANGED <<role, marker, login, nLogin>>
        /\ token' = None \/ UNCHANGED token
    BY <1>12 DEF ClearTok, ClearToken
  <2>2. CASE UNCHANGED cut
    BY <2>1, <2>2
  <2>3. CASE cut' = login[p] /\ cut' # cut
    <3>1. pc[p] = "lastTok" /\ "failed" \notin flag'[p] /\ ClearToken(p)
      BY <1>12, <2>3 DEF ClearTok, ClearEnds, At
    <3>4. "failed" \notin flag[p] /\ token' = None
      BY <3>1 DEF ClearToken, SetFlags
    <3>2. /\ role = NoRoles
          /\ marker = None \/ marker.discard
          /\ login[p] <= nLogin
      BY <3>1, <3>4 DEF Clearing, ClearPcs
    <3> QED
      BY <2>1, <2>3, <3>4, <3>2 DEF NoRoles
  <2> QED
    BY <1>12, <2>2, <2>3 DEF ClearTok, ClearEnds
<1>13. CASE AwsCLI
  <2>1. CASE CLILogin
    <3>1. token'.of = nLogin + 1 /\ nLogin' = nLogin + 1
      BY <2>1 DEF CLILogin
    <3> QED
      BY <1>13, <3>1 DEF AwsCLI, IdsOK, HistoryOK, Logins
  <2>2. CASE CLIRefresh
    BY <1>13, <2>2, RefreshedByCLI DEF AwsCLI, CLIRefresh
  <2>3. CASE CLILogout
    BY <1>13, <2>3 DEF AwsCLI, CLILogout
  <2> QED
    BY <1>13, <2>1, <2>2, <2>3 DEF AwsCLI
<1>14. ASSUME NEW p \in Process, Start(p) \/ TakeLock(p) \/ LockTimeout(p) \/
    ReadStored(p) \/ Stamp(p) \/ Cached(p) \/ LeafCached(p) \/ UsableToken(p)
    \/ Mint(p) \/ AssumeHops(p) \/ Gateway(p) \/ RefreshRead(p) \/ Redeem(p)
    \/ Drop(p) \/ LoginRead(p) \/ Browser(p) \/ UnlockedEnd(p) \/ Poll(p) \/
    Peek(p) \/ Reread(p) \/ Discard(p) \/ Crash(p) PROVE StoredSince'
  BY <1>14 DEF Start, AskAll, TakeLock, TakeGlobalShared, TakeSession,
      TakeAll, LockTimeout, ReadStored, Stamp, Cached, LeafCached,
      UsableToken, Mint, AssumeHops, Gateway, RefreshRead, Redeem, Drop,
      LoginRead, Browser, UnlockedEnd, UnlockedReturn, LoginReturn, Poll,
      TakeStored, Peek, Reread, Discard, AfterDiscard, Crash
<1>15. CASE AgeToken \/ AgeMarker
  BY <1>15 DEF AgeToken, AgeMarker
<1>16. CASE UNCHANGED vars
  BY <1>16 DEF vars
<1> QED
  BY <1>1, <1>2, <1>3, <1>4, <1>5, <1>6, <1>7, <1>8, <1>9, <1>10, <1>11,
      <1>12, <1>13, <1>14, <1>15, <1>16 DEF Next, Step, Retrieve, Refresh,
      Login, Clear, AllEnded

\* No step takes a record from before the last clear in hand to write it.
LEMMA InHandSinceStep == SafeInv /\ [Next]_vars => InHandSince'
<1> SUFFICES ASSUME SafeInv, [Next]_vars PROVE InHandSince'
  OBVIOUS
<1> USE DEF SafeInv, LockInv, TypeInv, TypeOK, ControlOK, WorkOK, StoreOK,
    ClearInv, InHandSince, To, Stay, At, WritePcs, work, store, history
<1>1. ASSUME NEW p \in Process, Start(p) PROVE InHandSince'
  BY <1>1, NoneApart DEF Start, AskAll, SetTok, SetNxt, Attempt, StoredSince,
      NoResurrection, InHand, NxtPcs
<1>2. ASSUME NEW p \in Process, TakeLock(p) PROVE InHandSince'
  BY <1>2, NoneApart DEF TakeLock, TakeGlobalShared, TakeSession, TakeAll,
      SetTok, SetNxt, Attempt, StoredSince, NoResurrection, InHand, NxtPcs
<1>3. ASSUME NEW p \in Process, LockTimeout(p) PROVE InHandSince'
  BY <1>3, NoneApart DEF LockTimeout, AfterSaveLeaf, AfterDrop, Waiting,
      SetTok, SetNxt, Attempt, StoredSince, NoResurrection, InHand, NxtPcs
<1>4. ASSUME NEW p \in Process, ReadStored(p) PROVE InHandSince'
  BY <1>4, NoneApart DEF ReadStored, Stored, SetTok, SetNxt, Attempt,
      StoredSince, NoResurrection, InHand, NxtPcs
<1>5. ASSUME NEW p \in Process, Stamp(p) PROVE InHandSince'
  BY <1>5, MatchesSome DEF Stamp, SetTok, SetNxt, StoredSince, NoResurrection
<1>6. ASSUME NEW p \in Process, StampWrite(p) PROVE InHandSince'
  BY <1>6, NoneApart DEF StampWrite, SetTok, SetNxt, Attempt, StoredSince,
      NoResurrection, InHand, NxtPcs
<1>7. ASSUME NEW p \in Process, Cached(p) \/ LeafCached(p) PROVE InHandSince'
  BY <1>7, NoneApart DEF Cached, CacheHit, LeafCached, SetTok, SetNxt,
      Attempt, StoredSince, NoResurrection, InHand, NxtPcs
<1>8. ASSUME NEW p \in Process, UsableToken(p) PROVE InHandSince'
  BY <1>8, NoneApart DEF UsableToken, Long, Usable, Refreshable, SetTok,
      SetNxt, Attempt, StoredSince, NoResurrection, InHand, NxtPcs
<1>9. ASSUME NEW p \in Process, Mint(p) PROVE InHandSince'
  BY <1>9, NoneApart DEF Mint, SetTok, SetNxt, Attempt, StoredSince,
      NoResurrection, InHand, NxtPcs
<1>10. ASSUME NEW p \in Process, SaveLeaf(p) \/ SaveFinal(p) PROVE
    InHandSince'
  BY <1>10, NoneApart DEF SaveLeaf, SaveRole, AfterSaveLeaf, LeafKey,
      SaveFinal, SetTok, SetNxt, Attempt, StoredSince, NoResurrection, InHand,
      NxtPcs
<1>11. ASSUME NEW p \in Process, Gateway(p) PROVE InHandSince'
  BY <1>11, NoneApart DEF Gateway, SetTok, SetNxt, Attempt, StoredSince,
      NoResurrection, InHand, NxtPcs
<1>12. ASSUME NEW p \in Process, Evict(p) PROVE InHandSince'
  BY <1>12, NoneApart DEF Evict, SetTok, SetNxt, Attempt, StoredSince,
      NoResurrection, InHand, NxtPcs
<1>13. ASSUME NEW p \in Process, AssumeHops(p) PROVE InHandSince'
  BY <1>13, NoneApart DEF AssumeHops, SetTok, SetNxt, Attempt, StoredSince,
      NoResurrection, InHand, NxtPcs
<1>14. ASSUME NEW p \in Process, RefreshRead(p) PROVE InHandSince'
  BY <1>14, MatchesSome DEF RefreshRead, AfterRefresh, SetTok, SetNxt, StoredSince,
     NoResurrection
<1>15. ASSUME NEW p \in Process, Redeem(p) PROVE InHandSince'
  BY <1>15, RedeemKeeps DEF Redeem, AfterRefresh
<1>16. ASSUME NEW p \in Process, Rotate(p) PROVE InHandSince'
  BY <1>16, NoneApart DEF Rotate, Retire, NoRoles, SetTok, SetNxt, Attempt,
      StoredSince, NoResurrection, InHand, NxtPcs
<1>17. ASSUME NEW p \in Process, WriteRefreshed(p) PROVE InHandSince'
  BY <1>17, NoneApart DEF WriteRefreshed, AfterRefresh, SetTok, SetNxt,
      Attempt, StoredSince, NoResurrection, InHand, NxtPcs
<1>18. ASSUME NEW p \in Process, RejectTok(p) \/ DropTok(p) PROVE InHandSince'
  BY <1>18, NoneApart DEF RejectTok, DeleteTok, DropTok, SetTok, SetNxt,
      Attempt, StoredSince, NoResurrection, InHand, NxtPcs
<1>19. ASSUME NEW p \in Process, RejectRole(p) PROVE InHandSince'
  BY <1>19, NoneApart DEF RejectRole, NoRoles, AfterRefresh, SetTok, SetNxt,
      Attempt, StoredSince, NoResurrection, InHand, NxtPcs
<1>20. ASSUME NEW p \in Process, Drop(p) \/ DropRole(p) PROVE InHandSince'
  BY <1>20, NoneApart DEF Drop, AfterDrop, DropRole, NoRoles, SetTok, SetNxt,
      Attempt, StoredSince, NoResurrection, InHand, NxtPcs
<1>21. ASSUME NEW p \in Process, LoginRead(p) PROVE InHandSince'
  BY <1>21, NoneApart DEF LoginRead, Stored, SetTok, SetNxt, Attempt,
      StoredSince, NoResurrection, InHand, NxtPcs
<1>22. ASSUME NEW p \in Process, LoginBegin(p) PROVE InHandSince'
  BY <1>22, NoneApart DEF LoginBegin, LoginReturn, SetTok, SetNxt, Attempt,
      StoredSince, NoResurrection, InHand, NxtPcs
<1>23. ASSUME NEW p \in Process, Browser(p) PROVE InHandSince'
  BY <1>23, NoneApart DEF Browser, SetTok, SetNxt, Attempt, StoredSince,
      NoResurrection, InHand, NxtPcs
<1>24. ASSUME NEW p \in Process, SaveDiscard(p) PROVE InHandSince'
  BY <1>24, NoneApart DEF SaveDiscard, EndLogin, Mine, Wanted, SetTok, SetNxt,
      Attempt, StoredSince, NoResurrection, InHand, NxtPcs
<1>25. ASSUME NEW p \in Process, SaveRetire(p) PROVE InHandSince'
  BY <1>25, NoneApart DEF SaveRetire, Retire, NoRoles, Wanted, Mine, SetTok,
      SetNxt, Attempt, StoredSince, NoResurrection, InHand, NxtPcs
<1>26. ASSUME NEW p \in Process, SaveWrite(p) \/ SaveEnd(p) PROVE InHandSince'
  BY <1>26, NoneApart DEF SaveWrite, SaveEnd, EndLogin, LoginReturn, Mine,
      SetTok, SetNxt, Attempt, StoredSince, NoResurrection, InHand, NxtPcs
<1>27. ASSUME NEW p \in Process, UnlockedEnd(p) PROVE InHandSince'
  BY <1>27, NoneApart DEF UnlockedEnd, UnlockedReturn, LoginReturn, Mine,
      Wanted, SetTok, SetNxt, Attempt, StoredSince, NoResurrection, InHand,
      NxtPcs
<1>28. ASSUME NEW p \in Process, UnlockedRm(p) PROVE InHandSince'
  BY <1>28, NoneApart DEF UnlockedRm, UnlockedReturn, LoginReturn, SetTok,
      SetNxt, Attempt, StoredSince, NoResurrection, InHand, NxtPcs
<1>29. ASSUME NEW p \in Process, Poll(p) PROVE InHandSince'
  BY <1>29, NoneApart DEF Poll, TakeStored, LoginReturn, SetTok, SetNxt,
      Attempt, StoredSince, NoResurrection, InHand, NxtPcs
<1>30. ASSUME NEW p \in Process, Peek(p) PROVE InHandSince'
  BY <1>30, NoneApart DEF Peek, MarkerLive, SetTok, SetNxt, Attempt,
      StoredSince, NoResurrection, InHand, NxtPcs
<1>31. ASSUME NEW p \in Process, Reread(p) PROVE InHandSince'
  BY <1>31, NoneApart DEF Reread, TakeStored, LoginReturn, SetTok, SetNxt,
      Attempt, StoredSince, NoResurrection, InHand, NxtPcs
<1>32. ASSUME NEW p \in Process, Discard(p) \/ DiscardWrite(p) PROVE
    InHandSince'
  BY <1>32, NoneApart DEF Discard, AfterDiscard, DiscardWrite, SetTok, SetNxt,
      Attempt, StoredSince, NoResurrection, InHand, NxtPcs
<1>33. ASSUME NEW p \in Process, ClearRole(p) PROVE InHandSince'
  <2>1. \A q \in Process : pc[q] \in WritePcs => q = p
    <3>1. Inside(p)
      BY <1>33 DEF ClearRole, SectionPcs, EntryPcs, Inside
    <3> QED
      BY <3>1, AloneInside
  <2> QED
    BY <1>33, <2>1 DEF ClearRole, ClearEnds
<1>34. ASSUME NEW p \in Process, ClearTok(p) PROVE InHandSince'
  <2>1. \A q \in Process : pc[q] \in WritePcs => q = p
    <3>1. Inside(p)
      BY <1>34 DEF ClearTok, SectionPcs, EntryPcs, Inside
    <3> QED
      BY <3>1, AloneInside
  <2> QED
    BY <1>34, <2>1 DEF ClearTok, ClearEnds
<1>35. ASSUME NEW p \in Process, Crash(p) PROVE InHandSince'
  BY <1>35, NoneApart DEF Crash, SetTok, SetNxt, Attempt, StoredSince,
      NoResurrection, InHand, NxtPcs
<1>36. CASE AgeToken \/ AgeMarker
  BY <1>36, NoneApart DEF AgeToken, AgeMarker, SetTok, SetNxt, Attempt,
      StoredSince, NoResurrection, InHand, NxtPcs
<1>37. CASE AwsCLI
  BY <1>37, NoneApart DEF AwsCLI, CLILogin, CLIRefresh, CLILogout, SetTok,
      SetNxt, Attempt, StoredSince, NoResurrection, InHand, NxtPcs
<1>38. CASE UNCHANGED vars
  BY <1>38 DEF vars
<1> QED
  BY <1>1, <1>2, <1>3, <1>4, <1>5, <1>6, <1>7, <1>8, <1>9, <1>10, <1>11,
      <1>12, <1>13, <1>14, <1>15, <1>16, <1>17, <1>18, <1>19, <1>20, <1>21,
      <1>22, <1>23, <1>24, <1>25, <1>26, <1>27, <1>28, <1>29, <1>30, <1>31,
      <1>32, <1>33, <1>34, <1>35, <1>36, <1>37, <1>38 DEF Next, Step,
      Retrieve, Refresh, Login, Clear, AllEnded

\* No step puts back what a clear under way has removed.
LEMMA ClearingStep == SafeInv /\ [Next]_vars => Clearing'
<1> SUFFICES ASSUME SafeInv, [Next]_vars PROVE Clearing'
  OBVIOUS
<1> USE DEF SafeInv, LockInv, TypeInv, TypeOK, ControlOK, WorkOK, StoreOK,
    ClearInv, Clearing, To, Stay, At, ClearPcs, work, store, ids
<1>1. ASSUME NEW p \in Process, Start(p) PROVE Clearing'
  BY <1>1, NoneApart DEF Start, AskAll, SetTok, SetNxt, SetFlags, Attempt
<1>2. ASSUME NEW p \in Process, TakeLock(p) PROVE Clearing'
  BY <1>2, NoneApart DEF TakeLock, TakeGlobalShared, TakeSession, TakeAll,
      SetTok, SetNxt, SetFlags, Attempt
<1>3. ASSUME NEW p \in Process, LockTimeout(p) PROVE Clearing'
  BY <1>3, NoneApart DEF LockTimeout, AfterSaveLeaf, AfterDrop, Waiting,
      SetTok, SetNxt, SetFlags, Attempt
<1>4. ASSUME NEW p \in Process, ReadStored(p) PROVE Clearing'
  BY <1>4, NoneApart DEF ReadStored, Stored, SetTok, SetNxt, SetFlags, Attempt
<1>5. ASSUME NEW p \in Process, Stamp(p) PROVE Clearing'
  BY <1>5, NoneApart DEF Stamp, SetTok, SetNxt, SetFlags, Attempt
<1>6. ASSUME NEW p \in Process, StampWrite(p) PROVE Clearing'
  <2>1. Inside(p)
    BY <1>6 DEF StampWrite, SectionPcs, EntryPcs, Inside
  <2>2. /\ \A q \in Process \ {p} : pc'[q] = pc[q]
        /\ pc'[p] \notin ClearPcs \cup {"discardWrite"}
    BY <1>6 DEF StampWrite
  <2> QED
    BY <2>1, <2>2, NobodyClears
<1>7. ASSUME NEW p \in Process, Cached(p) \/ LeafCached(p) PROVE Clearing'
  BY <1>7, NoneApart DEF Cached, CacheHit, LeafCached, SetTok, SetNxt,
      SetFlags, Attempt
<1>8. ASSUME NEW p \in Process, UsableToken(p) PROVE Clearing'
  BY <1>8, NoneApart DEF UsableToken, Long, Usable, Refreshable, SetTok,
      SetNxt, SetFlags, Attempt
<1>9. ASSUME NEW p \in Process, Mint(p) PROVE Clearing'
  BY <1>9, NoneApart DEF Mint, SetTok, SetNxt, SetFlags, Attempt
<1>10. ASSUME NEW p \in Process, SaveLeaf(p) \/ SaveFinal(p) PROVE Clearing'
  <2>1. Inside(p)
    BY <1>10 DEF SaveLeaf, SaveFinal, SaveRole, AfterSaveLeaf, SectionPcs, EntryPcs, Inside
  <2>2. /\ \A q \in Process \ {p} : pc'[q] = pc[q]
        /\ pc'[p] \notin ClearPcs \cup {"discardWrite"}
    BY <1>10 DEF SaveLeaf, SaveFinal, SaveRole, AfterSaveLeaf
  <2> QED
    BY <2>1, <2>2, NobodyClears
<1>11. ASSUME NEW p \in Process, Gateway(p) PROVE Clearing'
  BY <1>11, NoneApart DEF Gateway, SetTok, SetNxt, SetFlags, Attempt
<1>12. ASSUME NEW p \in Process, Evict(p) PROVE Clearing'
  <2>1. Inside(p)
    BY <1>12 DEF Evict, SectionPcs, EntryPcs, Inside
  <2>2. /\ \A q \in Process \ {p} : pc'[q] = pc[q]
        /\ pc'[p] \notin ClearPcs \cup {"discardWrite"}
    BY <1>12 DEF Evict
  <2> QED
    BY <2>1, <2>2, NobodyClears
<1>13. ASSUME NEW p \in Process, AssumeHops(p) PROVE Clearing'
  BY <1>13, NoneApart DEF AssumeHops, SetTok, SetNxt, SetFlags, Attempt
<1>14. ASSUME NEW p \in Process, RefreshRead(p) PROVE Clearing'
  BY <1>14, NoneApart DEF RefreshRead, AfterRefresh, SetTok, SetNxt, SetFlags,
      Attempt
<1>15. ASSUME NEW p \in Process, Redeem(p) PROVE Clearing'
  BY <1>15, NoneApart DEF Redeem, AfterRefresh, SetTok, SetNxt, SetFlags,
      Attempt
<1>16. ASSUME NEW p \in Process, Rotate(p) PROVE Clearing'
  BY <1>16, NoneApart DEF Rotate, Retire, NoRoles, SetTok, SetNxt, SetFlags,
      Attempt
<1>17. ASSUME NEW p \in Process, WriteRefreshed(p) PROVE Clearing'
  <2>1. Inside(p)
    BY <1>17 DEF WriteRefreshed, AfterRefresh, SectionPcs, EntryPcs, Inside
  <2>2. /\ \A q \in Process \ {p} : pc'[q] = pc[q]
        /\ pc'[p] \notin ClearPcs \cup {"discardWrite"}
    BY <1>17 DEF WriteRefreshed, AfterRefresh
  <2> QED
    BY <2>1, <2>2, NobodyClears
<1>18. ASSUME NEW p \in Process, RejectTok(p) \/ DropTok(p) PROVE Clearing'
  BY <1>18, NoneApart DEF RejectTok, DeleteTok, DropTok, SetTok, SetNxt,
      SetFlags, Attempt
<1>19. ASSUME NEW p \in Process, RejectRole(p) PROVE Clearing'
  BY <1>19, NoneApart DEF RejectRole, NoRoles, AfterRefresh, SetTok, SetNxt,
      SetFlags, Attempt
<1>20. ASSUME NEW p \in Process, Drop(p) \/ DropRole(p) PROVE Clearing'
  BY <1>20, NoneApart DEF Drop, AfterDrop, DropRole, NoRoles, SetTok, SetNxt,
      SetFlags, Attempt
<1>21. ASSUME NEW p \in Process, LoginRead(p) PROVE Clearing'
  BY <1>21, NoneApart DEF LoginRead, Stored, SetTok, SetNxt, SetFlags, Attempt
<1>22. ASSUME NEW p \in Process, LoginBegin(p) PROVE Clearing'
  <2>1. Inside(p)
    BY <1>22 DEF LoginBegin, LoginReturn, SectionPcs, EntryPcs, Inside
  <2>2. /\ \A q \in Process \ {p} : pc'[q] = pc[q]
        /\ pc'[p] \notin ClearPcs \cup {"discardWrite"}
    BY <1>22 DEF LoginBegin, LoginReturn
  <2> QED
    BY <2>1, <2>2, NobodyClears
<1>23. ASSUME NEW p \in Process, Browser(p) PROVE Clearing'
  BY <1>23, NoneApart DEF Browser, SetTok, SetNxt, SetFlags, Attempt
<1>24. ASSUME NEW p \in Process, SaveDiscard(p) PROVE Clearing'
  BY <1>24, NoneApart DEF SaveDiscard, EndLogin, Mine, Wanted, SetTok, SetNxt,
      SetFlags, Attempt
<1>25. ASSUME NEW p \in Process, SaveRetire(p) PROVE Clearing'
  BY <1>25, NoneApart DEF SaveRetire, Retire, NoRoles, Wanted, Mine, SetTok,
      SetNxt, SetFlags, Attempt
<1>26. ASSUME NEW p \in Process, SaveWrite(p) \/ SaveEnd(p) PROVE Clearing'
  <2>1. Inside(p)
    BY <1>26 DEF SaveWrite, SaveEnd, LoginReturn, SectionPcs, EntryPcs, Inside
  <2>2. /\ \A q \in Process \ {p} : pc'[q] = pc[q]
        /\ pc'[p] \notin ClearPcs \cup {"discardWrite"}
    BY <1>26 DEF SaveWrite, SaveEnd, LoginReturn
  <2> QED
    BY <2>1, <2>2, NobodyClears
<1>27. ASSUME NEW p \in Process, UnlockedEnd(p) PROVE Clearing'
  BY <1>27, NoneApart DEF UnlockedEnd, UnlockedReturn, LoginReturn, Mine,
      Wanted, SetTok, SetNxt, SetFlags, Attempt
<1>28. ASSUME NEW p \in Process, UnlockedRm(p) PROVE Clearing'
  BY <1>28, NoneApart DEF UnlockedRm, UnlockedReturn, LoginReturn, SetTok,
      SetNxt, SetFlags, Attempt
<1>29. ASSUME NEW p \in Process, Poll(p) PROVE Clearing'
  BY <1>29, NoneApart DEF Poll, TakeStored, LoginReturn, SetTok, SetNxt,
      SetFlags, Attempt
<1>30. ASSUME NEW p \in Process, Peek(p) PROVE Clearing'
  BY <1>30, NoneApart DEF Peek, MarkerLive, SetTok, SetNxt, SetFlags, Attempt
<1>31. ASSUME NEW p \in Process, Reread(p) PROVE Clearing'
  BY <1>31, NoneApart DEF Reread, TakeStored, LoginReturn, SetTok, SetNxt,
      SetFlags, Attempt
<1>32. ASSUME NEW p \in Process, Discard(p) PROVE Clearing'
  BY <1>32 DEF Discard, AfterDiscard, IdsOK, Logins, SetFlags
<1>33. ASSUME NEW p \in Process, DiscardWrite(p) PROVE Clearing'
  <2>1. nxt[p] \in Markers
    BY <1>33 DEF DiscardWrite, InHand
  <2>2. [nxt[p] EXCEPT !.discard = TRUE].discard
    BY <2>1 DEF Markers
  <2>3. \A q \in Process : pc[q] \in ClearPcs => q = p
    <3>1. Inside(p)
      BY <1>33 DEF DiscardWrite, SectionPcs, EntryPcs, Inside
    <3> QED
      BY <3>1, AloneInside
  <2>4. /\ \A q \in Process \ {p} : pc'[q] = pc[q] /\ flag'[q] = flag[q]
        /\ pc'[p] \in {"clearRole", "clearTok"} /\ pc[p] = "discardWrite"
        /\ UNCHANGED <<token, role, login, nLogin>>
    BY <1>33 DEF DiscardWrite, AfterDiscard, SetFlags
  <2>5. "failed" \in flag'[p] \/ marker'.discard
    BY <1>33, <2>2 DEF DiscardWrite, SetFlags
  <2>6. \A q \in Process \ {p} : pc'[q] \notin ClearPcs
    BY <2>3, <2>4
  <2>8. \A q \in Process : pc'[q] \in ClearPcs \cup {"discardWrite"} =>
          pc[q] = "discardWrite"
    <3>1. \A q \in Process : q # p /\ pc'[q] \in ClearPcs \cup {"discardWrite"}
            => pc[q] = "discardWrite"
      BY <2>4, <2>6
    <3> QED
      BY <3>1, <2>4
  <2>9. \A q \in Process : pc'[q] \in ClearPcs => q = p
    BY <2>6
  <2> QED
    BY <2>4, <2>5, <2>8, <2>9
<1>34. ASSUME NEW p \in Process, ClearRole(p) PROVE Clearing'
  BY <1>34, NoneApart DEF ClearRole, ClearRoles, ClearEnds, NoRoles, SetTok,
      SetNxt, SetFlags, Attempt
<1>35. ASSUME NEW p \in Process, ClearTok(p) PROVE Clearing'
  BY <1>35, NoneApart DEF ClearTok, ClearToken, ClearEnds, SetTok, SetNxt,
      SetFlags, Attempt
<1>36. ASSUME NEW p \in Process, Crash(p) PROVE Clearing'
  BY <1>36, NoneApart DEF Crash, SetTok, SetNxt, SetFlags, Attempt
<1>37. CASE AgeToken \/ AgeMarker
  BY <1>37, NoneApart DEF AgeToken, AgeMarker, SetTok, SetNxt, SetFlags,
      Attempt
<1>38. CASE AwsCLI
  <2>1. CASE CLILogin
    <3>1. token'.of = nLogin + 1 /\ nLogin' = nLogin + 1
      BY <2>1 DEF CLILogin
    <3> QED
      BY <1>38, <3>1 DEF AwsCLI, IdsOK, Logins
  <2>2. CASE CLIRefresh
    BY <1>38, <2>2, RefreshedByCLI DEF AwsCLI, CLIRefresh
  <2>3. CASE CLILogout
    BY <1>38, <2>3 DEF AwsCLI, CLILogout
  <2> QED
    BY <1>38, <2>1, <2>2, <2>3 DEF AwsCLI
<1>39. CASE UNCHANGED vars
  BY <1>39 DEF vars
<1> QED
  BY <1>1, <1>2, <1>3, <1>4, <1>5, <1>6, <1>7, <1>8, <1>9, <1>10, <1>11,
      <1>12, <1>13, <1>14, <1>15, <1>16, <1>17, <1>18, <1>19, <1>20, <1>21,
      <1>22, <1>23, <1>24, <1>25, <1>26, <1>27, <1>28, <1>29, <1>30, <1>31,
      <1>32, <1>33, <1>34, <1>35, <1>36, <1>37, <1>38, <1>39 DEF Next, Step,
      Retrieve, Refresh, Login, Clear, AllEnded

\* The initial states satisfy the whole invariant.
LEMMA SafeInit == Init => SafeInv
<1> SUFFICES ASSUME Init PROVE SafeInv
  OBVIOUS
<1>1. TypeInv
  BY TypeInitially
<1>2. Exclusion /\ Held
  BY DEF Init, LocksInit, Exclusion, GlobalAlone, SessionAlone, Held, InnerPcs,
     SectionPcs, EntryPcs
<1>3. Lineage
  <2>1. token # None => From(token)
    BY Bounds DEF Init, From, Gens, Tokens
  <2>2. \A k \in CredKeys : role[k] # None => From(role[k])
    BY Bounds DEF Init, From, Gens
  <2> QED
    BY <2>1, <2>2 DEF Init, Lineage, NxtPcs, FinishPcs, UsePcs
<1>4. StoredSince
  BY DEF Init, StoredSince, NoResurrection
<1>5. InHandSince /\ Clearing
  BY DEF Init, InHandSince, Clearing, WritePcs, ClearPcs
<1> QED
  BY <1>1, <1>2, <1>3, <1>4, <1>5 DEF SafeInv, LockInv, ClearInv

\* The whole invariant is inductive.
LEMMA SafeStep == SafeInv /\ [Next]_vars => SafeInv'
<1> SUFFICES ASSUME SafeInv, [Next]_vars PROVE SafeInv'
  OBVIOUS
<1>1. TypeInv'
  BY TypeStep DEF SafeInv, LockInv
<1>2. Exclusion' /\ Held'
  BY ExclusionStep, HeldStep DEF SafeInv
<1>3. Lineage'
  BY LineageStep DEF SafeInv
<1>4. ClearInv'
  BY SinceStep, InHandSinceStep, ClearingStep DEF ClearInv
<1> QED
  BY <1>1, <1>2, <1>3, <1>4 DEF SafeInv, LockInv

(* What a clear that ended well removed stays removed: no token and no role
   credentials of a login begun before it are stored afterwards, whatever was
   under way while it ran (ssoClear and ssoClearAll against saveNewToken,
   refresh, login and stampGeneration). *)
THEOREM ClearsStay == Spec => []NoResurrection
<1>1. SafeInv => NoResurrection
  BY DEF SafeInv, ClearInv, StoredSince
<1> QED
  BY <1>1, SafeInit, SafeStep, PTL DEF Spec

(* Role credentials never serve a login they were not minted from: a
   generation belongs to one login for good (stampGeneration and saveNewToken
   stamp fresh ones, cachedRole and writeRoleCredsIfCurrent compare them). *)
THEOREM RolesOfOneLogin == Spec => []SameLogin
<1>1. SafeInv => SameLogin
  <2> SUFFICES ASSUME SafeInv PROVE SameLogin
    OBVIOUS
  <2>1. ASSUME NEW k \in CredKeys, token # None, CacheHit(role[k], token.gen)
        PROVE  role[k].of = token.of
    BY <2>1 DEF SafeInv, Lineage, From, CacheHit
  <2>2. ASSUME NEW p \in Process, pc[p] \in UsePcs
        PROVE  rec[p].of = tok[p].of
    BY <2>2 DEF SafeInv, Lineage
  <2> QED
    BY <2>1, <2>2 DEF SameLogin, UsePcs
<1> QED
  BY <1>1, SafeInit, SafeStep, PTL DEF Spec

(* Everything that rewrites the stored session excludes every other process
   that does, wherever a process stands in its invocation: the mutual exclusion
   of CredLocks carries over to the critical sections of ssoprovider.go. *)
THEOREM SectionsExclude == Spec => []MutationsExclusive
<1>1. SafeInv => MutationsExclusive
  BY DEF SafeInv, LockInv, Exclusion, GlobalAlone, SessionAlone,
     MutationsExclusive, InSession, InAll
<1> QED
  BY <1>1, SafeInit, SafeStep, PTL DEF Spec


-----------------------------------------------------------------------------
(* Browser logins.  Where no marker outlives its maximum age, a login under   *)
(* way has the marker, so that there is one at a time.                        *)

LoginPcs == {"browser", "save", "saveWrite", "saveEnd", "unlockedEnd", "unlockedRm"}

Owned ==
  \A p \in Process : pc[p] \in LoginPcs =>
    marker # None /\ marker.id = login[p] /\ marker.pid = p

\* What a clear is to write back is the marker, or that is gone.
Reading ==
  \A p \in Process : pc[p] = "discardWrite" /\ marker # None => nxt[p] = marker

\* No login is known before it begins.
Past ==
  /\ marker # None => marker.id <= nLogin
  /\ \A p \in Process :
       login[p] <= nLogin /\ (pc[p] = "discardWrite" => nxt[p].id <= nLogin)
  /\ \A l \in gaveUp : l <= nLogin

\* Nobody gives a login up that is under way, or is about to.
Waited ==
  \A p \in Process : pc[p] \in LoginPcs =>
    /\ login[p] \notin gaveUp
    /\ \A q \in Process : pc[q] = "reread" => login[q] # login[p]

\* What is being saved is not discarded.
Wanting == \A p \in Process : pc[p] = "saveWrite" => ~marker.discard

Logging  == Owned /\ Reading /\ Past /\ Waited /\ Wanting
LoginInv == LockInv /\ aged = {} /\ Logging

\* A step of p that neither touches the marker nor begins, awaits or gives up a
\* login.
Quiet(p) ==
  /\ UNCHANGED <<marker, login, nLogin, gaveUp>>
  /\ \A q \in Process \ {p} : pc'[q] = pc[q] /\ nxt'[q] = nxt[q]
  /\ pc'[p] \in LoginPcs => pc[p] \in LoginPcs
  /\ pc'[p] = "saveWrite" => pc[p] = "saveWrite" \/ Wanted(p)
  /\ pc'[p] \in {"discardWrite", "reread"} => pc'[p] = pc[p] /\ nxt'[p] = nxt[p]

LEMMA QuietKeeps ==
  ASSUME Logging, NEW p \in Process, Quiet(p)
  PROVE  Logging'
BY DEF Logging, Owned, Reading, Past, Waited, Wanting, Quiet, LoginPcs, Wanted

\* Most steps are.
LEMMA QuietSteps ==
  ASSUME TypeInv, NEW p \in Process,
         \/ Start(p) \/ TakeLock(p) \/ LockTimeout(p) \/ Retrieve(p) \/ Refresh(p)
         \/ LoginRead(p) \/ Browser(p) \/ SaveRetire(p) \/ SaveWrite(p)
         \/ UnlockedEnd(p) \/ Poll(p) \/ ClearRole(p) \/ ClearTok(p) \/ Crash(p)
  PROVE  Quiet(p)
<1> USE DEF TypeInv, TypeOK, ControlOK, WorkOK, Quiet, LoginPcs, To, Stay, At, store,
        work, ids, env, history
<1>1. CASE Start(p) \/ TakeLock(p) \/ Crash(p)
  BY <1>1 DEF Start, TakeLock, Crash
<1>2. CASE LockTimeout(p)
  BY <1>2 DEF LockTimeout, AfterSaveLeaf, AfterDrop
<1>3. CASE ReadStored(p) \/ Stamp(p) \/ StampWrite(p) \/ Cached(p) \/ LeafCached(p)
  BY <1>3 DEF ReadStored, Stamp, StampWrite, Cached, LeafCached, SetTok, SetNxt
<1>4. CASE UsableToken(p) \/ Mint(p) \/ AssumeHops(p) \/ Gateway(p) \/ Evict(p)
  BY <1>4 DEF UsableToken, Mint, AssumeHops, Gateway, Evict
<1>5. CASE SaveLeaf(p) \/ SaveFinal(p)
  BY <1>5 DEF SaveLeaf, SaveFinal, SaveRole, AfterSaveLeaf
<1>6. \A o : AfterRefresh(p, o) \in {"done", "login", "token", "failed", "drop", "mint"}
  BY DEF AfterRefresh
<1>7. CASE RefreshRead(p)
  BY <1>6, <1>7 DEF RefreshRead, SetTok, SetNxt
<1>8. CASE Redeem(p)
  BY <1>6, <1>8 DEF Redeem
<1>9. CASE Rotate(p) \/ WriteRefreshed(p) \/ RejectTok(p) \/ RejectRole(p)
  BY <1>6, <1>9 DEF Rotate, Retire, WriteRefreshed, RejectTok, DeleteTok, RejectRole
<1>10. CASE Drop(p) \/ DropTok(p) \/ DropRole(p)
  BY <1>10 DEF Drop, AfterDrop, DropTok, DeleteTok, DropRole
<1>11. CASE LoginRead(p) \/ Browser(p) \/ SaveRetire(p) \/ SaveWrite(p)
  BY <1>11 DEF LoginRead, Browser, SaveRetire, Retire, SaveWrite, SetTok, SetNxt
<1>12. CASE UnlockedEnd(p)
  BY <1>12 DEF UnlockedEnd, UnlockedReturn, LoginReturn
<1>13. CASE Poll(p)
  BY <1>13 DEF Poll, TakeStored, LoginReturn
<1>14. CASE ClearRole(p) \/ ClearTok(p)
  BY <1>14 DEF ClearRole, ClearTok, ClearEnds
<1> QED
  BY <1>1, <1>2, <1>3, <1>4, <1>5, <1>7, <1>8, <1>9, <1>10, <1>11, <1>12, <1>13,
     <1>14 DEF Retrieve, Refresh

\* How a login begins: not at all, as the wait for another one, as none, with a
\* dead one's marker gone, or with a marker of its own.
LEMMA BeginIs ==
  ASSUME TypeInv, NEW p \in Process, LoginBegin(p)
  PROVE  /\ pc[p] = "login" /\ Inside(p) /\ UNCHANGED <<gaveUp, nxt>>
         /\ \E l \in {"done", "mint", "failed", "poll", "browser"} :
              /\ pc' = [pc EXCEPT ![p] = l]
              /\ \/ l # "browser" /\ UNCHANGED <<marker, login, nLogin>>
                 \/ /\ l # "browser" /\ MarkerLive
                    /\ login' = [login EXCEPT ![p] = marker.id]
                    /\ UNCHANGED <<marker, nLogin>>
                 \/ /\ l # "browser" /\ ~MarkerLive /\ marker' = None
                    /\ UNCHANGED <<login, nLogin>>
                 \/ /\ l # "browser" /\ ~MarkerLive /\ marker' = None
                    /\ login' = [login EXCEPT ![p] = nLogin + 1] /\ nLogin' = nLogin + 1
                 \/ /\ l = "browser" /\ ~MarkerLive
                    /\ marker' = [id |-> nLogin + 1, pid |-> p, discard |-> FALSE]
                    /\ login' = [login EXCEPT ![p] = nLogin + 1] /\ nLogin' = nLogin + 1
<1>1. /\ pc[p] = "login" /\ Inside(p) /\ UNCHANGED <<gaveUp, nxt>>
  BY DEF LoginBegin, At, SectionPcs, EntryPcs, Inside, history
<1>2. CASE /\ LoginReturn(p, token)
           /\ UNCHANGED <<marker, login, nLogin>>
  <2>1. \E l \in {"done", "mint"} : pc' = [pc EXCEPT ![p] = l]
    BY <1>2 DEF LoginReturn, To
  <2> QED
    BY <1>1, <1>2, <2>1
<1>3. CASE To(p, "failed") /\ UNCHANGED <<marker, login, nLogin>>
  BY <1>1, <1>3 DEF To
<1>4. CASE /\ MarkerLive /\ login' = [login EXCEPT ![p] = marker.id]
           /\ To(p, "poll") \/ To(p, "failed")
           /\ UNCHANGED <<marker, nLogin>>
  BY <1>1, <1>4 DEF To
<1>5. CASE /\ ~MarkerLive /\ marker' = None /\ To(p, "failed")
           /\ UNCHANGED <<login, nLogin>>
  BY <1>1, <1>5 DEF To
<1>6. CASE /\ ~MarkerLive /\ nLogin' = nLogin + 1
           /\ login' = [login EXCEPT ![p] = nLogin + 1]
           /\ \/ /\ marker' = [id |-> nLogin + 1, pid |-> p, discard |-> FALSE]
                 /\ To(p, "browser")
              \/ marker' = None /\ To(p, "failed")
  BY <1>1, <1>6 DEF To
<1> QED
  BY <1>2, <1>3, <1>4, <1>5, <1>6 DEF LoginBegin

\* The numbers the steps compare.
LEMMA Numbers ==
  ASSUME TypeInv
  PROVE  /\ nLogin \in Nat /\ \A q \in Process : login[q] \in Nat
         /\ \A l \in gaveUp : l \in Nat
         /\ marker # None => marker.id \in Nat
BY Bounds DEF TypeInv, TypeOK, IdsOK, WorkOK, StoreOK, HistoryOK, Logins, Markers

\* A login that begins has not been heard of, and its marker is the only one.
LEMMA BeginKeeps ==
  ASSUME LoginInv, NEW p \in Process, LoginBegin(p)
  PROVE  Logging'
<1>1. /\ TypeInv /\ pc \in [Process -> Pcs] /\ login \in [Process -> Logins]
  BY DEF LoginInv, LockInv, TypeInv, TypeOK, ControlOK, WorkOK
<1>2. \A q \in Process : pc[q] # "discardWrite"
  BY <1>1, BeginIs, AloneInside DEF LoginInv
<1>3. ~MarkerLive => \A q \in Process : pc[q] \notin LoginPcs
  BY DEF MarkerLive, Ended, EndPcs, LoginInv, Logging, Owned, LoginPcs
<1>4. Owned /\ Reading /\ Past /\ Waited /\ Wanting
  BY DEF LoginInv, Logging
<1> DEFINE m == [id |-> nLogin + 1, pid |-> p, discard |-> FALSE]
<1>5. m # None /\ m.id = nLogin + 1 /\ m.pid = p
  BY Numbers, NoneApart DEF Markers, None
<1> HIDE DEF m
<1>6. PICK l \in {"done", "mint", "failed", "poll", "browser"} :
        /\ pc' = [pc EXCEPT ![p] = l]
        /\ \/ l # "browser" /\ UNCHANGED <<marker, login, nLogin>>
           \/ /\ l # "browser" /\ MarkerLive
              /\ login' = [login EXCEPT ![p] = marker.id]
              /\ UNCHANGED <<marker, nLogin>>
           \/ /\ l # "browser" /\ ~MarkerLive /\ marker' = None
              /\ UNCHANGED <<login, nLogin>>
           \/ /\ l # "browser" /\ ~MarkerLive /\ marker' = None
              /\ login' = [login EXCEPT ![p] = nLogin + 1] /\ nLogin' = nLogin + 1
           \/ /\ l = "browser" /\ ~MarkerLive /\ marker' = m
              /\ login' = [login EXCEPT ![p] = nLogin + 1] /\ nLogin' = nLogin + 1
  BY <1>1, BeginIs DEF m
<1>7. pc[p] = "login" /\ UNCHANGED <<gaveUp, nxt>>
  BY <1>1, BeginIs
<1>8. Owned'
  BY <1>1, <1>3, <1>4, <1>5, <1>6, <1>7 DEF Owned, LoginPcs
<1>9. Reading'
  BY <1>1, <1>2, <1>6 DEF Reading
<1>10. Past'
  BY <1>1, <1>2, <1>4, <1>5, <1>6, <1>7, Numbers DEF Past, MarkerLive
<1>11. Waited'
  BY <1>1, <1>3, <1>4, <1>6, <1>7, Numbers DEF Waited, Past, LoginPcs
<1>12. Wanting'
  BY <1>1, <1>3, <1>4, <1>6 DEF Wanting, LoginPcs
<1> QED
  BY <1>8, <1>9, <1>10, <1>11, <1>12 DEF Logging

\* A login ends: its marker goes, or stays behind where it could not be removed.
LEMMA EndKeeps ==
  ASSUME LoginInv, NEW p \in Process, SaveDiscard(p) \/ SaveEnd(p) \/ UnlockedRm(p)
  PROVE  Logging'
<1>1. pc \in [Process -> Pcs]
  BY DEF LoginInv, LockInv, TypeInv, TypeOK, ControlOK
<1>2. Owned /\ Reading /\ Past /\ Waited /\ Wanting
  BY DEF LoginInv, Logging
<1>3. /\ pc[p] \in LoginPcs /\ marker' \in {marker, None}
      /\ UNCHANGED <<login, nLogin, gaveUp, nxt>>
      /\ \E l \in {"failed", "done", "mint"} : pc' = [pc EXCEPT ![p] = l]
  BY DEF SaveDiscard, SaveEnd, UnlockedRm, EndLogin, Attempt, At, LoginPcs,
         LoginReturn, UnlockedReturn, To, work, ids, history
<1>4. \A q \in Process \ {p} : pc[q] \notin LoginPcs
  BY <1>2, <1>3 DEF Owned
<1> QED
  BY <1>1, <1>2, <1>3, <1>4 DEF Logging, Owned, Reading, Past, Waited, Wanting, LoginPcs

\* A clear reads the marker and writes it back discarded: the same login's.
LEMMA DiscardKeeps ==
  ASSUME LoginInv, NEW p \in Process, Discard(p) \/ DiscardWrite(p)
  PROVE  Logging'
<1>1. /\ pc \in [Process -> Pcs] /\ login \in [Process -> Logins]
      /\ nxt \in [Process -> Tokens \cup Markers \cup {None}]
      /\ marker \in Markers \cup {None} /\ nLogin \in Logins
  BY DEF LoginInv, LockInv, TypeInv, TypeOK, ControlOK, WorkOK, StoreOK, IdsOK
<1>2. Owned /\ Reading /\ Past /\ Waited /\ Wanting
  BY DEF LoginInv, Logging
<1>3. pc[p] \in {"discard", "discardWrite"} /\ UNCHANGED <<nLogin, gaveUp>> /\ Inside(p)
  BY DEF Discard, DiscardWrite, At, SectionPcs, EntryPcs, Inside, ids, history
<1>4. \A q \in Process \ {p} : pc[q] \notin {"discardWrite", "saveWrite"}
  BY <1>3, AloneInside DEF LoginInv, WritePcs
<1>5. CASE Discard(p)
  <2>1. /\ marker' = marker /\ login' = [login EXCEPT ![p] = nLogin]
        /\ \E l \in {"clearRole", "clearTok", "discardWrite"} :
             /\ pc' = [pc EXCEPT ![p] = l]
             /\ l = "discardWrite" => marker # None /\ nxt' = [nxt EXCEPT ![p] = marker]
    BY <1>5 DEF Discard, AfterDiscard, Stay, SetNxt, store
  <2> QED
    BY <1>1, <1>2, <1>3, <1>4, <2>1, Numbers
       DEF Logging, Owned, Reading, Past, Waited, Wanting, LoginPcs, LoginInv, LockInv
<1>6. CASE DiscardWrite(p)
  <2> DEFINE m == [nxt[p] EXCEPT !.discard = TRUE]
  <2>1. /\ marker' \in {marker, m} /\ UNCHANGED <<login, nxt>>
        /\ \E l \in {"clearRole", "clearTok"} : pc' = [pc EXCEPT ![p] = l]
    BY <1>6 DEF DiscardWrite, AfterDiscard, Stay
  <2>2. nxt[p] \in Markers /\ pc[p] = "discardWrite"
    BY <1>6 DEF DiscardWrite, At, LoginInv, LockInv, TypeInv, InHand
  <2>3. m # None /\ m.id = nxt[p].id /\ m.pid = nxt[p].pid
    BY <2>2 DEF Markers, None
  <2> HIDE DEF m
  <2> QED
    BY <1>1, <1>2, <1>3, <1>4, <2>1, <2>2, <2>3
       DEF Logging, Owned, Reading, Past, Waited, Wanting, LoginPcs
<1> QED
  BY <1>5, <1>6

\* A waiter gives up what is not under way.
LEMMA WaiterKeeps ==
  ASSUME LoginInv, NEW p \in Process, Peek(p) \/ Reread(p)
  PROVE  Logging'
<1>1. pc \in [Process -> Pcs]
  BY DEF LoginInv, LockInv, TypeInv, TypeOK, ControlOK
<1>2. Owned /\ Reading /\ Past /\ Waited /\ Wanting
  BY DEF LoginInv, Logging
<1>3. pc[p] \in {"peek", "reread"} /\ UNCHANGED <<marker, login, nLogin, nxt>>
  BY DEF Peek, Reread, At, store, work, ids
<1>4. CASE Peek(p)
  <2>1. /\ gaveUp' = gaveUp
        /\ \E l \in {"poll", "reread", "failed"} :
             pc' = [pc EXCEPT ![p] = l] /\ (l = "reread" => ~(MarkerLive /\ Mine(p)))
    BY <1>4 DEF Peek, To, history
  <2>2. ASSUME NEW q \in Process, pc[q] \in LoginPcs, login[q] = login[p]
        PROVE  MarkerLive /\ Mine(p)
    BY <1>2, <2>2 DEF Owned, MarkerLive, Mine, Ended, EndPcs, LoginPcs, LoginInv
  <2> QED
    BY <1>1, <1>2, <1>3, <2>1, <2>2
       DEF Logging, Owned, Reading, Past, Waited, Wanting, LoginPcs
<1>5. CASE Reread(p)
  <2>1. /\ pc[p] = "reread" /\ gaveUp' \in {gaveUp, gaveUp \cup {login[p]}}
        /\ \E l \in {"failed", "done", "mint"} : pc' = [pc EXCEPT ![p] = l]
    BY <1>5 DEF Reread, At, TakeStored, LoginReturn, To
  <2> QED
    BY <1>1, <1>2, <1>3, <2>1 DEF Logging, Owned, Reading, Past, Waited, Wanting, LoginPcs
<1> QED
  BY <1>4, <1>5

LEMMA LoginInitially == Init => LoginInv
BY SafeInit DEF SafeInv, LoginInv, Init, Logging, Owned, Reading, Past, Waited, Wanting, LoginPcs

LEMMA LoginStep == LoginInv /\ ~Suspends /\ [Next]_vars => LoginInv'
<1> SUFFICES ASSUME LoginInv, ~Suspends, [Next]_vars PROVE LoginInv'
  OBVIOUS
<1>1. LockInv'
  BY TypeStep, ExclusionStep, HeldStep DEF LoginInv, LockInv
<1>2. aged' = {}
  <2>1. AgeMarker => FALSE
    BY DEF AgeMarker
  <2>2. ASSUME NEW p \in Process, Step(p) \/ Crash(p) PROVE aged' = aged
    BY <2>2 DEF Step, Start, TakeLock, LockTimeout, Retrieve, Refresh, Login, Clear,
      ReadStored, Stamp, StampWrite, Cached, LeafCached, UsableToken, Mint, SaveLeaf,
      SaveFinal, SaveRole, AssumeHops, Gateway, Evict, RefreshRead, Redeem, Rotate,
      Retire, WriteRefreshed, RejectTok, DropTok, DeleteTok, RejectRole, Drop,
      DropRole, LoginRead, LoginBegin, Browser, SaveDiscard, SaveRetire, SaveWrite,
      SaveEnd, UnlockedEnd, UnlockedRm, Poll, Peek, Reread, Discard, DiscardWrite,
      ClearRole, ClearTok, Crash, env
  <2> QED
    BY <2>1, <2>2 DEF Next, AgeToken, AwsCLI, AllEnded, vars, env, LoginInv
<1>3. Logging'
  <2>1. ASSUME NEW p \in Process, Step(p) \/ Crash(p) PROVE Logging'
    BY <2>1, QuietSteps, QuietKeeps, BeginKeeps, EndKeeps, DiscardKeeps, WaiterKeeps
       DEF Step, Login, Clear, LoginInv, LockInv
  <2>2. CASE UNCHANGED <<pc, nxt, marker, login, nLogin, gaveUp>>
    BY <2>2 DEF LoginInv, Logging, Owned, Reading, Past, Waited, Wanting
  <2>3. CASE AwsCLI
    <3>1. UNCHANGED <<pc, nxt, marker, login, gaveUp>> /\ nLogin' \in {nLogin, nLogin + 1}
      BY <2>3 DEF AwsCLI, CLILogin, CLIRefresh, CLILogout, work, history
    <3>2. TypeInv /\ Logging
      BY DEF LoginInv, LockInv
    <3>3. \A p \in Process : pc[p] = "discardWrite" => nxt[p].id \in Nat
      BY <3>2 DEF TypeInv, InHand, Markers, Logins
    <3> QED
      BY <3>1, <3>2, <3>3, Numbers DEF Logging, Owned, Reading, Past, Waited, Wanting
  <2> QED
    BY <2>1, <2>2, <2>3 DEF Next, AgeToken, AgeMarker, AllEnded, vars, store, work, ids,
       history
<1> QED
  BY <1>1, <1>2, <1>3 DEF LoginInv

(* Parallel calls share one browser login, where no marker outlives its maximum
   age: at most one process is in a browser, whatever dies, fails or is cleared
   (BeginLogin and LoginMarker under the session lock). *)
THEOREM OneLogin ==
  ASSUME ~Suspends PROVE Spec => []OneBrowser
<1>1. LoginInv => OneBrowser
  BY DEF LoginInv, Logging, Owned, LoginPcs, OneBrowser
<1>2. LoginInv /\ [Next]_vars => LoginInv'
  BY LoginStep
<1> QED
  BY <1>1, <1>2, LoginInitially, PTL DEF Spec

(* A login in the browser keeps its marker, as long as none outlives its maximum
   age: only its own process removes it (EndLogin), and a clear writes back the
   one it read (DiscardLogin). *)
THEOREM MarkersKept ==
  ASSUME ~Suspends PROVE Spec => []MarkerKept
<1>1. LoginInv => MarkerKept
  BY DEF LoginInv, Logging, Owned, LoginPcs, MarkerKept, Mine
<1>2. LoginInv /\ [Next]_vars => LoginInv'
  BY LoginStep
<1> QED
  BY <1>1, <1>2, LoginInitially, PTL DEF Spec

(* No waiter reports a login as ended without a token that is still under way or
   being saved (awaitLogin), as long as no marker outlives its maximum age. *)
THEOREM NoFalseAlarm ==
  ASSUME ~Suspends PROVE Spec => []NoGiveUpOnSuccess
<1>1. LoginInv => NoGiveUpOnSuccess
  BY DEF LoginInv, Logging, Waited, LoginPcs, NoGiveUpOnSuccess
<1>2. LoginInv /\ [Next]_vars => LoginInv'
  BY LoginStep
<1> QED
  BY <1>1, <1>2, LoginInitially, PTL DEF Spec


-----------------------------------------------------------------------------
(* What a critical section checked.  While bmcp alone writes the store, nobody *)
(* else changes the token under a process that read it inside.                 *)

CheckPcs == {"stampWrite", "redeem", "rejectTok", "rotate", "write", "dropTok"}

CheckedAt(p) ==
  /\ pc[p] \in {"stampWrite", "redeem", "rejectTok"} => token = nxt[p]
  /\ pc[p] \in {"rotate", "write"} => token # None /\ token.of = nxt[p].of
  /\ pc[p] = "dropTok" => token # None /\ token.at = tok[p].at
Checked    == \A p \in Process : CheckedAt(p)
CheckedInv == LockInv /\ Checked

\* A step of p, which changes the token only from inside.
Own(p) ==
  /\ \A q \in Process \ {p} : UNCHANGED <<pc[q], nxt[q], tok[q]>>
  /\ token' = token \/ Inside(p)

LEMMA OwnKeeps ==
  ASSUME CheckedInv, NEW p \in Process, Own(p), CheckedAt(p)'
  PROVE  Checked'
<1>1. CheckPcs \subseteq InnerPcs
  BY DEF CheckPcs, InnerPcs, SectionPcs, EntryPcs
<1>2. \A q \in Process \ {p} : pc[q] \in CheckPcs => token' = token
  BY <1>1, OneInside DEF Own, CheckedInv, LockInv, Held
<1>3. \A q \in Process \ {p} : CheckedAt(q) => CheckedAt(q)'
  BY <1>2 DEF Own, CheckedAt, CheckPcs
<1> QED
  BY <1>3 DEF CheckedInv, Checked

\* A step that checks nothing of the store, though it may write it.
Plain(p) == Own(p) /\ (pc'[p] \in CheckPcs => UNCHANGED <<pc, nxt, tok, token>>)

LEMMA PlainKeeps ==
  ASSUME CheckedInv, NEW p \in Process, Plain(p)
  PROVE  Checked'
<1>1. CheckedAt(p)'
  BY DEF Plain, CheckedInv, Checked, CheckedAt, CheckPcs
<1> QED
  BY <1>1, OwnKeeps DEF Plain

LEMMA PlainSteps ==
  ASSUME TypeInv, NEW p \in Process,
         \/ Start(p) \/ TakeLock(p) \/ LockTimeout(p) \/ Crash(p)
         \/ ReadStored(p) \/ StampWrite(p) \/ Cached(p) \/ LeafCached(p)
         \/ UsableToken(p) \/ Mint(p) \/ SaveLeaf(p) \/ AssumeHops(p)
         \/ SaveFinal(p) \/ Gateway(p) \/ Evict(p)
         \/ WriteRefreshed(p) \/ RejectTok(p) \/ RejectRole(p) \/ DropTok(p)
         \/ DropRole(p) \/ Login(p) \/ Clear(p)
  PROVE  Plain(p)
<1> USE DEF TypeInv, TypeOK, ControlOK, WorkOK, Plain, Own, CheckPcs, To, Stay, At,
        store, work, ids, env, history
<1>1. CASE Start(p) \/ TakeLock(p) \/ Crash(p)
  BY <1>1 DEF Start, TakeLock, Crash
<1>2. CASE LockTimeout(p)
  BY <1>2 DEF LockTimeout, AfterSaveLeaf, AfterDrop
<1>3. CASE ReadStored(p) \/ Cached(p) \/ LeafCached(p)
  BY <1>3 DEF ReadStored, Cached, LeafCached, SetTok
<1>4. CASE StampWrite(p)
  BY <1>4 DEF StampWrite, SetTok, Attempt, SectionPcs, Inside
<1>5. CASE UsableToken(p) \/ Mint(p) \/ AssumeHops(p) \/ Gateway(p) \/ Evict(p)
  BY <1>5 DEF UsableToken, Mint, AssumeHops, Gateway, Evict
<1>6. CASE SaveLeaf(p) \/ SaveFinal(p)
  BY <1>6 DEF SaveLeaf, SaveFinal, SaveRole, AfterSaveLeaf
<1>7. \A o : AfterRefresh(p, o) \in {"done", "login", "token", "failed", "drop", "mint"}
  BY DEF AfterRefresh
<1>8. CASE WriteRefreshed(p)
  BY <1>7, <1>8 DEF WriteRefreshed, SetTok, Attempt, SectionPcs, Inside
<1>9. CASE RejectTok(p) \/ DropTok(p)
  BY <1>9 DEF RejectTok, DropTok, DeleteTok, SectionPcs, Inside
<1>10. CASE RejectRole(p) \/ DropRole(p)
  BY <1>7, <1>10 DEF RejectRole, DropRole, AfterDrop
<1>11. CASE LoginRead(p) \/ Browser(p) \/ SaveRetire(p)
  BY <1>11 DEF LoginRead, Browser, SaveRetire, Retire, SetTok, SetNxt
<1>12. CASE LoginBegin(p)
  BY <1>12 DEF LoginBegin, LoginReturn, SetTok
<1>13. CASE SaveDiscard(p) \/ SaveEnd(p)
  BY <1>13 DEF SaveDiscard, SaveEnd, LoginReturn, SetTok
<1>14. CASE SaveWrite(p)
  BY <1>14 DEF SaveWrite, SectionPcs, Inside
<1>15. CASE UnlockedEnd(p) \/ UnlockedRm(p)
  BY <1>15 DEF UnlockedEnd, UnlockedRm, UnlockedReturn, LoginReturn, SetTok
<1>16. CASE Poll(p) \/ Peek(p) \/ Reread(p)
  BY <1>16 DEF Poll, Peek, Reread, TakeStored, LoginReturn, SetTok
<1>17. CASE Discard(p) \/ DiscardWrite(p)
  BY <1>17 DEF Discard, DiscardWrite, AfterDiscard, SetNxt
<1>18. CASE ClearRole(p)
  BY <1>18 DEF ClearRole, ClearEnds
<1>19. CASE ClearTok(p)
  BY <1>19 DEF ClearTok, ClearEnds, SectionPcs, Inside
<1> QED
  BY <1>1, <1>2, <1>3, <1>4, <1>5, <1>6, <1>8, <1>9, <1>10, <1>11, <1>12, <1>13,
     <1>14, <1>15, <1>16, <1>17, <1>18, <1>19 DEF Login, Clear

\* The steps that check the token, or build on what was checked.
LEMMA CheckingSteps ==
  ASSUME CheckedInv, NEW p \in Process,
         Stamp(p) \/ RefreshRead(p) \/ Redeem(p) \/ Rotate(p) \/ Drop(p)
  PROVE  token' = token /\ Own(p) /\ CheckedAt(p)'
<1> USE DEF CheckedInv, LockInv, TypeInv, TypeOK, ControlOK, WorkOK, Own, To, Stay, At,
        store, work, ids, env, history
<1>1. \A o : AfterRefresh(p, o) \in {"done", "login", "token", "failed", "drop", "mint"}
  BY DEF AfterRefresh
<1>2. CASE Stamp(p)
  BY <1>2 DEF Stamp, CheckedAt, SetTok, SetNxt
<1>3. CASE RefreshRead(p)
  BY <1>1, <1>3 DEF RefreshRead, CheckedAt, SetTok, SetNxt
<1>4. CASE Redeem(p)
  <2>1. token = nxt[p] /\ nxt[p] \in Tokens
    BY <1>4 DEF Redeem, Checked, CheckedAt, InHand, NxtPcs
  <2>2. /\ token' = token /\ tok' = tok
        /\ \A q \in Process \ {p} : pc'[q] = pc[q] /\ nxt'[q] = nxt[q]
        /\ \/ pc'[p] \in {"write", "rotate"} /\ nxt'[p].of = nxt[p].of
           \/ pc'[p] \notin CheckPcs
           \/ pc'[p] = "rejectTok" /\ nxt'[p] = nxt[p]
    BY <1>1, <1>4, <2>1 DEF Redeem, Tokens, CheckPcs
  <2> QED
    BY <2>1, <2>2, NoneApart DEF CheckedAt, CheckPcs
<1>5. CASE Rotate(p)
  <2>1. token # None /\ token.of = nxt[p].of /\ nxt[p] \in Tokens
    BY <1>5 DEF Rotate, Retire, Checked, CheckedAt, InHand, NxtPcs
  <2>2. /\ token' = token /\ tok' = tok
        /\ \A q \in Process \ {p} : pc'[q] = pc[q] /\ nxt'[q] = nxt[q]
        /\ pc'[p] = "write" /\ nxt'[p].of = nxt[p].of
    BY <1>5, <2>1 DEF Rotate, Retire, Tokens
  <2> QED
    BY <2>1, <2>2 DEF CheckedAt
<1>6. CASE Drop(p)
  BY <1>6 DEF Drop, AfterDrop, CheckedAt
<1> QED
  BY <1>2, <1>3, <1>4, <1>5, <1>6

LEMMA CheckedStep == CheckedInv /\ MaxCLI = 0 /\ [Next]_vars => CheckedInv'
<1> SUFFICES ASSUME CheckedInv, MaxCLI = 0, [Next]_vars PROVE CheckedInv'
  OBVIOUS
<1>1. LockInv'
  BY TypeStep, ExclusionStep, HeldStep DEF CheckedInv, LockInv
<1>2. ASSUME NEW p \in Process, Step(p) \/ Crash(p) PROVE Checked'
  <2>1. TypeInv
    BY DEF CheckedInv, LockInv
  <2> QED
    BY <1>2, <2>1, PlainSteps, PlainKeeps, CheckingSteps, OwnKeeps
       DEF Step, Retrieve, Refresh
<1>3. ASSUME UNCHANGED <<pc, nxt, tok, token>> PROVE Checked'
  <2>1. \A p \in Process : CheckedAt(p)' = CheckedAt(p)
    BY <1>3 DEF CheckedAt
  <2> QED
    BY <2>1 DEF CheckedInv, Checked
<1>4. AwsCLI => FALSE
  BY DEF AwsCLI, CheckedInv, LockInv, TypeInv, TypeOK, EnvOK
<1> QED
  BY <1>1, <1>2, <1>3, <1>4 DEF Next, AgeToken, AgeMarker, AllEnded, vars, store, work,
     CheckedInv

LEMMA CheckedInitially == Init => CheckedInv
BY SafeInit DEF SafeInv, CheckedInv, Init, Checked, CheckedAt

(* What a critical section read or checked still holds when it acts on it, while
   only bmcp writes the token and no marker outlives its maximum age: the
   re-reads of stampGeneration, refresh, dropToken and login are made under the
   lock that the write is made under. *)
THEOREM ChecksHold ==
  ASSUME ~Suspends, MaxCLI = 0 PROVE Spec => []CheckedStillHolds
<1>1. LoginInv /\ CheckedInv => CheckedStillHolds
  <2> SUFFICES ASSUME LoginInv, CheckedInv, NEW p \in Process
               PROVE  /\ CheckedAt(p)
                      /\ pc[p] = "saveWrite" => Wanted(p)
    BY DEF CheckedStillHolds, CheckedAt
  <2> QED
    BY DEF LoginInv, Logging, Owned, Wanting, LoginPcs, CheckedInv, Checked, Wanted, Mine
<1>2. LoginInv /\ CheckedInv /\ [Next]_vars => (LoginInv /\ CheckedInv)'
  BY LoginStep, CheckedStep
<1> QED
  BY <1>1, <1>2, LoginInitially, CheckedInitially, PTL DEF Spec


-----------------------------------------------------------------------------
(* Role credentials of the current generation.  Where deletions succeed, none *)
(* of an older one is left when a token of a new one is written.              *)

MakePcs == {"stampWrite", "write", "saveWrite"}

\* Whoever is about to write a token with a new generation finds no role
\* credentials.
Retired ==
  \A p \in Process :
    /\ pc[p] = "stampWrite" => token.gen = 0
    /\ pc[p] = "write" => nxt[p].gen = token.gen \/ role = NoRoles
    /\ pc[p] = "saveWrite" => role = NoRoles

Current ==
  /\ \A k \in CredKeys : role[k] # None => role[k].gen # 0
  /\ OnlyCurrentRoles /\ Retired
CurrentInv == CheckedInv /\ Current

\* A step of p that writes no token and no role credentials, though it may
\* delete them from inside.
Deleting(p) ==
  /\ Own(p) /\ token' \in {token, None}
  /\ \A k \in CredKeys : role'[k] \in {role[k], None}
  /\ role' = role \/ Inside(p)
  /\ pc'[p] \in MakePcs => UNCHANGED <<pc, nxt, token, role>>

LEMMA OthersOut ==
  ASSUME LockInv, NEW p \in Process, Inside(p), NEW q \in Process \ {p}
  PROVE  pc[q] \notin MakePcs
<1>1. MakePcs \subseteq InnerPcs
  BY DEF MakePcs, InnerPcs, SectionPcs, EntryPcs
<1> QED
  BY <1>1, OneInside DEF LockInv, Held

LEMMA DeletingKeeps ==
  ASSUME CurrentInv, NEW p \in Process, Deleting(p)
  PROVE  Current'
<1>1. \A q \in Process \ {p} : pc[q] \in MakePcs => UNCHANGED <<token, role>>
  BY OthersOut DEF Deleting, Own, CurrentInv, CheckedInv
<1>2. Retired'
  BY <1>1 DEF Deleting, Own, CurrentInv, Current, Retired, MakePcs, NoRoles
<1>3. /\ \A k \in CredKeys : role'[k] # None => role'[k].gen # 0
      /\ OnlyCurrentRoles'
  BY DEF Deleting, CurrentInv, Current, OnlyCurrentRoles
<1> QED
  BY <1>2, <1>3 DEF Current

LEMMA DeletingSteps ==
  ASSUME TypeInv, NEW p \in Process,
         \/ Start(p) \/ TakeLock(p) \/ LockTimeout(p) \/ Crash(p)
         \/ ReadStored(p) \/ Cached(p) \/ LeafCached(p)
         \/ UsableToken(p) \/ Mint(p) \/ AssumeHops(p) \/ Gateway(p) \/ Evict(p)
         \/ RefreshRead(p) \/ RejectTok(p) \/ RejectRole(p) \/ Drop(p) \/ DropTok(p)
         \/ DropRole(p)
         \/ LoginRead(p) \/ LoginBegin(p) \/ Browser(p) \/ SaveDiscard(p) \/ SaveEnd(p)
         \/ UnlockedEnd(p) \/ UnlockedRm(p) \/ Poll(p) \/ Peek(p) \/ Reread(p)
         \/ Clear(p)
  PROVE  Deleting(p)
<1> USE DEF TypeInv, TypeOK, ControlOK, WorkOK, StoreOK, Deleting, Own, MakePcs, To,
        Stay, At, NoRoles, Attempt, store, work, ids, env, history
<1>1. CASE Start(p) \/ TakeLock(p) \/ Crash(p)
  BY <1>1 DEF Start, TakeLock, Crash
<1>2. CASE LockTimeout(p)
  BY <1>2 DEF LockTimeout, AfterSaveLeaf, AfterDrop
<1>3. CASE ReadStored(p) \/ Cached(p) \/ LeafCached(p)
  BY <1>3 DEF ReadStored, Cached, LeafCached, SetTok
<1>4. CASE UsableToken(p) \/ Mint(p) \/ AssumeHops(p) \/ Gateway(p)
  BY <1>4 DEF UsableToken, Mint, AssumeHops, Gateway
<1>5. CASE Evict(p)
  BY <1>5 DEF Evict, SectionPcs, EntryPcs, Inside
<1>6. \A o : AfterRefresh(p, o) \in {"done", "login", "token", "failed", "drop", "mint"}
  BY DEF AfterRefresh
<1>7. CASE RefreshRead(p)
  BY <1>6, <1>7 DEF RefreshRead, SetTok, SetNxt
<1>8. CASE RejectTok(p) \/ DropTok(p)
  BY <1>8 DEF RejectTok, DropTok, DeleteTok, SectionPcs, Inside
<1>9. CASE RejectRole(p) \/ DropRole(p)
  BY <1>6, <1>9 DEF RejectRole, DropRole, AfterDrop, SectionPcs, Inside
<1>10. CASE Drop(p)
  BY <1>10 DEF Drop, AfterDrop
<1>11. CASE LoginRead(p) \/ Browser(p)
  BY <1>11 DEF LoginRead, Browser, SetTok, SetNxt
<1>12. CASE LoginBegin(p)
  BY <1>12 DEF LoginBegin, LoginReturn, SetTok
<1>13. CASE SaveDiscard(p) \/ SaveEnd(p)
  BY <1>13 DEF SaveDiscard, SaveEnd, LoginReturn, SetTok
<1>14. CASE UnlockedEnd(p) \/ UnlockedRm(p)
  BY <1>14 DEF UnlockedEnd, UnlockedRm, UnlockedReturn, LoginReturn, SetTok
<1>15. CASE Poll(p) \/ Peek(p) \/ Reread(p)
  BY <1>15 DEF Poll, Peek, Reread, TakeStored, LoginReturn, SetTok
<1>16. CASE Discard(p) \/ DiscardWrite(p)
  BY <1>16 DEF Discard, DiscardWrite, AfterDiscard, SetNxt
<1>17. CASE ClearRole(p)
  BY <1>17 DEF ClearRole, ClearRoles, ClearEnds, SectionPcs, Inside
<1>18. CASE ClearTok(p)
  BY <1>18 DEF ClearTok, ClearToken, ClearEnds, SectionPcs, Inside
<1> QED
  BY <1>1, <1>2, <1>3, <1>4, <1>5, <1>7, <1>8, <1>9, <1>10, <1>11, <1>12, <1>13,
     <1>14, <1>15, <1>16, <1>17, <1>18 DEF Clear

\* The steps that write, or get ready to.
LEMMA MakingSteps ==
  ASSUME CurrentInv, ~Faults, NEW p \in Process,
         \/ Stamp(p) \/ StampWrite(p) \/ SaveLeaf(p) \/ SaveFinal(p)
         \/ Redeem(p) \/ Rotate(p) \/ WriteRefreshed(p) \/ SaveRetire(p) \/ SaveWrite(p)
  PROVE  Current'
<1> USE DEF To, Stay, At, Attempt, ids, store, work
<1>1. /\ TypeInv /\ pc \in [Process -> Pcs]
      /\ nxt \in [Process -> Tokens \cup Markers \cup {None}]
      /\ role \in [CredKeys -> RoleRecs \cup {None}]
  BY DEF CurrentInv, CheckedInv, LockInv, TypeInv, TypeOK, ControlOK, WorkOK, StoreOK
<1>2. /\ \A k \in CredKeys : role[k] # None => role[k].gen # 0
      /\ OnlyCurrentRoles /\ Retired /\ CheckedAt(p)
  BY DEF CurrentInv, Current, CheckedInv, Checked
<1>3. Inside(p)
  BY DEF Stamp, StampWrite, SaveLeaf, SaveFinal, SaveRole, Redeem, Rotate,
         WriteRefreshed, SaveRetire, Retire, SaveWrite, SectionPcs, EntryPcs, Inside
<1>4. \A q \in Process \ {p} : pc[q] \notin MakePcs
  BY <1>3, OthersOut DEF CurrentInv, CheckedInv
<1>5. ASSUME \A q \in Process \ {p} : pc'[q] = pc[q],
             pc'[p] \notin MakePcs
      PROVE  Retired'
  BY <1>4, <1>5 DEF Retired, MakePcs
<1>6. \A o : AfterRefresh(p, o) \in {"done", "login", "token", "failed", "drop", "mint"}
  BY DEF AfterRefresh
<1>7. CASE Stamp(p)
  <2>1. /\ UNCHANGED <<token, role>>
        /\ \E l \in {"stampWrite", "cached"} :
             pc' = [pc EXCEPT ![p] = l] /\ (l = "stampWrite" => token.gen = 0)
    BY <1>7 DEF Stamp
  <2>2. Retired'
    BY <1>1, <1>4, <2>1 DEF Retired, MakePcs
  <2> QED
    BY <1>2, <2>1, <2>2 DEF Current, OnlyCurrentRoles
<1>8. CASE StampWrite(p)
  <2>1. token.gen = 0 /\ token = nxt[p] /\ nxt[p] \in Tokens
    BY <1>1, <1>2, <1>8 DEF StampWrite, Retired, CheckedAt, TypeInv, InHand, NxtPcs
  <2>2. \A k \in CredKeys : role[k] = None
    BY <1>2, <2>1, NoneApart DEF OnlyCurrentRoles
  <2>3. role' = role /\ pc' = [pc EXCEPT ![p] = "cached"]
    BY <1>8 DEF StampWrite
  <2>4. Retired'
    BY <1>1, <1>5, <2>3 DEF MakePcs
  <2> QED
    BY <2>2, <2>3, <2>4 DEF Current, OnlyCurrentRoles
<1>9. ASSUME NEW from \in RecPcs, NEW key \in CredKeys,
             NEW next \in {"assume", "issued"}, SaveRole(p, from, key, next)
      PROVE  Current'
  <2>1. rec[p] \in RoleRecs
    BY <1>1, <1>9 DEF SaveRole, TypeInv, InHand
  <2>2. /\ token' = token /\ pc' = [pc EXCEPT ![p] = next]
        /\ \/ role' = role
           \/ /\ token # None /\ rec[p].gen # 0 /\ token.gen = rec[p].gen
              /\ role' = [role EXCEPT ![key] = rec[p]]
    BY <1>9 DEF SaveRole
  <2>3. Retired'
    BY <1>1, <1>5, <2>2 DEF MakePcs
  <2> QED
    BY <1>1, <1>2, <2>1, <2>2, <2>3 DEF Current, OnlyCurrentRoles
<1>10. CASE SaveLeaf(p) \/ SaveFinal(p)
  BY <1>9, <1>10, Keys DEF SaveLeaf, SaveFinal, AfterSaveLeaf, RecPcs
<1>11. CASE Redeem(p)
  <2>1. token = nxt[p] /\ nxt[p] \in Tokens
    BY <1>1, <1>2, <1>11 DEF Redeem, CheckedAt, TypeInv, InHand, NxtPcs
  <2>2. /\ UNCHANGED <<token, role>>
        /\ \A q \in Process \ {p} : pc'[q] = pc[q] /\ nxt'[q] = nxt[q]
        /\ pc'[p] \in MakePcs => pc'[p] = "write" /\ nxt'[p].gen = nxt[p].gen
    BY <1>1, <1>6, <1>11, <2>1 DEF Redeem, Tokens, MakePcs
  <2>3. Retired'
    BY <1>4, <2>1, <2>2 DEF Retired, MakePcs
  <2> QED
    BY <1>2, <2>2, <2>3 DEF Current, OnlyCurrentRoles
<1>12. CASE Rotate(p) \/ SaveRetire(p)
  <2>1. /\ token' = token /\ role' = NoRoles
        /\ \A q \in Process \ {p} : pc'[q] = pc[q]
        /\ pc'[p] \in {"write", "saveWrite"}
    BY <1>1, <1>12 DEF Rotate, SaveRetire, Retire
  <2>2. Retired'
    BY <1>4, <2>1 DEF Retired, MakePcs, NoRoles
  <2> QED
    BY <2>1, <2>2 DEF Current, OnlyCurrentRoles, NoRoles
<1>13. CASE WriteRefreshed(p)
  <2>1. /\ role' = role /\ token' = nxt[p] /\ token # None
        /\ nxt[p].gen = token.gen \/ role = NoRoles
    BY <1>2, <1>13 DEF WriteRefreshed, CheckedAt, Retired
  <2>2. \A q \in Process \ {p} : pc'[q] = pc[q]
    BY <1>1, <1>13 DEF WriteRefreshed
  <2>3. pc'[p] \notin MakePcs
    BY <1>1, <1>6, <1>13 DEF WriteRefreshed, MakePcs
  <2> QED
    BY <1>2, <1>5, <2>1, <2>2, <2>3 DEF Current, OnlyCurrentRoles, NoRoles
<1>14. CASE SaveWrite(p)
  <2>1. role' = role /\ role = NoRoles /\ pc' = [pc EXCEPT ![p] = "saveEnd"]
    BY <1>2, <1>14 DEF SaveWrite, Retired
  <2>2. Retired'
    BY <1>1, <1>5, <2>1 DEF MakePcs
  <2> QED
    BY <2>1, <2>2 DEF Current, OnlyCurrentRoles, NoRoles
<1> QED
  BY <1>7, <1>8, <1>10, <1>11, <1>12, <1>13, <1>14

LEMMA CurrentStep ==
  CurrentInv /\ MaxCLI = 0 /\ ~Faults /\ [Next]_vars => CurrentInv'
<1> SUFFICES ASSUME CurrentInv, MaxCLI = 0, ~Faults, [Next]_vars PROVE CurrentInv'
  OBVIOUS
<1>1. CheckedInv'
  BY CheckedStep DEF CurrentInv
<1>2. ASSUME NEW p \in Process, Step(p) \/ Crash(p) PROVE Current'
  <2>1. TypeInv
    BY DEF CurrentInv, CheckedInv, LockInv
  <2> QED
    BY <1>2, <2>1, DeletingSteps, DeletingKeeps, MakingSteps
       DEF Step, Retrieve, Refresh, Login
<1>3. ASSUME UNCHANGED <<pc, nxt, token, role>> PROVE Current'
  BY <1>3 DEF CurrentInv, Current, OnlyCurrentRoles, Retired
<1>4. AwsCLI => FALSE
  BY DEF AwsCLI, CurrentInv, CheckedInv, LockInv, TypeInv, TypeOK, EnvOK
<1> QED
  BY <1>1, <1>2, <1>3, <1>4 DEF Next, AgeToken, AgeMarker, AllEnded, vars, store, work,
     CurrentInv

LEMMA CurrentInitially == Init /\ MaxCLI = 0 => CurrentInv
<1> SUFFICES ASSUME Init, MaxCLI = 0 PROVE Current
  BY CheckedInitially DEF CurrentInv
<1>1. \A k \in CredKeys : role[k] # None => role[k].gen = 1
  BY DEF Init
<1>2. token # None /\ (\E k \in CredKeys : role[k] # None) => token.gen = 1
  <2>1. token = None \/ token \in [at : {1}, rt : {0, 1}, gen : {0, 1}, of : {1}, fits : BOOLEAN]
    BY DEF Init
  <2>2. (\E k \in CredKeys : role[k] # None) => (token # None /\ token.gen = 0 => MaxCLI > 0)
    BY DEF Init
  <2> QED
    BY <2>1, <2>2
<1> QED
  BY <1>1, <1>2 DEF Current, OnlyCurrentRoles, Retired, Init

(* Cached role credentials beside a token are of its generation, while only bmcp
   writes the store and its deletions succeed, whoever dies in the middle:
   saveNewToken deletes the old ones before the new token can be seen. *)
THEOREM CurrentOnly ==
  ASSUME MaxCLI = 0, ~Faults PROVE Spec => []OnlyCurrentRoles
<1>1. CurrentInv => OnlyCurrentRoles
  BY DEF CurrentInv, Current
<1>2. Init => CurrentInv
  BY CurrentInitially
<1>3. CurrentInv /\ [Next]_vars => CurrentInv'
  BY CurrentStep
<1> QED
  BY <1>1, <1>2, <1>3, PTL DEF Spec


-----------------------------------------------------------------------------
(* Refresh tokens.  One that a rotation consumed is the stored one only until *)
(* its successor is written, and nobody else can hold it in hand.             *)

TradePcs   == {"rotate", "write"}
NewPcs     == {"save", "saveWrite"}
Carries(p) == pc[p] \in TradePcs \cup NewPcs /\ nxt[p] # None

Spent == \A r \in spent : r # 0 /\ r <= nTok

StoredLives ==
  token # None =>
    token.rt <= nTok /\ (token.rt \in spent => \E p \in Process : pc[p] \in TradePcs)

CarriedLives ==
  \A p \in Process :
    /\ pc[p] = "redeem" => nxt[p].rt # 0
    /\ Carries(p) => nxt[p].rt <= nTok /\ nxt[p].rt \notin spent

\* Nobody else has the refresh token of a login that is being saved.
CarriedNew ==
  \A p \in Process : pc[p] \in NewPcs /\ nxt[p] # None /\ nxt[p].rt # 0 =>
    /\ token # None => token.rt # nxt[p].rt
    /\ \A q \in Process \ {p} : Carries(q) => nxt[q].rt # nxt[p].rt

Spendable == Spent /\ StoredLives /\ CarriedLives /\ CarriedNew /\ NoReplay
SpendInv  == CheckedInv /\ Spendable

\* A step of p that issues, consumes and writes no token.
Calm(p) ==
  /\ Own(p) /\ token' \in {token, None}
  /\ UNCHANGED <<spent, nTok, replayed>>
  /\ pc'[p] \in TradePcs \cup NewPcs => pc'[p] = pc[p] /\ nxt'[p] = nxt[p]
  /\ pc[p] \in TradePcs => pc'[p] = pc[p]
  /\ pc'[p] = "redeem" => nxt'[p].rt # 0 \/ (pc[p] = "redeem" /\ nxt'[p] = nxt[p])

LEMMA CalmKeeps ==
  ASSUME SpendInv, NEW p \in Process, Calm(p)
  PROVE  Spendable'
<1> USE DEF SpendInv, Spendable, Calm, Own, TradePcs, NewPcs, Carries
<1>1. \A q \in Process : Carries(q)' => Carries(q) /\ nxt'[q] = nxt[q]
  OBVIOUS
<1>2. Spent' /\ NoReplay'
  BY DEF Spent, NoReplay
<1>3. StoredLives'
  BY DEF StoredLives
<1>4. CarriedLives'
  BY <1>1 DEF CarriedLives
<1>5. CarriedNew'
  BY <1>1 DEF CarriedNew
<1> QED
  BY <1>2, <1>3, <1>4, <1>5

LEMMA CalmSteps ==
  ASSUME SpendInv, ~Faults, NEW p \in Process,
         \/ Start(p) \/ TakeLock(p) \/ LockTimeout(p)
         \/ ReadStored(p) \/ Stamp(p) \/ Cached(p) \/ LeafCached(p)
         \/ UsableToken(p) \/ Mint(p) \/ SaveLeaf(p) \/ AssumeHops(p) \/ SaveFinal(p)
         \/ Gateway(p) \/ Evict(p)
         \/ RefreshRead(p) \/ RejectTok(p) \/ RejectRole(p) \/ Drop(p) \/ DropTok(p)
         \/ DropRole(p)
         \/ LoginRead(p) \/ LoginBegin(p) \/ SaveDiscard(p) \/ SaveEnd(p)
         \/ UnlockedEnd(p) \/ UnlockedRm(p) \/ Poll(p) \/ Peek(p) \/ Reread(p)
         \/ Clear(p)
  PROVE  Calm(p)
<1>0. /\ TypeInv
      /\ pc \in [Process -> Pcs] /\ tok \in [Process -> Tokens \cup {None}]
      /\ nxt \in [Process -> Tokens \cup Markers \cup {None}]
      /\ pc[p] \in TradePcs => ~Waiting(p)
  BY DEF SpendInv, CheckedInv, LockInv, TypeInv, TypeOK, ControlOK, WorkOK, Held, Inside,
         InSession, InAll, Waiting, TradePcs, InnerPcs, SectionPcs, EntryPcs
<1> USE <1>0 DEF Calm, Own, TradePcs, NewPcs, To, Stay, At, store, work, ids, env, history
<1>1. CASE Start(p) \/ TakeLock(p)
  BY <1>1 DEF Start, TakeLock
<1>2. CASE LockTimeout(p)
  BY <1>2 DEF LockTimeout, AfterSaveLeaf, AfterDrop
<1>3. CASE ReadStored(p) \/ Stamp(p) \/ Cached(p) \/ LeafCached(p)
  BY <1>3 DEF ReadStored, Stamp, Cached, LeafCached, SetTok, SetNxt
<1>4. CASE UsableToken(p) \/ Mint(p) \/ AssumeHops(p) \/ Gateway(p) \/ Evict(p)
  BY <1>4 DEF UsableToken, Mint, AssumeHops, Gateway, Evict
<1>5. CASE SaveLeaf(p) \/ SaveFinal(p)
  BY <1>5 DEF SaveLeaf, SaveFinal, SaveRole, AfterSaveLeaf
<1>6. \A o : AfterRefresh(p, o) \in {"done", "login", "token", "failed", "drop", "mint"}
  BY DEF AfterRefresh
<1>7. CASE RefreshRead(p)
  BY <1>6, <1>7 DEF RefreshRead, SetTok, SetNxt, Refreshable
<1>8. CASE RejectTok(p) \/ DropTok(p)
  BY <1>8 DEF RejectTok, DropTok, DeleteTok, Attempt, SectionPcs, Inside
<1>9. CASE RejectRole(p) \/ DropRole(p)
  BY <1>6, <1>9 DEF RejectRole, DropRole, AfterDrop
<1>10. CASE Drop(p)
  BY <1>10 DEF Drop, AfterDrop
<1>11. CASE LoginRead(p)
  BY <1>11 DEF LoginRead, SetTok
<1>12. CASE LoginBegin(p)
  BY <1>12 DEF LoginBegin, LoginReturn, SetTok
<1>13. CASE SaveDiscard(p) \/ SaveEnd(p)
  BY <1>13 DEF SaveDiscard, SaveEnd, LoginReturn, SetTok
<1>14. CASE UnlockedEnd(p) \/ UnlockedRm(p)
  BY <1>14 DEF UnlockedEnd, UnlockedRm, UnlockedReturn, LoginReturn, SetTok
<1>15. CASE Poll(p) \/ Peek(p) \/ Reread(p)
  BY <1>15 DEF Poll, Peek, Reread, TakeStored, LoginReturn, SetTok
<1>16. CASE Discard(p) \/ DiscardWrite(p)
  BY <1>16 DEF Discard, DiscardWrite, AfterDiscard, SetNxt
<1>17. CASE ClearRole(p)
  BY <1>17 DEF ClearRole, ClearEnds
<1>18. CASE ClearTok(p)
  BY <1>18 DEF ClearTok, ClearToken, ClearEnds, SectionPcs, Inside
<1> QED
  BY <1>1, <1>2, <1>3, <1>4, <1>5, <1>7, <1>8, <1>9, <1>10, <1>11, <1>12, <1>13,
     <1>14, <1>15, <1>16, <1>17, <1>18 DEF Clear

LEMMA NobodyTrades ==
  ASSUME CheckedInv, NEW p \in Process, Inside(p)
  PROVE  \A q \in Process \ {p} : pc[q] \notin TradePcs
<1>1. TradePcs \subseteq InnerPcs
  BY DEF TradePcs, InnerPcs, SectionPcs, EntryPcs
<1> QED
  BY <1>1, OneInside DEF CheckedInv, LockInv, Held

LEMMA SpentNat == TypeInv => \A r \in spent : r \in Nat
BY DEF TypeInv, TypeOK, EnvOK, TokenIds

\* Redeeming: the stored refresh token lives, and is consumed only when there is
\* another to write in its place.
LEMMA RedeemSpends ==
  ASSUME SpendInv, ~Faults, NEW p \in Process, Redeem(p)
  PROVE  Spendable'
<1>0. /\ TypeInv
      /\ pc \in [Process -> Pcs] /\ nxt \in [Process -> Tokens \cup Markers \cup {None}]
      /\ nTok \in Nat
  BY Bounds DEF SpendInv, CheckedInv, LockInv, TypeInv, TypeOK, ControlOK, WorkOK, IdsOK,
     TokenIds
<1>1. pc[p] = "redeem" /\ Inside(p)
  BY DEF Redeem, At, SectionPcs, Inside
<1>2. token = nxt[p] /\ nxt[p] \in Tokens /\ token # None /\ nxt[p].rt # 0
  BY <1>0, <1>1, NoneApart
     DEF SpendInv, CheckedInv, Checked, CheckedAt, TypeInv, InHand, NxtPcs, Spendable,
         CarriedLives
<1>3. \A q \in Process : pc[q] \notin TradePcs
  BY <1>1, NobodyTrades DEF SpendInv, TradePcs
<1>4. Spent /\ StoredLives /\ CarriedLives /\ CarriedNew /\ NoReplay
  BY DEF SpendInv, Spendable
<1>5. token.rt \notin spent /\ token.rt <= nTok
  BY <1>2, <1>3, <1>4 DEF StoredLives
<1>6. NoReplay' /\ token' = token
  BY <1>2, <1>4, <1>5 DEF Redeem, NoReplay, store
<1>7. \A q \in Process \ {p} : pc'[q] = pc[q] /\ nxt'[q] = nxt[q]
  BY <1>0 DEF Redeem, Stay, To
<1>8. \A q \in Process \ {p} :
        /\ Carries(q)' = Carries(q)
        /\ Carries(q) => pc[q] \in NewPcs
  BY <1>3, <1>7 DEF Carries
<1>9. \A o : AfterRefresh(p, o) \in {"done", "login", "token", "failed", "drop", "mint"}
  BY DEF AfterRefresh
<1>10. \A q \in Process : Carries(q) => nxt[q].rt \in Nat
  BY <1>0 DEF Carries, TypeInv, InHand, NxtPcs, TradePcs, NewPcs, Tokens, TokenIds
<1>11. CASE /\ UNCHANGED <<nTok, spent>>
            /\ pc'[p] \notin TradePcs \cup NewPcs \cup {"redeem"}
  BY <1>3, <1>4, <1>5, <1>6, <1>7, <1>8, <1>11
     DEF Spendable, Spent, StoredLives, CarriedLives, CarriedNew, Carries, NewPcs
<1>12. CASE /\ nTok' = nTok + 1 /\ spent' = spent
            /\ pc'[p] = "write" /\ nxt'[p].rt = nxt[p].rt
  <2>1. Spent' /\ StoredLives'
    BY <1>0, <1>2, <1>4, <1>5, <1>6, <1>12, SpentNat DEF Spent, StoredLives, Tokens, TokenIds
  <2>2. CarriedLives'
    BY <1>0, <1>2, <1>4, <1>5, <1>7, <1>8, <1>10, <1>12 DEF CarriedLives, Tokens, TokenIds
  <2>3. CarriedNew'
    BY <1>2, <1>4, <1>6, <1>7, <1>8, <1>12 DEF CarriedNew, NewPcs
  <2> QED
    BY <1>6, <2>1, <2>2, <2>3 DEF Spendable
<1>13. CASE /\ nTok' = nTok + 1 /\ spent' = spent \cup {nxt[p].rt}
            /\ pc'[p] = "rotate" /\ nxt'[p].rt = nTok + 1
  <2>1. Spent' /\ StoredLives'
    BY <1>0, <1>2, <1>4, <1>5, <1>6, <1>13, SpentNat
       DEF Spent, StoredLives, Tokens, TokenIds, TradePcs
  <2>2. CarriedLives'
    <3>1. \A q \in Process \ {p} : Carries(q) => nxt[q].rt \notin spent'
      BY <1>2, <1>4, <1>8, <1>13 DEF CarriedLives, CarriedNew, Carries
    <3> QED
      BY <1>0, <1>2, <1>4, <1>5, <1>7, <1>8, <1>10, <1>13, <3>1, SpentNat
         DEF CarriedLives, Spent, Carries, Tokens, TokenIds
  <2>3. CarriedNew'
    BY <1>0, <1>4, <1>6, <1>7, <1>8, <1>10, <1>13
       DEF CarriedNew, CarriedLives, NewPcs, Carries
  <2> QED
    BY <1>6, <2>1, <2>2, <2>3 DEF Spendable
<1> QED
  <2>1. /\ [nxt[p] EXCEPT !.at = nTok + 1].rt = nxt[p].rt
        /\ [nxt[p] EXCEPT !.at = nTok + 1, !.rt = nTok + 1].rt = nTok + 1
    BY <1>2 DEF Tokens
  <2>2. \/ /\ UNCHANGED <<nTok, spent>>
           /\ pc'[p] \notin TradePcs \cup NewPcs \cup {"redeem"}
        \/ /\ nTok' = nTok + 1 /\ spent' = spent /\ pc'[p] = "write"
           /\ nxt'[p] = [nxt[p] EXCEPT !.at = nTok + 1]
        \/ /\ nTok' = nTok + 1 /\ spent' = spent \cup {nxt[p].rt} /\ pc'[p] = "rotate"
           /\ nxt'[p] = [nxt[p] EXCEPT !.at = nTok + 1, !.rt = nTok + 1]
    BY <1>0, <1>9 DEF Redeem, Stay, To, Attempt, TradePcs, NewPcs
  <2> QED
    BY <1>11, <1>12, <1>13, <2>1, <2>2

\* What is written was carried, and a browser's token is a new one.
LEMMA WritingSpends ==
  ASSUME SpendInv, ~Faults, NEW p \in Process,
         \/ StampWrite(p) \/ Rotate(p) \/ SaveRetire(p) \/ WriteRefreshed(p)
         \/ SaveWrite(p) \/ Browser(p)
  PROVE  Spendable'
<1>0. /\ TypeInv
      /\ pc \in [Process -> Pcs] /\ nxt \in [Process -> Tokens \cup Markers \cup {None}]
      /\ nTok \in Nat
  BY Bounds DEF SpendInv, CheckedInv, LockInv, TypeInv, TypeOK, ControlOK, WorkOK, IdsOK,
     TokenIds
<1>1. Spent /\ StoredLives /\ CarriedLives /\ CarriedNew /\ NoReplay
  BY DEF SpendInv, Spendable
<1>2. spent' = spent /\ NoReplay'
  <2>1. UNCHANGED <<spent, replayed>>
    BY DEF StampWrite, Rotate, SaveRetire, Retire, WriteRefreshed, SaveWrite, Browser,
       Attempt, env, history
  <2> QED
    BY <1>1, <2>1 DEF NoReplay
<1>3. \A q \in Process : Carries(q) => nxt[q].rt \in Nat
  BY <1>0 DEF Carries, TypeInv, InHand, NxtPcs, TradePcs, NewPcs, Tokens, TokenIds
<1>4. CASE StampWrite(p)
  <2>1. token = nxt[p] /\ nxt[p] \in Tokens /\ pc[p] = "stampWrite"
    BY <1>0, <1>4
       DEF StampWrite, At, SpendInv, CheckedInv, Checked, CheckedAt, TypeInv, InHand, NxtPcs
  <2>2. token' = [nxt[p] EXCEPT !.gen = nGen + 1]
    BY <1>4 DEF StampWrite, Attempt
  <2>3. token # None /\ token'.rt = token.rt
    BY <2>1, <2>2, NoneApart DEF Tokens
  <2>4. nTok' = nTok /\ nxt' = nxt /\ pc' = [pc EXCEPT ![p] = "cached"]
    BY <1>4 DEF StampWrite, To
  <2>5. \A q \in Process : Carries(q)' => Carries(q)
    BY <1>0, <2>4 DEF Carries, TradePcs, NewPcs
  <2>6. Spent' /\ StoredLives'
    BY <1>0, <1>1, <1>2, <2>1, <2>3, <2>4 DEF Spent, StoredLives, TradePcs
  <2>7. CarriedLives' /\ CarriedNew'
    BY <1>0, <1>1, <1>2, <2>3, <2>4, <2>5 DEF CarriedLives, CarriedNew, NewPcs
  <2> QED
    BY <1>2, <2>6, <2>7 DEF Spendable
<1>5. CASE Rotate(p) \/ SaveRetire(p)
  <2>1. pc[p] \in {"rotate", "save"} /\ nxt[p] \in Tokens
    BY <1>0, <1>5 DEF Rotate, SaveRetire, Retire, At, TypeInv, InHand, NxtPcs
  <2>2. /\ token' = token /\ nTok' = nTok
        /\ nxt' = [nxt EXCEPT ![p].gen = nGen + 1]
        /\ \/ pc[p] = "rotate" /\ pc' = [pc EXCEPT ![p] = "write"]
           \/ pc[p] = "save" /\ pc' = [pc EXCEPT ![p] = "saveWrite"]
    BY <1>5 DEF Rotate, SaveRetire, Retire, At, Stay
  <2>3. nxt'[p].rt = nxt[p].rt /\ nxt[p] # None
    BY <1>0, <2>1, <2>2, NoneApart DEF Tokens
  <2>4. \A q \in Process :
          /\ Carries(q)' => Carries(q) /\ nxt'[q].rt = nxt[q].rt
          /\ pc'[q] \in NewPcs /\ nxt'[q] # None => pc[q] \in NewPcs /\ nxt[q] # None
          /\ pc[q] \in TradePcs => pc'[q] \in TradePcs
          /\ pc'[q] = "redeem" => pc[q] = "redeem" /\ nxt'[q] = nxt[q]
    BY <1>0, <2>1, <2>2, <2>3 DEF Carries, TradePcs, NewPcs
  <2>5. Spent' /\ StoredLives'
    BY <1>1, <1>2, <2>2, <2>4 DEF Spent, StoredLives
  <2>6. CarriedLives'
    BY <1>1, <1>2, <2>2, <2>4 DEF CarriedLives
  <2>7. CarriedNew'
    BY <1>1, <2>2, <2>4 DEF CarriedNew, Carries, NewPcs
  <2> QED
    BY <1>2, <2>5, <2>6, <2>7 DEF Spendable
<1>6. CASE WriteRefreshed(p) \/ SaveWrite(p)
  <2>1. /\ pc[p] \in {"write", "saveWrite"} /\ nxt[p] \in Tokens /\ nxt[p] # None
        /\ Carries(p)
    BY <1>0, <1>6, NoneApart
       DEF WriteRefreshed, SaveWrite, At, TypeInv, InHand, NxtPcs, Carries, TradePcs, NewPcs
  <2>2. \A o : AfterRefresh(p, o) \in {"done", "login", "token", "failed", "drop", "mint"}
    BY DEF AfterRefresh
  <2>3. /\ token' = nxt[p] /\ nTok' = nTok /\ nxt' = nxt
        /\ \A q \in Process \ {p} : pc'[q] = pc[q]
        /\ pc'[p] \notin TradePcs \cup NewPcs \cup {"redeem"}
    BY <1>0, <1>6, <2>2
       DEF WriteRefreshed, SaveWrite, To, Stay, Attempt, TradePcs, NewPcs, ids, work
  <2>4. \A q \in Process : Carries(q)' => Carries(q) /\ q # p
    BY <2>3 DEF Carries
  <2>5. Spent' /\ StoredLives'
    BY <1>1, <1>2, <2>1, <2>3 DEF Spent, StoredLives, CarriedLives
  <2>6. CarriedLives'
    BY <1>1, <1>2, <2>3, <2>4 DEF CarriedLives
  <2>7. CarriedNew'
    BY <1>1, <2>1, <2>3, <2>4 DEF CarriedNew, Carries
  <2> QED
    BY <1>2, <2>5, <2>6, <2>7 DEF Spendable
<1>7. CASE Browser(p)
  <2>1. /\ token' = token /\ nTok' \in {nTok, nTok + 1} /\ pc[p] = "browser"
        /\ pc' = [pc EXCEPT ![p] = "save"]
        /\ \A q \in Process \ {p} : nxt'[q] = nxt[q]
    BY <1>0, <1>7 DEF Browser, At, To, SetNxt, store
  <2>2. nxt'[p] # None => nTok' = nTok + 1 /\ nxt'[p].rt \in {0, nTok + 1}
    BY <1>0, <1>7 DEF Browser, SetNxt
  <2>3. \A q \in Process \ {p} :
          /\ Carries(q)' = Carries(q) /\ pc'[q] = pc[q]
          /\ Carries(q) => nxt[q].rt <= nTok
    BY <1>0, <1>1, <2>1 DEF Carries, CarriedLives
  <2>4. token # None => token.rt \in Nat
    BY DEF SpendInv, CheckedInv, LockInv, TypeInv, TypeOK, StoreOK, Tokens, TokenIds
  <2>5. Spent'
    BY <1>0, <1>1, <1>2, <2>1, SpentNat DEF Spent
  <2>6. StoredLives'
    BY <1>0, <1>1, <1>2, <2>1, <2>4 DEF StoredLives, TradePcs
  <2>7. CarriedLives'
    BY <1>0, <1>1, <1>2, <1>3, <2>1, <2>2, <2>3, SpentNat DEF CarriedLives, Spent, Carries
  <2>8. CarriedNew'
    BY <1>0, <1>1, <1>3, <2>1, <2>2, <2>3, <2>4
       DEF CarriedNew, StoredLives, Carries, NewPcs
  <2> QED
    BY <1>2, <2>5, <2>6, <2>7, <2>8 DEF Spendable
<1> QED
  BY <1>4, <1>5, <1>6, <1>7

LEMMA SpendStep ==
  /\ SpendInv /\ MaxCLI = 0 /\ MaxCrashes = 0 /\ ~Faults
  /\ [Next]_vars
  => SpendInv'
<1> SUFFICES ASSUME SpendInv, MaxCLI = 0, MaxCrashes = 0, ~Faults, [Next]_vars
             PROVE  SpendInv'
  OBVIOUS
<1>1. CheckedInv'
  BY CheckedStep DEF SpendInv
<1>2. nCrash \in 0 .. MaxCrashes /\ nCLI \in 0 .. MaxCLI
  BY DEF SpendInv, CheckedInv, LockInv, TypeInv, TypeOK, EnvOK
<1>3. ASSUME NEW p \in Process, Step(p) PROVE Spendable'
  BY <1>3, CalmSteps, CalmKeeps, RedeemSpends, WritingSpends
     DEF Step, Retrieve, Refresh, Login
<1>4. \A p \in Process : ~Crash(p)
  BY <1>2 DEF Crash
<1>5. ~AwsCLI
  BY <1>2 DEF AwsCLI
<1>6. ASSUME UNCHANGED <<pc, nxt, token, spent, nTok, replayed>> PROVE Spendable'
  <2>1. \A p \in Process : Carries(p)' = Carries(p)
    BY <1>6 DEF Carries
  <2> QED
    BY <1>6, <2>1
       DEF SpendInv, Spendable, Spent, StoredLives, CarriedLives, CarriedNew, NoReplay
<1> QED
  BY <1>1, <1>3, <1>4, <1>5, <1>6 DEF Next, AgeToken, AgeMarker, AllEnded, vars, store,
     work, ids, env, history, SpendInv

LEMMA SpendInitially == Init => SpendInv
<1> SUFFICES ASSUME Init PROVE Spendable
  BY CheckedInitially DEF SpendInv
<1>1. token # None => token.rt \in {0, 1}
  BY DEF Init
<1> QED
  BY <1>1 DEF Init, Spendable, Spent, StoredLives, CarriedLives, CarriedNew, Carries,
     NoReplay, TradePcs, NewPcs

(* A refresh token is never redeemed again after the rotation that consumed it,
   as long as processes live, replies arrive and only bmcp writes the store: the
   refresh reads the token under the lock it is redeemed and replaced under
   (refresh). *)
THEOREM NoneReplayed ==
  ASSUME MaxCLI = 0, MaxCrashes = 0, ~Faults PROVE Spec => []NoReplay
<1>1. SpendInv => NoReplay
  BY DEF SpendInv, Spendable
<1>2. SpendInv /\ [Next]_vars => SpendInv'
  BY SpendStep
<1> QED
  BY <1>1, <1>2, SpendInitially, PTL DEF Spec

=============================================================================

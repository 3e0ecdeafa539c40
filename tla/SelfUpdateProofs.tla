--------------------------- MODULE SelfUpdateProofs ---------------------------
(* Theorems about UpdateLock and SelfUpdate, for any updaters and releases.  *)
EXTENDS SelfUpdate, TLAPS

-----------------------------------------------------------------------------
(* The lock by itself *)

\* Who has created the lock file and may still sign, use or remove it.
Owns(p) == lpc[p] \in {"sign", "held", "remove"}
\* Who may have left its lock file behind.
Left(r) == lpc[r] = "dead" \/ (LockFaults /\ lpc[r] = "refused")

\* The file names a process that has created one and not removed it; it is
\* signed while that process relies on it, and stale only when it was left or its
\* process took too long.
LockNamed ==
  lock # Absent =>
    /\ lpc[lock.by] \notin {"out", "stat", "steal", "recreate", "released"}
    /\ lpc[lock.by] \in {"held", "remove"} => lock.signed
    /\ lpc[lock.by] = "refused" => LockFaults
    /\ lock.stale => Left(lock.by) \/ lock.by \in outlived

\* While nobody has left a lock or outlived its age, the file is its owner's and
\* nobody takes it away.
LockExact ==
  outlived = {} /\ (\A r \in Updater : ~Left(r)) =>
    \A p \in Updater :
      /\ Owns(p) => lock # Absent /\ lock.by = p
      /\ lpc[p] \notin {"steal", "recreate"}

\* What history says of the present.
Apart == overlapped \/ OneUpdater

LockInv == LockTypeOK /\ LockNamed /\ LockExact /\ Apart

\* A lock file is told from the absence of one.
LEMMA LockThere ==
  ASSUME LockTypeOK, lock # Absent
  PROVE  lock \in LockFiles /\ lock.by \in Updater
BY DEF LockTypeOK, LockFiles

LEMMA NotAbsent == \A f \in LockFiles : f # Absent
<1> TAKE f \in LockFiles
<1>1. DOMAIN f = {"by", "signed", "stale"} /\ DOMAIN Absent = {"absent"}
  BY DEF LockFiles, Absent
<1> QED
  BY <1>1

\* A lock file just written is its creator's, and fresh.
LEMMA NewLock ==
  ASSUME NEW p \in Updater, NEW b \in BOOLEAN, NEW f,
         f = [by |-> p, signed |-> b, stale |-> FALSE]
  PROVE  f \in LockFiles /\ f # Absent /\ f.by = p /\ f.signed = b /\ ~f.stale
<1>1. f \in LockFiles
  BY DEF LockFiles
<1> QED
  BY <1>1, NotAbsent

LEMMA LockStart == LockInit => LockInv
<1> SUFFICES ASSUME LockInit PROVE LockInv
  OBVIOUS
<1>1. LockTypeOK
  <2>1. lpc \in [Updater -> LockPcs] /\ nDead \in 0 .. MaxDead
    BY LockSwitches DEF LockInit, LockPcs
  <2>2. outlived \subseteq Updater /\ overlapped \in BOOLEAN
    BY DEF LockInit
  <2>3. lock \in LockFiles \cup {Absent}
    BY DEF LockInit
  <2> QED
    BY <2>1, <2>2, <2>3 DEF LockTypeOK
<1>2. LockNamed /\ LockExact /\ OneUpdater
  BY DEF LockInit, LockNamed, LockExact, Owns, OneUpdater, Holding
<1> QED
  BY <1>1, <1>2 DEF LockInv, Apart

\* Every step keeps the types.
LEMMA LockTyped == LockTypeOK /\ [LockNext]_lockVars => LockTypeOK'
<1> SUFFICES ASSUME LockTypeOK, [LockNext]_lockVars PROVE LockTypeOK'
  OBVIOUS
<1> USE LockSwitches DEF LockTypeOK, LockPcs, LockFiles, Goto, history
<1>1. CASE UNCHANGED lockVars
  BY <1>1 DEF lockVars
<1>2. ASSUME NEW p \in Updater, Acquire(p) PROVE LockTypeOK'
  <2>1. CASE Create(p) \/ Recreate(p)
    <3>1. /\ lpc' \in [Updater -> LockPcs] /\ UNCHANGED <<nDead, outlived, overlapped>>
          /\ lock' \in {lock, [by |-> p, signed |-> FALSE, stale |-> FALSE]}
      BY <2>1 DEF Create, Recreate, CreateLock
    <3>2. lock' \in LockFiles \cup {Absent}
      BY <3>1, NewLock
    <3> QED
      BY <3>1, <3>2
  <2>2. CASE SignLock(p)
    <3>1. lock' \in {lock, [by |-> p, signed |-> TRUE, stale |-> FALSE]}
      BY <2>2 DEF SignLock
    <3>2. lock' \in LockFiles \cup {Absent}
      BY <3>1, NewLock
    <3> QED
      BY <2>2, <3>2 DEF SignLock
  <2>3. CASE JudgeLock(p) \/ StealLock(p)
    BY <2>3 DEF JudgeLock, StealLock
  <2> QED
    BY <1>2, <2>1, <2>2, <2>3 DEF Acquire
<1>3. ASSUME NEW p \in Updater, Release(p) PROVE LockTypeOK'
  BY <1>3 DEF Release, ReleaseRead, ReleaseRemove
<1>4. ASSUME NEW p \in Updater, Perish(p) PROVE LockTypeOK'
  BY <1>4 DEF Perish
<1>5. CASE GrowStale
  <2>1. lock' \in LockFiles /\ outlived' \subseteq Updater
    BY <1>5 DEF GrowStale
  <2> QED
    BY <1>5, <2>1 DEF GrowStale
<1>6. CASE LockDone
  BY <1>6 DEF LockDone, lockVars
<1> QED
  BY <1>1, <1>2, <1>3, <1>4, <1>5, <1>6 DEF LockNext

\* Nobody takes back that it has left a lock, nor anything of the history.
LEMMA LeftForGood ==
  ASSUME LockTypeOK, [LockNext]_lockVars
  PROVE  /\ \A r \in Updater : Left(r) => Left(r)'
         /\ outlived \subseteq outlived' /\ (overlapped => overlapped')
<1> USE DEF Left, Goto, LockTypeOK, history
<1> DEFINE Stays == /\ \A r \in Updater : Left(r) => Left(r)'
                    /\ outlived \subseteq outlived' /\ (overlapped => overlapped')
<1>1. CASE UNCHANGED lockVars
  BY <1>1 DEF lockVars
<1>2. ASSUME NEW p \in Updater, Acquire(p) \/ Release(p) PROVE Stays
  <2>1. lpc[p] \notin {"dead", "refused"} /\ \E l : lpc' = [lpc EXCEPT ![p] = l]
    BY <1>2 DEF Acquire, Release, Create, Recreate, CreateLock, SignLock, JudgeLock,
                StealLock, ReleaseRead, ReleaseRemove
  <2>2. outlived' = outlived /\ (overlapped => overlapped')
    BY <1>2 DEF Acquire, Release, Create, Recreate, CreateLock, SignLock, JudgeLock,
                StealLock, ReleaseRead, ReleaseRemove
  <2> QED
    BY <2>1, <2>2
<1>3. ASSUME NEW p \in Updater, Perish(p) PROVE Stays
  BY <1>3 DEF Perish
<1>4. CASE GrowStale \/ LockDone
  BY <1>4 DEF GrowStale, LockDone, lockVars
<1> QED
  BY <1>1, <1>2, <1>3, <1>4 DEF LockNext

\* Two hold the lock together from the moment the second one signs its own.
LEMMA ApartKept ==
  ASSUME LockTypeOK, Apart, [LockNext]_lockVars PROVE Apart'
<1> USE DEF Goto, LockTypeOK, history, Apart, OneUpdater, Holding
<1>1. ASSUME NEW p \in Updater, SignLock(p) PROVE Apart'
  <2>1. CASE lpc' = [lpc EXCEPT ![p] = "held"]
    BY <1>1, <2>1 DEF SignLock
  <2>2. CASE lpc' = [lpc EXCEPT ![p] = "refused"]
    BY <1>1, <2>2 DEF SignLock
  <2> QED
    BY <1>1, <2>1, <2>2 DEF SignLock
<1>2. ASSUME NEW p \in Updater,
             \/ Create(p) \/ Recreate(p) \/ JudgeLock(p) \/ StealLock(p)
             \/ ReleaseRead(p) \/ ReleaseRemove(p) \/ Perish(p)
      PROVE  Apart'
  <2>1. /\ UNCHANGED overlapped
        /\ \E l : /\ lpc' = [lpc EXCEPT ![p] = l]
                  /\ l \in {"held", "remove"} => lpc[p] = "held"
    BY <1>2 DEF Create, Recreate, CreateLock, JudgeLock, StealLock, ReleaseRead,
                ReleaseRemove, Perish
  <2> QED
    BY <2>1
<1>3. CASE GrowStale \/ LockDone \/ UNCHANGED lockVars
  BY <1>3 DEF GrowStale, LockDone, lockVars
<1> QED
  BY <1>1, <1>2, <1>3 DEF LockNext, Acquire, Release

LEMMA LockKept == LockInv /\ [LockNext]_lockVars => LockInv'
<1> SUFFICES ASSUME LockInv, [LockNext]_lockVars PROVE LockNamed' /\ LockExact'
  BY LockTyped, ApartKept DEF LockInv
<1> USE DEF LockInv
<1> DEFINE Kept == LockNamed' /\ LockExact'
<1>0. /\ LockTypeOK' /\ outlived \subseteq outlived'
      /\ \A r \in Updater : Left(r) => Left(r)'
  BY LockTyped, LeftForGood
<1>1. CASE UNCHANGED lockVars
  BY <1>1 DEF lockVars, history, LockNamed, LockExact, Owns, Left
<1>2. ASSUME NEW p \in Updater, Create(p) \/ Recreate(p) PROVE Kept
  <2>1. /\ lpc[p] \in {"out", "recreate"}
        /\ \/ /\ lock = Absent
              /\ lock' = [by |-> p, signed |-> FALSE, stale |-> FALSE]
              /\ lpc' = [lpc EXCEPT ![p] = "sign"]
           \/ /\ lock # Absent /\ UNCHANGED lock
              /\ lpc[p] = "out" => lpc' = [lpc EXCEPT ![p] = "stat"]
              /\ lpc[p] = "recreate" => lpc' = [lpc EXCEPT ![p] = "refused"]
    BY <1>2 DEF Create, Recreate, CreateLock, Goto
  <2>2. LockNamed'
    BY <1>0, <2>1, LockThere DEF LockNamed, LockTypeOK, Left
  <2>3. LockExact'
    <3> SUFFICES ASSUME outlived' = {}, \A r \in Updater : ~Left(r)', NEW q \in Updater
                 PROVE  /\ Owns(q)' => lock' # Absent /\ lock'.by = q
                        /\ lpc'[q] \notin {"steal", "recreate"}
      BY DEF LockExact
    <3>1. /\ Owns(q) => lock # Absent /\ lock.by = q
          /\ lpc[q] \notin {"steal", "recreate"} /\ lpc[p] = "out"
      BY <1>0, <2>1 DEF LockExact
    <3>2. lock = Absent => lock' # Absent /\ lock'.by = p
      BY <2>1, NewLock
    <3> QED
      BY <2>1, <3>1, <3>2 DEF LockTypeOK, Owns
  <2> QED
    BY <2>2, <2>3
<1>3. ASSUME NEW p \in Updater, SignLock(p) PROVE Kept
  <2>1. /\ lpc[p] = "sign"
        /\ \E l \in {"held", "refused"} :
             lpc' = [lpc EXCEPT ![p] = l] /\ (l = "refused" => LockFaults)
        /\ \/ lock' = lock /\ (lpc'[p] = "held" => lock = Absent \/ lock.by # p)
           \/ /\ lock # Absent /\ lock.by = p
              /\ lock' = [by |-> p, signed |-> TRUE, stale |-> FALSE]
    BY <1>3 DEF SignLock, Goto, LockTypeOK
  <2>4. lock' = lock \/ (/\ lock # Absent /\ lock.by = p /\ lock' # Absent
                         /\ lock'.by = p /\ lock'.signed /\ ~lock'.stale)
    BY <2>1, NewLock
  <2>2. LockNamed'
    BY <1>0, <2>1, <2>4, LockThere DEF LockNamed, LockTypeOK, Left
  <2>3. LockExact'
    BY <1>0, <2>1, <2>4, LockThere DEF LockExact, LockTypeOK, Owns, Left
  <2> QED
    BY <2>2, <2>3
<1>4. ASSUME NEW p \in Updater, JudgeLock(p) PROVE Kept
  <2>1. /\ lpc[p] = "stat" /\ UNCHANGED lock
        /\ \/ lock # Absent /\ lock.stale /\ lpc' = [lpc EXCEPT ![p] = "steal"]
           \/ lpc' = [lpc EXCEPT ![p] = "refused"]
    BY <1>4 DEF JudgeLock, Goto
  <2>2. LockNamed'
    BY <1>0, <2>1, LockThere DEF LockNamed, LockTypeOK, Left
  <2>3. LockExact'
    BY <1>0, <2>1, LockThere DEF LockExact, LockNamed, LockTypeOK, Owns
  <2> QED
    BY <2>2, <2>3
<1>5. ASSUME NEW p \in Updater, StealLock(p) PROVE Kept
  <2>1. lpc[p] = "steal" /\ lock' = Absent /\ (outlived # {} \/ \E r \in Updater : Left(r))
    BY <1>5 DEF StealLock, LockExact
  <2> QED
    BY <1>0, <2>1 DEF LockNamed, LockExact
<1>6. ASSUME NEW p \in Updater, ReleaseRead(p) PROVE Kept
  <2>1. /\ lpc[p] = "held" /\ UNCHANGED lock
        /\ \/ /\ lpc' = [lpc EXCEPT ![p] = "remove"]
           \/ /\ lpc' = [lpc EXCEPT ![p] = "released"]
              /\ ~(lock # Absent /\ lock.by = p /\ lock.signed)
    BY <1>6 DEF ReleaseRead, Goto
  <2>2. LockNamed'
    BY <1>0, <2>1, LockThere DEF LockNamed, LockTypeOK, Left
  <2>3. LockExact'
    BY <1>0, <2>1, LockThere DEF LockExact, LockTypeOK, Owns
  <2> QED
    BY <2>2, <2>3
<1>7. ASSUME NEW p \in Updater, ReleaseRemove(p) PROVE Kept
  <2>1. /\ lpc[p] = "remove" /\ lock' = Absent
        /\ lpc' = [lpc EXCEPT ![p] = "released"]
    BY <1>7 DEF ReleaseRemove, Goto
  <2>2. LockNamed'
    BY <2>1 DEF LockNamed
  <2>3. LockExact'
    BY <1>0, <2>1 DEF LockExact, LockTypeOK, Owns
  <2> QED
    BY <2>2, <2>3
<1>8. ASSUME NEW p \in Updater, Perish(p) PROVE Kept
  <2>1. lpc' = [lpc EXCEPT ![p] = "dead"] /\ UNCHANGED lock
    BY <1>8 DEF Perish, Goto
  <2>2. LockNamed'
    BY <1>0, <2>1, LockThere DEF LockNamed, LockTypeOK, Left
  <2>3. LockExact'
    BY <2>1 DEF LockExact, LockTypeOK, Left
  <2> QED
    BY <2>2, <2>3
<1>9. CASE GrowStale
  <2>1. /\ lock # Absent /\ UNCHANGED lpc /\ lock' = [lock EXCEPT !.stale = TRUE]
        /\ lpc[lock.by] \in LockEnds \/ lock.by \in outlived'
    BY <1>9 DEF GrowStale
  <2>2. Left(lock.by) \/ lock.by \in outlived'
    BY <2>1 DEF LockNamed, LockEnds, Left
  <2>3. lock' # Absent /\ lock'.by = lock.by /\ lock'.signed = lock.signed
    BY <2>1, LockThere, <1>0, NotAbsent DEF LockTypeOK, LockFiles
  <2> QED
    BY <1>0, <2>1, <2>2, <2>3, LockThere DEF LockNamed, LockExact, Left, Owns
<1>10. CASE LockDone
  BY <1>10 DEF LockDone, lockVars, history, LockNamed, LockExact, Owns, Left
<1> QED
  BY <1>1, <1>2, <1>3, <1>4, <1>5, <1>6, <1>7, <1>8, <1>9, <1>10
     DEF LockNext, Acquire, Release

LEMMA LockInvariant == LockSpec => []LockInv
BY LockStart, LockKept, PTL DEF LockSpec

LEMMA OverlapFacts == LockInv => OverlapHasCause
BY DEF LockInv, LockExact, OverlapHasCause, Holding, Owns, Left

(* Whatever the number of updaters, and whoever is suspended: two hold the lock at
   once only where one has outlived staleLockAge or a third one left its file
   behind (acquireUpdateLock). *)
THEOREM OverlapExplained == LockSpec => []OverlapHasCause
BY LockInvariant, OverlapFacts, PTL

-----------------------------------------------------------------------------
(* The updates take the lock by its protocol, and no other way. *)

LEMMA LockStep == [UpdateNext]_uvars => [LockNext]_lockVars
<1> SUFFICES ASSUME [UpdateNext]_uvars PROVE [LockNext]_lockVars
  OBVIOUS
<1>1. CASE UNCHANGED uvars
  BY <1>1 DEF uvars
<1>2. ASSUME NEW p \in Updater, Before(p) PROVE [LockNext]_lockVars
  BY <1>2 DEF Before, StartUpdate, CheckLatest, ReadBlocked, OldThere, Locking, LockNext
<1>3. ASSUME NEW p \in Updater, Apply(p) PROVE UNCHANGED lockVars
  BY <1>3 DEF Apply, Fetch, Stage, StageWhole, VerifyStaged, CheckSignature, MoveOld,
              MoveNew, MoveBack, Record
<1>4. ASSUME NEW p \in Updater, Rollback(p) PROVE UNCHANGED lockVars
  BY <1>4 DEF Rollback, ReadTrail, RenameBack, RecordBack
<1>5. ASSUME NEW p \in Updater, Unlocking(p) \/ Dies(p) PROVE LockNext
  BY <1>5 DEF Unlocking, Dies, LockNext
<1>6. CASE Staleness \/ Publish \/ AllDone
  BY <1>6 DEF Staleness, Publish, AllDone, uvars, LockNext
<1> QED
  BY <1>1, <1>2, <1>3, <1>4, <1>5, <1>6 DEF UpdateNext

THEOREM UpdatesLock == UpdateSpec => LockSpec
<1>1. UpdateInit => LockInit
  BY DEF UpdateInit
<1> QED
  BY <1>1, LockStep, PTL DEF UpdateSpec, LockSpec

LEMMA UpdateLocked == UpdateSpec => []LockInv
BY UpdatesLock, LockInvariant, PTL

(* An update that ended by itself leaves no lock that refuses the next one. *)
THEOREM Unlocked == UpdateSpec => []NoLeftover
<1>1. LockInv => NoLeftover
  BY DEF LockInv, LockNamed, NoLeftover
<1> QED
  BY <1>1, UpdateLocked, PTL

\* Of two updaters only one that outlived its lock's age can overlap.
LEMMA TwoApart ==
  ASSUME \A p, q, r \in Updater : p = q \/ q = r \/ p = r
  PROVE  UpdateSpec => [](overlapped => outlived # {})
<1> DEFINE Seen == overlapped => outlived # {}
<1>1. UpdateInit => Seen
  BY DEF UpdateInit, LockInit
<1>2. OverlapHasCause' /\ LockTypeOK /\ Seen /\ [LockNext]_lockVars => Seen'
  <2> SUFFICES ASSUME OverlapHasCause', LockTypeOK, Seen, [LockNext]_lockVars, overlapped'
               PROVE  outlived' # {}
    OBVIOUS
  <2>1. outlived \subseteq outlived'
    BY LeftForGood
  <2>2. CASE ~overlapped
    <3>1. \E p, q \in Updater : p # q /\ Holding(p)' /\ Holding(q)'
      <4>1. PICK p \in Updater : SignLock(p)
        BY <2>2 DEF LockNext, lockVars, history, Acquire, Release, Create, Recreate,
                    CreateLock, JudgeLock, StealLock, ReleaseRead, ReleaseRemove,
                    Perish, GrowStale, LockDone
      <4>2. lpc' = [lpc EXCEPT ![p] = "held"] /\ \E q \in Updater \ {p} : Holding(q)
        BY <2>2, <4>1 DEF SignLock, Goto
      <4> QED
        BY <4>2 DEF Holding, LockTypeOK
    <3> QED
      BY <3>1 DEF OverlapHasCause
  <2> QED
    BY <2>1, <2>2
<1> QED
  BY <1>1, <1>2, UpdateLocked, OverlapFacts, LockStep, PTL DEF UpdateSpec, LockInv

(* Of two updaters, one at a time is past the lock until one of them outlives
   staleLockAge, whether or not the other one left a stale lock; with more, see
   OverlapExplained. *)
THEOREM OneOfTwo ==
  ASSUME \A p, q, r \in Updater : p = q \/ q = r \/ p = r
  PROVE  UpdateSpec => [](outlived = {} => OneUpdater)
<1>1. LockInv /\ (overlapped => outlived # {}) => (outlived = {} => OneUpdater)
  BY DEF LockInv, Apart
<1> QED
  BY <1>1, UpdateLocked, TwoApart, PTL

-----------------------------------------------------------------------------
(* Types *)

Installing == {"fetch", "stage", "staging", "verify", "signature", "moveOld",
               "moveNew", "restore", "record"}
Restoring  == {"trail", "back", "recordBack"}

\* Which invocation is where, and who knows its goal.
Aimed ==
  \A p \in Updater :
    /\ upc[p] = "receipt" => mode[p] = "auto"
    /\ upc[p] = "check" => mode[p] \in {"auto", "update"}
    /\ upc[p] \in Restoring \cup {"oldThere"} => mode[p] = "rollback"
    /\ upc[p] \in Installing => mode[p] # "rollback"
    /\ upc[p] \in Installing \cup {"receipt"} => goal[p] \in Versions
    /\ upc[p] = "lock" /\ mode[p] # "rollback" => goal[p] \in Versions

UpdateTyped == UpdateTypeOK /\ Aimed

LEMMA Sizes == Versions \subseteq 0 .. Newest /\ 0 \in 0 .. Newest /\ 1 \in Versions /\ 2 \in Versions
BY Releases DEF Versions

\* A binary is told from the absence of one.
LEMMA BinaryThere == \A b \in Binaries : b # Absent
<1> TAKE b \in Binaries
<1>1. DOMAIN b = {"v", "whole"} /\ DOMAIN Absent = {"absent"}
  BY DEF Binaries, Absent
<1> QED
  BY <1>1

LEMMA NewBinary ==
  ASSUME NEW v \in Versions, NEW w \in BOOLEAN, NEW b, b = [v |-> v, whole |-> w]
  PROVE  b \in Binaries /\ b.v = v /\ b.whole = w /\ b # Absent
<1>1. b \in Binaries
  BY DEF Binaries
<1> QED
  BY <1>1, BinaryThere

LEMMA NewReceipt ==
  ASSUME NEW v \in 0 .. Newest, NEW b \in 0 .. Newest, NEW f \in 0 .. Newest,
         NEW r, r = [version |-> v, blocked |-> b, from |-> f]
  PROVE  r \in Receipts /\ r.blocked = b /\ r.from = f
BY DEF Receipts

LEMMA TypesStart == UpdateInit => UpdateTyped
<1> SUFFICES ASSUME UpdateInit PROVE UpdateTyped
  OBVIOUS
<1>1. LockTypeOK
  BY LockStart DEF UpdateInit, LockInv
<1>2. path \in Binaries /\ old \in Binaries \cup {Absent}
  BY Sizes, NewBinary DEF UpdateInit
<1>3. receipt \in Receipts
  BY Sizes, NewReceipt DEF UpdateInit, Versions
<1>4. latest \in Versions
  BY Sizes, Releases DEF UpdateInit, Versions
<1> QED
  BY <1>1, <1>2, <1>3, <1>4, Sizes
     DEF UpdateInit, UpdateTyped, UpdateTypeOK, UpdatePcs, Aimed, Installing, Restoring

LEMMA TypesKept == UpdateTyped /\ [UpdateNext]_uvars => UpdateTyped'
<1> SUFFICES ASSUME UpdateTyped, [UpdateNext]_uvars PROVE UpdateTyped'
  OBVIOUS
<1>0. LockTypeOK' /\ UpdateTypeOK /\ Aimed
  BY LockTyped, LockStep DEF UpdateTyped, UpdateTypeOK
<1> USE Sizes, <1>0
    DEF UpdateTypeOK, UpdatePcs, Working, Aimed, Installing, Restoring, Turn, SetGoal,
        files, locals
<1>1. CASE UNCHANGED uvars
  BY <1>1 DEF uvars, UpdateTyped
<1>2. ASSUME NEW p \in Updater, StartUpdate(p) PROVE UpdateTyped'
  <2>1. path.v \in 0 .. Newest /\ receipt.blocked \in 0 .. Newest
    BY <1>2 DEF StartUpdate, Binaries, Receipts
  <2>2. cur' \in [Updater -> 0 .. Newest] /\ barred' \in [Updater -> 0 .. Newest]
    BY <1>2, <2>1 DEF StartUpdate
  <2>3. PICK m \in {"auto", "update", "to", "rollback"} :
          /\ mode' = [mode EXCEPT ![p] = m]
          /\ \/ /\ m = "to" /\ \E v \in Versions : goal' = [goal EXCEPT ![p] = v]
                /\ upc' = [upc EXCEPT ![p] = "lock"]
             \/ /\ m = "rollback" /\ upc' = [upc EXCEPT ![p] = "oldThere"]
                /\ UNCHANGED goal
             \/ /\ m \in {"auto", "update"} /\ upc' = [upc EXCEPT ![p] = "check"]
                /\ UNCHANGED goal
    BY <1>2, Releases DEF StartUpdate
  <2> QED
    BY <1>2, <2>2, <2>3 DEF StartUpdate, UpdateTyped
<1>3. ASSUME NEW p \in Updater, CheckLatest(p) PROVE UpdateTyped'
  <2>1. /\ upc[p] = "check" /\ UNCHANGED <<files, receipt, latest, mode, cur, barred>>
        /\ \/ /\ goal' = [goal EXCEPT ![p] = latest]
              /\ upc' = [upc EXCEPT ![p] = IF mode[p] = "auto" THEN "receipt" ELSE "lock"]
           \/ UNCHANGED goal /\ upc' = [upc EXCEPT ![p] = "done"]
    BY <1>3 DEF CheckLatest
  <2> QED
    BY <2>1 DEF UpdateTyped
<1>4. ASSUME NEW p \in Updater, ReadBlocked(p) PROVE UpdateTyped'
  <2>1. /\ upc[p] = "receipt" /\ UNCHANGED <<files, receipt, latest, mode, cur, goal>>
        /\ barred' \in [Updater -> 0 .. Newest]
        /\ \E l \in {"done", "lock"} : upc' = [upc EXCEPT ![p] = l]
    BY <1>4 DEF ReadBlocked
  <2> QED
    BY <2>1 DEF UpdateTyped
<1>5. ASSUME NEW p \in Updater, OldThere(p) PROVE UpdateTyped'
  BY <1>5 DEF OldThere, UpdateTyped
<1>6. ASSUME NEW p \in Updater, Locking(p) PROVE UpdateTyped'
  <2>1. /\ upc[p] = "lock" /\ UNCHANGED <<files, receipt, latest, locals>>
        /\ \/ upc' = [upc EXCEPT ![p] = IF mode[p] = "rollback" THEN "trail" ELSE "fetch"]
           \/ upc' = [upc EXCEPT ![p] = "done"]
           \/ upc' = upc
    BY <1>6 DEF Locking
  <2> QED
    BY <2>1 DEF UpdateTyped
<1>7. ASSUME NEW p \in Updater, Fetch(p) \/ Stage(p) \/ StageWhole(p) \/ VerifyStaged(p)
                                \/ CheckSignature(p)
      PROVE  UpdateTyped'
  <2>1. /\ upc[p] \in Installing /\ UNCHANGED <<path, old, receipt, latest, locals>>
        /\ \E l \in Installing \cup {"release"} : upc' = [upc EXCEPT ![p] = l]
        /\ \/ staged' \in {staged, Absent}
           \/ \E w \in BOOLEAN : staged' = [v |-> goal[p], whole |-> w]
    BY <1>7 DEF Fetch, Stage, StageWhole, VerifyStaged, CheckSignature, OrGiveUp,
                Whole, Short
  <2>2. staged' \in Binaries \cup {Absent}
    BY <2>1, NewBinary
  <2> QED
    BY <2>1, <2>2 DEF UpdateTyped
<1>8. ASSUME NEW p \in Updater, MoveOld(p) \/ MoveNew(p) \/ MoveBack(p)
      PROVE  UpdateTyped'
  <2>1. /\ upc[p] \in Installing /\ UNCHANGED <<receipt, latest, locals>>
        /\ \E l \in Installing \cup {"release", "corrupted"} : upc' = [upc EXCEPT ![p] = l]
        /\ path' \in {path, staged, old, Absent} /\ old' \in {path, old, Absent}
        /\ staged' \in {staged, Absent}
    BY <1>8 DEF MoveOld, MoveNew, MoveBack
  <2> QED
    BY <2>1 DEF UpdateTyped
<1>9. ASSUME NEW p \in Updater, Record(p) \/ RecordBack(p) PROVE UpdateTyped'
  <2>1. /\ upc' = [upc EXCEPT ![p] = "release"]
        /\ UNCHANGED <<files, latest, mode, cur, goal>>
    BY <1>9 DEF Record, RecordBack
  <2>2. receipt' \in Receipts
    BY <1>9, NewReceipt DEF Record, RecordBack
  <2>3. barred' \in [Updater -> 0 .. Newest]
    BY <1>9 DEF Record, RecordBack, StillBarred
  <2> QED
    BY <2>1, <2>2, <2>3 DEF UpdateTyped
<1>10. ASSUME NEW p \in Updater, ReadTrail(p) PROVE UpdateTyped'
  <2>1. receipt.from \in 0 .. Newest
    BY DEF Receipts
  <2> QED
    BY <1>10, <2>1 DEF ReadTrail, UpdateTyped
<1>11. ASSUME NEW p \in Updater, RenameBack(p) PROVE UpdateTyped'
  BY <1>11 DEF RenameBack, UpdateTyped
<1>12. ASSUME NEW p \in Updater, Unlocking(p) PROVE UpdateTyped'
  BY <1>12 DEF Unlocking, UpdateTyped
<1>13. ASSUME NEW p \in Updater, Dies(p) PROVE UpdateTyped'
  BY <1>13 DEF Dies, UpdateTyped
<1>14. CASE Staleness
  BY <1>14 DEF Staleness, UpdateTyped
<1>15. CASE Publish
  <2>1. latest' \in Versions
    BY <1>15, Releases DEF Publish, Versions
  <2> QED
    BY <1>15, <2>1 DEF Publish, UpdateTyped
<1>16. CASE AllDone
  BY <1>16, <1>1 DEF AllDone
<1> QED
  BY <1>1, <1>2, <1>3, <1>4, <1>5, <1>6, <1>7, <1>8, <1>9, <1>10, <1>11, <1>12, <1>13,
     <1>14, <1>15, <1>16 DEF UpdateNext, Before, Apply, Rollback

(* The install, the lock and every process stay well typed. *)
THEOREM UpdateTypes == UpdateSpec => []UpdateTypeOK
<1>1. UpdateSpec => []UpdateTyped
  BY TypesStart, TypesKept, PTL DEF UpdateSpec
<1> QED
  BY <1>1, PTL DEF UpdateTyped

-----------------------------------------------------------------------------
(* What is blocked stays out. *)

\* What a process is barred from is still blocked, and no unattended update that
\* has read the receipt aims at it.
Barred ==
  \A p \in Updater :
    /\ barred[p] \in {0, receipt.blocked}
    /\ mode[p] = "auto" /\ upc[p] \in Installing \cup {"lock"} => barred[p] # goal[p]

LEMMA BarredKept == UpdateTyped /\ Barred /\ [UpdateNext]_uvars => Barred'
<1> SUFFICES ASSUME UpdateTyped, Barred, [UpdateNext]_uvars PROVE Barred'
  OBVIOUS
<1> USE DEF UpdateTyped, UpdateTypeOK, Aimed, Installing, Restoring, Turn, SetGoal,
            files, locals, Barred
<1>1. CASE UNCHANGED uvars
  BY <1>1 DEF uvars
<1>2. ASSUME NEW p \in Updater, StartUpdate(p) PROVE Barred'
  <2>1. /\ UNCHANGED receipt /\ barred' = [barred EXCEPT ![p] = receipt.blocked]
        /\ \E m : mode' = [mode EXCEPT ![p] = m]
                  /\ (m = "auto" => upc' = [upc EXCEPT ![p] = "check"] /\ UNCHANGED goal)
        /\ \E l : upc' = [upc EXCEPT ![p] = l]
        /\ goal' = goal \/ \E v : goal' = [goal EXCEPT ![p] = v]
    BY <1>2 DEF StartUpdate
  <2> QED
    BY <2>1
<1>3. ASSUME NEW p \in Updater, CheckLatest(p) PROVE Barred'
  <2>1. /\ upc[p] = "check" /\ UNCHANGED <<receipt, mode, barred>>
        /\ goal' \in {goal, [goal EXCEPT ![p] = latest]}
        /\ \E l : upc' = [upc EXCEPT ![p] = l] /\ (mode[p] = "auto" => l \in {"receipt", "done"})
    BY <1>3 DEF CheckLatest
  <2> QED
    BY <2>1
<1>4. ASSUME NEW p \in Updater, ReadBlocked(p) PROVE Barred'
  <2>1. goal[p] # 0 /\ upc[p] = "receipt"
    BY <1>4 DEF ReadBlocked, Versions
  <2>2. CASE /\ upc' = [upc EXCEPT ![p] = IF receipt.blocked = goal[p] THEN "done" ELSE "lock"]
             /\ UNCHANGED barred
    BY <1>4, <2>1, <2>2 DEF ReadBlocked
  <2>3. CASE upc' = [upc EXCEPT ![p] = "lock"] /\ barred' = [barred EXCEPT ![p] = 0]
    BY <1>4, <2>1, <2>3 DEF ReadBlocked
  <2> QED
    BY <1>4, <2>2, <2>3 DEF ReadBlocked
<1>5. ASSUME NEW p \in Updater, OldThere(p) PROVE Barred'
  BY <1>5 DEF OldThere
<1>6. ASSUME NEW p \in Updater, Locking(p) PROVE Barred'
  <2>1. /\ upc[p] = "lock" /\ UNCHANGED <<receipt, locals>>
        /\ upc' = upc \/ \E l : upc' = [upc EXCEPT ![p] = l]
    BY <1>6 DEF Locking
  <2> QED
    BY <2>1
<1>7. ASSUME NEW p \in Updater,
             \/ Fetch(p) \/ Stage(p) \/ StageWhole(p) \/ VerifyStaged(p)
             \/ CheckSignature(p) \/ MoveOld(p) \/ MoveNew(p) \/ MoveBack(p)
      PROVE  Barred'
  <2>1. /\ upc[p] \in Installing /\ UNCHANGED <<receipt, locals>>
        /\ \E l : upc' = [upc EXCEPT ![p] = l]
    BY <1>7 DEF Fetch, Stage, StageWhole, VerifyStaged, CheckSignature, OrGiveUp,
                MoveOld, MoveNew, MoveBack
  <2> QED
    BY <2>1
<1>8. ASSUME NEW p \in Updater, Record(p) \/ RecordBack(p) PROVE Barred'
  <2>1. /\ UNCHANGED <<mode, goal>> /\ upc' = [upc EXCEPT ![p] = "release"]
        /\ barred' = [q \in Updater |-> IF barred[q] = receipt'.blocked THEN barred[q] ELSE 0]
    BY <1>8 DEF Record, RecordBack, StillBarred
  <2>2. \A q \in Updater : upc[q] \in Installing \cup {"lock"} /\ mode[q] = "auto" => goal[q] # 0
    BY DEF Versions
  <2> QED
    BY <2>1, <2>2
<1>9. ASSUME NEW p \in Updater, ReadTrail(p) PROVE Barred'
  <2>1. mode[p] = "rollback" /\ UNCHANGED <<receipt, mode, barred>>
    BY <1>9 DEF ReadTrail
  <2>2. upc' = [upc EXCEPT ![p] = "back"] /\ \E v : goal' = [goal EXCEPT ![p] = v]
    BY <1>9 DEF ReadTrail
  <2> QED
    BY <2>1, <2>2
<1>10. ASSUME NEW p \in Updater, RenameBack(p) PROVE Barred'
  BY <1>10 DEF RenameBack
<1>11. ASSUME NEW p \in Updater, Unlocking(p) \/ Dies(p) PROVE Barred'
  <2>1. /\ UNCHANGED <<receipt, locals>>
        /\ \E l \in {upc[p], "done", "cutOff", "crashed"} : upc' = [upc EXCEPT ![p] = l]
    BY <1>11 DEF Unlocking, Dies
  <2> QED
    BY <2>1
<1>12. CASE Staleness \/ Publish \/ AllDone
  BY <1>12 DEF Staleness, Publish, AllDone, uvars
<1> QED
  BY <1>1, <1>2, <1>3, <1>4, <1>5, <1>6, <1>7, <1>8, <1>9, <1>10, <1>11, <1>12
     DEF UpdateNext, Before, Apply, Rollback

LEMMA UpdateBarred == UpdateSpec => [](UpdateTyped /\ Barred)
<1>1. UpdateInit => UpdateTyped /\ Barred
  BY TypesStart DEF UpdateInit, Barred, Installing
<1> QED
  BY <1>1, TypesKept, BarredKept, PTL DEF UpdateSpec

(* No unattended update installs the version that was rolled back before it
   began and has been blocked since, whatever other updates, rollbacks and
   crashes come in between. *)
THEOREM StaysOut == UpdateSpec => BlockedStaysOut
<1>1. /\ UpdateTyped /\ Barred /\ [UpdateNext]_uvars
      => [\A p \in Updater :
            upc[p] = "moveNew" /\ upc'[p] = "record" /\ mode[p] = "auto"
              => barred[p] # goal[p]]_uvars
  BY DEF Barred, Installing
<1> QED
  BY <1>1, UpdateBarred, PTL DEF UpdateSpec, BlockedStaysOut

-----------------------------------------------------------------------------
(* The swap *)

\* Who works on the install holds the lock, and who was cut off is gone.
WorkLocked ==
  \A p \in Updater :
    /\ upc[p] \in Working => lpc[p] = "held"
    /\ upc[p] = "cutOff" => lpc[p] = "dead"

\* Whatever is at the install or the recovery path is whole, and so is what was
\* verified; between the two renames there is something to put back.
SwapWhole ==
  /\ path # Absent => path.whole
  /\ old # Absent => old.whole
  /\ \A p \in Updater :
       /\ upc[p] \in {"staging", "verify"} => staged # Absent
       /\ upc[p] \in {"signature", "moveOld", "moveNew"} => staged # Absent /\ staged.whole
       /\ upc[p] \in {"moveNew", "restore"} => old # Absent

SwapInv == WorkLocked /\ (~overlapped => SwapWhole) /\ MissingIsReported

\* Work is done by the one process that holds the lock.
LEMMA WorkAlone ==
  ASSUME WorkLocked, OneUpdater, NEW p \in Updater, NEW q \in Updater, p # q,
         upc[p] \in Working
  PROVE  upc[q] \notin Working
BY DEF WorkLocked, OneUpdater, Holding

LEMMA WorkLockedKept == UpdateTyped /\ WorkLocked /\ [UpdateNext]_uvars => WorkLocked'
<1> SUFFICES ASSUME UpdateTyped, WorkLocked, [UpdateNext]_uvars PROVE WorkLocked'
  OBVIOUS
<1> USE DEF UpdateTyped, UpdateTypeOK, LockTypeOK, Working, Turn, WorkLocked
<1>1. CASE UNCHANGED uvars
  BY <1>1 DEF uvars, lockVars
<1>2. ASSUME NEW p \in Updater,
             StartUpdate(p) \/ CheckLatest(p) \/ ReadBlocked(p) \/ OldThere(p)
      PROVE  WorkLocked'
  <2>1. UNCHANGED lpc /\ \E l \in {"check", "receipt", "lock", "oldThere", "done"} :
                           upc' = [upc EXCEPT ![p] = l]
    BY <1>2, Releases DEF StartUpdate, CheckLatest, ReadBlocked, OldThere, lockVars
  <2> QED
    BY <2>1
<1>3. ASSUME NEW p \in Updater, Locking(p) PROVE WorkLocked'
  <2>1. \E l : lpc' = [lpc EXCEPT ![p] = l]
    BY <1>3 DEF Locking, Acquire, Create, Recreate, CreateLock, SignLock, JudgeLock,
                StealLock, Goto
  <2>2. upc[p] = "lock" /\ \/ lpc'[p] = "held" /\ \E l \in {"trail", "fetch"} :
                                                         upc' = [upc EXCEPT ![p] = l]
                           \/ upc' = [upc EXCEPT ![p] = "done"]
                           \/ upc' = upc
    BY <1>3 DEF Locking
  <2> QED
    BY <2>1, <2>2
<1>4. ASSUME NEW p \in Updater, Apply(p) \/ Rollback(p) PROVE WorkLocked'
  <2>1. /\ UNCHANGED lpc /\ upc[p] \in Working
        /\ \E l \in Working \cup {"release", "corrupted"} : upc' = [upc EXCEPT ![p] = l]
    BY <1>4 DEF Apply, Fetch, Stage, StageWhole, VerifyStaged, CheckSignature, OrGiveUp,
                MoveOld, MoveNew, MoveBack, Record, Rollback, ReadTrail, RenameBack,
                RecordBack, lockVars
  <2> QED
    BY <2>1
<1>5. ASSUME NEW p \in Updater, Unlocking(p) PROVE WorkLocked'
  <2>1. /\ \E l : lpc' = [lpc EXCEPT ![p] = l]
        /\ upc[p] \in {"release", "corrupted"}
        /\ \E l \in {"done", upc[p]} : upc' = [upc EXCEPT ![p] = l]
    BY <1>5 DEF Unlocking, Release, ReleaseRead, ReleaseRemove, Goto
  <2> QED
    BY <2>1
<1>6. ASSUME NEW p \in Updater, Dies(p) PROVE WorkLocked'
  BY <1>6 DEF Dies, Perish, Goto
<1>7. CASE Staleness \/ Publish \/ AllDone
  BY <1>7 DEF Staleness, GrowStale, Publish, AllDone, uvars, lockVars
<1> QED
  BY <1>1, <1>2, <1>3, <1>4, <1>5, <1>6, <1>7 DEF UpdateNext, Before

\* What has not overlapped by now had not before, and one process works.
LEMMA StillApart ==
  ASSUME LockInv, [UpdateNext]_uvars, ~overlapped'
  PROVE  ~overlapped /\ OneUpdater
BY LeftForGood, LockStep DEF LockInv, Apart

LEMMA SwapKept ==
  LockInv /\ UpdateTyped /\ SwapInv /\ [UpdateNext]_uvars => SwapInv'
<1> SUFFICES ASSUME LockInv, UpdateTyped, SwapInv, [UpdateNext]_uvars, ~overlapped'
             PROVE  SwapWhole' /\ MissingIsReported'
  BY WorkLockedKept DEF SwapInv, MissingIsReported
<1> DEFINE Kept == SwapWhole' /\ MissingIsReported'
<1>0. /\ WorkLocked /\ SwapWhole /\ MissingIsReported /\ ~overlapped /\ OneUpdater
      /\ upc \in [Updater -> UpdatePcs] /\ lpc \in [Updater -> LockPcs]
  BY StillApart DEF SwapInv, UpdateTyped, UpdateTypeOK, LockTypeOK
<1> USE <1>0 DEF Turn, files, SwapWhole, MissingIsReported
<1>1. CASE UNCHANGED uvars
  BY <1>1 DEF uvars
<1>2. ASSUME NEW p \in Updater, Before(p) PROVE Kept
  <2>1. /\ UNCHANGED files
        /\ upc[p] \in {"idle", "check", "receipt", "oldThere", "lock"}
        /\ \/ upc' = upc
           \/ \E l \in {"check", "receipt", "lock", "oldThere", "done", "fetch", "trail"} :
                upc' = [upc EXCEPT ![p] = l]
    BY <1>2, Releases DEF Before, StartUpdate, CheckLatest, ReadBlocked, OldThere, Locking
  <2> QED
    BY <2>1
<1>3. ASSUME NEW p \in Updater,
             Fetch(p) \/ Stage(p) \/ StageWhole(p) \/ VerifyStaged(p) \/ CheckSignature(p)
      PROVE  Kept
  <2>1. upc[p] \in {"fetch", "stage", "staging", "verify", "signature"}
        /\ UNCHANGED <<path, old>>
    BY <1>3 DEF Fetch, Stage, StageWhole, VerifyStaged, CheckSignature
  <2>2. \A q \in Updater : q # p => upc[q] \notin Working
    BY <2>1, WorkAlone DEF Working
  <2>3. goal[p] \in Versions
    BY <2>1 DEF UpdateTyped, Aimed, Installing
  <2>4. PICK l : /\ upc' = [upc EXCEPT ![p] = l]
                 /\ l \notin {"moveNew", "restore"}
                 /\ l \in {"staging", "verify"} => staged' # Absent
                 /\ l \in {"signature", "moveOld"} => staged' # Absent /\ staged'.whole
    <3>1. CASE Fetch(p)
      BY <3>1 DEF Fetch
    <3>2. CASE Stage(p)
      BY <3>2, <2>3, NewBinary DEF Stage, Short
    <3>3. CASE StageWhole(p)
      <4>1. staged' # Absent
        BY <3>3, <2>3, NewBinary, <2>1 DEF StageWhole, Whole
      <4>2. \E l \in {"verify", "release"} : upc' = [upc EXCEPT ![p] = l]
        BY <3>3 DEF StageWhole, OrGiveUp
      <4> QED
        BY <4>1, <4>2
    <3>4. CASE VerifyStaged(p)
      BY <3>4, <2>3, NewBinary DEF VerifyStaged, Whole
    <3>5. CASE CheckSignature(p)
      BY <3>5 DEF CheckSignature
    <3> QED
      BY <1>3, <3>1, <3>2, <3>3, <3>4, <3>5
  <2> QED
    BY <2>1, <2>2, <2>4 DEF Working
<1>4. ASSUME NEW p \in Updater, MoveOld(p) PROVE Kept
  <2>1. upc[p] = "moveOld" /\ UNCHANGED staged
    BY <1>4 DEF MoveOld
  <2>2. \A q \in Updater : q # p => upc[q] \notin Working
    BY <2>1, WorkAlone DEF Working
  <2>3. CASE path # Absent /\ old' = path /\ path' = Absent /\ Turn(p, "moveNew")
    BY <2>1, <2>2, <2>3 DEF Working
  <2>4. CASE old' = Absent /\ UNCHANGED path /\ Turn(p, "release")
    BY <2>1, <2>2, <2>4 DEF Working
  <2> QED
    BY <1>4, <2>3, <2>4 DEF MoveOld
<1>5. ASSUME NEW p \in Updater, MoveNew(p) PROVE Kept
  <2>1. upc[p] = "moveNew" /\ UNCHANGED old
    BY <1>5 DEF MoveNew
  <2>2. \A q \in Updater : q # p => upc[q] \notin Working
    BY <2>1, WorkAlone DEF Working
  <2>3. CASE path' = staged /\ staged' = Absent /\ Turn(p, "record")
    BY <2>1, <2>2, <2>3 DEF Working
  <2>4. CASE UNCHANGED <<path, staged>> /\ Turn(p, "restore")
    BY <2>1, <2>2, <2>4 DEF Working
  <2> QED
    BY <1>5, <2>3, <2>4 DEF MoveNew
<1>6. ASSUME NEW p \in Updater, MoveBack(p) PROVE Kept
  <2>1. upc[p] = "restore" /\ UNCHANGED staged
    BY <1>6 DEF MoveBack
  <2>2. \A q \in Updater : q # p => upc[q] \notin Working
    BY <2>1, WorkAlone DEF Working
  <2>3. CASE path' = old /\ old' = Absent /\ Turn(p, "release")
    BY <2>1, <2>2, <2>3 DEF Working
  <2>4. CASE UNCHANGED <<path, old>> /\ Turn(p, "corrupted")
    BY <2>1, <2>2, <2>4 DEF Working
  <2> QED
    BY <1>6, <2>3, <2>4 DEF MoveBack
<1>7. ASSUME NEW p \in Updater, Record(p) \/ RecordBack(p) \/ ReadTrail(p) PROVE Kept
  <2>1. /\ upc[p] \in {"record", "recordBack", "trail"} /\ UNCHANGED files
        /\ \E l \in {"release", "back"} : upc' = [upc EXCEPT ![p] = l]
    BY <1>7 DEF Record, RecordBack, ReadTrail
  <2> QED
    BY <2>1
<1>8. ASSUME NEW p \in Updater, RenameBack(p) PROVE Kept
  <2>1. upc[p] = "back" /\ UNCHANGED staged
    BY <1>8 DEF RenameBack
  <2>2. \A q \in Updater : q # p => upc[q] \notin Working
    BY <2>1, WorkAlone DEF Working
  <2>3. CASE old # Absent /\ path' = old /\ old' = Absent /\ Turn(p, "recordBack")
    BY <2>1, <2>2, <2>3 DEF Working
  <2>4. CASE UNCHANGED <<path, old>> /\ Turn(p, "release")
    BY <2>1, <2>2, <2>4 DEF Working
  <2> QED
    BY <1>8, <2>3, <2>4 DEF RenameBack
<1>9. ASSUME NEW p \in Updater, Unlocking(p) PROVE Kept
  <2>1. /\ upc[p] \in {"release", "corrupted"} /\ UNCHANGED files
        /\ \/ upc' = upc
           \/ upc[p] = "release" /\ upc' = [upc EXCEPT ![p] = "done"]
    BY <1>9 DEF Unlocking
  <2> QED
    BY <2>1
<1>10. ASSUME NEW p \in Updater, Dies(p) PROVE Kept
  <2>1. /\ UNCHANGED files
        /\ upc' = [upc EXCEPT ![p] = IF upc[p] \in {"moveNew", "restore", "corrupted"}
                                       THEN "cutOff" ELSE "crashed"]
        /\ upc[p] # "cutOff"
    BY <1>10 DEF Dies, Perish, LockEnds, WorkLocked
  <2> QED
    BY <2>1
<1>11. CASE Staleness \/ Publish \/ AllDone
  BY <1>11 DEF Staleness, Publish, AllDone, uvars
<1> QED
  BY <1>1, <1>2, <1>3, <1>4, <1>5, <1>6, <1>7, <1>8, <1>9, <1>10, <1>11
     DEF UpdateNext, Apply, Rollback

LEMMA SwapStart == UpdateInit => SwapInv
<1> SUFFICES ASSUME UpdateInit PROVE SwapInv
  OBVIOUS
<1>1. path # Absent /\ path.whole /\ (old # Absent => old.whole)
  BY Sizes, NewBinary DEF UpdateInit
<1> QED
  BY <1>1 DEF UpdateInit, SwapInv, WorkLocked, SwapWhole, InstalledWhole,
              MissingIsReported, Working

LEMMA SwapInvariant == UpdateSpec => []SwapInv
BY SwapStart, SwapKept, UpdateBarred, UpdateLocked, PTL DEF UpdateSpec

(* As long as the lock has kept updates apart, what is installed is whole,
   whatever fails and whoever dies: of any number of updaters. *)
THEOREM Installed == UpdateSpec => []InstalledWhole
<1>1. SwapInv => InstalledWhole
  BY DEF SwapInv, SwapWhole, InstalledWhole
<1> QED
  BY <1>1, SwapInvariant, PTL

(* And a missing binary is between two renames, or known to be missing. *)
THEOREM MissingKnown == UpdateSpec => []MissingIsReported
<1>1. SwapInv => MissingIsReported
  BY DEF SwapInv
<1> QED
  BY <1>1, SwapInvariant, PTL

(* Of two updaters, whichever of them dies or fails, nothing but an update that
   outlives staleLockAge can put a binary at the install path that is not whole:
   stealing the lock of a dead one does not. *)
THEOREM InstalledOfTwo ==
  ASSUME \A p, q, r \in Updater : p = q \/ q = r \/ p = r
  PROVE  UpdateSpec => [](outlived = {} /\ path # Absent => path.whole)
<1>1. SwapInv /\ (overlapped => outlived # {})
      => (outlived = {} /\ path # Absent => path.whole)
  BY DEF SwapInv, SwapWhole
<1> QED
  BY <1>1, SwapInvariant, TwoApart, PTL
=============================================================================

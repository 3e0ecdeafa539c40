----------------------------- MODULE UpdateLock -----------------------------
(***************************************************************************)
(* acquireUpdateLock of update.go: the lock file beside the binary that    *)
(* serialises swaps.  It is created exclusively, signed with its creator's *)
(* pid, removed by the process that finds its own pid in it, and moved     *)
(* aside once it is older than staleLockAge, because its owner may be dead:*)
(* nobody asks whether it is.  Nobody waits for it either: an update that  *)
(* does not get it is refused.                                             *)
(***************************************************************************)
EXTENDS Naturals, FiniteSets

CONSTANTS
  Updater,       \* the bmcp processes that replace or restore one binary
  MaxDead,       \* bound: updaters that die in the middle
  LockFaults,    \* BOOLEAN: writing the owner into the lock file may fail
  Suspends       \* BOOLEAN: an update may outlast staleLockAge

ASSUME LockSwitches ==
  MaxDead \in Nat /\ LockFaults \in BOOLEAN /\ Suspends \in BOOLEAN

Absent == [absent |-> TRUE]

VARIABLES
  lock,    \* .bmcp.update.lock, or Absent
  lpc,     \* where each updater is in acquireUpdateLock and release
  nDead,
  outlived,    \* history: who had a lock older than staleLockAge before it ended
  overlapped   \* history: two updates have held the lock at once

history == <<outlived, overlapped>>
lockVars == <<lock, lpc, nDead, history>>

\* by: who created the file; signed: its pid is in it; stale: it is older than
\* staleLockAge.
LockFiles == [by : Updater, signed : BOOLEAN, stale : BOOLEAN]

LockPcs ==
  {"out", "sign", "stat", "steal", "recreate", "held", "remove",
   "refused", "released", "dead"}
LockEnds  == {"refused", "released", "dead"}
Holding(p) == lpc[p] \in {"held", "remove"}

LockTypeOK ==
  /\ lock \in LockFiles \cup {Absent}
  /\ lpc \in [Updater -> LockPcs]
  /\ nDead \in 0 .. MaxDead
  /\ outlived \subseteq Updater /\ overlapped \in BOOLEAN

LockInit ==
  /\ lock = Absent /\ lpc = [p \in Updater |-> "out"] /\ nDead = 0
  /\ outlived = {} /\ overlapped = FALSE

Goto(p, l) == lpc' = [lpc EXCEPT ![p] = l]

\* O_CREATE|O_EXCL: an existing file is left alone, and judged the first time.
CreateLock(p, from, taken) ==
  /\ lpc[p] = from
  /\ \/ /\ lock = Absent
        /\ lock' = [by |-> p, signed |-> FALSE, stale |-> FALSE]
        /\ Goto(p, "sign")
     \/ lock # Absent /\ Goto(p, taken) /\ UNCHANGED lock
  /\ UNCHANGED <<nDead, history>>

Create(p)   == CreateLock(p, "out", "stat")
Recreate(p) == CreateLock(p, "recreate", "refused")

\* The owner goes into the file just created, wherever it is by now; a write is
\* what its age counts from.  A failed write or close refuses the update and
\* leaves the file behind.
SignLock(p) ==
  /\ lpc[p] = "sign"
  /\ LET signed == IF lock # Absent /\ lock.by = p
                     THEN [by |-> p, signed |-> TRUE, stale |-> FALSE] ELSE lock
     IN \/ /\ lock' = signed /\ Goto(p, "held")
           /\ overlapped' = (overlapped \/ \E q \in Updater \ {p} : Holding(q))
        \/ /\ LockFaults /\ lock' \in {lock, signed} /\ Goto(p, "refused")
           /\ UNCHANGED overlapped
  /\ UNCHANGED <<nDead, outlived>>

\* Mutant: any lock may be stolen.
JudgeLock_any(p) ==
  /\ lpc[p] = "stat"
  /\ Goto(p, IF lock = Absent THEN "refused" ELSE "steal")
  /\ UNCHANGED <<lock, nDead, history>>

JudgeLock(p) ==
  /\ lpc[p] = "stat"
  /\ Goto(p, IF lock # Absent /\ lock.stale THEN "steal" ELSE "refused")
  /\ UNCHANGED <<lock, nDead, history>>

\* The rename moves whatever is at the path, and the moved file is deleted.
StealLock(p) ==
  /\ lpc[p] = "steal"
  /\ lock' = Absent
  /\ Goto(p, IF lock = Absent THEN "refused" ELSE "recreate")
  /\ UNCHANGED <<nDead, history>>

\* Mutant: the release does not find its own pid in the file.
ReleaseRead_blind(p) ==
  /\ lpc[p] = "held"
  /\ Goto(p, IF lock # Absent /\ lock.by # p THEN "remove" ELSE "released")
  /\ UNCHANGED <<lock, nDead, history>>

ReleaseRead(p) ==
  /\ lpc[p] = "held"
  /\ Goto(p, IF lock # Absent /\ lock.by = p /\ lock.signed
               THEN "remove" ELSE "released")
  /\ UNCHANGED <<lock, nDead, history>>

ReleaseRemove(p) ==
  /\ lpc[p] = "remove"
  /\ lock' = Absent
  /\ Goto(p, "released")
  /\ UNCHANGED <<nDead, history>>

Acquire(p) ==
  Create(p) \/ SignLock(p) \/ JudgeLock(p) \/ StealLock(p) \/ Recreate(p)
Release(p) == ReleaseRead(p) \/ ReleaseRemove(p)

Perish(p) ==
  /\ lpc[p] \notin LockEnds \cup {"out"}
  /\ nDead < MaxDead
  /\ nDead' = nDead + 1
  /\ Goto(p, "dead")
  /\ UNCHANGED <<lock, history>>

\* Time passes.  updateApplyTimeout is half of staleLockAge, but it cuts off the
\* download and codesign only, and a rollback has no deadline: where the machine
\* is suspended, or the disk hangs, the lock of an update that lives gets stale.
GrowStale ==
  /\ lock # Absent /\ ~lock.stale
  /\ Suspends \/ lpc[lock.by] \in LockEnds
  /\ lock' = [lock EXCEPT !.stale = TRUE]
  /\ outlived' =
       IF lpc[lock.by] \in LockEnds THEN outlived ELSE outlived \cup {lock.by}
  /\ UNCHANGED <<lpc, nDead, overlapped>>

LockDone == (\A p \in Updater : lpc[p] \in LockEnds) /\ UNCHANGED lockVars

LockNext ==
  \/ \E p \in Updater : Acquire(p) \/ Release(p) \/ Perish(p)
  \/ GrowStale
  \/ LockDone

LockSpec == LockInit /\ [][LockNext]_lockVars

-----------------------------------------------------------------------------
(* "acquireUpdateLock serialises swaps": two updates never run at once, not
   even when a dead one's lock is stolen, because the staging and recovery
   paths are fixed and a second update would corrupt the first one's files. *)
OneUpdater == \A p, q \in Updater : p # q => ~(Holding(p) /\ Holding(q))

(* The age of a file stands for the death of its owner, and the file judged
   stale need not be the one moved aside.  Two updates run at once for no other
   reason: one of them outlived staleLockAge, or there are three, and the third
   left its lock behind because it died or could not write its pid. *)
OverlapHasCause ==
  \A p, q \in Updater : p # q /\ Holding(p) /\ Holding(q) =>
    \/ outlived # {}
    \/ \E r \in Updater \ {p, q} :
         lpc[r] = "dead" \/ (LockFaults /\ lpc[r] = "refused")

(* A lock file names a running update, a dead one, or one whose owner could
   not be written: an update that ends by itself leaves no lock behind that
   would refuse the next one for staleLockAge. *)
NoLeftover ==
  lock # Absent => lpc[lock.by] # "released"
=============================================================================

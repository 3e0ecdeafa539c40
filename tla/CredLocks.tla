------------------------------ MODULE CredLocks ------------------------------
(***************************************************************************)
(* The two-level advisory lock of sessionlock.go.  A process that changes  *)
(* the stored state of one SSO session holds global.lock shared and the    *)
(* session's own lock file exclusively; "bmcp clear --all" holds           *)
(* global.lock exclusively.  Waiters poll a non-blocking flock, give up    *)
(* when their context ends, and the kernel drops the locks of a process    *)
(* that dies.                                                              *)
(***************************************************************************)
EXTENDS Naturals, FiniteSets

CONSTANTS
  Process,      \* the bmcp processes of one user
  Session,      \* session keys: one lock file each
  SessionOf     \* the session a process's profile resolves to

ASSUME SessionOfType == SessionOf \in [Process -> Session]

VARIABLE hold   \* what the open lock files of each process hold

HoldStates == {"none", "wantGlobal", "wantSession", "session", "wantAll", "all"}

\* "wantSession" and "session" keep global.lock shared; the two files of a
\* sessionLock are released together.
SharesGlobal(p) == hold[p] \in {"wantSession", "session"}
InSession(p)    == hold[p] = "session"
InAll(p)        == hold[p] = "all"
Waiting(p)      == hold[p] \in {"wantGlobal", "wantSession", "wantAll"}

LocksTypeOK == hold \in [Process -> HoldStates]

LocksInit == hold = [p \in Process |-> "none"]

SetHold(p, h) == hold' = [hold EXCEPT ![p] = h]

-----------------------------------------------------------------------------
(* The guards of the three flock calls: the modes other open files hold. *)

GlobalSharedFree(p) == \A q \in Process \ {p} : hold[q] # "all"
\* Mutants: the session lock is not exclusive; it is an upgrade of a shared
\* lock that every waiter holds.
SessionFree_shared(p) == TRUE
SessionFree_upgrade(p) ==
  \A q \in Process \ {p} :
    SessionOf[q] = SessionOf[p] => hold[q] \notin {"wantSession", "session"}
SessionFree(p) ==
  \A q \in Process \ {p} : SessionOf[q] = SessionOf[p] => hold[q] # "session"
\* Mutant: global.lock is let go once the session lock is held.
GlobalExclusiveFree_early(p) ==
  \A q \in Process \ {p} : hold[q] \notin {"wantSession", "all"}
GlobalExclusiveFree(p) ==
  \A q \in Process \ {p} : hold[q] \notin {"wantSession", "session", "all"}

AskSession(p) ==          \* lockSession is called
  /\ hold[p] = "none"
  /\ SetHold(p, "wantGlobal")

TakeGlobalShared(p) ==    \* flock(global.lock, LOCK_SH)
  /\ hold[p] = "wantGlobal"
  /\ GlobalSharedFree(p)
  /\ SetHold(p, "wantSession")

TakeSession(p) ==         \* flock(<key>.lock, LOCK_EX)
  /\ hold[p] = "wantSession"
  /\ SessionFree(p)
  /\ SetHold(p, "session")

AskAll(p) ==              \* lockAll is called
  /\ hold[p] = "none"
  /\ SetHold(p, "wantAll")

TakeAll(p) ==             \* flock(global.lock, LOCK_EX)
  /\ hold[p] = "wantAll"
  /\ GlobalExclusiveFree(p)
  /\ SetHold(p, "all")

GiveUp(p) ==              \* the context ends while a lock is awaited
  /\ Waiting(p)
  /\ SetHold(p, "none")

Unlock(p) ==
  /\ InSession(p) \/ InAll(p)
  /\ SetHold(p, "none")

Die(p) ==                 \* the kernel closes a dead process's files
  /\ hold[p] # "none"
  /\ SetHold(p, "none")

LocksNext ==
  \E p \in Process :
    \/ AskSession(p) \/ TakeGlobalShared(p) \/ TakeSession(p)
    \/ AskAll(p) \/ TakeAll(p)
    \/ GiveUp(p) \/ Unlock(p) \/ Die(p)

LocksSpec == LocksInit /\ [][LocksNext]_hold

-----------------------------------------------------------------------------
(* Mutations of one session exclude each other, and "clear --all" excludes
   every one of them although it takes none of the session lock files: a
   session mutation must still hold global.lock shared while it runs
   (sessionLock's comment, sessionlock.go:42). *)
MutationsExclusive ==
  \A p, q \in Process : p # q =>
    /\ (InSession(p) /\ InSession(q)) => SessionOf[p] # SessionOf[q]
    /\ InAll(p) => ~InSession(q) /\ ~InAll(q)

(* The two lock levels cannot block each other for good: while nobody is in a
   critical section, some waiter's flock would succeed right now.  A waiter
   for a session lock keeps global.lock shared, and a "clear --all" waiter
   holds nothing. *)
NoWaitCycle ==
  (/\ \E p \in Process : Waiting(p)
   /\ \A p \in Process : ~InSession(p) /\ ~InAll(p))
  => \E p \in Process :
       \/ hold[p] = "wantGlobal" /\ GlobalSharedFree(p)
       \/ hold[p] = "wantSession" /\ SessionFree(p)
       \/ hold[p] = "wantAll" /\ GlobalExclusiveFree(p)

=============================================================================

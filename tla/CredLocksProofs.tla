--------------------------- MODULE CredLocksProofs ---------------------------
(* The two-level lock of CredLocks excludes what it must, for any processes *)
(* and sessions.                                                           *)
EXTENDS CredLocks, TLAPS

(* A process holding global.lock exclusively is alone with it: nobody holds it
   shared, not even to wait for a session lock.  MutationsExclusive alone is not
   inductive: a waiter that kept global.lock shared beside it could still take
   its session lock. *)
GlobalAlone ==
  \A p, q \in Process : p # q /\ hold[p] = "all"
    => hold[q] \notin {"wantSession", "session", "all"}

SessionAlone ==
  \A p, q \in Process :
    p # q /\ hold[p] = "session" /\ hold[q] = "session"
      => SessionOf[p] # SessionOf[q]

LocksInv == LocksTypeOK /\ GlobalAlone /\ SessionAlone

\* The invariant of the locks holds initially.
LEMMA LocksInitially == LocksInit => LocksInv
  BY DEF LocksInit, LocksInv, LocksTypeOK, GlobalAlone, SessionAlone, HoldStates

\* And every operation on the locks keeps it.
LEMMA LocksInductive == LocksInv /\ [LocksNext]_hold => LocksInv'
<1> SUFFICES ASSUME LocksInv, [LocksNext]_hold PROVE LocksInv'
  OBVIOUS
<1> USE DEF LocksInv, LocksTypeOK, GlobalAlone, SessionAlone, HoldStates
<1>1. CASE UNCHANGED hold
  BY <1>1
<1>2. ASSUME NEW p \in Process, AskSession(p) PROVE LocksInv'
  BY <1>2 DEF AskSession, SetHold
<1>3. ASSUME NEW p \in Process, TakeGlobalShared(p) PROVE LocksInv'
  BY <1>3 DEF TakeGlobalShared, SetHold, GlobalSharedFree
<1>4. ASSUME NEW p \in Process, TakeSession(p) PROVE LocksInv'
  BY <1>4 DEF TakeSession, SetHold, SessionFree
<1>5. ASSUME NEW p \in Process, AskAll(p) PROVE LocksInv'
  BY <1>5 DEF AskAll, SetHold
<1>6. ASSUME NEW p \in Process, TakeAll(p) PROVE LocksInv'
  BY <1>6 DEF TakeAll, SetHold, GlobalExclusiveFree
<1>7. ASSUME NEW p \in Process, GiveUp(p) PROVE LocksInv'
  BY <1>7 DEF GiveUp, SetHold
<1>8. ASSUME NEW p \in Process, Unlock(p) PROVE LocksInv'
  BY <1>8 DEF Unlock, SetHold
<1>9. ASSUME NEW p \in Process, Die(p) PROVE LocksInv'
  BY <1>9 DEF Die, SetHold
<1> QED
  BY <1>1, <1>2, <1>3, <1>4, <1>5, <1>6, <1>7, <1>8, <1>9 DEF LocksNext

(* The locks are always in one of the states lockSession and lockAll know. *)
THEOREM LocksTypeCorrect == LocksSpec => []LocksTypeOK
<1>1. LocksInv => LocksTypeOK
  BY DEF LocksInv
<1> QED
  BY <1>1, LocksInitially, LocksInductive, PTL DEF LocksSpec

(* Mutations of one session never overlap, nor does "clear --all" overlap a
   mutation of any session. *)
THEOREM LocksExclude == LocksSpec => []MutationsExclusive
<1>1. LocksInv => MutationsExclusive
  BY DEF LocksInv, GlobalAlone, SessionAlone, MutationsExclusive, InSession, InAll
<1> QED
  BY <1>1, LocksInitially, LocksInductive, PTL DEF LocksSpec

(* No wait cycle between the two levels: from any state of the locks, a waiter
   can proceed while nobody is in a critical section. *)
THEOREM LocksNoWaitCycle == LocksSpec => []NoWaitCycle
<1>1. LocksInv => NoWaitCycle
  <2> SUFFICES ASSUME LocksInv, NEW p \in Process, Waiting(p),
                      \A q \in Process : ~InSession(q) /\ ~InAll(q)
               PROVE  \E q \in Process :
                        \/ hold[q] = "wantGlobal" /\ GlobalSharedFree(q)
                        \/ hold[q] = "wantSession" /\ SessionFree(q)
                        \/ hold[q] = "wantAll" /\ GlobalExclusiveFree(q)
    BY DEF NoWaitCycle
  <2>1. CASE hold[p] = "wantGlobal"
    BY <2>1 DEF GlobalSharedFree, InAll
  <2>2. CASE hold[p] = "wantSession"
    BY <2>2 DEF SessionFree, InSession
  <2>3. CASE hold[p] = "wantAll"
    <3>1. CASE \E q \in Process : hold[q] = "wantSession"
      BY <3>1 DEF SessionFree, InSession
    <3>2. CASE \A q \in Process : hold[q] # "wantSession"
      BY <2>3, <3>2 DEF GlobalExclusiveFree, InSession, InAll
    <3> QED
      BY <3>1, <3>2
  <2> QED
    BY <2>1, <2>2, <2>3 DEF Waiting
<1> QED
  BY <1>1, LocksInitially, LocksInductive, PTL DEF LocksSpec
=============================================================================

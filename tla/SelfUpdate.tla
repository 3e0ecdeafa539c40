----------------------------- MODULE SelfUpdate -----------------------------
(***************************************************************************)
(* One self-managed install of bmcp and the processes that replace its     *)
(* binary: the unattended update before doctor, sync and init, "bmcp       *)
(* update", "bmcp update --to" and "bmcp update --rollback" (update.go).   *)
(* They share the binary, its staging and recovery paths, the install      *)
(* receipt and the lock of UpdateLock; what a process read before it holds *)
(* the lock may be out of date once it does.                               *)
(***************************************************************************)
EXTENDS UpdateLock

CONSTANTS
  Newest,        \* releases are 1 .. Newest
  Modes,         \* the invocations that may start
  Broken         \* BOOLEAN: downloads, file operations and checks fail

ASSUME Releases ==
  /\ Newest \in Nat \ {0, 1} /\ Broken \in BOOLEAN
  /\ Modes \subseteq {"auto", "update", "to", "rollback"}

VARIABLES
  path, staged, old,   \* bmcp, .bmcp.new and .bmcp.old: a binary, or Absent
  receipt,    \* .bmcp.install.json
  latest,     \* the release GitHub calls latest
  upc, mode,  \* where each process is, and its invocation
  cur,        \* the version it runs
  goal,       \* the version it is to install; for a rollback, the one the
              \* receipt says it restores
  barred      \* history: the version blocked when it started, for as long as
              \* it is and until the process fails to read the receipt

files == <<path, staged, old>>
locals == <<mode, cur, goal, barred>>
uvars == <<lockVars, files, receipt, latest, upc, locals>>

Versions == 1 .. Newest
Binaries == [v : Versions, whole : BOOLEAN]

\* blocked: not to be installed unattended; from: what the last entry of the
\* update trail says was replaced.  0: none.
Receipts == [version : 0 .. Newest, blocked : 0 .. Newest, from : 0 .. Newest]

Working == {"fetch", "stage", "staging", "verify", "signature", "moveOld",
            "moveNew", "restore", "record", "trail", "back", "recordBack"}
UpdatePcs == Working \cup
  {"idle", "check", "receipt", "lock", "oldThere", "release", "corrupted",
   "done", "cutOff", "crashed"}

UpdateTypeOK ==
  /\ LockTypeOK
  /\ path \in Binaries \cup {Absent}
  /\ staged \in Binaries \cup {Absent}
  /\ old \in Binaries \cup {Absent}
  /\ receipt \in Receipts
  /\ latest \in Versions
  /\ upc \in [Updater -> UpdatePcs]
  /\ mode \in [Updater -> {"auto", "update", "to", "rollback"}]
  /\ cur \in [Updater -> 0 .. Newest]
  /\ goal \in [Updater -> 0 .. Newest]
  /\ barred \in [Updater -> 0 .. Newest]

\* The install is new, was updated once, or was updated and rolled back.
UpdateInit ==
  /\ LockInit
  /\ \/ /\ path = [v |-> 1, whole |-> TRUE] /\ old = Absent
        /\ receipt = [version |-> 1, blocked |-> 0, from |-> 0]
        /\ latest \in 1 .. 2
     \/ /\ path = [v |-> 2, whole |-> TRUE] /\ old = [v |-> 1, whole |-> TRUE]
        /\ receipt = [version |-> 2, blocked |-> 0, from |-> 1]
        /\ latest = 2
     \/ /\ path = [v |-> 1, whole |-> TRUE] /\ old = Absent
        /\ receipt = [version |-> 1, blocked |-> 2, from |-> 2]
        /\ latest = 2
  /\ staged = Absent
  /\ upc = [p \in Updater |-> "idle"]
  /\ mode = [p \in Updater |-> "update"]
  /\ cur = [p \in Updater |-> 0]
  /\ goal = [p \in Updater |-> 0]
  /\ barred = [p \in Updater |-> 0]

-----------------------------------------------------------------------------
(* Before the lock: which version, and whether at all. *)

Turn(p, l)    == upc' = [upc EXCEPT ![p] = l]
SetGoal(p, v) == goal' = [goal EXCEPT ![p] = v]

\* The process runs the binary it was started from, until it ends.
StartUpdate(p) ==
  /\ upc[p] = "idle" /\ path # Absent
  /\ cur' = [cur EXCEPT ![p] = path.v]
  /\ barred' = [barred EXCEPT ![p] = receipt.blocked]
  /\ \E m \in Modes :
       /\ mode' = [mode EXCEPT ![p] = m]
       /\ \/ /\ m = "to"                 \* Available: any other version
             /\ \E v \in Versions \ {path.v} : SetGoal(p, v)
             /\ Turn(p, "lock")
          \/ m = "rollback" /\ Turn(p, "oldThere") /\ UNCHANGED goal
          \/ m \in {"auto", "update"} /\ Turn(p, "check") /\ UNCHANGED goal
  /\ UNCHANGED <<lockVars, files, receipt, latest>>

\* Mutant: the release after the latest one is asked for.
CheckLatest_next(p) ==
  /\ upc[p] = "check" /\ latest > cur[p]
  /\ SetGoal(p, latest + 1)
  /\ Turn(p, "lock")
  /\ UNCHANGED <<lockVars, files, receipt, latest, mode, cur, barred>>

\* inspectUpdate asks for the latest release.  Neither mode moves backwards
\* from the version it runs, and an unattended update may also be off, pinned
\* or not due.
CheckLatest(p) ==
  /\ upc[p] = "check"
  /\ \/ /\ latest > cur[p]
        /\ SetGoal(p, latest)
        /\ Turn(p, IF mode[p] = "auto" THEN "receipt" ELSE "lock")
     \/ latest <= cur[p] /\ Turn(p, "done") /\ UNCHANGED goal
     \/ /\ Broken \/ mode[p] = "auto"
        /\ Turn(p, "done")
        /\ UNCHANGED goal
  /\ UNCHANGED <<lockVars, files, receipt, latest, mode, cur, barred>>

\* Mutant: the version running is compared with the one rolled back.
ReadBlocked_current(p) ==
  /\ upc[p] = "receipt"
  /\ Turn(p, IF receipt.blocked = cur[p] THEN "done" ELSE "lock")
  /\ UNCHANGED <<lockVars, files, receipt, latest, locals>>

\* maybeAutoUpdate leaves a version that was rolled back alone, and goes on
\* where the receipt cannot be read.
ReadBlocked(p) ==
  /\ upc[p] = "receipt"
  /\ \/ /\ Turn(p, IF receipt.blocked = goal[p] THEN "done" ELSE "lock")
        /\ UNCHANGED barred
     \/ Broken /\ Turn(p, "lock") /\ barred' = [barred EXCEPT ![p] = 0]
  /\ UNCHANGED <<lockVars, files, receipt, latest, mode, cur, goal>>

\* rollbackUpdate looks for a binary to restore before it takes the lock.
OldThere(p) ==
  /\ upc[p] = "oldThere"
  /\ Turn(p, IF old = Absent THEN "done" ELSE "lock")
  /\ UNCHANGED <<lockVars, files, receipt, latest, locals>>

Locking(p) ==
  /\ upc[p] = "lock"
  /\ Acquire(p)
  /\ \/ /\ lpc'[p] = "held"
        /\ Turn(p, IF mode[p] = "rollback" THEN "trail" ELSE "fetch")
     \/ lpc'[p] = "refused" /\ Turn(p, "done")
     \/ lpc'[p] \notin {"held", "refused"} /\ UNCHANGED upc
  /\ UNCHANGED <<files, receipt, latest, locals>>

-----------------------------------------------------------------------------
(* applyUpdate, under the lock *)

\* A step that may fail, and then gives up with nothing installed.
OrGiveUp(p, next) == Turn(p, next) \/ (Broken /\ Turn(p, "release"))

\* Download, checksum and extraction; then whatever is staged is removed.
Fetch(p) ==
  /\ upc[p] = "fetch"
  /\ \/ staged' = Absent /\ Turn(p, "stage")
     \/ Broken /\ UNCHANGED staged /\ Turn(p, "release")
  /\ UNCHANGED <<lockVars, path, old, receipt, latest, locals>>

Whole(p) == [v |-> goal[p], whole |-> TRUE]
Short(p) == [v |-> goal[p], whole |-> FALSE]

\* PrepareAndCheckBinary creates the staged file and writes it; a short write
\* may go unnoticed.  Updates that overlap truncate, remove and overwrite one
\* another's file.
Stage(p) ==
  /\ upc[p] = "stage"
  /\ staged' = Short(p)
  /\ Turn(p, "staging")
  /\ UNCHANGED <<lockVars, path, old, receipt, latest, locals>>

StageWhole(p) ==
  /\ upc[p] = "staging"
  /\ \/ staged # Absent /\ staged' = Whole(p) /\ Turn(p, "verify")
     \/ Broken /\ UNCHANGED staged /\ OrGiveUp(p, "verify")
     \/ /\ overlapped
        /\ UNCHANGED staged \/ (staged # Absent /\ staged' = Short(p))
        /\ Turn(p, "verify")
  /\ UNCHANGED <<lockVars, path, old, receipt, latest, locals>>

\* Mutant: the staged bytes are not read back.
VerifyStaged_trusted(p) ==
  /\ upc[p] = "verify"
  /\ Turn(p, "signature")
  /\ UNCHANGED <<lockVars, files, receipt, latest, locals>>

VerifyStaged(p) ==
  /\ upc[p] = "verify"
  /\ \/ staged = Whole(p) /\ Turn(p, "signature") /\ UNCHANGED staged
     \/ /\ Broken \/ staged # Whole(p)
        /\ staged' = Absent
        /\ Turn(p, "release")
  /\ UNCHANGED <<lockVars, path, old, receipt, latest, locals>>

\* checkSignature: it fails closed where there is a signature to check.
CheckSignature(p) ==
  /\ upc[p] = "signature"
  /\ \/ Turn(p, "moveOld") /\ UNCHANGED staged
     \/ Broken /\ staged' = Absent /\ Turn(p, "release")
  /\ UNCHANGED <<lockVars, path, old, receipt, latest, locals>>

\* CommitBinary (external): the binary moves to the recovery path, the staged
\* one takes its place; when that fails the first move is undone.
MoveOld(p) ==
  /\ upc[p] = "moveOld"
  /\ \/ path # Absent /\ old' = path /\ path' = Absent /\ Turn(p, "moveNew")
     \/ /\ Broken \/ path = Absent
        /\ old' = Absent
        /\ UNCHANGED path
        /\ Turn(p, "release")
  /\ UNCHANGED <<lockVars, staged, receipt, latest, locals>>

MoveNew(p) ==
  /\ upc[p] = "moveNew"
  /\ \/ staged # Absent /\ path' = staged /\ staged' = Absent /\ Turn(p, "record")
     \/ /\ Broken \/ staged = Absent
        /\ UNCHANGED <<path, staged>>
        /\ Turn(p, "restore")
  /\ UNCHANGED <<lockVars, old, receipt, latest, locals>>

\* Mutant: a failed swap is not undone.
MoveBack_not(p) ==
  /\ upc[p] = "restore"
  /\ Turn(p, "release")
  /\ UNCHANGED <<lockVars, files, receipt, latest, locals>>

MoveBack(p) ==
  /\ upc[p] = "restore"
  /\ \/ old # Absent /\ path' = old /\ old' = Absent /\ Turn(p, "release")
     \/ /\ Broken \/ old = Absent
        /\ UNCHANGED <<path, old>>
        /\ Turn(p, "corrupted")
  /\ UNCHANGED <<lockVars, staged, receipt, latest, locals>>

\* History: who began while another version was blocked is barred from none.
StillBarred ==
  barred' = [q \in Updater |->
    IF barred[q] = receipt'.blocked THEN barred[q] ELSE 0]

\* recordUpdate: an install supersedes the hold of a rollback.  The update
\* stands when this fails.
Record(p) ==
  /\ upc[p] = "record"
  /\ \/ receipt' = [version |-> goal[p], blocked |-> 0, from |-> cur[p]]
     \/ Broken /\ UNCHANGED receipt
  /\ StillBarred
  /\ Turn(p, "release")
  /\ UNCHANGED <<lockVars, files, latest, mode, cur, goal>>

-----------------------------------------------------------------------------
(* rollbackUpdate, under the lock *)

ReadTrail(p) ==
  /\ upc[p] = "trail"
  /\ SetGoal(p, receipt.from) \/ (Broken /\ SetGoal(p, 0))
  /\ Turn(p, "back")
  /\ UNCHANGED <<lockVars, files, receipt, latest, mode, cur, barred>>

\* The other process may have restored it already.
RenameBack(p) ==
  /\ upc[p] = "back"
  /\ \/ /\ old # Absent
        /\ path' = old /\ old' = Absent
        /\ Turn(p, "recordBack")
     \/ /\ Broken \/ old = Absent
        /\ UNCHANGED <<path, old>>
        /\ Turn(p, "release")
  /\ UNCHANGED <<lockVars, staged, receipt, latest, locals>>

RecordBack(p) ==
  /\ upc[p] = "recordBack"
  /\ \/ receipt' = [version |-> goal[p], blocked |-> cur[p], from |-> cur[p]]
     \/ Broken /\ UNCHANGED receipt
  /\ StillBarred
  /\ Turn(p, "release")
  /\ UNCHANGED <<lockVars, files, latest, mode, cur, goal>>

-----------------------------------------------------------------------------
Unlocking(p) ==
  /\ upc[p] \in {"release", "corrupted"}
  /\ Release(p)
  /\ Turn(p, IF lpc'[p] = "released" /\ upc[p] = "release" THEN "done" ELSE upc[p])
  /\ UNCHANGED <<files, receipt, latest, locals>>

\* A process dies, with its lock file left where it is.
Dies(p) ==
  /\ Perish(p)
  /\ Turn(p, IF upc[p] \in {"moveNew", "restore", "corrupted"}
             THEN "cutOff" ELSE "crashed")
  /\ UNCHANGED <<files, receipt, latest, locals>>

Staleness == GrowStale /\ UNCHANGED <<files, receipt, latest, upc, locals>>

Publish ==
  /\ latest < Newest
  /\ latest' = latest + 1
  /\ UNCHANGED <<lockVars, files, receipt, upc, locals>>

Before(p) ==
  StartUpdate(p) \/ CheckLatest(p) \/ ReadBlocked(p) \/ OldThere(p) \/ Locking(p)
Apply(p) ==
  \/ Fetch(p) \/ Stage(p) \/ StageWhole(p) \/ VerifyStaged(p)
  \/ CheckSignature(p) \/ MoveOld(p) \/ MoveNew(p) \/ MoveBack(p) \/ Record(p)
Rollback(p) == ReadTrail(p) \/ RenameBack(p) \/ RecordBack(p)

AllDone ==
  /\ \A p \in Updater :
       \/ upc[p] \in {"done", "cutOff", "crashed"}
       \/ upc[p] = "corrupted" /\ lpc[p] = "released"
       \/ upc[p] = "idle" /\ path = Absent
  /\ UNCHANGED uvars

UpdateNext ==
  \/ \E p \in Updater :
       Before(p) \/ Apply(p) \/ Rollback(p) \/ Unlocking(p) \/ Dies(p)
  \/ Staleness \/ Publish
  \/ AllDone

UpdateSpec == UpdateInit /\ [][UpdateNext]_uvars

-----------------------------------------------------------------------------
(* As long as the lock has kept updates apart, what is at the install path is a
   whole, verified binary: nothing that was cut short while it was written is
   ever installed or restored. *)
InstalledWhole == ~overlapped /\ path # Absent => path.whole

(* "there may be no bmcp at this path" is never passed over in silence: while
   it is missing, a process is between the two renames, with a whole binary
   kept for it at the recovery path, or died there (which nobody reports), or
   reports errUpdateCorrupted; again as long as updates have been kept apart. *)
MissingIsReported ==
  ~overlapped /\ path = Absent =>
    \E p \in Updater :
      \/ upc[p] \in {"moveNew", "restore"} /\ old # Absent /\ old.whole
      \/ upc[p] \in {"corrupted", "cutOff"}

(* What rollback tells its operator, the version it rolled back "will not be
   installed automatically again on this machine", holds of every unattended
   update that starts after it: none installs a version that was blocked when
   it began and has been ever since, if it could read the receipt.  (One that
   read the receipt before the rollback does install it.) *)
BlockedStaysOut ==
  [][\A p \in Updater :
       upc[p] = "moveNew" /\ upc'[p] = "record" /\ mode[p] = "auto"
         => barred[p] # goal[p]]_uvars
=============================================================================

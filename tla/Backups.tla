------------------------------- MODULE Backups -------------------------------
(***************************************************************************)
(* writeFileWithBackup of harness.go: an instruction file that several     *)
(* bmcp processes rewrite without a lock.  A write stages its temporary    *)
(* file, copies what it read to a new backup, renames the staged file into *)
(* place and then prunes the backups.  A process that dies is one that     *)
(* takes no more of these steps: there is no lock for it to leave behind.  *)
(***************************************************************************)
EXTENDS Naturals, FiniteSets

CONSTANTS
  Writer,        \* the processes that may write the file
  Content,       \* what can be in it
  Original,      \* what is in it at first
  Generations,   \* backupGenerations
  Oldest,        \* backups there are at first, made at times 1 .. Oldest
  Faults         \* BOOLEAN: file operations fail

ASSUME BackupConstants ==
  /\ Original \in Content /\ Generations \in Nat \ {0}
  /\ Oldest \in 0 .. Generations /\ Faults \in BOOLEAN

VARIABLES
  file,      \* the instruction file
  baks,      \* its backups; at: the order of their modification times
  clock,     \* modification times given so far
  wpc,       \* where each writer is in writeFileWithBackup
  want,      \* what it is to write
  was,       \* what it read, to be backed up
  mine,      \* the modification time of its own backup
  victims    \* the backups it is about to prune

wlocals    == <<wpc, want, was, mine, victims>>
backupVars == <<file, baks, clock, wlocals>>

Bak(at, of) == [at |-> at, of |-> of]

WritePcs == {"out", "read", "backup", "commit", "undo", "list", "prune",
             "changed", "same", "failed"}
WriteEnds == {"changed", "same", "failed"}
WriteEnded(p) == wpc[p] \in WriteEnds
InFlight(p) == wpc[p] \in {"commit", "undo", "list", "prune"}

Backup == [at : Nat, of : Content]

BackupsTypeOK ==
  /\ file \in Content /\ clock \in Nat
  /\ baks \subseteq Backup
  /\ wpc \in [Writer -> WritePcs]
  /\ want \in [Writer -> Content] /\ was \in [Writer -> Content]
  /\ mine \in [Writer -> Nat]
  /\ victims \in [Writer -> SUBSET Backup]

BackupsInit ==
  /\ file = Original
  /\ baks = {Bak(i, Original) : i \in 1 .. Oldest}
  /\ clock = Oldest
  /\ wpc = [p \in Writer |-> "out"]
  /\ want = [p \in Writer |-> Original]
  /\ was = [p \in Writer |-> Original]
  /\ mine = [p \in Writer |-> 0]
  /\ victims = [p \in Writer |-> {}]

WGo(p, l) == wpc' = [wpc EXCEPT ![p] = l]

BeginWrite(p, c) ==
  /\ wpc[p] \in WriteEnds \cup {"out"}
  /\ want' = [want EXCEPT ![p] = c]
  /\ WGo(p, "read")
  /\ UNCHANGED <<file, baks, clock, was, mine, victims>>

\* Identical bytes are not written.  The new content goes to a temporary file
\* of this process's own first, so that nothing but that is there yet, and goes
\* when anything fails.
ReadOld(p) ==
  /\ wpc[p] = "read"
  /\ was' = [was EXCEPT ![p] = file]
  /\ \/ WGo(p, IF file = want[p] THEN "same" ELSE "backup")
     \/ Faults /\ WGo(p, "failed")
  /\ UNCHANGED <<file, baks, clock, want, mine, victims>>

BackupOld(p) ==
  /\ wpc[p] = "backup"
  /\ \/ /\ clock' = clock + 1
        /\ baks' = baks \cup {Bak(clock + 1, was[p])}
        /\ mine' = [mine EXCEPT ![p] = clock + 1]
        /\ WGo(p, "commit")
     \/ Faults /\ WGo(p, "failed") /\ UNCHANGED <<baks, clock, mine>>
  /\ UNCHANGED <<file, want, was, victims>>

Commit(p) ==
  /\ wpc[p] = "commit"
  /\ \/ file' = want[p] /\ WGo(p, "list")
     \/ Faults /\ WGo(p, "undo") /\ UNCHANGED file
  /\ UNCHANGED <<baks, clock, want, was, mine, victims>>

\* Mutant: a write that failed leaves its backup.
UndoBackup_not(p) ==
  /\ wpc[p] = "undo"
  /\ WGo(p, "failed")
  /\ UNCHANGED <<file, baks, clock, want, was, mine, victims>>

\* A removal, and the listing of the directory below, are taken to succeed.
UndoBackup(p) ==
  /\ wpc[p] = "undo"
  /\ baks' = {b \in baks : b.at # mine[p]}
  /\ WGo(p, "failed")
  /\ UNCHANGED <<file, clock, want, was, mine, victims>>

\* pruneOldBackups lists first: its own backup is kept, and Generations - 1 of
\* the others, by modification time.
Others(p) == {b \in baks : b.at # mine[p]}
\* Mutant: the newest of the others go.
Prunable_newest(p) ==
  {b \in Others(p) :
     Cardinality({c \in Others(p) : c.at < b.at}) >= Generations - 1}
Prunable(p) ==
  {b \in Others(p) :
     Cardinality({c \in Others(p) : c.at > b.at}) >= Generations - 1}

ListBackups(p) ==
  /\ wpc[p] = "list"
  /\ victims' = [victims EXCEPT ![p] = Prunable(p)]
  /\ WGo(p, "prune")
  /\ UNCHANGED <<file, baks, clock, want, was, mine>>

Prune(p) ==
  /\ wpc[p] = "prune"
  /\ baks' = baks \ victims[p]
  /\ WGo(p, "changed")
  /\ UNCHANGED <<file, clock, want, was, mine, victims>>

WriteStep(p) ==
  \/ ReadOld(p) \/ BackupOld(p) \/ Commit(p) \/ UndoBackup(p)
  \/ ListBackups(p) \/ Prune(p)

-----------------------------------------------------------------------------
(* "two consecutive bad writes leave no restore point at all" must not happen:
   what was in the file at first is still in it or in a backup until more than
   Generations backups have been taken since, whoever takes and prunes them. *)
RestorePoint ==
  clock <= Oldest + Generations =>
    file = Original \/ \E b \in baks : b.at > Oldest /\ b.of = Original

(* Backups do not pile up: never more than Generations of them beside those of
   writes under way or cut off.  A write that fails leaves none, or one would
   be added by every session on a machine where writing keeps failing. *)
BackupsBounded ==
  Cardinality(baks) <= Generations + Cardinality({p \in Writer : InFlight(p)})
=============================================================================

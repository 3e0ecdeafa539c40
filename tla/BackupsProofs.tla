---------------------------- MODULE BackupsProofs ----------------------------
(* Theorems about the backups of an instruction file, for any processes and   *)
(* any number of generations.  What the processes do between their writes is  *)
(* Catalog's: here it is enough that they write by WriteStep, and only what   *)
(* can be in the file.                                                        *)
EXTENDS CatalogProofs, FiniteSetTheorems

BackupsNext ==
  \E p \in Writer : WriteStep(p) \/ \E c \in Content : BeginWrite(p, c)

\* The catalog's processes write the file in no other way.
LEMMA CatalogWrites == CatalogInv /\ [CatalogNext]_cvars => [BackupsNext]_backupVars
<1> SUFFICES ASSUME CatalogInv, [CatalogNext]_cvars PROVE [BackupsNext]_backupVars
  OBVIOUS
<1>1. CASE UNCHANGED cvars
  BY <1>1 DEF cvars
<1>2. ASSUME NEW p \in Writer,
             StartProcess(p) \/ Forget(p) \/ ReadCatalog(p) \/ Sync(p) \/ NextHarness(p)
      PROVE  UNCHANGED backupVars
  BY <1>2 DEF StartProcess, Forget, ReadCatalog, Sync, ListTools, ReadPage, CheckEmpty, Store,
              NextHarness
<1>3. ASSUME NEW p \in Writer, Refresh(p) \/ Use(p) PROVE [BackupsNext]_backupVars
  <2>1. \/ UNCHANGED backupVars
        \/ /\ pc[p] \in {"refresh", "use"}
           /\ BeginWrite(p, cache[p].n)
    BY <1>3 DEF Refresh, Use
  <2>2. pc[p] \in {"refresh", "use"} => cache[p].n \in Content
    BY CatalogConstants
       DEF CatalogInv, ServesACatalog, CatalogTypeOK, Catalogs
  <2> QED
    BY <2>1, <2>2 DEF BackupsNext
<1>4. ASSUME NEW p \in Writer, Refreshing(p) \/ Installing(p)
      PROVE  [BackupsNext]_backupVars
  BY <1>4 DEF Refreshing, Installing, BackupsNext
<1>5. CASE Age \/ AllOver
  BY <1>5 DEF Age, AllOver, cvars
<1> QED
  BY <1>1, <1>2, <1>3, <1>4, <1>5 DEF CatalogNext, Instruct

-----------------------------------------------------------------------------
(* Counting backups *)

OneAtATime(S) == \A b, c \in S : b.at = c.at => b = c

\* Backups of different times are no more than the times they may have.
LEMMA ByTime ==
  ASSUME NEW S \in SUBSET Backup, OneAtATime(S), NEW T, IsFiniteSet(T),
         \A b \in S : b.at \in T
  PROVE  IsFiniteSet(S) /\ Cardinality(S) <= Cardinality(T)
<1> DEFINE f == [b \in S |-> b.at]
<1>1. f \in Injection(S, T)
  BY DEF Injection, IsInjective, OneAtATime
<1> QED
  BY <1>1, FS_Injection

\* At most n of them have fewer than n newer ones.
LEMMA Newest ==
  ASSUME NEW S \in SUBSET Backup, IsFiniteSet(S), OneAtATime(S), NEW n \in Nat
  PROVE  LET Newer(b) == {c \in S : c.at > b.at}
             K == {b \in S : Cardinality(Newer(b)) < n}
         IN  IsFiniteSet(K) /\ Cardinality(K) <= n
<1> DEFINE Newer(b) == {c \in S : c.at > b.at}
           K == {b \in S : Cardinality(Newer(b)) < n}
           f == [b \in K |-> Cardinality(Newer(b))]
<1>1. \A b \in S : IsFiniteSet(Newer(b)) /\ Cardinality(Newer(b)) \in Nat
  BY FS_Subset, FS_CardinalityType
<1>2. ASSUME NEW b \in K, NEW c \in K, b.at < c.at PROVE f[c] < f[b]
  <2>1. Newer(c) \subseteq Newer(b) /\ c \in Newer(b) /\ c \notin Newer(c)
    BY <1>2 DEF Backup
  <2>2. Cardinality(Newer(c)) <= Cardinality(Newer(b)) /\ Cardinality(Newer(c)) # Cardinality(Newer(b))
    BY <1>1, <2>1, FS_Subset
  <2> QED
    BY <1>1, <2>2
<1>3. f \in [K -> 0 .. n - 1]
  BY <1>1
<1>4. ASSUME NEW b \in K, NEW c \in K, f[b] = f[c] PROVE b = c
  <2>1. b.at \in Nat /\ c.at \in Nat
    BY DEF Backup
  <2>2. f[b] \in Nat /\ f[c] \in Nat
    BY <1>3
  <2>3. b.at = c.at
    BY <1>2, <1>4, <2>1, <2>2
  <2> QED
    BY <2>3 DEF OneAtATime
<1>5. f \in Injection(K, 0 .. n - 1)
  BY <1>3, <1>4 DEF Injection, IsInjective
<1>6. IsFiniteSet(0 .. n - 1) /\ Cardinality(0 .. n - 1) = n
  BY FS_Interval
<1> QED
  BY <1>5, <1>6, FS_Injection

-----------------------------------------------------------------------------
(* Whose backup is whose *)

\* Each backup has a time of its own, no later than the last one given, and so
\* has each write under way.
Dated ==
  /\ Oldest <= clock
  /\ IsFiniteSet(baks) /\ OneAtATime(baks)
  /\ \A b \in baks : b.at <= clock
  /\ \A p \in Writer : InFlight(p) =>
       /\ Oldest < mine[p] /\ mine[p] <= clock
       /\ \A q \in Writer : InFlight(q) /\ mine[q] = mine[p] => q = p

LEMMA NewBackup ==
  ASSUME NEW t \in Nat, NEW c \in Content
  PROVE  Bak(t, c) \in Backup /\ Bak(t, c).at = t /\ Bak(t, c).of = c
BY DEF Bak, Backup

LEMMA DatedKept == BackupsTypeOK /\ Dated /\ [BackupsNext]_backupVars => Dated'
<1> SUFFICES ASSUME BackupsTypeOK, Dated, [BackupsNext]_backupVars PROVE Dated'
  OBVIOUS
<1> USE DEF BackupsTypeOK, Dated, WGo, InFlight, OneAtATime
<1>1. CASE UNCHANGED backupVars
  BY <1>1 DEF backupVars, wlocals
<1>2. ASSUME NEW p \in Writer, NEW c \in Content, BeginWrite(p, c) PROVE Dated'
  BY <1>2 DEF BeginWrite, WriteEnds
<1>3. ASSUME NEW p \in Writer, ReadOld(p) PROVE Dated'
  BY <1>3 DEF ReadOld
<1>4. ASSUME NEW p \in Writer, BackupOld(p) PROVE Dated'
  <2>1. CASE wpc' = [wpc EXCEPT ![p] = "failed"] /\ UNCHANGED <<baks, clock, mine>>
    BY <2>1
  <2>2. CASE /\ clock' = clock + 1
             /\ baks' = baks \cup {Bak(clock + 1, was[p])}
             /\ mine' = [mine EXCEPT ![p] = clock + 1]
             /\ wpc' = [wpc EXCEPT ![p] = "commit"]
    <3>1. IsFiniteSet(baks')
      BY <2>2, FS_AddElement
    <3>2. Bak(clock + 1, was[p]).at = clock + 1
      BY NewBackup
    <3>3. (\A b \in baks' : b.at <= clock') /\ OneAtATime(baks')
      BY <2>2, <3>2 DEF Backup
    <3>4. \A q \in Writer : InFlight(q)' =>
            Oldest < mine'[q] /\ mine'[q] <= clock'
      BY <2>2, BackupConstants
    <3>5. \A q, r \in Writer : InFlight(q)' /\ InFlight(r)' /\ mine'[q] = mine'[r] => q = r
      BY <2>2
    <3> QED
      BY <2>2, <3>1, <3>3, <3>4, <3>5, BackupConstants
  <2> QED
    BY <1>4, <2>1, <2>2 DEF BackupOld
<1>5. ASSUME NEW p \in Writer, Commit(p) PROVE Dated'
  BY <1>5 DEF Commit
<1>6. ASSUME NEW p \in Writer, UndoBackup(p) \/ Prune(p) PROVE Dated'
  <2>1. baks' \subseteq baks /\ UNCHANGED <<clock, mine>>
        /\ \E l \in {"failed", "changed"} : wpc' = [wpc EXCEPT ![p] = l]
    BY <1>6 DEF UndoBackup, Prune
  <2>2. IsFiniteSet(baks')
    BY <2>1, FS_Subset
  <2> QED
    BY <2>1, <2>2
<1>7. ASSUME NEW p \in Writer, ListBackups(p) PROVE Dated'
  BY <1>7 DEF ListBackups
<1> QED
  BY <1>1, <1>2, <1>3, <1>4, <1>5, <1>6, <1>7 DEF BackupsNext, WriteStep

LEMMA DatedInitially == BackupsInit => Dated
<1> SUFFICES ASSUME BackupsInit PROVE Dated
  OBVIOUS
<1>1. \A i \in 1 .. Oldest : Bak(i, Original) \in Backup /\ Bak(i, Original).at = i
  BY BackupConstants, NewBackup
<1>2. baks \in SUBSET Backup /\ OneAtATime(baks) /\ \A b \in baks : b.at \in 1 .. Oldest
  BY <1>1 DEF BackupsInit, OneAtATime
<1>3. IsFiniteSet(1 .. Oldest)
  BY BackupConstants, FS_Interval
<1>4. IsFiniteSet(baks)
  BY <1>2, <1>3, ByTime
<1> QED
  BY <1>2, <1>4, BackupConstants DEF BackupsInit, Dated, InFlight

-----------------------------------------------------------------------------
(* How many backups there are *)

\* What remains when the processes in Q have pruned, apart from the backups that
\* other writes still answer for.
Rest(Q) ==
  {b \in baks : /\ \A p \in Writer \ Q : InFlight(p) => b.at # mine[p]
                /\ \A q \in Q : b \notin victims[q]}

\* Whoever of those that prune gets to it, in whatever order.
Piled ==
  \A Q \in SUBSET {p \in Writer : wpc[p] = "prune"} :
    Cardinality(Rest(Q)) <= Generations

\* A listing spares its process's own backup and the newest of the others.
LEMMA Spared ==
  ASSUME BackupsTypeOK, Dated, NEW p \in Writer
  PROVE  Cardinality(baks \ Prunable(p)) <= Generations
<1> DEFINE S == Others(p)
           Newer(b) == {c \in S : c.at > b.at}
           K == {b \in S : Cardinality(Newer(b)) < Generations - 1}
           M == {b \in baks : b.at = mine[p]}
<1>1. S \in SUBSET Backup /\ IsFiniteSet(S) /\ OneAtATime(S)
  BY FS_Subset DEF BackupsTypeOK, Dated, Others, OneAtATime
<1>2. Generations - 1 \in Nat /\ Generations \in Nat
  BY BackupConstants
<1>3. IsFiniteSet(K) /\ Cardinality(K) <= Generations - 1
  BY <1>1, <1>2, Newest
<1>4. M \in SUBSET Backup /\ OneAtATime(M) /\ \A b \in M : b.at \in {mine[p]}
  BY DEF BackupsTypeOK, Dated, OneAtATime
<1>5. IsFiniteSet(M) /\ Cardinality(M) <= 1
  <2>1. IsFiniteSet({mine[p]}) /\ Cardinality({mine[p]}) = 1
    BY FS_Singleton
  <2> QED
    BY <1>4, <2>1, ByTime
<1>6. baks \ Prunable(p) \subseteq K \cup M
  <2>1. \A b \in S : Cardinality(Newer(b)) \in Nat
    BY <1>1, FS_Subset, FS_CardinalityType
  <2>2. \A b \in S \ Prunable(p) : Cardinality(Newer(b)) < Generations - 1
    BY <2>1, <1>2 DEF Prunable
  <2> QED
    BY <2>2 DEF Others
<1>7. IsFiniteSet(K \cup M) /\ Cardinality(K \cup M) <= Generations
  <2>1. Cardinality(K \cap M) \in Nat /\ Cardinality(K) \in Nat /\ Cardinality(M) \in Nat
    BY <1>3, <1>5, FS_Intersection, FS_CardinalityType
  <2>2. /\ IsFiniteSet(K \cup M)
        /\ Cardinality(K \cup M) = Cardinality(K) + Cardinality(M) - Cardinality(K \cap M)
    BY <1>3, <1>5, FS_Union
  <2> QED
    BY <1>2, <1>3, <1>5, <2>1, <2>2
<1>8. Cardinality(baks \ Prunable(p)) <= Cardinality(K \cup M)
      /\ Cardinality(baks \ Prunable(p)) \in Nat /\ Cardinality(K \cup M) \in Nat
  BY <1>6, <1>7, FS_Subset, FS_CardinalityType
<1> QED
  BY <1>2, <1>7, <1>8

\* Fewer backups are no more.
LEMMA Fewer ==
  ASSUME NEW S, IsFiniteSet(S), NEW T, T \subseteq S, Cardinality(S) <= Generations
  PROVE  Cardinality(T) <= Generations
<1>1. Cardinality(T) <= Cardinality(S) /\ IsFiniteSet(T)
  BY FS_Subset
<1>2. Cardinality(T) \in Nat /\ Cardinality(S) \in Nat
  BY <1>1, FS_CardinalityType
<1> QED
  BY <1>1, <1>2, BackupConstants

\* Every step leaves of what remains at most what remained before it.
LEMMA PiledKept ==
  BackupsTypeOK /\ Dated /\ Piled /\ [BackupsNext]_backupVars => Piled'
<1> SUFFICES ASSUME BackupsTypeOK, Dated, Piled, [BackupsNext]_backupVars,
                    NEW Q \in SUBSET {p \in Writer : wpc'[p] = "prune"}
             PROVE  Cardinality(Rest(Q)') <= Generations
  BY DEF Piled
<1> DEFINE Before(R) == /\ R \in SUBSET {p \in Writer : wpc[p] = "prune"}
                        /\ Rest(Q)' \subseteq Rest(R)
<1>0. ASSUME NEW R, Before(R) PROVE Cardinality(Rest(Q)') <= Generations
  <2>1. IsFiniteSet(Rest(R)) /\ Cardinality(Rest(R)) <= Generations
    BY <1>0, FS_Subset DEF Dated, Rest, Piled
  <2> QED
    BY <1>0, <2>1, Fewer
<1> USE DEF BackupsTypeOK, WGo, InFlight, Rest
<1>1. CASE UNCHANGED backupVars
  <2>1. Before(Q)
    BY <1>1 DEF backupVars, wlocals
  <2> QED
    BY <2>1, <1>0
<1>2. ASSUME NEW p \in Writer, NEW c \in Content, BeginWrite(p, c)
      PROVE  Cardinality(Rest(Q)') <= Generations
  <2>1. Before(Q)
    BY <1>2 DEF BeginWrite, WriteEnds
  <2> QED
    BY <2>1, <1>0
<1>3. ASSUME NEW p \in Writer, ReadOld(p) \/ Commit(p)
      PROVE  Cardinality(Rest(Q)') <= Generations
  <2>1. UNCHANGED <<baks, mine, victims>>
        /\ \/ /\ wpc[p] = "read"
              /\ \E l \in {"same", "backup", "failed"} : wpc' = [wpc EXCEPT ![p] = l]
           \/ /\ wpc[p] = "commit"
              /\ \E l \in {"list", "undo"} : wpc' = [wpc EXCEPT ![p] = l]
    BY <1>3 DEF ReadOld, Commit
  <2>2. Before(Q)
    BY <2>1
  <2> QED
    BY <2>2, <1>0
<1>4. ASSUME NEW p \in Writer, BackupOld(p)
      PROVE  Cardinality(Rest(Q)') <= Generations
  <2>1. wpc[p] = "backup" /\ UNCHANGED victims
    BY <1>4 DEF BackupOld
  <2>2. CASE wpc' = [wpc EXCEPT ![p] = "failed"] /\ UNCHANGED <<baks, clock, mine>>
    <3>1. Before(Q)
      BY <2>1, <2>2
    <3> QED
      BY <3>1, <1>0
  <2>3. CASE /\ baks' = baks \cup {Bak(clock + 1, was[p])}
             /\ mine' = [mine EXCEPT ![p] = clock + 1]
             /\ wpc' = [wpc EXCEPT ![p] = "commit"]
    <3>1. Bak(clock + 1, was[p]).at = clock + 1
      BY NewBackup
    <3>2. p \notin Q /\ mine'[p] = clock + 1 /\ InFlight(p)'
      BY <2>1, <2>3
    <3>3. Rest(Q)' \subseteq baks
      BY <2>3, <3>1, <3>2
    <3>4. Rest(Q)' \subseteq Rest(Q)
      BY <2>1, <2>3, <3>2, <3>3
    <3>5. Before(Q)
      BY <2>1, <2>3, <3>4
    <3> QED
      BY <3>5, <1>0
  <2> QED
    BY <1>4, <2>2, <2>3 DEF BackupOld
<1>5. ASSUME NEW p \in Writer, UndoBackup(p)
      PROVE  Cardinality(Rest(Q)') <= Generations
  <2>1. /\ wpc[p] = "undo" /\ baks' = {b \in baks : b.at # mine[p]}
        /\ wpc' = [wpc EXCEPT ![p] = "failed"] /\ UNCHANGED <<mine, victims>>
    BY <1>5 DEF UndoBackup
  <2>2. Before(Q)
    BY <2>1
  <2> QED
    BY <2>2, <1>0
<1>6. ASSUME NEW p \in Writer, ListBackups(p)
      PROVE  Cardinality(Rest(Q)') <= Generations
  <2>1. /\ wpc[p] = "list" /\ UNCHANGED <<baks, mine>>
        /\ victims' = [victims EXCEPT ![p] = Prunable(p)]
        /\ wpc' = [wpc EXCEPT ![p] = "prune"]
    BY <1>6 DEF ListBackups
  <2>2. CASE p \in Q
    <3>1. Rest(Q)' \subseteq baks \ Prunable(p)
      BY <2>1, <2>2
    <3>2. IsFiniteSet(baks \ Prunable(p))
      BY FS_Difference DEF Dated
    <3> QED
      BY <3>1, <3>2, Spared, Fewer
  <2>3. CASE p \notin Q
    <3>1. Before(Q)
      BY <2>1, <2>3
    <3> QED
      BY <3>1, <1>0
  <2> QED
    BY <2>2, <2>3
<1>7. ASSUME NEW p \in Writer, Prune(p)
      PROVE  Cardinality(Rest(Q)') <= Generations
  <2>1. /\ wpc[p] = "prune" /\ baks' = baks \ victims[p]
        /\ wpc' = [wpc EXCEPT ![p] = "changed"] /\ UNCHANGED <<mine, victims>>
    BY <1>7 DEF Prune
  <2>2. Before(Q \cup {p})
    BY <2>1
  <2> QED
    BY <2>2, <1>0
<1> QED
  BY <1>1, <1>2, <1>3, <1>4, <1>5, <1>6, <1>7 DEF BackupsNext, WriteStep

LEMMA PiledInitially == BackupsInit => Piled
<1> SUFFICES ASSUME BackupsInit, NEW Q \in SUBSET {p \in Writer : wpc[p] = "prune"}
             PROVE  Cardinality(Rest(Q)) <= Generations
  BY DEF Piled
<1>1. \A i \in 1 .. Oldest : Bak(i, Original) \in Backup /\ Bak(i, Original).at = i
  BY BackupConstants, NewBackup
<1>2. baks \in SUBSET Backup /\ OneAtATime(baks) /\ \A b \in baks : b.at \in 1 .. Oldest
  BY <1>1 DEF BackupsInit, OneAtATime
<1>3. IsFiniteSet(1 .. Oldest) /\ Cardinality(1 .. Oldest) = Oldest
  BY BackupConstants, FS_Interval
<1>4. IsFiniteSet(baks) /\ Cardinality(baks) <= Oldest
  BY <1>2, <1>3, ByTime
<1>5. Cardinality(baks) <= Generations /\ Rest(Q) \subseteq baks
  BY <1>4, FS_CardinalityType, BackupConstants DEF Rest
<1> QED
  BY <1>4, <1>5, Fewer

\* The others are those of writes under way, one each.
LEMMA Counted ==
  ASSUME BackupsTypeOK, Dated, Piled, IsFiniteSet(Writer) PROVE BackupsBounded
<1> DEFINE F == {p \in Writer : InFlight(p)}
           Owned == {b \in baks : \E p \in F : b.at = mine[p]}
           T == {mine[p] : p \in F}
           owner == [b \in Owned |-> CHOOSE p \in F : b.at = mine[p]]
<1>1. IsFiniteSet(F) /\ Cardinality(F) \in Nat
  BY FS_Subset, FS_CardinalityType
<1>2. owner \in Injection(Owned, F)
  <2>1. \A b \in Owned : owner[b] \in F /\ b.at = mine[owner[b]]
    OBVIOUS
  <2> QED
    BY <2>1 DEF Injection, IsInjective, Dated, OneAtATime
<1>3. IsFiniteSet(Owned) /\ Cardinality(Owned) <= Cardinality(F)
  BY <1>1, <1>2, FS_Injection
<1>4. IsFiniteSet(Rest({})) /\ Cardinality(Rest({})) <= Generations
  BY FS_Subset DEF Piled, Dated, Rest
<1>5. baks = Rest({}) \cup Owned
  BY DEF Rest
<1>6. /\ Cardinality(baks)
           = Cardinality(Rest({})) + Cardinality(Owned) - Cardinality(Rest({}) \cap Owned)
      /\ Cardinality(Rest({}) \cap Owned) \in Nat
      /\ Cardinality(Rest({})) \in Nat /\ Cardinality(Owned) \in Nat
  BY <1>3, <1>4, <1>5, FS_Union, FS_Intersection, FS_CardinalityType
<1> QED
  BY <1>1, <1>3, <1>4, <1>6, BackupConstants DEF BackupsBounded

LEMMA BackupsPiled == CatalogSpec => [](CatalogInv /\ Dated /\ Piled)
<1>1. CatalogInit => Dated /\ Piled
  BY DatedInitially, PiledInitially DEF CatalogInit
<1>2. CatalogInv /\ Dated /\ Piled /\ [CatalogNext]_cvars => Dated' /\ Piled'
  BY CatalogWrites, DatedKept, PiledKept DEF CatalogInv, CatalogTypeOK
<1> QED
  BY <1>1, <1>2, CatalogAlways, PTL DEF CatalogSpec

(* However many processes write, die and prune at once, the backups that no
   write under way answers for are at most Generations. *)
THEOREM Bounded ==
  ASSUME IsFiniteSet(Writer)
  PROVE  CatalogSpec => []BackupsBounded
<1>1. CatalogInv /\ Dated /\ Piled => BackupsBounded
  BY Counted DEF CatalogInv, CatalogTypeOK
<1> QED
  BY <1>1, BackupsPiled, PTL

-----------------------------------------------------------------------------
(* The restore point *)

Early == clock <= Oldest + Generations

\* Until then no listing condemns a backup that was taken since the beginning.
OldVictims ==
  Early => \A p \in Writer : wpc[p] = "prune" => \A b \in victims[p] : b.at <= Oldest

\* Nobody has replaced the file, and whoever is about to has a backup of it; or
\* there is a backup of it that no write that may still fail will take away.
Pristine ==
  /\ file = Original
  /\ \A p \in Writer :
       /\ wpc[p] \in {"backup", "commit"} => was[p] = Original
       /\ wpc[p] = "commit" => Bak(mine[p], Original) \in baks
Stands ==
  \E b \in baks :
    /\ b.at > Oldest /\ b.of = Original
    /\ \A p \in Writer : wpc[p] \in {"commit", "undo"} => b.at # mine[p]
Restorable == Early => Pristine \/ Stands

\* Few backups have been taken since, and one of them is the process's own.
LEMMA NewSpared ==
  ASSUME BackupsTypeOK, Dated, Early, NEW p \in Writer, InFlight(p), NEW b \in Prunable(p)
  PROVE  b.at <= Oldest
<1> SUFFICES ASSUME b.at > Oldest PROVE FALSE
  BY BackupConstants DEF Prunable, Others, BackupsTypeOK, Backup
<1> DEFINE Newer == {c \in Others(p) : c.at > b.at}
           N == Oldest + 1 .. clock
           T == (N \ {b.at}) \ {mine[p]}
<1>1. /\ Oldest \in Nat /\ clock \in Nat /\ Generations \in Nat \ {0}
      /\ b.at \in N /\ mine[p] \in N /\ b.at # mine[p]
  BY BackupConstants DEF Prunable, Others, BackupsTypeOK, Backup, Dated
<1>2. IsFiniteSet(N) /\ Cardinality(N) = clock - Oldest
  <2>1. IsFiniteSet(N) /\ Cardinality(N) = IF Oldest + 1 > clock THEN 0 ELSE clock - (Oldest + 1) + 1
    BY <1>1, FS_Interval
  <2> QED
    BY <1>1, <2>1
<1>3. IsFiniteSet(N \ {b.at}) /\ Cardinality(N \ {b.at}) = clock - Oldest - 1
  <2>1. IsFiniteSet(N \ {b.at}) /\ Cardinality(N \ {b.at}) = Cardinality(N) - 1
    BY <1>1, <1>2, FS_RemoveElement
  <2> QED
    BY <1>1, <1>2, <2>1
<1>4. IsFiniteSet(T) /\ Cardinality(T) = clock - Oldest - 2
  <2>1. mine[p] \in N \ {b.at}
    BY <1>1
  <2>2. IsFiniteSet(T) /\ Cardinality(T) = Cardinality(N \ {b.at}) - 1
    BY <1>3, <2>1, FS_RemoveElement
  <2> QED
    BY <1>1, <1>3, <2>2
<1>5. Newer \in SUBSET Backup /\ OneAtATime(Newer) /\ \A c \in Newer : c.at \in T
  BY <1>1 DEF Others, BackupsTypeOK, Backup, Dated, OneAtATime
<1>6. IsFiniteSet(Newer) /\ Cardinality(Newer) <= Cardinality(T)
  BY <1>4, <1>5, ByTime
<1>7. Cardinality(Newer) \in Nat /\ Cardinality(Newer) >= Generations - 1
  BY <1>6, FS_CardinalityType DEF Prunable
<1> QED
  BY <1>1, <1>4, <1>6, <1>7 DEF Early

LEMMA OldVictimsKept ==
  BackupsTypeOK /\ Dated /\ OldVictims /\ [BackupsNext]_backupVars => OldVictims'
<1> SUFFICES ASSUME BackupsTypeOK, Dated, OldVictims, [BackupsNext]_backupVars, Early'
             PROVE  OldVictims'
  BY DEF OldVictims
<1> USE DEF OldVictims, BackupsTypeOK, WGo
<1>1. CASE UNCHANGED backupVars
  BY <1>1 DEF backupVars, wlocals, Early
<1>2. ASSUME NEW p \in Writer, NEW c \in Content, BeginWrite(p, c) PROVE OldVictims'
  BY <1>2 DEF BeginWrite, Early
<1>3. ASSUME NEW p \in Writer, ListBackups(p) PROVE OldVictims'
  <2>1. Early /\ InFlight(p)
    BY <1>3 DEF ListBackups, Early, InFlight
  <2>2. \A b \in Prunable(p) : b.at <= Oldest
    BY <2>1, NewSpared
  <2> QED
    BY <1>3, <2>1, <2>2 DEF ListBackups
<1>4. ASSUME NEW p \in Writer,
             ReadOld(p) \/ BackupOld(p) \/ Commit(p) \/ UndoBackup(p) \/ Prune(p)
      PROVE  OldVictims'
  <2>1. /\ clock' \in {clock, clock + 1} /\ UNCHANGED victims
        /\ \E l \in WritePcs \ {"prune"} : wpc' = [wpc EXCEPT ![p] = l]
    BY <1>4 DEF ReadOld, BackupOld, Commit, UndoBackup, Prune, WritePcs
  <2>2. Early
    BY <2>1, BackupConstants DEF Early
  <2> QED
    BY <2>1, <2>2
<1> QED
  BY <1>1, <1>2, <1>3, <1>4 DEF BackupsNext, WriteStep

LEMMA RestorableKept ==
  BackupsTypeOK /\ Dated /\ OldVictims /\ Restorable /\ [BackupsNext]_backupVars
  => Restorable'
<1> SUFFICES ASSUME BackupsTypeOK, Dated, OldVictims, Restorable,
                    [BackupsNext]_backupVars, Early'
             PROVE  Pristine' \/ Stands'
  BY DEF Restorable
<1> USE DEF BackupsTypeOK, WGo
<1>0. Early /\ Oldest \in Nat
  <2>1. clock' \in {clock, clock + 1}
    BY DEF BackupsNext, WriteStep, BeginWrite, ReadOld, BackupOld, Commit, UndoBackup,
           ListBackups, Prune, backupVars
  <2> QED
    BY <2>1, BackupConstants DEF Early
<1>1. CASE Stands
  <2>1. PICK b \in baks :
          /\ b.at > Oldest /\ b.of = Original
          /\ \A p \in Writer : wpc[p] \in {"commit", "undo"} => b.at # mine[p]
    BY <1>1 DEF Stands
  <2> DEFINE Safe == /\ b \in baks'
                     /\ \A p \in Writer : wpc'[p] \in {"commit", "undo"} => b.at # mine'[p]
  <2>0. b \in Backup /\ b.at \in Nat /\ b.at <= clock
    BY DEF Dated, Backup
  <2>2. CASE UNCHANGED backupVars
    BY <2>1, <2>2 DEF backupVars, wlocals, Stands
  <2>3. ASSUME NEW p \in Writer, NEW c \in Content, BeginWrite(p, c) PROVE Safe
    BY <2>1, <2>3 DEF BeginWrite
  <2>4. ASSUME NEW p \in Writer, ReadOld(p) \/ Commit(p) \/ ListBackups(p) PROVE Safe
    <3>1. UNCHANGED <<baks, mine>>
          /\ \E l : /\ wpc' = [wpc EXCEPT ![p] = l]
                    /\ l \in {"commit", "undo"} => wpc[p] = "commit"
      BY <2>4 DEF ReadOld, Commit, ListBackups
    <3> QED
      BY <2>1, <3>1
  <2>5. ASSUME NEW p \in Writer, BackupOld(p) PROVE Safe
    <3>1. \/ /\ mine' = [mine EXCEPT ![p] = clock + 1] /\ baks \subseteq baks'
             /\ wpc' = [wpc EXCEPT ![p] = "commit"]
          \/ UNCHANGED <<baks, mine>> /\ wpc' = [wpc EXCEPT ![p] = "failed"]
      BY <2>5 DEF BackupOld
    <3> QED
      BY <2>0, <2>1, <3>1
  <2>6. ASSUME NEW p \in Writer, UndoBackup(p) PROVE Safe
    BY <2>1, <2>6 DEF UndoBackup
  <2>7. ASSUME NEW p \in Writer, Prune(p) PROVE Safe
    <3>1. b \notin victims[p]
      BY <1>0, <2>0, <2>1, <2>7 DEF OldVictims, Prune
    <3> QED
      BY <2>1, <2>7, <3>1 DEF Prune
  <2>8. Safe => Stands'
    BY <2>1 DEF Stands
  <2> QED
    BY <2>2, <2>3, <2>4, <2>5, <2>6, <2>7, <2>8 DEF BackupsNext, WriteStep
<1>2. CASE Pristine
  <2> USE <1>2 DEF Pristine
  <2>2. CASE UNCHANGED backupVars
    BY <2>2 DEF backupVars, wlocals
  <2>3. ASSUME NEW p \in Writer, NEW c \in Content, BeginWrite(p, c) PROVE Pristine'
    BY <2>3 DEF BeginWrite
  <2>4. ASSUME NEW p \in Writer, ReadOld(p) PROVE Pristine'
    <3>1. /\ UNCHANGED <<file, baks, mine>> /\ was' = [was EXCEPT ![p] = Original]
          /\ \E l \in {"same", "backup", "failed"} : wpc' = [wpc EXCEPT ![p] = l]
      BY <2>4 DEF ReadOld
    <3> QED
      BY <3>1
  <2>5. ASSUME NEW p \in Writer, BackupOld(p) PROVE Pristine'
    BY <2>5 DEF BackupOld
  <2>6. ASSUME NEW p \in Writer, Commit(p) PROVE Pristine' \/ Stands'
    <3>1. wpc[p] = "commit" /\ UNCHANGED <<baks, mine, was>>
      BY <2>6 DEF Commit
    <3>2. CASE file' = file /\ wpc' = [wpc EXCEPT ![p] = "undo"]
      BY <3>1, <3>2
    <3>3. CASE wpc' = [wpc EXCEPT ![p] = "list"]
      <4> DEFINE b == Bak(mine[p], Original)
      <4>1. b \in baks' /\ b.at = mine[p] /\ b.of = Original
        BY <3>1, NewBackup, BackupConstants
      <4>2. mine[p] > Oldest
        BY <1>0, <3>1 DEF Dated, InFlight
      <4>3. \A q \in Writer : wpc'[q] \in {"commit", "undo"} => mine[p] # mine'[q]
        BY <3>1, <3>3 DEF Dated, InFlight
      <4> QED
        BY <4>1, <4>2, <4>3 DEF Stands
    <3> QED
      BY <2>6, <3>2, <3>3 DEF Commit
  <2>7. ASSUME NEW p \in Writer, UndoBackup(p) PROVE Pristine'
    <3>1. /\ wpc[p] = "undo" /\ baks' = {b \in baks : b.at # mine[p]}
          /\ wpc' = [wpc EXCEPT ![p] = "failed"] /\ UNCHANGED <<file, mine, was>>
      BY <2>7 DEF UndoBackup
    <3>2. \A q \in Writer : wpc[q] = "commit" => mine[q] # mine[p]
      BY <3>1 DEF Dated, InFlight
    <3>3. \A q \in Writer : Bak(mine[q], Original).at = mine[q]
      BY NewBackup, BackupConstants
    <3> QED
      BY <3>1, <3>2, <3>3
  <2>8. ASSUME NEW p \in Writer, ListBackups(p) PROVE Pristine'
    BY <2>8 DEF ListBackups
  <2>9. ASSUME NEW p \in Writer, Prune(p) PROVE Pristine'
    <3>1. /\ wpc[p] = "prune" /\ baks' = baks \ victims[p]
          /\ wpc' = [wpc EXCEPT ![p] = "changed"] /\ UNCHANGED <<file, mine, was>>
      BY <2>9 DEF Prune
    <3>2. \A q \in Writer : wpc[q] = "commit" =>
            mine[q] > Oldest /\ Bak(mine[q], Original).at = mine[q]
      BY <1>0, NewBackup, BackupConstants DEF Dated, InFlight
    <3>3. \A q \in Writer : wpc[q] = "commit" => Bak(mine[q], Original) \notin victims[p]
      BY <1>0, <3>1, <3>2 DEF OldVictims
    <3> QED
      BY <3>1, <3>3
  <2> QED
    BY <2>2, <2>3, <2>4, <2>5, <2>6, <2>7, <2>8, <2>9 DEF BackupsNext, WriteStep
<1> QED
  BY <1>0, <1>1, <1>2 DEF Restorable

LEMMA BackupsRestorable == CatalogSpec => [](Dated /\ OldVictims /\ Restorable)
<1>1. CatalogInit => Dated /\ OldVictims /\ Restorable
  BY DatedInitially DEF CatalogInit, BackupsInit, OldVictims, Restorable, Pristine
<1>2. CatalogInv /\ Dated /\ OldVictims /\ Restorable /\ [CatalogNext]_cvars
      => Dated' /\ OldVictims' /\ Restorable'
  BY CatalogWrites, DatedKept, OldVictimsKept, RestorableKept DEF CatalogInv, CatalogTypeOK
<1> QED
  BY <1>1, <1>2, CatalogAlways, PTL DEF CatalogSpec

(* What the user had in the file is in it or in a backup until more than
   Generations backups have been taken, whatever fails and whoever prunes. *)
THEOREM Restored == CatalogSpec => []RestorePoint
<1>1. Dated /\ Restorable => RestorePoint
  BY DEF Restorable, RestorePoint, Early, Pristine, Stands
<1> QED
  BY <1>1, BackupsRestorable, PTL

=============================================================================

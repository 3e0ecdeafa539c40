---------------------------- MODULE CatalogProofs ----------------------------
(* Theorems about Catalog, for any processes, servers, spellings and        *)
(* listings.                                                                *)
EXTENDS Catalog, TLAPS

Gots == [n : Listing, read : 0 .. Pages, page : 0 .. MaxToolPages]

\* What a process lists is complete once it acts on it, and "check" is for
\* empty listings.
Listings ==
  \A p \in Writer :
    /\ pc[p] \in {"check", "store"} => got[p].read = Pages
    /\ pc[p] = "check" => got[p].n = 0

\* What CheckEmpty found stays true of every catalog older than the process.
Checked ==
  \A p \in Writer :
    pc[p] = "store" /\ got[p].n = 0 /\ p \in since => ~WorthKeeping(url[p])

\* Nobody is about to write an empty list either.
NoneToWrite == NoPlaceholder /\ \A p \in Writer : want[p] # 0

CatalogInv ==
  CatalogTypeOK /\ Listings /\ Checked /\ WholeCatalog /\ ServesACatalog /\ NoneToWrite

\* No catalog is taken for a missing or a damaged one.
LEMMA Apart == \A c \in Catalogs : c # Absent /\ c # Damaged /\ Readable(c)
<1> TAKE c \in Catalogs
<1>1. DOMAIN c = {"url", "n", "whole", "fresh"}
  BY DEF Catalogs
<1>2. DOMAIN Absent = {"absent"} /\ DOMAIN Damaged = {"damaged"}
  BY DEF Absent, Damaged
<1> QED
  BY <1>1, <1>2 DEF Readable

\* Writing keeps the types, and puts into the file only what was to be written.
LEMMA Written ==
  ASSUME BackupsTypeOK, NEW p \in Writer, WriteStep(p)
  PROVE  BackupsTypeOK' /\ want' = want /\ file' \in {file, want[p]}
<1> USE DEF BackupsTypeOK, WGo, WritePcs, Backup
<1>1. CASE ReadOld(p)
  BY <1>1 DEF ReadOld
<1>2. CASE BackupOld(p)
  BY <1>2 DEF BackupOld, Bak
<1>3. CASE Commit(p)
  BY <1>3 DEF Commit
<1>4. CASE UndoBackup(p)
  BY <1>4 DEF UndoBackup
<1>5. CASE ListBackups(p)
  BY <1>5 DEF ListBackups, Prunable, Others
<1>6. CASE Prune(p)
  BY <1>6 DEF Prune
<1> QED
  BY <1>1, <1>2, <1>3, <1>4, <1>5, <1>6 DEF WriteStep

\* So does the beginning of a write.
LEMMA Begun ==
  ASSUME BackupsTypeOK, NEW p \in Writer, NEW c \in Content, BeginWrite(p, c)
  PROVE  BackupsTypeOK' /\ want' = [want EXCEPT ![p] = c] /\ file' = file
BY DEF BeginWrite, BackupsTypeOK, WGo, WritePcs

\* A failed sync leaves a process somewhere, with a catalog where it needs one.
LEMMA Failed ==
  ASSUME CatalogTypeOK, NEW p \in Writer, SyncFails(p, TRUE) \/ SyncFails(p, FALSE)
  PROVE  /\ refused' \in [Writer -> BOOLEAN]
         /\ \E l \in {"use", "refresh", "failed"} :
              pc' = [pc EXCEPT ![p] = l] /\ (l # "failed" => cache[p] # Absent)
<1>1. ASSUME NEW b \in BOOLEAN, SyncFails(p, b)
      PROVE  /\ refused' \in [Writer -> BOOLEAN]
             /\ \E l \in {"use", "refresh", "failed"} :
                  pc' = [pc EXCEPT ![p] = l] /\ (l # "failed" => cache[p] # Absent)
  <2> DEFINE s == /\ Served(p)
                  /\ b \/ AllowsStale(p)
                  /\ cache[p] # Absent
  <2>1. refused' = [refused EXCEPT ![p] = @ \/ (s /\ b)]
    BY <1>1 DEF SyncFails
  <2>2. refused' \in [Writer -> BOOLEAN]
    BY <2>1 DEF CatalogTypeOK
  <2>3. pc' = [pc EXCEPT ![p] = IF s THEN "use"
                ELSE IF kind[p] = "doctor" /\ cache[p] # Absent THEN "refresh"
                ELSE "failed"]
    BY <1>1 DEF SyncFails, Go
  <2> QED
    BY <2>2, <2>3
<1> QED
  BY <1>1

\* A page with no cursor is the last of a listing, or comes after it.
LEMMA Answered ==
  ASSUME NEW g \in Gots, NEW a \in Answers(g)
  PROVE  /\ a.adds \in {0, 1} /\ g.read + a.adds \in 0 .. Pages
         /\ a.array /\ a.next = "none" => g.read + a.adds = Pages
<1>1. g.read \in 0 .. Pages /\ Pages \in Nat
  BY CatalogConstants DEF Gots
<1>2. /\ a.adds \in {0, 1} /\ (a.adds = 1 => g.read < Pages)
      /\ a.array /\ a.next = "none" => g.read + 1 >= Pages /\ (g.read < Pages => a.adds = 1)
  BY DEF Answers, Answer
<1> QED
  BY <1>1, <1>2

\* The page loop goes on, fails, or ends with a whole listing.
LEMMA Paged ==
  ASSUME CatalogTypeOK, NEW p \in Writer, ReadPage(p)
  PROVE  \/ SyncFails(p, FALSE) /\ UNCHANGED got
         \/ /\ UNCHANGED refused
            /\ \E g \in Gots :
                 /\ got' = [got EXCEPT ![p] = g]
                 /\ \/ UNCHANGED pc
                    \/ /\ g.read = Pages
                       /\ pc' = [pc EXCEPT ![p] = IF g.n = 0 THEN "check" ELSE "store"]
<1>1. got[p] \in Gots
  BY DEF CatalogTypeOK, Gots
<1>2. SUFFICES ASSUME got[p].page < MaxToolPages,
                      NEW a \in Answers(got[p]), TakePage(p, a),
                      ~(SyncFails(p, FALSE) /\ UNCHANGED got)
               PROVE  /\ UNCHANGED refused
                      /\ \E g \in Gots :
                           /\ got' = [got EXCEPT ![p] = g]
                           /\ \/ UNCHANGED pc
                              \/ /\ g.read = Pages
                                 /\ pc' = [pc EXCEPT ![p] =
                                             IF g.n = 0 THEN "check" ELSE "store"]
  BY DEF ReadPage
<1> DEFINE h == Reads(got[p], a)
<1>3. h \in Gots /\ h.read = got[p].read + a.adds
  <2>1. got[p].page + 1 \in 0 .. MaxToolPages
    BY <1>1, <1>2, CatalogConstants DEF Gots
  <2> QED
    BY <1>1, <2>1, Answered DEF Gots, Reads
<1>4. CASE a.next = "new" /\ GoesOn(p, a)
  BY <1>3, <1>4 DEF GoesOn
<1>5. CASE a.array /\ a.next = "none" /\ Listed(p, a)
  <2>1. PICK n \in Listing :
          /\ got' = [got EXCEPT ![p] = [h EXCEPT !.n = n]]
          /\ pc' = [pc EXCEPT ![p] = IF n = 0 THEN "check" ELSE "store"]
    BY <1>5 DEF Listed, Go
  <2>2. /\ [h EXCEPT !.n = n] \in Gots /\ [h EXCEPT !.n = n].n = n
        /\ [h EXCEPT !.n = n].read = Pages
    BY <1>1, <1>3, <1>5, Answered DEF Gots
  <2> QED
    BY <1>5, <2>1, <2>2 DEF Listed
<1> QED
  BY <1>2, <1>4, <1>5 DEF TakePage

\* Every step keeps the types.
LEMMA Typed ==
  CatalogTypeOK /\ ServesACatalog /\ [CatalogNext]_cvars => CatalogTypeOK'
<1> SUFFICES ASSUME CatalogTypeOK, ServesACatalog, [CatalogNext]_cvars PROVE CatalogTypeOK'
  OBVIOUS
<1> USE CatalogConstants DEF CatalogPcs, AllKinds, Starts
<1>b. UNCHANGED backupVars => BackupsTypeOK'
  BY DEF CatalogTypeOK, BackupsTypeOK, backupVars, wlocals
<1>1. CASE UNCHANGED cvars
  BY <1>1, <1>b DEF cvars, locals, CatalogTypeOK, Catalogs, Listing, Server
<1>2. ASSUME NEW p \in Writer, StartProcess(p) PROVE CatalogTypeOK'
  BY <1>2, <1>b DEF StartProcess, CatalogTypeOK, Go
<1>3. ASSUME NEW p \in Writer, Forget(p) PROVE CatalogTypeOK'
  BY <1>3, <1>b DEF Forget, locals, CatalogTypeOK, Go
<1>4. ASSUME NEW p \in Writer, ReadCatalog(p) PROVE CatalogTypeOK'
  <2>1. cache' \in [Writer -> Catalogs \cup {Absent}]
    BY <1>4 DEF ReadCatalog, Hold, Readable, CatalogTypeOK
  <2>2. \E l \in {"list", "refresh", "use"} : pc' = [pc EXCEPT ![p] = l]
    BY <1>4 DEF ReadCatalog, Go
  <2>3. pc' \in [Writer -> CatalogPcs]
    BY <2>2 DEF CatalogTypeOK
  <2>4. BackupsTypeOK' /\ UNCHANGED <<tools, kind, url, got, refused, left, since>>
    BY <1>4, <1>b DEF ReadCatalog
  <2> QED
    BY <2>1, <2>3, <2>4 DEF CatalogTypeOK
<1>f. ASSUME NEW p \in Writer, SyncFails(p, TRUE) \/ SyncFails(p, FALSE)
      PROVE  refused' \in [Writer -> BOOLEAN] /\ pc' \in [Writer -> CatalogPcs]
  <2>1. refused' \in [Writer -> BOOLEAN]
         /\ \E l \in {"use", "refresh", "failed"} : pc' = [pc EXCEPT ![p] = l]
    BY <1>f, Failed
  <2> QED
    BY <2>1 DEF CatalogTypeOK
<1>5. ASSUME NEW p \in Writer, ListTools(p) PROVE CatalogTypeOK'
  <2>1. BackupsTypeOK' /\ UNCHANGED <<tools, kind, url, cache, left, since>>
    BY <1>5, <1>b DEF ListTools
  <2>2. CASE /\ got' = [got EXCEPT ![p] = [n |-> 0, read |-> 0, page |-> 0]]
             /\ Go(p, "page") /\ UNCHANGED refused
    <3>1. [n |-> 0, read |-> 0, page |-> 0] \in Gots
      BY DEF Gots, Listing
    <3>2. got' \in [Writer -> Gots] /\ pc' \in [Writer -> CatalogPcs]
      BY <2>2, <3>1 DEF Go, CatalogTypeOK, Gots
    <3> QED
      BY <2>1, <2>2, <3>2 DEF CatalogTypeOK, Gots
  <2>3. CASE SyncFails(p, FALSE) /\ UNCHANGED got
    BY <2>1, <2>3, <1>f DEF CatalogTypeOK
  <2> QED
    BY <1>5, <2>2, <2>3 DEF ListTools
<1>p. ASSUME NEW p \in Writer, ReadPage(p) PROVE CatalogTypeOK'
  <2>1. BackupsTypeOK' /\ UNCHANGED <<tools, kind, url, cache, left, since>>
    BY <1>p, <1>b DEF ReadPage
  <2>2. CASE SyncFails(p, FALSE) /\ UNCHANGED got
    BY <2>1, <2>2, <1>f DEF CatalogTypeOK
  <2>3. CASE /\ UNCHANGED refused
             /\ \E g \in Gots : got' = [got EXCEPT ![p] = g]
             /\ \/ UNCHANGED pc
                \/ \E l \in {"check", "store"} : pc' = [pc EXCEPT ![p] = l]
    <3>1. got' \in [Writer -> Gots] /\ pc' \in [Writer -> CatalogPcs]
      BY <2>3 DEF CatalogTypeOK, Gots
    <3> QED
      BY <2>1, <2>3, <3>1 DEF CatalogTypeOK, Gots
  <2> QED
    BY <1>p, <2>2, <2>3, Paged
<1>6. ASSUME NEW p \in Writer, CheckEmpty(p) PROVE CatalogTypeOK'
  <2>1. BackupsTypeOK' /\ UNCHANGED <<tools, kind, url, cache, got, left, since>>
    BY <1>6, <1>b DEF CheckEmpty
  <2>2. CASE SyncFails(p, TRUE)
    BY <2>1, <2>2, <1>f DEF CatalogTypeOK
  <2>3. CASE Go(p, "store") /\ UNCHANGED refused
    BY <2>1, <2>3 DEF CatalogTypeOK, Go
  <2> QED
    BY <1>6, <2>2, <2>3 DEF CheckEmpty
<1>7. ASSUME NEW p \in Writer, Store(p) PROVE CatalogTypeOK'
  <2>1. BackupsTypeOK' /\ UNCHANGED <<kind, url, got, left>>
    BY <1>7, <1>b DEF Store
  <2>2. CASE SyncFails(p, FALSE) /\ UNCHANGED <<tools, cache, since>>
    BY <2>1, <2>2, <1>f DEF CatalogTypeOK
  <2>3. CASE /\ tools' = [url |-> url[p], n |-> got[p].n,
                          whole |-> got[p].read = Pages, fresh |-> TRUE]
             /\ Hold(p, tools')
             /\ since' = {}
             /\ Go(p, "refresh")
             /\ UNCHANGED refused
    <3>1. tools' \in Catalogs
      BY <2>3 DEF CatalogTypeOK, Catalogs
    <3>2. cache' \in [Writer -> Catalogs \cup {Absent}]
      BY <2>3, <3>1 DEF CatalogTypeOK, Hold
    <3>3. pc' \in [Writer -> CatalogPcs]
      BY <2>3 DEF CatalogTypeOK, Go
    <3> QED
      BY <2>1, <2>3, <3>1, <3>2, <3>3 DEF CatalogTypeOK
  <2> QED
    BY <1>7, <2>2, <2>3 DEF Store
<1>c. ASSUME NEW p \in Writer, cache[p] # Absent, BeginWrite(p, cache[p].n)
      PROVE  BackupsTypeOK'
  <2>1. cache[p].n \in Content
    BY <1>c DEF CatalogTypeOK, Catalogs
  <2> QED
    BY <1>c, <2>1, Begun DEF CatalogTypeOK
<1>8. ASSUME NEW p \in Writer, Refresh(p) PROVE CatalogTypeOK'
  <2>1. UNCHANGED <<tools, url, cache, got, refused, since>>
    BY <1>8 DEF Refresh
  <2>2. CASE BeginWrite(p, cache[p].n) /\ Go(p, "refreshing") /\ UNCHANGED <<kind, left>>
    <3>1. cache[p] # Absent
      BY <1>8 DEF Refresh, ServesACatalog
    <3>2. BackupsTypeOK'
      BY <2>2, <3>1, <1>c
    <3> QED
      BY <2>1, <2>2, <3>2 DEF CatalogTypeOK, Go
  <2>3. CASE Refreshed(p) /\ UNCHANGED <<backupVars, kind, left>>
    BY <2>1, <2>3, <1>b DEF CatalogTypeOK, Refreshed, Go
  <2>4. CASE /\ kind' = [kind EXCEPT ![p] = "prompt"]
             /\ left' \in {[left EXCEPT ![p] = i] : i \in {0, 1}}
             /\ Go(p, "read") /\ UNCHANGED backupVars
    BY <2>1, <2>4, <1>b DEF CatalogTypeOK, Go
  <2> QED
    BY <1>8, <2>2, <2>3, <2>4 DEF Refresh
<1>9. ASSUME NEW p \in Writer, Refreshing(p) PROVE CatalogTypeOK'
  <2>1. UNCHANGED <<tools, locals, since>>
    BY <1>9 DEF Refreshing
  <2>2. CASE WriteStep(p) /\ UNCHANGED pc
    <3>1. BackupsTypeOK'
      BY <2>2, Written DEF CatalogTypeOK
    <3> QED
      BY <2>1, <2>2, <3>1 DEF CatalogTypeOK, locals
  <2>3. CASE Refreshed(p) /\ UNCHANGED backupVars
    BY <2>1, <2>3, <1>b DEF CatalogTypeOK, locals, Refreshed, Go
  <2> QED
    BY <1>9, <2>2, <2>3 DEF Refreshing
<1>10. ASSUME NEW p \in Writer, Use(p) PROVE CatalogTypeOK'
  <2>1. UNCHANGED <<tools, url, cache, got, refused, left, since>>
    BY <1>10 DEF Use
  <2>2. BackupsTypeOK'
    <3>1. cache[p] # Absent
      BY <1>10 DEF Use, ServesACatalog
    <3> QED
      BY <1>10, <3>1, <1>b, <1>c DEF Use
  <2>3. kind' \in [Writer -> AllKinds]
    BY <1>10 DEF Use, CatalogTypeOK
  <2>4. \E l \in CatalogPcs : Go(p, l)
    BY <1>10 DEF Use
  <2> QED
    BY <2>1, <2>2, <2>3, <2>4 DEF CatalogTypeOK, Go
<1>11. ASSUME NEW p \in Writer, NextHarness(p) PROVE CatalogTypeOK'
  BY <1>11, <1>b DEF NextHarness, CatalogTypeOK, Go
<1>12. ASSUME NEW p \in Writer, Installing(p) PROVE CatalogTypeOK'
  <2>1. UNCHANGED <<tools, locals, since>>
    BY <1>12 DEF Installing
  <2>2. CASE WriteStep(p) /\ UNCHANGED pc
    <3>1. BackupsTypeOK'
      BY <2>2, Written DEF CatalogTypeOK
    <3> QED
      BY <2>1, <2>2, <3>1 DEF CatalogTypeOK, locals
  <2>3. CASE Go(p, "done") /\ UNCHANGED backupVars
    BY <2>1, <2>3, <1>b DEF CatalogTypeOK, locals, Go
  <2> QED
    BY <1>12, <2>2, <2>3 DEF Installing
<1>13. CASE Age
  <2>1. tools \in Catalogs
    BY <1>13 DEF Age, Readable, CatalogTypeOK
  <2>2. tools' \in Catalogs
    BY <1>13, <2>1 DEF Age, Catalogs
  <2> QED
    BY <1>13, <1>b, <2>2 DEF Age, locals, CatalogTypeOK
<1> QED
  BY <1>1, <1>2, <1>3, <1>4, <1>5, <1>p, <1>6, <1>7, <1>8, <1>9, <1>10, <1>11, <1>12,
     <1>13 DEF CatalogNext, Sync, Instruct, AllOver

\* The invariant holds initially.
LEMMA CatalogInitially == CatalogInit => CatalogInv
<1> SUFFICES ASSUME CatalogInit PROVE CatalogInv
  OBVIOUS
<1> USE CatalogConstants, BackupConstants
<1>1. BackupsTypeOK
  BY DEF CatalogInit, BackupsInit, BackupsTypeOK, Bak, Backup, WritePcs
<1>2. tools \in Catalogs \cup {Absent, Damaged} /\ since \subseteq Writer
  BY DEF CatalogInit, Catalogs
<1>3. /\ pc \in [Writer -> CatalogPcs] /\ url \in [Writer -> URL]
      /\ kind \in [Writer -> AllKinds]
  BY DEF CatalogInit, CatalogPcs, AllKinds, Starts
<1>4. got \in [Writer -> Gots]
  <2>1. [n |-> 0, read |-> 0, page |-> 0] \in Gots
    BY DEF Listing, Gots
  <2> QED
    BY <2>1 DEF CatalogInit
<1>5. /\ cache \in [Writer -> Catalogs \cup {Absent}]
      /\ refused \in [Writer -> BOOLEAN] /\ left \in [Writer -> {0, 1}]
  BY DEF CatalogInit
<1>6. CatalogTypeOK
  BY <1>1, <1>2, <1>3, <1>4, <1>5 DEF CatalogTypeOK, Gots
<1>7. WholeCatalog
  BY Apart DEF WholeCatalog, Readable, CatalogInit
<1>8. NoneToWrite
  BY DEF CatalogInit, BackupsInit, NoneToWrite, NoPlaceholder, Listing
<1> QED
  BY <1>6, <1>7, <1>8 DEF CatalogInv, Listings, Checked, ServesACatalog, CatalogInit

\* A catalog that gets old is the same catalog.
LEMMA AgeKeeps ==
  ASSUME CatalogTypeOK, Age
  PROVE  /\ tools \in Catalogs /\ tools' \in Catalogs
         /\ tools'.n = tools.n /\ tools'.url = tools.url
         /\ \A u \in URL : WorthKeeping(u)' = WorthKeeping(u)
<1>1. tools \in Catalogs
  BY DEF Age, Readable, CatalogTypeOK
<1>2. tools' \in Catalogs /\ tools'.n = tools.n /\ tools'.url = tools.url
  BY <1>1 DEF Age, Catalogs
<1> QED
  BY <1>1, <1>2, Apart DEF WorthKeeping

\* Nobody serves what it does not hold.
LEMMA KeepsServing == CatalogInv /\ [CatalogNext]_cvars => ServesACatalog'
<1> SUFFICES ASSUME CatalogInv, [CatalogNext]_cvars PROVE ServesACatalog'
  OBVIOUS
<1> USE DEF CatalogInv, CatalogTypeOK, ServesACatalog
<1>1. CASE UNCHANGED cvars
  BY <1>1 DEF cvars, locals, backupVars, wlocals
<1>2. ASSUME NEW p \in Writer, StartProcess(p) PROVE ServesACatalog'
  BY <1>2 DEF StartProcess, Go
<1>3. ASSUME NEW p \in Writer, Forget(p) PROVE ServesACatalog'
  BY <1>3 DEF Forget, locals, Go
<1>4. ASSUME NEW p \in Writer, ReadCatalog(p) PROVE ServesACatalog'
  BY <1>4, Apart DEF ReadCatalog, Hold, Go, Readable, Fresh
<1>5. ASSUME NEW p \in Writer, ListTools(p) PROVE ServesACatalog'
  BY <1>5, Failed DEF ListTools, Go
<1>p. ASSUME NEW p \in Writer, ReadPage(p) PROVE ServesACatalog'
  <2>1. CASE SyncFails(p, FALSE) /\ UNCHANGED got
    BY <1>p, <2>1, Failed DEF ReadPage
  <2>2. CASE UNCHANGED pc \/ \E l \in {"check", "store"} : pc' = [pc EXCEPT ![p] = l]
    BY <1>p, <2>2 DEF ReadPage
  <2> QED
    BY <1>p, <2>1, <2>2, Paged
<1>6. ASSUME NEW p \in Writer, CheckEmpty(p) PROVE ServesACatalog'
  BY <1>6, Failed DEF CheckEmpty, Go
<1>7. ASSUME NEW p \in Writer, Store(p) PROVE ServesACatalog'
  <2>1. CASE SyncFails(p, FALSE) /\ UNCHANGED <<tools, cache, since>>
    BY <1>7, <2>1, Failed DEF Store
  <2>2. CASE /\ tools' = [url |-> url[p], n |-> got[p].n,
                          whole |-> got[p].read = Pages, fresh |-> TRUE]
             /\ Hold(p, tools') /\ Go(p, "refresh")
    <3>1. tools' \in Catalogs
      BY <2>2 DEF Catalogs
    <3> QED
      BY <1>7, <2>2, <3>1, Apart DEF Store, Hold, Go
  <2> QED
    BY <1>7, <2>1, <2>2 DEF Store
<1>8. ASSUME NEW p \in Writer, Refresh(p) PROVE ServesACatalog'
  BY <1>8 DEF Refresh, Refreshed, Go
<1>9. ASSUME NEW p \in Writer, Refreshing(p) PROVE ServesACatalog'
  BY <1>9 DEF Refreshing, Refreshed, locals, Go
<1>10. ASSUME NEW p \in Writer, Use(p) PROVE ServesACatalog'
  BY <1>10 DEF Use, Go
<1>11. ASSUME NEW p \in Writer, NextHarness(p) PROVE ServesACatalog'
  BY <1>11 DEF NextHarness, Go
<1>12. ASSUME NEW p \in Writer, Installing(p) PROVE ServesACatalog'
  BY <1>12 DEF Installing, locals, Go
<1>13. CASE Age
  BY <1>13 DEF Age, locals
<1> QED
  BY <1>1, <1>2, <1>3, <1>4, <1>5, <1>p, <1>6, <1>7, <1>8, <1>9, <1>10, <1>11, <1>12,
     <1>13 DEF CatalogNext, Sync, Instruct, AllOver

\* Listings are acted on only when complete.
LEMMA KeepsListings == CatalogInv /\ [CatalogNext]_cvars => Listings'
<1> SUFFICES ASSUME CatalogInv, [CatalogNext]_cvars PROVE Listings'
  OBVIOUS
<1> USE DEF CatalogInv, CatalogTypeOK, Listings
<1>1. CASE UNCHANGED cvars
  BY <1>1 DEF cvars, locals, backupVars, wlocals
<1>2. ASSUME NEW p \in Writer, StartProcess(p) PROVE Listings'
  BY <1>2 DEF StartProcess, Go
<1>3. ASSUME NEW p \in Writer, Forget(p) PROVE Listings'
  BY <1>3 DEF Forget, locals, Go
<1>4. ASSUME NEW p \in Writer, ReadCatalog(p) PROVE Listings'
  BY <1>4 DEF ReadCatalog, Hold, Go
<1>5. ASSUME NEW p \in Writer, ListTools(p) PROVE Listings'
  <2>1. CASE got' = [got EXCEPT ![p] = [n |-> 0, read |-> 0, page |-> 0]] /\ Go(p, "page")
    BY <1>5, <2>1 DEF ListTools, Go
  <2>2. CASE SyncFails(p, FALSE) /\ UNCHANGED got
    BY <1>5, <2>2, Failed DEF ListTools
  <2> QED
    BY <1>5, <2>1, <2>2 DEF ListTools
<1>p. ASSUME NEW p \in Writer, ReadPage(p) PROVE Listings'
  <2>1. CASE SyncFails(p, FALSE) /\ UNCHANGED got
    BY <1>p, <2>1, Failed DEF ReadPage
  <2>2. CASE \E g \in Gots :
               /\ got' = [got EXCEPT ![p] = g]
               /\ \/ UNCHANGED pc
                  \/ /\ g.read = Pages
                     /\ pc' = [pc EXCEPT ![p] = IF g.n = 0 THEN "check" ELSE "store"]
    BY <1>p, <2>2 DEF ReadPage
  <2> QED
    BY <1>p, <2>1, <2>2, Paged
<1>6. ASSUME NEW p \in Writer, CheckEmpty(p) PROVE Listings'
  BY <1>6, Failed DEF CheckEmpty, Go
<1>7. ASSUME NEW p \in Writer, Store(p) PROVE Listings'
  BY <1>7, Failed DEF Store, Hold, Go
<1>8. ASSUME NEW p \in Writer, Refresh(p) PROVE Listings'
  BY <1>8 DEF Refresh, Refreshed, Go
<1>9. ASSUME NEW p \in Writer, Refreshing(p) PROVE Listings'
  BY <1>9 DEF Refreshing, Refreshed, locals, Go
<1>10. ASSUME NEW p \in Writer, Use(p) PROVE Listings'
  BY <1>10 DEF Use, Go
<1>11. ASSUME NEW p \in Writer, NextHarness(p) PROVE Listings'
  BY <1>11 DEF NextHarness, Go
<1>12. ASSUME NEW p \in Writer, Installing(p) PROVE Listings'
  BY <1>12 DEF Installing, locals, Go
<1>13. CASE Age
  BY <1>13 DEF Age, locals
<1> QED
  BY <1>1, <1>2, <1>3, <1>4, <1>5, <1>p, <1>6, <1>7, <1>8, <1>9, <1>10, <1>11, <1>12,
     <1>13 DEF CatalogNext, Sync, Instruct, AllOver

\* What is stored, and what is held, is a whole listing.
LEMMA KeepsWhole == CatalogInv /\ [CatalogNext]_cvars => WholeCatalog'
<1> SUFFICES ASSUME CatalogInv, [CatalogNext]_cvars PROVE WholeCatalog'
  OBVIOUS
<1> USE DEF CatalogInv, CatalogTypeOK, WholeCatalog
<1>1. CASE UNCHANGED cvars
  BY <1>1 DEF cvars, locals, backupVars, wlocals
<1>2. ASSUME NEW p \in Writer, StartProcess(p) PROVE WholeCatalog'
  BY <1>2 DEF StartProcess, Go
<1>3. ASSUME NEW p \in Writer, Forget(p) PROVE WholeCatalog'
  BY <1>3 DEF Forget, locals, Go, Readable
<1>4. ASSUME NEW p \in Writer, ReadCatalog(p) PROVE WholeCatalog'
  BY <1>4, Apart DEF ReadCatalog, Hold, Go, Readable
<1>5. ASSUME NEW p \in Writer, ListTools(p) PROVE WholeCatalog'
  BY <1>5, Failed DEF ListTools, Go
<1>p. ASSUME NEW p \in Writer, ReadPage(p) PROVE WholeCatalog'
  BY <1>p DEF ReadPage
<1>6. ASSUME NEW p \in Writer, CheckEmpty(p) PROVE WholeCatalog'
  BY <1>6 DEF CheckEmpty, Go
<1>7. ASSUME NEW p \in Writer, Store(p) PROVE WholeCatalog'
  <2>1. CASE SyncFails(p, FALSE) /\ UNCHANGED <<tools, cache, since>>
    BY <1>7, <2>1, Failed DEF Store
  <2>2. CASE /\ tools' = [url |-> url[p], n |-> got[p].n,
                          whole |-> got[p].read = Pages, fresh |-> TRUE]
             /\ Hold(p, tools') /\ Go(p, "refresh")
    <3>1. tools'.whole
      BY <1>7, <2>2 DEF Store, Listings
    <3> QED
      BY <1>7, <2>2, <3>1 DEF Store, Hold
  <2> QED
    BY <1>7, <2>1, <2>2 DEF Store
<1>8. ASSUME NEW p \in Writer, Refresh(p) PROVE WholeCatalog'
  BY <1>8 DEF Refresh, Refreshed, Go
<1>9. ASSUME NEW p \in Writer, Refreshing(p) PROVE WholeCatalog'
  BY <1>9 DEF Refreshing, Refreshed, locals, Go
<1>10. ASSUME NEW p \in Writer, Use(p) PROVE WholeCatalog'
  BY <1>10 DEF Use, Go
<1>11. ASSUME NEW p \in Writer, NextHarness(p) PROVE WholeCatalog'
  BY <1>11 DEF NextHarness, Go
<1>12. ASSUME NEW p \in Writer, Installing(p) PROVE WholeCatalog'
  BY <1>12 DEF Installing, locals, Go
<1>13. CASE Age
  BY <1>13 DEF Age, locals, Readable, Catalogs
<1> QED
  BY <1>1, <1>2, <1>3, <1>4, <1>5, <1>p, <1>6, <1>7, <1>8, <1>9, <1>10, <1>11, <1>12,
     <1>13 DEF CatalogNext, Sync, Instruct, AllOver

\* What an empty listing was checked against stays gone.
LEMMA KeepsChecked == CatalogInv /\ [CatalogNext]_cvars => Checked'
<1> SUFFICES ASSUME CatalogInv, [CatalogNext]_cvars PROVE Checked'
  OBVIOUS
<1> USE DEF CatalogInv, CatalogTypeOK, Checked, WorthKeeping
<1>1. CASE UNCHANGED cvars
  BY <1>1 DEF cvars, locals, backupVars, wlocals
<1>2. ASSUME NEW p \in Writer, StartProcess(p) PROVE Checked'
  BY <1>2 DEF StartProcess, Go
<1>3. ASSUME NEW p \in Writer, Forget(p) PROVE Checked'
  BY <1>3, Apart DEF Forget, locals, Go, Readable
<1>4. ASSUME NEW p \in Writer, ReadCatalog(p) PROVE Checked'
  BY <1>4 DEF ReadCatalog, Hold, Go
<1>5. ASSUME NEW p \in Writer, ListTools(p) PROVE Checked'
  <2>1. CASE got' = [got EXCEPT ![p] = [n |-> 0, read |-> 0, page |-> 0]] /\ Go(p, "page")
    BY <1>5, <2>1 DEF ListTools, Go
  <2>2. CASE SyncFails(p, FALSE) /\ UNCHANGED got
    BY <1>5, <2>2, Failed DEF ListTools
  <2> QED
    BY <1>5, <2>1, <2>2 DEF ListTools
<1>p. ASSUME NEW p \in Writer, ReadPage(p) PROVE Checked'
  <2>1. CASE SyncFails(p, FALSE) /\ UNCHANGED got
    BY <1>p, <2>1, Failed DEF ReadPage
  <2>2. CASE \E g \in Gots :
               /\ got' = [got EXCEPT ![p] = g]
               /\ \/ UNCHANGED pc
                  \/ /\ g.read = Pages
                     /\ pc' = [pc EXCEPT ![p] = IF g.n = 0 THEN "check" ELSE "store"]
    BY <1>p, <2>2 DEF ReadPage
  <2> QED
    BY <1>p, <2>1, <2>2, Paged
<1>6. ASSUME NEW p \in Writer, CheckEmpty(p) PROVE Checked'
  BY <1>6, Failed DEF CheckEmpty, Go, Protected, SameServer
<1>7. ASSUME NEW p \in Writer, Store(p) PROVE Checked'
  BY <1>7, Failed DEF Store, Hold, Go
<1>8. ASSUME NEW p \in Writer, Refresh(p) PROVE Checked'
  BY <1>8 DEF Refresh, Refreshed, Go
<1>9. ASSUME NEW p \in Writer, Refreshing(p) PROVE Checked'
  BY <1>9 DEF Refreshing, Refreshed, locals, Go
<1>10. ASSUME NEW p \in Writer, Use(p) PROVE Checked'
  BY <1>10 DEF Use, Go
<1>11. ASSUME NEW p \in Writer, NextHarness(p) PROVE Checked'
  BY <1>11 DEF NextHarness, Go
<1>12. ASSUME NEW p \in Writer, Installing(p) PROVE Checked'
  BY <1>12 DEF Installing, locals, Go
<1>13. CASE Age
  BY <1>13, AgeKeeps DEF Age, locals
<1> QED
  BY <1>1, <1>2, <1>3, <1>4, <1>5, <1>p, <1>6, <1>7, <1>8, <1>9, <1>10, <1>11, <1>12,
     <1>13 DEF CatalogNext, Sync, Instruct, AllOver

\* No empty catalog is rendered.
LEMMA KeepsContent == CatalogInv /\ [CatalogNext]_cvars => NoneToWrite'
<1> SUFFICES ASSUME CatalogInv, [CatalogNext]_cvars PROVE NoneToWrite'
  OBVIOUS
<1> USE DEF CatalogInv, CatalogTypeOK, NoneToWrite, NoPlaceholder
<1>b. UNCHANGED backupVars => NoneToWrite'
  BY DEF backupVars, wlocals
<1>c. ASSUME NEW p \in Writer, cache[p] # Absent, cache[p].n > 0, BeginWrite(p, cache[p].n)
      PROVE  NoneToWrite'
  <2>1. cache[p].n \in Content /\ cache[p].n # 0
    BY <1>c, CatalogConstants DEF Catalogs, Listing
  <2>2. want' = [want EXCEPT ![p] = cache[p].n] /\ file' = file
    BY <1>c, <2>1, Begun
  <2> QED
    BY <2>1, <2>2 DEF BackupsTypeOK
<1>1. CASE UNCHANGED cvars
  BY <1>1, <1>b DEF cvars
<1>2. ASSUME NEW p \in Writer, StartProcess(p) PROVE NoneToWrite'
  BY <1>2, <1>b DEF StartProcess, Go
<1>3. ASSUME NEW p \in Writer, Forget(p) PROVE NoneToWrite'
  BY <1>3, <1>b DEF Forget, locals, Go
<1>4. ASSUME NEW p \in Writer, ReadCatalog(p) PROVE NoneToWrite'
  BY <1>4, <1>b DEF ReadCatalog, Hold, Go
<1>5. ASSUME NEW p \in Writer, ListTools(p) PROVE NoneToWrite'
  BY <1>5, <1>b DEF ListTools, Go
<1>p. ASSUME NEW p \in Writer, ReadPage(p) PROVE NoneToWrite'
  BY <1>p, <1>b DEF ReadPage
<1>6. ASSUME NEW p \in Writer, CheckEmpty(p) PROVE NoneToWrite'
  BY <1>6, <1>b DEF CheckEmpty, Go
<1>7. ASSUME NEW p \in Writer, Store(p) PROVE NoneToWrite'
  BY <1>7, <1>b DEF Store, Hold, Go
<1>8. ASSUME NEW p \in Writer, Refresh(p) PROVE NoneToWrite'
  <2>1. CASE cache[p].n > 0 /\ BeginWrite(p, cache[p].n)
    BY <1>8, <2>1, <1>c DEF Refresh, ServesACatalog
  <2> QED
    BY <1>8, <1>b, <2>1 DEF Refresh
<1>9. ASSUME NEW p \in Writer, Refreshing(p) PROVE NoneToWrite'
  BY <1>9, <1>b, Written DEF Refreshing
<1>10. ASSUME NEW p \in Writer, Use(p) PROVE NoneToWrite'
  <2>1. CASE cache[p].n > 0 /\ BeginWrite(p, cache[p].n)
    BY <1>10, <2>1, <1>c DEF Use, ServesACatalog
  <2> QED
    BY <1>10, <1>b, <2>1 DEF Use
<1>11. ASSUME NEW p \in Writer, NextHarness(p) PROVE NoneToWrite'
  BY <1>11, <1>b DEF NextHarness, Go
<1>12. ASSUME NEW p \in Writer, Installing(p) PROVE NoneToWrite'
  BY <1>12, <1>b, Written DEF Installing
<1>13. CASE Age
  BY <1>13, <1>b DEF Age, locals
<1> QED
  BY <1>1, <1>2, <1>3, <1>4, <1>5, <1>p, <1>6, <1>7, <1>8, <1>9, <1>10, <1>11, <1>12,
     <1>13 DEF CatalogNext, Sync, Instruct, AllOver

LEMMA CatalogAlways == CatalogSpec => []CatalogInv
<1>1. CatalogInv /\ [CatalogNext]_cvars => CatalogInv'
  BY Typed, KeepsServing, KeepsListings, KeepsWhole, KeepsChecked, KeepsContent DEF CatalogInv
<1> QED
  BY CatalogInitially, <1>1, PTL DEF CatalogSpec

-----------------------------------------------------------------------------
\* The variables of Catalog and Backups keep their types: a write always has a
\* content to write, and no process counts harnesses or pages out of range.
THEOREM CatalogTypes == CatalogSpec => []CatalogTypeOK
<1>1. CatalogInv => CatalogTypeOK
  BY DEF CatalogInv
<1> QED
  BY CatalogAlways, <1>1, PTL

\* "anything short of a complete catalog has to fail", for listings of any
\* number of pages: listTools returns all of them or an error, and nothing that
\* syncTools or a reader of tools.json does in between stores or serves less.
THEOREM Whole == CatalogSpec => []WholeCatalog
<1>1. CatalogInv => WholeCatalog
  BY DEF CatalogInv
<1> QED
  BY CatalogAlways, <1>1, PTL

\* cacheForCatalog, cmdDoctor and install never go on without a catalog, however
\* a sync failed or was refused.
THEOREM Serves == CatalogSpec => []ServesACatalog
<1>1. CatalogInv => ServesACatalog
  BY DEF CatalogInv
<1> QED
  BY CatalogAlways, <1>1, PTL

\* No refresh and no install renders an empty catalog.
THEOREM Placeholder == CatalogSpec => []NoPlaceholder
<1>1. CatalogInv => NoPlaceholder
  BY DEF CatalogInv, NoneToWrite
<1> QED
  BY CatalogAlways, <1>1, PTL

\* A process that stores an empty listing replaces no catalog older than itself:
\* what existingCatalogDetail found in CheckEmpty is still so in Store, since
\* every write of tools.json in between is by a process that stores a newer one.
THEOREM KnownKept == CatalogSpec => KnownCatalogKept
<1>1. CatalogInv /\ [CatalogNext]_cvars =>
        [\A p \in Writer : EmptyStore(p) /\ p \in since => ~WorthKeeping(url[p])]_cvars
  BY DEF CatalogInv, Checked, EmptyStore
<1> QED
  BY CatalogAlways, <1>1, PTL DEF CatalogSpec, KnownCatalogKept

=============================================================================

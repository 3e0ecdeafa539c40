------------------------------- MODULE Catalog -------------------------------
(***************************************************************************)
(* The tool catalog tools.json and an instruction file rendered from it    *)
(* (mcp.go, tool.go, commands.go, harness.go).  Concurrent processes read  *)
(* the catalog, fetch it when it is due, refuse to replace it by an empty  *)
(* listing, and refresh the instruction file (Backups); none takes a lock. *)
(***************************************************************************)
EXTENDS Backups

CONSTANTS
  URL,           \* spellings of server addresses
  ServerOf,      \* the server a spelling names: what sameServer compares
  MaxListing,    \* listings are 0 .. MaxListing; 0 lists no tools
  Pages,         \* pages of a listing
  MaxToolPages,  \* pages a listing is followed for
  Kinds          \* the invocations that may start

Server  == {ServerOf[u] : u \in URL}
Listing == 0 .. MaxListing

\* list stands for describe and serve too, which load a catalog once; dynamic
\* is `bmcp <tool>`, which looks the tool up and then goes on as a call; an init
\* that asks its questions goes on as a prompt, which installs.
Starts   == {"list", "call", "dynamic", "install", "doctor", "sync", "init"}
AllKinds == Starts \cup {"prompt"}

ASSUME CatalogConstants ==
  /\ MaxListing \in Nat /\ Pages \in Nat \ {0} /\ MaxToolPages \in Nat \ {0}
  /\ Listing \subseteq Content /\ Original \notin Listing
  /\ Kinds \subseteq Starts

Absent  == [absent |-> TRUE]
Damaged == [damaged |-> TRUE]      \* there, and not to be parsed

VARIABLES
  tools,      \* tools.json: a catalog, Absent or Damaged
  pc, kind,   \* where each process is, and its invocation
  url,        \* the address it is configured with
  cache,      \* the catalog it holds, or Absent
  got,        \* the listing it fetches: how many of its pages it has read, how many
              \* it was sent, and which listing it was in the end
  refused,    \* refusedEmptyCatalog
  left,       \* harnesses it installs for before the modelled file's
  since       \* history: processes started after tools was last written

locals == <<kind, url, cache, got, refused, left>>
cvars  == <<backupVars, tools, pc, locals, since>>

\* whole: every page of the listing is in it; fresh: within the sync TTL.
Catalogs == [url : URL, n : Listing, whole : BOOLEAN, fresh : BOOLEAN]
CatalogPcs == {"idle", "forget", "read", "list", "page", "check", "store",
               "refresh", "refreshing", "use", "installing", "done", "failed"}
Over == {"done", "failed"}

CatalogTypeOK ==
  /\ BackupsTypeOK
  /\ tools \in Catalogs \cup {Absent, Damaged}
  /\ pc \in [Writer -> CatalogPcs] /\ since \subseteq Writer
  /\ kind \in [Writer -> AllKinds]
  /\ url \in [Writer -> URL]
  /\ cache \in [Writer -> Catalogs \cup {Absent}]
  /\ got \in [Writer -> [n : Listing, read : 0 .. Pages, page : 0 .. MaxToolPages]]
  /\ refused \in [Writer -> BOOLEAN] /\ left \in [Writer -> {0, 1}]

CatalogInit ==
  /\ BackupsInit
  /\ \/ tools \in {Absent, Damaged}
     \/ tools \in [url : URL, n : Listing, whole : {TRUE}, fresh : BOOLEAN]
  /\ pc = [p \in Writer |-> "idle"]
  /\ kind = [p \in Writer |-> "list"]
  /\ \E u \in URL : url = [p \in Writer |-> u]
  /\ cache = [p \in Writer |-> Absent]
  /\ got = [p \in Writer |-> [n |-> 0, read |-> 0, page |-> 0]]
  /\ refused = [p \in Writer |-> FALSE]
  /\ left = [p \in Writer |-> 0]
  /\ since = {}

-----------------------------------------------------------------------------
Go(p, l)   == pc' = [pc EXCEPT ![p] = l]
Hold(p, c) == cache' = [cache EXCEPT ![p] = c]

Readable(c) == c \notin {Absent, Damaged}
Fresh(c, u) == Readable(c) /\ c.url = u /\ c.fresh
\* Mutant: spellings are compared as they stand.
SameServer_literal(u, v) == u = v
SameServer(u, v) == ServerOf[u] = ServerOf[v]

\* existingCatalogDetail: what an empty listing may not replace.
Protected(u) ==
  \/ tools = Damaged
  \/ Readable(tools) /\ tools.n > 0 /\ SameServer(tools.url, u)

StartProcess(p) ==
  /\ pc[p] = "idle"
  /\ \E k \in Kinds :
       /\ kind' = [kind EXCEPT ![p] = k]
       /\ Go(p, CASE k = "sync" -> "list" [] k = "init" -> "forget" [] OTHER -> "read")
       /\ \E u \in URL : url' = [url EXCEPT ![p] = u]
       /\ left' \in {[left EXCEPT ![p] = i] : i \in IF k = "install" THEN {0, 1} ELSE {0}}
  /\ since' = since \cup {p}
  /\ UNCHANGED <<backupVars, tools, cache, got, refused>>

\* init saves its configuration, and removes the catalog of another address; an
\* error of the removal is ignored.
Forget(p) ==
  /\ pc[p] = "forget"
  /\ \/ tools' = Absent /\ since' = {}
     \/ UNCHANGED <<tools, since>>
  /\ Go(p, "list")
  /\ UNCHANGED <<backupVars, locals>>

\* A catalog that is not fresh is fetched, unless this process has been refused
\* an empty one already.  doctor may be asked to fetch it anyway.
ReadCatalog(p) ==
  /\ pc[p] = "read"
  /\ Hold(p, IF Readable(tools) THEN tools ELSE Absent)
  /\ IF kind[p] = "doctor"
       THEN Go(p, "list") \/ (Fresh(tools, url[p]) /\ Go(p, "refresh"))
       ELSE Go(p, IF \/ Fresh(tools, url[p])
                     \/ refused[p] /\ Readable(tools) /\ SameServer(tools.url, url[p])
                  THEN "use" ELSE "list")
  /\ UNCHANGED <<backupVars, tools, kind, url, got, refused, left, since>>

-----------------------------------------------------------------------------
(* syncTools *)

Installs(p)    == kind[p] \in {"install", "prompt"}
Served(p)      == kind[p] \in {"list", "call", "dynamic", "install", "prompt"}
AllowsStale(p) == Served(p) /\ kind[p] # "call"

\* Mutant: a refusal is taken to mean that there is something to serve.
SyncFails_blind(p, isEmpty) ==
  /\ refused' = [refused EXCEPT ![p] = @ \/ isEmpty]
  /\ Go(p, IF Served(p) /\ (isEmpty \/ (AllowsStale(p) /\ cache[p] # Absent))
           THEN "use" ELSE "failed")

\* What each caller does with a sync that failed: serve what it read, if it may.
SyncFails(p, isEmpty) ==
  LET serves == /\ Served(p)
                /\ isEmpty \/ AllowsStale(p)
                /\ cache[p] # Absent
  IN /\ refused' = [refused EXCEPT ![p] = @ \/ (serves /\ isEmpty)]
     /\ Go(p, IF serves THEN "use"
              ELSE IF kind[p] = "doctor" /\ cache[p] # Absent THEN "refresh"
              ELSE "failed")

\* What may answer a tools/list for the page after the first `read` ones: its
\* array, what it adds, and its cursor: none on (or after) the last page, the one
\* it was asked with, or another.  A broken server omits the array, repeats its
\* cursor, or leads on and on without getting anywhere.  One that says too early
\* that it is through has no longer listing.
Answer == [array : BOOLEAN, adds : {0, 1}, next : {"none", "same", "new"}]
Answers(g) ==
  {a \in Answer :
     /\ a.adds = 1 => a.array /\ g.read < Pages
     /\ a.next = "same" => g.page > 0
     /\ \/ /\ a.array /\ a.next # "same"
           /\ g.read < Pages => a.adds = 1
           /\ a.next = "none" <=> g.read + 1 >= Pages
        \/ Faults /\ (~a.array \/ a.next # "none")}

\* initialize.
ListTools(p) ==
  /\ pc[p] = "list"
  /\ \/ /\ got' = [got EXCEPT ![p] = [n |-> 0, read |-> 0, page |-> 0]]
        /\ Go(p, "page")
        /\ UNCHANGED refused
     \/ Faults /\ SyncFails(p, FALSE) /\ UNCHANGED got
  /\ UNCHANGED <<backupVars, tools, kind, url, cache, left, since>>

\* A page of tools: one more to come, or the last, with n what they add up to.
Reads(g, r) == [g EXCEPT !.read = @ + r.adds, !.page = @ + 1]
GoesOn(p, r) == got' = [got EXCEPT ![p] = Reads(@, r)] /\ UNCHANGED <<pc, refused>>
Listed(p, r) ==
  /\ \E n \in Listing :
       /\ got' = [got EXCEPT ![p] = [Reads(@, r) EXCEPT !.n = n]]
       /\ Go(p, IF n = 0 THEN "check" ELSE "store")
  /\ UNCHANGED refused

\* Mutant: a page without its array is taken for an empty one.
TakePage_lax(p, r) ==
  \/ r.next = "none" /\ Listed(p, r)
  \/ r.next = "same" /\ SyncFails(p, FALSE) /\ UNCHANGED got
  \/ r.next = "new" /\ GoesOn(p, r)

\* The listing ends where a page has no cursor, and fails where one has no array
\* or a cursor that does not advance.
TakePage(p, r) ==
  \/ ~r.array /\ SyncFails(p, FALSE) /\ UNCHANGED got
  \/ r.array /\ r.next = "none" /\ Listed(p, r)
  \/ r.array /\ r.next = "same" /\ SyncFails(p, FALSE) /\ UNCHANGED got
  \/ r.array /\ r.next = "new" /\ GoesOn(p, r)

\* Mutant: one page more than the cap is asked for.
ReadPage_more(p) ==
  /\ pc[p] = "page"
  /\ \/ got[p].page <= MaxToolPages /\ \E r \in Answers(got[p]) : TakePage(p, r)
     \/ /\ Faults \/ got[p].page > MaxToolPages
        /\ SyncFails(p, FALSE)
        /\ UNCHANGED got
  /\ UNCHANGED <<backupVars, tools, kind, url, cache, left, since>>

\* The page loop of listTools: it fails where a request does, or when as many
\* pages as it may ask for have not come to an end.
ReadPage(p) ==
  /\ pc[p] = "page"
  /\ \/ got[p].page < MaxToolPages /\ \E r \in Answers(got[p]) : TakePage(p, r)
     \/ /\ Faults \/ got[p].page = MaxToolPages
        /\ SyncFails(p, FALSE)
        /\ UNCHANGED got
  /\ UNCHANGED <<backupVars, tools, kind, url, cache, left, since>>

\* An empty listing does not replace a catalog worth protecting.
CheckEmpty(p) ==
  /\ pc[p] = "check"
  /\ IF Protected(url[p]) THEN SyncFails(p, TRUE) ELSE Go(p, "store") /\ UNCHANGED refused
  /\ UNCHANGED <<backupVars, tools, kind, url, cache, got, left, since>>

\* The new file is renamed over the old one: whole, or not at all.
Store(p) ==
  /\ pc[p] = "store"
  /\ \/ /\ tools' = [url |-> url[p], n |-> got[p].n,
                     whole |-> got[p].read = Pages, fresh |-> TRUE]
        /\ Hold(p, tools')
        /\ since' = {}
        /\ Go(p, "refresh")
        /\ UNCHANGED refused
     \/ Faults /\ SyncFails(p, FALSE) /\ UNCHANGED <<tools, cache, since>>
  /\ UNCHANGED <<backupVars, kind, url, got, left>>

-----------------------------------------------------------------------------
(* The instruction file *)

Refreshed(p) == Go(p, IF Served(p) THEN "use" ELSE "done")

\* Mutant: an empty catalog is rendered too.
Refresh_empty(p) ==
  /\ pc[p] = "refresh"
  /\ BeginWrite(p, cache[p].n) /\ Go(p, "refreshing")
  /\ UNCHANGED <<tools, locals, since>>

\* refreshInstructions: not from an empty catalog, and not where the user left it
\* off.  An init that asks its questions installs instead.
Refresh(p) ==
  /\ pc[p] = "refresh"
  /\ \/ /\ cache[p].n > 0
        /\ BeginWrite(p, cache[p].n) /\ Go(p, "refreshing")
        /\ UNCHANGED <<kind, left>>
     \/ Refreshed(p) /\ UNCHANGED <<backupVars, kind, left>>
     \/ /\ kind[p] = "init"
        /\ kind' = [kind EXCEPT ![p] = "prompt"]
        /\ left' \in {[left EXCEPT ![p] = i] : i \in {0, 1}}
        /\ Go(p, "read")
        /\ UNCHANGED backupVars
  /\ UNCHANGED <<tools, url, cache, got, refused, since>>

\* A write that fails is reported and changes nothing else.
Refreshing(p) ==
  /\ pc[p] = "refreshing"
  /\ \/ WriteStep(p) /\ UNCHANGED pc
     \/ WriteEnded(p) /\ Refreshed(p) /\ UNCHANGED backupVars
  /\ UNCHANGED <<tools, locals, since>>

\* A tool that is looked up in a catalog may be called; install renders the
\* catalog, unless it is empty, for one harness after another.
Use(p) ==
  /\ pc[p] = "use"
  /\ \/ ~Installs(p) /\ Go(p, "done") /\ UNCHANGED <<backupVars, kind>>
     \/ /\ kind[p] = "dynamic" /\ cache[p].n > 0
        /\ kind' = [kind EXCEPT ![p] = "call"]
        /\ Go(p, "read")
        /\ UNCHANGED backupVars
     \/ /\ Installs(p) /\ cache[p].n = 0
        /\ Go(p, "failed")
        /\ UNCHANGED <<backupVars, kind>>
     \/ /\ Installs(p) /\ cache[p].n > 0 /\ left[p] = 0
        /\ BeginWrite(p, cache[p].n) /\ Go(p, "installing")
        /\ UNCHANGED kind
  /\ UNCHANGED <<tools, url, cache, got, refused, left, since>>

\* install ends where one harness fails; the prompts of init go on.
NextHarness(p) ==
  /\ Installs(p) /\ left[p] > 0
  /\ \/ pc[p] = "use" /\ cache[p].n > 0
     \/ pc[p] = "failed" /\ kind[p] = "prompt"
  /\ left' = [left EXCEPT ![p] = @ - 1]
  /\ Go(p, "read")
  /\ UNCHANGED <<backupVars, tools, kind, url, cache, got, refused, since>>

Installing(p) ==
  /\ pc[p] = "installing"
  /\ \/ WriteStep(p) /\ UNCHANGED pc
     \/ WriteEnded(p) /\ Go(p, "done") /\ UNCHANGED backupVars
  /\ UNCHANGED <<tools, locals, since>>

-----------------------------------------------------------------------------
Age ==
  /\ Readable(tools) /\ tools.fresh
  /\ tools' = [tools EXCEPT !.fresh = FALSE]
  /\ UNCHANGED <<backupVars, pc, locals, since>>

Sync(p) == ListTools(p) \/ ReadPage(p) \/ CheckEmpty(p) \/ Store(p)
Instruct(p) == Refresh(p) \/ Refreshing(p) \/ Use(p) \/ NextHarness(p) \/ Installing(p)

AllOver == (\A p \in Writer : pc[p] \in Over) /\ UNCHANGED cvars

CatalogNext ==
  \/ \E p \in Writer :
       StartProcess(p) \/ Forget(p) \/ ReadCatalog(p) \/ Sync(p) \/ Instruct(p)
  \/ Age
  \/ AllOver

CatalogSpec == CatalogInit /\ [][CatalogNext]_cvars

-----------------------------------------------------------------------------
(* "anything short of a complete catalog has to fail": what is stored, and what
   is served or rendered, has every page of a listing, whatever was cut off,
   repeated or lost while it was fetched and written. *)
WholeCatalog ==
  /\ Readable(tools) => tools.whole
  /\ \A p \in Writer : cache[p] # Absent => cache[p].whole

EmptyStore(p) == pc[p] = "store" /\ got[p].n = 0 /\ pc'[p] = "refresh"
WorthKeeping(u) ==
  tools = Damaged \/ (Readable(tools) /\ tools.n > 0 /\ ServerOf[tools.url] = ServerOf[u])

(* An empty listing never costs a catalog that was there when the process that
   stores it began, however the server's address is spelt. *)
KnownCatalogKept ==
  [][\A p \in Writer : EmptyStore(p) /\ p \in since => ~WorthKeeping(url[p])]_cvars

(* "A tools/list that succeeds and returns nothing ... must not replace a good
   catalog with an empty one": nor one that another process stored since. *)
GoodCatalogKept ==
  [][\A p \in Writer : EmptyStore(p) => ~WorthKeeping(url[p])]_cvars

(* Whoever serves, renders or installs from a catalog has one: a refusal of an
   empty listing is no promise that there is a readable one. *)
ServesACatalog ==
  \A p \in Writer :
    pc[p] \in {"refresh", "refreshing", "use", "installing"} => cache[p] # Absent

(* "A catalog that cannot improve these files must not be able to damage them":
   the instruction file never lists no tools. *)
NoPlaceholder == file # 0
=============================================================================

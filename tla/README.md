# A TLA+ model of bmcp

`bmcp` is a command-line client of an MCP gateway. It signs its requests with
AWS credentials it fetches itself, keeps what it fetched in stores that every
bmcp process of one user shares, replaces its own binary, and can serve the
gateway's tools to a local MCP client. Most of what is hard about it is that
several bmcp processes (an agent starts many at once), the AWS CLI and the
goroutines of one `bmcp serve` work on the same state with no daemon between
them. This directory models that: the state the processes share, the locks
they take and do not take, and what is still true whatever the order.

All paths below are relative to `src/cmd/bmcp/` unless they start with `src/`.

## 1. Inventory

| Component | Source | State it keeps | Operations |
| --- | --- | --- | --- |
| Session locks | `sessionlock.go` | `global.lock`, one `<key>.lock` per SSO session, the login marker | `lockSession`, `lockAll`, `BeginLogin`, `EndLogin`, `DiscardLogin`, `LoginWanted`, `saveNewToken`, `writeRoleCredsIfCurrent`, `deleteLocked`, `ClearAllLocked` |
| SSO provider | `ssoprovider.go` | the token, its generation, the role credentials minted from it | `Retrieve`, `stampGeneration`, `refresh`, `dropToken`, `login`, `awaitLogin`, `Clear` |
| Credential stores | `credstore.go`, `credstore_*.go` | keychain, Secret Service, encrypted or AWS-CLI-shared files | read, write, delete of one item; clear of a session or of everything; choice of a backend |
| Login flows | `ssologin.go` | a callback server or a device code | authorization code with PKCE, device code polling |
| Credential source | `awsauth.go`, `config.go` | none: environment, profiles and the clock, each asked again | choose a profile, find an SSO chain, load the SDK, name the source in a message |
| Credential helper | `awsauth.go` | `os.Stdin`, `os.Stderr`, two latches, two records of a discard | swap in a sink, retrieve, restore or latch |
| Self-update | `update.go` | the binary, `.bmcp.new`, `.bmcp.old`, the receipt, the update lock | `inspectUpdate`, `maybeAutoUpdate`, `applyUpdate`, `rollbackUpdate` |
| Serve | `serve.go`, `picture.go`, `widget.go` | frames in flight, the picture desk | read loop, `initialize`, `tools/call`, `resources/read` |
| Catalog and instructions | `mcp.go`, `tool.go`, `harness.go` | `tools.json`, instruction files and their backups | sync, serve from the cache, refresh of instructions |
| Tool resolution | `tool.go` | none | names, schemas, validation |
| Configuration | `config.go`, `flags.go` | `config.json` | precedence, one atomic write |
| Command line, output, graph view | `main.go`, `commands.go`, `output.go`, `register.go`, `graphview.go` | none of their own | dispatch and rendering |

How they interact. A command resolves its configuration, then a credential
source. Where that is a `credential_process` helper, the AWS SDK starts it in a
goroutine that outlives the call, with whatever the two process-wide stream
variables hold at that moment. The SSO source reads the store **without** a lock, and takes the
session's lock only to change it; it re-reads under the lock what it decided on
before. A login runs in a browser for minutes, so it holds no lock: a marker
file stands for it, which other processes poll and which `clear` can mark as
discarded. `saveNewToken` deletes the old generation's role credentials, then
writes the token, then removes the marker, and lock-free readers and crashes
see the store between the three. The AWS CLI rewrites the token file of one
backend and knows none of these locks. Before `doctor`, `sync` and `init` an
unattended update may replace the binary of a process that is running; it
serialises with the others through a lock file beside the binary. `serve`
answers every frame in a goroutine of its own, and two of them, a call and the
widget mounted for it, meet on the picture desk.

What is hard, and where it is looked at:

* reads without a lock used after another process changed the store
  (`CheckedStillHolds`, `SameLogin`, `OnlyCurrentRoles`);
* `clear` against logins, refreshes and saves under way (`NoResurrection`);
* one browser among many processes, and waiters that must neither give up
  early nor wait for ever (`OneBrowser`, `NoGiveUpOnSuccess`,
  `EveryInvocationEnds`);
* a two-level lock of which one level is held shared by waiters for the other
  (`MutationsExclusive`, `NoWaitCycle`);
* a refresh token that must not be redeemed twice (`NoReplay`);
* a lock file that is created, signed, judged by its age and moved aside in
  separate steps (`OverlapHasCause`, `OneUpdater`, `NoLeftover`), and a swap of two renames
  (`InstalledWhole`, `MissingIsReported`);
* lost wake-ups, blocked publishers and dropped replies in `serve`
  (`NoLostWaiter`, `SendsNeverBlock`, `NoStaleWaiter`, `RepliesBeforeExit`,
  `DrawingReleases`);
* a catalog file that concurrent syncs write without a lock, an empty listing
  that must not replace a good one, and fallbacks that must have something to
  fall back on (`WholeCatalog`, `KnownCatalogKept`, `GoodCatalogKept`,
  `ServesACatalog`);
* a helper that is started late, after its retrieval was given up or while
  another one runs (`Contained`, `PromptsReach`, `QuietWrites`, `SinksKept`);
* a choice that is made, retrieved and reported at different moments of an
  expiring environment, and must agree with what the SDK does (`IdentityHeld`,
  `NativeIsSDK`, `ReportsTrue`);
* a browser login whose operator, service, clock and strangers race
  (`LoginImplements`), and stores whose calls take several steps each
  (`StoreImplements`);
* instruction files whose backups must survive two bad writes and must not pile
  up (`NoPlaceholder`, `RestorePoint`, `BackupsBounded`).

`PROJECT.json` lists every hazard with its line.

## 2. The modules

| Module | Models | Uses |
| --- | --- | --- |
| `CredLocks` | the lock of `sessionlock.go`, any processes and sessions | |
| `SsoSession` | one SSO session shared by processes and the AWS CLI | EXTENDS `CredLocks` |
| `MCSsoSession` | instances of it: a view and a symmetry | EXTENDS `SsoSession` |
| `CredLocksProofs`, `SsoSessionProofs` | theorems about the two | EXTEND them |
| `UpdateLock` | `acquireUpdateLock` | |
| `SelfUpdate` | updates and rollbacks of one binary | EXTENDS `UpdateLock` |
| `SelfUpdateProofs` | theorems about the two | EXTENDS `SelfUpdate` |
| `Serve`, `MCServe` | the loop of `serve` and the picture desk | |
| `ServeProofs` | theorems about it | EXTENDS `Serve` |
| `Backups` | `writeFileWithBackup`: one instruction file, any writers | |
| `Catalog`, `MCCatalog` | `tools.json` and the commands that read, fetch and render it | EXTENDS `Backups` |
| `CatalogProofs` | theorems about `Catalog` | EXTENDS it |
| `BackupsProofs` | theorems about `Backups` inside `Catalog` | EXTENDS `CatalogProofs` |
| `HelperStreams` | the streams of a credential helper, any retrievals of one process | |
| `CredentialSource` | the choice of a profile and what the SDK makes of it | |
| `BackendChoice` | which store a run uses, and the one a remedy leads to | |
| `AwsCredentials`, `MCAwsCredentials` | `awsCredentials`: the three together | EXTENDS the three |
| `AwsCredentialsProofs` | theorems about the four | EXTENDS `AwsCredentials` |
| `BrowserLogin` | abstract: what a login promises | |
| `LoginFlow` | both flows of `ssologin.go` | INSTANCE `BrowserLogin` |
| `ItemStore` | abstract: what the `credStore` interface promises | |
| `CredStore` | the four stores under concurrent calls | INSTANCE `ItemStore` |
| `MCSsoParts` | the two parts of a login in one instance | EXTENDS `LoginFlow`, `CredStore` |
| `LoginStoreProofs` | both implement their abstract specifications | EXTENDS `LoginFlow`, `CredStore` |

### CredLocks

`hold[p]` says what the open lock files of process p hold. `wantGlobal`,
`wantSession`, `wantAll` are the three places of the poll loop in
`flockContext`; a process at `wantSession` already holds `global.lock` shared.
The three guards are the three `flock` calls. `GiveUp` is the end of the
context, `Die` the kernel closing a dead process's files.

### SsoSession

Each process is one invocation (`kind`): a tool call, `bmcp login`,
`bmcp clear` or `bmcp clear --all`. Its `pc` names the statement it is at, and
a step is one operation on the store, or one stretch of code that touches
nothing shared. `EntryPcs` are the points where `lockSession` is called: `To`
moves there and asks for the lock, `TakeLock` gets it, `LockTimeout` is each
caller's answer to an error. Correspondence:

| Actions | Code |
| --- | --- |
| `ReadStored`, `Stamp`, `StampWrite` | `credentials`, `stampGeneration` |
| `Cached`, `LeafCached`, `Mint`, `SaveLeaf`, `AssumeHops`, `SaveFinal` | role credentials of the leaf and of the chain above it, `writeRoleCredsIfCurrent` |
| `RefreshRead`, `Redeem`, `Rotate`, `WriteRefreshed`, `RejectTok`, `RejectRole` | `refresh` |
| `Drop`, `DropTok`, `DropRole` | `dropToken`, `deleteLocked` |
| `LoginRead`, `LoginBegin`, `Browser`, `SaveDiscard`, `SaveRetire`, `SaveWrite`, `SaveEnd`, `UnlockedEnd`, `UnlockedRm` | `login`, `saveNewToken`, `EndLogin` |
| `Poll`, `Peek`, `Reread` | `awaitLogin` |
| `Discard`, `DiscardWrite`, `ClearRole`, `ClearTok` | `DiscardLogin`, `deleteLocked`, `ClearAllLocked` |
| `Gateway`, `Evict` | the gateway's 401 and the eviction it causes |
| `AgeToken`, `AgeMarker`, `Crash`, `AwsCLI` | time, death, the AWS CLI |

Data is cut down to what the properties compare. A token is its access token's
number, its refresh token's number (0: none), its generation (0: not stamped),
the login both descend from, and whether it fits the profile as now configured.
Time is the life left to an access token in three steps, because the code asks
two questions of it (`ssoRefreshWindow`, `ssoAccessTokenMargin`). `lineage`,
`cut`, `gaveUp` and `replayed` are history: no guard of a step of bmcp reads
them.

`Faults` lets every store operation fail and every reply of the service be
lost. `Suspends` lets a login outlive `loginMarkerMaxAge`, which needs a
machine that was asleep: the flows time out long before.

### UpdateLock and SelfUpdate

The lock file is a record: who created it, whether it is signed with a pid,
whether it is older than `staleLockAge`. Nothing else is asked of a lock that is
in the way: its age stands for the death of its owner. With `Suspends` a lock
gets as old as that while its owner lives, as on a machine that sleeps in the
middle of an update or where a disk hangs (`updateApplyTimeout` cuts off the
download and codesign only, and `rollbackUpdate` has no deadline at all). Two
variables are history: `outlived`, whose lock was older than `staleLockAge`
before they ended, and `overlapped`, whether two updates have held the lock at
once. `upc` walks a process through
`maybeAutoUpdate`, `updateBinary` and `rollbackUpdate`; `lpc` through
`acquireUpdateLock` and its release, whose steps `SelfUpdate` conjoins with its
own. The swap library is not under `src/`; its rename of the old binary,
rename of the new one and undo are modelled as external, from how
`applyUpdate` calls it and reads its errors. A binary is its version and
whether it was written whole.

### Serve

A frame is an `initialize`, a `tools/call` or a `resources/read` of a drawing.
The desk's mutex makes `publish` one step up to the unlock and `collect` one
step up to the wait; the sends come after, one at a time. The reply is one step
under the writer's mutex.

### Backups and Catalog

`wpc` walks a writer through `writeFileWithBackup`: read and compare, back up
what was read, rename, then either remove the backup of a failed rename or list
the directory and prune what was listed. Staging needs no step: it touches only
a temporary file of the writer's own, and its failure is that of `ReadOld`,
whose later half it is. A backup is the content it holds and its place in the
order of modification times, which is what `pruneOldBackups` sorts by.

`pc` walks a process through its command. `ReadCatalog` is `readCache` with the
decision of `cacheForCatalog` or `cmdDoctor`; `ListTools` (`initialize`), `ReadPage`,
`CheckEmpty` and `Store` are `syncTools`, with a step between the look at `tools.json` and the
write of it because the code takes no lock; `SyncFails` gathers what each caller
does with the error. `Refresh` and `Refreshing` are `refreshInstructions`,
`Use`, `NextHarness` and `Installing` what comes after. `bmcp <tool>` looks its
tool up (`dynamic`) and goes on as a `call`; an interactive `init` refreshes
nothing and goes on as a `prompt`, which installs for one harness after another
(`left`). Both load the catalog again in the same process, and therefore with
the same `refusedEmptyCatalog`. The first-run wizard of another command is an
`init` followed by that command.

`ReadPage` is one round of the paging loop: `got` holds how many pages of the
server's listing have been read and how many have been asked for, and `TakePage`
decides by what the answer has (an array, a cursor, the same cursor as before)
whether the loop fails, goes on or is through. The server may answer truly, or
omit the array, repeat its cursor, or hand out new cursors without end, which
`MaxToolPages` stops. A server that says it is through too early has, for any
client, no more to list.

A catalog is the spelling of the address it came from, the number of its
listing (0 lists no tools), whether every page of it is there, and whether it is
within `sync_ttl`. `ServerOf` says which spellings name one server, which is
what `sameServer` decides; `cacheForCatalog` compares spellings, as the code
does. `since` is history: the processes that began after `tools.json` was last
written.

A process that dies is one that takes no more steps; as nothing is locked, it
leaves nothing that another one waits for.

### HelperStreams, CredentialSource, BackendChoice and AwsCredentials

`HelperStreams` follows `retrieveCredentials` statement by statement where it
touches `os.Stdin` or `os.Stderr` (`Begin` to `RestoreIn`; deferred calls in
their order), and beside it the goroutine of the SDK's `CredentialsCache`, which
reads `os.Stderr`, then `os.Stdin`, then starts the helper. That goroutine is
external, modelled from what the comments of `retrieveCredentials` rely on. A
value of a stream is the startup descriptor or the retrieval whose sink it is.
`MayCall` is the one difference between a command, which retrieves in a row, and
`serve`, which retrieves in a goroutine per frame.

`CredentialSource` has the decisions as operators over an invocation's `setup`.
A profile is a chain of nodes with their kinds of credentials, as
`resolveSSOChain` sees them. The last section is the SDK: the order in which it
consults the environment, a profile set by program and the settings of a leaf.
`AwsCredentials` takes the decisions one step each, because each asks the clock
again; `KeysExpire` may come between any two. `named` is the source a message
speaks of, chosen when the error is wrapped (`authFailure`): for a load or a
retrieval that failed, one that was given up (`Ends`) and one that had no sink
to start with (`Refuses`). A profile chain that is incomplete has a message of
its own and ends at `incomplete`. The rest of a native retrieval is
`SsoSession`; here `Native` is how it ends.

### LoginFlow and BrowserLogin

`BrowserLogin` has the operator's answers, a deadline and a verdict, and says
when each verdict may be returned. `LoginFlow` refines it with `due <- TimeIsUp`;
answers and verdict are the same variables. In the authorization code flow the
handlers of the callback server are actions of their own (`Redirect`,
`Stranger`) and put at most one result in a channel; in the device code flow
time is counted in poll intervals, the service counts the code's lifetime from
its own moment of issue, and bmcp from the reply. `Answerable` is what the
service may answer a poll: an expired code is answered as expired or as an
invalid grant, a refused one as an invalid grant.

### CredStore and ItemStore

`ItemStore` is the `credStore` interface as `SsoSession` uses it: an item is
read, written or deleted whole, at one moment of the call; a call that fails may
have happened. It lets `shared` items change under other programs' hands.
`CredStore` refines it with `items <- Content(stored)`, where the AWS CLI's
half-written token is none (`classifyStoreRead`). Its steps are those another
process can come between: search, then fetch, delete or name by object path
(Secret Service); update, then add (keychain); mkdir, temporary file, rename,
and a clear that lists and unlinks (files). `held` is history: what each item
has held since the call began.

## 3. The runs

| Run | Question | Instance |
| --- | --- | --- |
| `SsoStore` | Calls, logins and clears of one session, tokens that expire and rotate, an assumed role: do credentials stay with their login, does every process act on what it checked, is a refresh token redeemed once? | 2 processes, 2 access tokens, 1 expiry, `Hops` |
| `SsoLogin` | Three logins or `clear --all` at once, one of which may die: locks, one browser, markers, no false alarm | 3 processes, 3 tokens, 1 crash |
| `SsoFaults` | Failing stores, lost replies and markers that grow old: does a clear that reported success keep its word? | 2 processes, `Faults`, `Suspends` |
| `SsoLive` | Does every login and clear end, next to a process that died and an AWS CLI that rewrites the file? | 2 processes, no tool calls, 1 crash, 1 rewrite, fairness |
| `SelfUpdate` | Two updaters in all modes, with everything failing, either of them suspended and one dying: why may they overlap, and what is installed while they have not? | 2 updaters, 3 releases, `Suspends`; a new, an updated and a rolled back install |
| `Serve` | Two calls with equal arguments, their widgets, an `initialize`, a closing pipe: is a wake-up, a waiter or a reply ever lost? | 1 + 2 + 2 frames |
| `Catalog` | Two commands with failing operations: is a catalog ever cut short, lost to an empty listing or missing where it is served; does the instruction file keep a restore point? | 2 processes, 2 spellings of a server, 2 listings and the empty one, 2 pages, a cap of 2 |
| `Credentials` | Whose credentials does a call get, what is a helper started with, and is the failure message true? | families of invocations, see below; 2 retrievals in a row |
| `SsoParts` | Do both login flows, and the four stores, keep what the rest of the program takes them for? | one login; 2 clients, 3 calls, 2 items |
| `UpdSteal`, `CatalogEmpty`, `HelperServe` | disagreements between a comment and the code; see 6 | |

Bounds. `MaxTokens`, `MaxAgings`, `MaxCrashes` and `MaxCLI` are reached and
named in each configuration; `MaxLogins`, `MaxGens` and `MaxKeys` are set so
high that no run reaches them, so they cut nothing off. Two processes are
enough for every race of two critical sections and of a critical section with a
lock-free reader; three are used where a third could slip between a waiter and
the holder (`SsoLogin`) and where the error needs a thief of a thief's lock
(`UpdSteal`). Two access tokens give a stored one, a rotation or a login that
replaces it. A second re-issue repeats the first from a state that already
occurs.

`Catalog` starts `dynamic`, `doctor` and `init`: `call` and `prompt` follow from
them, `sync` is an `init` that removes nothing, `list` is a `dynamic` that stops
at `--help`, and `install` is a prompt that stops where one harness fails, so
these take only paths of the others. Two pages are the fewest that can be
cut short; with a cap of two, a server that spends a round on nothing meets it.
`CatalogEmpty`, which is not about pages, has one page and a cap of one. Two
spellings of one server are what the guard against an empty listing has to see
through; a second server, whose catalog it need not keep, is in `CatalogEmpty`
and in the theorems, which are for any servers. `Generations` is 2 instead of
5, with as many old backups at first, so that pruning happens in the first write
and two writes reach the limit that `RestorePoint` is about. Processes, and
spellings of one server, are exchangeable there (`MCSymmetry`).

What some runs leave to the theorems, or out. `SsoStore` and `SsoFaults` have no
crashes: that a death between two writes breaks none of `NoResurrection`,
`SameLogin` and `OnlyCurrentRoles` is shown by `ClearsStay`, `RolesOfOneLogin`
and `CurrentOnly` only. `SsoLive` starts logins and clears; with tool calls its
behaviour graph is too large, so that the loop in which a call refreshes again
(`ssoprovider.go:350`) ends is not checked. `NoLeftover` is about updaters that
end by themselves: one that dies leaves a lock that refuses the others for
`staleLockAge`, as the code means it to. `MissingIsReported` excuses a process
that died between its two renames, which nobody is left to report. In `UpdSteal`
`Suspends` is off, so that what it shows is due to the theft alone.

`Credentials` starts from four families (`MCAwsCredentials`), each of which
varies what one decision reads and holds the rest: every chain of one or two
nodes with up to two kinds of credentials; every environment with every place a
profile can be named in; every policy of the two streams, with a first retrieval
that may be given up before a second; every choice of a store with every answer
of the keyring. A product of the four would repeat them, since each decision
reads its own part of the setup. Two retrievals are enough for a latch: the
second is the first to meet one, and a third finds the same state.

`SsoParts` has the two parts of a login that share nothing while they run; a
behaviour is about one of them, and a third call of the store begins where two
others overlapped. `Budget` and `SignIn` differ, so that either may come first;
the device code lives four polls or has no stated lifetime; `slow_down` may
stretch the interval to three, past half of that lifetime.

`View` in `MCSsoSession` joins states that no step and no property tells apart:
locals no later step reads, and generations, logins and keys, which the code
compares and never computes with, up to their order. A local is
kept wherever a checked property reads it; `lineage` is left out because only
the proofs do. The liveness run uses neither view
nor symmetry.

Initial states are those a process finds at start: no token or one, stamped or
not (the AWS CLI writes unstamped ones), still good or expired, with or without
a refresh token, for this profile's configuration or another, with or without
cached role credentials.

## 4. Fairness

`FairSpec` assumes weak fairness of `Step(p)` for every process: a process that
can move keeps moving. That is what the code has: lock waiters poll `flock`,
`awaitLogin` polls store and marker on a timer, each has a context with a
deadline, and HTTP calls and login flows time out. No fairness is assumed of
`Crash`, of the AWS CLI or of time. Since no context need end in the model
(`LockTimeout` and the end of a poll are alternatives a fair process may never
choose), waiting ends because what is waited for ends.

`ServeFair` assumes that goroutines run and that a call upstream is answered or
fails, which `CallTimeout` bounds. It does not assume that `pictureWait` fires:
`DrawingReleases` says that the call itself releases its waiters.

`SsoParts` assumes weak fairness of the login's own steps together (`FlowStep`)
and of the clock. The first is a goroutine that runs: a call to the service
returns or ends with the context it was given. The second is time. None is
assumed of the operator, the browser or strangers, so the login must end by its
deadlines alone.

## 5. What is proved

The theorems are for every value of the constants: any number of processes,
tokens, servers, frames, updaters, retrievals, clients, calls and items, with
faults, crashes, suspensions and AWS CLI rewrites where the module has them.
What they assume is what the modules state of their constants (the right types;
`OneSession`: the processes share one session; `Readable`: what the store holds
is neither "nothing" nor a torn value; `RealIsNoCall`, `InputsAreInvocations`)
and, where one is needed, the hypothesis named below. Where a type invariant
speaks of what the code can hold it is proved first and used throughout.

**Locks and session.**

* `LocksTypeCorrect`, `LocksExclude`, `LocksNoWaitCycle` (`CredLocksProofs`).
  `MutationsExclusive` alone is not inductive: a waiter that kept `global.lock`
  shared beside an exclusive holder could still take its session lock. The
  invariant is therefore `LocksTypeOK /\ GlobalAlone /\ SessionAlone`, where
  `GlobalAlone` speaks of waiters too. `NoWaitCycle` follows from it.
* `TypeCorrect`, `SectionsExclude` (`SsoSessionProofs`): the same invariant
  carried through every action of `SsoSession`, with the type invariant.
* `ClearsStay`: `Spec => []NoResurrection`. The inductive invariant is
  `SafeInv == LockInv /\ Lineage /\ ClearInv`. `LockInv` ties program points to
  the locks they need: at a point of a critical section the process holds the
  lock or waits for it. `Lineage` says that each generation descends from
  one login, so that the comparison of generations under the lock
  (`writeRoleCredsIfCurrent`) is a comparison of logins. `ClearInv` says what
  has to hold while a clear is under way: between its deletions, what it has
  deleted is gone; a process in a critical section holds nothing it could write
  from before `cut`; a login that began before `cut` is either not the one
  the marker names or the marker is discarded. Without the last two the
  invariant is not inductive: a writer past its check would undo the clear.
* `RolesOfOneLogin`: `Spec => []SameLogin`, from the same invariant.
* The rest of the session rests on three more invariants, each added to
  `LockInv`, and each with the hypotheses under which its properties hold.
  * `OneLogin`, `MarkersKept`, `NoFalseAlarm`, where no marker outlives
    `loginMarkerMaxAge` (`~Suspends`), with faults, crashes, clears and the AWS
    CLI. In `LoginInv` each login under way has the marker, under its own name
    and pid (`Owned`), wherever it stands up to its last step. That leaves room for
    one only. A clear writes back the marker it read or one that is gone
    (`Reading`), and a waiter that is about to give up waits for no login under
    way (`Waited`). With `Suspends` an aged login that ends without the lock can
    remove another's marker (see 6), and the three are false.
  * `ChecksHold`, where in addition only bmcp writes the token (`MaxCLI = 0`):
    `Checked` says for each point inside a critical section what the token is
    compared with what was read, and only the process inside can change it.
  * `CurrentOnly` (`MaxCLI = 0`, `~Faults`, crashes allowed): whoever is about to
    write a token of a new generation finds no role credentials (`Retired`).
  * `NoneReplayed` (`MaxCLI = 0`, `~Faults`, `MaxCrashes = 0`). The stored
    refresh token is spent only while a process inside carries its successor
    (`StoredLives`), and nobody else holds what a login is about to save
    (`CarriedNew`). A crash or a lost reply between the two leaves a spent token
    in the store, which no client can avoid.

**Catalogs and instruction files.**

* `CatalogTypes`, `Whole`, `Serves`, `Placeholder`, `KnownKept`
  (`CatalogProofs`), for any processes, servers, spellings, listings and pages.
  The inductive invariant `CatalogInv` adds three facts to the properties: a
  listing is acted on only when complete (`Listings`: past the loop every page
  has been read, because it is left only by an answer with an array and no
  cursor), nobody is about to write
  an empty list (`NoneToWrite`), and what `CheckEmpty` found stays true of
  every catalog older than the process (`Checked`). `Checked` is what
  `KnownKept` rests on: between the check and the write only another process's
  `Store` can bring a catalog worth keeping, and that empties `since`.
* `Bounded`, `Restored` (`BackupsProofs`). `BackupsBounded` counts, so it needs
  finitely many writers (`IsFiniteSet(Writer)`), as any machine has. `Piled`
  says it for every order in which the writers that prune may get to it: what
  then remains, the backups of writes under way apart, is within `Generations`.
  For `RestorePoint` the order of modification times decides. Each backup has a
  time of its own (`Dated`); while fewer than `Generations` have been taken, no
  listing condemns one of them (`OldVictims`); and until then either the file
  is the user's own text and whoever is about to replace it has a backup of it, or
  there is a backup that no failing write will take away (`Restorable`).

**Serve.** `ServeTypes`, `Woken`, `NeverBlocks`, `Forgotten`, `AllReplied`
(`ServeProofs`), the five invariants of the run, for any frames. `NoLostWaiter`
is not inductive. A widget on the desk has an empty channel that nobody else can
send to, and asks for what is not drawn yet (`Registered`); one that was taken
from the desk is in the hands of one call, which is releasing it (`Taken`); and
nobody has sent to a widget that was not handled yet (`Untouched`).
`SendsNeverBlock` and `NoStaleWaiter` follow from these. `RepliesBeforeExit`
needs that nothing is read once stdin is closed (`Closed`).

**Self-update.**

* `OverlapExplained` (`SelfUpdateProofs`): `LockSpec => []OverlapHasCause`
  for any updaters, whoever of them is suspended. Two hold the lock at once only
  where one has outlived `staleLockAge` or a third one left its file behind. By
  `LockInv` the file names a process that created one and has not removed it, and
  is stale only when that one has ended or is in `outlived` (`LockNamed`); while
  nobody has left one or outlived its own, the file is its owner's and nobody
  takes it away (`LockExact`).
* `UpdatesLock`: every step of `SelfUpdate` is a step of `UpdateLock` or leaves
  it alone, so what holds of the lock holds of updates. `Unlocked` is
  `NoLeftover`, by it.
* `OneOfTwo`: of at most two updaters one at a time is past the lock as long as
  neither outlives `staleLockAge`, `[](outlived = {} => OneUpdater)`. Both
  conditions are needed: `UpdSteal` is a counterexample with three, and with two
  a suspended one is another (see 6).
* `UpdateTypes`, and `StaysOut` (`BlockedStaysOut`): no assumption on overlap.
* `Installed`, `MissingKnown`: `InstalledWhole` and `MissingIsReported`, of
  every behaviour. The two are about the time before updates overlap: two that
  do can rename each other's binaries. `SwapInv`: who works on the install holds
  the lock (`WorkLocked`), and until there was an overlap what is at the install
  and the recovery path is whole, and what is staged once it was verified, and
  between the two renames there is something to put back (`SwapWhole`).
* `InstalledOfTwo`: of at most two updaters only one that outlives
  `staleLockAge` can lead to an installed binary that is not whole; deaths,
  failures and the theft of a dead one's lock cannot.

**Credential source.** `HelpersContained`, `PromptsAnswered`, `SinksAccounted`,
`NoRaceOnStreams`, `Reports`, `Identity`, `NativeAgrees`
(`AwsCredentialsProofs`), for any number of retrievals in a row. The first five
assume `~Serving`: under `serve` retrievals overlap and `Contained` is false
(`HelperServe`). By `StreamsInv` a sink is installed while its retrieval runs, or
latched because one was given up, and no other is open (`Installed`); the streams
a helper must not have are out of its way from before its retrieval until after it
(`Covered`); and they are while the SDK builds a command, even if that retrieval
has been given up (`Pending`). `ChoiceInv` says what each point of a call knows of
the choices behind it; `Identity` and `NativeAgrees` follow from it, and hold
under `serve` too, since no choice reads what another retrieval writes.
`ReportsInv` joins the two for what a message says. `Reports` covers failures,
refusals and retrievals given up, and has one exception, `Overtaken` (see 6).

**Two refinements** (`LoginStoreProofs`).

* `LoginKeepsPromise`: `FlowSafety => Promise!LoginSafety`, that each step of
  the two login flows is a step of `BrowserLogin` or a stutter. The mapping alone
  does not do: the result that waits in the channel has to be what the
  operator said (`Said`), and the end of the code as `bmcp` counts it lags
  behind the service's by at most one interval (`Lagging`), which is why a
  grant refused as invalid just before that end may be called expired.
* `StoreKeepsPromise`: `StoreSpec => StoreImplements`, that all four
  backends are an `ItemStore`. The moment a call is said to have happened is
  seldom its last step, so the invariant speaks of `held`: a call has seen what
  every item holds now (`Seen`), an object it found and that has gone since was
  absent once (`Outlived`), a clear that goes well has seen each of its items
  absent or will (`Sweeps`), and what a call is about to return it has seen
  (`Vouched`).

The inductive invariants were model-checked before they were proved, except
`ChoiceInv` and `ReportsInv`, whose parts say of single points what the run's own
properties say of the ends.

**Only model-checked.** Liveness and `ENABLED` are beyond the prover:
`EveryInvocationEnds`, `DrawingReleases`, and the half of `LoginImplements` that
says that a login ends. `OneUpdater` is false beyond two updaters and where one outlives its lock. Every other
property that a passing run checks is stated by a theorem.

## 6. Where the code and its comments disagree

* `UpdSteal`. Stat and rename of a stale update lock are two steps. A second
  updater that judged the old file stale renames the fresh lock of the first.
* `CatalogEmpty`. `syncTools` looks whether there is a catalog worth keeping and
  writes the empty one in two steps. A good catalog that another process stores
  in between is lost. `KnownCatalogKept` says what does hold: a catalog that was
  there when the process began is never lost to an empty listing.
* `HelperServe`. `retrieveCredentials` argues that only the SDK's goroutine races
  its two assignments, because bmcp starts none of its own. `serve` does: it
  answers every frame in a goroutine, and every `tools/call` retrieves. One
  call's restore can put the protocol stream back just before another call's
  helper is built. `Contained`, `QuietWrites` and the rest hold where retrievals
  do not overlap, which is what `Credentials` checks, abandoned ones included.

Five disagreements have no run of their own:

* "acquireUpdateLock serialises swaps" (`update.go:589`). The second look at a
  lock asks for its age alone (`update.go:628`). An updater that lives, but was
  suspended for longer than `staleLockAge` or waits for a disk, has its lock
  moved aside and continues beside the next one. `OverlapHasCause` therefore has
  `outlived` among its causes.
* A remedy is "not sent to repair a profile this attempt never consulted"
  (`awsauth.go:811`). An attempt that consulted the environment's keys and was
  given up before they answered names its source afterwards; if the keys have
  expired by then, it is the profile they outranked. `Overtaken` is this case, and
  `ReportsTrue` says that there is no other.

* `EndLogin` "leaves anyone else's alone" (`sessionlock.go:210`). A login that
  cannot take the lock again ends without it: it reads the marker, finds its
  own, and removes the path. If its marker had outlived `loginMarkerMaxAge`,
  another login may begin in between, and loses its marker. `MarkerKept`,
  `OneBrowser` and `CheckedStillHolds` therefore speak of markers that have not
  aged, or are checked with `Suspends` off.
* "will not be installed automatically again" (`update.go:1144`).
  `maybeAutoUpdate` reads `Blocked` before the lock is taken; a rollback that
  completes in between is undone by the update. The comparison with the running
  version has the same window: an unattended update may put back an older
  release than one installed meanwhile. `BlockedStaysOut` says what does hold:
  what was blocked when the process began, and has been ever since, stays out,
  unless it cannot read the receipt. `StaysOut` proves it.
* `credstore.go:26` gives "not found" to reads only. The Secret Service store
  lists the items of every session and asks each for its name; one that has
  gone in between, of any session, fails the whole listing with that error
  (`credstore_secretservice.go:412`), and a clear or a login deletes nothing and
  reports it. It is an error, not a silent success, so `StoreImplements` holds.

Some behaviours follow from the design and are stated as hazards only: a lost
reply to a rotating refresh leaves a spent refresh token in the store; a file
the AWS CLI rewrites without a lock can be overwritten by bmcp; arguments name a
call on the picture desk, so a second call with equal arguments can find the
first one's drawing, and a call refused by its schema publishes nothing and its
widget waits out `pictureWait`; two processes with different catalogs may write
`tools.json` and the instruction file in opposite orders, until the next refresh.

## 7. Not modelled

* Wording, flags, document shapes and SVG: rendering without shared state.
* Encryption of the file store, the D-Bus connection, the keychain's C code
  beyond its two calls of a write: `CredStore` has their outcomes.
* Name resolution and schema checks of tools, the parsing of flags and files,
  `ssoFlowChoice`: sequential functions without shared state.
* Version comparison, install classification and the daily cadence of updates:
  decided before the lock; `SelfUpdate` chooses among their outcomes.
* Managed blocks in a file its user edits, and registration in MCP configuration
  files: `Backups` has a file that is written whole.
* Servers that end a listing before its last page: no client can tell.
* Redirects with an OAuth `error` other than a denial: `Redirect` has a refusal
  only after the operator denied, where the code reads every `error` as one. A
  prompt of the Secret Service that nobody answers takes no effect later.
* That the retry loop of a tool call ends (`ssoprovider.go:350`); see 3.
* The widget's HTML and JavaScript, and `install.sh`: other programs.
* Contents of schemas and of tool arguments; they are model values here.

## 8. Plan

Done: all modules of section 2, their runs, and the theorems of section 5.
Left:

1. Theorems: none of a safety property that a run checks. The fairness half of
   `LoginImplements`, `DrawingReleases` and `EveryInvocationEnds` stay with TLC.
2. Extensions: managed blocks in a file the user edits, MCP registration.
3. `SsoSession` takes `Browser` and the store's calls in one step each, which is
   what `BrowserLogin` and `ItemStore` allow; a composition of the three was left
   out because the product of their states is out of TLC's reach.

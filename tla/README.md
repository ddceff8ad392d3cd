# Verification of chroma-go-local

TLA+ models of the program's own core logic, checked with TLC on small
instances, and theorems about them that the TLA+ proof system proves for every
value of the constants.  The repository wraps Chroma, a vector database, as a
native library (the *shim*, `shim/src/lib.rs`) and gives it a Go API
(`internal/runtime`) and a Java API (`java/`).

## 1. The system

### Components, state, operations

| Component | State | Operations that change it |
|---|---|---|
| Go `Server` (`internal/runtime/chroma.go`) | native handle, port, address, TLS flag, config; `backupMu`, `stateMu`, and the process-wide `ffiMu` | `StartServer`, `Stop`, `Close`, the finalizer, `restartFromConfig` |
| Go backup (`backup.go`) | plan (destination, whether the source exists), snapshot directory, manifest | `Server.Backup`, `Embedded.Backup` |
| Go server maintenance (`compaction.go`, `rebuild.go`, `wal_prune.go`) | a temporary embedded runtime | close server, start embedded, run, close embedded, restart server |
| Go `Embedded` (`embedded.go`) | native handle, config, persist path | `StartEmbedded`, `Close`, `Backup`, data operations |
| Go requests (`embedded.go`) | none: validation, metadata normalisation, JSON with `omitempty`, decoding of replies | every data operation of `Embedded` |
| Shim server runtime | `ServerHandle`: tokio runtime with the server task and the connection tasks, `shutdown_tx` | `chroma_server_start*`, `_stop`, `_free` |
| Shim embedded data operations | payload of the request, defaults of tenant and database; the catalog and the records are the upstream frontend's | the `chroma_embedded_*` functions on tenants, databases, collections and records |
| Shim explicit compaction | log rows, `max_seq_id` | `chroma_embedded_compact_collection`, `_all` |
| Shim WAL pruning | log rows, prune policy of the request, clock | `chroma_embedded_prune_wal_collection`, `_all` |
| Shim index rebuild | index directory, temporary / backup / rollback directories, segment manager's cache | `chroma_embedded_rebuild_collection` |
| Shim error slot and panic boundary | `LAST_ERROR`, poison flag of the frontend mutex | every exported function |
| Java sessions (`java/core`) | final handle, closed flag, lifecycle lock; static FFI lock | `close`, `backup`, maintenance, accessors |

Interaction is by synchronous calls: user goroutines call `Server` methods;
these take `backupMu`, `stateMu`, `ffiMu` (in this order) and call the shim;
the shim keeps its frontend mutex for a whole maintenance call.  Shared state
is the native handle, the persistence directory (one user at a time by
convention only), and the error slot.

### What is hard

* **Interleaving.** A maintenance operation stops the server, works without it
  and starts a new one, in the background of other goroutines that may call
  `Stop`, `Close` or another operation, and of the garbage collector.
* **Partial failure.** Each of the five stages of a server operation and each
  file-system step of a rebuild can fail by itself; the outcome must be
  "restarted" or "stopped and reported", "old index" or "new index".
* **Crash.** Log rows are deleted collection by collection, and an index is
  replaced by two renames.
* **Stale values.** Plans, configuration, log cut-offs and open index caches are
  read at one point and used at another.
* **Time-outs.** A server start waits 250 ms for bad news and takes silence for
  health; the server task may end right after, or never get ready.
* **Two languages.** A request is validated twice, encoded in between with empty
  fields left out, and completed with defaults on the far side.
* **Boundaries.** Inclusive and exclusive sequence ids, byte budgets met by
  whole rows, a wall clock that is set back, replies cut off at 1 MiB.

## 2. Modules

| Module | Models | State and actions |
|---|---|---|
| `DirectoryAccess` | abstract: who has the persistence directory open | `Acquire`, `Release` |
| `ServerLifecycle` | one Go `Server`, its callers, the finalizer, the native handles | one action per section of a method between two lock operations or FFI calls: `StopLoad`/`StopCall`, `CloseState`/`CloseSwap`/`CloseCall`, `LockBackup`, `SnapshotInputs`, `PlanBackup`, `CopyBegin`/`CopyEnd`, `EmbStart`/`EmbRun`/`EmbCall`/`EmbClose`, `StartServer`/`ReadStarted`/`StoreRestarted`, `Return`, and the environment (`ServerExits`, `RuntimeWrites`, `EditConfigFile`, `Drop`) |
| `LogMaintenance` | the write-ahead log of the collections, compaction and pruning in the shim | `Write`, `Apply`, clock steps; `Begin` / `Refuse`, `Migrate`, `Configure…`, `Prune`, `Backfill`, `PurgeCompacted`, their failures, `Return`, `Crash` |
| `IndexRebuild` | one rebuild of the vector index of one collection, between ordinary writes | `Begin`, `Create`, `Fill`, `Save`, `ResetBefore`, `Stage`, `Activate`, `RollbackSource`, `FinishSwap`, each with its failure, `Crash` |
| `NativeServer` | abstract: what the shim promises about a server handle | `Start`, `StartFails`, `Exit`, `Stop`, `StopAgain`, `Free` |
| `ShimServer` | two server runtimes of the shim and their tokio tasks | a start is `StartRefused`, or `Spawn`, then `StartFailed` or `GiveUpWaiting` and `ReturnHandle`; `Stop`; `Free`, `CancelTask`, `Dropped`; the tasks: `Bind`, `TaskEnds`, `StopTask`, `Accept`, `ConnectionEnds`; `OtherListens` |
| `EmbeddedService` | abstract: what the in-process client promises its callers | `Ask`, `Answer`, `Change` |
| `EmbeddedLifecycle` | one Go `Embedded`, its callers, the finalizer, the error slot, poisoned runtimes | a data call is `CallRefused` or `CallLock`, then `CallSucceeds` or `CallFails` and `CallReadsError`; `CloseState`/`CloseNothing`/`CloseSwap`/`CloseCall`; Backup as above; `StartLock`/`StartCall`/`StartReadsError`/`Started`/`Store` for the reopen; `RuntimeWrites`, `Drop` |
| `RecordStore` | external: the catalog and the records of the upstream frontend, as operators | |
| `RecordService` | abstract: what a request means to the program that filled it in | `Ask`, `CarryOut`, `Succeed`, `Fail` |
| `EmbeddedRequests` | one request through Go, JSON and the shim to the frontend, and its reply back | `Call`, `Refuse` / `Send`, `ShimRefuses` / `UpstreamRefuses` / `FrontendFails` / one action per shim function (`CreateTenant` ... `IndexingStatus`), `Report` / `Decode` / `CutOff` |
| `FileBackup` | the files of backups to one destination: `ensureEmptyDir`, `executeBackup` | one action per system call another backup can come between: `Plan`, `Inspect`, `MakeDestination` / `ListDestination`, `CloseRuntime`, `MakeSnapshot`, `CopyDirectory` / `RejectLink` / `CreateFile` and `FillFile`, `EndWalk`, `OpenManifest`, `WriteManifest`, `GiveUp` |
| `JavaSessions` | the chain of Java sessions over one directory | the stages of `MaintenanceExecutor` and `BackupExecutor`, `close`, reads without the lock |
| `MC…` | small instances of the above for TLC | |
| `…_proofs` | theorems | |

Data is abstracted to what the properties tell apart.  The persistence
directory is one of three contents; a configuration file is a model value; a
log row is a record of sequence id, size, the time it was written and the time
`created_at` gives it, if any; an HNSW entry is a
label and a payload (embedding and sequence id).  A metadata value is the kinds of
its items, a JSON value the kinds of its tokens; a source tree is the sequence of
its entries.  What Go hands on without looking at it (filters, includes, configurations,
schemas, embeddings) either means something to the shim, or does not, or has no JSON.  YAML, logging and path handling are left out.  A name that ends
in `_M` is a mutant: the definition above or below it with a plausible bug, used
to show that a property notices.

`ServerLifecycle` composes with the shim through `native`, the state of every
handle.  What it assumes of that state (a stop succeeds once, a free leaves
nothing, a start may hand out a server that has just ended) is `NativeServer`,
and `ShimServer` shows that the tasks inside keep it.  `LogMaintenance` and `IndexRebuild` model what happens inside one FFI
call (`EmbCall` in `ServerLifecycle`, `CallSucceeds` in `EmbeddedLifecycle`),
which the frontend mutex makes exclusive for the whole call.  `DirectoryAccess`
is instantiated by `ServerLifecycle` and `JavaSessions`: Go and Java make the same
promise about the directory with different locks.  `EmbeddedRequests` opens up
the data call that `EmbeddedLifecycle` takes as one step, for one call at a time,
which is what `ffiMu` makes of them; `FileBackup` opens up the copy of
`ServerLifecycle` and `EmbeddedLifecycle`, for backups that share nothing but
their destination.

## 3. What makes each part correct

* **Go `Server` and `Embedded`** (`ServerLifecycle`, `EmbeddedLifecycle`).  Native
  handles: no call on a freed one (`NoCallOnFreedHandle`), none lost on a failure
  path (`NoOrphanRuntime`, `CollectedFreesAll`), never two runtimes on one
  directory (`OneRuntime`).  Backup: nothing writes while files are copied
  (`SnapshotQuiescent`), so the copy is the directory (`SnapshotMatches`).  Close
  is final unless an operation that was already under way restarts
  (`FinalClose`); what an operation reports about its restart is true
  (`FailedRestartLeavesStopped`, `RestartAttempted`).  The object shows the address
  of the runtime it has (`AddressIsCurrent`).
* **Server runtimes** (`ShimServer`).  A handle goes through the states of
  `NativeServer` and every reply about it is true, whenever the server task ends
  (`ServerContract`); after a free, or a start that failed, no task runs and no
  port is held, whatever the clients do (`QuietAfterFree`); a stop ends a server
  that never got ready (`StopTakesEffect`); every call returns (`CallsReturn`).
* **Error reporting** (`EmbeddedLifecycle`).  All calls of the process share one
  slot; an error still carries the message of its own call (`ErrorIsOwn`), and
  nothing stays in the slot (`SlotIsClean`) but the message of a free that
  panicked, which no one reads and every later failure overwrites.  A runtime
  poisoned by a panic answers no call with success and can still be closed and
  backed up (`ServiceContract`).
* **Requests** (`EmbeddedRequests`).  A request does what its fields say to the
  program that filled them in, or nothing (`RequestsMeanWhatTheySay`): it reaches
  the tenant, database, collection and records it names, or the default ones;
  an empty list is no criterion, and a delete without criterion does not happen;
  what is stored has the kind that was given; an error of a call that changes
  something means that nothing has changed, unless the call created or forked a
  collection: then the error may be that its description was cut off in the reply,
  and the collection is there.  The code of the shim refuses what Go has accepted only
  for what it alone checks: ids, the length of database names, null embeddings, and the
  filters, includes, configurations and schemas that Go hands on unseen; the rules that
  both layers state do not differ (`LayersAgree`).  What the upstream types refuse
  (`UpstreamRefuses`) is no subject of it.
* **Files of a backup** (`FileBackup`).  A manifest that can be read describes a
  snapshot that is there in full, with nothing else in it unless another backup
  ran at the same time (`ManifestIsTrue`); of two backups that copy a common path
  one fails, and the other's files stay as they are (`OneWriterWins`).
* **Log maintenance** (`LogMaintenance`).  No row that some segment has not
  persisted leaves the log (`Recoverable`).  A maximum age never takes a row that has
  a time and is younger; rows without one count as the oldest, as documented, and all
  go up to the first that has to stay (`PrunedIsOldEnough`).  A byte budget takes what
  it needs, not more and not less (`PrunedIsNeeded`).  Counts and totals are those of
  the rows that left the log; sequence ids enclose these rows, or, in an entry with an
  error, rows that are all still there (`ReportIsTrue`); an error of the shim has
  deleted nothing (`ErrorDeletesNothing`).
* **Index rebuild** (`IndexRebuild`).  At every instant some directory holds every
  record (`IndexSurvives`); a failure leaves the index in its place
  (`ErrorKeepsIndex`); the new index is complete and its labels can be extended
  (`RebuiltIsComplete`, `NextLabelIsFree`); no stale cache, no left-over directory
  (`CacheIsCurrent`, `NoTempLeft`).
* **Java sessions** (`JavaSessions`).  Stop, free and maintenance calls reach the
  runtime they are meant for although addresses are reused
  (`LifecycleCallsLive`); the closed flag is true (`OpenMeansAlive`,
  `ClosedMeansFreed`); one runtime and quiet copies (`DirectoryHandover`; the theorems
  on `OneRuntime` and `SnapshotQuiescent`); a restart after a failed copy
  (`BackupRestarts`).

## 4. Runs

| Run | Bounds | Shows |
|---|---|---|
| `lifecycle` | 2 callers, the finalizer, 2 handles, 2 configurations | all safety properties of `ServerLifecycle`, and that it implements `DirectoryAccess` (`DirectoryHandover`) |
| `lifecycle_live` | the same, 1 configuration, no symmetry | every call returns (`OperationsFinish`) |
| `log` | 2 collections in 2 databases, 3 rows of 2 sizes with and without a time, time 0..2, second 0 of Unix time 5 before it (`Epoch`), 12 requests; under `Focus` | the planner's boundaries and the clock; scope, continue-on-error, failures and crashes between collections |
| `rebuild` | 2 records, 2 payloads, 3 labels, 2 rebuilds | all failures and a crash at every step |
| `java` | 3 threads, 3 sessions, 2 handles | all safety properties of `JavaSessions`, and `DirectoryHandover` |
| `embedded` | 3 callers, the finalizer, 2 handles, 2 writes | all safety properties of `EmbeddedLifecycle`, and that it implements `EmbeddedService` (`ServiceContract`) |
| `server_shim` | 2 handles, 2 ports, 1 client | all properties of `ShimServer`, among them that it implements `NativeServer` |
| `requests` | 2 records, 2 collection ids, 2 tenants, 3 database names, metadata of 13 shapes, parts that mean nothing or have no JSON; any reply that may be long may be cut off; under `Focus` | `LayersAgree`, and that `EmbeddedRequests` implements `RecordService` |
| `backup` | 3 backups, 5 source trees or none, 4 states of the destination | all failures and crashes of backups, one after the other and at once |
| `tls_current`, `omitted_scope`, `java_reads` | as the run of the same module | one statement of a document or comment each that the code does not keep (section 6) |

Why these bounds are enough.  The locks treat all callers alike, and every hazard
listed needs at most three parties: an operation, a `Close` or second operation
that overtakes it, and the finalizer (which starts when the others are idle); the
slot needs a caller that fails, one that fails in between, and one that closes.
Two handles let an address be reused and let two runtimes exist at once; a third
could only be used if two already were.  Two configurations tell an edited file
from the first one.  Three log rows are one below, at and above each cut-off; two
collections suffice for "one fails, the other goes on"; time 0..2 lets a row be
older, exactly as old and younger than the age asked; `Epoch` lies before every
cutoff, so that a row without a time is older than all.  Two records with a deleted
label in between make a label map with a hole, which is what relabelling is
about, and two rebuilds let the second meet what the first left (a kept backup,
a crash between the renames).  Three Java sessions are a first one, its
successor and that one's successor.  Two servers and two ports let a successor
use the port of its predecessor or another one; one client that hangs on is
what a free has to wait for.  Two records and two collections tell "the ones
named" from "all"; two of the thirteen metadata shapes each are needed to see a
list that starts with an integer or with a float.  Three backups are one that
leaves something behind, one that comes later, and one that runs at the same
time; the trees have none, one or two entries, share paths, differ in a path's
kind (a file here, a directory there), or contain a link.  In addition the theorems of section 5 have
no bounds.

**Focus.**  Two runs keep two questions on one instance each, with a state constraint
that is named in the MC module.  In `log` either one collection has rows of
all ages, of two sizes, without a time or stamped by a clock that is set back, and is pruned by every
policy, or two collections have rows of one size and age and are maintained with
every scope.  In `requests` either records vary
on a plain catalog, or the catalog varies in at most two respects (tenants,
resource names, databases, names, labels) with no records.  A constraint leaves out
states, not steps: the properties are checked on every state and step that lies
inside.

**Symmetry** is used for callers, handles, ids and payloads, which no definition
orders or `CHOOSE`s among, and never in a run with a liveness property.
**Deadlock** is checked in every run but `backup`, where every backup that was asked
for may have ended; a finalized object, and a Java program that has used up its
session objects, may stutter.

**Fairness.** `OperationsFinish` assumes strong fairness of the steps of every
process.  Go schedules runnable goroutines; `sync.Mutex` hands the lock to a
waiter that has starved for a millisecond, which is why a waiter that is
infinitely often able to get it does; and every FFI call is taken to return.  No
fairness is assumed of the callers (nobody has to call anything), of the
environment or of the finalizer's start.  `ShimServer` assumes weak fairness of the
call in progress (the thread that runs it goes on; the wait of 250 ms ends) and of
what tokio guarantees: a task that was woken by the shutdown signal is polled, and
a runtime that is dropped cancels each task where it next yields.  Nothing is
assumed of the entry point of the server, which may hang for ever, nor of clients,
which need not hang up.  The other modules have no liveness run: a rebuild, a prune
and a copy are loops over a finite list, without waiting.

## 5. Proofs

Every safety invariant, every action property and every refinement that a passing run
checks is also a theorem, for every value of the constants that the assumptions
allow.  The assumptions are named where the constants are declared and TLC evaluates
them: special values such as `None` are not among the things they stand for the
absence of, there is a handle, bounds are numbers, the collections and the records'
ids are finitely many, the entries of a source tree have different paths and
none is the snapshot, and every request has the fields its Go type gives it.

Each `..._proofs` module shows that a conjunction `IInv` is inductive, with one
lemma per action and a step per conjunct, or one lemma per conjunct and a step per
action, whichever is shorter.  TLC has checked every such invariant on the small
instance first.  Its type invariant is the first conjunct.  A run does not repeat `IInv`,
nor what follows from it and is proved (`OneRuntime` of the Java sessions,
`OneRuntime` and `FinalClose` of the embedded client, `SnapshotQuiescent`).

* `ServerLifecycle`, `EmbeddedLifecycle`: `MutexInv` says at which program points a
  process holds which mutex; `OwnershipInv` says who may free a handle: the
  object, or the single process that swapped it out or has just started it.
  `NoCallOnFreedHandle` is not inductive without both: what protects the handle
  that `Stop` or a data call has loaded is that it still holds `ffiMu`, and
  what makes it the object's handle is that nobody swapped it out meanwhile.
  `FinalInv` ties the history of Close to operations that are committed to a
  restart.  `SlotInv` names the owner of the message in the slot.  From these
  follow the theorems on runtimes, snapshots (`CopyAlone`: during a copy the object
  has no handle and nobody owns one) and errors.
* What a server operation reports is a second invariant on top of the first,
  `ReportInv`: with `StageInv` (the outcome of a restart is known at the return
  only, and only backups plan and copy) `SnapshotMatches`, `RestartAttempted`,
  `FailedRestartLeavesStopped` and `AddressIsCurrent` are inductive together.  The
  step that needs the first invariant most is a write of the service: it cannot
  fall into a copy, because whoever copies has taken the handle away.
* `ShimServer`: `CallInv` ties the program point of the call to the runtime it
  builds or drops, `RuntimeInv` says that a runtime exists exactly while it is
  handed out or the call in progress has it, `ListenerInv` that a port is held by
  a task that serves.  `QuietAfterFree` follows from the three.
* `JavaSessions`: `LockInv`, `KnownInv`, `OwnerInv`, and `ChainInv`: two sessions
  are active only while one replaces the other.  The two flag theorems are
  conjuncts of it.  That a backup which closed its session restarts
  (`BackupRestarts`) follows step by step from `StageInv`: a backup never gets to the
  program points of the temporary runtime, so nothing but the restart is between
  its copy and its return.
* `LogMaintenance`: `Recoverable` is inductive with the types and with what is
  known of the phases; `KnownAreOld`, the half of `PrunedIsOldEnough` on rows that have a
  time, needs `Stamps` (a row is stamped early
  by at most what the clock was set back), `ErrorDeletesNothing` needs
  `NothingDeletedYet`.  On top of this, `AnswerInv`: a sequence id is handed out
  once (`SequenceInv`), so that "up to this row" cuts a set of rows in two; an entry
  of the answer is what the policy selects of its candidates (`ResultInv`); and
  the reported total is the sum over the collections processed so far, while the
  logs of those that failed are untouched
  (`ReportInv`).  `PrunedIsNeeded`, `ReportIsTrue` and the other half of
  `PrunedIsOldEnough` (`UnknownGoFirst`) follow.  They rest on sums
  of bytes and of counts over sets of any size: `TotalGrows` (a proper subset
  weighs less), `TotalSplits`, `SumUpdate`.
* `IndexRebuild`: `SourceInv`, `TempInv`, `MovedInv`, `CacheInv` say what each
  directory holds at each step, so that every rename has an intact copy on one
  side; `TempInv` also keeps the labels still to be given apart from those of the
  records still to come.  `RebuiltIsComplete`, on the step that ends a rebuild,
  needs `PackedInv` as well: the new index has the labels 1 to n at every step of
  its making, and the old one is intact where it was moved to.
* `FileBackup`, for any number of backups and any trees: `ProgressInv` says how many
  entries of its tree a backup has dealt with at each step, `DiskInv` that
  data, snapshot and manifest do not get into each other's way, `CopiedInv` that
  what a backup has dealt with is in place and stays there, `WholeInv` whose a
  readable manifest is, and `AloneInv` that a backup which met no other has the
  destination to itself.  Nearly every step of every conjunct asks what happens to
  what somebody else has written, and it is answered once: a step writes
  in one of five ways (`StepWrites`), and none of them but the manifest's touches an
  entry that is there and is not the writer's own unfinished file
  (`OthersAreLeftAlone`).
* `EmbeddedRequests`: `LayersAgree` is inductive with `StageInv`, which says that
  the shim works on the encoding of a request Go has accepted.  The content is in the
  step `ShimRefuses`: `ValidIsAccepted` shows that the encoding of such a request parses
  (`NoNulls`: no value becomes a null where null is no value), keeps its limit and its
  filter (`DeletesAgree`) and what an update is to change (`UpdatesSurvive`), so
  that one of the things remains that only the shim checks.

**Refinements.**  Five detailed modules implement four abstract ones.  `ShimServer`
implements `NativeServer`: the state of a handle changes where `ReturnHandle`, `Stop`,
`Dropped` or the end of the task takes place, and every other step stutters.
`ServerLifecycle` and `JavaSessions` implement `DirectoryAccess`: a session of copying or
of a temporary runtime excludes the service and other sessions (`SessionExcludes`,
`InsideExcludes`), and every step that changes the users starts or ends with none
(`HandoverStep`).  `EmbeddedLifecycle` implements `EmbeddedService`: a call takes effect at
`CallRefused`, `CallSucceeds` or `CallReadsError`; `CallReachesService` shows that the
handle it uses is the object's at that very instant.  `EmbeddedRequests` implements
`RecordService`: `PayloadMeans`, `NamesMean` and `PagesMean` translate the payload with its
defaults back to the request, `RowsAreStored` and `LabelIsStored` the values with their
encodings, `EffectsAreOf` that a request the shim has accepted has no part without a
meaning, and `TenantsCarried` ... `RecordsCarried` show handler by handler that the
catalog and the result are one of those that `RecordService` allows the request.

**Recursion over data.**  The induction theorems of the library cannot be used with the
installed provers, since they take an operator as a parameter; those about
relations can.  Where a fold or a sum over arbitrary data matters, the proofs search for
the smallest counterexample: a set of numbers that is not empty has a least element
(`LeastNumber`, from the well-foundedness of `<` on numbers), so a statement that
fails somewhere fails somewhere first.  That way `ListKindIsCommon` shows what
the left fold of `Kind`, over lists of any length, computes (the common kind of the set
of the items, integers giving way to floats, and nothing else), and `SumsAgree` and
`TotalIsSum` show what the sums of `LogMaintenance` are.

**Only model-checked**: `OperationsFinish`, `StopTakesEffect` and `CallsReturn`.  Liveness
under fairness is out of the prover's reach.  The statements of section 6 that the code does
not keep are refuted by TLC.

## 6. Where code and documents disagree

Shown by a run:

| Run | Statement | Code |
|---|---|---|
| `tls_current` | `chroma.go:325`: `TLS` returns whether the server was started with TLS | `restartFromConfig` (`backup.go:326`) refreshes port, address, config and path, not `tls` |
| `omitted_scope` | `README.md:455`, `:480`: an omitted scope is the default database | all databases of the tenant (`lib.rs:2114`, `:4684`) |
| `java_reads` | `ServerSession.java:68`: reads may be stale but not use-after-free | the flag is read without the lock, the handle used later (`ServerSession.java:71`) |

Met while modelling and not given a run:

* `README.md:487` says that `PruneAllWAL` reports failures per collection; a
  collection whose vector segment cannot be migrated, even one outside the scope,
  fails the whole call (`lib.rs:1841`).
* `MaintenanceExecutor.java:66` says that errors are handled as in `rebuild.go`; when
  the operation fails and the restart does not, the new session is dropped with
  the exception and nobody can stop the server (`MaintenanceExecutor.java:79`).
* Two backups to one destination that share no file path both succeed when each
  found it empty (`backup.go:494`), and leave one mixed snapshot, whose manifest
  describes the last writer only or is torn; `README.md:521` promises a
  consistent snapshot, and `TestExecuteBackupConcurrentWritersOnSameDestinationOneFails`
  (`backup_test.go:727`) covers sources with a common file only.  `ManifestIsTrue`
  excepts what ran at the same time.
* `README.md:587` calls mixed-type arrays unsupported; lists of integers and floats
  are accepted and become floats (`embedded.go:1469`).
* A reply over 1 MiB is cut off (`chroma.go:199`) and cannot be decoded: a `GetRecords`,
  `Query` or list of many records fails, and a limit is the only way round it.
* `CreateCollection` and `ForkCollection` return an error after they have taken effect
  when the new collection's metadata, configuration and schema make the reply that
  long (`embedded.go:1240`, `:971`; `lib.rs:4285`, `:3953`), and a repeated call then fails
  because the name is taken.  `RequestsMeanWhatTheySay` permits this for these two
  calls and for no other that changes something.  Likewise `PruneAllWAL` over very
  many collections returns a decoding error after its deletions:
  `ErrorDeletesNothing` is about the answer of the shim.
* The entry of a collection whose purge failed counts no row but has `pruned_seq_min`
  and `pruned_seq_max` of the rows that were selected (`lib.rs:1993`): they are still
  in the log.
* Rows with a NULL or invalid `created_at` are pruned by every maximum age, however young
  they are; `README.md:490` says so.  `PrunedIsOldEnough` therefore promises an age for
  rows with a time only.
* An embedding that is `nil` passes Go, becomes `null` in JSON and is refused by the
  shim as a parse error.
* `lib.rs:2318` leaves null metadata values of an update of a collection to Go, as its
  comment says; other callers of the shim are not stopped there.
* `Init` stores the library handle before the functions are registered
  (`chroma.go:79`): when a symbol is missing it returns an error, but `StartServer`
  and `StartEmbedded` look only at the handle and then call a nil function.
* `chroma_server_start` reads the configuration file twice, for the configuration
  and for the TLS flag (`lib.rs:2743`, `:2751`); an edit in between makes them differ.
* A `Close` that returns while a backup or maintenance operation is between its own
  close and its restart is undone by the restart (`chroma.go:364` against
  `backup.go:331`).  `FinalClose` therefore speaks of a Close outside such an
  operation.
* The plan of a backup looks whether the directory exists before the server is
  closed (`backup.go:388`); a directory the server creates in between is not
  copied, although `README.md:521` promises a consistent snapshot.
  `SnapshotMatches` excepts this case.
* `README.md:504` recommends a rebuild when the index is inconsistent; the code
  refuses an index whose metadata does not validate or whose labels have no
  vector (`lib.rs:879`, `:1312`).
* When the temporary runtime does not start, Go restarts the server
  (`rebuild.go:164` ff.), Java leaves it stopped (`MaintenanceExecutor.java:35`).
* The Java backends read persist path and version after a runtime has started and
  free nothing when one of these calls throws (`JnaChromaRuntime.java:110`, `:138`);
  in the shim they only fail for a null handle, so that the model leaves it out.
* An `Error` (not an `Exception`) thrown by the operation passes the handler that
  marks the session closed (`ServerSession.java:134`; compare the test at
  `ServerSessionTest.java:521`).  Errors are left out of the model.

Two concerns of `.planning/codebase/CONCERNS.md`, a double free in the error paths
of a backup and a race of the finalizer with an explicit `Close`, do not
occur: `NoCallOnFreedHandle` and `OwnershipInv` are theorems.

## 7. What is not modelled

* Options, configuration files and error wording: pure conversions of single
  values.  The requests of maintenance operations: their rules are guards of
  `LogMaintenance` (`OptionsValid`, `PolicyValid`).
* `Heartbeat`, `MaxBatchSize` and `Healthcheck` as requests: they have none and change
  nothing; as calls they are those of `EmbeddedLifecycle`.
* Names that differ by white space, lengths of columns beyond "fits or not",
  what filters, includes, configurations and schemas say beyond "means something or
  not" (one filter on the document stands for all), and which requests the upstream
  types and constructors (`try_new`) refuse: `UpstreamRefuses` lets them refuse any.
  Replies of maintenance operations that are cut off.
* A source directory that changes while it is copied: `ServerLifecycle` and
  `EmbeddedLifecycle` show that no runtime writes to it then.  The files of a Java
  backup.  A power failure, with files or the manifest not yet synced.
* What the upstream Chroma crates do: they appear as environment steps (writes,
  segment persistence, log rows, connections) and, for requests, as `RecordStore`.  `max_seq_id` and the sequence ids in the HNSW
  metadata are part of a record's payload.
* Several native runtimes started by the program itself on one directory; the
  modules follow one `Server`, one `Embedded`, one chain of Java sessions.
* A wall clock that jumps forward (a prune by age then deletes rows early, which
  no implementation with a wall clock avoids).
* A crash of the process in the Go and Java modules: nothing but the directory
  survives one, and `LogMaintenance` and `IndexRebuild` have it.
* An unchecked exception in the copy of a Java backup: only an `IOException` leads on to
  the restart (`BackupExecutor.java:105`), another one would skip it.
* The argument marshalling of the two Java backends, `AbstractChromaRuntime.close`
  (which rolls its flag back), and `callFfiVoid`, which no backend uses.
* Library search and loading, the facade package, scripts, benchmarks.

Two model decisions that a reader may stumble over.  `PlanBackup` of
`ServerLifecycle` does not wait for `ffiMu` although it asks the shim for its
version: the plan may then be ready earlier than in the code.  After a crash
between the two renames of a rebuild the collection has no source directory and
a later rebuild is "skipped"; that is what the code does, and `IndexSurvives`
says where the records are.

## 8. Plan

Order of the work: the life of the native runtime first (`ServerLifecycle`), then
the operations that delete or replace data (`LogMaintenance`, `IndexRebuild`), then
the other two clients (`JavaSessions`, `EmbeddedLifecycle`), then what these took
for one step: the server runtime inside the shim (`ShimServer`), the requests
(`EmbeddedRequests`) and the files of a backup (`FileBackup`).  All of this is done, and
every safety property is proved.  What could still be added:

1. The part of liveness that is safety: from every state some continuation of
   an operation reaches its return, as a bound on the steps that it still takes.
2. Facts that so far only appear inside proofs, as theorems of their own: the
   planner of a prune takes no less under a stricter policy; relabelling is a
   bijection on the labels.

Not planned: `AbstractChromaRuntime.close` of the Java core with its roll-back
(one flag, one caller), and the library search.

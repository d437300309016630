# VaultBridge in TLA+

VaultBridge serves an Obsidian-style vault of Markdown notes over HTTP, MCP and
a command line. The notes are the only authority; a SQLite database with
embeddings is derived from them. Almost everything that can go wrong in it goes
wrong *between* things: a note is written while it is being indexed, a process
dies between a link and an fsync, a watcher loses events while a synchronization
runs, a shutdown overtakes a start, a vault is edited while it is read. This
directory models those parts in TLA+, checks them with TLC on small instances
and proves the central invariants with TLAPS for every instance. `PROJECT.json`
maps each definition to the source lines it stands for; paths below are relative
to `src/app/`.

To check a run: `tlc -config <X>.cfg <MC module>`; to check proofs:
`tlapm <module>_proof.tla`.

## 1. Inventory

### Modelled: writing and serving

**Background indexer** (`services/indexer.py`, `services/note_writes.py`,
`main.py` lifespan). *State*: the queue of pending paths, the flags
full-sync-requested / -required / follow-up, the closed flag, the cancel event,
the last error, the single Future. *Operations*: `start`, `enqueue_paths`, the
job `_run`, the completion callback, `wait`, `shutdown`. *Interactions*: request
threads and the watcher enqueue; an executor thread runs the job; its callback
runs in whichever thread resolves or attaches it. *Hard*: five windows between
blocks under the lock; the queue exists only in memory. *Correct when* no
committed write is forgotten, owed work never sits in silence, a failing job
does not retry itself, and nothing commits after `shutdown()` has returned.

**Filesystem watcher** (`services/filesystem_watcher.py`, `main.py`). *State*:
deadlines per path, dispatcher flags and thread, observer thread. *Operations*:
interpret an event (two looks at the disk), submit, sleep/wake, pop, dispatch,
start, stop. *Interactions*: watchdog's thread feeds the debounce queue, the
dispatcher feeds the indexer. *Hard*: the disk changes between the two looks;
a name may be a link to another note; condition-variable wake-ups; joins that
time out. *Correct when* no change is overlooked and a clean stop has handed
over everything accepted.

**Shared embedding resource** (`services/semantic_resources.py`). *State*: pin
count, the lease, generation, invalidating / cleaning / failed / closing flags.
*Operations*: enter and leave a pipeline, call the backend, invalidate, release,
close. *Hard*: the release runs outside the lock; the thread that must release
is whichever unpins last. *Correct when* a pipeline sees one generation, a
release is exclusive, a model that failed is not handed out again, close ends.

**Shared semantic scheduler** (`services/semantic_scheduler.py`). *State per
space*: pending, in-flight and deferred paths, full-sync flags, continuation,
running / paused / wake-pending / cancel; *shared*: the reservation count, the
turn, closed, the shutdown phase. *Operations*: enqueue, debounce delivery,
request full sync, watcher attach / loss / retirement, retry, cancel, the
worker's turn, begin_shutdown, shutdown. *Hard*: a turn releases the lock several
times; failure is published after the fact; shutdown may be repeated.
*Correct when* reservations are counted exactly, an accepted path is
synchronized or owed as full work, failures wait for a trigger, turns are fair.

**Space runtime and admission** (`services/space_runtime.py`,
`services/space_admission.py`). *State*: the lifecycle state and lock; open /
stopped / active / waiting; the operation's cancellation token. *Operations*:
start with rollback, shutdown with failing parts, scoped operations. *Hard*:
shutdown fences without the lifecycle lock and overtakes start; cancellation
races a commit. *Correct when* nothing is closed under a user and a committed
write is never reported as cancelled.

**Atomic creation** (`services/vault.py` `create_capture_if_absent`,
`create_promotion_if_absent`, `services/_vault_writes.py`). *State*: the
directory entry, what a power loss would leave of it, the writers' lock, the
call's commit-attempted flag. *Hard*: editors do not take the lock; every system
call can fail after taking effect; power can fail between any two. *Correct
when* a note is complete or absent, never replaced, and outcomes are honest.

**Note appends** (`services/vault.py` `append_promotion_once`, `append_note`).
*State*: the note's inode and text, the lock, the reviewed preimage. *Hard*:
torn writes, edits between hash and write, retries. *Correct when* a promotion
is applied at most once, into the text that was reviewed.

**Scoped promotion** (`services/_scoped_promotion.py`, `promotion.py`). *State*:
what each caller holds from one call to the next; the composed runtime, its
policy and the space's root. *Hard*: review, decision and application are
separate admitted calls, between which everything may change; users take no lock
and edit between the check of the note and the write; a write whose outcome is
uncertain is looked at once more. *Correct when* what is written was decided in
the same startup about the very bytes found, and the answer tells the truth.

### Modelled: the index

**Watcher coverage** (`services/shared_filesystem_watcher.py`,
`watcher_ingress.py`, `watcher_ingress_linux.py`, the coverage evidence of
`semantic_scheduler.py`). *State*: kernel stream and watches, the batch being
parsed, gaps with their tickets, bounded event and incident queues, coverage and
failure revisions. *Hard*: three queues can overflow, watches lag behind
directories that move, a loss is reported after the lock is released, a full
synchronization may have begun before the gap it seems to close. *Correct when*
a space with clean status has missed nothing.

**Synchronization owner** (`services/semantic_search.py`, `semantic_sync.py`).
*State*: stored rows, `index_state` and signature; the owner's memory; the
continuation; the closing thread. *Hard*: death between two committed batches;
notes that change between scan and read; close during a step. *Correct when* a
store that says "ready" owes nothing it does not know of, and nothing is
committed after close has returned.

**Semantic repository** (`repositories/semantic.py`, `semantic_binding.py`).
*State*: the file at the path, its namespace keys and writer lock; each
repository's connection and created file. *Hard*: the file is swapped between
validation, lock and commit. *Correct when* rows are stored only in a file of
their own space, and only one's own untouched file is removed.

**Searches beside synchronization** and **status and inspections**
(`semantic_search.py`, `semantic_resources.py`, `repositories/semantic.py`,
`space_owners.py`). *State*: model generations and pins, remembered signatures,
the locals of a search; database pages, WAL and sidecars. *Hard*: a model is
replaced between embedding and ranking; an inspection reads without locks while
pages are moved. *Correct when* one model made both sides of a comparison, and a
report states what was true at some moment.

### Modelled: reading

**Resource cleanup** (`core/resource_cleanup.py`), **native reader**
(`watcher_ingress_linux.py`). *State*: who owns which descriptor number, the
release evidence, leases; reader, closer and native lock. *Hard*: the outcome of
a close is unknown and the number may already be somebody else's. *Correct when*
no foreign number is touched and nothing open is forgotten.

**Scoped budgets, federation, queries, hygiene** (`scoped_budget.py`,
`_scoped_federation.py`, `_scoped_vault.py`, `knowledge_query.py`,
`knowledge_hygiene.py`, `duplicate_candidates.py`). *State*: request-local
counters, rows, coverage; the locals of a scan. *Hard*: notes change between
discovery, evaluation and verification; a budget ends anywhere. *Correct when*
what is claimed about absence, completeness and matches held.

**Verified reads, spaces' bindings, links, chunks** (`vault.py`,
`knowledge_spaces.py`, `_scoped_links.py`, `wikilinks.py`, `markdown_links.py`,
`semantic_search.py`). *Hard*: ancestors that are swapped during a lookup;
configurations in which links or double mounts let two spaces meet; two parsers
that must agree; offsets at the chunk limit.

**Rate limiter** (`rate_limiter.py`) and **read transport**
(`read_execution.py`, `mcp_read_input.py`). *Hard*: the clock is read before the
lock; a disconnect arrives before the read is enrolled. *Correct when* windows
hold, and a read never silently outlives its request.

### Not modelled

| Component | Why |
|---|---|
| Ranking, duplicate scores | vector arithmetic and ordering a test enumerates |
| Front matter | a parser of a subset of YAML, character by character: a faithful model is as long as the code |
| `create_note`, listing, literal search | an existence check and a write under the lock of `NoteAppend`; loops over entries |
| Space registry, owners | construction; no state that changes afterwards |
| Markdown composition of captures | string formatting around `CreateIfAbsent` and `NoteAppend` |
| HTTP, MCP, command line adapters | validation and serialization; start and stop order is in `BackgroundIndexer` and `FilesystemWatcher` |
| Dashboard, its session | a stateless signed token and static assets |
| Configuration, logging, observability | read once, or output only |
| Packaging, scripts, evaluation | not part of the running system |

## 2. Modules

| Module | Stands for | Checked by |
|---|---|---|
| `MarkdownIndex` | abstract promise: rows only move forward, never past the note, and only while serving | refined by `BackgroundIndexer` |
| `BackgroundIndexer` | `indexer.py` | `MCBackgroundIndexer`, `BackgroundIndexer_proof` |
| `FilesystemWatcher` | `filesystem_watcher.py` and the stop order of `lifespan` | `MCFilesystemWatcher`, `FilesystemWatcher_proof` |
| `EmbeddingResource` | `semantic_resources.py` | `MCEmbeddingResource`, `EmbeddingResource_proof` |
| `SemanticScheduler` | `semantic_scheduler.py` without coverage revisions | `MCSemanticScheduler`, `SemanticScheduler_proof` |
| `SpaceRuntime` | `space_admission.py`, `space_runtime.py` lifecycle | `MCOperations`, `SpaceRuntime_proof` |
| `CreateIfAbsent` | the two create-if-absent commits | `MCCreateIfAbsent`, `Notes_proof` |
| `NoteAppend` | the two appends | `MCReads`, `MCNoteAppend`, `Requests_proof` |
| `WatcherCoverage` | ingress, shared watcher, coverage evidence | `MCIndexing`, `SemanticIndex_proof` |
| `SyncOwner` | begin_sync, sync_step, cancel_sync, close_synchronization, restart | `MCIndexing`, `SemanticIndex_proof` |
| `SemanticStore` | writable connections over a file that is swapped | `MCIndexing`, `SemanticIndex_proof` |
| `IndexReaders` | searches beside synchronization and model generations | `MCIndexing`, `SemanticIndex_proof` |
| `IndexStatus` | health, probe, inspections | `MCIndexing`, `SemanticIndex_proof` |
| `DescriptorCleanup` | descriptors and handles of `resource_cleanup.py` | `MCReads`, `Requests_proof` |
| `ConnectionLeases` | its leases and SQLite connections | `MCReads`, `Requests_proof` |
| `NativeReader` | native half of `watcher_ingress_linux.py` | `MCReads`, `Requests_proof` |
| `ScopedBudget`, `ScopedFederation` | budgets and federated reads | `MCReads`, `Requests_proof` |
| `HygieneScan` | hygiene scan | `MCReads`, `Requests_proof` |
| `QueryEvaluation` | both query evaluators | `MCReads`, `Notes_proof` |
| `NoteAccess` | verified reads and targeted absence | `MCReads`, `Requests_proof` |
| `SpaceBindings` | binding and separation of spaces at startup | `MCOperations` |
| `LinkRecognition` | eager and bounded link recognizers | `MCReads` |
| `Chunking` (`ChunkLines`: its inputs) | from a note to its chunks | `MCReads`, `MCChunking` |
| `RateLimiter` | `rate_limiter.py` | `MCOperations`, `SpaceRuntime_proof` |
| `ReadTransport` | `read_execution.py`, `mcp_read_input.py` | `MCReads`, `Requests_proof` |
| `ScopedPromotion` | review, decision, application | `MCOperations`, `Requests_proof` |

One convention runs through all of them: *a block under a lock or condition is
one action, and so is one call that leaves the process (a system call, a backend
call, a component's step)*. Between two actions any other thread may act. A
`wait` loop is a program place whose continuation is enabled when the loop would
end; a wait with a time-out that only re-tests is a stuttering step. Local
variables that live across a block are variables of the model. Ghost variables
(`dirty`, `accepted`, `owed`, `covered`, `trig`, `failedTurn`, `ahead`, `held` of
the runtime, `touched`, `linked`, `wrote`, `proved`, `committed`, `misclosed`,
`past`, `truth`, `truly`, `destroyed`, `seen` of a report, `answered`) record
history for the properties; no guard of the code's actions reads them.
Definitions commented "Mutant" change one definition as a plausible bug would;
`PROJECT.json` pairs them with the property that must then fail.

### How state and actions correspond

* **BackgroundIndexer.** `pending`, `fullRequested`, `fullRequired`, `followUp`,
  `closed`, `cancel`, `lastError` are the fields of the class. `future` and
  `callback` describe the one Future in `self._future`; completion of any older
  one is a stutter by the code's identity test. `_run` is `RunBegins`, a claim
  (`ClaimFull`, `ClaimTargeted`, `ClaimNothing`), reads (`ReadNote`), commits
  (`CommitBatch`) and `JobSucceeds` or `JobFails`; the two synchronization
  callables are abstracted to reading versions and committing them in
  transactions. `unqueued` holds notes a writer has committed but not enqueued.
  `Restart` loses everything but `vault` and `index`.
* **FilesystemWatcher.** `TakeEvent`, `Look`, `Verify`, `Submit` are one event in
  the observer thread: `exists()` and the containment check look at the disk at
  different moments, and the second follows links: what is submitted is the
  canonical name of the note, `leads[p]`. `PopReady`/`PopAll`, `Sleep`, `WakeUp`, `Dispatch` are the
  dispatcher. `phase` is where `lifespan` stands.
* **EmbeddingResource.** `pins` is the counter as the set of pinning threads,
  `busy` the lease, the remaining flags are the fields. `Reserve` is
  `_reserve_cleanup`, which `Unpin`, `Invalidate` and `Close` call.
* **SemanticScheduler.** `turn` is the place inside `_turn`; `Claim`, `Begin`,
  `Yields`/`Completes`/`Fails`, `EndTurn` are its locked blocks. The debounce
  revision is compared only with a value read a moment before, so `crossed` says
  whether it moved. Space ids are numbers: their sorting order.
* **SpaceRuntime.** `pc` follows an operation through `operation()`, `lc` an
  administrator through `start()` or `shutdown()`, including the `shutdown()`
  that a failing `start()` calls (`rollback`).
* **CreateIfAbsent.** `entry` is what the canonical path names, `disk` what would
  be there after a power loss, `File.safe` whether the bytes were forced.
  `recovers` chooses between the capture and the promotion, which looks once more
  at an uncertain outcome. `moved` says that the pinned directory is no longer
  the canonical one.
* **NoteAppend.** The text is a base revision and a count of whole and torn
  blocks per key; `fd` is the inode opened for appending. `keyOf` is each
  caller's request, a promotion or a dedupe key, and `writer` who holds the write
  lock.
* **WatcherCoverage.** A kernel record is a letter of `stream`; `ReadBatch` takes
  the batch one native read returns, the `Parse...` actions are the branches of
  the parser, `OpenGap`, `ParseFence`, `Restore...` and `FinishBatch` the life of a
  gap. `PutEvent` and `ReportLoss` are the bounded queue and the callback that
  runs after it is unlocked; `Reconciles` is the scheduler's test whether a full
  turn began under the evidence it is asked to certify.
* **SyncOwner.** `store` is what SQLite has committed, `memory` the owner's fields,
  `work` the continuation; `worker.at` walks through `begin_sync` and `sync_step`,
  one committed transaction per action. `Recovered` is the decision about a stored
  state at startup.
* **SemanticStore.** `files` are inodes, `path` which of them the database path
  names; `Preflight`, `OpenFile`, `BeginWrite`, `CommitWrite` are the four
  validations, `Accepts` the namespace rule they share.
* **IndexReaders.** A model is the fingerprint of its artifacts; `resource` counts
  pins of a generation, `query` holds the locals of one search at each of its
  places (evidence, embedding, snapshot, comparison, candidates, scores).
* **IndexStatus.** A live read takes `stored` at once; an immutable one takes
  `pages` one after another. `SidecarsQuiet` is the test before and after it.
* **DescriptorCleanup.** `table` is the process's descriptor table, in which
  `Elsewhere` takes any free number at any time; `MayClose` is the release
  evidence. **ConnectionLeases**: each lease registry per slot, `drained` marks a
  drain that returned. **NativeReader**: `slot` per native resource, the reader's
  and the closer's places, the native lock.
* **ScopedBudget.** One variable per counter, the total and the reservations among
  them (`CountersAgree` is what the code relies on). **ScopedFederation**: `phase`, `cur`
  and `todo` are the loops over spaces and notes; a note is its identity.
* **HygieneScan, QueryEvaluation.** `scan` and `eval` are records of the call's local
  variables; every look at a note is an action. `states` is what a note was when the
  evaluation looked at it, `edges` the links of the notes derived so far, and `todo` the
  rest of a worklist, which is crossed off in canonical order (`First`).
* **NoteAccess.** Path resolution is taken apart into its lookups; every entry and
  ancestor may be swapped between two.
* **SpaceBindings.** A startup over every file system and configuration of the
  constants; `stage` follows the order of the checks. Equal inode numbers are one
  directory mounted twice; what is below it is then below both of its paths.
* **LinkRecognition, Chunking.** The eager recognizer and the reference meaning are
  operators (folds); the bounded recognizer and the passes of the chunker are the
  actions. A slice is a pair of offsets because the code only ever slices.
* **RateLimiter.** `reading` is the clock value a thread brought to the lock. The
  ordered table is the set of its windows, each with the number of the answer that
  used it last; `_make_capacity` drops the one whose number is smallest.
* **ReadTransport.** Control changes hands at awaits only, so an action runs from
  one await to the next; the read's thread is the only concurrency.
* **ScopedPromotion.** `holds` is what the caller keeps between calls, `call` its
  current call's locals, `busy` that an operation is admitted, `asked` the calls
  made; decisions compare revisions. Under the writers' lock an application is
  `ChecksSource`, `ChecksDestination` (what it reads is `text` and `file` of the
  call), `Writes` or `WritesNothing`, `Confirms` and, if that fails, `Recovers`;
  users may save between any two of them. A block is whole or torn.

## 3. Runs

Runs with a liveness property use no symmetry.

| Run | Instance | What it shows |
|---|---|---|
| `indexer` | 2 notes, 2 writes each, 1 process death | `WritesAccounted` (types, `NoLostWrite`, `NoSilentStall`), refinement `IndexPromise`, liveness `Converges`, `ComesToRest` |
| `watcher` | 2 names, 3 changes, debounce 1, clock 2 | `ChangesAccounted` (`NoOverlookedChange`, `CleanStop`), liveness `AcceptedIsDispatched` |
| `embedding` | 3 threads, 3 releases | `GenerationsSeparated` (`PinnedGenerationStable`, `ReleaseExclusive`, `FailedModelNotReused`), liveness `DrainTerminates` |
| `scheduler_safety` | 1 owner, 3 paths, both limits 2 | `Accounted` (types, `ReservationsCounted`), `NothingForgotten` (targets, triggers, shutdown) |
| `scheduler_sharing` | 2 owners, 1 path, both limits 1, no watcher | `ServedInTurn`, liveness `WorkerProgresses` (`EveryOwnerServed`, `WorkerDrains`) |
| `operations` | see below | `ShutsDownSafely` (`ClosedAfterUse`, `StoppedIsComplete`, `OpenMeansRunning`), `CommittedIsReported`, `PromotedAsDecided`, `SpacesApart`, `RateHolds` |
| `runtime_liveness` | 2 operations, 2 administrators | `ShutdownTerminates` |
| `create_if_absent` | 2 calls, 2 tries each, 1 edit or move, 1 crash | `AnswersHonest` (`NeverPartial`, refused means unwritten, success means present, `CreatedIsDurable`), `NeverReplaces`, liveness `EveryCallReturns` |
| `indexing` | see below | `CoverageHonest`, `StoredStateHonest`, `ClosedMeansQuiet`, `NamespaceKept`, `OneModelPerAnswer`, `ReportsHonest` |
| `reads` | see below | thirteen properties of the components a request passes through |
| `append_retry_after_failure` | 2 calls of one dedupe key, 1 failure | a **violation** of `AppendedAtMostOnce`, see section 6 |
| `chunk_limit` | texts of up to 4 lines, limit 8 | a **violation** of `WithinLimit`, see section 6 |

**`indexing`, `reads` and `operations` are harnesses.** `MCIndexing`, `MCReads` and
`MCOperations` hold components that share no state. `part` is chosen in the
initial state and names the one component that moves; the others rest in one
initial state. The components with proofs are extended, so that the run checks the
very definitions the theorems are about; the others are instances, which find their
variables under `v1`, `v2`, ..., and their invariants read `part = "x" => X!Inv`. So
the run is exactly the disjoint union of the components' state graphs, and TLC
explores them one after the other. It is a way to list several small models in one
run and claims nothing about their composition.

Bounds of the three, and the case each is there for:

* `coverage`: kernel queue 1 and event queue 1 (both overflow at once), two
  incidents, two watcher generations (a gap inherited from the first), three of
  them together (`MaxIncidentsAndWatchers`).
* `synchronization`: two notes, batches of one (a death between two), two vault
  changes, one restart, two of them together (`MaxDisturbances`).
* `store`: two repositories of different spaces, two files, two interventions
  (swapped away and put back).
* `readers`: one search, two notes, two releases of the model, two runs.
* `status`: two commits (one checkpointed under a reader), one file move, one report;
  two commits and moves together (`MaxCommitsAndMoves`).
* `budget`: two spaces, two credits of two probes, a ceiling one probe short of
  everything; `cleanup`: three numbers, the code's eight looks; `leases`: three
  connections; `native`: one batch, two closes, two descriptors in doubt at a time
  (`MaxInDoubt`).
* `federation`: two spaces of two notes, one change, one ceiling that ends a
  discovery and one that ends in bytes and paths; `hygiene`: three spellings, of
  which one at first is a note in a directory and at most one an alias
  (`ScannedVaults`), ceilings of two, one edit; `query`: three notes, three texts, ten
  requests, one edit; the note outside the folder links to both others at first
  (`LastNoteLinked`); `access`: two edits of the tree during one access. Two
  directories that are alike are found in one order only (`FirstFound`), which is
  a symmetry of the model, and only the first holds a note before the edits.
* `links`: every text of up to three of 21 pieces of Markdown; `chunks`: every note of
  up to three lines of the shapes in `ChunkLines`, and of four when they differ or
  begin with front matter (`VariedNote`), with the code's limits (600, 80, 20) scaled
  to 8, 3 and 1.
* `transport`: three body parts, two cancellations; `appends`: two calls with two
  tries each, one edit, two failures.
* `runtime`: three operations, two administrators, a queue of one, a shutdown
  each; `promotion`: one caller with five calls, one edit, two startups, of which
  the first has a policy that allows everything; the note promoted into exists at
  first or not.
* `spaces`: 360 file systems, each with every two-space configuration of
  `MCOperations`. The unscoped settings name the paths of its default space; one
  plain configuration meets all of them (`Related`). `limiter`: two threads, two
  clients, a table of one, windows of two seconds and two requests, four checks.

Why the other bounds are enough to be interesting. Two notes let a job commit one
while the other is being rewritten; two writes give a version read and overtaken.
Three filesystem changes allow a rename whose target is then deleted, made unsafe
or replaced by a link between the two looks; with a debounce of one tick a name
can be due while another, touched a tick later, is not. Three threads are one inside, one draining and one
arriving. Three paths and two reservations reach the limit with all three
stages in use; two owners with one reservation let each starve the other. Three
operations are one active, one waiting, one refused. Two retried calls and an
edit between the steps of either cover a note replaced under its reader, and a crash may
fall on any step; the bounds that several sources of disturbance share keep a run to
about a minute, and what they leave out the proofs of those components cover. Bounds are
constants named `Max...` (and `LastSecond`) that appear only in guards of the
environment, except those that are the code's own limits made small
(`MaxWaiting`, `GlobalLimit`, `SpaceLimit`, `KernelLimit`, `EventLimit`,
`IndexBatch`, `CreditSize`, `ProbeCeiling`, `ChunkChars`, `MaxClients`, ...).
`CHECK_DEADLOCK FALSE` stands where the environment may run out of changes; the
scheduler and the embedding resource, where something can always happen, are
checked for deadlock.

## 4. Fairness

Only what a thread scheduler and returning calls give:

* *Indexer*: a writer that has committed goes on to enqueue (`note_writes.py` does
  both in one function), the executor, its callback, and `shutdown()` go on,
  lifespan calls `start()`. Nothing obliges a job to succeed: `Converges`
  assumes instead that failures stop, and excuses an executor that refuses work.
* *Watcher*: time passes, the observer and the dispatcher run.
* *Embedding*: backend calls return; a pipeline does not call for ever, so it
  eventually unpins (strong fairness of `Unpin`: between calls a thread is
  repeatedly, not continuously, able to leave).
* *Scheduler*: the worker and `_close_owners` run; no trigger need ever come.
* *Runtime*: bodies of operations return, components' start and stop return or
  raise.
* *CreateIfAbsent*: a call that has begun is scheduled and its system calls return.
  User edits, crashes and further tries are never fair.

The components of `indexing` and `reads`, and all but the runtime of `operations`,
are checked for safety only and state no fairness.

## 5. Proofs

Each `_proof` module extends its component, or several of them, and proves, for all
constants that satisfy the components' assumptions, an inductive invariant and from it
the properties. The assumptions say that bounds are naturals, that sets of operations
or notes are finite, and that a value standing for nobody or nothing is not somebody
or something: `CleanupAssumption` (`Unknown` is no number, a credit pays for the
code's eight looks), `TransportAssumption`, `PromotionAssumption` (`Missing` is no
workflow), `AppendAssumption` (`NoCall` is no call), `NamesApart`, `ReadersAssumption`
("sync" is no query), `HygieneAssumption` (positions are naturals, "none" is no path),
`QueryAssumption` (finitely many notes, places in canonical order are naturals, a
relation names a note or the path that leads out), `RateAssumption` (there is a
client, and the limits are positive, as the constructor demands), `BudgetAssumption`
and `FederationAssumption` (finitely many spaces and credits, at least one space,
ceilings that are naturals) and their like. TLC evaluates each of them.

* **BackgroundIndexer_proof.** `NoLostWrite` is not inductive: while a full job runs
  the queue is empty and only its worklist remembers the notes. `IndInv` adds
  `FullCovers` (a full job covers every stale note), `JobShape` (a targeted job
  reads only what it could give back; callbacks belong to finished futures),
  `VersionOrder` (a row <= version read <= note) and `StoppedShape`. Theorems:
  `TypeCorrect`, `Inductive`, `NoWriteIsLost`, `NeverStallsSilently`,
  `CancellationSticks`, and `ImplementsPromise`: each step maps to a step or a
  stutter of `MarkdownIndex`, whose `VersionOrder` is what makes a commit move
  forward only.
* **FilesystemWatcher_proof.** `NoOverlookedChange` depends on where a name is
  (event, being looked at, queue, in hand, dispatched), `CleanStop` on the order
  of lifespan's steps. `WatcherInv` adds `ThreadShape`, `PhaseShape`,
  `QueueShape` (deadline = last submission + debounce), `ObserverShape` (a name
  found live and now absent has another event coming), `LinkShape` (links have one
  step), `BatchTogether` (names whose last accepted event is the same leave the
  queue together) and `NoOversleep`.
  Theorems: `Inductive`, `NothingOverlooked`, `StopIsClean`,
  `BatchesStayTogether`, `QuietBeforeDispatch`.
* **EmbeddingResource_proof.** `ResourceInv` adds `FlagsMatchThreads`: the flags are
  exactly what the places of the threads say, and a generation that failed is
  behind a barrier. Theorems: `Inductive`, `PinsAreStable`,
  `ReleasesAreExclusive`, `CloseIsFinal`, `FailedModelsAreNotReused`.
* **SpaceRuntime_proof.** `RuntimeInv` adds who holds the lifecycle lock
  (`LifecycleHeld`), what the state implies (`StateFollows`), that fences precede
  stops (`FencedFirst`), that a shutdown without error skipped nothing
  (`NothingSkipped`), that closed owners have no operations left
  (`ClosedForGood`) and that the token's flag covers the commit
  (`CommitFlagged`). The number of waiters is a cardinality, hence the finite-set
  lemmas. Theorems: `Inductive`, `OneOperationAtATime`,
  `NothingClosedUnderUser`, `StoppedCompletely`, `OpenOverRunningParts`,
  `CommitsAreReported`. `RateHolds` speaks of all the answers there ever were, so
  `RateInv` says what the table knows of them (`WindowKnown`: a window's count is the
  number of checks it allowed, and whoever it refused was told to wait for its end),
  that answers and windows are numbered by the answers before them (`Numbered`: a
  window that is opened has answered nobody), and that windows that have left the
  table keep their promises (`AnswersHold`). That the least recently used window is
  one of the table's is the well-founded order of the naturals (`RoomForOne`).
  Theorems: `RateInvariance`, `WaitingAsToldSuffices`.
* **SemanticScheduler_proof.** `Inductive` is the conjunction of `Turns` (the owner of
  the turn runs, and shutdown passes come after the last turn), `Stages` (in flight
  only with a job), `Counted`, `Debts` (full debt outlives the job that does not
  pay it), `Wakeups` and `InOrder` (who was served since an owner began to wait lies
  between it and the last one served). The shared counter is the cardinality of a
  set of pairs: the finiteness of that set is carried by the invariant, so neither
  the spaces nor the paths need be finite, and the lemmas `CountGrows` and `CountShrinks`
  count by pairs.
  Theorems: `Accounting`, `NothingIsForgotten`, `RoundRobin`.
* **Notes_proof** holds the creation of a note and the queries over notes.
  *CreateIfAbsent.* `LockHeld`, `Complete` (only a synced file is linked),
  `Answered` (after the link every failure is an uncertain one), `Seen` and `Durable`
  (what was confirmed is on the disk until a user acts). Theorems:
  `AnswersAreHonest`, `NothingIsReplaced`.
  *QueryEvaluation.* `QueryInv` has three parts. `TruthInv` is why a match was right:
  what the evaluation knows of a note, the note was (`Remembered`); the links a
  candidate is judged by are those of the one text it is judged by (`OneTextEach`), of
  which the live evaluator's memory of first reads is the reason; and what has been
  found eligible or matched satisfies the request over the texts there were
  (`JudgedWell`). `TargetsInside`: nothing is judged for a request whose links lead out
  of the vault. `CompleteInv` is why nothing is lost over notes nobody edited: at each place of
  `eval.at` every note that fits is still on the worklist or has been kept
  (`LiveComplete`), and a scoped evaluation that has given no reason knows every note
  (`ScopedComplete`), the links of each it has looked at among them
  (`InspectionGathers`). That a worklist has a first note needs `LeastNat` (below).
  Theorem: `QueryAnswersAreTrue`.
* **SemanticIndex_proof** holds the five components of the index.
  *SyncOwner.* That a ready store owes nothing unknown rests on what a scan
  has established so far, which is spread over the continuation, the rows and the
  history. `SyncInv` adds `MemoryMatches` (who offers search has read the model of
  the rows), `CompleteKnown` (after a completed full scan only later changes and
  unreadable notes are owed), `WorkShape`, `FullScanKnows` (`ScanKnows` says, phase by
  phase, what holds of a note that has not changed since the scan began) and
  `ClosedIdle`. `BatchInOrder` is why a batch of rows leaves nothing behind it.
  Theorems: `StoredStateIsHonest`, `ClosedIsQuiet`.
  *SemanticStore.* `StoreInv` adds `RowsOwn`, `DestroyedEmpty` and `AttemptKnown`: an
  attempt that writes holds the lock of a file that is its own empty one or that it
  may accept. Theorem: `NamespaceIsKept`.
  *WatcherCoverage.* A change that was missed must be owed to a reconciliation the
  evidence does not claim yet (`MissedIsOwed`). That needs the order of the evidence
  (`EvidenceOrdered`, `SnapshotDated`, `CoverageDated`), the shape of a batch and of
  a gap (`BatchShape`, `WatcherPhases`), and that a directory without a watch is on
  its way to one (`DirectoriesSeen`, `SomebodyReads`). Theorem: `CoverageIsHonest`.
  *IndexReaders.* `InsidePinned` (whoever works has pinned the generation), `OwnerKnows`
  (what the owner remembers is about the model loaded), `RunKnows`, `SearchKnows`
  (rows and query vector agree place by place). Theorem: `AnswersAreOfOneModel`.
  *IndexStatus.* `StoredSound` (a stored state that says ready stands on a complete
  index of its signature), `LiveSound` and `ImmutableSound` (what a read in progress
  has seen was true when it saw it). Theorem: `ReportsAreHonest`.
* **Requests_proof** holds components that single requests pass through.
  *ConnectionLeases.* `SlotKnown` relates what is open in a slot to both its
  registries, and `DrainedIsEmpty`; every step is a step at one slot (`OneSlot`) or a
  drain over all. Theorem: `ConnectionsAreAccounted`.
  *DescriptorCleanup.* `OpenIsKnown`, `CloseableIsOpen` (evidence that permits a close
  means the number is still ours), `DisposalInOrder`, `LooksBounded`. Theorem:
  `DescriptorsAreAccounted`.
  *ReadTransport.* `BodyInOrder`, `ReadTold`, `ReadOwned`. Theorem: `ReadsAreDrained`.
  *NativeReader.* `SlotsTrue`, `NotYet`, `Equipped`, `PhasesAgree`, `PollsItsOwn`,
  `ClosedIsDone`. Theorem: `NativeIsAccounted`.
  *ScopedPromotion.* `AloneInside`, `Dated`, `AppliesOwn`: an application presents a
  decision of its own startup. `AttemptKnown`: what it read of the note is what was
  decided about, and until it has written in full nothing of the decision is in the
  note (`Unwritten`), which is why a recovered block is its own. `WroteDecided` and
  `Told`: what it wrote was decided about, and what it answers is true of it. Theorem:
  `PromotionIsDecided`, for every policy.
  *NoteAppend.* `Holds`, `InStep`, `Deserved`, `ReadAsReviewed`, `Unrepeated`, `Sees`:
  whoever is about to write found no block to repeat, and nobody has put it there
  since. Theorems: `AppendsAreHonest`, `OnlyReviewedTextIsAppendedTo`.
  *NoteAccess.* `HeldWasThere`, `FactWasThere` (what the call was told of the tree is in
  its history), `ReadInOrder` (a version seen twice was there in between) and
  `WalkKnows`: as long as the root's stamp is the one first looked at, no entry above
  the note has changed kind, so the end of the walk saw an ordinary absence; once the
  first recheck has passed, that absence is history. Theorem: `ReadsAreTruthful`.
  *HygieneScan.* A scan is judged by the vault as it stood when the enumeration ended,
  and `StandsAsThen` is what ties the two: whatever is put in a place later bears a
  later stamp, so a fact that still holds is about the entry of then. From it follow
  `FactsKnown` and `CandsKnown`, `ReadsKnown` (what was read is the text of then; a note
  that is not live has given a reason) and `LooksKnown` and `BornKnown` (a walk without
  a reason kept all it met, and met every note that existed all along). `DerivedKnown`:
  without a reason every link of a note that was derived is an edge (`LinkKept`), which
  is why a note without edges was isolated then (`EdgesComplete`, `ClaimsTrue`). That
  notes are taken in canonical order needs a least element of every set of positions:
  `LeastNat`, the least-number principle stated of sets and got from the well-founded
  order of the naturals. Theorem: `AbsenceIsProved`.
  *Sums.* A budget is a sum over its spaces, and the community modules' sum is a fold by
  `CHOOSE`. `SumExists` shows that the recursion has a solution on every finite set, by
  `LeastNat` on cardinalities, and from it come the laws the budgets need: a summand can
  be taken out (`SumTakesOut`), one changed summand changes the sum by the difference
  (`SumChanges`), a bound of the summands bounds the sum (`SumBounded`).
  *ScopedBudget.* `WithinCeilings` counts what is set aside as if it were spent, in each
  space and in total; that is what lets `CleanupProbe` charge after it has given its
  reservation back. `CountersAgree` ties each counter to the sum of its parts, so that a
  reserved total of one is somebody's (`LedgerMoves`). Theorem: `CleanupIsPaid`.
  *ScopedFederation.* `RemainingIsOwn`: equal shares never exceed the ceiling, so the
  minimum in `remaining` is the space's own share. `RowKnown` says, for each place the
  reader can be at, which untouched notes of a space must have been found and which must
  be candidates as long as no reason has been given; after the first loop a row stands
  for its space alone (`Settled`). Theorem: `CoverageIsHonest`.

Each module closes a component with the invariant or action property its run
checks, as one theorem about that very definition (in the first four
`WritesAreAccounted`, `ChangesAreAccounted`, `GenerationsAreSeparated`,
`ShutdownIsSafe`). What TLC finds on the small instance holds for every value of
the constants.

Only model-checked: every liveness property (fairness and ENABLED are outside the
prover's reach); `SameLinks` and `NothingLost` (recursive folds over a text, that
is, induction over data, is too); and `SpacesApart` (a recursive resolution of paths
through links).

## 6. Findings

**A retried append may repeat its content.** `action_openapi.yaml:65` describes
`dedupe_key` as an "Optional stable identifier for this append to prevent
duplicate retries". `append_note` (`services/vault.py:1235`) writes the content
and then the marker in one buffered append. If only a prefix reaches the file,
because the disk is full or the process dies, the content is in the note without
its marker, and the retry with the same key appends it again.
`append_retry_after_failure` shows the trace; `AppendsHonest` shows what does
hold, that content *with* marker appears once. `append_promotion_once` is not
affected: its marker comes first.

**A chunk may exceed its limit by one.** `_choose_split_boundary`
(`services/semantic_search.py:1536`) moves a cut that would fall between a
carriage return and its line feed behind both. With the carriage return in the
last place before the limit the chunk is one character too long, which
`tests/test_semantic_search_service.py:1376` asserts never happens. `chunk_limit`
shows such a text; `NothingLost` shows the rest of the contract, at most one too many.

## 7. What the models leave out

* Authorization checks that only raise, argument validation; in the older modules
  path containment (only names that pass the lexical filters are modelled).
* Vectors, SQL text, scanners of single characters where no property is about them.
  Notes are versions, revisions or shapes; hashes are equality.
* `EmbeddingResource`: nested pins of one thread, which are thread-local.
* `DescriptorCleanup`: a Windows handle may need a ninth look, one more than are set
  aside; the promise about looks is stated for descriptors. One lease at a time.
* `WatcherCoverage`: the event and incident queues are one; an emitter that dies is
  noticed at the next root check; the Windows producer is out; pausing is in
  `SemanticScheduler`.
* `SyncOwner`: equal modification time and size mean an unchanged note, and an
  unreadable note is skipped, as in the code; the property excuses both.
* `SemanticStore`: an identity check is one step with the system call beside it
  (connect, commit, unlink), so a swap in that very gap is out; an empty file left by a crash during creation is refused until
  the operator removes it; that this needs the operator is the code's choice.
* `IndexReaders`: files of one generation are hashed and loaded as the same files;
  the single-vault service pins no generation and is out.
* `IndexStatus`: one writing service; an immutable read relies on the sidecar test.
* `FilesystemWatcher`: links of one step, and names that pass the lexical filters. The
  code submits only the canonical name of what is there now: a note that was replaced
  by a link to another one is submitted as that other one (`services/vault.py:396`), and
  that its own rows are gone the index learns at its next full synchronization.
  `NoOverlookedChange` promises no more.
* `ScopedPromotion`: one space; duplicate evidence and `scoped_capture` are out. The
  steps inside the link of a created note are in `CreateIfAbsent`.
* `QueryEvaluation`: the single-vault query passes over notes it cannot read, and
  the property claims completeness only over notes nobody edited.
* `NoteAccess`: the owned read promises a directory that *was* at the path; an
  in-place edit can tear what a promotion reads, which its digest then refuses.
* `SpaceBindings`: the code compares by identity only the roots and the data
  directories themselves (`services/knowledge_spaces.py:594`; ADR 0009 "does not claim
  inode identity"). Where `b` is a second mount of `a`, the roots `a/n` and `b` are
  accepted although `b/n` is `a/n`: the runs contain such trees, and `SpacesApart`
  excuses a directory two spaces share where something above or below their roots is
  mounted twice. Directories without such a mount are promised to be apart, and roots
  and indexes always by the paths and identities the code compares. Spellings that
  differ only in case are not among the file systems tried.
* `RateLimiter`: with readings out of order the advice to retry may be longer than
  the window; the property asks only that waiting as told suffices.
* `ReadTransport`: the REST route, whose disconnect test is the framework's, and the
  teardown of the event loop. A second cancellation of the task leaves the read's
  thread running, told to stop; the property says so.
* Weak spots without a property: waiters of the admission may be overtaken without
  bound (`services/space_admission.py:77`, the code promises no order); a second
  concurrent `shutdown()` of the indexer returns before the first
  (`services/indexer.py:261`, called once by `main.py`); `create_note` writes in
  place (`services/vault.py:1212`).

## 8. What is left

1. Proofs. `LeastNat` is induction over the naturals without an operator parameter:
   what it gave for sums over a finite set it may give for the folds of
   `LinkRecognition` and `Chunking`, once they are stated by position in the text.
2. Compositions: the watcher with the indexer (a change made while the observer
   runs is eventually in the index); `WatcherCoverage` with `SyncOwner` in place of
   its one-step full turn.
3. `create_note` beside the appends; federated relationship predicates.

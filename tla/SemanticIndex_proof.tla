-------------------------- MODULE SemanticIndex_proof --------------------------
(***************************************************************************)
(* Proofs about the components of the semantic index.                      *)
(*                                                                         *)
(* SyncOwner, for any set of notes, any size of batches and any number of  *)
(* changes and restarts: a store that says "ready" knows what it owes, and *)
(* after close nothing is committed.                                       *)
(*                                                                         *)
(* SemanticStore, for any number of repositories, files and interventions: *)
(* rows are stored only in a file of their own space, and a repository     *)
(* removes only a file it created and nobody wrote to.                     *)
(*                                                                         *)
(* WatcherCoverage, whatever the limits of the queues and the number of    *)
(* changes, failures and watchers: while the evidence of a space asks for  *)
(* no full synchronization, no change of a note has been missed.           *)
(*                                                                         *)
(* IndexReaders, for any number of searches, notes, releases of the model  *)
(* and synchronizations: one answer compares vectors of one model.         *)
(*                                                                         *)
(* IndexStatus, for any number of transactions, interventions and reports: *)
(* what a report claims was true at a moment of its reading.               *)
(***************************************************************************)
EXTENDS SyncOwner, SemanticStore, WatcherCoverage, IndexReaders, IndexStatus, FiniteSetTheorems,
        SequenceTheorems, TLAPS

-----------------------------------------------------------------------------
(* SyncOwner: the synchronization of one space.                            *)

Models == 1..2
Rows == {"none", "current", "old"}
StoredStates == {"none", "uninitialized", "ready", "indexing", "error"}
WorkerPlaces == {"idle", "disposing", "resetting", "preparing", "reserving", "stepping"}
Phases == {"none", "discover", "targets", "process", "stale", "finish", "disposed"}
Handles == {"none", "incomplete", "failed", "cancelled"}

Works == [full : BOOLEAN, phase : Phases, seen : SUBSET SyncNotes, gone : SUBSET SyncNotes,
          todo : SUBSET SyncNotes, handle : Handles]
Workers == [at : WorkerPlaces, full : BOOLEAN, rebuild : BOOLEAN, paths : SUBSET SyncNotes]
Histories == [changes : Nat, restarts : Nat, late : SUBSET SyncNotes, since : SUBSET SyncNotes,
              skipped : SUBSET SyncNotes, complete : BOOLEAN]

SyncTyped ==
    /\ present \in SUBSET SyncNotes
    /\ store \in [row : [SyncNotes -> Rows], state : StoredStates, model : Models]
    /\ memory \in [model : Models, initialized : BOOLEAN, available : BOOLEAN, required : BOOLEAN]
    /\ work \in Works
    /\ worker \in Workers
    /\ closer \in {"none", "draining", "closed"}
    /\ past \in Histories

(* Whoever searches has read the model of the rows, and rows without a state
   do not exist. *)
MemoryMatches ==
    /\ memory.initialized \/ memory.available => store.model = memory.model
    /\ store.state = "none" => \A n \in SyncNotes : store.row[n] = "none"
    /\ worker.at = "reserving" \/ work.handle = "incomplete" => memory.initialized
    /\ work.handle = "incomplete" => store.state # "none"

(* What is offered stands on a completed full scan, and after one only later
   changes and unreadable notes are owed. *)
CompleteKnown ==
    /\ past.since \subseteq past.late
    /\ store.state = "ready" \/ memory.available => past.complete
    /\ past.complete => \A n \in SyncNotes : Owed(n) => n \in past.late \cup past.skipped

(* The worker prepares only without work and steps only with it. *)
WorkShape ==
    /\ worker.at \in {"resetting", "preparing", "reserving"} => work.handle = "none"
    /\ worker.at = "stepping" => work.handle = "incomplete"
    /\ work.handle = "incomplete" =>
          IF work.full THEN work.phase \in {"discover", "process", "stale", "finish", "disposed"}
          ELSE work.phase \in {"targets", "process", "finish", "disposed"} /\ past.complete

(* What a full scan has established of a note that has not changed since. *)
ScanKnows(n) ==
    /\ work.phase = "discover" => (n \in work.seen <=> n \in present /\ n \notin work.todo)
    /\ work.phase # "discover" => (n \in work.seen <=> n \in present)
    /\ work.phase = "process" /\ n \in work.seen /\ n \notin work.todo =>
          store.row[n] = "current" \/ n \in past.skipped
    /\ work.phase \in {"stale", "finish", "disposed"} /\ n \in work.seen =>
          store.row[n] = "current" \/ n \in past.skipped
    /\ work.phase = "stale" /\ n \notin work.seen /\ n \notin work.todo => store.row[n] = "none"
    /\ work.phase \in {"finish", "disposed"} /\ n \notin work.seen => store.row[n] = "none"

FullScan == work.handle = "incomplete" /\ work.full
FullScanKnows == FullScan => \A n \in SyncNotes \ past.since : ScanKnows(n)

(* A closed owner has nothing left to step. *)
ClosedIdle == closer = "closed" => worker.at = "idle" /\ work.handle # "incomplete"

SyncInv == SyncTyped /\ MemoryMatches /\ CompleteKnown /\ WorkShape /\ FullScanKnows /\ ClosedIdle

-----------------------------------------------------------------------------
(* reconcile goes over the rows in their order: what a batch leaves behind has
   no row. *)
LEMMA BatchInOrder ==
    ASSUME SyncAssumption, NEW S \in SUBSET SyncNotes, NEW n \in S, NEW b \in FirstOf(S), n < b
    PROVE  n \in FirstOf(S)
<1> DEFINE before(x) == {t \in S : t < x}
<1>1. n \in Nat /\ b \in S /\ b \in Nat
  BY DEF SyncAssumption, FirstOf
<1>2. IsFiniteSet(before(b)) /\ before(n) \subseteq before(b)
  <2>1. IsFiniteSet(S)
    BY FS_Subset DEF SyncAssumption
  <2>2. IsFiniteSet(before(b))
    BY <2>1, FS_Subset
  <2>3. ASSUME NEW t \in before(n) PROVE t \in before(b)
    <3>1. t \in Nat
      BY DEF SyncAssumption
    <3> QED
      BY <1>1, <3>1
  <2> QED
    BY <2>2, <2>3
<1>3. Cardinality(before(n)) <= Cardinality(before(b)) /\ IsFiniteSet(before(n))
  BY <1>2, FS_Subset
<1>4. Cardinality(before(n)) \in Nat /\ Cardinality(before(b)) \in Nat /\ IndexBatch \in Nat
  BY <1>2, <1>3, FS_CardinalityType DEF SyncAssumption
<1>5. Cardinality(before(b)) < IndexBatch
  BY DEF FirstOf
<1>6. Cardinality(before(n)) < IndexBatch
  BY <1>3, <1>4, <1>5
<1> QED
  BY <1>6 DEF FirstOf

LEMMA SyncRestIsTyped == NoWork \in Works /\ IdleWorker \in Workers
<1>1. {} \in SUBSET SyncNotes
  OBVIOUS
<1> QED
  BY <1>1 DEF NoWork, IdleWorker, Works, Workers, Phases, Handles, WorkerPlaces

LEMMA BatchOfNotes == \A S : FirstOf(S) \subseteq S
BY DEF FirstOf

(* At startup nothing is known and nothing is claimed. *)
LEMMA SyncInitially == ASSUME SyncAssumption PROVE SyncInit => SyncInv
BY DEF SyncAssumption, SyncInit, SyncInv, SyncTyped, Works, Workers, Histories, MemoryMatches, CompleteKnown, WorkShape, FullScanKnows, FullScan,
       ClosedIdle, NoWork, FreshMemory, IdleWorker, Models, Rows, StoredStates, WorkerPlaces, Phases, Handles, Owed

-----------------------------------------------------------------------------
(* The vault changes. *)
LEMMA ChangeKeeps == ASSUME SyncInv, NEW m \in SyncNotes, ChangeNote(m) PROVE SyncInv'
<1> USE DEF SyncInv, ChangeNote
<1>1. SyncTyped'
  <2>1. present' \in SUBSET SyncNotes
    BY DEF SyncTyped, Works, Workers, Histories
  <2>2. store' \in [row : [SyncNotes -> Rows], state : StoredStates, model : Models]
    BY DEF SyncTyped, Works, Workers, Histories, Rows
  <2>3. past' \in Histories
    <3> DEFINE late == past.late \cup {m}
               since == past.since \cup {m}
               changes == past.changes + 1
    <3>1. past \in Histories /\ late \in SUBSET SyncNotes /\ since \in SUBSET SyncNotes /\ changes \in Nat
      BY DEF SyncTyped, Histories
    <3>2. past' = [past EXCEPT !.changes = changes, !.late = late, !.since = since]
      OBVIOUS
    <3> HIDE DEF SyncInv, ChangeNote, late, since, changes
    <3> QED
      BY <3>1, <3>2 DEF Histories
  <2> QED
    BY <2>1, <2>2, <2>3 DEF SyncTyped, Works, Workers, Histories
<1>2. store.row' = [store.row EXCEPT ![m] = IF @ = "none" THEN @ ELSE "old"] /\ store.state' = store.state
      /\ store.model' = store.model
  BY DEF SyncTyped, Works, Workers, Histories
<1>3. past.late' = past.late \cup {m} /\ past.since' = past.since \cup {m} /\ past.skipped' = past.skipped
      /\ past.complete' = past.complete
  BY DEF SyncTyped, Works, Workers, Histories
<1>4. \A n \in SyncNotes \ {m} : (n \in present' <=> n \in present) /\ store.row'[n] = store.row[n]
  BY <1>2 DEF SyncTyped, Works, Workers, Histories
<1>5. MemoryMatches'
  <2>1. store.state = "none" => store.row'[m] = "none"
    BY <1>2 DEF MemoryMatches, SyncTyped, Works, Workers, Histories
  <2> QED
    BY <1>2, <1>4, <2>1 DEF MemoryMatches
<1>6. CompleteKnown'
  <2>1. \A n \in SyncNotes \ {m} : Owed(n)' => Owed(n)
    BY <1>4 DEF Owed
  <2> QED
    BY <1>2, <1>3, <2>1 DEF CompleteKnown
<1>7. WorkShape' /\ ClosedIdle'
  BY <1>3 DEF WorkShape, ClosedIdle
<1>8. FullScanKnows'
  BY <1>3, <1>4 DEF FullScanKnows, FullScan, ScanKnows
<1> QED
  BY <1>1, <1>5, <1>6, <1>7, <1>8

(* begin_sync: nothing is declared before it was scanned. *)
LEMMA BeginKeeps ==
    ASSUME SyncInv,
           \/ \E paths \in SUBSET SyncNotes, all, rebuild \in BOOLEAN : BeginSync(all, rebuild, paths)
           \/ DisposeBefore
    PROVE  SyncInv'
<1>1. /\ UNCHANGED <<present, store, memory, closer, past>>
      /\ closer # "closed" \/ worker.at = "disposing"
      /\ worker.at \in {"idle", "disposing"}
  BY DEF BeginSync, DisposeBefore, Fenced
<1>2. /\ work' \in {work, NoWork} /\ (work' = NoWork \/ worker'.at \in {"idle", "disposing"})
      /\ worker' \in [at : {"idle", "disposing", "resetting", "preparing"}, full : BOOLEAN, rebuild : BOOLEAN,
                      paths : SUBSET SyncNotes]
  <2>1. CASE DisposeBefore
    BY <2>1, SyncRestIsTyped DEF DisposeBefore, SyncInv, SyncTyped, Works, Workers, Histories, IdleWorker, WorkerPlaces
  <2>2. ASSUME NEW paths \in SUBSET SyncNotes, NEW all \in BOOLEAN, NEW rebuild \in BOOLEAN,
               BeginSync(all, rebuild, paths)
        PROVE  /\ work' = work /\ worker'.at = "disposing"
               /\ worker' \in [at : {"idle", "disposing", "resetting", "preparing"}, full : BOOLEAN,
                               rebuild : BOOLEAN, paths : SUBSET SyncNotes]
    BY <2>2 DEF BeginSync
  <2> QED
    BY <2>1, <2>2
<1>3. SyncTyped'
  <2>1. worker' \in Workers
    BY <1>2 DEF Workers, WorkerPlaces
  <2>2. work' \in Works
    BY <1>2, SyncRestIsTyped DEF SyncInv, SyncTyped
  <2> QED
    BY <1>1, <2>1, <2>2 DEF SyncInv, SyncTyped, Works, Workers, Histories
<1>4. closer # "closed"
  BY <1>1 DEF SyncInv, ClosedIdle
<1>5. MemoryMatches' /\ CompleteKnown' /\ WorkShape' /\ ClosedIdle'
  BY <1>1, <1>2, <1>4 DEF SyncInv, MemoryMatches, CompleteKnown, WorkShape, ClosedIdle, NoWork, Owed
<1>6. FullScanKnows'
  BY <1>1, <1>2 DEF SyncInv, FullScanKnows, FullScan, ScanKnows, NoWork
<1> QED
  BY <1>3, <1>5, <1>6 DEF SyncInv

(* The fence ends the preparation before its next commit. *)
LEMMA AbandonKeeps == ASSUME SyncInv, Abandoned, UNCHANGED <<present, closer>> PROVE SyncInv'
<1>1. /\ UNCHANGED <<present, store, memory, work, closer, past>> /\ worker' = IdleWorker
      /\ worker'.at = "idle"
  BY DEF Abandoned, IdleWorker
<1>2. SyncTyped'
  BY <1>1 DEF SyncInv, SyncTyped, Works, Workers, Histories, IdleWorker, WorkerPlaces
<1>3. MemoryMatches' /\ CompleteKnown' /\ WorkShape' /\ ClosedIdle'
  BY <1>1 DEF SyncInv, MemoryMatches, CompleteKnown, WorkShape, ClosedIdle, Owed
<1>4. FullScanKnows'
  BY <1>1 DEF SyncInv, FullScanKnows, FullScan, ScanKnows
<1> QED
  BY <1>2, <1>3, <1>4 DEF SyncInv

(* The commits of _prepare_sync: whatever drops rows also withdraws the claim. *)
LEMMA ResetKeeps == ASSUME SyncInv, ResetIndex PROVE SyncInv'
<1> USE DEF SyncInv, ResetIndex
<1>1. CASE Fenced
  BY <1>1, AbandonKeeps
<1>2. CASE ~Fenced
  <2>1. /\ store' = ResetStore("uninitialized") /\ work' = work /\ present' = present
        /\ memory' = [memory EXCEPT !.initialized = TRUE, !.available = FALSE, !.required = TRUE]
        /\ past' = [past EXCEPT !.complete = FALSE, !.skipped = {}]
        /\ worker' = [worker EXCEPT !.at = "preparing"]
        /\ work.handle = "none" /\ closer' = closer /\ closer = "none"
    BY <1>2 DEF Fenced, WorkShape
  <2>2. SyncTyped'
    BY <2>1 DEF SyncTyped, Works, Workers, Histories, ResetStore, Rows, StoredStates, WorkerPlaces
  <2>3. MemoryMatches' /\ CompleteKnown'
    BY <2>1 DEF SyncTyped, Works, Workers, Histories, MemoryMatches, CompleteKnown, ResetStore
  <2>4. WorkShape' /\ FullScanKnows' /\ ClosedIdle'
    BY <2>1 DEF SyncTyped, Works, Workers, Histories, WorkShape, FullScanKnows, FullScan, ClosedIdle
  <2> QED
    BY <2>2, <2>3, <2>4
<1> QED
  BY <1>1, <1>2

LEMMA InitializeKeeps == ASSUME SyncInv, InitializeState PROVE SyncInv'
<1> USE DEF SyncInv, InitializeState
<1>1. CASE Fenced
  BY <1>1, AbandonKeeps
<1>2. CASE ~Fenced
  <2>1. /\ work' = work /\ present' = present /\ closer' = closer /\ closer = "none"
        /\ worker' = [worker EXCEPT !.at = "reserving"] /\ work.handle = "none"
        /\ memory' = [memory EXCEPT !.initialized = TRUE, !.available = @ \/ store'.state = "ready"]
    BY <1>2 DEF Fenced, WorkShape
  <2>2. CASE memory.initialized
    <3>1. store' = store /\ past' = past
      BY <1>2, <2>2
    <3> QED
      BY <2>1, <2>2, <3>1 DEF SyncTyped, Works, Workers, Histories, MemoryMatches, CompleteKnown, WorkShape, FullScanKnows, FullScan, ClosedIdle,
                              WorkerPlaces, Owed
  <2>3. CASE ~memory.initialized /\ SignatureChanged
    <3>1. store' = ResetStore("uninitialized") /\ past' = [past EXCEPT !.complete = FALSE, !.skipped = {}]
      BY <1>2, <2>3
    <3>2. ~memory.available
      BY <2>3 DEF SignatureChanged, MemoryMatches
    <3> QED
      BY <2>1, <3>1, <3>2 DEF SyncTyped, Works, Workers, Histories, MemoryMatches, CompleteKnown, WorkShape, FullScanKnows, FullScan, ClosedIdle,
                              ResetStore, Rows, StoredStates, WorkerPlaces
  <2>4. CASE ~memory.initialized /\ ~SignatureChanged
    <3>1. store' = [store EXCEPT !.state = Recovered(store.state)] /\ past' = past
      BY <1>2, <2>4 DEF WithState
    <3>2. /\ Recovered(store.state) \in StoredStates \ {"none"}
          /\ Recovered(store.state) = "ready" => store.state = "ready"
      BY DEF Recovered, MemoryMatches, SyncTyped, Works, Workers, Histories, StoredStates
    <3> HIDE DEF Recovered
    <3> QED
      BY <2>1, <2>4, <3>1, <3>2 DEF SyncTyped, Works, Workers, Histories, MemoryMatches, CompleteKnown, WorkShape, FullScanKnows, FullScan,
                                     ClosedIdle, SignatureChanged, WorkerPlaces, Owed
  <2> QED
    BY <2>2, <2>3, <2>4
<1> QED
  BY <1>1, <1>2

LEMMA ReserveKeeps == ASSUME SyncInv, Reserve PROVE SyncInv'
<1> USE DEF SyncInv, Reserve
<1>1. CASE Fenced
  BY <1>1, AbandonKeeps
<1>2. CASE ~Fenced
  <2>1. NeedsFull \in BOOLEAN /\ (~NeedsFull => past.complete)
    BY DEF NeedsFull, CompleteKnown, SyncTyped, Works, Workers, Histories
  <2> HIDE DEF NeedsFull
  <2>2. /\ work' = [full |-> NeedsFull, phase |-> IF NeedsFull THEN "discover" ELSE "targets",
                    seen |-> {}, gone |-> {}, handle |-> "incomplete",
                    todo |-> IF NeedsFull THEN SyncNotes ELSE worker.paths]
        /\ store' = [store EXCEPT !.state = "indexing"]
        /\ memory' = [memory EXCEPT !.required = @ \/ NeedsFull]
        /\ past' = IF NeedsFull THEN [past EXCEPT !.since = {}] ELSE past
        /\ worker' = IdleWorker /\ present' = present /\ closer' = closer
        /\ closer = "none" /\ memory.initialized
    BY <1>2 DEF WithState, Fenced, MemoryMatches
  <2>3. SyncTyped'
    BY <2>1, <2>2 DEF SyncTyped, Works, Workers, Histories, IdleWorker, WorkerPlaces, Phases, Handles, StoredStates
  <2>4. MemoryMatches' /\ CompleteKnown' /\ WorkShape' /\ ClosedIdle'
    BY <2>1, <2>2 DEF SyncTyped, Works, Workers, Histories, MemoryMatches, CompleteKnown, WorkShape, ClosedIdle, IdleWorker, Owed
  <2>5. FullScanKnows'
    BY <2>1, <2>2 DEF FullScanKnows, FullScan, ScanKnows
  <2> QED
    BY <2>3, <2>4, <2>5
<1> QED
  BY <1>1, <1>2

-----------------------------------------------------------------------------
(* Turns that move the continuation and leave the store alone. *)
LEMMA ScanKeeps ==
    ASSUME SyncInv, (\E n \in SyncNotes : Look(n)) \/ Scanned \/ Processed \/ DisposeWorkspace \/ BeginStep
    PROVE  SyncInv'
<1> USE DEF SyncInv
<1>1. /\ UNCHANGED <<present, store, memory, closer, past>>
      /\ work'.full = work.full /\ work'.handle = work.handle /\ work.handle = "incomplete"
      /\ worker' \in [at : {"idle", "stepping"}, full : BOOLEAN, rebuild : BOOLEAN, paths : SUBSET SyncNotes]
      /\ closer # "closed"
  <2>1. /\ work \in Works /\ worker \in Workers
        /\ worker.at = "stepping" => work.handle = "incomplete"
        /\ closer = "closed" => worker.at = "idle" /\ work.handle # "incomplete"
    BY DEF SyncTyped, WorkShape, ClosedIdle
  <2> HIDE DEF SyncInv
  <2>2. /\ UNCHANGED <<present, store, memory, closer, past>>
        /\ worker.at = "stepping" \/ (worker.at = "idle" /\ work.handle = "incomplete")
        /\ worker' \in {[worker EXCEPT !.at = "idle"], [worker EXCEPT !.at = "stepping"], worker}
        /\ worker' = worker => worker.at = "stepping"
    <3>1. CASE \E n \in SyncNotes : Look(n)
      BY <3>1 DEF Look, Turned, Stepping
    <3>2. CASE Scanned \/ Processed
      BY <3>2 DEF Scanned, Processed, Turned, Stepping
    <3>3. CASE DisposeWorkspace
      BY <3>3 DEF DisposeWorkspace, Stepping
    <3>4. CASE BeginStep
      BY <2>1, <3>4 DEF BeginStep, Workers
    <3> QED
      BY <3>1, <3>2, <3>3, <3>4
  <2>3. work'.full = work.full /\ work'.handle = work.handle
    <3>1. CASE \E n \in SyncNotes : Look(n)
      BY <2>1, <3>1 DEF Look, Turned, Works
    <3>2. CASE Scanned \/ Processed
      BY <2>1, <3>2 DEF Scanned, Processed, Turned, Works
    <3>3. CASE DisposeWorkspace \/ BeginStep
      BY <2>1, <3>3 DEF DisposeWorkspace, BeginStep, Works
    <3> QED
      BY <3>1, <3>2, <3>3
  <2>4. worker' \in [at : {"idle", "stepping"}, full : BOOLEAN, rebuild : BOOLEAN, paths : SUBSET SyncNotes]
    <3>1. worker = [at |-> worker.at, full |-> worker.full, rebuild |-> worker.rebuild, paths |-> worker.paths]
          /\ worker.full \in BOOLEAN /\ worker.rebuild \in BOOLEAN /\ worker.paths \in SUBSET SyncNotes
      BY <2>1 DEF Workers
    <3>2. worker'.at \in {"idle", "stepping"}
          /\ worker' = [at |-> worker'.at, full |-> worker.full, rebuild |-> worker.rebuild, paths |-> worker.paths]
      BY <2>2, <3>1
    <3> QED
      BY <3>1, <3>2
  <2> QED
    BY <2>1, <2>2, <2>3, <2>4
<1>2. SyncTyped'
  <2>1. work' \in Works
    <3>1. ASSUME NEW n \in SyncNotes, Look(n)
          PROVE  /\ work' = [work EXCEPT !.todo = work'.todo, !.seen = work'.seen, !.gone = work'.gone]
                 /\ work'.todo \in SUBSET SyncNotes /\ work'.seen \in SUBSET SyncNotes
                 /\ work'.gone \in SUBSET SyncNotes
      BY <3>1 DEF Look, Turned, SyncTyped, Works, Workers, Histories
    <3>2. CASE \E n \in SyncNotes : Look(n)
      BY <3>1, <3>2 DEF SyncTyped, Works, Workers, Histories
    <3>3. CASE Scanned
      BY <3>3 DEF Scanned, Turned, SyncTyped, Works, Workers, Histories, Phases
    <3>4. CASE Processed
      BY <3>4 DEF Processed, Turned, SyncTyped, Works, Workers, Histories, Phases
    <3>5. CASE DisposeWorkspace \/ BeginStep
      BY <3>5 DEF DisposeWorkspace, BeginStep, SyncTyped, Works, Workers, Histories, Phases
    <3> QED
      BY <3>2, <3>3, <3>4, <3>5
  <2> QED
    BY <1>1, <2>1 DEF SyncTyped, Works, Workers, Histories, WorkerPlaces
<1>3. MemoryMatches' /\ CompleteKnown' /\ ClosedIdle'
  BY <1>1 DEF MemoryMatches, CompleteKnown, ClosedIdle, Owed
<1>4. WorkShape'
  <2>1. work \in Works
        /\ IF work.full THEN work.phase \in {"discover", "process", "stale", "finish", "disposed"}
           ELSE work.phase \in {"targets", "process", "finish", "disposed"} /\ past.complete
    BY <1>1 DEF SyncTyped, WorkShape
  <2> HIDE DEF SyncInv
  <2>2. work'.phase = work.phase \/ work'.phase \in {"process", "finish", "disposed"} \/ (work.full /\ work'.phase = "stale")
    <3>1. CASE \E n \in SyncNotes : Look(n)
      BY <2>1, <3>1 DEF Look, Turned, Works
    <3>2. CASE Scanned
      BY <2>1, <3>2 DEF Scanned, Turned, Works
    <3>3. CASE Processed
      BY <2>1, <3>3 DEF Processed, Turned, Works
    <3>4. CASE DisposeWorkspace \/ BeginStep
      BY <2>1, <3>4 DEF DisposeWorkspace, BeginStep, Works
    <3> QED
      BY <3>1, <3>2, <3>3, <3>4
  <2> QED
    BY <1>1, <2>1, <2>2 DEF WorkShape
<1>5. ASSUME FullScan, NEW n \in SyncNotes \ past.since PROVE ScanKnows(n)'
  <2>0. ScanKnows(n) /\ work.phase # "targets"
    BY <1>5 DEF FullScanKnows, FullScan, WorkShape
  <2>1. CASE \E m \in SyncNotes : Look(m)
    <3>1. PICK m \in SyncNotes : Look(m)
      BY <2>1
    <3>2. /\ work'.todo = work.todo \ {m} /\ work'.phase = work.phase /\ work.phase = "discover"
          /\ work'.seen = IF m \in present THEN work.seen \cup {m} ELSE work.seen
          /\ m \in work.todo
      BY <2>0, <3>1 DEF Look, Turned, Stepping, SyncTyped, Works, Workers, Histories
    <3> HIDE DEF SyncInv
    <3>3. ASSUME n # m PROVE ScanKnows(n)'
      BY <1>1, <2>0, <3>2, <3>3 DEF ScanKnows
    <3>4. ASSUME n = m PROVE ScanKnows(n)'
      BY <1>1, <2>0, <3>2, <3>4 DEF ScanKnows
    <3> QED
      BY <3>3, <3>4
  <2>2. CASE Scanned
    BY <2>0, <2>2, <1>1 DEF Scanned, Turned, Stepping, ScanKnows, SyncTyped, Works, Workers, Histories
  <2>3. CASE Processed
    BY <1>5, <2>0, <2>3, <1>1 DEF Processed, Turned, Stepping, ScanKnows, SyncTyped, Works, Workers, Histories, FullScan
  <2>4. CASE DisposeWorkspace
    BY <2>0, <2>4, <1>1 DEF DisposeWorkspace, Stepping, ScanKnows, SyncTyped, Works, Workers, Histories
  <2>5. CASE BeginStep
    BY <2>0, <2>5, <1>1 DEF BeginStep, ScanKnows
  <2> QED
    BY <2>1, <2>2, <2>3, <2>4, <2>5
<1>6. FullScanKnows'
  BY <1>1, <1>5 DEF FullScanKnows, FullScan
<1> QED
  BY <1>2, <1>3, <1>4, <1>6

(* A batch: what it reads is current, what it finds gone has no row, and what
   a full scan cannot read is remembered. *)
LEMMA ProcessKeeps == ASSUME SyncInv, Process PROVE SyncInv'
<1> USE DEF SyncInv
<1>1. PICK batch \in SUBSET work.todo, read \in SUBSET SyncNotes :
          /\ read \in MayRead(batch)
          /\ batch \cap work.seen \subseteq present
          /\ store' = [store EXCEPT !.row = RowsAfter(read, batch \ present)]
          /\ past' = [past EXCEPT !.skipped = (@ \ batch) \cup ((batch \cap present) \ read)]
          /\ Turned([work EXCEPT !.todo = @ \ batch])
  <2> DEFINE first == FirstOf(work.todo)
  <2>1. PICK r \in MayRead(first) :
            /\ store' = [store EXCEPT !.row = RowsAfter(r, first \ present)]
            /\ past' = [past EXCEPT !.skipped = (@ \ first) \cup ((first \cap present) \ r)]
    BY DEF Process
  <2>2. first \in SUBSET work.todo
    BY BatchOfNotes
  <2>3. r \in SUBSET SyncNotes
    BY DEF MayRead, SyncTyped, Works, Workers, Histories
  <2>4. first \cap work.seen \subseteq present /\ Turned([work EXCEPT !.todo = @ \ first])
    BY DEF Process
  <2> HIDE DEF first
  <2> QED
    BY <2>1, <2>2, <2>3, <2>4
<1>2. /\ Stepping("process") /\ UNCHANGED <<present, memory, closer>>
      /\ work.handle = "incomplete" /\ closer # "closed" /\ read \subseteq batch \cap present
      /\ (~work.full => read = batch \cap present)
  BY <1>1 DEF Process, Stepping, WorkShape, ClosedIdle, MayRead
<1>3. /\ work' = [work EXCEPT !.todo = @ \ batch] /\ worker' = [worker EXCEPT !.at = "idle"]
      /\ store'.state = store.state /\ store'.model = store.model
      /\ past'.late = past.late /\ past'.since = past.since /\ past'.complete = past.complete
      /\ past'.skipped = (past.skipped \ batch) \cup ((batch \cap present) \ read)
  BY <1>1 DEF Turned, SyncTyped, Works, Workers, Histories
<1>4. \A n \in SyncNotes : store'.row[n] = IF n \in read THEN "current" ELSE IF n \in batch \ present THEN "none"
                                           ELSE store.row[n]
  BY <1>1 DEF RowsAfter, SyncTyped, Works, Workers, Histories
<1>5. SyncTyped'
  <2>1. RowsAfter(read, batch \ present) \in [SyncNotes -> Rows]
    BY DEF RowsAfter, SyncTyped, Works, Workers, Histories, Rows
  <2> QED
    BY <1>1, <1>2, <1>3, <2>1 DEF SyncTyped, Works, Workers, Histories, WorkerPlaces
<1>6. MemoryMatches'
  <2>2. store.state # "none"
    BY <1>2 DEF MemoryMatches
  <2> QED
    BY <1>2, <1>3, <2>2 DEF MemoryMatches, SyncTyped, Works, Workers, Histories
<1>7. CompleteKnown'
  <2>1. ASSUME NEW n \in SyncNotes, Owed(n)' PROVE (Owed(n) /\ n \notin batch) \/ n \in past'.skipped
    BY <1>2, <1>3, <1>4, <2>1 DEF Owed
  <2> QED
    BY <1>2, <1>3, <2>1 DEF CompleteKnown
<1>8. WorkShape' /\ ClosedIdle'
  BY <1>2, <1>3 DEF WorkShape, ClosedIdle, SyncTyped, Works, Workers, Histories
<1>9. FullScanKnows'
  <2>1. ASSUME FullScan, NEW n \in SyncNotes \ past.since PROVE ScanKnows(n)'
    <3>1. ScanKnows(n) /\ work.phase = "process"
      BY <1>2, <2>1 DEF FullScanKnows, Stepping
    <3> QED
      BY <1>1, <1>2, <1>3, <1>4, <3>1 DEF ScanKnows, SyncTyped, Works, Workers, Histories
  <2> QED
    BY <1>3, <2>1 DEF FullScanKnows, FullScan, SyncTyped, Works, Workers, Histories
<1> QED
  BY <1>5, <1>6, <1>7, <1>8, <1>9

(* Rows of paths that the scan did not see go, in the order of their keys. *)
LEMMA ReconcileKeeps == ASSUME SyncAssumption, SyncInv, Reconcile PROVE SyncInv'
<1> USE DEF SyncInv
<1>1. /\ Stepping("stale") /\ UNCHANGED <<present, memory, closer, past>>
      /\ FullScan /\ closer # "closed"
  BY DEF Reconcile, Stepping, WorkShape, ClosedIdle, FullScan
<1>2. CASE Stored = {}
  <2>1. store' = store /\ work' = [work EXCEPT !.phase = "finish"] /\ worker' = [worker EXCEPT !.at = "idle"]
    BY <1>2 DEF Reconcile, Turned
  <2>2. ASSUME NEW n \in SyncNotes \ past.since PROVE ScanKnows(n)'
    BY <1>1, <1>2, <2>1 DEF FullScanKnows, ScanKnows, Stepping, Stored, SyncTyped, Works, Workers, Histories
  <2> QED
    BY <1>1, <2>1, <2>2 DEF SyncTyped, Works, Workers, Histories, MemoryMatches, CompleteKnown, WorkShape, ClosedIdle, FullScanKnows, FullScan,
                            WorkerPlaces, Phases, Owed
<1>3. CASE Stored # {}
  <2>1. /\ store' = [store EXCEPT !.row = RowsAfter({}, StaleBatch \ work.seen)]
        /\ work' = [work EXCEPT !.todo = {n \in @ : \A b \in StaleBatch : n > b}]
        /\ worker' = [worker EXCEPT !.at = "idle"]
    BY <1>3 DEF Reconcile, Turned
  <2>2. /\ store'.state = store.state /\ store'.model = store.model
        /\ \A n \in SyncNotes : store'.row[n] = IF n \in StaleBatch \ work.seen THEN "none" ELSE store.row[n]
    BY <2>1 DEF RowsAfter, SyncTyped, Works, Workers, Histories
  <2>3. SyncTyped'
    <3>1. RowsAfter({}, StaleBatch \ work.seen) \in [SyncNotes -> Rows]
      BY DEF RowsAfter, SyncTyped, Works, Workers, Histories, Rows
    <3> QED
      BY <1>1, <2>1, <3>1 DEF SyncTyped, Works, Workers, Histories, WorkerPlaces
  <2>4. ASSUME NEW n \in SyncNotes \ past.since PROVE ScanKnows(n)'
    <3>1. ScanKnows(n) /\ work.phase = "stale"
      BY <1>1 DEF FullScanKnows, Stepping
    <3>2. ASSUME n \notin work.seen, n \notin work'.todo PROVE store'.row[n] = "none"
      <4>1. CASE n \notin work.todo \/ store.row[n] = "none"
        BY <2>2, <3>1, <3>2, <4>1 DEF ScanKnows
      <4>2. CASE n \in Stored
        <5>1. PICK b \in StaleBatch : ~(n > b)
          BY <2>1, <3>2, <4>2 DEF Stored, SyncTyped, Works, Workers, Histories
        <5>2. n \in Nat /\ b \in Nat /\ Stored \subseteq SyncNotes /\ b \in FirstOf(Stored)
          BY <5>1, BatchOfNotes DEF Stored, StaleBatch, SyncTyped, Works, Workers, Histories, SyncAssumption
        <5>3. n = b \/ n < b
          BY <5>1, <5>2
        <5>4. n \in StaleBatch
          BY <4>2, <5>1, <5>2, <5>3, BatchInOrder DEF StaleBatch
        <5> QED
          BY <2>2, <3>2, <5>4
      <4> QED
        BY <4>1, <4>2 DEF Stored
    <3> QED
      BY <1>1, <2>1, <2>2, <3>1, <3>2 DEF ScanKnows, SyncTyped, Works, Workers, Histories
  <2>5. CompleteKnown'
    <3>1. ASSUME NEW n \in SyncNotes, Owed(n)', ~Owed(n) PROVE n \in past.since
      <4>1. n \in present /\ n \notin work.seen
        BY <1>1, <2>2, <3>1 DEF Owed
      <4> QED
        BY <1>1, <4>1 DEF FullScanKnows, ScanKnows, Stepping
    <3> QED
      BY <1>1, <2>2, <3>1 DEF CompleteKnown
  <2>6. store.state # "none"
    BY <1>3 DEF MemoryMatches, Stored, SyncTyped, Works, Workers, Histories
  <2>7. MemoryMatches' /\ WorkShape' /\ ClosedIdle' /\ FullScanKnows'
    BY <1>1, <2>1, <2>2, <2>4, <2>6 DEF MemoryMatches, WorkShape, ClosedIdle, FullScanKnows, FullScan, SyncTyped, Works, Workers, Histories
  <2> QED
    BY <2>3, <2>5, <2>7
<1> QED
  BY <1>2, <1>3

(* Success is declared over what the scan established. *)
LEMMA CompleteKeeps == ASSUME SyncInv, Complete PROVE SyncInv'
<1> USE DEF SyncInv
<1>1. /\ work.handle = "incomplete" /\ work.phase = "disposed" /\ closer # "closed"
      /\ store' = [store EXCEPT !.state = "ready"] /\ work' = NoWork /\ worker' = IdleWorker
      /\ memory' = [memory EXCEPT !.available = TRUE, !.required = @ /\ ~work.full]
      /\ past' = IF work.full THEN [past EXCEPT !.late = past.since, !.complete = TRUE] ELSE past
      /\ UNCHANGED <<present, closer>>
  BY DEF Complete, Stepping, WorkShape, ClosedIdle, WithState
<1>2. SyncTyped'
  BY <1>1 DEF SyncTyped, Works, Workers, Histories, NoWork, IdleWorker, WorkerPlaces, Phases, Handles, StoredStates
<1>3. MemoryMatches' /\ WorkShape' /\ ClosedIdle' /\ FullScanKnows'
  BY <1>1 DEF MemoryMatches, WorkShape, ClosedIdle, FullScanKnows, FullScan, NoWork, IdleWorker, SyncTyped, Works, Workers, Histories
<1>4. CompleteKnown'
  <2>1. CASE work.full
    <3>1. ASSUME NEW n \in SyncNotes, Owed(n) PROVE n \in past.since \cup past.skipped
      BY <1>1, <2>1, <3>1 DEF FullScanKnows, FullScan, ScanKnows, Owed
    <3>2. \A n \in SyncNotes : Owed(n)' => Owed(n)
      BY <1>1 DEF Owed, SyncTyped, Works, Workers, Histories
    <3> QED
      BY <1>1, <2>1, <3>1, <3>2 DEF CompleteKnown, SyncTyped, Works, Workers, Histories
  <2>2. CASE ~work.full
    BY <1>1, <2>2 DEF CompleteKnown, WorkShape, Owed, SyncTyped, Works, Workers, Histories
  <2> QED
    BY <2>1, <2>2
<1> QED
  BY <1>2, <1>3, <1>4

(* Failure, cancellation and close leave the claim as it was or withdraw it. *)
LEMMA EndCallKeeps ==
    ASSUME SyncInv, StepFails \/ CancelSync \/ CloseFence \/ CloseDrained \/ SearchAvailable \/ Restart
    PROVE  SyncInv'
<1> USE DEF SyncInv
<1>1. CASE StepFails \/ CancelSync \/ CloseFence \/ CloseDrained
  <2>1. /\ UNCHANGED <<present, memory, past>>
        /\ store' \in {store, [store EXCEPT !.state = "error"]}
        /\ worker' \in {worker, IdleWorker}
        /\ closer' \in {"none", "draining", "closed"}
    BY <1>1 DEF StepFails, CancelSync, CloseFence, CloseDrained, Terminated, WithState, SyncTyped, Works, Workers, Histories
  <2>2. \/ work' = work /\ worker' = worker
        \/ work' = NoWork /\ worker'.at \notin {"stepping"}
        \/ /\ \E by \in {"failed", "cancelled"} : work' = [work EXCEPT !.handle = by]
           /\ worker'.at \notin {"stepping", "resetting", "preparing", "reserving"}
    BY <1>1 DEF StepFails, CancelSync, CloseFence, CloseDrained, Terminated, IdleWorker
  <2>3. closer' = "closed" => worker'.at = "idle" /\ work'.handle # "incomplete"
    BY <1>1 DEF StepFails, CancelSync, CloseFence, CloseDrained, Terminated, ClosedIdle, Fenced, NoWork, IdleWorker,
                SyncTyped, Works, Workers, Histories, WorkShape
  <2>4. SyncTyped'
    <3>1. store' \in [row : [SyncNotes -> Rows], state : StoredStates, model : Models]
      BY <2>1 DEF SyncTyped, Works, Workers, Histories, StoredStates
    <3>2. work' \in Works
      <4>1. work \in Works /\ NoWork \in Works
        BY SyncRestIsTyped DEF SyncTyped
      <4>2. \A by \in {"failed", "cancelled"} : [work EXCEPT !.handle = by] \in Works
        BY <4>1 DEF Works, Handles
      <4> QED
        BY <2>2, <4>1, <4>2
    <3>3. worker' \in Workers
      BY <2>1, SyncRestIsTyped DEF SyncTyped
    <3> QED
      BY <2>1, <3>1, <3>2, <3>3 DEF SyncTyped, Works, Workers, Histories
  <2>5. MemoryMatches' /\ CompleteKnown' /\ WorkShape' /\ ClosedIdle'
    BY <2>1, <2>2, <2>3 DEF MemoryMatches, CompleteKnown, WorkShape, ClosedIdle, NoWork, IdleWorker, Owed, SyncTyped, Works, Workers, Histories
  <2>6. FullScanKnows'
    BY <2>1, <2>2 DEF FullScanKnows, FullScan, ScanKnows, NoWork, SyncTyped, Works, Workers, Histories
  <2> QED
    BY <2>4, <2>5, <2>6
<1>2. CASE SearchAvailable
  BY <1>2 DEF SearchAvailable, SyncTyped, Works, Workers, Histories, MemoryMatches, CompleteKnown, WorkShape, ClosedIdle, FullScanKnows, FullScan,
              ScanKnows, Owed
<1>3. CASE Restart
  BY <1>3 DEF Restart, SyncTyped, Works, Workers, Histories, MemoryMatches, CompleteKnown, WorkShape, ClosedIdle, FullScanKnows, FullScan,
              FreshMemory, NoWork, IdleWorker, Models, WorkerPlaces, Phases, Handles, Owed
<1> QED
  BY <1>1, <1>2, <1>3

-----------------------------------------------------------------------------
(* The invariant holds in every reachable state. *)
THEOREM SyncInvariance == ASSUME SyncAssumption PROVE SyncSpec => []SyncInv
<1>1. SyncInv /\ [SyncNext]_syncVars => SyncInv'
  <2> SUFFICES ASSUME SyncInv, [SyncNext]_syncVars PROVE SyncInv'
    OBVIOUS
  <2>1. CASE UNCHANGED syncVars
    BY <2>1 DEF syncVars, SyncInv, SyncTyped, Works, Workers, Histories, MemoryMatches, CompleteKnown, WorkShape, FullScanKnows, FullScan,
                ScanKnows, ClosedIdle, Owed
  <2>2. CASE SyncNext
    BY <2>2, ChangeKeeps, BeginKeeps, ResetKeeps, InitializeKeeps, ReserveKeeps, ScanKeeps, ProcessKeeps,
       ReconcileKeeps, CompleteKeeps, EndCallKeeps DEF SyncNext
  <2> QED
    BY <2>1, <2>2
<1> QED
  BY <1>1, SyncInitially, PTL DEF SyncSpec

(* _initialize_state, _complete_sync, is_search_available: however often a
   synchronization is interrupted, a store that says "ready" owes only what
   changed after the last completed full scan began or could not be read, and
   search is offered only after one. *)
THEOREM StoredStateIsHonest == ASSUME SyncAssumption PROVE SyncSpec => []StoredStateHonest
<1>1. SyncInv => StoredStateHonest
  BY DEF SyncInv, CompleteKnown, StoredStateHonest
<1> QED
  BY <1>1, SyncInvariance, PTL

(* close_synchronization: once it has returned, only the vault can change what
   the rows are worth. *)
THEOREM ClosedIsQuiet == ASSUME SyncAssumption PROVE SyncSpec => ClosedMeansQuiet
<1> DEFINE Quiet == closer = "closed" /\ closer' = "closed" =>
          /\ store'.state = store.state
          /\ \A n \in SyncNotes : store'.row[n] \in {store.row[n], "old"}
<1>1. SyncInv /\ [SyncNext]_syncVars => [Quiet]_syncVars
  <2> SUFFICES ASSUME SyncInv, SyncNext, closer = "closed", closer' = "closed" PROVE Quiet
    OBVIOUS
  <2>1. worker.at = "idle" /\ work.handle # "incomplete"
    BY DEF SyncInv, ClosedIdle
  <2>2. CASE \E m \in SyncNotes : ChangeNote(m)
    BY <2>2 DEF ChangeNote, SyncInv, SyncTyped, Works, Workers, Histories
  <2>3. CASE store' = store
    BY <2>3
  <2>4. ~(ResetIndex \/ InitializeState \/ Reserve \/ Process \/ Reconcile \/ Complete \/ StepFails \/ CancelSync
          \/ CloseDrained)
    BY <2>1 DEF ResetIndex, InitializeState, Reserve, Process, Reconcile, Complete, StepFails, CancelSync,
                CloseDrained, Stepping
  <2>5. (\E m \in SyncNotes : ChangeNote(m)) \/ store' = store
    BY <2>4 DEF SyncNext, Look, BeginSync, DisposeBefore, BeginStep, Scanned, Processed, DisposeWorkspace,
                CloseFence, SearchAvailable, Restart
  <2> QED
    BY <2>2, <2>3, <2>5
<1> QED
  BY <1>1, SyncInvariance, PTL DEF SyncSpec, ClosedMeansQuiet

-----------------------------------------------------------------------------
(* SemanticStore: the files of the spaces and their repositories.          *)

Kinds == {"absent", "empty", "unbound"} \cup Spaces
AttemptSteps == {"idle", "checked", "created", "opened", "writing", "closing", "retained", "cleaning", "unlinking"}
Files == [kind : Kinds, rows : SUBSET Kinds, by : Repositories \cup {"nobody", "operator"},
          lock : Repositories \cup {"nobody"}]
Attempts == [at : AttemptSteps, before : FileIds \cup {0}, opened : FileIds \cup {0}, created : BOOLEAN,
             committed : BOOLEAN, bound : FileIds \cup {0}]

StoreTyped ==
    /\ path \in FileIds \cup {0}
    /\ files \in [FileIds -> Files]
    /\ repo \in [Repositories -> Attempts]
    /\ moves \in Nat
    /\ destroyed \in SUBSET FileIds

(* Rows never enter a file that is not bound, and never another space's. *)
RowsOwn(f) ==
    /\ files[f].kind \in Spaces => files[f].rows \subseteq {files[f].kind}
    /\ files[f].kind \in {"absent", "empty"} => files[f].rows = {}

(* What a repository removed was its own and empty, and is not at the path again. *)
DestroyedEmpty(f) == files[f].by \in Repositories /\ files[f].kind = "empty" /\ f # path

(* An attempt that writes holds the lock of an acceptable file; one that created
   a file is the only one to have created it. *)
MayFill(r, f) == (files[f].kind = "empty" /\ files[f].by = r) \/ Accepts(r, f)
AttemptKnown(r) ==
    /\ repo[r].created => repo[r].before # 0 /\ files[repo[r].before].by = r /\ files[repo[r].before].kind # "absent"
    /\ repo[r].at = "created" => repo[r].created
    /\ repo[r].at \in {"cleaning", "unlinking"} => repo[r].created
    /\ repo[r].at = "opened" => repo[r].opened # 0 /\ repo[r].opened = repo[r].before
    /\ repo[r].at = "writing" => /\ repo[r].opened # 0 /\ files[repo[r].opened].lock = r
                                 /\ repo[r].opened \notin destroyed /\ MayFill(r, repo[r].opened)
    /\ repo[r].at = "checked" => ~repo[r].created

StoreInv ==
    /\ StoreTyped
    /\ \A f \in FileIds : RowsOwn(f)
    /\ \A f \in destroyed : DestroyedEmpty(f)
    /\ \A r \in Repositories : AttemptKnown(r)

-----------------------------------------------------------------------------
(* Before anything happens no file exists. *)
LEMMA StoreInitially == ASSUME NamesApart PROVE StoreInit => StoreInv
<1> SUFFICES ASSUME StoreInit PROVE StoreInv
  OBVIOUS
<1>1. NoFile \in Files
  BY DEF NoFile, Files, Kinds
<1>2. IdleRepo(0) \in Attempts
  BY DEF IdleRepo, Attempts, AttemptSteps
<1>3. StoreTyped
  BY <1>1, <1>2 DEF StoreInit, StoreTyped
<1>4. \A f \in FileIds : RowsOwn(f)
  BY DEF StoreInit, RowsOwn, NoFile
<1>5. \A r \in Repositories : AttemptKnown(r)
  BY DEF StoreInit, AttemptKnown, IdleRepo
<1> QED
  BY <1>3, <1>4, <1>5 DEF StoreInit, StoreInv

(* The operator never hands out a file that exists. *)
LEMMA InterveneKeeps == ASSUME NamesApart, StoreInv, Intervene PROVE StoreInv'
<1>1. UNCHANGED <<repo, destroyed>> /\ moves' = moves + 1
  BY DEF Intervene
<1>2. CASE path' \in {0} \cup (FileIds \ (Unused \cup destroyed \cup {path})) /\ files' = files
  <2>1. StoreTyped'
    BY <1>1, <1>2 DEF StoreInv, StoreTyped
  <2>2. \A f \in destroyed : f # path'
    BY <1>2 DEF StoreInv, StoreTyped, FileIds, NamesApart
  <2> QED
    BY <1>1, <1>2, <2>1, <2>2 DEF StoreInv, RowsOwn, DestroyedEmpty, AttemptKnown, MayFill, Accepts, UnboundEmpty
<1>3. ASSUME NEW g \in Unused, NEW kind \in {"unbound"} \cup Spaces, NEW rows \in {{}, {kind}}, path' = g,
             files' = [files EXCEPT ![g] = [NoFile EXCEPT !.kind = kind, !.rows = rows, !.by = "operator"]]
      PROVE  StoreInv'
  <2> DEFINE file == [NoFile EXCEPT !.kind = kind, !.rows = rows, !.by = "operator"]
  <2>1. file \in Files /\ file.kind = kind /\ file.rows = rows
    BY DEF NoFile, Files, Kinds
  <2>2. g \in FileIds /\ files[g].kind = "absent" /\ g \notin destroyed
    BY DEF Unused, StoreInv, DestroyedEmpty
  <2>3. files'[g] = file /\ \A f \in FileIds \ {g} : files'[f] = files[f]
    BY <1>3, <2>2 DEF StoreInv, StoreTyped
  <2>4. StoreTyped'
    BY <1>1, <1>3, <2>1, <2>2 DEF StoreInv, StoreTyped
  <2>5. \A f \in FileIds : RowsOwn(f)'
    BY <2>1, <2>3 DEF StoreInv, RowsOwn, NamesApart
  <2>6. \A f \in destroyed : DestroyedEmpty(f)'
    BY <1>3, <2>2, <2>3 DEF StoreInv, StoreTyped, DestroyedEmpty
  <2>7. ASSUME NEW r \in Repositories PROVE AttemptKnown(r)'
    <3>1. AttemptKnown(r) /\ repo[r] \in Attempts /\ SpaceOf[r] \in Spaces
      BY DEF StoreInv, StoreTyped, Spaces
    <3>2. repo[r].created => repo[r].before # g /\ repo[r].before \in FileIds
      BY <2>2, <3>1 DEF AttemptKnown, Attempts
    <3>3. repo[r].at = "writing" => repo[r].opened # g /\ repo[r].opened \in FileIds
      BY <2>2, <3>1 DEF AttemptKnown, Attempts, MayFill, Accepts, UnboundEmpty, NamesApart
    <3> QED
      BY <1>1, <2>3, <3>1, <3>2, <3>3 DEF AttemptKnown, MayFill, Accepts, UnboundEmpty
  <2> QED
    BY <1>1, <2>4, <2>5, <2>6, <2>7 DEF StoreInv
<1> QED
  BY <1>2, <1>3 DEF Intervene

(* A step that leaves the files and the path alone and keeps its attempt known. *)
LEMMA AttemptMoves ==
    ASSUME StoreInv, NEW r \in Repositories, NEW attempt \in Attempts,
           repo' = [repo EXCEPT ![r] = attempt], UNCHANGED <<path, files, moves, destroyed>>,
           attempt.created => attempt.before # 0 /\ files[attempt.before].by = r /\ files[attempt.before].kind # "absent",
           attempt.at \notin {"created", "writing"},
           attempt.at \in {"cleaning", "unlinking"} => attempt.created,
           attempt.at = "opened" => attempt.opened # 0 /\ attempt.opened = attempt.before,
           attempt.at = "checked" => ~attempt.created
    PROVE  StoreInv'
<1>1. StoreTyped'
  BY DEF StoreInv, StoreTyped
<1>2. repo'[r] = attempt /\ \A q \in Repositories \ {r} : repo'[q] = repo[q]
  BY DEF StoreInv, StoreTyped
<1>3. ASSUME NEW q \in Repositories PROVE AttemptKnown(q)'
  <2>1. AttemptKnown(q)
    BY DEF StoreInv
  <2>2. CASE q = r
    BY <1>2, <2>2 DEF AttemptKnown
  <2>3. CASE q # r
    BY <1>2, <2>1, <2>3 DEF AttemptKnown, MayFill, Accepts, UnboundEmpty
  <2> QED
    BY <2>2, <2>3
<1> QED
  BY <1>1, <1>3 DEF StoreInv, RowsOwn, DestroyedEmpty

LEMMA QuietSteps ==
    ASSUME StoreInv, NEW r \in Repositories,
           \/ Preflight(r) \/ OpenFile(r) \/ Dispose(r) \/ CloseInitializations(r) \/ CleanUp(r)
    PROVE  StoreInv'
<1>0. /\ AttemptKnown(r) /\ repo[r] \in Attempts /\ repo \in [Repositories -> Attempts]
      /\ path \in FileIds \cup {0}
  BY DEF StoreInv, StoreTyped
<1>1. CASE Preflight(r)
  <2> DEFINE attempt == [IdleRepo(repo[r].bound) EXCEPT !.at = "checked", !.before = path]
  <2>1. repo' = [repo EXCEPT ![r] = attempt] /\ UNCHANGED <<path, files, moves, destroyed>>
    BY <1>1 DEF Preflight
  <2>2. attempt \in Attempts /\ attempt.at = "checked" /\ attempt.created = FALSE
    BY <1>0 DEF IdleRepo, Attempts, AttemptSteps
  <2> HIDE DEF attempt
  <2> QED
    BY <2>1, <2>2, AttemptMoves
<1>2. CASE OpenFile(r)
  <2> DEFINE at == IF path # 0 /\ path = repo[r].before THEN "opened" ELSE "closing"
             attempt == [repo[r] EXCEPT !.opened = path, !.at = at]
  <2>1. repo' = [repo EXCEPT ![r] = attempt] /\ UNCHANGED <<path, files, moves, destroyed>>
    BY <1>0, <1>2 DEF OpenFile
  <2>2. attempt \in Attempts /\ attempt.at = at /\ attempt.opened = path /\ attempt.before = repo[r].before
        /\ attempt.created = repo[r].created
    BY <1>0 DEF Attempts, AttemptSteps
  <2>3. at = "opened" => path # 0 /\ path = repo[r].before
    OBVIOUS
  <2>4. at \in {"opened", "closing"}
    OBVIOUS
  <2> HIDE DEF attempt, at
  <2> QED
    BY <1>0, <2>1, <2>2, <2>3, <2>4, AttemptMoves DEF AttemptKnown
<1>3. CASE Dispose(r) \/ CloseInitializations(r) \/ CleanUp(r)
  <2>1. PICK at \in {"idle", "closing", "retained", "cleaning", "unlinking"} :
            /\ repo' = [repo EXCEPT ![r] = [repo[r] EXCEPT !.at = at]]
            /\ UNCHANGED <<path, files, moves, destroyed>>
            /\ at \in {"cleaning", "unlinking"} => repo[r].created
    BY <1>0, <1>3 DEF Dispose, CloseInitializations, CleanUp, Goes, AttemptKnown
  <2> DEFINE attempt == [repo[r] EXCEPT !.at = at]
  <2>2. attempt \in Attempts /\ attempt.at = at /\ attempt.before = repo[r].before
        /\ attempt.created = repo[r].created
    BY <1>0 DEF Attempts, AttemptSteps
  <2>3. repo' = [repo EXCEPT ![r] = attempt] /\ UNCHANGED <<path, files, moves, destroyed>>
    BY <2>1
  <2>4. /\ attempt.at \notin {"created", "writing", "opened", "checked"}
        /\ attempt.at \in {"cleaning", "unlinking"} => attempt.created
    BY <2>1, <2>2
  <2>5. attempt.created => /\ attempt.before # 0 /\ files[attempt.before].by = r
                           /\ files[attempt.before].kind # "absent"
    BY <1>0, <2>2 DEF AttemptKnown
  <2> HIDE DEF attempt
  <2> QED
    BY <2>2, <2>3, <2>4, <2>5, AttemptMoves
<1> QED
  BY <1>1, <1>2, <1>3

(* Exclusive creation: the file is new and at the path. *)
LEMMA CreateKeeps == ASSUME NamesApart, StoreInv, NEW r \in Repositories, CreateFile(r) PROVE StoreInv'
<1>0. /\ AttemptKnown(r) /\ repo[r] \in Attempts /\ repo \in [Repositories -> Attempts]
      /\ repo[r].at = "checked" /\ ~repo[r].created
  BY DEF StoreInv, StoreTyped, CreateFile, AttemptKnown
<1>1. CASE path # 0
  <2> DEFINE attempt == [repo[r] EXCEPT !.at = "idle"]
  <2>1. repo' = [repo EXCEPT ![r] = attempt] /\ UNCHANGED <<path, files, moves, destroyed>>
    BY <1>0, <1>1 DEF CreateFile, Goes
  <2>2. attempt \in Attempts /\ attempt.at = "idle" /\ ~attempt.created
    BY <1>0 DEF Attempts, AttemptSteps
  <2> HIDE DEF attempt
  <2> QED
    BY <2>1, <2>2, AttemptMoves
<1>2. CASE path = 0
  <2> DEFINE file == [NoFile EXCEPT !.kind = "empty", !.by = r]
  <2>1. PICK g \in Unused :
            /\ path' = g /\ files' = [files EXCEPT ![g] = file] /\ UNCHANGED <<moves, destroyed>>
            /\ repo' = [repo EXCEPT ![r].at = "created", ![r].before = g, ![r].created = TRUE, ![r].bound = g]
    BY <1>2 DEF CreateFile
  <2>2. file \in Files /\ file.kind = "empty" /\ file.rows = {} /\ file.by = r
    BY DEF NoFile, Files, Kinds
  <2>3. g \in FileIds /\ files[g].kind = "absent" /\ g \notin destroyed /\ g # 0
    BY DEF Unused, StoreInv, DestroyedEmpty, FileIds, NamesApart
  <2>4. files'[g] = file /\ \A f \in FileIds \ {g} : files'[f] = files[f]
    BY <2>1, <2>3 DEF StoreInv, StoreTyped
  <2>5. /\ repo'[r] \in Attempts /\ repo'[r].at = "created" /\ repo'[r].before = g /\ repo'[r].created
        /\ \A q \in Repositories \ {r} : repo'[q] = repo[q]
    BY <1>0, <2>1, <2>3 DEF Attempts, AttemptSteps
  <2>6. repo' \in [Repositories -> Attempts]
    BY <1>0, <2>1, <2>5
  <2> HIDE DEF file
  <2>7. StoreTyped'
    BY <2>1, <2>2, <2>3, <2>6 DEF StoreInv, StoreTyped
  <2>8. \A f \in FileIds : RowsOwn(f)'
    BY <2>2, <2>4 DEF StoreInv, RowsOwn, NamesApart
  <2>9. \A f \in destroyed : DestroyedEmpty(f)'
    BY <2>1, <2>3, <2>4 DEF StoreInv, StoreTyped, DestroyedEmpty
  <2>10. ASSUME NEW q \in Repositories PROVE AttemptKnown(q)'
    <3>1. AttemptKnown(q) /\ repo[q] \in Attempts /\ SpaceOf[q] \in Spaces
      BY DEF StoreInv, StoreTyped, Spaces
    <3>2. repo[q].created => repo[q].before # g /\ repo[q].before \in FileIds
      BY <2>3, <3>1 DEF AttemptKnown, Attempts
    <3>3. repo[q].at = "writing" => repo[q].opened # g /\ repo[q].opened \in FileIds
      BY <2>3, <3>1 DEF AttemptKnown, Attempts, MayFill, Accepts, UnboundEmpty, NamesApart
    <3>4. CASE q = r
      BY <2>2, <2>3, <2>4, <2>5, <3>4 DEF AttemptKnown
    <3>5. CASE q # r
      <4>1. repo'[q] = repo[q] /\ destroyed' = destroyed
        BY <2>1, <2>5, <3>5
      <4>2. repo[q].created => files'[repo[q].before] = files[repo[q].before]
        BY <2>4, <3>2
      <4>3. repo[q].at = "writing" => files'[repo[q].opened] = files[repo[q].opened]
        BY <2>4, <3>3
      <4> QED
        BY <3>1, <4>1, <4>2, <4>3 DEF AttemptKnown, MayFill, Accepts, UnboundEmpty
    <3> QED
      BY <3>4, <3>5
  <2> QED
    BY <2>1, <2>7, <2>8, <2>9, <2>10 DEF StoreInv
<1> QED
  BY <1>1, <1>2

(* A change to the file an attempt has open, by an attempt that writes it or is
   about to: nobody else writes that file. *)
LEMMA WriterChanges ==
    ASSUME NamesApart, StoreInv, NEW r \in Repositories, NEW g \in FileIds \ destroyed, NEW file \in Files,
           NEW attempt \in Attempts,
           files[g].lock \in {"nobody", r},
           files' = [files EXCEPT ![g] = file], repo' = [repo EXCEPT ![r] = attempt],
           UNCHANGED <<path, moves, destroyed>>,
           file.by = files[g].by, file.kind # "absent",
           file.kind \in Spaces => file.rows \subseteq {file.kind},
           file.kind = "empty" => file.rows = {},
           attempt.created = repo[r].created, attempt.before = repo[r].before,
           \/ attempt.at = "closing"
           \/ /\ attempt.at = "writing" /\ attempt.opened = g /\ g # 0 /\ file.lock = r
              /\ (file.kind = "empty" /\ file.by = r) \/ file.kind = SpaceOf[r] \/ (file.kind = "unbound" /\ file.rows = {})
    PROVE  StoreInv'
<1>1. StoreTyped'
  BY DEF StoreInv, StoreTyped
<1>2. files'[g] = file /\ \A f \in FileIds \ {g} : files'[f] = files[f]
  BY DEF StoreInv, StoreTyped
<1>3. repo'[r] = attempt /\ \A q \in Repositories \ {r} : repo'[q] = repo[q]
  BY DEF StoreInv, StoreTyped
<1>4. \A f \in FileIds : RowsOwn(f)'
  BY <1>2 DEF StoreInv, RowsOwn
<1>5. \A f \in destroyed : DestroyedEmpty(f)'
  BY <1>2 DEF StoreInv, StoreTyped, DestroyedEmpty
<1>6. ASSUME NEW q \in Repositories PROVE AttemptKnown(q)'
  <2>1. AttemptKnown(q) /\ repo[q] \in Attempts
    BY DEF StoreInv, StoreTyped
  <2>2. repo[q].created => /\ repo[q].before \in FileIds /\ files'[repo[q].before].by = q
                           /\ files'[repo[q].before].kind # "absent"
    BY <1>2, <2>1 DEF AttemptKnown, Attempts
  <2>3. CASE q = r
    <3>1. /\ repo'[q] = attempt /\ destroyed' = destroyed
          /\ attempt.created => /\ files'[attempt.before].by = q /\ files'[attempt.before].kind # "absent"
                                /\ attempt.before # 0
      BY <1>3, <2>1, <2>2, <2>3 DEF AttemptKnown
    <3>2. CASE attempt.at = "closing"
      BY <3>1, <3>2 DEF AttemptKnown
    <3>3. CASE attempt.at = "writing"
      <4>1. attempt.opened = g /\ g # 0 /\ files'[g] = file /\ file.lock = q
        BY <1>2, <2>3, <3>3
      <4>2. \/ files'[g].kind = "empty" /\ files'[g].by = q
            \/ files'[g].kind = SpaceOf[q]
            \/ files'[g].kind = "unbound" /\ files'[g].rows = {}
        BY <2>3, <3>3, <4>1
      <4> QED
        BY <3>1, <3>3, <4>1, <4>2 DEF AttemptKnown, MayFill, Accepts, UnboundEmpty
    <3> QED
      BY <3>2, <3>3
  <2>4. CASE q # r
    <3>1. repo[q].at = "writing" => repo[q].opened # g /\ repo[q].opened \in FileIds
      BY <2>1, <2>4 DEF AttemptKnown, Attempts, NamesApart
    <3> QED
      BY <1>2, <1>3, <2>1, <2>2, <2>4, <3>1 DEF AttemptKnown, MayFill, Accepts, UnboundEmpty
  <2> QED
    BY <2>3, <2>4
<1> QED
  BY <1>1, <1>4, <1>5, <1>6 DEF StoreInv

(* Under the writer's lock the file is looked at again. *)
LEMMA BeginWriteKeeps == ASSUME NamesApart, StoreInv, NEW r \in Repositories, BeginWrite(r) PROVE StoreInv'
<1> DEFINE g == repo[r].opened
<1>0. /\ AttemptKnown(r) /\ repo[r] \in Attempts /\ repo \in [Repositories -> Attempts]
      /\ files \in [FileIds -> Files] /\ repo[r].at = "opened" /\ files[g].lock = "nobody"
  BY DEF StoreInv, StoreTyped, BeginWrite
<1>1. g \in FileIds /\ g # 0 /\ g = repo[r].before /\ files[g] \in Files /\ SpaceOf[r] \in Spaces
  BY <1>0 DEF AttemptKnown, Attempts, Spaces
<1>2. CASE path = repo[r].before /\ IF repo[r].created THEN files[g].kind = "empty" ELSE Accepts(r, g)
  <2> DEFINE file == [files[g] EXCEPT !.lock = r]
             attempt == [repo[r] EXCEPT !.at = "writing", !.bound = g]
  <2>1. files' = [files EXCEPT ![g] = file] /\ repo' = [repo EXCEPT ![r] = attempt]
        /\ UNCHANGED <<path, moves, destroyed>>
    BY <1>0, <1>1, <1>2 DEF BeginWrite
  <2>2. g \notin destroyed
    BY <1>1, <1>2 DEF StoreInv, DestroyedEmpty
  <2>3. file \in Files /\ file.kind = files[g].kind /\ file.rows = files[g].rows /\ file.by = files[g].by
        /\ file.lock = r
    BY <1>1 DEF Files
  <2>4. attempt \in Attempts /\ attempt.at = "writing" /\ attempt.opened = g /\ attempt.created = repo[r].created
        /\ attempt.before = repo[r].before
    BY <1>0, <1>1 DEF Attempts, AttemptSteps
  <2>5. \/ files[g].kind = "empty" /\ files[g].by = r
        \/ files[g].kind = SpaceOf[r]
        \/ files[g].kind = "unbound" /\ files[g].rows = {}
    BY <1>0, <1>1, <1>2 DEF AttemptKnown, Accepts, UnboundEmpty
  <2>6. RowsOwn(g) /\ files[g].kind # "absent"
    BY <1>1, <2>5 DEF StoreInv, NamesApart
  <2>7. /\ file.kind \in Spaces => file.rows \subseteq {file.kind}
        /\ file.kind = "empty" => file.rows = {}
        /\ file.kind # "absent"
    BY <2>3, <2>6 DEF RowsOwn
  <2>8. \/ file.kind = "empty" /\ file.by = r
        \/ file.kind = SpaceOf[r]
        \/ file.kind = "unbound" /\ file.rows = {}
    BY <2>3, <2>5
  <2>9. g \in FileIds \ destroyed /\ g # 0 /\ files[g].lock = "nobody"
    BY <1>0, <1>1, <2>2
  <2> HIDE DEF file, attempt, g
  <2> QED
    BY <2>1, <2>3, <2>4, <2>7, <2>8, <2>9, WriterChanges
<1>3. CASE ~(path = repo[r].before /\ IF repo[r].created THEN files[g].kind = "empty" ELSE Accepts(r, g))
  <2> DEFINE attempt == [repo[r] EXCEPT !.at = "closing"]
  <2>1. repo' = [repo EXCEPT ![r] = attempt] /\ UNCHANGED <<path, files, moves, destroyed>>
    BY <1>0, <1>3 DEF BeginWrite, Goes
  <2>2. attempt \in Attempts /\ attempt.at = "closing" /\ attempt.created = repo[r].created
        /\ attempt.before = repo[r].before
    BY <1>0 DEF Attempts, AttemptSteps
  <2> HIDE DEF attempt
  <2> QED
    BY <1>0, <2>1, <2>2, AttemptMoves DEF AttemptKnown
<1> QED
  BY <1>2, <1>3

(* The commit binds the file and stores rows of the repository's own space. *)
LEMMA EndWriteKeeps ==
    ASSUME NamesApart, StoreInv, NEW r \in Repositories, CommitWrite(r) \/ RollBack(r) PROVE StoreInv'
<1> DEFINE g == repo[r].opened
<1>0. /\ AttemptKnown(r) /\ repo[r] \in Attempts /\ repo \in [Repositories -> Attempts]
      /\ files \in [FileIds -> Files] /\ repo[r].at = "writing" /\ SpaceOf[r] \in Spaces
  BY DEF StoreInv, StoreTyped, CommitWrite, RollBack, Spaces
<1>1. /\ g \in FileIds /\ g \notin destroyed /\ files[g] \in Files /\ files[g].lock = r /\ MayFill(r, g)
      /\ RowsOwn(g)
  BY <1>0 DEF AttemptKnown, Attempts, StoreInv
<1>2. files[g].kind # "absent"
  BY <1>0, <1>1 DEF MayFill, Accepts, UnboundEmpty, NamesApart
<1>3. CASE CommitWrite(r) /\ SameFile(r)
  <2> DEFINE file == [files[g] EXCEPT !.lock = "nobody", !.kind = SpaceOf[r], !.rows = @ \cup {SpaceOf[r]}]
             attempt == [repo[r] EXCEPT !.at = "closing", !.committed = TRUE]
  <2>1. files' = [files EXCEPT ![g] = file] /\ repo' = [repo EXCEPT ![r] = attempt]
        /\ UNCHANGED <<path, moves, destroyed>>
    BY <1>0, <1>1, <1>3 DEF CommitWrite
  <2>2. file \in Files /\ file.kind = SpaceOf[r] /\ file.rows = files[g].rows \cup {SpaceOf[r]}
        /\ file.by = files[g].by
    BY <1>0, <1>1 DEF Files, Kinds
  <2>3. attempt \in Attempts /\ attempt.at = "closing" /\ attempt.created = repo[r].created
        /\ attempt.before = repo[r].before
    BY <1>0 DEF Attempts, AttemptSteps
  <2>4. files[g].rows \subseteq {SpaceOf[r]}
    BY <1>0, <1>1 DEF MayFill, Accepts, UnboundEmpty, RowsOwn
  <2>5. SpaceOf[r] # "absent" /\ SpaceOf[r] # "empty"
    BY <1>0 DEF NamesApart
  <2> HIDE DEF file, attempt, g
  <2> QED
    BY <1>1, <2>1, <2>2, <2>3, <2>4, <2>5, WriterChanges
<1>4. CASE RollBack(r) \/ (CommitWrite(r) /\ ~SameFile(r))
  <2> DEFINE file == [files[g] EXCEPT !.lock = "nobody"]
             attempt == [repo[r] EXCEPT !.at = "closing"]
  <2>1. files' = [files EXCEPT ![g] = file] /\ repo' = [repo EXCEPT ![r] = attempt]
        /\ UNCHANGED <<path, moves, destroyed>>
    BY <1>0, <1>1, <1>4 DEF CommitWrite, RollBack, Goes
  <2>2. file \in Files /\ file.kind = files[g].kind /\ file.rows = files[g].rows /\ file.by = files[g].by
    BY <1>1 DEF Files
  <2>3. attempt \in Attempts /\ attempt.at = "closing" /\ attempt.created = repo[r].created
        /\ attempt.before = repo[r].before
    BY <1>0 DEF Attempts, AttemptSteps
  <2> HIDE DEF file, attempt, g
  <2> QED
    BY <1>1, <1>2, <2>1, <2>2, <2>3, WriterChanges DEF RowsOwn
<1> QED
  BY <1>3, <1>4

(* Only the creator removes the file, and nobody can be writing it then. *)
LEMMA UnlinkKeeps == ASSUME NamesApart, StoreInv, NEW r \in Repositories, Unlink(r) PROVE StoreInv'
<1>0. /\ AttemptKnown(r) /\ repo[r] \in Attempts /\ repo \in [Repositories -> Attempts]
      /\ repo[r].at = "unlinking" /\ repo[r].created
  BY DEF StoreInv, StoreTyped, Unlink, AttemptKnown
<1>1. CASE StillOurs(r)
  <2>1. /\ path' = 0 /\ destroyed' = destroyed \cup {path} /\ repo' = [repo EXCEPT ![r] = IdleRepo(0)]
        /\ UNCHANGED <<files, moves>>
    BY <1>1 DEF Unlink
  <2>2. path \in FileIds /\ files[path].kind = "empty" /\ files[path].by = r /\ 0 \notin FileIds
    BY <1>0, <1>1 DEF StillOurs, AttemptKnown, StoreInv, StoreTyped, FileIds, NamesApart
  <2>3. IdleRepo(0) \in Attempts /\ IdleRepo(0).at = "idle" /\ IdleRepo(0).created = FALSE
    BY DEF IdleRepo, Attempts, AttemptSteps
  <2>4. StoreTyped'
    BY <2>1, <2>2, <2>3 DEF StoreInv, StoreTyped
  <2>5. \A f \in destroyed' : DestroyedEmpty(f)'
    BY <2>1, <2>2 DEF StoreInv, StoreTyped, DestroyedEmpty
  <2>6. ASSUME NEW q \in Repositories PROVE AttemptKnown(q)'
    <3>1. AttemptKnown(q) /\ SpaceOf[q] \in Spaces
      BY DEF StoreInv, Spaces
    <3>2. CASE q = r
      BY <1>0, <2>1, <2>3, <3>2 DEF AttemptKnown
    <3>3. CASE q # r
      <4>1. repo'[q] = repo[q]
        BY <1>0, <2>1, <3>3
      <4>2. repo[q].at = "writing" => repo[q].opened # path
        BY <2>2, <3>1, <3>3 DEF AttemptKnown, MayFill, Accepts, UnboundEmpty, NamesApart
      <4> QED
        BY <2>1, <3>1, <4>1, <4>2 DEF AttemptKnown, MayFill, Accepts, UnboundEmpty
    <3> QED
      BY <3>2, <3>3
  <2> QED
    BY <2>1, <2>4, <2>5, <2>6 DEF StoreInv, RowsOwn
<1>2. CASE ~StillOurs(r)
  <2> DEFINE attempt == [repo[r] EXCEPT !.at = "idle"]
  <2>1. repo' = [repo EXCEPT ![r] = attempt] /\ UNCHANGED <<path, files, moves, destroyed>>
    BY <1>0, <1>2 DEF Unlink, Goes
  <2>2. attempt \in Attempts /\ attempt.at = "idle" /\ attempt.created = repo[r].created
        /\ attempt.before = repo[r].before
    BY <1>0 DEF Attempts, AttemptSteps
  <2> HIDE DEF attempt
  <2> QED
    BY <1>0, <2>1, <2>2, AttemptMoves DEF AttemptKnown
<1> QED
  BY <1>1, <1>2

(* A new process: its locks are gone, those of others stay. *)
LEMMA ReopenKeeps == ASSUME NamesApart, StoreInv, NEW r \in Repositories, ReopenRepository(r) PROVE StoreInv'
<1>1. /\ repo' = [repo EXCEPT ![r] = IdleRepo(path)] /\ UNCHANGED <<path, moves, destroyed>>
      /\ files' = [f \in FileIds |-> IF files[f].lock = r THEN [files[f] EXCEPT !.lock = "nobody"] ELSE files[f]]
  BY DEF ReopenRepository
<1>2. /\ files \in [FileIds -> Files] /\ repo \in [Repositories -> Attempts] /\ path \in FileIds \cup {0}
  BY DEF StoreInv, StoreTyped
<1>3. \A f \in FileIds : /\ files'[f] \in Files
                         /\ files'[f].kind = files[f].kind /\ files'[f].rows = files[f].rows
                         /\ files'[f].by = files[f].by
                         /\ files'[f].lock = IF files[f].lock = r THEN "nobody" ELSE files[f].lock
  BY <1>1, <1>2 DEF Files
<1>4. IdleRepo(path) \in Attempts /\ IdleRepo(path).at = "idle" /\ IdleRepo(path).created = FALSE
  BY <1>2 DEF IdleRepo, Attempts, AttemptSteps
<1>5. StoreTyped'
  BY <1>1, <1>2, <1>3, <1>4 DEF StoreInv, StoreTyped
<1>6. (\A f \in FileIds : RowsOwn(f)') /\ (\A f \in destroyed : DestroyedEmpty(f)')
  BY <1>1, <1>3 DEF StoreInv, StoreTyped, RowsOwn, DestroyedEmpty
<1>7. ASSUME NEW q \in Repositories PROVE AttemptKnown(q)'
  <2>1. AttemptKnown(q) /\ repo[q] \in Attempts
    BY <1>2 DEF StoreInv
  <2>2. CASE q = r
    BY <1>1, <1>2, <1>4, <2>2 DEF AttemptKnown
  <2>3. CASE q # r
    <3>1. repo'[q] = repo[q]
      BY <1>1, <1>2, <2>3
    <3>2. repo[q].created => repo[q].before \in FileIds
      BY <2>1 DEF AttemptKnown, Attempts
    <3>3. repo[q].at = "writing" => repo[q].opened \in FileIds
      BY <2>1 DEF AttemptKnown, Attempts
    <3>4. repo[q].created => files'[repo[q].before].by = q /\ files'[repo[q].before].kind # "absent"
      BY <1>3, <2>1, <3>2 DEF AttemptKnown
    <3>5. repo[q].at = "writing" => files'[repo[q].opened].lock = q
      BY <1>3, <2>1, <2>3, <3>3 DEF AttemptKnown
    <3>6. repo[q].at = "writing" => MayFill(q, repo[q].opened)'
      <4>1. ASSUME NEW f \in FileIds, MayFill(q, f)
            PROVE  (files'[f].kind = "empty" /\ files'[f].by = q) \/ files'[f].kind = SpaceOf[q]
                   \/ (files'[f].kind = "unbound" /\ files'[f].rows = {})
        BY <1>3, <4>1 DEF MayFill, Accepts, UnboundEmpty
      <4>2. repo[q].at = "writing" => MayFill(q, repo[q].opened)
        BY <2>1 DEF AttemptKnown
      <4> QED
        BY <3>1, <3>3, <4>1, <4>2 DEF MayFill, Accepts, UnboundEmpty
    <3>7. /\ repo[q].created => repo[q].before # 0
          /\ repo[q].at = "writing" => repo[q].opened # 0 /\ repo[q].opened \notin destroyed
      BY <2>1 DEF AttemptKnown
    <3>8. /\ repo[q].at \in {"created", "cleaning", "unlinking"} => repo[q].created
          /\ repo[q].at = "opened" => repo[q].opened # 0 /\ repo[q].opened = repo[q].before
          /\ repo[q].at = "checked" => ~repo[q].created
      BY <2>1 DEF AttemptKnown
    <3>9. destroyed' = destroyed
      BY <1>1
    <3> QED
      BY <3>1, <3>4, <3>5, <3>6, <3>7, <3>8, <3>9 DEF AttemptKnown
  <2> QED
    BY <2>2, <2>3
<1> QED
  BY <1>1, <1>5, <1>6, <1>7 DEF StoreInv

-----------------------------------------------------------------------------
(* The invariant holds in every reachable state. *)
THEOREM StoreInvariance == ASSUME NamesApart PROVE StoreSpec => []StoreInv
<1>1. StoreInv /\ [StoreNext]_storeVars => StoreInv'
  <2> SUFFICES ASSUME StoreInv, [StoreNext]_storeVars PROVE StoreInv'
    OBVIOUS
  <2>1. CASE UNCHANGED storeVars
    BY <2>1 DEF storeVars, StoreInv, StoreTyped, RowsOwn, DestroyedEmpty, AttemptKnown, MayFill, Accepts, UnboundEmpty
  <2>2. CASE StoreNext
    BY <2>2, InterveneKeeps, QuietSteps, CreateKeeps, BeginWriteKeeps, EndWriteKeeps, UnlinkKeeps, ReopenKeeps
       DEF StoreNext
  <2> QED
    BY <2>1, <2>2
<1> QED
  BY <1>1, StoreInitially, PTL DEF StoreSpec

(* However files are swapped under a connection and between retries
   (transaction, _commit, _cleanup_initialization): rows are stored only in a
   file of their own space, and what a repository removed it had created and
   nobody had written. *)
THEOREM NamespaceIsKept == ASSUME NamesApart PROVE StoreSpec => []NamespaceKept
<1>1. StoreInv => NamespaceKept
  BY DEF StoreInv, StoreTyped, RowsOwn, DestroyedEmpty, NamespaceKept
<1> QED
  BY <1>1, StoreInvariance, PTL

-----------------------------------------------------------------------------
(* WatcherCoverage: what the watcher of a space may claim.                 *)

Tickets == {NoTicket} \cup (Nat \X Nat)
Records == TreeNotes \cup {"created", "arrived", "departed", "overflow", "fence", "unknown"}
Arming == {"arming", "walking", "fencing"}
Reading == {"parsing", "opened", "descending", "finishing", "putting"}
Serving == {"arming", "armed", "serving"}

Among(x, s) == \E i \in DOMAIN s : s[i] = x
IsSequence(s) == \E S : s \in Seq(S)

Natives == [watched : SUBSET {"root", "sub"}, kernel : Seq(Records), fence : {"none", "fresh", "old"},
            open : BOOLEAN, ticket : Tickets, alive : BOOLEAN]
ReadersOf(events) == [at : {"idle", "broken"} \cup Arming \cup Reading, batch : Seq(Records),
                      events : {events}, fenced : BOOLEAN, restore : BOOLEAN, retire : BOOLEAN]
TurnsOf(todo) == [needed : BOOLEAN, again : BOOLEAN, turn : {"none", "full", "targeted"},
                  todo : {todo}, coverage : Tickets]

(* The types; events and queues are sequences where it matters. *)
TreeTyped == tree \in [sub : BOOLEAN, changes : Nat, dirty : SUBSET TreeNotes]
NativeTyped == native \in Natives
ReaderTyped == reader \in ReadersOf(reader.events) /\ (reader.retire \/ reader.events \in Seq(TreeNotes))
PipeTyped ==
    /\ pipe \in [queue : {pipe.queue}, offered : {pipe.offered}, deferred : {pipe.deferred},
                 pending : {pipe.pending}, owed : BOOLEAN]
    /\ IsSequence(pipe.queue)
EvidenceTyped == evidence \in [revision : Nat, restored : Nat, reconciled : Nat, failure : Nat,
                               error : BOOLEAN, verified : Tickets]
WatcherTyped == watcher \in [token : Nat, accepting : BOOLEAN, at : {"off", "stopping", "closing"} \cup Serving,
                             snapshot : Tickets, generations : Nat]
TurnTyped == full \in TurnsOf(full.todo)
CoverageTyped ==
    /\ TreeTyped /\ NativeTyped /\ ReaderTyped /\ PipeTyped
    /\ EvidenceTyped /\ WatcherTyped /\ TurnTyped

(* Evidence only grows, and is never whole while a gap is open, while a
   watcher is being armed, or between two watchers. *)
EvidenceOrdered ==
    /\ evidence.reconciled <= evidence.restored /\ evidence.restored <= evidence.revision
    /\ watcher.generations > 0 /\ (native.open \/ watcher.at \notin {"armed", "serving"}) =>
          evidence.restored < evidence.revision

(* One watcher at a time, and what is there of it in each of its phases. *)
WatcherPhases ==
    /\ watcher.accepting <=> watcher.at \in Serving
    /\ watcher.at = "off" <=> watcher.token = 0
    /\ watcher.token # 0 => watcher.token = watcher.generations
    /\ watcher.at = "off" => /\ native.watched = {} /\ native.kernel = <<>>
                             /\ ~native.open /\ ~native.alive /\ reader.at = "idle"
    /\ reader.at \in Arming => watcher.at \in {"arming", "stopping"} /\ ~native.alive
    /\ watcher.at = "arming" => reader.at \in Arming
    /\ reader.at \in Reading => native.alive

(* The snapshot dates from the start of the watcher, before its first gap;
   monitoring is verified once, and until it fails. *)
SnapshotDated ==
    /\ watcher.accepting =>
          /\ watcher.snapshot \in Nat \X Nat
          /\ watcher.snapshot[1] # evidence.failure => evidence.error
          /\ watcher.snapshot[1] <= evidence.failure
          /\ watcher.snapshot[2] <= evidence.revision
          /\ native.open \/ watcher.at # "arming" => watcher.snapshot[2] < evidence.revision
    /\ evidence.verified # NoTicket =>
          watcher.at = "serving" /\ evidence.verified = <<watcher.token, watcher.snapshot[1]>>

(* The coverage of a turn was whole when the turn began; a turn that ended
   leaves nothing to do. *)
CoverageDated ==
    full.coverage # NoTicket =>
      /\ full.coverage \in Nat \X Nat
      /\ full.coverage[1] <= watcher.generations /\ full.coverage[2] <= evidence.restored
      /\ full.coverage[1] = watcher.token /\ watcher.accepting => watcher.at = "serving"
Ended == full.turn = "none" => full.todo = {}

(* The reader restores watches only within a gap; what retires them leaves no
   fence to close it in the same batch. *)
BatchShape ==
    /\ reader.at \notin {"parsing", "opened"} => reader.batch = <<>>
    /\ reader.at \notin Reading => reader = [IdleReader EXCEPT !.at = reader.at]
    /\ reader.at = "opened" \/ (reader.restore /\ reader.at # "putting") \/ reader.retire => native.open
    /\ reader.at = "descending" => reader.restore
    /\ reader.retire /\ reader.at # "putting" => ~reader.fenced /\ native.fence # "fresh"

(* What is not watched is about to be noticed. *)
InStream(x) == Among(x, native.kernel) \/ Among(x, reader.batch)
RootSeen == "root" \in native.watched \/ InStream("overflow")
SubtreeSeen ==
    tree.sub /\ "sub" \notin native.watched =>
      InStream("overflow") \/ InStream("created") \/ InStream("arrived")
Restoring == reader.restore /\ reader.at \in {"parsing", "opened"}
DirectoriesSeen ==
    /\ reader.at \in {"walking", "descending"} => RootSeen
    /\ reader.at = "fencing" \/ (native.alive /\ reader.at # "descending" /\ ~Restoring) =>
          RootSeen /\ SubtreeSeen

(* Until monitoring fails somebody reads the stream, or is about to report. *)
SomebodyReads ==
    watcher.at \in {"armed", "serving"} /\ watcher.snapshot[1] = evidence.failure =>
      native.alive \/ reader.at = "broken"

(* A change nothing will deliver is owed by a full synchronization, and no
   turn under way is going to pass as that one. *)
Arriving(n) ==
    \/ n \in pipe.offered \/ n \in pipe.deferred \/ n \in pipe.pending \/ n \in full.todo
    \/ Among(n, pipe.queue) \/ Among(n, reader.events)
    \/ InStream(n) \/ InStream("overflow")
    \/ DirOf(n) = "sub" /\ (InStream("created") \/ InStream("arrived") \/ InStream("departed"))
    \/ pipe.owed \/ reader.at = "broken"
Missed(n) == watcher.generations > 0 /\ n \in tree.dirty /\ ~Arriving(n)
Doubted == evidence.error \/ evidence.reconciled # evidence.revision
WillReconcile ==
    /\ watcher.accepting /\ full.coverage = <<watcher.token, evidence.revision>>
    /\ evidence.verified = <<watcher.token, evidence.failure>>
OwedToReconcile ==
    /\ full.needed \/ Doubted
    /\ full.turn = "full" /\ ~full.again => Doubted /\ ~WillReconcile
MissedIsOwed == \A n \in TreeNotes : Missed(n) => OwedToReconcile

CoverageInv ==
    /\ CoverageTyped
    /\ EvidenceOrdered /\ WatcherPhases /\ SnapshotDated /\ CoverageDated /\ Ended
    /\ BatchShape /\ DirectoriesSeen /\ SomebodyReads /\ MissedIsOwed

-----------------------------------------------------------------------------
(* What is in a stream or a queue when a record is added, taken or retired. *)

LEMMA NothingInEmpty == \A x : ~Among(x, <<>>)
BY DEF Among

LEMMA EmptyIsSequence == (\A S : <<>> \in Seq(S)) /\ IsSequence(<<>>)
BY EmptySeq DEF IsSequence

LEMMA AmongAppended ==
    ASSUME NEW S, NEW s \in Seq(S), NEW y \in S
    PROVE  Append(s, y) \in Seq(S) /\ \A x : Among(x, Append(s, y)) <=> Among(x, s) \/ x = y
<1>1. /\ Append(s, y) \in Seq(S) /\ Len(Append(s, y)) = Len(s) + 1
      /\ \A i \in 1..Len(s) : Append(s, y)[i] = s[i]
      /\ Append(s, y)[Len(s) + 1] = y /\ Len(s) \in Nat
  BY AppendProperties
<1>2. DOMAIN s = 1..Len(s) /\ DOMAIN Append(s, y) = 1..(Len(s) + 1)
  BY <1>1, LenProperties
<1> QED
  BY <1>1, <1>2 DEF Among

LEMMA AmongTaken ==
    ASSUME NEW S, NEW s \in Seq(S), s # <<>>
    PROVE  /\ Tail(s) \in Seq(S) /\ Head(s) \in S
           /\ \A x : Among(x, s) <=> x = Head(s) \/ Among(x, Tail(s))
<1>1. /\ Head(s) \in S /\ Tail(s) \in Seq(S) /\ Head(s) = s[1]
      /\ Len(Tail(s)) = Len(s) - 1 /\ \A i \in 1..(Len(s) - 1) : Tail(s)[i] = s[i + 1]
  BY HeadTailProperties
<1>2. Len(s) \in Nat \ {0} /\ DOMAIN s = 1..Len(s) /\ DOMAIN Tail(s) = 1..(Len(s) - 1)
  BY <1>1, LenProperties, EmptySeq
<1>3. ASSUME NEW i \in 1..Len(s), i # 1 PROVE i - 1 \in 1..(Len(s) - 1) /\ Tail(s)[i - 1] = s[i]
  BY <1>1, <1>2, <1>3
<1>4. ASSUME NEW i \in 1..(Len(s) - 1) PROVE i + 1 \in 1..Len(s) /\ Tail(s)[i] = s[i + 1]
  BY <1>1, <1>2, <1>4
<1>5. ASSUME NEW x, Among(x, s) PROVE x = Head(s) \/ Among(x, Tail(s))
  BY <1>1, <1>2, <1>3, <1>5 DEF Among
<1>6. ASSUME NEW x, x = Head(s) \/ Among(x, Tail(s)) PROVE Among(x, s)
  BY <1>1, <1>2, <1>4, <1>6 DEF Among
<1> QED
  BY <1>1, <1>5, <1>6

LEMMA AmongBoth ==
    ASSUME NEW S, NEW s \in Seq(S), NEW t \in Seq(S)
    PROVE  \A x : Among(x, s \o t) <=> Among(x, s) \/ Among(x, t)
<1>1. /\ Len(s \o t) = Len(s) + Len(t) /\ Len(s) \in Nat /\ Len(t) \in Nat
      /\ \A i \in 1..(Len(s) + Len(t)) : (s \o t)[i] = IF i <= Len(s) THEN s[i] ELSE t[i - Len(s)]
  BY ConcatProperties
<1>2. DOMAIN s = 1..Len(s) /\ DOMAIN t = 1..Len(t) /\ DOMAIN (s \o t) = 1..(Len(s) + Len(t))
  BY <1>1, LenProperties, ConcatProperties
<1>3. ASSUME NEW i \in 1..Len(s) PROVE i \in 1..(Len(s) + Len(t)) /\ (s \o t)[i] = s[i]
  BY <1>1, <1>3
<1>4. ASSUME NEW i \in 1..Len(t) PROVE i + Len(s) \in 1..(Len(s) + Len(t)) /\ (s \o t)[i + Len(s)] = t[i]
  BY <1>1, <1>4
<1>5. ASSUME NEW i \in 1..(Len(s) + Len(t))
      PROVE  \/ i \in 1..Len(s) /\ (s \o t)[i] = s[i]
             \/ i - Len(s) \in 1..Len(t) /\ (s \o t)[i] = t[i - Len(s)]
  BY <1>1, <1>5
<1> QED
  BY <1>2, <1>3, <1>4, <1>5 DEF Among

LEMMA AmongUnmapped ==
    ASSUME NEW s \in Seq(Records), NEW lost
    PROVE  /\ Unmapped(s, lost) \in Seq(Records)
           /\ \A x : Among(x, s) /\ x \notin lost => Among(x, Unmapped(s, lost))
           /\ s = <<>> => Unmapped(s, lost) = <<>>
<1>1. DOMAIN s = 1..Len(s) /\ Len(s) \in Nat /\ \A i \in 1..Len(s) : s[i] \in Records
  BY LenProperties, ElementOfSeq
<1>2. "unknown" \in Records
  BY DEF Records
<1>3. Unmapped(s, lost) \in Seq(Records)
  BY <1>1, <1>2, IsASeq DEF Unmapped
<1>4. s = <<>> => Unmapped(s, lost) = <<>>
  BY <1>1, <1>3, EmptySeq, LenProperties DEF Unmapped
<1> QED
  BY <1>1, <1>3, <1>4 DEF Unmapped, Among

LEMMA RecordedThere ==
    ASSUME native.kernel \in Seq(Records), NEW record \in Records
    PROVE  /\ Recorded(record) \in Seq(Records)
           /\ \A x : Among(x, native.kernel) => Among(x, Recorded(record))
           /\ Among(record, Recorded(record)) \/ Among("overflow", Recorded(record))
<1> DEFINE k == native.kernel
<1>1. /\ Append(k, record) \in Seq(Records) /\ Append(k, "overflow") \in Seq(Records)
      /\ \A x : Among(x, Append(k, record)) <=> Among(x, k) \/ x = record
      /\ \A x : Among(x, Append(k, "overflow")) <=> Among(x, k) \/ x = "overflow"
  BY AmongAppended DEF Records
<1>2. Len(k) >= KernelLimit /\ k[Len(k)] = "overflow" => Among("overflow", k)
  <2>1. Len(k) \in Nat /\ DOMAIN k = 1..Len(k)
    BY LenProperties
  <2> QED
    BY <2>1, CoverageAssumption DEF Among
<1>3. Len(k) \in Nat /\ KernelLimit \in Nat
  BY LenProperties, CoverageAssumption
<1> QED
  BY <1>1, <1>2, <1>3 DEF Recorded

(* OnItsWay looks for a change in the same places as Arriving. *)
LEMMA ArrivingIsOnItsWay ==
    ASSUME CoverageTyped, NEW n \in TreeNotes
    PROVE  Arriving(n) <=> OnItsWay(n)
<1> DEFINE stream == native.kernel \o reader.batch
<1>1. native.kernel \in Seq(Records) /\ reader.batch \in Seq(Records)
  BY DEF CoverageTyped, NativeTyped, ReaderTyped, Natives, ReadersOf
<1>2. \A x : Among(x, stream) <=> InStream(x)
  BY <1>1, AmongBoth DEF InStream
<1>3. (\E i \in DOMAIN stream : stream[i] \in
          {n, "overflow"} \cup (IF DirOf(n) = "sub" THEN {"created", "arrived", "departed"} ELSE {}))
       <=> \/ InStream(n) \/ InStream("overflow")
           \/ DirOf(n) = "sub" /\ (InStream("created") \/ InStream("arrived") \/ InStream("departed"))
  BY <1>2 DEF Among
<1> QED
  BY <1>3 DEF Arriving, OnItsWay, Among
-----------------------------------------------------------------------------
(* What the steps do to the evidence and the owner's turn.                 *)

LEMMA RequestedKeeps ==
    ASSUME CoverageTyped
    PROVE  /\ Requested(full).needed /\ Requested(full).turn = full.turn
           /\ Requested(full).todo = full.todo /\ Requested(full).coverage = full.coverage
           /\ Requested(full).again = (full.again \/ full.turn # "none")
           /\ Requested(full) \in TurnsOf(full.todo)
<1> DEFINE again == full.again \/ full.turn # "none"
<1>1. again \in BOOLEAN /\ full \in TurnsOf(full.todo)
  BY DEF CoverageTyped, TurnTyped
<1>2. Requested(full) = [full EXCEPT !.needed = TRUE, !.again = again]
  BY DEF Requested
<1> HIDE DEF again
<1>3. Requested(full) \in TurnsOf(full.todo)
  BY <1>1, <1>2 DEF TurnsOf
<1>4. /\ Requested(full).needed /\ Requested(full).turn = full.turn /\ Requested(full).todo = full.todo
      /\ Requested(full).coverage = full.coverage /\ Requested(full).again = again
  BY <1>1, <1>2
<1> QED
  BY <1>3, <1>4 DEF again

(* A step that asks for a full synchronization, or does not. *)
DebtKept ==
    /\ full' \in TurnsOf(full.todo)
    /\ full'.turn = full.turn /\ full'.todo = full.todo /\ full'.coverage = full.coverage
    /\ (full.needed => full'.needed) /\ (full.again => full'.again)

DebtAsked == DebtKept /\ full'.needed /\ (full.turn # "none" => full'.again)

LEMMA Asked == ASSUME CoverageTyped, full' = Requested(full) PROVE DebtAsked
BY RequestedKeeps DEF DebtAsked, DebtKept

LEMMA AskedOrNot == ASSUME CoverageTyped, full' \in {full, Requested(full)} PROVE DebtKept
<1>1. CASE full' = full
  BY <1>1 DEF DebtKept, CoverageTyped, TurnTyped
<1>2. CASE full' = Requested(full)
  BY <1>2, Asked DEF DebtAsked
<1> QED
  BY <1>1, <1>2

(* A gap makes the evidence of a watcher that is accepting incomplete. *)
LEMMA GapOpens ==
    ASSUME CoverageTyped, Gap(TRUE)
    PROVE  /\ \E ticket \in Tickets : native' = [native EXCEPT !.open = TRUE, !.ticket = ticket]
           /\ evidence' = IF watcher.token # 0 /\ watcher.accepting
                          THEN [evidence EXCEPT !.revision = @ + 1] ELSE evidence
           /\ full' \in {full, Requested(full)}
<1>1. evidence.revision + 1 \in Nat /\ evidence.failure \in Nat
  BY DEF CoverageTyped, EvidenceTyped
<1>2. NoTicket \in Tickets /\ <<evidence.revision + 1, evidence.failure>> \in Tickets
  BY <1>1 DEF Tickets
<1>3. CASE watcher.token # 0 /\ watcher.accepting
  <2>1. native' = [native EXCEPT !.open = TRUE, !.ticket = <<evidence.revision + 1, evidence.failure>>]
    BY <1>3 DEF Gap
  <2> QED
    BY <1>2, <1>3, <2>1 DEF Gap
<1>4. CASE ~(watcher.token # 0 /\ watcher.accepting)
  BY <1>2, <1>4 DEF Gap
<1> QED
  BY <1>3, <1>4

LEMMA GapCloses ==
    ASSUME CoverageTyped, Restored
    PROVE  /\ \/ evidence' = evidence
              \/ /\ evidence' = [evidence EXCEPT !.restored = evidence.revision]
                 /\ watcher.accepting /\ evidence.restored < evidence.revision
           /\ full' \in {full, Requested(full)}
BY DEF Restored, TicketHolds

LEMMA MonitoringFails ==
    ASSUME CoverageTyped, Failed
    PROVE  /\ evidence' = [evidence EXCEPT !.error = TRUE, !.failure = @ + 1, !.verified = NoTicket,
                                           !.revision = IF evidence.error THEN @ ELSE @ + 1]
           /\ full' \in {full, Requested(full)}
BY DEF Failed

(* A change is recorded where its directory is watched. *)
LEMMA ChangeRecorded ==
    ASSUME CoverageTyped, NEW dir \in {"root", "sub"}, NEW record \in Records,
           NEW note \in TreeNotes, NEW exists \in BOOLEAN,
           Change(dir, record, note, exists)
    PROVE  /\ tree' = [sub |-> exists, changes |-> tree.changes + 1, dirty |-> tree.dirty \cup {note}]
           /\ native' \in Natives /\ native'.open = native.open /\ native'.alive = native.alive
           /\ native'.fence = native.fence
           /\ native'.watched = IF exists THEN native.watched ELSE native.watched \ {"sub"}
           /\ native'.kernel \in Seq(Records)
           /\ \A x : Among(x, native.kernel) => Among(x, native'.kernel)
           /\ dir \in native.watched =>
                 Among(record, native'.kernel) \/ Among("overflow", native'.kernel)
           /\ native.watched = {} => native'.kernel = native.kernel
           /\ UNCHANGED <<reader, pipe, evidence, watcher, full>>
<1>1. native.kernel \in Seq(Records) /\ native \in Natives
  BY DEF CoverageTyped, NativeTyped, Natives
<1>2. native.watched = {} => native'.kernel = native.kernel
  BY DEF Change
<1> QED
  BY <1>1, <1>2, RecordedThere DEF Change, Natives

Changes == (\E n \in TreeNotes : EditNote(n)) \/ CreateSubtree \/ MoveSubtreeIn \/ MoveSubtreeOut

ChangesEffect ==
    /\ UNCHANGED <<reader, pipe, evidence, watcher, full>>
    /\ native'.kernel \in Seq(Records)
    /\ native'.watched = IF tree'.sub THEN native.watched ELSE native.watched \ {"sub"}
    /\ native' \in Natives /\ native'.open = native.open /\ native'.alive = native.alive
    /\ native'.fence = native.fence
    /\ \A x : Among(x, native.kernel) => Among(x, native'.kernel)
    /\ native.watched = {} => native'.kernel = native.kernel
    /\ \E dir \in {"root", "sub"}, record \in Records, note \in TreeNotes, exists \in BOOLEAN :
         /\ tree' = [sub |-> exists, changes |-> tree.changes + 1, dirty |-> tree.dirty \cup {note}]
         /\ dir \in native.watched =>
               Among(record, native'.kernel) \/ Among("overflow", native'.kernel)
         /\ dir = "sub" => tree.sub /\ DirOf(note) = "sub"
         /\ exists /\ ~tree.sub => dir = "root" /\ record \in {"created", "arrived"}
         /\ record = note \/ (DirOf(note) = "sub" /\ record \in {"created", "arrived", "departed"})

LEMMA ChangesRecorded == ASSUME CoverageInv, Changes PROVE ChangesEffect
<1>1. \E dir \in {"root", "sub"}, record \in Records, note \in TreeNotes, exists \in BOOLEAN :
         /\ Change(dir, record, note, exists)
         /\ dir = "sub" => tree.sub /\ DirOf(note) = "sub"
         /\ exists /\ ~tree.sub => dir = "root" /\ record \in {"created", "arrived"}
         /\ record = note \/ (DirOf(note) = "sub" /\ record \in {"created", "arrived", "departed"})
  <2>1. ASSUME NEW n \in TreeNotes, EditNote(n)
        PROVE  /\ Change(DirOf(n), n, n, tree.sub) /\ DirOf(n) \in {"root", "sub"} /\ n \in Records
               /\ tree.sub \in BOOLEAN /\ (DirOf(n) = "sub" => tree.sub)
    BY <2>1 DEF EditNote, TreeNotes, DirOf, Records, CoverageInv, CoverageTyped, TreeTyped
  <2>2. CASE CreateSubtree
    <3>1. Change("root", "created", "nested", TRUE) /\ ~tree.sub
      BY <2>2 DEF CreateSubtree
    <3> QED
      BY <3>1 DEF TreeNotes, Records, DirOf
  <2>3. CASE MoveSubtreeIn
    <3>1. Change("root", "arrived", "nested", TRUE) /\ ~tree.sub
      BY <2>3 DEF MoveSubtreeIn
    <3> QED
      BY <3>1 DEF TreeNotes, Records, DirOf
  <2>4. CASE MoveSubtreeOut
    <3>1. Change("root", "departed", "nested", FALSE)
      BY <2>4 DEF MoveSubtreeOut
    <3> QED
      BY <3>1 DEF TreeNotes, Records, DirOf
  <2> QED
    BY <2>1, <2>2, <2>3, <2>4 DEF Changes
<1>2. PICK dir \in {"root", "sub"}, record \in Records, note \in TreeNotes, exists \in BOOLEAN :
         /\ Change(dir, record, note, exists)
         /\ dir = "sub" => tree.sub /\ DirOf(note) = "sub"
         /\ exists /\ ~tree.sub => dir = "root" /\ record \in {"created", "arrived"}
         /\ record = note \/ (DirOf(note) = "sub" /\ record \in {"created", "arrived", "departed"})
  BY <1>1
<1>3. /\ tree' = [sub |-> exists, changes |-> tree.changes + 1, dirty |-> tree.dirty \cup {note}]
      /\ native' \in Natives /\ native'.open = native.open /\ native'.alive = native.alive
      /\ native'.fence = native.fence
      /\ native'.watched = IF exists THEN native.watched ELSE native.watched \ {"sub"}
      /\ native'.kernel \in Seq(Records)
      /\ \A x : Among(x, native.kernel) => Among(x, native'.kernel)
      /\ dir \in native.watched =>
            Among(record, native'.kernel) \/ Among("overflow", native'.kernel)
      /\ native.watched = {} => native'.kernel = native.kernel
      /\ UNCHANGED <<reader, pipe, evidence, watcher, full>>
  BY <1>2, ChangeRecorded DEF CoverageInv
<1>4. tree'.sub = exists
  BY <1>3
<1> QED
  BY <1>2, <1>3, <1>4 DEF ChangesEffect

(* One operation after the other, for those whose helpers change much. *)

OpenGapEffect ==
    /\ reader' = [reader EXCEPT !.at = "opened"] /\ reader.at = "parsing"
    /\ \E ticket \in Tickets : native' = [native EXCEPT !.open = TRUE, !.ticket = ticket]
    /\ evidence' = IF watcher.accepting THEN [evidence EXCEPT !.revision = @ + 1] ELSE evidence
    /\ DebtKept
    /\ UNCHANGED <<tree, pipe, watcher>>

LEMMA OpenGapDoes == ASSUME CoverageInv, OpenGap PROVE OpenGapEffect
<1>1. CoverageTyped /\ (watcher.accepting => watcher.token # 0)
  BY DEF CoverageInv, WatcherPhases, Serving
<1> QED
  BY <1>1, GapOpens, AskedOrNot DEF OpenGap, OpenGapEffect

ArmGapEffect ==
    /\ reader.at = "fencing" /\ ~native.open
    /\ \E ticket \in Tickets : native' = [native EXCEPT !.open = TRUE, !.ticket = ticket]
    /\ evidence' = IF watcher.accepting THEN [evidence EXCEPT !.revision = @ + 1] ELSE evidence
    /\ DebtKept
    /\ UNCHANGED <<tree, reader, pipe, watcher>>

LEMMA ArmGapDoes == ASSUME CoverageInv, ArmGap PROVE ArmGapEffect
<1>1. CoverageTyped /\ (watcher.accepting => watcher.token # 0)
  BY DEF CoverageInv, WatcherPhases, Serving
<1> QED
  BY <1>1, GapOpens, AskedOrNot DEF ArmGap, ArmGapEffect

FinishBatchEffect ==
    /\ reader' = [reader EXCEPT !.at = "putting"] /\ reader.at = "finishing"
    /\ native' \in Natives /\ native'.watched = native.watched /\ native'.alive = native.alive
    /\ native'.open = (native.open /\ ~reader.fenced)
    /\ \A x : Among(x, native.kernel) => Among(x, native'.kernel)
    /\ evidence' = [evidence EXCEPT !.restored = evidence'.restored]
    /\ \/ evidence'.restored = evidence.restored
       \/ /\ evidence'.restored = evidence.revision /\ evidence.restored < evidence.revision
          /\ ~native'.open /\ watcher.at \in {"armed", "serving"}
    /\ DebtKept
    /\ UNCHANGED <<tree, pipe, watcher>>

LEMMA FinishBatchDoes == ASSUME CoverageInv, FinishBatch PROVE FinishBatchEffect
<1>1. CoverageTyped /\ native \in Natives /\ native.kernel \in Seq(Records) /\ "fence" \in Records
  BY DEF CoverageInv, CoverageTyped, NativeTyped, Natives, Records
<1>2. CASE native.open /\ reader.fenced
  <2>1. native' = [native EXCEPT !.open = FALSE, !.ticket = NoTicket]
    BY <1>2 DEF FinishBatch
  <2>2. native' \in Natives /\ native'.watched = native.watched /\ native'.alive = native.alive
        /\ native'.open = FALSE /\ native'.kernel = native.kernel
    BY <1>1, <2>1 DEF Natives, Tickets
  <2>3. watcher.accepting => watcher.at \in {"armed", "serving"}
    BY DEF FinishBatch, CoverageInv, WatcherPhases, Reading, Serving
  <2>4. /\ evidence' = [evidence EXCEPT !.restored = evidence'.restored]
        /\ \/ evidence'.restored = evidence.restored
           \/ /\ evidence'.restored = evidence.revision /\ evidence.restored < evidence.revision
              /\ watcher.accepting
    BY <1>1, <1>2, GapCloses DEF FinishBatch, CoverageTyped, EvidenceTyped
  <2>5. DebtKept
    BY <1>1, <1>2, GapCloses, AskedOrNot DEF FinishBatch
  <2> QED
    BY <1>2, <2>2, <2>3, <2>4, <2>5 DEF FinishBatch, FinishBatchEffect
<1>3. CASE ~(native.open /\ reader.fenced)
  <2>1. native' = native \/ native' = [native EXCEPT !.fence = "fresh", !.kernel = Recorded("fence")]
    BY <1>3 DEF FinishBatch, OwnerFenced
  <2>2. /\ native' \in Natives /\ native'.watched = native.watched /\ native'.alive = native.alive
        /\ native'.open = native.open
        /\ \A x : Among(x, native.kernel) => Among(x, native'.kernel)
    <3>1. CASE native' = native
      BY <1>1, <3>1
    <3>2. CASE native' = [native EXCEPT !.fence = "fresh", !.kernel = Recorded("fence")]
      <4>1. /\ Recorded("fence") \in Seq(Records)
            /\ \A x : Among(x, native.kernel) => Among(x, Recorded("fence"))
        BY <1>1, RecordedThere
      <4> QED
        BY <1>1, <3>2, <4>1 DEF Natives
    <3> QED
      BY <2>1, <3>1, <3>2
  <2> QED
    BY <1>1, <1>3, <2>2, AskedOrNot DEF FinishBatch, FinishBatchEffect, Natives, CoverageTyped,
       EvidenceTyped
<1> QED
  BY <1>2, <1>3

ReportFailureEffect ==
    /\ reader' = IdleReader /\ reader.at = "broken"
    /\ evidence' = [evidence EXCEPT !.error = TRUE, !.failure = @ + 1, !.verified = NoTicket,
                                    !.revision = IF evidence.error THEN @ ELSE @ + 1]
    /\ DebtKept
    /\ UNCHANGED <<tree, native, pipe, watcher>>

LEMMA ReportFailureDoes == ASSUME CoverageInv, ReportFailure PROVE ReportFailureEffect
BY MonitoringFails, AskedOrNot DEF ReportFailure, CoverageInv, ReportFailureEffect

RootCheckEffect ==
    /\ watcher.at = "serving"
    /\ evidence' = [evidence EXCEPT !.error = TRUE, !.failure = @ + 1, !.verified = NoTicket,
                                    !.revision = IF evidence.error THEN @ ELSE @ + 1]
    /\ DebtKept
    /\ UNCHANGED <<tree, native, reader, pipe, watcher>>

LEMMA RootCheckDoes == ASSUME CoverageInv, RootCheckFails PROVE RootCheckEffect
BY MonitoringFails, AskedOrNot DEF RootCheckFails, CoverageInv, RootCheckEffect

(* The first gap of a watcher is younger than its snapshot. *)
ServeWatcherEffect ==
    /\ watcher' = [watcher EXCEPT !.at = "serving"] /\ watcher.at = "armed"
    /\ evidence' = IF watcher.snapshot[1] = evidence.failure
                   THEN [evidence EXCEPT !.verified = <<watcher.token, evidence.failure>>]
                   ELSE evidence
    /\ DebtKept
    /\ UNCHANGED <<tree, native, reader, pipe>>

LEMMA ServeWatcherDoes == ASSUME CoverageInv, ServeWatcher PROVE ServeWatcherEffect
<1>1. watcher.at = "armed" /\ watcher.accepting
  BY DEF ServeWatcher, CoverageInv, WatcherPhases, Serving
<1>2. watcher.snapshot[2] < evidence.revision /\ watcher.snapshot[2] \in Nat /\ evidence.revision \in Nat
  BY <1>1 DEF CoverageInv, CoverageTyped, EvidenceTyped, SnapshotDated
<1>3. ~Unchanged
  BY <1>2 DEF Unchanged
<1> QED
  BY <1>1, <1>3, AskedOrNot DEF ServeWatcher, Reconstructed, CoverageInv, ServeWatcherEffect

(* The reader takes the first record of its batch. *)
Takes(record) ==
    /\ reader.at \in {"parsing", "opened"} /\ native.alive /\ reader'.at = "parsing"
    /\ reader' \in ReadersOf(reader'.events)
    /\ \A x : Among(x, reader.batch) <=> x = record \/ Among(x, reader'.batch)

LEMMA BatchTaken ==
    ASSUME CoverageTyped, reader.batch # <<>>
    PROVE  /\ Tail(reader.batch) \in Seq(Records) /\ Head(reader.batch) \in Records
           /\ \A x : Among(x, reader.batch) <=> x = Head(reader.batch) \/ Among(x, Tail(reader.batch))
BY AmongTaken DEF CoverageTyped, ReaderTyped, ReadersOf

LEMMA ReaderAlive ==
    ASSUME CoverageInv
    PROVE  /\ reader.at \in {"parsing", "opened"} => native.alive
           /\ reader.at \in {"parsing", "opened"} /\ native.open => watcher.generations > 0
           /\ CoverageTyped /\ native \in Natives /\ reader \in ReadersOf(reader.events)
           /\ reader.batch \in Seq(Records) /\ native.kernel \in Seq(Records)
           /\ reader.retire \/ reader.events \in Seq(TreeNotes)
BY DEF CoverageInv, CoverageTyped, NativeTyped, ReaderTyped, WatcherTyped, WatcherPhases,
   Natives, ReadersOf, Reading

ParseNoteEffect(n) ==
    /\ Takes(n) /\ DebtKept /\ reader.at = "parsing"
    /\ reader'.restore = reader.restore /\ reader'.retire = reader.retire /\ reader'.fenced = reader.fenced
    /\ reader.retire \/ /\ reader'.events \in Seq(TreeNotes)
                        /\ \A x : Among(x, reader.events) => Among(x, reader'.events)
                        /\ Among(n, reader'.events) \/ DebtAsked
    /\ UNCHANGED <<tree, native, pipe, evidence, watcher>>

LEMMA ParseNoteDoes == ASSUME CoverageInv, NEW n \in TreeNotes, ParseNote(n) PROVE ParseNoteEffect(n)
<1>1. reader.batch # <<>> /\ Head(reader.batch) = n /\ reader.at = "parsing"
  BY DEF ParseNote, Parsing
<1>2. /\ Tail(reader.batch) \in Seq(Records)
      /\ \A x : Among(x, reader.batch) <=> x = n \/ Among(x, Tail(reader.batch))
  BY <1>1, BatchTaken, ReaderAlive
<1>3. \E events : /\ reader' = [reader EXCEPT !.batch = Tail(@), !.events = events]
                  /\ events = IF Len(reader.events) < EventLimit THEN Append(reader.events, n) ELSE reader.events
  BY DEF ParseNote, Parsed, Retain
<1>4. /\ reader' \in ReadersOf(reader'.events) /\ reader'.at = "parsing"
      /\ reader'.batch = Tail(reader.batch) /\ reader'.restore = reader.restore
      /\ reader'.retire = reader.retire /\ reader'.fenced = reader.fenced
      /\ reader'.events = IF Len(reader.events) < EventLimit THEN Append(reader.events, n) ELSE reader.events
  BY <1>1, <1>2, <1>3, ReaderAlive DEF ReadersOf
<1>5. DebtKept /\ (RetainLoses(reader) => DebtAsked)
  <2>1. CASE RetainLoses(reader)
    <3>1. DebtAsked
      BY <2>1, Asked, ReaderAlive DEF ParseNote
    <3> QED
      BY <3>1 DEF DebtAsked
  <2>2. CASE ~RetainLoses(reader)
    BY <2>2, AskedOrNot, ReaderAlive DEF ParseNote
  <2> QED
    BY <2>1, <2>2
<1>6. CASE reader.retire
  BY <1>1, <1>2, <1>4, <1>5, <1>6, ReaderAlive DEF ParseNote, ParseNoteEffect, Takes
<1>7. CASE reader.events \in Seq(TreeNotes)
  <2>1. /\ Append(reader.events, n) \in Seq(TreeNotes)
        /\ \A x : Among(x, Append(reader.events, n)) <=> Among(x, reader.events) \/ x = n
    BY <1>7, AmongAppended
  <2>2. Len(reader.events) < EventLimit \/ RetainLoses(reader)
    BY <1>7, LenProperties, CoverageAssumption DEF RetainLoses
  <2> QED
    BY <1>1, <1>2, <1>4, <1>5, <1>7, <2>1, <2>2, ReaderAlive DEF ParseNote, ParseNoteEffect,
       Takes
<1> QED
  BY <1>6, <1>7, ReaderAlive

ParseUnknownEffect ==
    /\ Takes("unknown") /\ DebtKept /\ reader.at = "parsing"
    /\ reader' = [reader EXCEPT !.batch = reader'.batch]
    /\ UNCHANGED <<tree, native, pipe, evidence, watcher>>

LEMMA ParseUnknownDoes == ASSUME CoverageInv, ParseUnknown PROVE ParseUnknownEffect
<1>1. /\ reader.batch # <<>> /\ Head(reader.batch) = "unknown" /\ reader.at = "parsing"
      /\ reader' = [reader EXCEPT !.batch = Tail(reader.batch)]
  BY DEF ParseUnknown, Parsing, Parsed
<1>2. /\ Tail(reader.batch) \in Seq(Records)
      /\ \A x : Among(x, reader.batch) <=> x = "unknown" \/ Among(x, Tail(reader.batch))
  BY <1>1, BatchTaken, ReaderAlive
<1>3. /\ reader' \in ReadersOf(reader'.events) /\ reader'.at = "parsing" /\ reader'.batch = Tail(reader.batch)
  BY <1>1, <1>2, ReaderAlive DEF ReadersOf
<1> QED
  BY <1>1, <1>2, <1>3, AskedOrNot, ReaderAlive DEF ParseUnknown, ParseUnknownEffect, Takes

ParseFenceEffect ==
    /\ Takes("fence") /\ reader.at = "parsing"
    /\ reader' = [reader EXCEPT !.batch = reader'.batch, !.fenced = native.fence = "fresh"]
    /\ native' = [native EXCEPT !.fence = "none"]
    /\ UNCHANGED <<tree, pipe, evidence, watcher, full>>

LEMMA ParseFenceDoes == ASSUME CoverageInv, ParseFence PROVE ParseFenceEffect
<1>1. /\ reader.batch # <<>> /\ Head(reader.batch) = "fence" /\ reader.at = "parsing"
      /\ reader' = [reader EXCEPT !.batch = Tail(reader.batch), !.fenced = native.fence = "fresh"]
  BY DEF ParseFence, Parsing, Parsed
<1>2. /\ Tail(reader.batch) \in Seq(Records)
      /\ \A x : Among(x, reader.batch) <=> x = "fence" \/ Among(x, Tail(reader.batch))
  BY <1>1, BatchTaken, ReaderAlive
<1>3. /\ reader' \in ReadersOf(reader'.events) /\ reader'.at = "parsing" /\ reader'.batch = Tail(reader.batch)
  <2>1. reader \in ReadersOf(reader.events)
    BY ReaderAlive
  <2>2. reader'.at = "parsing" /\ reader'.batch = Tail(reader.batch)
    BY <1>1, <2>1 DEF ReadersOf
  <2>3. reader' \in ReadersOf(reader.events) /\ reader'.events = reader.events
    <3>1. CASE native.fence = "fresh"
      <4>1. reader' = [reader EXCEPT !.batch = Tail(reader.batch), !.fenced = TRUE]
        BY <1>1, <3>1
      <4> QED
        BY <1>2, <2>1, <4>1 DEF ReadersOf
    <3>2. CASE native.fence # "fresh"
      <4>1. reader' = [reader EXCEPT !.batch = Tail(reader.batch), !.fenced = FALSE]
        BY <1>1, <3>2
      <4> QED
        BY <1>2, <2>1, <4>1 DEF ReadersOf
    <3> QED
      BY <3>1, <3>2
  <2> QED
    BY <2>2, <2>3
<1>4. Takes("fence")
  BY <1>1, <1>2, <1>3, ReaderAlive DEF Takes
<1>5. UNCHANGED <<tree, pipe, evidence, watcher, full>> /\ native' = [native EXCEPT !.fence = "none"]
  BY DEF ParseFence
<1>6. reader' = [reader EXCEPT !.batch = reader'.batch, !.fenced = native.fence = "fresh"]
  BY <1>1, <1>3
<1> QED
  BY <1>1, <1>4, <1>5, <1>6 DEF ParseFenceEffect

(* Watches change only within a gap. *)
ParseOverflowEffect ==
    /\ native.open /\ native.alive /\ reader.at \in {"parsing", "opened"}
    /\ native' \in Natives /\ native'.open /\ native'.alive /\ native'.fence = "none"
    /\ reader' \in ReadersOf(<<>>) /\ reader'.at = "parsing" /\ reader'.restore /\ ~reader'.fenced
    /\ reader'.events = <<>>
    /\ UNCHANGED <<tree, pipe, evidence, watcher, full>>

LEMMA ParseOverflowDoes == ASSUME CoverageInv, ParseOverflow PROVE ParseOverflowEffect
<1>1. reader.batch # <<>> /\ reader.at = "opened"
  BY DEF ParseOverflow, Acting, NeedsGap
<1>2. native.open /\ native.alive
  BY <1>1, ReaderAlive DEF CoverageInv, BatchShape
<1> DEFINE kernel == Unmapped(native.kernel, OfWatches \cup {"fence"})
           batch == Unmapped(Tail(reader.batch), OfWatches \cup {"fence"})
<1>3. kernel \in Seq(Records) /\ batch \in Seq(Records)
  BY <1>1, BatchTaken, AmongUnmapped, ReaderAlive
<1>4. /\ native' = [native EXCEPT !.fence = "none", !.watched = {}, !.kernel = kernel]
      /\ reader' = [reader EXCEPT !.at = "parsing", !.batch = batch, !.fenced = FALSE,
                                  !.events = <<>>, !.restore = TRUE]
  BY DEF ParseOverflow, Acted
<1> HIDE DEF kernel, batch
<1>5. native' \in Natives /\ native'.open /\ native'.alive /\ native'.fence = "none"
  BY <1>2, <1>3, <1>4, ReaderAlive DEF Natives
<1>6. /\ reader' \in ReadersOf(<<>>) /\ reader'.at = "parsing" /\ reader'.restore /\ ~reader'.fenced
      /\ reader'.events = <<>>
  BY <1>3, <1>4, ReaderAlive DEF ReadersOf, Reading
<1> QED
  BY <1>1, <1>2, <1>5, <1>6 DEF ParseOverflow, ParseOverflowEffect

ParseCreatedEffect ==
    /\ native.open /\ Takes("created") /\ DebtKept
    /\ native' \in Natives /\ native'.open /\ native'.alive /\ native'.fence # "fresh"
    /\ native'.kernel = native.kernel
    /\ native'.watched = IF tree.sub THEN native.watched \cup {"sub"} ELSE native.watched
    /\ reader'.restore = reader.restore /\ reader'.retire = reader.retire /\ ~reader'.fenced
    /\ reader.retire \/ reader'.events \in Seq(TreeNotes)
    /\ UNCHANGED <<tree, pipe, evidence, watcher>>

LEMMA ParseCreatedDoes == ASSUME CoverageInv, ParseCreated PROVE ParseCreatedEffect
<1>1. /\ reader.batch # <<>> /\ Head(reader.batch) = "created" /\ reader.at \in {"parsing", "opened"}
      /\ native.open
  BY DEF ParseCreated, Acting, NeedsGap, CoverageInv, BatchShape
<1>2. /\ Tail(reader.batch) \in Seq(Records)
      /\ \A x : Among(x, reader.batch) <=> x = "created" \/ Among(x, Tail(reader.batch))
  BY <1>1, BatchTaken, ReaderAlive
<1>3. \E events \in {reader.events, Append(reader.events, "nested")} :
         reader' = [reader EXCEPT !.at = "parsing", !.batch = Tail(reader.batch), !.fenced = FALSE,
                                  !.events = events]
  BY DEF ParseCreated, Acted, Retain
<1>4. /\ reader' \in ReadersOf(reader'.events) /\ reader'.at = "parsing"
      /\ reader'.batch = Tail(reader.batch) /\ reader'.restore = reader.restore
      /\ reader'.retire = reader.retire /\ ~reader'.fenced
      /\ reader'.events \in {reader.events, Append(reader.events, "nested")}
  BY <1>2, <1>3, ReaderAlive DEF ReadersOf, Reading
<1>5. /\ native' \in Natives /\ native'.open /\ native'.alive /\ native'.fence # "fresh"
      /\ native'.kernel = native.kernel
      /\ native'.watched = IF tree.sub THEN native.watched \cup {"sub"} ELSE native.watched
  BY <1>1, ReaderAlive DEF ParseCreated, Outdated, Natives
<1>6. reader.retire \/ reader'.events \in Seq(TreeNotes)
  BY <1>4, AmongAppended, ReaderAlive DEF TreeNotes
<1> QED
  BY <1>1, <1>2, <1>4, <1>5, <1>6, AskedOrNot, ReaderAlive DEF ParseCreated, ParseCreatedEffect,
     Takes

(* What a move retires is read within a gap. *)
ParseMovedEffect ==
    /\ native.open /\ reader.at \in {"parsing", "opened"} /\ native.alive
    /\ native' \in Natives /\ native'.open /\ native'.alive /\ native'.fence # "fresh"
    /\ native'.watched = native.watched \ {"sub"}
    /\ reader' \in ReadersOf(reader'.events) /\ reader'.at = "parsing" /\ reader'.restore /\ reader'.retire
    /\ ~reader'.fenced
    /\ UNCHANGED <<tree, pipe, evidence, watcher, full>>

LEMMA ParseMovedDoes ==
    ASSUME CoverageInv, ParseMoved("arrived") \/ ParseMoved("departed") PROVE ParseMovedEffect
<1>1. PICK record \in {"arrived", "departed"} : ParseMoved(record)
  OBVIOUS
<1>2. /\ native \in Natives /\ reader \in ReadersOf(reader.events)
      /\ reader.batch \in Seq(Records) /\ native.kernel \in Seq(Records) /\ reader.batch # <<>>
  BY <1>1 DEF ParseMoved, Acting, CoverageInv, CoverageTyped, NativeTyped, ReaderTyped, Natives,
     ReadersOf
<1>3. native.open /\ native.alive /\ reader.at \in {"parsing", "opened"}
  BY <1>1 DEF ParseMoved, Acting, NeedsGap, CoverageInv, WatcherPhases, BatchShape, Reading
<1> DEFINE kernel == Unmapped(native.kernel, {"nested"})
           batch == Unmapped(Tail(reader.batch), {"nested"})
<1>4. kernel \in Seq(Records) /\ batch \in Seq(Records)
  BY <1>2, AmongTaken, AmongUnmapped
<1>5. /\ native' = [native EXCEPT !.fence = Outdated(@), !.watched = @ \ {"sub"}, !.kernel = kernel]
      /\ UNCHANGED <<tree, pipe, evidence, watcher, full>>
      /\ \E events : reader' = [reader EXCEPT !.at = "parsing", !.batch = batch, !.fenced = FALSE,
                                              !.restore = TRUE, !.retire = TRUE, !.events = events]
  <2>1. /\ native' = [native EXCEPT !.fence = Outdated(@), !.watched = @ \ {"sub"}, !.kernel = kernel]
        /\ UNCHANGED <<tree, pipe, evidence, watcher, full>>
    BY <1>1, <1>2 DEF ParseMoved, Natives
  <2> DEFINE acted == [reader EXCEPT !.at = "parsing", !.batch = Tail(@), !.fenced = FALSE]
  <2>2. acted = Acted(reader)
    BY <1>2 DEF Acted, Parsed, ReadersOf
  <2>3. PICK events : reader' = [acted EXCEPT !.restore = TRUE, !.retire = TRUE,
                                              !.batch = Unmapped(@, {"nested"}), !.events = events]
    BY <1>1, <2>2 DEF ParseMoved
  <2>4. reader' = [reader EXCEPT !.at = "parsing", !.batch = batch, !.fenced = FALSE,
                                 !.restore = TRUE, !.retire = TRUE, !.events = events]
    BY <1>2, <2>3 DEF ReadersOf
  <2> QED
    BY <2>1, <2>4
<1> HIDE DEF kernel, batch
<1>6. /\ native' \in Natives /\ native'.open /\ native'.alive /\ native'.fence # "fresh"
      /\ native'.watched = native.watched \ {"sub"}
  BY <1>2, <1>3, <1>4, <1>5 DEF Natives, Outdated
<1>7. /\ reader' \in ReadersOf(reader'.events) /\ reader'.at = "parsing" /\ reader'.restore /\ reader'.retire
      /\ ~reader'.fenced
  BY <1>2, <1>4, <1>5 DEF ReadersOf, Reading
<1> QED
  BY <1>3, <1>5, <1>6, <1>7 DEF ParseMovedEffect

RestoreRootEffect ==
    /\ reader.at = "parsing" /\ reader.batch = <<>> /\ reader.restore /\ native.open /\ native.alive
    /\ native' \in Natives /\ native'.open /\ native'.alive /\ native'.fence = native.fence
    /\ "root" \in native'.watched
    /\ reader' = [reader EXCEPT !.at = "descending"]
    /\ UNCHANGED <<tree, pipe, evidence, watcher, full>>

LEMMA RestoreRootDoes == ASSUME CoverageInv, RestoreRoot PROVE RestoreRootEffect
<1>1. reader.at = "parsing" /\ reader.batch = <<>> /\ reader.restore /\ native.open /\ native.alive
  BY ReaderAlive DEF RestoreRoot, CoverageInv, BatchShape
<1>2. Unmapped(native.kernel, OfWatches) \in Seq(Records)
  BY AmongUnmapped, ReaderAlive
<1>3. \/ native' = [native EXCEPT !.watched = {"root"}, !.kernel = Unmapped(native.kernel, OfWatches)]
      \/ native' = [native EXCEPT !.watched = native.watched \cup {"root"}]
  BY DEF RestoreRoot
<1>4. /\ native' \in Natives /\ native'.open /\ native'.alive /\ native'.fence = native.fence
      /\ "root" \in native'.watched
  BY <1>1, <1>2, <1>3, ReaderAlive DEF Natives
<1> QED
  BY <1>1, <1>4 DEF RestoreRoot, RestoreRootEffect

(* An event moves on to the queue or leaves a loss to report. *)
PutEventEffect ==
    /\ ~pipe.owed /\ reader.at = "putting" /\ reader' = [reader EXCEPT !.events = reader'.events]
    /\ pipe' = [pipe EXCEPT !.queue = pipe'.queue, !.owed = pipe'.owed]
    /\ IsSequence(pipe'.queue) /\ pipe'.owed \in BOOLEAN
    /\ \A x : Among(x, pipe.queue) => Among(x, pipe'.queue)
    /\ reader.retire \/ /\ reader'.events \in Seq(TreeNotes)
                        /\ \A x : Among(x, reader.events) =>
                              Among(x, reader'.events) \/ Among(x, pipe'.queue) \/ pipe'.owed
    /\ UNCHANGED <<tree, native, evidence, watcher, full>>

LEMMA QueueAppended ==
    ASSUME NEW q, IsSequence(q), NEW y
    PROVE  /\ IsSequence(Append(q, y))
           /\ \A x : Among(x, Append(q, y)) <=> Among(x, q) \/ x = y
<1>1. PICK S : q \in Seq(S)
  BY DEF IsSequence
<1>2. q \in Seq(S \cup {y})
  BY <1>1, SeqMonotonic
<1>3. y \in S \cup {y}
  OBVIOUS
<1> QED
  BY <1>2, <1>3, AmongAppended DEF IsSequence

LEMMA QueueTaken ==
    ASSUME NEW q, IsSequence(q), q # <<>>
    PROVE  /\ IsSequence(Tail(q))
           /\ \A x : Among(x, q) <=> x = Head(q) \/ Among(x, Tail(q))
<1>1. PICK S : q \in Seq(S)
  BY DEF IsSequence
<1> QED
  BY <1>1, AmongTaken DEF IsSequence

LEMMA PutEventDoes == ASSUME CoverageInv, PutEvent PROVE PutEventEffect
<1>1. /\ reader.at = "putting" /\ reader.events # <<>> /\ reader' = [reader EXCEPT !.events = Tail(reader.events)]
      /\ UNCHANGED <<tree, native, evidence, watcher, full>>
  BY DEF PutEvent
<1>2. reader'.events = Tail(reader.events)
  BY <1>1
<1>3. /\ IsSequence(pipe.queue) /\ IsSequence(Append(pipe.queue, Head(reader.events)))
      /\ \A x : Among(x, Append(pipe.queue, Head(reader.events))) <=> Among(x, pipe.queue) \/ x = Head(reader.events)
  BY QueueAppended DEF CoverageInv, CoverageTyped, PipeTyped
<1>4. reader.retire \/ /\ reader'.events \in Seq(TreeNotes)
                       /\ \A x : Among(x, reader.events) <=> x = Head(reader.events) \/ Among(x, reader'.events)
  BY <1>1, <1>2, AmongTaken, ReaderAlive
<1>5. \/ /\ pipe' = [pipe EXCEPT !.queue = pipe'.queue, !.owed = pipe'.owed]
         /\ pipe'.queue = Append(pipe.queue, Head(reader.events)) /\ pipe'.owed = pipe.owed
      \/ /\ pipe' = [pipe EXCEPT !.queue = pipe'.queue, !.owed = pipe'.owed]
         /\ pipe'.queue = pipe.queue /\ pipe'.owed
  BY DEF PutEvent, CoverageInv, CoverageTyped, PipeTyped
<1>6. pipe.owed \in BOOLEAN
  BY DEF CoverageInv, CoverageTyped, PipeTyped
<1> QED
  BY <1>1, <1>2, <1>3, <1>4, <1>5, <1>6 DEF PutEvent, PutEventEffect

(* An event of a queue is offered, or owed; unless nobody accepts events. *)
OfferEffect ==
    /\ IsSequence(pipe'.queue) /\ pipe.offered \subseteq pipe'.offered
    /\ pipe' = [pipe EXCEPT !.queue = pipe'.queue, !.offered = pipe'.offered]
    /\ \A x : Among(x, pipe.queue) =>
          Among(x, pipe'.queue) \/ x \in pipe'.offered \/ ~watcher.accepting \/ DebtAsked
    /\ DebtKept
    /\ UNCHANGED <<tree, native, reader, evidence, watcher>>

LEMMA OfferDoes == ASSUME CoverageInv, Offer PROVE OfferEffect
<1>1. /\ IsSequence(pipe.queue) /\ pipe.queue # <<>> /\ CoverageTyped
      /\ UNCHANGED <<tree, native, reader, evidence, watcher>>
  BY DEF Offer, CoverageInv, CoverageTyped, PipeTyped
<1>2. /\ IsSequence(Tail(pipe.queue))
      /\ \A x : Among(x, pipe.queue) <=> x = Head(pipe.queue) \/ Among(x, Tail(pipe.queue))
  BY <1>1, QueueTaken
<1> DEFINE trusted == CanReconcile(evidence) /\ ~evidence.error
<1>3. CASE watcher.accepting /\ trusted
  <2>1. pipe' = [pipe EXCEPT !.queue = Tail(pipe.queue), !.offered = pipe.offered \cup {Head(pipe.queue)}]
    BY <1>1, <1>3 DEF Offer
  <2>2. /\ pipe' = [pipe EXCEPT !.queue = pipe'.queue, !.offered = pipe'.offered]
        /\ pipe'.queue = Tail(pipe.queue) /\ pipe'.offered = pipe.offered \cup {Head(pipe.queue)}
    BY <1>1, <2>1
  <2>3. DebtKept
    BY <1>1, <1>3, AskedOrNot DEF Offer
  <2> QED
    BY <1>1, <1>2, <2>2, <2>3 DEF OfferEffect
<1>4. CASE ~(watcher.accepting /\ trusted)
  <2>1. pipe' = [pipe EXCEPT !.queue = Tail(pipe.queue)]
    BY <1>4 DEF Offer
  <2>2. /\ pipe' = [pipe EXCEPT !.queue = pipe'.queue, !.offered = pipe'.offered]
        /\ pipe'.queue = Tail(pipe.queue) /\ pipe'.offered = pipe.offered
    BY <1>1, <2>1 DEF CoverageTyped, PipeTyped
  <2>3. watcher.accepting => DebtAsked
    BY <1>1, <1>4, Asked DEF Offer
  <2>4. DebtKept
    BY <1>1, AskedOrNot DEF Offer
  <2> QED
    BY <1>1, <1>2, <2>2, <2>3, <2>4 DEF OfferEffect
<1> QED
  BY <1>3, <1>4

(* A watcher that is armed reads everything since its root was watched. *)
ArmedEffect ==
    /\ reader.at = "fencing" /\ reader' = IdleReader
    /\ native' \in Natives /\ native'.alive /\ native'.watched = native.watched
    /\ native.open /\ native'.open
    /\ \A x : Among(x, native.kernel) => Among(x, native'.kernel)
    /\ watcher' = [watcher EXCEPT !.at = IF watcher.at = "arming" THEN "armed" ELSE watcher.at]
    /\ UNCHANGED <<tree, pipe, evidence, full>>

LEMMA ArmedDoes == ASSUME CoverageInv, Armed PROVE ArmedEffect
<1>1. /\ Recorded("fence") \in Seq(Records)
      /\ \A x : Among(x, native.kernel) => Among(x, Recorded("fence"))
  BY RecordedThere, ReaderAlive DEF Records
<1>2. native' = [native EXCEPT !.fence = "fresh", !.kernel = Recorded("fence"), !.alive = TRUE]
  BY DEF Armed, OwnerFenced
<1>3. /\ native' \in Natives /\ native'.alive /\ native'.watched = native.watched
      /\ native.open => native'.open
      /\ native'.kernel = Recorded("fence")
  BY <1>1, <1>2, ReaderAlive DEF Natives
<1> QED
  BY <1>1, <1>3 DEF Armed, ArmedEffect

(* Every step, by what it does. *)
CoverageStep ==
    \/ ChangesEffect \/ OpenGapEffect \/ ParseUnknownEffect \/ ParseOverflowEffect
    \/ ParseCreatedEffect \/ ParseMovedEffect \/ ParseFenceEffect \/ RestoreRootEffect
    \/ FinishBatchEffect \/ ReportFailureEffect \/ PutEventEffect \/ OfferEffect
    \/ ArmGapEffect \/ ArmedEffect \/ ServeWatcherEffect \/ RootCheckEffect
    \/ \E n \in TreeNotes : ParseNoteEffect(n) \/ Debounce(n) \/ Deliver(n) \/ IndexOne(n)
    \/ ReadBatch \/ RestoreSubtree \/ NothingToRestore \/ ReaderBreaks \/ BatchPut \/ ReportLoss
    \/ ClaimTurn \/ TurnCompletes \/ TurnBreaks \/ StartWatcher \/ ArmRoot
    \/ ArmSubtree \/ StopAdmission \/ CloseIngress \/ DetachWatcher
    \/ UNCHANGED coverageVars

LEMMA StepDoes == ASSUME CoverageInv, [CoverageNext]_coverageVars PROVE CoverageStep
BY ParseNoteDoes, ParseUnknownDoes, ParseFenceDoes, ParseOverflowDoes, ParseCreatedDoes,
   RestoreRootDoes, PutEventDoes, OfferDoes, ArmedDoes, ParseMovedDoes, ChangesRecorded,
   OpenGapDoes, ArmGapDoes, FinishBatchDoes, ReportFailureDoes, RootCheckDoes, ServeWatcherDoes
   DEF CoverageNext, CoverageStep, Changes

-----------------------------------------------------------------------------
(* The steps, one conjunct of the invariant at a time. *)

(* Every step keeps the evidence ordered. *)
LEMMA EvidenceKept ==
    ASSUME CoverageInv, CoverageStep
    PROVE  EvidenceOrdered'
<1>1. ASSUME ChangesEffect PROVE EvidenceOrdered'
  BY <1>1 DEF ChangesEffect, CoverageInv, EvidenceOrdered
<1>2. ASSUME ReadBatch PROVE EvidenceOrdered'
  BY <1>2 DEF ReadBatch, CoverageInv, EvidenceOrdered
<1>3. ASSUME OpenGapEffect PROVE EvidenceOrdered'
  BY <1>3 DEF OpenGapEffect, CoverageInv, CoverageTyped, EvidenceTyped, EvidenceOrdered,
     WatcherPhases, Serving
<1>4. ASSUME ParseOverflowEffect PROVE EvidenceOrdered'
  BY <1>4 DEF ParseOverflowEffect, CoverageInv, EvidenceOrdered
<1>5. ASSUME ParseCreatedEffect PROVE EvidenceOrdered'
  BY <1>5 DEF ParseCreatedEffect, CoverageInv, EvidenceOrdered
<1>6. ASSUME ParseMovedEffect PROVE EvidenceOrdered'
  BY <1>6 DEF ParseMovedEffect, CoverageInv, EvidenceOrdered
<1>7. ASSUME ParseFenceEffect PROVE EvidenceOrdered'
  BY <1>7 DEF ParseFenceEffect, CoverageInv, EvidenceOrdered
<1>8. ASSUME RestoreRootEffect PROVE EvidenceOrdered'
  BY <1>8 DEF RestoreRootEffect, CoverageInv, EvidenceOrdered
<1>9. ASSUME RestoreSubtree PROVE EvidenceOrdered'
  BY <1>9 DEF RestoreSubtree, CoverageInv, EvidenceOrdered
<1>10. ASSUME FinishBatchEffect PROVE EvidenceOrdered'
  <2>1. EvidenceTyped /\ EvidenceOrdered
    BY DEF CoverageInv, CoverageTyped
  <2>2. evidence' = [evidence EXCEPT !.restored = evidence'.restored] /\ UNCHANGED watcher
    BY <1>10 DEF FinishBatchEffect
  <2>3. /\ evidence'.reconciled = evidence.reconciled /\ evidence'.revision = evidence.revision
        /\ {evidence.reconciled, evidence.restored, evidence.revision} \subseteq Nat
    BY <2>1, <2>2 DEF EvidenceTyped
  <2>4. CASE evidence'.restored = evidence.restored
    <3>1. native'.open => native.open
      BY <1>10 DEF FinishBatchEffect
    <3> QED
      BY <2>1, <2>2, <2>3, <2>4, <3>1 DEF EvidenceOrdered
  <2>5. CASE /\ evidence'.restored = evidence.revision /\ evidence.restored < evidence.revision
             /\ ~native'.open /\ watcher.at \in {"armed", "serving"}
    BY <2>1, <2>2, <2>3, <2>5 DEF EvidenceOrdered
  <2> QED
    BY <1>10, <2>4, <2>5 DEF FinishBatchEffect
<1>11. ASSUME ReaderBreaks PROVE EvidenceOrdered'
  BY <1>11 DEF ReaderBreaks, CoverageInv, EvidenceOrdered
<1>12. ASSUME ReportFailureEffect PROVE EvidenceOrdered'
  BY <1>12 DEF ReportFailureEffect, CoverageInv, CoverageTyped, EvidenceTyped, EvidenceOrdered
<1>13. ASSUME TurnCompletes PROVE EvidenceOrdered'
  BY <1>13 DEF TurnCompletes, TurnEnded, Reconciles, CanReconcile, CoverageInv, EvidenceOrdered
<1>14. ASSUME StartWatcher PROVE EvidenceOrdered'
  BY <1>14 DEF StartWatcher, CoverageInv, CoverageTyped, EvidenceTyped, EvidenceOrdered
<1>15. ASSUME ArmRoot PROVE EvidenceOrdered'
  BY <1>15 DEF ArmRoot, CoverageInv, EvidenceOrdered
<1>16. ASSUME ArmSubtree PROVE EvidenceOrdered'
  BY <1>16 DEF ArmSubtree, CoverageInv, EvidenceOrdered
<1>17. ASSUME ArmGapEffect PROVE EvidenceOrdered'
  BY <1>17 DEF ArmGapEffect, CoverageInv, CoverageTyped, EvidenceTyped, EvidenceOrdered,
     WatcherPhases, Serving
<1>18. ASSUME ArmedEffect PROVE EvidenceOrdered'
  BY <1>18 DEF ArmedEffect, CoverageInv, EvidenceOrdered
<1>19. ASSUME ServeWatcherEffect PROVE EvidenceOrdered'
  BY <1>19 DEF ServeWatcherEffect, CoverageInv, EvidenceOrdered
<1>20. ASSUME RootCheckEffect PROVE EvidenceOrdered'
  BY <1>20 DEF RootCheckEffect, CoverageInv, CoverageTyped, EvidenceTyped, EvidenceOrdered
<1>21. ASSUME StopAdmission PROVE EvidenceOrdered'
  BY <1>21 DEF StopAdmission, CoverageInv, CoverageTyped, EvidenceTyped, EvidenceOrdered
<1>22. ASSUME CloseIngress PROVE EvidenceOrdered'
  BY <1>22 DEF CloseIngress, CoverageInv, EvidenceOrdered
<1>23. ASSUME DetachWatcher PROVE EvidenceOrdered'
  BY <1>23 DEF DetachWatcher, CoverageInv, EvidenceOrdered
<1>24. ASSUME ParseUnknownEffect \/ NothingToRestore \/ PutEventEffect \/ BatchPut \/ ReportLoss
            \/ OfferEffect \/ ClaimTurn \/ TurnBreaks
      PROVE  EvidenceOrdered'
  BY <1>24 DEF ParseUnknownEffect, NothingToRestore, PutEventEffect, BatchPut, ReportLoss,
     OfferEffect, ClaimTurn, TurnBreaks, CoverageInv, EvidenceOrdered
<1>25. ASSUME NEW n \in TreeNotes, ParseNoteEffect(n) \/ Debounce(n) \/ Deliver(n) \/ IndexOne(n)
      PROVE  EvidenceOrdered'
  BY <1>25 DEF ParseNoteEffect, Debounce, Deliver, IndexOne, CoverageInv, EvidenceOrdered
<1>26. CASE UNCHANGED coverageVars
  BY <1>26 DEF coverageVars, CoverageInv, EvidenceOrdered
<1> QED
  BY <1>1, <1>2, <1>3, <1>4, <1>5, <1>6, <1>7, <1>8, <1>9, <1>10, <1>11, <1>12, <1>13, <1>14,
     <1>15, <1>16, <1>17, <1>18, <1>19, <1>20, <1>21, <1>22, <1>23, <1>24, <1>25, <1>26 DEF
     CoverageStep

(* Every step keeps the phases of a watcher. *)
LEMMA PhasesKept ==
    ASSUME CoverageInv, CoverageStep
    PROVE  WatcherPhases'
<1>1. ASSUME ChangesEffect PROVE WatcherPhases'
  BY <1>1 DEF ChangesEffect, CoverageInv, WatcherPhases
<1>2. ASSUME ReadBatch PROVE WatcherPhases'
  BY <1>2 DEF ReadBatch, CoverageInv, WatcherPhases, Arming
<1>3. ASSUME OpenGapEffect PROVE WatcherPhases'
  BY <1>3 DEF OpenGapEffect, CoverageInv, WatcherPhases, Arming, Reading
<1>4. ASSUME NEW n \in TreeNotes, ParseNoteEffect(n) PROVE WatcherPhases'
  BY <1>4 DEF ParseNoteEffect, Takes, CoverageInv, WatcherPhases
<1>5. ASSUME ParseUnknownEffect PROVE WatcherPhases'
  BY <1>5 DEF ParseUnknownEffect, Takes, CoverageInv, WatcherPhases
<1>6. ASSUME ParseOverflowEffect PROVE WatcherPhases'
  BY <1>6 DEF ParseOverflowEffect, CoverageInv, WatcherPhases, Arming
<1>7. ASSUME ParseCreatedEffect PROVE WatcherPhases'
  BY <1>7 DEF ParseCreatedEffect, Takes, CoverageInv, WatcherPhases, Arming
<1>8. ASSUME ParseMovedEffect PROVE WatcherPhases'
  BY <1>8 DEF ParseMovedEffect, CoverageInv, WatcherPhases, Arming
<1>9. ASSUME ParseFenceEffect PROVE WatcherPhases'
  BY <1>9 DEF ParseFenceEffect, Takes, CoverageInv, WatcherPhases
<1>10. ASSUME RestoreRootEffect PROVE WatcherPhases'
  BY <1>10 DEF RestoreRootEffect, CoverageInv, WatcherPhases, Arming
<1>11. ASSUME RestoreSubtree PROVE WatcherPhases'
  BY <1>11 DEF RestoreSubtree, CoverageInv, WatcherPhases, Arming, Reading
<1>12. ASSUME NothingToRestore PROVE WatcherPhases'
  BY <1>12 DEF NothingToRestore, CoverageInv, WatcherPhases, Arming, Reading
<1>13. ASSUME FinishBatchEffect PROVE WatcherPhases'
  BY <1>13 DEF FinishBatchEffect, CoverageInv, WatcherPhases, Arming, Reading
<1>14. ASSUME ReaderBreaks PROVE WatcherPhases'
  BY <1>14 DEF ReaderBreaks, CoverageInv, WatcherPhases, Arming, Reading
<1>15. ASSUME ReportFailureEffect PROVE WatcherPhases'
  BY <1>15 DEF ReportFailureEffect, CoverageInv, WatcherPhases, Arming, Reading, IdleReader
<1>16. ASSUME PutEventEffect PROVE WatcherPhases'
  BY <1>16 DEF PutEventEffect, CoverageInv, CoverageTyped, ReaderTyped, ReadersOf, WatcherPhases
<1>17. ASSUME BatchPut PROVE WatcherPhases'
  BY <1>17 DEF BatchPut, IdleReader, CoverageInv, WatcherPhases, Arming, Reading
<1>18. ASSUME StartWatcher PROVE WatcherPhases'
  BY <1>18 DEF StartWatcher, CoverageInv, CoverageTyped, WatcherTyped, WatcherPhases, Arming,
     Reading, Serving
<1>19. ASSUME ArmRoot PROVE WatcherPhases'
  BY <1>19 DEF ArmRoot, CoverageInv, WatcherPhases, Arming, Reading
<1>20. ASSUME ArmSubtree PROVE WatcherPhases'
  BY <1>20 DEF ArmSubtree, CoverageInv, WatcherPhases, Arming, Reading
<1>21. ASSUME ArmGapEffect PROVE WatcherPhases'
  BY <1>21 DEF ArmGapEffect, CoverageInv, WatcherPhases
<1>22. ASSUME ArmedEffect PROVE WatcherPhases'
  BY <1>22 DEF ArmedEffect, CoverageInv, WatcherPhases, Arming, Serving, IdleReader
<1>23. ASSUME ServeWatcherEffect PROVE WatcherPhases'
  BY <1>23 DEF ServeWatcherEffect, CoverageInv, WatcherPhases, Serving
<1>24. ASSUME StopAdmission PROVE WatcherPhases'
  BY <1>24 DEF StopAdmission, CoverageInv, WatcherPhases, Serving
<1>25. ASSUME CloseIngress PROVE WatcherPhases'
  BY <1>25 DEF CloseIngress, CoverageInv, WatcherPhases, Arming, Serving
<1>26. ASSUME DetachWatcher PROVE WatcherPhases'
  BY <1>26 DEF DetachWatcher, NoNative, CoverageInv, WatcherPhases, Reading, Serving
<1>27. ASSUME ReportLoss \/ OfferEffect \/ ClaimTurn \/ TurnCompletes \/ TurnBreaks \/
            RootCheckEffect
      PROVE  WatcherPhases'
  BY <1>27 DEF ReportLoss, OfferEffect, ClaimTurn, TurnCompletes, TurnBreaks, RootCheckEffect,
     CoverageInv, WatcherPhases
<1>28. ASSUME NEW n \in TreeNotes, Debounce(n) \/ Deliver(n) \/ IndexOne(n)
      PROVE  WatcherPhases'
  BY <1>28 DEF Debounce, Deliver, IndexOne, CoverageInv, WatcherPhases
<1>29. CASE UNCHANGED coverageVars
  BY <1>29 DEF coverageVars, CoverageInv, WatcherPhases
<1> QED
  BY <1>1, <1>2, <1>3, <1>4, <1>5, <1>6, <1>7, <1>8, <1>9, <1>10, <1>11, <1>12, <1>13, <1>14,
     <1>15, <1>16, <1>17, <1>18, <1>19, <1>20, <1>21, <1>22, <1>23, <1>24, <1>25, <1>26, <1>27,
     <1>28, <1>29 DEF CoverageStep

(* Every step keeps snapshot and verification of a watcher dated. *)
LEMMA SnapshotKept ==
    ASSUME CoverageInv, CoverageStep
    PROVE  SnapshotDated'
<1>1. ASSUME ChangesEffect PROVE SnapshotDated'
  BY <1>1 DEF ChangesEffect, CoverageInv, SnapshotDated
<1>2. ASSUME ReadBatch PROVE SnapshotDated'
  BY <1>2 DEF ReadBatch, CoverageInv, SnapshotDated
<1>3. ASSUME OpenGapEffect PROVE SnapshotDated'
  BY <1>3 DEF OpenGapEffect, CoverageInv, CoverageTyped, EvidenceTyped, SnapshotDated
<1>4. ASSUME ParseOverflowEffect PROVE SnapshotDated'
  BY <1>4 DEF ParseOverflowEffect, CoverageInv, SnapshotDated
<1>5. ASSUME ParseCreatedEffect PROVE SnapshotDated'
  BY <1>5 DEF ParseCreatedEffect, CoverageInv, SnapshotDated
<1>6. ASSUME ParseMovedEffect PROVE SnapshotDated'
  BY <1>6 DEF ParseMovedEffect, CoverageInv, SnapshotDated
<1>7. ASSUME ParseFenceEffect PROVE SnapshotDated'
  BY <1>7 DEF ParseFenceEffect, CoverageInv, SnapshotDated
<1>8. ASSUME RestoreRootEffect PROVE SnapshotDated'
  BY <1>8 DEF RestoreRootEffect, CoverageInv, SnapshotDated
<1>9. ASSUME RestoreSubtree PROVE SnapshotDated'
  BY <1>9 DEF RestoreSubtree, CoverageInv, SnapshotDated
<1>10. ASSUME FinishBatchEffect PROVE SnapshotDated'
  BY <1>10 DEF FinishBatchEffect, CoverageInv, CoverageTyped, EvidenceTyped, SnapshotDated
<1>11. ASSUME ReaderBreaks PROVE SnapshotDated'
  BY <1>11 DEF ReaderBreaks, CoverageInv, SnapshotDated
<1>12. ASSUME ReportFailureEffect PROVE SnapshotDated'
  BY <1>12 DEF ReportFailureEffect, CoverageInv, CoverageTyped, EvidenceTyped, SnapshotDated
<1>13. ASSUME TurnCompletes PROVE SnapshotDated'
  <2>1. full.turn = "full" /\ watcher.accepting /\ CanReconcile(evidence) =>
          watcher.snapshot[1] = evidence.failure
    BY DEF CanReconcile, CoverageInv, SnapshotDated, NoTicket
  <2>2. /\ UNCHANGED <<native, watcher>>
        /\ \/ evidence' = evidence
           \/ /\ evidence' = [evidence EXCEPT !.reconciled = evidence.revision, !.error = FALSE]
              /\ watcher.snapshot[1] = evidence.failure
    BY <1>13, <2>1 DEF TurnCompletes, Reconciles
  <2> QED
    BY <2>2 DEF CoverageInv, CoverageTyped, EvidenceTyped, SnapshotDated
<1>14. ASSUME StartWatcher PROVE SnapshotDated'
  BY <1>14 DEF StartWatcher, CoverageInv, CoverageTyped, EvidenceTyped, WatcherPhases,
     SnapshotDated
<1>15. ASSUME ArmRoot PROVE SnapshotDated'
  BY <1>15 DEF ArmRoot, CoverageInv, SnapshotDated
<1>16. ASSUME ArmSubtree PROVE SnapshotDated'
  BY <1>16 DEF ArmSubtree, CoverageInv, SnapshotDated
<1>17. ASSUME ArmGapEffect PROVE SnapshotDated'
  BY <1>17 DEF ArmGapEffect, CoverageInv, CoverageTyped, EvidenceTyped, SnapshotDated
<1>18. ASSUME ArmedEffect PROVE SnapshotDated'
  BY <1>18 DEF ArmedEffect, CoverageInv, SnapshotDated
<1>19. ASSUME ServeWatcherEffect PROVE SnapshotDated'
  BY <1>19 DEF ServeWatcherEffect, CoverageInv, SnapshotDated
<1>20. ASSUME RootCheckEffect PROVE SnapshotDated'
  BY <1>20 DEF RootCheckEffect, CoverageInv, CoverageTyped, EvidenceTyped, SnapshotDated
<1>21. ASSUME StopAdmission PROVE SnapshotDated'
  BY <1>21 DEF StopAdmission, SnapshotDated
<1>22. ASSUME CloseIngress PROVE SnapshotDated'
  BY <1>22 DEF CloseIngress, CoverageInv, SnapshotDated
<1>23. ASSUME DetachWatcher PROVE SnapshotDated'
  BY <1>23 DEF DetachWatcher, CoverageInv, WatcherPhases, SnapshotDated, Serving
<1>24. ASSUME ParseUnknownEffect \/ NothingToRestore \/ PutEventEffect \/ BatchPut \/ ReportLoss
            \/ OfferEffect \/ ClaimTurn \/ TurnBreaks
      PROVE  SnapshotDated'
  BY <1>24 DEF ParseUnknownEffect, NothingToRestore, PutEventEffect, BatchPut, ReportLoss,
     OfferEffect, ClaimTurn, TurnBreaks, CoverageInv, SnapshotDated
<1>25. ASSUME NEW n \in TreeNotes, ParseNoteEffect(n) \/ Debounce(n) \/ Deliver(n) \/ IndexOne(n)
      PROVE  SnapshotDated'
  BY <1>25 DEF ParseNoteEffect, Debounce, Deliver, IndexOne, CoverageInv, SnapshotDated
<1>26. CASE UNCHANGED coverageVars
  BY <1>26 DEF coverageVars, CoverageInv, SnapshotDated
<1> QED
  BY <1>1, <1>2, <1>3, <1>4, <1>5, <1>6, <1>7, <1>8, <1>9, <1>10, <1>11, <1>12, <1>13, <1>14,
     <1>15, <1>16, <1>17, <1>18, <1>19, <1>20, <1>21, <1>22, <1>23, <1>24, <1>25, <1>26 DEF
     CoverageStep

(* Every step keeps the coverage of a turn dated. *)
LEMMA CoverageKept ==
    ASSUME CoverageInv, CoverageStep
    PROVE  CoverageDated'
<1>1. ASSUME OpenGapEffect PROVE CoverageDated'
  BY <1>1 DEF OpenGapEffect, DebtKept, CoverageInv, CoverageDated
<1>2. ASSUME NEW n \in TreeNotes, ParseNoteEffect(n) PROVE CoverageDated'
  BY <1>2 DEF ParseNoteEffect, DebtKept, CoverageInv, CoverageDated
<1>3. ASSUME ParseUnknownEffect PROVE CoverageDated'
  BY <1>3 DEF ParseUnknownEffect, DebtKept, CoverageInv, CoverageDated
<1>4. ASSUME ParseCreatedEffect PROVE CoverageDated'
  BY <1>4 DEF ParseCreatedEffect, DebtKept, CoverageInv, CoverageDated
<1>5. ASSUME FinishBatchEffect PROVE CoverageDated'
  BY <1>5 DEF FinishBatchEffect, DebtKept, CoverageInv, CoverageTyped, EvidenceTyped,
     CoverageDated
<1>6. ASSUME ReportFailureEffect PROVE CoverageDated'
  BY <1>6 DEF ReportFailureEffect, DebtKept, CoverageInv, CoverageDated
<1>7. ASSUME ReportLoss PROVE CoverageDated'
  BY <1>7, RequestedKeeps DEF ReportLoss, CoverageInv, CoverageDated
<1>8. ASSUME OfferEffect PROVE CoverageDated'
  BY <1>8 DEF OfferEffect, DebtKept, CoverageInv, CoverageDated
<1>9. ASSUME NEW n \in TreeNotes, Debounce(n) PROVE CoverageDated'
  BY <1>9, RequestedKeeps DEF Debounce, CoverageInv, CoverageDated
<1>10. ASSUME NEW n \in TreeNotes, Deliver(n) PROVE CoverageDated'
  BY <1>10, RequestedKeeps DEF Deliver, CoverageInv, CoverageDated
<1>11. ASSUME ClaimTurn PROVE CoverageDated'
  BY <1>11 DEF ClaimTurn, CapturedCoverage, CanReconcile, CoverageInv, CoverageTyped,
     EvidenceTyped, WatcherTyped, WatcherPhases, SnapshotDated, CoverageDated, Serving, NoTicket
<1>12. ASSUME NEW n \in TreeNotes, IndexOne(n) PROVE CoverageDated'
  BY <1>12 DEF IndexOne, CoverageInv, CoverageDated
<1>13. ASSUME TurnCompletes PROVE CoverageDated'
  BY <1>13 DEF TurnCompletes, TurnEnded, Reconciles, CanReconcile, CoverageDated
<1>14. ASSUME TurnBreaks PROVE CoverageDated'
  BY <1>14 DEF TurnBreaks, TurnEnded, CoverageDated
<1>15. ASSUME StartWatcher PROVE CoverageDated'
  BY <1>15 DEF StartWatcher, CoverageInv, CoverageTyped, WatcherTyped, CoverageDated
<1>16. ASSUME ArmGapEffect PROVE CoverageDated'
  BY <1>16 DEF ArmGapEffect, DebtKept, CoverageInv, CoverageDated
<1>17. ASSUME ArmedEffect PROVE CoverageDated'
  BY <1>17 DEF ArmedEffect, CoverageInv, CoverageDated
<1>18. ASSUME ServeWatcherEffect PROVE CoverageDated'
  BY <1>18 DEF ServeWatcherEffect, DebtKept, CoverageInv, CoverageDated
<1>19. ASSUME RootCheckEffect PROVE CoverageDated'
  BY <1>19 DEF RootCheckEffect, DebtKept, CoverageInv, CoverageDated
<1>20. ASSUME StopAdmission PROVE CoverageDated'
  BY <1>20, RequestedKeeps DEF StopAdmission, CoverageInv, CoverageDated
<1>21. ASSUME CloseIngress PROVE CoverageDated'
  BY <1>21, RequestedKeeps DEF CloseIngress, CoverageInv, CoverageDated
<1>22. ASSUME DetachWatcher PROVE CoverageDated'
  BY <1>22, RequestedKeeps DEF DetachWatcher, CoverageInv, WatcherPhases, CoverageDated, Serving
<1>23. ASSUME ChangesEffect \/ ReadBatch \/ ParseOverflowEffect \/ ParseMovedEffect \/
            ParseFenceEffect \/ RestoreRootEffect \/ RestoreSubtree \/ NothingToRestore \/
            ReaderBreaks \/ PutEventEffect \/ BatchPut \/ ArmRoot \/ ArmSubtree
      PROVE  CoverageDated'
  BY <1>23 DEF ChangesEffect, ReadBatch, ParseOverflowEffect, ParseMovedEffect,
     ParseFenceEffect, RestoreRootEffect, RestoreSubtree, NothingToRestore, ReaderBreaks,
     PutEventEffect, BatchPut, ArmRoot, ArmSubtree, CoverageInv, CoverageDated
<1>24. CASE UNCHANGED coverageVars
  BY <1>24 DEF coverageVars, CoverageInv, CoverageDated
<1> QED
  BY <1>1, <1>2, <1>3, <1>4, <1>5, <1>6, <1>7, <1>8, <1>9, <1>10, <1>11, <1>12, <1>13, <1>14,
     <1>15, <1>16, <1>17, <1>18, <1>19, <1>20, <1>21, <1>22, <1>23, <1>24 DEF CoverageStep

(* A turn that ended leaves nothing to do. *)
LEMMA EndKept ==
    ASSUME CoverageInv, CoverageStep
    PROVE  Ended'
<1>1. ASSUME OpenGapEffect PROVE Ended'
  BY <1>1 DEF OpenGapEffect, DebtKept, CoverageInv, Ended
<1>2. ASSUME NEW n \in TreeNotes, ParseNoteEffect(n) PROVE Ended'
  BY <1>2 DEF ParseNoteEffect, DebtKept, CoverageInv, Ended
<1>3. ASSUME ParseUnknownEffect PROVE Ended'
  BY <1>3 DEF ParseUnknownEffect, DebtKept, CoverageInv, Ended
<1>4. ASSUME ParseCreatedEffect PROVE Ended'
  BY <1>4 DEF ParseCreatedEffect, DebtKept, CoverageInv, Ended
<1>5. ASSUME FinishBatchEffect PROVE Ended'
  BY <1>5 DEF FinishBatchEffect, DebtKept, CoverageInv, Ended
<1>6. ASSUME ReportFailureEffect PROVE Ended'
  BY <1>6 DEF ReportFailureEffect, DebtKept, CoverageInv, Ended
<1>7. ASSUME ReportLoss PROVE Ended'
  BY <1>7, RequestedKeeps DEF ReportLoss, CoverageInv, Ended
<1>8. ASSUME OfferEffect PROVE Ended'
  BY <1>8 DEF OfferEffect, DebtKept, CoverageInv, Ended
<1>9. ASSUME NEW n \in TreeNotes, Debounce(n) PROVE Ended'
  BY <1>9, RequestedKeeps DEF Debounce, CoverageInv, Ended
<1>10. ASSUME NEW n \in TreeNotes, Deliver(n) PROVE Ended'
  BY <1>10, RequestedKeeps DEF Deliver, CoverageInv, Ended
<1>11. ASSUME ClaimTurn PROVE Ended'
  BY <1>11 DEF ClaimTurn, CapturedCoverage, CanReconcile, Ended
<1>12. ASSUME NEW n \in TreeNotes, IndexOne(n) PROVE Ended'
  BY <1>12 DEF IndexOne, CoverageInv, Ended
<1>13. ASSUME TurnCompletes PROVE Ended'
  BY <1>13 DEF TurnCompletes, TurnEnded, Reconciles, CanReconcile, Ended
<1>14. ASSUME TurnBreaks PROVE Ended'
  BY <1>14 DEF TurnBreaks, TurnEnded, Ended
<1>15. ASSUME ArmGapEffect PROVE Ended'
  BY <1>15 DEF ArmGapEffect, DebtKept, CoverageInv, Ended
<1>16. ASSUME ServeWatcherEffect PROVE Ended'
  BY <1>16 DEF ServeWatcherEffect, DebtKept, CoverageInv, Ended
<1>17. ASSUME RootCheckEffect PROVE Ended'
  BY <1>17 DEF RootCheckEffect, DebtKept, CoverageInv, Ended
<1>18. ASSUME StopAdmission PROVE Ended'
  BY <1>18, RequestedKeeps DEF StopAdmission, CoverageInv, Ended
<1>19. ASSUME CloseIngress PROVE Ended'
  BY <1>19, RequestedKeeps DEF CloseIngress, CoverageInv, Ended
<1>20. ASSUME DetachWatcher PROVE Ended'
  BY <1>20, RequestedKeeps DEF DetachWatcher, CoverageInv, Ended
<1>21. ASSUME ChangesEffect \/ ReadBatch \/ ParseOverflowEffect \/ ParseMovedEffect \/
            ParseFenceEffect \/ RestoreRootEffect \/ RestoreSubtree \/ NothingToRestore \/
            ReaderBreaks \/ PutEventEffect \/ BatchPut \/ StartWatcher \/ ArmRoot \/ ArmSubtree \/
            ArmedEffect
      PROVE  Ended'
  BY <1>21 DEF ChangesEffect, ReadBatch, ParseOverflowEffect, ParseMovedEffect,
     ParseFenceEffect, RestoreRootEffect, RestoreSubtree, NothingToRestore, ReaderBreaks,
     PutEventEffect, BatchPut, StartWatcher, ArmRoot, ArmSubtree, ArmedEffect, CoverageInv,
     Ended
<1>22. CASE UNCHANGED coverageVars
  BY <1>22 DEF coverageVars, CoverageInv, Ended
<1> QED
  BY <1>1, <1>2, <1>3, <1>4, <1>5, <1>6, <1>7, <1>8, <1>9, <1>10, <1>11, <1>12, <1>13, <1>14,
     <1>15, <1>16, <1>17, <1>18, <1>19, <1>20, <1>21, <1>22 DEF CoverageStep

(* Every step keeps the shape of a batch. *)
LEMMA BatchKept ==
    ASSUME CoverageInv, CoverageStep
    PROVE  BatchShape'
<1>1. ASSUME ChangesEffect PROVE BatchShape'
  BY <1>1 DEF ChangesEffect, CoverageInv, BatchShape
<1>2. ASSUME ReadBatch PROVE BatchShape'
  BY <1>2 DEF ReadBatch, IdleReader, BatchShape, Reading
<1>3. ASSUME OpenGapEffect PROVE BatchShape'
  BY <1>3 DEF OpenGapEffect, CoverageInv, BatchShape, Reading
<1>4. ASSUME NEW n \in TreeNotes, ParseNoteEffect(n) PROVE BatchShape'
  BY <1>4 DEF ParseNoteEffect, Takes, CoverageInv, BatchShape, Reading
<1>5. ASSUME ParseUnknownEffect PROVE BatchShape'
  BY <1>5 DEF ParseUnknownEffect, Takes, CoverageInv, ReadersOf, BatchShape, Reading
<1>6. ASSUME ParseOverflowEffect PROVE BatchShape'
  BY <1>6 DEF ParseOverflowEffect, BatchShape, Reading
<1>7. ASSUME ParseCreatedEffect PROVE BatchShape'
  BY <1>7 DEF ParseCreatedEffect, Takes, BatchShape, Reading
<1>8. ASSUME ParseMovedEffect PROVE BatchShape'
  BY <1>8 DEF ParseMovedEffect, BatchShape, Reading
<1>9. ASSUME ParseFenceEffect PROVE BatchShape'
  BY <1>9 DEF ParseFenceEffect, Takes, CoverageInv, CoverageTyped, NativeTyped, Natives,
     ReadersOf, BatchShape, Reading
<1>10. ASSUME RestoreRootEffect PROVE BatchShape'
  BY <1>10 DEF RestoreRootEffect, CoverageInv, BatchShape, Reading
<1>11. ASSUME RestoreSubtree PROVE BatchShape'
  BY <1>11 DEF RestoreSubtree, CoverageInv, BatchShape, Reading
<1>12. ASSUME NothingToRestore PROVE BatchShape'
  BY <1>12 DEF NothingToRestore, CoverageInv, BatchShape, Reading
<1>13. ASSUME FinishBatchEffect PROVE BatchShape'
  BY <1>13 DEF FinishBatchEffect, CoverageInv, Natives, BatchShape, Reading
<1>14. ASSUME ReaderBreaks PROVE BatchShape'
  BY <1>14 DEF ReaderBreaks, IdleReader, BatchShape
<1>15. ASSUME ReportFailureEffect PROVE BatchShape'
  BY <1>15 DEF ReportFailureEffect, BatchShape, IdleReader
<1>16. ASSUME PutEventEffect PROVE BatchShape'
  BY <1>16 DEF PutEventEffect, CoverageInv, CoverageTyped, ReaderTyped, ReadersOf, BatchShape,
     Reading
<1>17. ASSUME BatchPut PROVE BatchShape'
  BY <1>17 DEF BatchPut, IdleReader, BatchShape
<1>18. ASSUME StartWatcher PROVE BatchShape'
  BY <1>18 DEF StartWatcher, CoverageInv, WatcherPhases, BatchShape
<1>19. ASSUME ArmRoot PROVE BatchShape'
  BY <1>19 DEF ArmRoot, CoverageInv, BatchShape, Reading
<1>20. ASSUME ArmSubtree PROVE BatchShape'
  BY <1>20 DEF ArmSubtree, CoverageInv, BatchShape, Reading
<1>21. ASSUME ArmGapEffect PROVE BatchShape'
  BY <1>21 DEF ArmGapEffect, CoverageInv, BatchShape
<1>22. ASSUME ArmedEffect PROVE BatchShape'
  BY <1>22 DEF ArmedEffect, BatchShape, IdleReader
<1>23. ASSUME DetachWatcher PROVE BatchShape'
  BY <1>23 DEF DetachWatcher, CoverageInv, BatchShape, Reading, IdleReader
<1>24. ASSUME ReportLoss \/ OfferEffect \/ ClaimTurn \/ TurnCompletes \/ TurnBreaks \/
            ServeWatcherEffect \/ RootCheckEffect \/ StopAdmission \/ CloseIngress
      PROVE  BatchShape'
  BY <1>24 DEF ReportLoss, OfferEffect, ClaimTurn, TurnCompletes, TurnBreaks,
     ServeWatcherEffect, RootCheckEffect, StopAdmission, CloseIngress, CoverageInv, BatchShape
<1>25. ASSUME NEW n \in TreeNotes, Debounce(n) \/ Deliver(n) \/ IndexOne(n)
      PROVE  BatchShape'
  BY <1>25 DEF Debounce, Deliver, IndexOne, CoverageInv, BatchShape
<1>26. CASE UNCHANGED coverageVars
  BY <1>26 DEF coverageVars, CoverageInv, BatchShape
<1> QED
  BY <1>1, <1>2, <1>3, <1>4, <1>5, <1>6, <1>7, <1>8, <1>9, <1>10, <1>11, <1>12, <1>13, <1>14,
     <1>15, <1>16, <1>17, <1>18, <1>19, <1>20, <1>21, <1>22, <1>23, <1>24, <1>25, <1>26 DEF
     CoverageStep

(* As long as monitoring has not failed somebody reads. *)
LEMMA ReadersKept ==
    ASSUME CoverageInv, CoverageStep
    PROVE  SomebodyReads'
<1>1. ASSUME ChangesEffect PROVE SomebodyReads'
  BY <1>1 DEF ChangesEffect, CoverageInv, SomebodyReads
<1>2. ASSUME ReadBatch PROVE SomebodyReads'
  BY <1>2 DEF ReadBatch, SomebodyReads
<1>3. ASSUME OpenGapEffect PROVE SomebodyReads'
  BY <1>3 DEF OpenGapEffect, CoverageInv, SomebodyReads
<1>4. ASSUME NEW n \in TreeNotes, ParseNoteEffect(n) PROVE SomebodyReads'
  BY <1>4 DEF ParseNoteEffect, Takes, SomebodyReads
<1>5. ASSUME ParseUnknownEffect PROVE SomebodyReads'
  BY <1>5 DEF ParseUnknownEffect, Takes, SomebodyReads
<1>6. ASSUME ParseOverflowEffect PROVE SomebodyReads'
  BY <1>6 DEF ParseOverflowEffect, SomebodyReads
<1>7. ASSUME ParseCreatedEffect PROVE SomebodyReads'
  BY <1>7 DEF ParseCreatedEffect, SomebodyReads
<1>8. ASSUME ParseMovedEffect PROVE SomebodyReads'
  BY <1>8 DEF ParseMovedEffect, SomebodyReads
<1>9. ASSUME ParseFenceEffect PROVE SomebodyReads'
  BY <1>9 DEF ParseFenceEffect, Takes, SomebodyReads
<1>10. ASSUME RestoreRootEffect PROVE SomebodyReads'
  BY <1>10 DEF RestoreRootEffect, SomebodyReads
<1>11. ASSUME RestoreSubtree PROVE SomebodyReads'
  BY <1>11 DEF RestoreSubtree, CoverageInv, SomebodyReads
<1>12. ASSUME NothingToRestore PROVE SomebodyReads'
  BY <1>12 DEF NothingToRestore, CoverageInv, SomebodyReads
<1>13. ASSUME FinishBatchEffect PROVE SomebodyReads'
  BY <1>13 DEF FinishBatchEffect, CoverageInv, WatcherPhases, SomebodyReads, Reading
<1>14. ASSUME ReaderBreaks PROVE SomebodyReads'
  BY <1>14 DEF ReaderBreaks, SomebodyReads
<1>15. ASSUME ReportFailureEffect PROVE SomebodyReads'
  BY <1>15 DEF ReportFailureEffect, CoverageInv, CoverageTyped, EvidenceTyped, WatcherPhases,
     SnapshotDated, SomebodyReads, Serving
<1>16. ASSUME PutEventEffect PROVE SomebodyReads'
  BY <1>16 DEF PutEventEffect, CoverageInv, SomebodyReads
<1>17. ASSUME BatchPut PROVE SomebodyReads'
  BY <1>17 DEF BatchPut, CoverageInv, SomebodyReads
<1>18. ASSUME TurnCompletes PROVE SomebodyReads'
  BY <1>18 DEF TurnCompletes, TurnEnded, Reconciles, CanReconcile, CoverageInv, SomebodyReads
<1>19. ASSUME StartWatcher PROVE SomebodyReads'
  BY <1>19 DEF StartWatcher, SomebodyReads
<1>20. ASSUME ArmRoot PROVE SomebodyReads'
  BY <1>20 DEF ArmRoot, CoverageInv, SomebodyReads
<1>21. ASSUME ArmSubtree PROVE SomebodyReads'
  BY <1>21 DEF ArmSubtree, CoverageInv, SomebodyReads
<1>22. ASSUME ArmGapEffect PROVE SomebodyReads'
  BY <1>22 DEF ArmGapEffect, CoverageInv, SomebodyReads
<1>23. ASSUME ArmedEffect PROVE SomebodyReads'
  BY <1>23 DEF ArmedEffect, SomebodyReads
<1>24. ASSUME ServeWatcherEffect PROVE SomebodyReads'
  BY <1>24 DEF ServeWatcherEffect, CoverageInv, SomebodyReads
<1>25. ASSUME RootCheckEffect PROVE SomebodyReads'
  BY <1>25 DEF RootCheckEffect, CoverageInv, CoverageTyped, EvidenceTyped, WatcherPhases,
     SnapshotDated, SomebodyReads, Serving
<1>26. ASSUME StopAdmission PROVE SomebodyReads'
  BY <1>26 DEF StopAdmission, SomebodyReads
<1>27. ASSUME CloseIngress PROVE SomebodyReads'
  BY <1>27 DEF CloseIngress, SomebodyReads
<1>28. ASSUME DetachWatcher PROVE SomebodyReads'
  BY <1>28 DEF DetachWatcher, SomebodyReads
<1>29. ASSUME ReportLoss \/ OfferEffect \/ ClaimTurn \/ TurnBreaks
      PROVE  SomebodyReads'
  BY <1>29 DEF ReportLoss, OfferEffect, ClaimTurn, TurnBreaks, CoverageInv, SomebodyReads
<1>30. ASSUME NEW n \in TreeNotes, Debounce(n) \/ Deliver(n) \/ IndexOne(n)
      PROVE  SomebodyReads'
  BY <1>30 DEF Debounce, Deliver, IndexOne, CoverageInv, SomebodyReads
<1>31. CASE UNCHANGED coverageVars
  BY <1>31 DEF coverageVars, CoverageInv, SomebodyReads
<1> QED
  BY <1>1, <1>2, <1>3, <1>4, <1>5, <1>6, <1>7, <1>8, <1>9, <1>10, <1>11, <1>12, <1>13, <1>14,
     <1>15, <1>16, <1>17, <1>18, <1>19, <1>20, <1>21, <1>22, <1>23, <1>24, <1>25, <1>26, <1>27,
     <1>28, <1>29, <1>30, <1>31 DEF CoverageStep

(* The types of the tree. *)
LEMMA TreeTypeKept ==
    ASSUME CoverageInv, CoverageStep
    PROVE  TreeTyped'
<1>1. ASSUME ChangesEffect PROVE TreeTyped'
  BY <1>1 DEF ChangesEffect, CoverageInv, CoverageTyped, TreeTyped
<1>2. ASSUME NEW n \in TreeNotes, IndexOne(n) PROVE TreeTyped'
  BY <1>2 DEF IndexOne, CoverageInv, CoverageTyped, TreeTyped
<1>3. ASSUME ReadBatch \/ OpenGapEffect \/ ParseUnknownEffect \/ ParseOverflowEffect \/
            ParseCreatedEffect \/ ParseMovedEffect \/ ParseFenceEffect \/ RestoreRootEffect \/
            RestoreSubtree \/ NothingToRestore \/ FinishBatchEffect \/ ReaderBreaks \/
            ReportFailureEffect \/ PutEventEffect \/ BatchPut \/ ReportLoss \/ OfferEffect \/
            ClaimTurn \/ TurnCompletes \/ TurnBreaks \/ StartWatcher \/ ArmRoot \/ ArmSubtree \/
            ArmGapEffect \/ ArmedEffect \/ ServeWatcherEffect \/ RootCheckEffect \/ StopAdmission
            \/ CloseIngress \/ DetachWatcher
      PROVE  TreeTyped'
  BY <1>3 DEF ReadBatch, OpenGapEffect, ParseUnknownEffect, ParseOverflowEffect,
     ParseCreatedEffect, ParseMovedEffect, ParseFenceEffect, RestoreRootEffect, RestoreSubtree,
     NothingToRestore, FinishBatchEffect, ReaderBreaks, ReportFailureEffect, PutEventEffect,
     BatchPut, ReportLoss, OfferEffect, ClaimTurn, TurnCompletes, TurnBreaks, StartWatcher,
     ArmRoot, ArmSubtree, ArmGapEffect, ArmedEffect, ServeWatcherEffect, RootCheckEffect,
     StopAdmission, CloseIngress, DetachWatcher, CoverageInv, CoverageTyped, TreeTyped
<1>4. ASSUME NEW n \in TreeNotes, ParseNoteEffect(n) \/ Debounce(n) \/ Deliver(n)
      PROVE  TreeTyped'
  BY <1>4 DEF ParseNoteEffect, Debounce, Deliver, CoverageInv, CoverageTyped, TreeTyped
<1>5. CASE UNCHANGED coverageVars
  BY <1>5 DEF coverageVars, CoverageInv, CoverageTyped, TreeTyped
<1> QED
  BY <1>1, <1>2, <1>3, <1>4, <1>5 DEF CoverageStep

(* The types of the kernel's side. *)
LEMMA NativeTypeKept ==
    ASSUME CoverageInv, CoverageStep
    PROVE  NativeTyped'
<1>1. ASSUME ChangesEffect PROVE NativeTyped'
  BY <1>1 DEF ChangesEffect, NativeTyped
<1>2. ASSUME ReadBatch PROVE NativeTyped'
  <2>1. <<>> \in Seq(Records)
    BY EmptyIsSequence
  <2> QED
    BY <1>2, <2>1 DEF ReadBatch, CoverageInv, CoverageTyped, NativeTyped, Natives
<1>3. ASSUME OpenGapEffect PROVE NativeTyped'
  BY <1>3 DEF OpenGapEffect, CoverageInv, CoverageTyped, NativeTyped, Natives
<1>4. ASSUME ParseOverflowEffect PROVE NativeTyped'
  BY <1>4 DEF ParseOverflowEffect, NativeTyped
<1>5. ASSUME ParseCreatedEffect PROVE NativeTyped'
  BY <1>5 DEF ParseCreatedEffect, NativeTyped
<1>6. ASSUME ParseMovedEffect PROVE NativeTyped'
  BY <1>6 DEF ParseMovedEffect, NativeTyped
<1>7. ASSUME ParseFenceEffect PROVE NativeTyped'
  BY <1>7 DEF ParseFenceEffect, CoverageInv, CoverageTyped, NativeTyped, Natives
<1>8. ASSUME RestoreRootEffect PROVE NativeTyped'
  BY <1>8 DEF RestoreRootEffect, NativeTyped
<1>9. ASSUME RestoreSubtree PROVE NativeTyped'
  BY <1>9 DEF RestoreSubtree, CoverageInv, CoverageTyped, NativeTyped, Natives
<1>10. ASSUME FinishBatchEffect PROVE NativeTyped'
  BY <1>10 DEF FinishBatchEffect, NativeTyped
<1>11. ASSUME ReaderBreaks PROVE NativeTyped'
  <2>1. NoNative \in Natives /\ native.open \in BOOLEAN
    BY EmptyIsSequence DEF NoNative, Natives, Tickets, CoverageInv, CoverageTyped, NativeTyped
  <2> QED
    BY <1>11, <2>1 DEF ReaderBreaks, NativeTyped, Natives
<1>12. ASSUME ArmRoot PROVE NativeTyped'
  BY <1>12 DEF ArmRoot, CoverageInv, CoverageTyped, NativeTyped, Natives
<1>13. ASSUME ArmSubtree PROVE NativeTyped'
  BY <1>13 DEF ArmSubtree, CoverageInv, CoverageTyped, NativeTyped, Natives
<1>14. ASSUME ArmGapEffect PROVE NativeTyped'
  BY <1>14 DEF ArmGapEffect, CoverageInv, CoverageTyped, NativeTyped, Natives
<1>15. ASSUME ArmedEffect PROVE NativeTyped'
  BY <1>15 DEF ArmedEffect, NativeTyped
<1>16. ASSUME DetachWatcher PROVE NativeTyped'
  <2>1. NoNative \in Natives /\ native.open \in BOOLEAN
    BY EmptyIsSequence DEF NoNative, Natives, Tickets, CoverageInv, CoverageTyped, NativeTyped
  <2> QED
    BY <1>16, <2>1 DEF DetachWatcher, NativeTyped
<1>17. ASSUME ParseUnknownEffect \/ NothingToRestore \/ ReportFailureEffect \/ PutEventEffect \/
            BatchPut \/ ReportLoss \/ OfferEffect \/ ClaimTurn \/ TurnCompletes \/ TurnBreaks \/
            StartWatcher \/ ServeWatcherEffect \/ RootCheckEffect \/ StopAdmission \/ CloseIngress
      PROVE  NativeTyped'
  BY <1>17 DEF ParseUnknownEffect, NothingToRestore, ReportFailureEffect, PutEventEffect,
     BatchPut, ReportLoss, OfferEffect, ClaimTurn, TurnCompletes, TurnBreaks, StartWatcher,
     ServeWatcherEffect, RootCheckEffect, StopAdmission, CloseIngress, CoverageInv,
     CoverageTyped, NativeTyped
<1>18. ASSUME NEW n \in TreeNotes, ParseNoteEffect(n) \/ Debounce(n) \/ Deliver(n) \/ IndexOne(n)
      PROVE  NativeTyped'
  BY <1>18 DEF ParseNoteEffect, Debounce, Deliver, IndexOne, CoverageInv, CoverageTyped,
     NativeTyped
<1>19. CASE UNCHANGED coverageVars
  BY <1>19 DEF coverageVars, CoverageInv, CoverageTyped, NativeTyped
<1> QED
  BY <1>1, <1>2, <1>3, <1>4, <1>5, <1>6, <1>7, <1>8, <1>9, <1>10, <1>11, <1>12, <1>13, <1>14,
     <1>15, <1>16, <1>17, <1>18, <1>19 DEF CoverageStep

LEMMA ReaderGoes ==
    ASSUME CoverageInv, NEW where \in {"idle", "broken"} \cup Arming \cup Reading,
           reader' = [reader EXCEPT !.at = where]
    PROVE  ReaderTyped'
<1>1. reader \in ReadersOf(reader.events) /\ (reader.retire \/ reader.events \in Seq(TreeNotes))
  BY DEF CoverageInv, CoverageTyped, ReaderTyped
<1>2. /\ reader' \in ReadersOf(reader.events) /\ reader'.events = reader.events /\ reader'.retire = reader.retire
  BY <1>1 DEF ReadersOf
<1> QED
  BY <1>1, <1>2 DEF ReaderTyped

(* The types of the reader. *)
LEMMA ReaderTypeKept ==
    ASSUME CoverageInv, CoverageStep
    PROVE  ReaderTyped'
<1>1. ASSUME ReadBatch PROVE ReaderTyped'
  <2>1. IdleReader \in ReadersOf(<<>>) /\ <<>> \in Seq(TreeNotes) /\ native.kernel \in Seq(Records)
    BY EmptyIsSequence, ReaderAlive DEF IdleReader, ReadersOf
  <2>2. reader' \in ReadersOf(<<>>)
    BY <1>1, <2>1 DEF ReadBatch, ReadersOf, Reading
  <2> QED
    BY <2>1, <2>2 DEF ReaderTyped, ReadersOf
<1>2. ASSUME OpenGapEffect PROVE ReaderTyped'
  <2>1. reader' = [reader EXCEPT !.at = "opened"]
    BY <1>2 DEF OpenGapEffect
  <2> QED
    BY <2>1, ReaderGoes DEF Arming, Reading
<1>3. ASSUME NEW n \in TreeNotes, ParseNoteEffect(n) PROVE ReaderTyped'
  BY <1>3 DEF ParseNoteEffect, Takes, ReaderTyped
<1>4. ASSUME ParseUnknownEffect PROVE ReaderTyped'
  BY <1>4 DEF ParseUnknownEffect, Takes, CoverageInv, CoverageTyped, ReaderTyped, ReadersOf
<1>5. ASSUME ParseOverflowEffect PROVE ReaderTyped'
  BY <1>5 DEF ParseOverflowEffect, ReaderTyped
<1>6. ASSUME ParseCreatedEffect PROVE ReaderTyped'
  BY <1>6 DEF ParseCreatedEffect, Takes, ReaderTyped
<1>7. ASSUME ParseMovedEffect PROVE ReaderTyped'
  BY <1>7 DEF ParseMovedEffect, ReaderTyped
<1>8. ASSUME ParseFenceEffect PROVE ReaderTyped'
  BY <1>8 DEF ParseFenceEffect, Takes, CoverageInv, CoverageTyped, ReaderTyped, ReadersOf
<1>9. ASSUME RestoreRootEffect PROVE ReaderTyped'
  <2>1. reader' = [reader EXCEPT !.at = "descending"]
    BY <1>9 DEF RestoreRootEffect
  <2> QED
    BY <2>1, ReaderGoes DEF Arming, Reading
<1>10. ASSUME RestoreSubtree PROVE ReaderTyped'
  <2>1. reader' = [reader EXCEPT !.at = "finishing"]
    BY <1>10 DEF RestoreSubtree
  <2> QED
    BY <2>1, ReaderGoes DEF Arming, Reading
<1>11. ASSUME NothingToRestore PROVE ReaderTyped'
  <2>1. reader' = [reader EXCEPT !.at = "finishing"]
    BY <1>11 DEF NothingToRestore
  <2> QED
    BY <2>1, ReaderGoes DEF Arming, Reading
<1>12. ASSUME FinishBatchEffect PROVE ReaderTyped'
  <2>1. reader' = [reader EXCEPT !.at = "putting"]
    BY <1>12 DEF FinishBatchEffect
  <2> QED
    BY <2>1, ReaderGoes DEF Arming, Reading
<1>13. ASSUME ReaderBreaks PROVE ReaderTyped'
  <2>1. IdleReader \in ReadersOf(<<>>) /\ <<>> \in Seq(TreeNotes)
    BY EmptyIsSequence DEF IdleReader, ReadersOf
  <2>2. reader' \in ReadersOf(<<>>)
    BY <1>13, <2>1 DEF ReaderBreaks, ReadersOf
  <2> QED
    BY <2>1, <2>2 DEF ReaderTyped, ReadersOf
<1>14. ASSUME ReportFailureEffect PROVE ReaderTyped'
  BY <1>14 DEF ReportFailureEffect, IdleReader, ReaderTyped, ReadersOf
<1>15. ASSUME PutEventEffect PROVE ReaderTyped'
  BY <1>15 DEF PutEventEffect, CoverageInv, CoverageTyped, ReaderTyped, ReadersOf
<1>16. ASSUME BatchPut PROVE ReaderTyped'
  BY <1>16 DEF BatchPut, IdleReader, ReaderTyped, ReadersOf
<1>17. ASSUME StartWatcher PROVE ReaderTyped'
  <2>1. reader' = [reader EXCEPT !.at = "arming"]
    BY <1>17 DEF StartWatcher
  <2> QED
    BY <2>1, ReaderGoes DEF Arming, Reading
<1>18. ASSUME ArmRoot PROVE ReaderTyped'
  <2>1. reader' = [reader EXCEPT !.at = "walking"]
    BY <1>18 DEF ArmRoot
  <2> QED
    BY <2>1, ReaderGoes DEF Arming, Reading
<1>19. ASSUME ArmSubtree PROVE ReaderTyped'
  <2>1. reader' = [reader EXCEPT !.at = "fencing"]
    BY <1>19 DEF ArmSubtree
  <2> QED
    BY <2>1, ReaderGoes DEF Arming
<1>20. ASSUME ArmedEffect PROVE ReaderTyped'
  BY <1>20 DEF ArmedEffect, IdleReader, ReaderTyped, ReadersOf
<1>21. ASSUME ChangesEffect \/ ReportLoss \/ OfferEffect \/ ClaimTurn \/ TurnCompletes \/
            TurnBreaks \/ ArmGapEffect \/ ServeWatcherEffect \/ RootCheckEffect \/ StopAdmission
            \/ CloseIngress \/ DetachWatcher
      PROVE  ReaderTyped'
  BY <1>21 DEF ChangesEffect, ReportLoss, OfferEffect, ClaimTurn, TurnCompletes, TurnBreaks,
     ArmGapEffect, ServeWatcherEffect, RootCheckEffect, StopAdmission, CloseIngress,
     DetachWatcher, CoverageInv, CoverageTyped, ReaderTyped
<1>22. ASSUME NEW n \in TreeNotes, Debounce(n) \/ Deliver(n) \/ IndexOne(n)
      PROVE  ReaderTyped'
  BY <1>22 DEF Debounce, Deliver, IndexOne, CoverageInv, CoverageTyped, ReaderTyped
<1>23. CASE UNCHANGED coverageVars
  BY <1>23 DEF coverageVars, CoverageInv, CoverageTyped, ReaderTyped
<1> QED
  BY <1>1, <1>2, <1>3, <1>4, <1>5, <1>6, <1>7, <1>8, <1>9, <1>10, <1>11, <1>12, <1>13, <1>14,
     <1>15, <1>16, <1>17, <1>18, <1>19, <1>20, <1>21, <1>22, <1>23 DEF CoverageStep

(* The types of the queues. *)
LEMMA PipeTypeKept ==
    ASSUME CoverageInv, CoverageStep
    PROVE  PipeTyped'
<1>1. ASSUME PutEventEffect PROVE PipeTyped'
  BY <1>1 DEF PutEventEffect, CoverageInv, CoverageTyped, PipeTyped
<1>2. ASSUME ReportLoss PROVE PipeTyped'
  BY <1>2 DEF ReportLoss, CoverageInv, CoverageTyped, PipeTyped
<1>3. ASSUME OfferEffect PROVE PipeTyped'
  BY <1>3 DEF OfferEffect, CoverageInv, CoverageTyped, PipeTyped
<1>4. ASSUME NEW n \in TreeNotes, Debounce(n) PROVE PipeTyped'
  BY <1>4 DEF Debounce, CoverageInv, CoverageTyped, PipeTyped
<1>5. ASSUME NEW n \in TreeNotes, Deliver(n) PROVE PipeTyped'
  BY <1>5 DEF Deliver, CoverageInv, CoverageTyped, PipeTyped
<1>6. ASSUME ClaimTurn PROVE PipeTyped'
  BY <1>6 DEF ClaimTurn, CapturedCoverage, CanReconcile, CoverageInv, CoverageTyped, PipeTyped
<1>7. ASSUME CloseIngress PROVE PipeTyped'
  <2>1. IsSequence(<<>>)
    BY EmptyIsSequence
  <2> QED
    BY <1>7, <2>1 DEF CloseIngress, CoverageInv, CoverageTyped, PipeTyped
<1>8. ASSUME DetachWatcher PROVE PipeTyped'
  BY <1>8 DEF DetachWatcher, CoverageInv, CoverageTyped, PipeTyped
<1>9. ASSUME ChangesEffect \/ ReadBatch \/ OpenGapEffect \/ ParseUnknownEffect \/
            ParseOverflowEffect \/ ParseCreatedEffect \/ ParseMovedEffect \/ ParseFenceEffect \/
            RestoreRootEffect \/ RestoreSubtree \/ NothingToRestore \/ FinishBatchEffect \/
            ReaderBreaks \/ ReportFailureEffect \/ BatchPut \/ TurnCompletes \/ TurnBreaks \/
            StartWatcher \/ ArmRoot \/ ArmSubtree \/ ArmGapEffect \/ ArmedEffect \/
            ServeWatcherEffect \/ RootCheckEffect \/ StopAdmission
      PROVE  PipeTyped'
  BY <1>9 DEF ChangesEffect, ReadBatch, OpenGapEffect, ParseUnknownEffect, ParseOverflowEffect,
     ParseCreatedEffect, ParseMovedEffect, ParseFenceEffect, RestoreRootEffect, RestoreSubtree,
     NothingToRestore, FinishBatchEffect, ReaderBreaks, ReportFailureEffect, BatchPut,
     TurnCompletes, TurnBreaks, StartWatcher, ArmRoot, ArmSubtree, ArmGapEffect, ArmedEffect,
     ServeWatcherEffect, RootCheckEffect, StopAdmission, CoverageInv, CoverageTyped, PipeTyped
<1>10. ASSUME NEW n \in TreeNotes, ParseNoteEffect(n) \/ IndexOne(n)
      PROVE  PipeTyped'
  BY <1>10 DEF ParseNoteEffect, IndexOne, CoverageInv, CoverageTyped, PipeTyped
<1>11. CASE UNCHANGED coverageVars
  BY <1>11 DEF coverageVars, CoverageInv, CoverageTyped, PipeTyped
<1> QED
  BY <1>1, <1>2, <1>3, <1>4, <1>5, <1>6, <1>7, <1>8, <1>9, <1>10, <1>11 DEF CoverageStep

(* The types of the evidence. *)
LEMMA EvidenceTypeKept ==
    ASSUME CoverageInv, CoverageStep
    PROVE  EvidenceTyped'
<1>1. ASSUME OpenGapEffect PROVE EvidenceTyped'
  BY <1>1 DEF OpenGapEffect, CoverageInv, CoverageTyped, EvidenceTyped
<1>2. ASSUME FinishBatchEffect PROVE EvidenceTyped'
  BY <1>2 DEF FinishBatchEffect, CoverageInv, CoverageTyped, EvidenceTyped
<1>3. ASSUME ReportFailureEffect PROVE EvidenceTyped'
  <2> DEFINE revision == IF evidence.error THEN evidence.revision ELSE evidence.revision + 1
  <2>1. evidence' = [evidence EXCEPT !.error = TRUE, !.failure = @ + 1, !.verified = NoTicket,
                                     !.revision = revision]
    BY <1>3 DEF ReportFailureEffect
  <2>2. revision \in Nat /\ evidence.failure + 1 \in Nat /\ NoTicket \in Tickets
    BY DEF CoverageInv, CoverageTyped, EvidenceTyped, Tickets
  <2> HIDE DEF revision
  <2> QED
    BY <2>1, <2>2 DEF CoverageInv, CoverageTyped, EvidenceTyped
<1>4. ASSUME TurnCompletes PROVE EvidenceTyped'
  BY <1>4 DEF TurnCompletes, TurnEnded, Reconciles, CanReconcile, CoverageInv, CoverageTyped,
     EvidenceTyped
<1>5. ASSUME StartWatcher PROVE EvidenceTyped'
  BY <1>5 DEF StartWatcher, CoverageInv, CoverageTyped, EvidenceTyped
<1>6. ASSUME ArmGapEffect PROVE EvidenceTyped'
  BY <1>6 DEF ArmGapEffect, CoverageInv, CoverageTyped, EvidenceTyped
<1>7. ASSUME ServeWatcherEffect PROVE EvidenceTyped'
  BY <1>7 DEF ServeWatcherEffect, CoverageInv, CoverageTyped, EvidenceTyped, Tickets,
     WatcherTyped
<1>8. ASSUME RootCheckEffect PROVE EvidenceTyped'
  <2> DEFINE revision == IF evidence.error THEN evidence.revision ELSE evidence.revision + 1
  <2>1. evidence' = [evidence EXCEPT !.error = TRUE, !.failure = @ + 1, !.verified = NoTicket,
                                     !.revision = revision]
    BY <1>8 DEF RootCheckEffect
  <2>2. revision \in Nat /\ evidence.failure + 1 \in Nat /\ NoTicket \in Tickets
    BY DEF CoverageInv, CoverageTyped, EvidenceTyped, Tickets
  <2> HIDE DEF revision
  <2> QED
    BY <2>1, <2>2 DEF CoverageInv, CoverageTyped, EvidenceTyped
<1>9. ASSUME StopAdmission PROVE EvidenceTyped'
  <2>1. evidence.revision + 1 \in Nat /\ NoTicket \in Tickets
    BY DEF CoverageInv, CoverageTyped, EvidenceTyped, Tickets
  <2>2. evidence' = [evidence EXCEPT !.revision = evidence.revision + 1, !.verified = NoTicket]
    BY <1>9 DEF StopAdmission
  <2> QED
    BY <2>1, <2>2 DEF CoverageInv, CoverageTyped, EvidenceTyped
<1>10. ASSUME ChangesEffect \/ ReadBatch \/ ParseUnknownEffect \/ ParseOverflowEffect \/
            ParseCreatedEffect \/ ParseMovedEffect \/ ParseFenceEffect \/ RestoreRootEffect \/
            RestoreSubtree \/ NothingToRestore \/ ReaderBreaks \/ PutEventEffect \/ BatchPut \/
            ReportLoss \/ OfferEffect \/ ClaimTurn \/ TurnBreaks \/ ArmRoot \/ ArmSubtree \/
            ArmedEffect \/ CloseIngress \/ DetachWatcher
      PROVE  EvidenceTyped'
  BY <1>10 DEF ChangesEffect, ReadBatch, ParseUnknownEffect, ParseOverflowEffect,
     ParseCreatedEffect, ParseMovedEffect, ParseFenceEffect, RestoreRootEffect, RestoreSubtree,
     NothingToRestore, ReaderBreaks, PutEventEffect, BatchPut, ReportLoss, OfferEffect,
     ClaimTurn, TurnBreaks, ArmRoot, ArmSubtree, ArmedEffect, CloseIngress, DetachWatcher,
     CoverageInv, CoverageTyped, EvidenceTyped
<1>11. ASSUME NEW n \in TreeNotes, ParseNoteEffect(n) \/ Debounce(n) \/ Deliver(n) \/ IndexOne(n)
      PROVE  EvidenceTyped'
  BY <1>11 DEF ParseNoteEffect, Debounce, Deliver, IndexOne, CoverageInv, CoverageTyped,
     EvidenceTyped
<1>12. CASE UNCHANGED coverageVars
  BY <1>12 DEF coverageVars, CoverageInv, CoverageTyped, EvidenceTyped
<1> QED
  BY <1>1, <1>2, <1>3, <1>4, <1>5, <1>6, <1>7, <1>8, <1>9, <1>10, <1>11, <1>12 DEF CoverageStep

(* The types of the watcher. *)
LEMMA WatcherTypeKept ==
    ASSUME CoverageInv, CoverageStep
    PROVE  WatcherTyped'
<1>1. ASSUME StartWatcher PROVE WatcherTyped'
  BY <1>1 DEF StartWatcher, CoverageInv, CoverageTyped, WatcherTyped, Tickets, Serving,
     EvidenceTyped
<1>2. ASSUME ArmedEffect PROVE WatcherTyped'
  BY <1>2 DEF ArmedEffect, CoverageInv, CoverageTyped, WatcherTyped, Serving
<1>3. ASSUME ServeWatcherEffect PROVE WatcherTyped'
  BY <1>3 DEF ServeWatcherEffect, CoverageInv, CoverageTyped, WatcherTyped, Serving
<1>4. ASSUME StopAdmission PROVE WatcherTyped'
  BY <1>4 DEF StopAdmission, CoverageInv, CoverageTyped, WatcherTyped
<1>5. ASSUME CloseIngress PROVE WatcherTyped'
  BY <1>5 DEF CloseIngress, CoverageInv, CoverageTyped, WatcherTyped
<1>6. ASSUME DetachWatcher PROVE WatcherTyped'
  BY <1>6 DEF DetachWatcher, CoverageInv, CoverageTyped, WatcherTyped, Tickets
<1>7. ASSUME ChangesEffect \/ ReadBatch \/ OpenGapEffect \/ ParseUnknownEffect \/
            ParseOverflowEffect \/ ParseCreatedEffect \/ ParseMovedEffect \/ ParseFenceEffect \/
            RestoreRootEffect \/ RestoreSubtree \/ NothingToRestore \/ FinishBatchEffect \/
            ReaderBreaks \/ ReportFailureEffect \/ PutEventEffect \/ BatchPut \/ ReportLoss \/
            OfferEffect \/ ClaimTurn \/ TurnCompletes \/ TurnBreaks \/ ArmRoot \/ ArmSubtree \/
            ArmGapEffect \/ RootCheckEffect
      PROVE  WatcherTyped'
  BY <1>7 DEF ChangesEffect, ReadBatch, OpenGapEffect, ParseUnknownEffect, ParseOverflowEffect,
     ParseCreatedEffect, ParseMovedEffect, ParseFenceEffect, RestoreRootEffect, RestoreSubtree,
     NothingToRestore, FinishBatchEffect, ReaderBreaks, ReportFailureEffect, PutEventEffect,
     BatchPut, ReportLoss, OfferEffect, ClaimTurn, TurnCompletes, TurnBreaks, ArmRoot,
     ArmSubtree, ArmGapEffect, RootCheckEffect, CoverageInv, CoverageTyped, WatcherTyped
<1>8. ASSUME NEW n \in TreeNotes, ParseNoteEffect(n) \/ Debounce(n) \/ Deliver(n) \/ IndexOne(n)
      PROVE  WatcherTyped'
  BY <1>8 DEF ParseNoteEffect, Debounce, Deliver, IndexOne, CoverageInv, CoverageTyped,
     WatcherTyped
<1>9. CASE UNCHANGED coverageVars
  BY <1>9 DEF coverageVars, CoverageInv, CoverageTyped, WatcherTyped
<1> QED
  BY <1>1, <1>2, <1>3, <1>4, <1>5, <1>6, <1>7, <1>8, <1>9 DEF CoverageStep

(* The types of the owner's turn. *)
LEMMA TurnTypeKept ==
    ASSUME CoverageInv, CoverageStep
    PROVE  TurnTyped'
<1>1. ASSUME OpenGapEffect PROVE TurnTyped'
  BY <1>1 DEF OpenGapEffect, DebtKept, TurnTyped
<1>2. ASSUME NEW n \in TreeNotes, ParseNoteEffect(n) PROVE TurnTyped'
  BY <1>2 DEF ParseNoteEffect, DebtKept, TurnTyped
<1>3. ASSUME ParseUnknownEffect PROVE TurnTyped'
  BY <1>3 DEF ParseUnknownEffect, DebtKept, TurnTyped
<1>4. ASSUME ParseCreatedEffect PROVE TurnTyped'
  BY <1>4 DEF ParseCreatedEffect, DebtKept, TurnTyped
<1>5. ASSUME FinishBatchEffect PROVE TurnTyped'
  BY <1>5 DEF FinishBatchEffect, DebtKept, TurnTyped
<1>6. ASSUME ReportFailureEffect PROVE TurnTyped'
  BY <1>6 DEF ReportFailureEffect, DebtKept, TurnTyped
<1>7. ASSUME ReportLoss PROVE TurnTyped'
  <2>1. full' \in {full, Requested(full)}
    BY <1>7 DEF ReportLoss
  <2> QED
    BY <2>1, AskedOrNot DEF CoverageInv, DebtKept, TurnTyped
<1>8. ASSUME OfferEffect PROVE TurnTyped'
  BY <1>8 DEF OfferEffect, DebtKept, TurnTyped
<1>9. ASSUME NEW n \in TreeNotes, Debounce(n) PROVE TurnTyped'
  <2>1. full' \in {full, Requested(full)}
    BY <1>9 DEF Debounce
  <2> QED
    BY <2>1, AskedOrNot DEF CoverageInv, DebtKept, TurnTyped
<1>10. ASSUME NEW n \in TreeNotes, Deliver(n) PROVE TurnTyped'
  <2>1. full' \in {full, Requested(full)}
    BY <1>10 DEF Deliver
  <2> QED
    BY <2>1, AskedOrNot DEF CoverageInv, DebtKept, TurnTyped
<1>11. ASSUME ClaimTurn PROVE TurnTyped'
  <2>1. CapturedCoverage \in Tickets
    BY DEF CapturedCoverage, Tickets, CoverageInv, CoverageTyped, WatcherTyped, EvidenceTyped
  <2>2. full' = [full EXCEPT !.turn = full'.turn, !.todo = full'.todo,
                             !.again = FALSE, !.coverage = CapturedCoverage]
        /\ full'.turn \in {"full", "targeted"}
    BY <1>11 DEF ClaimTurn
  <2> QED
    BY <2>1, <2>2 DEF CoverageInv, CoverageTyped, TurnTyped, TurnsOf
<1>12. ASSUME NEW n \in TreeNotes, IndexOne(n) PROVE TurnTyped'
  <2>1. full' = [full EXCEPT !.todo = full'.todo]
    BY <1>12 DEF IndexOne
  <2> QED
    BY <2>1 DEF CoverageInv, CoverageTyped, TurnTyped, TurnsOf
<1>13. ASSUME TurnCompletes PROVE TurnTyped'
  <2>1. \E needed \in BOOLEAN : full' = TurnEnded(full, needed)
    BY <1>13 DEF TurnCompletes, CoverageInv, CoverageTyped, TurnTyped, TurnsOf
  <2> QED
    BY <2>1 DEF TurnEnded, Tickets, CoverageInv, CoverageTyped, TurnTyped, TurnsOf
<1>14. ASSUME TurnBreaks PROVE TurnTyped'
  <2>1. \E needed \in BOOLEAN : full' = TurnEnded(full, needed)
    BY <1>14 DEF TurnBreaks
  <2> QED
    BY <2>1 DEF TurnEnded, Tickets, CoverageInv, CoverageTyped, TurnTyped, TurnsOf
<1>15. ASSUME ArmGapEffect PROVE TurnTyped'
  BY <1>15 DEF ArmGapEffect, DebtKept, TurnTyped
<1>16. ASSUME ServeWatcherEffect PROVE TurnTyped'
  BY <1>16 DEF ServeWatcherEffect, DebtKept, TurnTyped
<1>17. ASSUME RootCheckEffect PROVE TurnTyped'
  BY <1>17 DEF RootCheckEffect, DebtKept, TurnTyped
<1>18. ASSUME StopAdmission PROVE TurnTyped'
  <2>1. full' \in {full, Requested(full)}
    BY <1>18 DEF StopAdmission
  <2> QED
    BY <2>1, AskedOrNot DEF CoverageInv, DebtKept, TurnTyped
<1>19. ASSUME CloseIngress PROVE TurnTyped'
  <2>1. full' \in {full, Requested(full)}
    BY <1>19 DEF CloseIngress
  <2> QED
    BY <2>1, AskedOrNot DEF CoverageInv, DebtKept, TurnTyped
<1>20. ASSUME DetachWatcher PROVE TurnTyped'
  <2>1. full' \in {full, Requested(full)}
    BY <1>20 DEF DetachWatcher
  <2> QED
    BY <2>1, AskedOrNot DEF CoverageInv, DebtKept, TurnTyped
<1>21. ASSUME ChangesEffect \/ ReadBatch \/ ParseOverflowEffect \/ ParseMovedEffect \/
            ParseFenceEffect \/ RestoreRootEffect \/ RestoreSubtree \/ NothingToRestore \/
            ReaderBreaks \/ PutEventEffect \/ BatchPut \/ StartWatcher \/ ArmRoot \/ ArmSubtree \/
            ArmedEffect
      PROVE  TurnTyped'
  BY <1>21 DEF ChangesEffect, ReadBatch, ParseOverflowEffect, ParseMovedEffect,
     ParseFenceEffect, RestoreRootEffect, RestoreSubtree, NothingToRestore, ReaderBreaks,
     PutEventEffect, BatchPut, StartWatcher, ArmRoot, ArmSubtree, ArmedEffect, CoverageInv,
     CoverageTyped, TurnTyped
<1>22. CASE UNCHANGED coverageVars
  BY <1>22 DEF coverageVars, CoverageInv, CoverageTyped, TurnTyped
<1> QED
  BY <1>1, <1>2, <1>3, <1>4, <1>5, <1>6, <1>7, <1>8, <1>9, <1>10, <1>11, <1>12, <1>13, <1>14,
     <1>15, <1>16, <1>17, <1>18, <1>19, <1>20, <1>21, <1>22 DEF CoverageStep

(* What is not watched stays about to be noticed. *)
LEMMA DirectoriesKept ==
    ASSUME CoverageInv, CoverageStep
    PROVE  DirectoriesSeen'
<1>1. ASSUME ChangesEffect PROVE DirectoriesSeen'
  BY <1>1 DEF ChangesEffect, CoverageInv, DirectoriesSeen, RootSeen, SubtreeSeen, Restoring,
     InStream
<1>2. ASSUME ReadBatch PROVE DirectoriesSeen'
  BY <1>2 DEF ReadBatch, CoverageInv, BatchShape, DirectoriesSeen, RootSeen, SubtreeSeen,
     Restoring, InStream
<1>3. ASSUME OpenGapEffect PROVE DirectoriesSeen'
  BY <1>3 DEF OpenGapEffect, CoverageInv, DirectoriesSeen, RootSeen, SubtreeSeen, Restoring,
     InStream
<1>4. ASSUME NEW n \in TreeNotes, ParseNoteEffect(n) PROVE DirectoriesSeen'
  <2>1. ParseNoteEffect(n) /\ n \notin {"overflow", "created", "arrived"}
    BY <1>4 DEF TreeNotes
  <2> QED
    BY <2>1 DEF ParseNoteEffect, Takes, CoverageInv, DirectoriesSeen, RootSeen, SubtreeSeen,
       Restoring, InStream
<1>5. ASSUME ParseUnknownEffect PROVE DirectoriesSeen'
  BY <1>5 DEF ParseUnknownEffect, Takes, CoverageInv, ReadersOf, DirectoriesSeen, RootSeen,
     SubtreeSeen, Restoring, InStream
<1>6. ASSUME ParseOverflowEffect PROVE DirectoriesSeen'
  BY <1>6 DEF ParseOverflowEffect, DirectoriesSeen, Restoring
<1>7. ASSUME ParseCreatedEffect PROVE DirectoriesSeen'
  BY <1>7 DEF ParseCreatedEffect, Takes, CoverageInv, DirectoriesSeen, RootSeen, SubtreeSeen,
     Restoring, InStream
<1>8. ASSUME ParseMovedEffect PROVE DirectoriesSeen'
  BY <1>8 DEF ParseMovedEffect, DirectoriesSeen, Restoring
<1>9. ASSUME ParseFenceEffect PROVE DirectoriesSeen'
  BY <1>9 DEF ParseFenceEffect, Takes, CoverageInv, CoverageTyped, NativeTyped, Natives,
     ReadersOf, DirectoriesSeen, RootSeen, SubtreeSeen, Restoring, InStream
<1>10. ASSUME RestoreRootEffect PROVE DirectoriesSeen'
  BY <1>10 DEF RestoreRootEffect, DirectoriesSeen, RootSeen
<1>11. ASSUME RestoreSubtree PROVE DirectoriesSeen'
  BY <1>11 DEF RestoreSubtree, CoverageInv, DirectoriesSeen, RootSeen, SubtreeSeen, InStream
<1>12. ASSUME NothingToRestore PROVE DirectoriesSeen'
  BY <1>12 DEF NothingToRestore, CoverageInv, DirectoriesSeen, RootSeen, SubtreeSeen, Restoring,
     InStream
<1>13. ASSUME FinishBatchEffect PROVE DirectoriesSeen'
  BY <1>13 DEF FinishBatchEffect, CoverageInv, DirectoriesSeen, RootSeen, SubtreeSeen,
     Restoring, InStream
<1>14. ASSUME ReaderBreaks PROVE DirectoriesSeen'
  BY <1>14 DEF ReaderBreaks, NoNative, DirectoriesSeen
<1>15. ASSUME ReportFailureEffect PROVE DirectoriesSeen'
  BY <1>15 DEF ReportFailureEffect, IdleReader, CoverageInv, BatchShape, DirectoriesSeen,
     RootSeen, SubtreeSeen, Restoring, InStream
<1>16. ASSUME PutEventEffect PROVE DirectoriesSeen'
  BY <1>16, NothingInEmpty DEF PutEventEffect, CoverageInv, WatcherPhases, BatchShape,
     DirectoriesSeen, RootSeen, SubtreeSeen, Restoring, InStream, Reading
<1>17. ASSUME BatchPut PROVE DirectoriesSeen'
  BY <1>17 DEF BatchPut, IdleReader, CoverageInv, BatchShape, DirectoriesSeen, RootSeen,
     SubtreeSeen, Restoring, InStream
<1>18. ASSUME NEW n \in TreeNotes, IndexOne(n) PROVE DirectoriesSeen'
  BY <1>18 DEF IndexOne, CoverageInv, DirectoriesSeen, RootSeen, SubtreeSeen, Restoring,
     InStream
<1>19. ASSUME StartWatcher PROVE DirectoriesSeen'
  BY <1>19 DEF StartWatcher, CoverageInv, WatcherPhases, DirectoriesSeen
<1>20. ASSUME ArmRoot PROVE DirectoriesSeen'
  BY <1>20 DEF ArmRoot, CoverageInv, WatcherPhases, DirectoriesSeen, RootSeen, Arming
<1>21. ASSUME ArmSubtree PROVE DirectoriesSeen'
  BY <1>21 DEF ArmSubtree, CoverageInv, DirectoriesSeen, RootSeen, SubtreeSeen, InStream
<1>22. ASSUME ArmGapEffect PROVE DirectoriesSeen'
  BY <1>22 DEF ArmGapEffect, CoverageInv, DirectoriesSeen, RootSeen, SubtreeSeen, InStream
<1>23. ASSUME ArmedEffect PROVE DirectoriesSeen'
  BY <1>23, NothingInEmpty DEF ArmedEffect, CoverageInv, BatchShape, DirectoriesSeen, RootSeen,
     SubtreeSeen, InStream
<1>24. ASSUME DetachWatcher PROVE DirectoriesSeen'
  BY <1>24 DEF DetachWatcher, NoNative, DirectoriesSeen
<1>25. ASSUME ReportLoss \/ OfferEffect \/ ClaimTurn \/ TurnCompletes \/ TurnBreaks \/
            ServeWatcherEffect \/ RootCheckEffect \/ StopAdmission \/ CloseIngress
      PROVE  DirectoriesSeen'
  BY <1>25 DEF ReportLoss, OfferEffect, ClaimTurn, TurnCompletes, TurnBreaks,
     ServeWatcherEffect, RootCheckEffect, StopAdmission, CloseIngress, CoverageInv,
     DirectoriesSeen, RootSeen, SubtreeSeen, Restoring, InStream
<1>26. ASSUME NEW n \in TreeNotes, Debounce(n) \/ Deliver(n)
      PROVE  DirectoriesSeen'
  BY <1>26 DEF Debounce, Deliver, CoverageInv, DirectoriesSeen, RootSeen, SubtreeSeen,
     Restoring, InStream
<1>27. CASE UNCHANGED coverageVars
  BY <1>27 DEF coverageVars, CoverageInv, DirectoriesSeen, RootSeen, SubtreeSeen, Restoring,
     InStream
<1> QED
  BY <1>1, <1>2, <1>3, <1>4, <1>5, <1>6, <1>7, <1>8, <1>9, <1>10, <1>11, <1>12, <1>13, <1>14,
     <1>15, <1>16, <1>17, <1>18, <1>19, <1>20, <1>21, <1>22, <1>23, <1>24, <1>25, <1>26, <1>27
     DEF CoverageStep

(* As long as a gap is open, a watcher is armed or none is there, the evidence
   shows it. *)
LEMMA GapOwes ==
    ASSUME CoverageTyped', EvidenceOrdered', CoverageDated',
           native'.open \/ watcher'.at \notin {"armed", "serving"}
    PROVE  MissedIsOwed'
<1> SUFFICES ASSUME (watcher.generations > 0)' PROVE OwedToReconcile'
  BY DEF MissedIsOwed, Missed
<1>1. evidence'.restored < evidence'.revision
  BY DEF EvidenceOrdered
<1>2. Doubted'
  BY <1>1 DEF EvidenceOrdered, CoverageTyped, EvidenceTyped, Doubted
<1>3. full'.coverage # <<watcher'.token, evidence'.revision>>
  <2> SUFFICES ASSUME full'.coverage = <<watcher'.token, evidence'.revision>> PROVE FALSE
    OBVIOUS
  <2>1. full'.coverage # NoTicket /\ full'.coverage[2] = evidence'.revision
    BY DEF NoTicket
  <2> QED
    BY <1>1, <2>1 DEF CoverageDated, CoverageTyped, EvidenceTyped
<1> QED
  BY <1>2, <1>3 DEF OwedToReconcile, WillReconcile

(* Failed monitoring shows, and no turn reconciles it. *)
LEMMA FailureOwes == ASSUME evidence'.error, evidence'.verified = NoTicket PROVE MissedIsOwed'
BY DEF MissedIsOwed, OwedToReconcile, Doubted, WillReconcile, NoTicket

(* What stops arriving is asked for, and nothing else stops arriving. *)
LEMMA LossOwes ==
    ASSUME CoverageInv, DebtKept, watcher' = watcher, tree' = tree,
           evidence'.error = evidence.error, evidence'.reconciled = evidence.reconciled,
           evidence'.revision = evidence.revision, evidence'.failure = evidence.failure,
           evidence'.verified = evidence.verified,
           DebtAsked \/ \A n \in TreeNotes : Arriving(n) => Arriving(n)'
    PROVE  MissedIsOwed'
<1>1. CASE DebtAsked
  BY <1>1 DEF DebtAsked, DebtKept, MissedIsOwed, OwedToReconcile
<1>2. CASE \A n \in TreeNotes : Arriving(n) => Arriving(n)'
  <2> SUFFICES ASSUME NEW n \in TreeNotes, Missed(n)' PROVE OwedToReconcile'
    BY DEF MissedIsOwed
  <2>1. OwedToReconcile
    BY <1>2 DEF CoverageInv, MissedIsOwed, Missed
  <2>2. (Doubted' <=> Doubted) /\ (WillReconcile' <=> WillReconcile)
    BY DEF Doubted, WillReconcile, DebtKept
  <2> QED
    BY <2>1, <2>2 DEF OwedToReconcile, DebtKept
<1> QED
  BY <1>1, <1>2

(* A change in a directory that is not watched yet is owed, unless what makes
   the reader watch that directory is on its way. *)
LEMMA UnwatchedOwes ==
    ASSUME CoverageInv, watcher.generations > 0,
           NEW n \in TreeNotes, ~Arriving(n), NEW dir \in {"root", "sub"}, dir \notin native.watched,
           dir = "sub" => tree.sub /\ DirOf(n) = "sub"
    PROVE  OwedToReconcile
<1>1. CASE evidence.restored < evidence.revision
  <2>1. Doubted
    BY <1>1 DEF CoverageInv, EvidenceOrdered, CoverageTyped, EvidenceTyped, Doubted
  <2>2. full.coverage # <<watcher.token, evidence.revision>>
    <3> SUFFICES ASSUME full.coverage = <<watcher.token, evidence.revision>> PROVE FALSE
      OBVIOUS
    <3>1. full.coverage # NoTicket /\ full.coverage[2] = evidence.revision
      BY DEF NoTicket
    <3> QED
      BY <1>1, <3>1 DEF CoverageInv, CoverageDated, CoverageTyped, EvidenceTyped
  <2> QED
    BY <2>1, <2>2 DEF OwedToReconcile, WillReconcile
<1>2. CASE ~(evidence.restored < evidence.revision)
  <2>1. ~native.open /\ watcher.at \in {"armed", "serving"} /\ watcher.accepting
    BY <1>2 DEF CoverageInv, EvidenceOrdered, WatcherPhases, Serving
  <2>2. CASE watcher.snapshot[1] # evidence.failure
    <3>1. evidence.error /\ evidence.verified # <<watcher.token, evidence.failure>>
      BY <2>1, <2>2 DEF CoverageInv, SnapshotDated, NoTicket
    <3> QED
      BY <3>1 DEF OwedToReconcile, Doubted, WillReconcile
  <2>3. CASE watcher.snapshot[1] = evidence.failure
    <3>1. reader.at # "broken" /\ native.alive
      BY <2>1, <2>3 DEF CoverageInv, SomebodyReads, Arriving
    <3>2. reader.at # "descending" /\ ~Restoring
      BY <2>1 DEF CoverageInv, BatchShape, Restoring
    <3>3. RootSeen /\ SubtreeSeen
      BY <3>1, <3>2 DEF CoverageInv, DirectoriesSeen
    <3> QED
      BY <3>3 DEF RootSeen, SubtreeSeen, Arriving
  <2> QED
    BY <2>2, <2>3
<1> QED
  BY <1>1, <1>2

(* What no step delivers stays owed, whatever the actors do between them. *)
LEMMA MissedKept ==
    ASSUME CoverageInv, CoverageStep
    PROVE  MissedIsOwed'
<1>1. CoverageTyped' /\ EvidenceOrdered' /\ CoverageDated' /\ CoverageTyped
  BY TreeTypeKept, NativeTypeKept, ReaderTypeKept, PipeTypeKept, EvidenceTypeKept,
     WatcherTypeKept, TurnTypeKept, EvidenceKept, CoverageKept DEF CoverageTyped, CoverageInv
<1>2. ASSUME ChangesEffect PROVE MissedIsOwed'
  <2> SUFFICES ASSUME NEW n \in TreeNotes, Missed(n)' PROVE OwedToReconcile'
    BY DEF MissedIsOwed
  <2>1. OwedToReconcile' <=> OwedToReconcile
    BY <1>2 DEF ChangesEffect, OwedToReconcile, Doubted, WillReconcile
  <2>2. ~Arriving(n) /\ watcher.generations > 0
    BY <1>2 DEF ChangesEffect, Missed, Arriving, InStream
  <2>3. CASE n \in tree.dirty
    BY <2>1, <2>2, <2>3 DEF CoverageInv, MissedIsOwed, Missed
  <2>4. CASE n \notin tree.dirty
    <3>1. PICK dir \in {"root", "sub"}, record \in Records :
             /\ dir \in native.watched =>
                   Among(record, native'.kernel) \/ Among("overflow", native'.kernel)
             /\ dir = "sub" => tree.sub /\ DirOf(n) = "sub"
             /\ record = n \/ (DirOf(n) = "sub" /\ record \in {"created", "arrived", "departed"})
      BY <1>2, <2>4 DEF ChangesEffect, Missed
    <3>2. dir \notin native.watched
      BY <3>1 DEF Missed, Arriving, InStream
    <3> QED
      BY <2>1, <2>2, <3>1, <3>2, UnwatchedOwes
  <2> QED
    BY <2>3, <2>4
<1>3. ASSUME OpenGapEffect PROVE MissedIsOwed'
  <2>1. native'.open
    BY <1>1, <1>3 DEF OpenGapEffect
  <2> QED
    BY <1>1, <2>1, GapOwes
<1>4. ASSUME ParseOverflowEffect \/ ParseCreatedEffect \/ ParseMovedEffect \/ RestoreRootEffect
      PROVE  MissedIsOwed'
  <2>1. native'.open
    BY <1>4 DEF ParseOverflowEffect, ParseCreatedEffect, ParseMovedEffect, RestoreRootEffect
  <2> QED
    BY <1>1, <2>1, GapOwes
<1>5. ASSUME RestoreSubtree PROVE MissedIsOwed'
  <2>1. native.open
    BY <1>5 DEF RestoreSubtree, CoverageInv, BatchShape
  <2>2. native'.open
    BY <1>1, <1>5, <2>1 DEF RestoreSubtree
  <2> QED
    BY <1>1, <2>2, GapOwes
<1>6. ASSUME StartWatcher \/ ArmRoot \/ ArmSubtree \/ StopAdmission \/ CloseIngress \/ DetachWatcher
      PROVE  MissedIsOwed'
  <2>1. CASE StartWatcher \/ StopAdmission \/ CloseIngress \/ DetachWatcher
    <3>1. watcher'.at \notin {"armed", "serving"}
      <4>1. CASE StartWatcher
        BY <4>1 DEF StartWatcher
      <4>2. CASE StopAdmission
        BY <1>1, <4>2 DEF StopAdmission
      <4>3. CASE CloseIngress
        BY <1>1, <4>3 DEF CloseIngress
      <4>4. CASE DetachWatcher
        BY <1>1, <4>4 DEF DetachWatcher
      <4> QED
        BY <2>1, <4>1, <4>2, <4>3, <4>4
    <3> QED
      BY <1>1, <3>1, GapOwes
  <2>2. CASE ArmRoot \/ ArmSubtree
    <3>1. watcher'.at \in {"arming", "stopping"}
      BY <2>2 DEF ArmRoot, ArmSubtree, CoverageInv, WatcherPhases, Arming
    <3> QED
      BY <1>1, <3>1, GapOwes
  <2> QED
    BY <1>6, <2>1, <2>2
<1>7. ASSUME ArmGapEffect PROVE MissedIsOwed'
  <2>1. native'.open
    BY <1>1, <1>7 DEF ArmGapEffect
  <2> QED
    BY <1>1, <2>1, GapOwes
<1>8. ASSUME ArmedEffect PROVE MissedIsOwed'
  <2> QED
    BY <1>1, <1>8, GapOwes DEF ArmedEffect
<1>9. ASSUME ReportFailureEffect \/ RootCheckEffect PROVE MissedIsOwed'
  <2>1. evidence'.error /\ evidence'.verified = NoTicket
    BY <1>1, <1>9 DEF ReportFailureEffect, RootCheckEffect, CoverageTyped, EvidenceTyped
  <2> QED
    BY <2>1, FailureOwes
<1>10. ASSUME ReaderBreaks PROVE MissedIsOwed'
  <2>1. reader'.at = "broken"
    BY <1>10 DEF ReaderBreaks
  <2> QED
    BY <2>1 DEF MissedIsOwed, Missed, Arriving
<1>11. ASSUME ReadBatch PROVE MissedIsOwed'
  <2>1. reader = IdleReader /\ reader'.batch = native.kernel /\ DebtKept
    BY <1>1, <1>11, AskedOrNot DEF ReadBatch, CoverageInv, BatchShape, Reading, IdleReader
  <2>2. \A n \in TreeNotes : Arriving(n) => Arriving(n)'
    BY <1>11, <2>1 DEF ReadBatch, IdleReader, Arriving, InStream
  <2> QED
    BY <1>11, <2>1, <2>2, LossOwes DEF ReadBatch
<1>12. ASSUME NEW m \in TreeNotes, ParseNoteEffect(m) PROVE MissedIsOwed'
  <2>1. CASE reader.retire
    BY <1>1, <1>12, <2>1, GapOwes DEF ParseNoteEffect, CoverageInv, BatchShape
  <2>2. CASE ~reader.retire
    <3>1. DebtAsked \/ \A n \in TreeNotes : Arriving(n) => Arriving(n)'
      BY <1>12, <2>2 DEF ParseNoteEffect, DebtKept, Takes, Arriving, InStream, TreeNotes
    <3> QED
      BY <1>12, <3>1, LossOwes DEF ParseNoteEffect
  <2> QED
    BY <2>1, <2>2
<1>13. ASSUME ParseUnknownEffect PROVE MissedIsOwed'
  <2>1. reader'.events = reader.events
    BY <1>1, <1>13 DEF ParseUnknownEffect, CoverageTyped, ReaderTyped, ReadersOf
  <2>2. \A n \in TreeNotes : Arriving(n) => Arriving(n)'
    BY <1>13, <2>1 DEF ParseUnknownEffect, DebtKept, Takes, Arriving, InStream, TreeNotes
  <2> QED
    BY <1>13, <2>2, LossOwes DEF ParseUnknownEffect
<1>14. ASSUME ParseFenceEffect PROVE MissedIsOwed'
  <2>1. DebtKept
    BY <1>1, <1>14, AskedOrNot DEF ParseFenceEffect
  <2>2. reader'.events = reader.events /\ native'.kernel = native.kernel
    BY <1>1, <1>14 DEF ParseFenceEffect, CoverageTyped, ReaderTyped, ReadersOf, NativeTyped,
       Natives
  <2>3. \A n \in TreeNotes : Arriving(n) => Arriving(n)'
    BY <1>14, <2>2 DEF ParseFenceEffect, Takes, Arriving, InStream, TreeNotes
  <2> QED
    BY <1>14, <2>1, <2>3, LossOwes DEF ParseFenceEffect
<1>15. ASSUME NothingToRestore PROVE MissedIsOwed'
  <2>1. DebtKept
    BY <1>1, <1>15, AskedOrNot DEF NothingToRestore
  <2>2. \A n \in TreeNotes : Arriving(n) => Arriving(n)'
    BY <1>1, <1>15 DEF NothingToRestore, Arriving, InStream
  <2> QED
    BY <1>15, <2>1, <2>2, LossOwes DEF NothingToRestore
<1>16. ASSUME FinishBatchEffect PROVE MissedIsOwed'
  <2>1. /\ evidence'.error = evidence.error /\ evidence'.reconciled = evidence.reconciled
        /\ evidence'.revision = evidence.revision /\ evidence'.failure = evidence.failure
        /\ evidence'.verified = evidence.verified
    BY <1>1, <1>16 DEF FinishBatchEffect, CoverageTyped, EvidenceTyped
  <2>2. \A n \in TreeNotes : Arriving(n) => Arriving(n)'
    BY <1>1, <1>16 DEF FinishBatchEffect, DebtKept, Arriving, InStream
  <2> QED
    BY <1>16, <2>1, <2>2, LossOwes DEF FinishBatchEffect
<1>17. ASSUME PutEventEffect PROVE MissedIsOwed'
  <2>1. DebtKept
    BY <1>1, <1>17, AskedOrNot DEF PutEventEffect
  <2>2. CASE reader.retire
    BY <1>1, <1>17, <2>2, GapOwes DEF PutEventEffect, CoverageInv, BatchShape
  <2>3. CASE ~reader.retire
    <3>1. /\ reader'.at = reader.at /\ reader'.batch = reader.batch /\ pipe'.offered = pipe.offered
          /\ pipe'.deferred = pipe.deferred /\ pipe'.pending = pipe.pending
          /\ pipe.owed => pipe'.owed
      BY <1>1, <1>17 DEF PutEventEffect, CoverageTyped, ReaderTyped, ReadersOf, PipeTyped
    <3>2. \A n \in TreeNotes : Arriving(n) => Arriving(n)'
      BY <1>17, <2>1, <2>3, <3>1 DEF PutEventEffect, Arriving, InStream
    <3> QED
      BY <1>17, <2>1, <3>2, LossOwes DEF PutEventEffect
  <2> QED
    BY <2>2, <2>3
<1>18. ASSUME BatchPut PROVE MissedIsOwed'
  <2>1. DebtKept /\ reader.batch = <<>> /\ reader.events = <<>> /\ reader.at = "putting"
    BY <1>1, <1>18, AskedOrNot DEF BatchPut, CoverageInv, BatchShape
  <2>2. \A n \in TreeNotes : Arriving(n) => Arriving(n)'
    BY <1>18, <2>1, NothingInEmpty DEF BatchPut, Arriving, InStream
  <2> QED
    BY <1>18, <2>1, <2>2, LossOwes DEF BatchPut
<1>19. ASSUME ReportLoss PROVE MissedIsOwed'
  <2>1. DebtAsked
    BY <1>1, <1>19, Asked DEF ReportLoss
  <2> QED
    BY <1>19, <2>1, LossOwes DEF ReportLoss, DebtAsked
<1>20. ASSUME OfferEffect PROVE MissedIsOwed'
  <2>1. CASE watcher.accepting
    <3>1. /\ pipe'.deferred = pipe.deferred /\ pipe'.pending = pipe.pending /\ pipe'.owed = pipe.owed
      BY <1>1, <1>20 DEF OfferEffect, CoverageTyped, PipeTyped
    <3>2. DebtAsked \/ \A n \in TreeNotes : Arriving(n) => Arriving(n)'
      BY <1>20, <2>1, <3>1 DEF OfferEffect, DebtKept, Arriving, InStream
    <3> QED
      BY <1>20, <3>2, LossOwes DEF OfferEffect
  <2>2. CASE ~watcher.accepting
    <3>1. watcher'.at \notin {"armed", "serving"}
      BY <1>20, <2>2 DEF OfferEffect, CoverageInv, WatcherPhases, Serving
    <3> QED
      BY <1>1, <3>1, GapOwes
  <2> QED
    BY <2>1, <2>2
<1>21. ASSUME NEW m \in TreeNotes, Debounce(m) \/ Deliver(m) PROVE MissedIsOwed'
  <2>1. DebtKept
    BY <1>1, <1>21, AskedOrNot DEF Debounce, Deliver
  <2>2. full' = Requested(full) => DebtAsked
    BY <1>1, Asked
  <2>3. DebtAsked \/ \A n \in TreeNotes : Arriving(n) => Arriving(n)'
    <3>1. CASE Debounce(m)
      BY <1>1, <2>1, <2>2, <3>1 DEF Debounce, Arriving, InStream
    <3>2. CASE Deliver(m)
      BY <1>1, <2>1, <2>2, <3>2 DEF Deliver, Arriving, InStream
    <3> QED
      BY <1>21, <3>1, <3>2
  <2> QED
    BY <1>21, <2>1, <2>3, LossOwes DEF Debounce, Deliver
<1>22. ASSUME ClaimTurn PROVE MissedIsOwed'
  <2> SUFFICES ASSUME NEW n \in TreeNotes, Missed(n)' PROVE OwedToReconcile'
    BY DEF MissedIsOwed
  <2>1. /\ full'.turn = (IF full.needed THEN "full" ELSE "targeted") /\ full'.needed = full.needed
        /\ full'.todo = IF full.needed THEN TreeNotes ELSE pipe.pending
        /\ pipe'.offered = pipe.offered /\ pipe'.queue = pipe.queue /\ pipe'.owed = pipe.owed
        /\ ~full.needed => pipe'.deferred = pipe.deferred
        /\ full.todo = {} /\ UNCHANGED <<tree, native, reader, evidence, watcher>>
    BY <1>1, <1>22 DEF ClaimTurn, CoverageInv, Ended
  <2>2. ~full.needed /\ Missed(n)
    BY <2>1 DEF Missed, Arriving, InStream
  <2>3. Doubted
    BY <2>2 DEF CoverageInv, MissedIsOwed, OwedToReconcile
  <2> QED
    BY <2>1, <2>2, <2>3 DEF OwedToReconcile, Doubted
<1>23. ASSUME NEW m \in TreeNotes, IndexOne(m) PROVE MissedIsOwed'
  <2> SUFFICES ASSUME NEW n \in TreeNotes, Missed(n)' PROVE OwedToReconcile'
    BY DEF MissedIsOwed
  <2>1. /\ full'.turn = full.turn /\ full'.needed = full.needed /\ full'.again = full.again
        /\ full'.coverage = full.coverage /\ full'.todo = full.todo \ {m}
        /\ tree'.dirty = tree.dirty \ {m} /\ UNCHANGED <<native, reader, pipe, evidence, watcher>>
    BY <1>1, <1>23 DEF IndexOne
  <2>2. Missed(n)
    BY <2>1 DEF Missed, Arriving, InStream
  <2>3. OwedToReconcile
    BY <2>2 DEF CoverageInv, MissedIsOwed
  <2> QED
    BY <2>1, <2>3 DEF OwedToReconcile, Doubted, WillReconcile
<1>24. ASSUME TurnCompletes PROVE MissedIsOwed'
  <2> SUFFICES ASSUME NEW n \in TreeNotes, Missed(n)' PROVE OwedToReconcile'
    BY DEF MissedIsOwed
  <2>1. /\ full'.turn = "none" /\ full'.needed = (IF full.turn = "full" THEN full.again ELSE full.needed)
        /\ full.todo = {} /\ UNCHANGED <<tree, native, reader, pipe, watcher>>
    BY <1>1, <1>24 DEF TurnCompletes, TurnEnded
  <2>2. OwedToReconcile
    BY <2>1 DEF CoverageInv, MissedIsOwed, Missed, Arriving, InStream
  <2>3. Reconciles => full.turn = "full" /\ WillReconcile
    BY DEF Reconciles, CanReconcile, WillReconcile, CoverageInv, WatcherPhases, Serving
  <2>4. Reconciles \/ evidence' = evidence
    BY <1>24 DEF TurnCompletes
  <2> QED
    BY <2>1, <2>2, <2>3, <2>4 DEF OwedToReconcile, Doubted
<1>25. ASSUME TurnBreaks PROVE MissedIsOwed'
  <2>1. full'.turn = "none" /\ full'.needed
    BY <1>1, <1>25 DEF TurnBreaks, TurnEnded
  <2> QED
    BY <2>1 DEF MissedIsOwed, OwedToReconcile
<1>26. ASSUME ServeWatcherEffect PROVE MissedIsOwed'
  <2> SUFFICES ASSUME NEW n \in TreeNotes, Missed(n)' PROVE OwedToReconcile'
    BY DEF MissedIsOwed
  <2>1. /\ evidence'.error = evidence.error /\ evidence'.reconciled = evidence.reconciled
        /\ evidence'.revision = evidence.revision
        /\ watcher'.generations = watcher.generations /\ watcher'.token = watcher.token
    BY <1>1, <1>26 DEF ServeWatcherEffect
  <2>2. OwedToReconcile
    BY <1>26, <2>1 DEF ServeWatcherEffect, DebtKept, CoverageInv, MissedIsOwed, Missed,
       Arriving, InStream
  <2>3. full'.coverage # <<watcher'.token, evidence'.revision>>
    <3>1. watcher.accepting /\ watcher.at = "armed" /\ full'.coverage = full.coverage
      BY <1>26 DEF ServeWatcherEffect, DebtKept, CoverageInv, WatcherPhases, Serving
    <3> SUFFICES ASSUME full.coverage = <<watcher.token, evidence.revision>> PROVE FALSE
      BY <2>1, <3>1
    <3>2. full.coverage # NoTicket /\ full.coverage[1] = watcher.token
      BY DEF NoTicket
    <3> QED
      BY <3>1, <3>2 DEF CoverageInv, CoverageDated
  <2> QED
    BY <1>26, <2>1, <2>2, <2>3 DEF ServeWatcherEffect, DebtKept, OwedToReconcile, Doubted, WillReconcile
<1>27. CASE UNCHANGED coverageVars
  BY <1>27 DEF coverageVars, CoverageInv, MissedIsOwed, Missed, Arriving, InStream, OwedToReconcile,
     Doubted, WillReconcile
<1> QED
  BY <1>2, <1>3, <1>4, <1>5, <1>6, <1>7, <1>8, <1>9, <1>10, <1>11, <1>12, <1>13, <1>15, <1>16,
     <1>17, <1>18, <1>19, <1>20, <1>21, <1>22, <1>23, <1>24, <1>25, <1>26, <1>27, <1>14 DEF
     CoverageStep

-----------------------------------------------------------------------------
LEMMA CoverageInitially == CoverageInit => CoverageInv
<1> SUFFICES ASSUME CoverageInit PROVE CoverageInv
  OBVIOUS
<1>1. CoverageTyped
  BY EmptyIsSequence DEF CoverageInit, CoverageTyped, TreeTyped, NativeTyped, ReaderTyped,
     PipeTyped, EvidenceTyped, WatcherTyped, TurnTyped, Natives, ReadersOf, TurnsOf, Tickets,
     NoNative, IdleReader
<1>2. EvidenceOrdered /\ WatcherPhases /\ SnapshotDated /\ CoverageDated /\ Ended
  BY DEF CoverageInit, EvidenceOrdered, WatcherPhases, SnapshotDated, CoverageDated, Ended,
     NoNative, IdleReader, Arming, Reading, Serving
<1>3. BatchShape /\ DirectoriesSeen /\ SomebodyReads /\ MissedIsOwed
  BY DEF CoverageInit, BatchShape, DirectoriesSeen, SomebodyReads, MissedIsOwed, Missed,
     NoNative, IdleReader
<1> QED
  BY <1>1, <1>2, <1>3 DEF CoverageInv

(* The invariant on which the honesty of the coverage rests holds in every
   state, whatever the limits of the kernel's and the ingress queues, the
   number of changes and failures, and the number of watchers. *)
THEOREM CoverageInvariance == CoverageSpec => []CoverageInv
<1>1. CoverageInv /\ [CoverageNext]_coverageVars => CoverageInv'
  BY StepDoes, TreeTypeKept, NativeTypeKept, ReaderTypeKept, PipeTypeKept, EvidenceTypeKept,
     WatcherTypeKept, TurnTypeKept, EvidenceKept, PhasesKept, SnapshotKept, CoverageKept,
     EndKept, BatchKept, DirectoriesKept, ReadersKept, MissedKept DEF CoverageInv, CoverageTyped
<1> QED
  BY <1>1, CoverageInitially, PTL DEF CoverageSpec

(* Once a watcher was started, a status that asks for no full synchronization
   is honest: every change that the index does not hold is still on its way. *)
THEOREM CoverageIsHonest == CoverageSpec => []CoverageHonest
<1>1. CoverageInv => CoverageHonest
  <2> SUFFICES ASSUME CoverageInv, watcher.generations > 0, ~RequiresFull, NEW n \in tree.dirty
               PROVE  OnItsWay(n)
    BY DEF CoverageHonest
  <2>1. n \in TreeNotes
    BY DEF CoverageInv, CoverageTyped, TreeTyped
  <2>2. ~OwedToReconcile
    BY DEF RequiresFull, OwedToReconcile, Doubted
  <2>3. Arriving(n)
    BY <2>1, <2>2 DEF CoverageInv, MissedIsOwed, Missed
  <2> QED
    BY <2>1, <2>3, ArrivingIsOnItsWay DEF CoverageInv
<1> QED
  BY <1>1, CoverageInvariance, PTL

-----------------------------------------------------------------------------
(* IndexReaders: searches beside synchronization.                          *)

ModelOrNone == 0..2
IndexStates == {"none", "uninitialized", "ready", "indexing", "error"}
RunPlaces == {"idle", "resolving", "validating", "preparing", "reserving", "yielded", "turn"}
SearchPlaces == {"idle", "asking", "embedding", "loading", "ranking", "refused", "reading", "comparing",
                 "previous", "prepared", "scoring"}

Resources == [gen : Nat, model : ModelOrNone, invalidating : BOOLEAN, pins : SUBSET (Queries \cup {"sync"})]
Owners == [gen : Nat, sig : ModelOrNone, evidence : ModelOrNone, initialized : BOOLEAN,
           available : BOOLEAN, failed : BOOLEAN, pending : BOOLEAN]
RowsOfNotes == [IndexedNotes -> ModelOrNone]
Indexes == [sig : ModelOrNone, state : IndexStates, rows : RowsOfNotes]
Runs == [at : RunPlaces, gen : Nat, todo : SUBSET IndexedNotes, runs : Nat]
Searches == [at : SearchPlaces, gen : Nat, vector : ModelOrNone, sig : ModelOrNone, rows : RowsOfNotes]

ReadersTyped ==
    /\ artifacts \in Fingerprints /\ resource \in Resources /\ owner \in Owners
    /\ index \in Indexes /\ syncer \in Runs /\ query \in [Queries -> Searches]

(* Whoever works with a model has pinned its generation, and the owner's memory
   is of a pinned generation. *)
InsidePinned ==
    /\ syncer.at \notin {"idle", "yielded"} => "sync" \in resource.pins
    /\ \A q \in Queries : query[q].at \notin {"idle", "prepared"} => q \in resource.pins
    /\ resource.pins # {} => owner.gen = resource.gen
    /\ owner.gen <= resource.gen /\ syncer.gen <= resource.gen

(* What the owner remembers of this generation is about the model it loaded,
   and it offers search over an index of that model only. *)
Serves(r, i) == r.model # 0 /\ i.sig = r.model
OwnerKnows ==
    owner.gen = resource.gen =>
       /\ owner.sig \in {0, resource.model} /\ owner.evidence \in {0, resource.model}
       /\ owner.initialized \/ owner.available => Serves(resource, index)

(* A run that has prepared the index made it one of the pinned model. *)
RunKnows ==
    /\ syncer.at \in {"validating", "preparing"} => owner.sig # 0
    /\ syncer.at \in {"reserving", "turn"} \/ (syncer.at = "yielded" /\ syncer.gen = resource.gen)
          => Serves(resource, index)

RowsOf(rows, model) == \A n \in IndexedNotes : rows[n] \in {0, model}

(* A search about to load rows does so from an index of its model; rows
   prepared for scoring are scored by the model of their signature or not at all. *)
SearchKnows(x, r, i) ==
    /\ x.gen <= r.gen
    /\ x.at \in {"embedding", "loading"} => Serves(r, i)
    /\ x.at = "loading" => x.vector = r.model
    /\ x.at \in {"comparing", "previous", "prepared", "scoring"} => RowsOf(x.rows, x.sig)
    /\ x.at = "scoring" \/ (x.at = "prepared" /\ x.gen = r.gen) => r.model # 0 /\ x.sig = r.model
    /\ x.at = "ranking" => RowsOf(x.rows, x.vector)

ReadersInv ==
    /\ ReadersTyped /\ InsidePinned /\ OwnerKnows /\ RunKnows
    /\ \A q \in Queries : SearchKnows(query[q], resource, index)
    /\ RowsOf(index.rows, index.sig)

(* Within a generation a model once loaded stays, and nothing a search relies
   on is taken away. *)
LEMMA SearchKeeps ==
    ASSUME NEW x, NEW r \in Resources, NEW s \in Resources, NEW i, NEW j,
           SearchKnows(x, r, i), s.gen = r.gen, r.model # 0 => s.model = r.model,
           Serves(r, i) => Serves(s, j)
    PROVE  SearchKnows(x, s, j)
BY DEF SearchKnows, Serves

LEMMA ReadersInitially == ReadersInit => ReadersInv
<1> SUFFICES ASSUME ReadersInit PROVE ReadersInv
  OBVIOUS
<1>1. NoRows \in RowsOfNotes
  BY DEF NoRows, RowsOfNotes, ModelOrNone
<1>2. index \in Indexes /\ RowsOf(index.rows, index.sig)
  BY DEF ReadersInit, Indexes, RowsOfNotes, ModelOrNone, Fingerprints, IndexStates, RowsOf
<1>3. resource \in Resources /\ owner \in Owners /\ syncer \in Runs /\ artifacts \in Fingerprints
  BY DEF ReadersInit, Resources, Owners, Runs, Forgotten, ModelOrNone, RunPlaces
<1>4. query \in [Queries -> Searches]
  BY <1>1 DEF ReadersInit, Searches, IdleQuery, SearchPlaces, ModelOrNone
<1>5. InsidePinned /\ OwnerKnows /\ RunKnows
  BY DEF ReadersInit, InsidePinned, OwnerKnows, RunKnows, Forgotten, IdleQuery
<1>6. \A q \in Queries : SearchKnows(query[q], resource, index)
  <2> TAKE q \in Queries
  <2>1. query[q].gen = 0 /\ query[q].at = "idle" /\ resource.gen = 1
    BY DEF ReadersInit, IdleQuery
  <2> QED
    BY <2>1 DEF SearchKnows
<1> QED
  BY <1>2, <1>3, <1>4, <1>5, <1>6 DEF ReadersInv, ReadersTyped

(* Loading a model in a generation changes nothing for anybody. *)
LEMMA LoadedKeeps ==
    ASSUME ReadersTyped, OwnerKnows
    PROVE  /\ Loaded \in 1..2
           /\ resource.model # 0 => Loaded = resource.model
           /\ [resource EXCEPT !.model = Loaded] \in Resources
BY DEF ReadersTyped, Loaded, Resources, ModelOrNone, Fingerprints

(* What entering a pinned block establishes. *)
LEMMA EntersKeeps ==
    ASSUME ReadersInv, NEW t \in Queries \cup {"sync"}, NEW g, Enters(t, g)
    PROVE  /\ resource' \in Resources /\ owner' \in Owners
           /\ resource'.gen = resource.gen /\ resource'.model = resource.model
           /\ resource'.pins = resource.pins \cup {t}
           /\ owner'.gen = resource.gen
           /\ \/ owner' = owner
              \/ /\ owner'.sig = 0 /\ owner'.evidence = 0
                 /\ ~owner'.initialized /\ ~owner'.available /\ owner.gen # resource.gen
<1>1. owner' \in Owners /\ owner'.gen = resource.gen
  BY DEF ReadersInv, ReadersTyped, Enters, Refreshed, Forgotten, Owners, Resources, ModelOrNone
<1>2. resource' \in Resources /\ resource'.gen = resource.gen /\ resource'.model = resource.model
      /\ resource'.pins = resource.pins \cup {t}
  BY DEF ReadersInv, ReadersTyped, Enters, Pinned, Resources
<1>3. \/ owner' = owner
      \/ /\ owner'.sig = 0 /\ owner'.evidence = 0
         /\ ~owner'.initialized /\ ~owner'.available /\ owner.gen # resource.gen
  BY DEF Enters, Refreshed, Forgotten
<1> QED
  BY <1>1, <1>2, <1>3

LEMMA ReplaceKeeps == ReadersInv /\ (ReplaceArtifacts \/ UNCHANGED readerVars) => ReadersInv'
BY DEF ReadersInv, ReplaceArtifacts, readerVars, ReadersTyped, InsidePinned, OwnerKnows, RunKnows,
       Fingerprints

LEMMA ReleaseKeeps == ReadersInv /\ ReleaseGeneration => ReadersInv'
<1> SUFFICES ASSUME ReadersInv, ReleaseGeneration PROVE ReadersInv'
  OBVIOUS
<1>1. resource' \in Resources /\ resource'.gen = resource.gen + 1 /\ resource'.pins = {}
      /\ resource.gen \in Nat /\ resource.pins = {}
  BY DEF ReadersInv, ReadersTyped, ReleaseGeneration, Resources, ModelOrNone
<1>2. owner.gen \in Nat /\ owner.gen < resource'.gen /\ syncer.gen \in Nat /\ syncer.gen < resource'.gen
  BY <1>1 DEF ReadersInv, ReadersTyped, InsidePinned, Owners, Runs
<1>3. syncer.at \in {"idle", "yielded"} /\ \A q \in Queries : query[q].at \in {"idle", "prepared"}
  BY <1>1 DEF ReadersInv, InsidePinned
<1>4. \A q \in Queries : SearchKnows(query[q], resource', index')
  <2> TAKE q \in Queries
  <2>1. query[q].gen \in Nat /\ query[q].gen <= resource.gen /\ query[q].at \in {"idle", "prepared"}
    BY <1>3 DEF ReadersInv, ReadersTyped, Searches, SearchKnows
  <2>2. SearchKnows(query[q], resource, index)
    BY DEF ReadersInv
  <2> QED
    BY <1>1, <2>1, <2>2 DEF SearchKnows
<1>5. InsidePinned' /\ OwnerKnows' /\ RunKnows'
  BY <1>1, <1>2, <1>3 DEF ReadersInv, ReleaseGeneration, InsidePinned, OwnerKnows, RunKnows
<1> QED
  BY <1>1, <1>4, <1>5 DEF ReadersInv, ReadersTyped, ReleaseGeneration

(* The steps of a run leave the searches alone: what is left to show of one. *)
LEMMA RunStep ==
    ASSUME ReadersInv, UNCHANGED <<artifacts, query>>,
           resource' \in Resources, owner' \in Owners, index' \in Indexes, syncer' \in Runs,
           resource'.gen = resource.gen, resource.model # 0 => resource'.model = resource.model,
           Serves(resource, index) => Serves(resource', index'),
           resource'.pins \ {"sync"} = resource.pins \ {"sync"},
           syncer'.at \notin {"idle", "yielded"} => "sync" \in resource'.pins,
           resource'.pins # {} => owner'.gen = resource.gen,
           owner'.gen <= resource.gen, syncer'.gen <= resource.gen,
           OwnerKnows', RunKnows', RowsOf(index'.rows, index'.sig)
    PROVE  ReadersInv'
<1>1. \A q \in Queries : SearchKnows(query[q], resource', index')
  <2> TAKE q \in Queries
  <2>1. SearchKnows(query[q], resource, index) /\ resource \in Resources
    BY DEF ReadersInv, ReadersTyped
  <2> QED
    BY <2>1, SearchKeeps
<1>2. \A q \in Queries : q \in resource.pins => q \in resource'.pins
  BY ReadersAssumption
<1>3. InsidePinned'
  BY <1>2 DEF ReadersInv, InsidePinned
<1> QED
  BY <1>1, <1>3 DEF ReadersInv, ReadersTyped

LEMMA BeginRunKeeps == ReadersInv /\ BeginRun => ReadersInv'
<1> SUFFICES ASSUME ReadersInv, BeginRun PROVE ReadersInv'
  OBVIOUS
<1>1. Enters("sync", 0)
  BY DEF BeginRun
<1>2. /\ resource' \in Resources /\ owner' \in Owners
      /\ resource'.gen = resource.gen /\ resource'.model = resource.model
      /\ resource'.pins = resource.pins \cup {"sync"}
      /\ owner'.gen = resource.gen
      /\ \/ owner' = owner
         \/ /\ owner'.sig = 0 /\ owner'.evidence = 0
            /\ ~owner'.initialized /\ ~owner'.available /\ owner.gen # resource.gen
  BY <1>1, EntersKeeps
<1>3. syncer' \in Runs /\ syncer'.at = "resolving" /\ syncer'.gen = syncer.gen /\ resource.gen \in Nat
  <2>1. syncer \in Runs /\ resource \in Resources
    BY DEF ReadersInv, ReadersTyped
  <2>2. syncer' = [syncer EXCEPT !.at = "resolving", !.runs = syncer.runs + 1]
    BY DEF BeginRun
  <2>3. syncer.runs + 1 \in Nat /\ resource.gen \in Nat
    BY <2>1 DEF Runs, Resources
  <2> DEFINE more == syncer.runs + 1
  <2>4. syncer' \in Runs /\ syncer'.at = "resolving" /\ syncer'.gen = syncer.gen
    <3>1. more \in Nat /\ syncer' = [syncer EXCEPT !.at = "resolving", !.runs = more]
      BY <2>2, <2>3
    <3> HIDE DEF more
    <3> QED
      BY <2>1, <3>1 DEF Runs, RunPlaces
  <2> QED
    BY <2>3, <2>4
<1>4. UNCHANGED <<artifacts, index, query>>
  BY DEF BeginRun
<1>5. OwnerKnows'
  BY <1>2, <1>4 DEF ReadersInv, OwnerKnows, Serves
<1>6. RunKnows'
  BY <1>3 DEF RunKnows
<1> QED
  BY <1>2, <1>3, <1>4, <1>5, <1>6, RunStep DEF ReadersInv, ReadersTyped, InsidePinned, Serves

LEMMA ResolveKeeps == ReadersInv /\ ResolveForRun => ReadersInv'
<1> SUFFICES ASSUME ReadersInv, ResolveForRun PROVE ReadersInv'
  OBVIOUS
<1>1. /\ Loaded \in 1..2 /\ [resource EXCEPT !.model = Loaded] \in Resources
      /\ resource.model # 0 => Loaded = resource.model
  BY LoadedKeeps DEF ReadersInv
<1>2. /\ resource \in Resources /\ owner \in Owners /\ syncer \in Runs /\ index \in Indexes
      /\ "sync" \in resource.pins /\ owner.gen = resource.gen /\ syncer.at = "resolving"
      /\ owner.gen <= resource.gen /\ syncer.gen <= resource.gen /\ resource.gen \in Nat
      /\ OwnerKnows /\ RowsOf(index.rows, index.sig)
      /\ UNCHANGED <<artifacts, query>>
  BY DEF ReadersInv, ReadersTyped, InsidePinned, ResolveForRun, Resources
<1>3. CASE /\ owner' = [owner EXCEPT !.sig = IF @ = 0 THEN Loaded ELSE @,
                                     !.failed = IF owner.sig = 0 THEN FALSE ELSE @]
           /\ resource' = IF owner.sig = 0 THEN [resource EXCEPT !.model = Loaded] ELSE resource
           /\ syncer' = [syncer EXCEPT !.at = "validating"]
           /\ UNCHANGED index
  <2>1. /\ owner' \in Owners /\ owner'.gen = owner.gen /\ owner'.sig # 0
        /\ owner'.evidence = owner.evidence /\ owner'.initialized = owner.initialized
        /\ owner'.available = owner.available
        /\ owner'.sig = IF owner.sig = 0 THEN Loaded ELSE owner.sig
    <3> DEFINE sig == IF owner.sig = 0 THEN Loaded ELSE owner.sig
               failed == IF owner.sig = 0 THEN FALSE ELSE owner.failed
    <3>1. sig \in ModelOrNone \ {0} /\ failed \in BOOLEAN
      <4>1. owner.failed \in BOOLEAN /\ sig \in ModelOrNone \ {0}
        BY <1>1, <1>2 DEF Owners, ModelOrNone
      <4>2. failed \in BOOLEAN
        BY <4>1, Zenon
      <4> QED
        BY <4>1, <4>2
    <3>2. owner' = [owner EXCEPT !.sig = sig, !.failed = failed]
      BY <1>3
    <3>3. owner' \in Owners /\ owner'.sig = sig /\ owner'.gen = owner.gen
          /\ owner'.evidence = owner.evidence /\ owner'.initialized = owner.initialized
          /\ owner'.available = owner.available
      <4> HIDE DEF sig, failed
      <4> QED
        BY <1>2, <3>1, <3>2 DEF Owners
    <3> QED
      BY <3>1, <3>3
  <2>2. /\ resource' \in Resources /\ resource'.gen = resource.gen /\ resource'.pins = resource.pins
        /\ resource'.model = IF owner.sig = 0 THEN Loaded ELSE resource.model
    BY <1>1, <1>2, <1>3 DEF Resources
  <2>3. syncer' \in Runs /\ syncer'.at = "validating" /\ syncer'.gen = syncer.gen
    BY <1>2, <1>3 DEF Runs, RunPlaces
  <2>4. OwnerKnows'
    BY <1>1, <1>2, <1>3, <2>1, <2>2 DEF OwnerKnows, Serves
  <2>5. RunKnows'
    BY <2>1, <2>3 DEF RunKnows
  <2> QED
    BY <1>1, <1>2, <1>3, <2>1, <2>2, <2>3, <2>4, <2>5, RunStep DEF Serves
<1>4. CASE /\ owner.sig = 0 /\ MayFail
           /\ owner' = [owner EXCEPT !.failed = TRUE, !.available = FALSE]
           /\ index' = IF index.sig = 0 THEN index ELSE [index EXCEPT !.state = "error"]
           /\ SyncLeaves(Failing(resource))
  <2>1. /\ owner' \in Owners /\ owner'.gen = owner.gen /\ owner'.sig = owner.sig
        /\ owner'.evidence = owner.evidence /\ owner'.initialized = owner.initialized
        /\ ~owner'.available
    BY <1>2, <1>4 DEF Owners
  <2>2. /\ resource' \in Resources /\ resource'.gen = resource.gen /\ resource'.model = resource.model
        /\ resource'.pins = resource.pins \ {"sync"}
    BY <1>2, <1>4 DEF Resources, SyncLeaves, Unpinned, Failing
  <2>3. syncer' \in Runs /\ syncer'.at = "idle" /\ syncer'.gen = syncer.gen
    BY <1>2, <1>4 DEF Runs, RunPlaces, SyncLeaves
  <2>4. index' \in Indexes /\ index'.sig = index.sig /\ index'.rows = index.rows
    BY <1>2, <1>4 DEF Indexes, IndexStates
  <2>5. OwnerKnows' /\ RunKnows'
    BY <1>2, <2>1, <2>2, <2>3, <2>4 DEF OwnerKnows, RunKnows, Serves
  <2> QED
    BY <1>2, <2>1, <2>2, <2>3, <2>4, <2>5, RunStep DEF Serves
<1> QED
  BY <1>3, <1>4 DEF ResolveForRun

(* What is known of the generation and of the memory inside a run. *)
LEMMA InRun ==
    ASSUME ReadersInv
    PROVE  /\ resource \in Resources /\ owner \in Owners /\ syncer \in Runs /\ index \in Indexes
           /\ owner.gen <= resource.gen /\ syncer.gen <= resource.gen
           /\ resource.gen \in Nat /\ OwnerKnows /\ RunKnows /\ RowsOf(index.rows, index.sig)
           /\ index.rows \in RowsOfNotes /\ index.sig \in ModelOrNone /\ owner.sig \in ModelOrNone
           /\ syncer.at \notin {"idle", "yielded"} => "sync" \in resource.pins /\ owner.gen = resource.gen
           /\ NoRows \in RowsOfNotes
<1>1. /\ resource \in Resources /\ owner \in Owners /\ syncer \in Runs /\ index \in Indexes
      /\ InsidePinned /\ OwnerKnows /\ RunKnows /\ RowsOf(index.rows, index.sig)
  BY DEF ReadersInv, ReadersTyped
<1>2. NoRows \in RowsOfNotes
  BY DEF NoRows, RowsOfNotes, ModelOrNone
<1> QED
  BY <1>1, <1>2 DEF InsidePinned, Resources, Owners, Indexes

LEMMA ValidateKeeps == ReadersInv /\ ValidateBackend => ReadersInv'
<1> SUFFICES ASSUME ReadersInv, ValidateBackend PROVE ReadersInv'
  OBVIOUS
<1> DEFINE found == index.sig = owner.sig \/ index.rows = NoRows
<1>2. /\ resource \in Resources /\ owner \in Owners /\ syncer \in Runs /\ index \in Indexes
      /\ "sync" \in resource.pins /\ owner.gen = resource.gen /\ syncer.at = "validating"
      /\ owner.gen <= resource.gen /\ syncer.gen <= resource.gen /\ resource.gen \in Nat
      /\ OwnerKnows /\ RunKnows /\ RowsOf(index.rows, index.sig)
      /\ UNCHANGED <<artifacts, query>>
  BY InRun DEF ValidateBackend
<1>3. CASE /\ syncer' = [syncer EXCEPT !.at = "preparing"]
           /\ owner' = [owner EXCEPT !.failed = @ /\ found]
           /\ UNCHANGED <<resource, index>>
  <2>1. (owner.failed /\ found) \in BOOLEAN
    OBVIOUS
  <2>2. /\ owner' \in Owners /\ owner'.gen = owner.gen /\ owner'.sig = owner.sig
        /\ owner'.evidence = owner.evidence /\ owner'.initialized = owner.initialized
        /\ owner'.available = owner.available
    BY <1>2, <1>3, <2>1 DEF Owners
  <2>3. syncer' \in Runs /\ syncer'.at = "preparing" /\ syncer'.gen = syncer.gen
    BY <1>2, <1>3 DEF Runs, RunPlaces
  <2>4. OwnerKnows' /\ RunKnows'
    BY <1>2, <1>3, <2>2, <2>3 DEF OwnerKnows, RunKnows, Serves
  <2> QED
    BY <1>2, <1>3, <2>2, <2>3, <2>4, RunStep DEF Serves
<1>4. CASE /\ owner' = [owner EXCEPT !.pending = TRUE, !.evidence = 0, !.sig = 0, !.failed = TRUE,
                                    !.available = FALSE]
           /\ index' = [index EXCEPT !.state = "error"]
           /\ SyncLeaves(Failing(resource))
  <2>1. /\ owner' \in Owners /\ owner'.gen = owner.gen /\ owner'.sig = 0
        /\ owner'.evidence = 0 /\ owner'.initialized = owner.initialized
        /\ ~owner'.available
    <3>1. 0 \in ModelOrNone
      BY DEF ModelOrNone
    <3> QED
      BY <1>2, <1>4, <3>1 DEF Owners
  <2>2. /\ resource' \in Resources /\ resource'.gen = resource.gen /\ resource'.model = resource.model
        /\ resource'.pins = resource.pins \ {"sync"}
    BY <1>2, <1>4 DEF Resources, SyncLeaves, Unpinned, Failing
  <2>3. syncer' \in Runs /\ syncer'.at = "idle" /\ syncer'.gen = syncer.gen
    BY <1>2, <1>4 DEF Runs, RunPlaces, SyncLeaves
  <2>4. index' \in Indexes /\ index'.sig = index.sig /\ index'.rows = index.rows
    BY <1>2, <1>4 DEF Indexes, IndexStates
  <2>5. OwnerKnows' /\ RunKnows'
    BY <1>2, <2>1, <2>2, <2>3, <2>4 DEF OwnerKnows, RunKnows, Serves
  <2> QED
    BY <1>2, <2>1, <2>2, <2>3, <2>4, <2>5, RunStep DEF Serves
<1> QED
  BY <1>3, <1>4 DEF ValidateBackend

LEMMA PrepareKeeps == ReadersInv /\ PrepareRun => ReadersInv'
<1> SUFFICES ASSUME ReadersInv, PrepareRun PROVE ReadersInv'
  OBVIOUS
<1>1. PICK rebuild \in BOOLEAN :
          LET kept == IF rebuild THEN ResetRows("uninitialized")
                      ELSE IF owner.initialized THEN index
                      ELSE IF index.sig # owner.sig THEN ResetRows("uninitialized")
                      ELSE [index EXCEPT !.state = Recovers(@)]
          IN /\ index' = kept
             /\ owner' = [owner EXCEPT !.initialized = TRUE,
                                       !.available = (@ /\ ~rebuild) \/ kept.state = "ready"]
  BY DEF PrepareRun
<1>2. /\ resource \in Resources /\ owner \in Owners /\ syncer \in Runs /\ index \in Indexes
      /\ "sync" \in resource.pins /\ owner.gen = resource.gen /\ syncer.at = "preparing"
      /\ owner.gen <= resource.gen /\ syncer.gen <= resource.gen /\ resource.gen \in Nat
      /\ OwnerKnows /\ RunKnows /\ RowsOf(index.rows, index.sig) /\ NoRows \in RowsOfNotes
      /\ UNCHANGED <<artifacts, query, resource>> /\ syncer' = [syncer EXCEPT !.at = "reserving"]
  BY InRun DEF PrepareRun
<1>3. owner.sig # 0 /\ owner.sig = resource.model
      /\ (owner.initialized => Serves(resource, index)) /\ owner.sig \in ModelOrNone
  BY <1>2 DEF RunKnows, OwnerKnows, Owners
<1>4. Recovers(index.state) \in IndexStates
  BY <1>2 DEF Recovers, IndexStates, Indexes
<1>5. /\ ResetRows("uninitialized") \in Indexes
      /\ ResetRows("uninitialized").sig = owner.sig /\ ResetRows("uninitialized").rows = NoRows
  BY <1>2, <1>3 DEF ResetRows, Indexes, IndexStates
<1>6. /\ [index EXCEPT !.state = Recovers(@)] \in Indexes
      /\ [index EXCEPT !.state = Recovers(@)].sig = index.sig
      /\ [index EXCEPT !.state = Recovers(@)].rows = index.rows
  BY <1>2, <1>4 DEF Indexes
<1>7. index' \in Indexes /\ index'.sig = resource.model /\ index'.rows \in {NoRows, index.rows}
      /\ (index'.rows = NoRows \/ index.sig = resource.model)
  BY <1>1, <1>2, <1>3, <1>5, <1>6 DEF Serves
<1>8. RowsOf(index'.rows, index'.sig) /\ Serves(resource, index')
  BY <1>2, <1>3, <1>7 DEF RowsOf, NoRows, Serves
<1>9. /\ owner' \in Owners /\ owner'.gen = owner.gen /\ owner'.sig = owner.sig
      /\ owner'.evidence = owner.evidence
  <2> DEFINE offered == (owner.available /\ ~rebuild) \/ index'.state = "ready"
  <2>1. offered \in BOOLEAN /\ owner' = [owner EXCEPT !.initialized = TRUE, !.available = offered]
    BY <1>1
  <2> HIDE DEF offered
  <2> QED
    BY <1>2, <2>1 DEF Owners
<1>10. syncer' \in Runs /\ syncer'.at = "reserving" /\ syncer'.gen = syncer.gen
  BY <1>2 DEF Runs, RunPlaces
<1>11. OwnerKnows' /\ RunKnows'
  BY <1>2, <1>8, <1>9, <1>10 DEF OwnerKnows, RunKnows
<1> QED
  BY <1>2, <1>7, <1>8, <1>9, <1>10, <1>11, RunStep

LEMMA ReserveRunKeeps == ReadersInv /\ ReserveRun => ReadersInv'
<1> SUFFICES ASSUME ReadersInv, ReserveRun PROVE ReadersInv'
  OBVIOUS
<1>2. /\ resource \in Resources /\ owner \in Owners /\ syncer \in Runs /\ index \in Indexes
      /\ "sync" \in resource.pins /\ owner.gen = resource.gen /\ syncer.at = "reserving"
      /\ owner.gen <= resource.gen /\ resource.gen \in Nat
      /\ OwnerKnows /\ RunKnows /\ RowsOf(index.rows, index.sig)
      /\ UNCHANGED <<artifacts, query, owner>>
  BY InRun DEF ReserveRun
<1>3. index' \in Indexes /\ index'.sig = index.sig /\ index'.rows = index.rows
  BY <1>2 DEF ReserveRun, Indexes, IndexStates
<1>4. /\ resource' \in Resources /\ resource'.gen = resource.gen /\ resource'.model = resource.model
      /\ resource'.pins = resource.pins \ {"sync"}
  BY <1>2 DEF ReserveRun, Resources, Unpinned
<1>5. syncer' \in Runs /\ syncer'.at = "yielded" /\ syncer'.gen = resource.gen
  BY <1>2 DEF ReserveRun, Runs, RunPlaces
<1>6. OwnerKnows' /\ RunKnows'
  BY <1>2, <1>3, <1>4, <1>5 DEF OwnerKnows, RunKnows, Serves
<1> QED
  BY <1>2, <1>3, <1>4, <1>5, <1>6, RunStep DEF Serves

LEMMA ResumeKeeps == ReadersInv /\ ResumeRun => ReadersInv'
<1> SUFFICES ASSUME ReadersInv, ResumeRun PROVE ReadersInv'
  OBVIOUS
<1>2. /\ resource \in Resources /\ owner \in Owners /\ syncer \in Runs /\ index \in Indexes
      /\ syncer.at = "yielded"
      /\ owner.gen <= resource.gen /\ syncer.gen <= resource.gen /\ resource.gen \in Nat
      /\ OwnerKnows /\ RunKnows /\ RowsOf(index.rows, index.sig)
      /\ UNCHANGED <<artifacts, query>>
  BY InRun DEF ResumeRun
<1>3. CASE /\ syncer.gen = resource.gen
           /\ Enters("sync", syncer.gen) /\ syncer' = [syncer EXCEPT !.at = "turn"] /\ UNCHANGED index
  <2>1. /\ resource' \in Resources /\ owner' \in Owners
        /\ resource'.gen = resource.gen /\ resource'.model = resource.model
        /\ resource'.pins = resource.pins \cup {"sync"}
        /\ owner'.gen = resource.gen
        /\ \/ owner' = owner
           \/ /\ owner'.sig = 0 /\ owner'.evidence = 0
              /\ ~owner'.initialized /\ ~owner'.available /\ owner.gen # resource.gen
    BY <1>3, EntersKeeps
  <2>2. syncer' \in Runs /\ syncer'.at = "turn" /\ syncer'.gen = syncer.gen
    BY <1>2, <1>3 DEF Runs, RunPlaces
  <2>3. OwnerKnows' /\ RunKnows'
    BY <1>2, <1>3, <2>1, <2>2 DEF OwnerKnows, RunKnows, Serves
  <2> QED
    BY <1>2, <1>3, <2>1, <2>2, <2>3, RunStep DEF Serves
<1>4. CASE /\ index' = [index EXCEPT !.state = "error"] /\ syncer' = [syncer EXCEPT !.at = "idle"]
           /\ UNCHANGED <<resource, owner>>
  <2>1. index' \in Indexes /\ index'.sig = index.sig /\ index'.rows = index.rows
    BY <1>2, <1>4 DEF Indexes, IndexStates
  <2>2. syncer' \in Runs /\ syncer'.at = "idle" /\ syncer'.gen = syncer.gen
    BY <1>2, <1>4 DEF Runs, RunPlaces
  <2>3. OwnerKnows' /\ RunKnows'
    BY <1>2, <1>4, <2>1, <2>2 DEF OwnerKnows, RunKnows, Serves
  <2>4. resource.pins # {} => owner.gen = resource.gen
    BY DEF ReadersInv, InsidePinned
  <2> QED
    BY <1>2, <1>4, <2>1, <2>2, <2>3, <2>4, RunStep DEF Serves
<1> QED
  BY <1>3, <1>4 DEF ResumeRun

LEMMA IndexKeeps == ASSUME ReadersInv, NEW n \in IndexedNotes, IndexNote(n) PROVE ReadersInv'
<1>1. PICK row \in {0, Loaded, index.rows[n]} : index' = [index EXCEPT !.rows[n] = row]
  BY DEF IndexNote
<1>2. /\ resource \in Resources /\ owner \in Owners /\ syncer \in Runs /\ index \in Indexes
      /\ "sync" \in resource.pins /\ owner.gen = resource.gen /\ syncer.at = "turn"
      /\ owner.gen <= resource.gen /\ syncer.gen <= resource.gen /\ resource.gen \in Nat
      /\ OwnerKnows /\ RunKnows /\ RowsOf(index.rows, index.sig) /\ index.rows \in RowsOfNotes
      /\ index.sig \in ModelOrNone
      /\ UNCHANGED <<artifacts, query, owner>>
  BY InRun DEF IndexNote
<1>3. Serves(resource, index) /\ Loaded = index.sig
  BY <1>2 DEF RunKnows, Serves, Loaded
<1>4. row \in ModelOrNone /\ row \in {0, index.sig}
  BY <1>1, <1>2, <1>3 DEF RowsOfNotes, RowsOf, ModelOrNone
<1>5. index' \in Indexes /\ index'.sig = index.sig /\ index'.rows = [index.rows EXCEPT ![n] = row]
  <2>1. [index.rows EXCEPT ![n] = row] \in RowsOfNotes
    BY <1>2, <1>4 DEF RowsOfNotes
  <2> QED
    BY <1>1, <1>2, <2>1 DEF Indexes
<1>6. RowsOf(index'.rows, index'.sig)
  BY <1>2, <1>4, <1>5 DEF RowsOf, RowsOfNotes
<1>7. /\ resource' \in Resources /\ resource'.gen = resource.gen /\ resource'.model = resource.model
      /\ resource'.pins = resource.pins \ {"sync"}
  <2>1. resource' = Unpinned("sync", [resource EXCEPT !.model = Loaded]) /\ Loaded = resource.model
    BY <1>3 DEF IndexNote, Serves
  <2> QED
    BY <1>2, <2>1 DEF Resources, Unpinned
<1>8. syncer' \in Runs /\ syncer'.at = "yielded" /\ syncer'.gen = syncer.gen
  BY <1>2 DEF IndexNote, Runs, RunPlaces
<1>9. OwnerKnows' /\ RunKnows'
  BY <1>2, <1>3, <1>5, <1>7, <1>8 DEF OwnerKnows, RunKnows, Serves
<1> QED
  BY <1>2, <1>3, <1>5, <1>6, <1>7, <1>8, <1>9, RunStep DEF Serves

LEMMA FinishKeeps == ReadersInv /\ FinishRun => ReadersInv'
<1> SUFFICES ASSUME ReadersInv, FinishRun PROVE ReadersInv'
  OBVIOUS
<1>2. /\ resource \in Resources /\ owner \in Owners /\ syncer \in Runs /\ index \in Indexes
      /\ "sync" \in resource.pins /\ owner.gen = resource.gen /\ syncer.at = "turn"
      /\ owner.gen <= resource.gen /\ syncer.gen <= resource.gen /\ resource.gen \in Nat
      /\ OwnerKnows /\ RunKnows /\ RowsOf(index.rows, index.sig)
      /\ UNCHANGED <<artifacts, query>>
  BY InRun DEF FinishRun
<1>3. index' \in Indexes /\ index'.sig = index.sig /\ index'.rows = index.rows
  BY <1>2 DEF FinishRun, Indexes, IndexStates
<1>4. /\ owner' \in Owners /\ owner'.gen = owner.gen /\ owner'.sig = owner.sig
      /\ owner'.evidence = owner.evidence
  BY <1>2 DEF FinishRun, Owners
<1>5. /\ resource' \in Resources /\ resource'.gen = resource.gen /\ resource'.model = resource.model
      /\ resource'.pins = resource.pins \ {"sync"}
  BY <1>2 DEF FinishRun, Resources, SyncLeaves, Unpinned
<1>6. syncer' \in Runs /\ syncer'.at = "idle" /\ syncer'.gen = syncer.gen
  BY <1>2 DEF FinishRun, Runs, RunPlaces, SyncLeaves
<1>7. OwnerKnows' /\ RunKnows'
  BY <1>2, <1>3, <1>4, <1>5, <1>6 DEF OwnerKnows, RunKnows, Serves
<1> QED
  BY <1>2, <1>3, <1>4, <1>5, <1>6, <1>7, RunStep DEF Serves

LEMMA TurnFailsKeeps == ReadersInv /\ TurnFails => ReadersInv'
<1> SUFFICES ASSUME ReadersInv, TurnFails PROVE ReadersInv'
  OBVIOUS
<1>2. /\ resource \in Resources /\ owner \in Owners /\ syncer \in Runs /\ index \in Indexes
      /\ "sync" \in resource.pins /\ owner.gen = resource.gen /\ syncer.at = "turn"
      /\ owner.gen <= resource.gen /\ syncer.gen <= resource.gen /\ resource.gen \in Nat
      /\ OwnerKnows /\ RunKnows /\ RowsOf(index.rows, index.sig)
      /\ UNCHANGED <<artifacts, query, owner>>
  BY InRun DEF TurnFails
<1>3. index' \in Indexes /\ index'.sig = index.sig /\ index'.rows = index.rows
  BY <1>2 DEF TurnFails, Indexes, IndexStates
<1>4. PICK broken \in BOOLEAN : SyncLeaves(IF broken THEN Failing(resource) ELSE resource)
  BY DEF TurnFails
<1>5. /\ resource' \in Resources /\ resource'.gen = resource.gen /\ resource'.model = resource.model
      /\ resource'.pins = resource.pins \ {"sync"}
  BY <1>2, <1>4 DEF Resources, SyncLeaves, Unpinned, Failing
<1>6. syncer' \in Runs /\ syncer'.at = "idle" /\ syncer'.gen = syncer.gen
  BY <1>2, <1>4 DEF Runs, RunPlaces, SyncLeaves
<1>7. OwnerKnows' /\ RunKnows'
  BY <1>2, <1>3, <1>5, <1>6 DEF OwnerKnows, RunKnows, Serves
<1> QED
  BY <1>2, <1>3, <1>5, <1>6, <1>7, RunStep DEF Serves

(* A step of one search leaves the run and the other searches alone. *)
LEMMA SearchStep ==
    ASSUME ReadersInv, NEW q \in Queries, NEW x \in Searches, query' = [query EXCEPT ![q] = x],
           UNCHANGED <<artifacts, index, syncer>>, resource' \in Resources, owner' \in Owners,
           resource'.gen = resource.gen, resource.model # 0 => resource'.model = resource.model,
           resource'.pins \ {q} = resource.pins \ {q},
           x.at \notin {"idle", "prepared"} => q \in resource'.pins,
           resource'.pins # {} => owner'.gen = resource.gen, owner'.gen <= resource.gen,
           owner.gen = resource.gen /\ owner.sig # 0 => owner'.sig # 0,
           OwnerKnows', SearchKnows(x, resource', index)
    PROVE  ReadersInv'
<1>1. query' \in [Queries -> Searches] /\ query'[q] = x
      /\ \A p \in Queries : p # q => query'[p] = query[p]
  BY DEF ReadersInv, ReadersTyped
<1>2. Serves(resource, index) => Serves(resource', index)
  BY DEF Serves
<1>3. \A p \in Queries : SearchKnows(query'[p], resource', index')
  <2> TAKE p \in Queries
  <2>1. SearchKnows(query[p], resource, index) /\ resource \in Resources
    BY DEF ReadersInv, ReadersTyped
  <2>2. SearchKnows(query[p], resource', index)
    BY <1>2, <2>1, SearchKeeps
  <2> QED
    BY <1>1, <2>2
<1>4. "sync" # q
  BY ReadersAssumption
<1>5. InsidePinned'
  <2>1. \A p \in Queries : query'[p].at \notin {"idle", "prepared"} => p \in resource'.pins
    <3> TAKE p \in Queries
    <3>1. CASE p = q
      BY <1>1, <3>1
    <3>2. CASE p # q
      BY <1>1, <3>2 DEF ReadersInv, InsidePinned
    <3> QED
      BY <3>1, <3>2
  <2>2. syncer.at \notin {"idle", "yielded"} => "sync" \in resource'.pins
    BY <1>4 DEF ReadersInv, InsidePinned
  <2> QED
    BY <2>1, <2>2 DEF ReadersInv, InsidePinned
<1>6. RunKnows'
  <2>1. syncer.at \in {"validating", "preparing"} => owner.gen = resource.gen /\ owner.sig # 0
    BY DEF ReadersInv, InsidePinned, RunKnows
  <2> QED
    BY <1>2, <2>1 DEF ReadersInv, RunKnows
<1> QED
  BY <1>1, <1>3, <1>5, <1>6 DEF ReadersInv, ReadersTyped

(* What is known of one search and of the generation it may have pinned. *)
LEMMA InSearch ==
    ASSUME ReadersInv, NEW q \in Queries
    PROVE  /\ resource \in Resources /\ owner \in Owners /\ index \in Indexes
           /\ query \in [Queries -> Searches] /\ query[q] \in Searches /\ IdleQuery \in Searches
           /\ query[q].gen \in Nat /\ resource.gen \in Nat /\ owner.gen \in Nat
           /\ owner.gen <= resource.gen /\ OwnerKnows /\ RowsOf(index.rows, index.sig)
           /\ index.rows \in RowsOfNotes /\ index.sig \in ModelOrNone
           /\ SearchKnows(query[q], resource, index)
           /\ query[q].at \notin {"idle", "prepared"} => q \in resource.pins /\ owner.gen = resource.gen
           /\ \A r : SearchKnows(IdleQuery, r, index) <=> 0 <= r.gen
<1>1. /\ resource \in Resources /\ owner \in Owners /\ index \in Indexes
      /\ query \in [Queries -> Searches] /\ query[q] \in Searches
      /\ OwnerKnows /\ RowsOf(index.rows, index.sig) /\ SearchKnows(query[q], resource, index)
      /\ InsidePinned
  BY DEF ReadersInv, ReadersTyped
<1>2. IdleQuery \in Searches
  <2>1. NoRows \in RowsOfNotes /\ 0 \in ModelOrNone
    BY DEF NoRows, RowsOfNotes, ModelOrNone
  <2> QED
    BY <2>1 DEF IdleQuery, Searches, SearchPlaces
<1>3. \A r : SearchKnows(IdleQuery, r, index) <=> 0 <= r.gen
  <2>1. IdleQuery.gen = 0 /\ IdleQuery.at = "idle"
    BY DEF IdleQuery
  <2> QED
    BY <2>1 DEF SearchKnows
<1> QED
  BY <1>1, <1>2, <1>3 DEF InsidePinned, Resources, Owners, Indexes, Searches

(* A search that ends, whether its generation goes on or is to be released. *)
LEMMA LeavesKeeps ==
    ASSUME ReadersInv, NEW q \in Queries, NEW r, Leaves(q, r), r \in Resources,
           UNCHANGED <<artifacts, index, syncer>>, owner' \in Owners,
           r.gen = resource.gen, resource.model # 0 => r.model = resource.model,
           r.pins = resource.pins, owner'.gen = owner.gen,
           owner.gen = resource.gen /\ owner.sig # 0 => owner'.sig # 0,
           owner'.gen = r.gen =>
              /\ owner'.sig \in {0, r.model} /\ owner'.evidence \in {0, r.model}
              /\ owner'.initialized \/ owner'.available => Serves(r, index)
    PROVE  ReadersInv'
<1>1. /\ resource' \in Resources /\ resource'.gen = r.gen /\ resource'.model = r.model
      /\ resource'.pins = r.pins \ {q}
  BY DEF Leaves, Unpinned, Resources
<1>2. query' = [query EXCEPT ![q] = IdleQuery]
  BY DEF Leaves
<1>3. OwnerKnows'
  BY <1>1 DEF OwnerKnows, Serves
<1>4. IdleQuery \in Searches /\ SearchKnows(IdleQuery, resource', index) /\ IdleQuery.at = "idle"
  BY <1>1, InSearch DEF IdleQuery
<1>5. resource.pins # {} => owner.gen = resource.gen
  BY DEF ReadersInv, InsidePinned
<1> QED
  BY <1>1, <1>2, <1>3, <1>4, <1>5, SearchStep, InSearch

(* What failing or loading makes of the resource. *)
LEMMA ResourceAfter ==
    ASSUME ReadersInv
    PROVE  /\ Failing(resource) \in Resources /\ Failing(resource).gen = resource.gen
           /\ Failing(resource).model = resource.model /\ Failing(resource).pins = resource.pins
           /\ [resource EXCEPT !.model = Loaded] \in Resources
           /\ [resource EXCEPT !.model = Loaded].gen = resource.gen
           /\ [resource EXCEPT !.model = Loaded].pins = resource.pins
           /\ [resource EXCEPT !.model = Loaded].model = Loaded
           /\ Loaded \in 1..2 /\ (resource.model # 0 => Loaded = resource.model)
<1>1. resource \in Resources
  BY DEF ReadersInv, ReadersTyped
<1>2. Loaded \in 1..2 /\ (resource.model # 0 => Loaded = resource.model)
      /\ [resource EXCEPT !.model = Loaded] \in Resources
  BY LoadedKeeps DEF ReadersInv
<1> QED
  BY <1>1, <1>2 DEF Resources, Failing

LEMMA BeginSearchKeeps == ASSUME ReadersInv, NEW q \in Queries, BeginSearch(q) PROVE ReadersInv'
<1>0. UNCHANGED <<artifacts, index, syncer>> /\ OwnerKnows /\ query[q] \in Searches
      /\ SearchKnows(query[q], resource, index) /\ query[q].at = "idle" /\ resource.gen \in Nat
  BY InSearch DEF BeginSearch
<1>1. Enters(q, 0)
  BY DEF BeginSearch
<1>2. /\ resource' \in Resources /\ owner' \in Owners
      /\ resource'.gen = resource.gen /\ resource'.model = resource.model
      /\ resource'.pins = resource.pins \cup {q}
      /\ owner'.gen = resource.gen
      /\ \/ owner' = owner
         \/ /\ owner'.sig = 0 /\ owner'.evidence = 0
            /\ ~owner'.initialized /\ ~owner'.available /\ owner.gen # resource.gen
  BY <1>1, EntersKeeps
<1>3. OwnerKnows'
  BY <1>0, <1>2 DEF OwnerKnows, Serves
<1> DEFINE x == [query[q] EXCEPT !.at = "asking"]
<1>4. x \in Searches /\ x.at = "asking" /\ x.gen = query[q].gen
  BY <1>0 DEF Searches, SearchPlaces
<1>5. query' = [query EXCEPT ![q] = x]
  BY DEF BeginSearch
<1>6. SearchKnows(x, resource', index)
  BY <1>0, <1>2, <1>4 DEF SearchKnows
<1> HIDE DEF x
<1>7. /\ UNCHANGED <<artifacts, index, syncer>> /\ resource' \in Resources /\ owner' \in Owners
      /\ resource'.gen = resource.gen /\ (resource.model # 0 => resource'.model = resource.model)
      /\ resource'.pins \ {q} = resource.pins \ {q}
      /\ (x.at \notin {"idle", "prepared"} => q \in resource'.pins)
      /\ (resource'.pins # {} => owner'.gen = resource.gen) /\ owner'.gen <= resource.gen
      /\ (owner.gen = resource.gen /\ owner.sig # 0 => owner'.sig # 0)
  BY <1>0, <1>2, <1>4
<1> QED
  BY <1>3, <1>4, <1>5, <1>6, <1>7, SearchStep

LEMMA BeginPrepareKeeps == ASSUME ReadersInv, NEW q \in Queries, BeginPrepare(q) PROVE ReadersInv'
<1>0. UNCHANGED <<artifacts, index, syncer>> /\ OwnerKnows /\ query[q] \in Searches
      /\ SearchKnows(query[q], resource, index) /\ query[q].at = "idle" /\ resource.gen \in Nat
  BY InSearch DEF BeginPrepare
<1>1. Enters(q, 0)
  BY DEF BeginPrepare
<1>2. /\ resource' \in Resources /\ owner' \in Owners
      /\ resource'.gen = resource.gen /\ resource'.model = resource.model
      /\ resource'.pins = resource.pins \cup {q}
      /\ owner'.gen = resource.gen
      /\ \/ owner' = owner
         \/ /\ owner'.sig = 0 /\ owner'.evidence = 0
            /\ ~owner'.initialized /\ ~owner'.available /\ owner.gen # resource.gen
  BY <1>1, EntersKeeps
<1>3. OwnerKnows'
  BY <1>0, <1>2 DEF OwnerKnows, Serves
<1>4. PICK at \in {"refused", "reading"} : query' = [query EXCEPT ![q].at = at]
  BY DEF BeginPrepare, Step
<1> DEFINE x == [query[q] EXCEPT !.at = at]
<1>5. x \in Searches /\ x.at = at /\ x.gen = query[q].gen
  BY <1>0 DEF Searches, SearchPlaces
<1>6. query' = [query EXCEPT ![q] = x]
  BY <1>4
<1>7. SearchKnows(x, resource', index)
  BY <1>0, <1>2, <1>5 DEF SearchKnows
<1> HIDE DEF x
<1>8. /\ UNCHANGED <<artifacts, index, syncer>> /\ resource' \in Resources /\ owner' \in Owners
      /\ resource'.gen = resource.gen /\ (resource.model # 0 => resource'.model = resource.model)
      /\ resource'.pins \ {q} = resource.pins \ {q}
      /\ (x.at \notin {"idle", "prepared"} => q \in resource'.pins)
      /\ (resource'.pins # {} => owner'.gen = resource.gen) /\ owner'.gen <= resource.gen
      /\ (owner.gen = resource.gen /\ owner.sig # 0 => owner'.sig # 0)
  BY <1>0, <1>2, <1>5
<1> QED
  BY <1>3, <1>5, <1>6, <1>7, <1>8, SearchStep

LEMMA AsksKeeps == ASSUME ReadersInv, NEW q \in Queries, Asks(q) PROVE ReadersInv'
<1>1. /\ resource \in Resources /\ owner \in Owners /\ index \in Indexes /\ query \in [Queries -> Searches]
      /\ query[q] \in Searches /\ query[q].at = "asking" /\ q \in resource.pins
      /\ owner.gen = resource.gen /\ OwnerKnows /\ SearchKnows(query[q], resource, index)
      /\ UNCHANGED <<artifacts, index, syncer>> /\ resource.gen \in Nat
  BY InSearch DEF Asks
<1> DEFINE x == [query[q] EXCEPT !.at = "embedding"]
<1>2. /\ x \in Searches /\ x.at = "embedding" /\ x.gen = query[q].gen
      /\ (Step(q, "embedding") => query' = [query EXCEPT ![q] = x])
  BY <1>1 DEF Searches, SearchPlaces, Step
<1> HIDE DEF x
<1>3. CASE owner.available /\ Step(q, "embedding") /\ UNCHANGED <<resource, owner>>
  <2>1. Serves(resource, index)
    BY <1>1, <1>3 DEF OwnerKnows
  <2>2. SearchKnows(x, resource', index)
    BY <1>1, <1>2, <1>3, <2>1 DEF SearchKnows
  <2>3. OwnerKnows'
    BY <1>1, <1>3 DEF OwnerKnows
  <2> QED
    BY <1>1, <1>2, <1>3, <2>2, <2>3, SearchStep
<1>4. CASE /\ owner.sig = 0 /\ owner' = [owner EXCEPT !.failed = TRUE] /\ Leaves(q, Failing(resource))
  <2>1. /\ owner' \in Owners /\ owner'.gen = owner.gen /\ owner'.sig = owner.sig
        /\ owner'.evidence = owner.evidence /\ owner'.initialized = owner.initialized
        /\ owner'.available = owner.available
    BY <1>1, <1>4 DEF Owners
  <2> QED
    BY <1>1, <1>4, <2>1, ResourceAfter, LeavesKeeps DEF OwnerKnows, Serves
<1>5. ASSUME ~owner.available,
             NEW sig, sig = IF owner.sig = 0 THEN Loaded ELSE owner.sig,
             NEW loading, loading = IF owner.sig = 0 THEN [resource EXCEPT !.model = Loaded] ELSE resource,
             NEW failed \in BOOLEAN, NEW ready \in BOOLEAN,
             ready => owner.initialized \/ index.sig = sig,
             owner' = [owner EXCEPT !.sig = sig, !.failed = failed, !.available = ready],
             IF ready THEN resource' = loading /\ Step(q, "embedding") ELSE Leaves(q, loading)
      PROVE  ReadersInv'
  <2>1. /\ loading \in Resources /\ loading.gen = resource.gen /\ loading.pins = resource.pins
        /\ loading.model = sig /\ sig \in 1..2 /\ (resource.model # 0 => sig = resource.model)
    <3>1. CASE owner.sig = 0
      BY <1>5, <3>1, ResourceAfter
    <3>2. CASE owner.sig # 0
      BY <1>1, <1>5, <3>2 DEF OwnerKnows, Owners, ModelOrNone
    <3> QED
      BY <3>1, <3>2
  <2>2. /\ owner' \in Owners /\ owner'.gen = owner.gen /\ owner'.sig = sig
        /\ owner'.evidence = owner.evidence /\ owner'.initialized = owner.initialized
        /\ owner'.available = ready
    <3>1. sig \in ModelOrNone
      BY <2>1 DEF ModelOrNone
    <3> QED
      BY <1>1, <1>5, <3>1 DEF Owners
  <2>3. /\ owner'.sig \in {0, loading.model} /\ owner'.evidence \in {0, loading.model}
        /\ owner'.initialized \/ owner'.available => Serves(loading, index)
    BY <1>1, <1>5, <2>1, <2>2 DEF OwnerKnows, Serves
  <2>4. CASE ready
    <3>1. SearchKnows(x, resource', index)
      BY <1>1, <1>2, <1>5, <2>1, <2>2, <2>3, <2>4 DEF SearchKnows
    <3>2. OwnerKnows'
      BY <1>1, <1>5, <2>1, <2>3, <2>4 DEF OwnerKnows
    <3>0. resource' = loading /\ sig # 0
      BY <1>5, <2>1, <2>4
    <3>3. /\ UNCHANGED <<artifacts, index, syncer>> /\ resource' \in Resources /\ owner' \in Owners
          /\ resource'.gen = resource.gen /\ (resource.model # 0 => resource'.model = resource.model)
          /\ resource'.pins \ {q} = resource.pins \ {q}
          /\ (x.at \notin {"idle", "prepared"} => q \in resource'.pins)
          /\ (resource'.pins # {} => owner'.gen = resource.gen) /\ owner'.gen <= resource.gen
          /\ (owner.gen = resource.gen /\ owner.sig # 0 => owner'.sig # 0)
      BY <1>1, <1>2, <2>1, <2>2, <3>0
    <3>4. query' = [query EXCEPT ![q] = x]
      BY <1>2, <1>5, <2>4
    <3> QED
      BY <1>2, <3>1, <3>2, <3>3, <3>4, SearchStep
  <2>5. CASE ~ready
    BY <1>1, <1>5, <2>1, <2>2, <2>3, <2>5, LeavesKeeps
  <2> QED
    BY <2>4, <2>5
<1>6. CASE /\ ~owner.available
           /\ LET sig == IF owner.sig = 0 THEN Loaded ELSE owner.sig
                  loading == IF owner.sig = 0 THEN [resource EXCEPT !.model = Loaded] ELSE resource
                  failed == owner.failed /\ owner.sig # 0
                  ready == ~failed /\ (owner.initialized \/ index.sig = sig)
                            /\ (index.state = "ready" \/ (index.state = "none" /\ index.rows # NoRows))
              IN /\ owner' = [owner EXCEPT !.sig = sig, !.failed = failed, !.available = ready]
                 /\ IF ready THEN resource' = loading /\ Step(q, "embedding") ELSE Leaves(q, loading)
  <2> DEFINE sig == IF owner.sig = 0 THEN Loaded ELSE owner.sig
             loading == IF owner.sig = 0 THEN [resource EXCEPT !.model = Loaded] ELSE resource
             failed == owner.failed /\ owner.sig # 0
             ready == ~failed /\ (owner.initialized \/ index.sig = sig)
                       /\ (index.state = "ready" \/ (index.state = "none" /\ index.rows # NoRows))
  <2>1. /\ owner' = [owner EXCEPT !.sig = sig, !.failed = failed, !.available = ready]
        /\ IF ready THEN resource' = loading /\ Step(q, "embedding") ELSE Leaves(q, loading)
        /\ ready => owner.initialized \/ index.sig = sig
        /\ failed \in BOOLEAN /\ ready \in BOOLEAN
        /\ sig = IF owner.sig = 0 THEN Loaded ELSE owner.sig
        /\ loading = IF owner.sig = 0 THEN [resource EXCEPT !.model = Loaded] ELSE resource
    BY <1>6
  <2> HIDE DEF sig, loading, failed, ready
  <2> QED
    BY <1>5, <1>6, <2>1
<1> QED
  BY <1>3, <1>4, <1>6 DEF Asks

LEMMA EmbedsKeeps == ASSUME ReadersInv, NEW q \in Queries, EmbedsQuery(q) PROVE ReadersInv'
<1>1. /\ resource \in Resources /\ owner \in Owners /\ query[q] \in Searches
      /\ query[q].at = "embedding" /\ q \in resource.pins
      /\ owner.gen = resource.gen /\ OwnerKnows /\ SearchKnows(query[q], resource, index)
      /\ UNCHANGED <<artifacts, index, syncer, owner>> /\ resource.gen \in Nat
  BY InSearch DEF EmbedsQuery
<1>2. CASE /\ query' = [query EXCEPT ![q].at = "loading", ![q].vector = Loaded]
           /\ resource' = [resource EXCEPT !.model = Loaded]
  <2> DEFINE x == [query[q] EXCEPT !.at = "loading", !.vector = Loaded]
  <2>1. Loaded \in ModelOrNone /\ Serves(resource, index) /\ Loaded = resource.model
    BY <1>1, ResourceAfter DEF SearchKnows, Serves, ModelOrNone
  <2>2. x \in Searches /\ x.at = "loading" /\ x.gen = query[q].gen /\ x.vector = Loaded
    BY <1>1, <2>1 DEF Searches, SearchPlaces
  <2>3. /\ resource' \in Resources /\ resource'.gen = resource.gen /\ resource'.pins = resource.pins
        /\ resource'.model = resource.model
    BY <1>2, <2>1, ResourceAfter
  <2>4. query' = [query EXCEPT ![q] = x]
    BY <1>2
  <2>5. SearchKnows(x, resource', index) /\ OwnerKnows'
    BY <1>1, <2>1, <2>2, <2>3 DEF SearchKnows, OwnerKnows, Serves
  <2> HIDE DEF x
  <2>6. /\ UNCHANGED <<artifacts, index, syncer>> /\ resource' \in Resources /\ owner' \in Owners
        /\ resource'.gen = resource.gen /\ (resource.model # 0 => resource'.model = resource.model)
        /\ resource'.pins \ {q} = resource.pins \ {q}
        /\ (x.at \notin {"idle", "prepared"} => q \in resource'.pins)
        /\ (resource'.pins # {} => owner'.gen = resource.gen) /\ owner'.gen <= resource.gen
        /\ (owner.gen = resource.gen /\ owner.sig # 0 => owner'.sig # 0)
    BY <1>1, <2>2, <2>3
  <2> QED
    BY <2>2, <2>4, <2>5, <2>6, SearchStep
<1>3. CASE Leaves(q, Failing(resource))
  BY <1>1, <1>3, ResourceAfter, LeavesKeeps DEF OwnerKnows, Serves
<1> QED
  BY <1>2, <1>3 DEF EmbedsQuery

LEMMA LoadsKeeps == ASSUME ReadersInv, NEW q \in Queries, LoadsChunks(q) PROVE ReadersInv'
<1>1. /\ resource \in Resources /\ owner \in Owners /\ query[q] \in Searches
      /\ query[q].at = "loading" /\ q \in resource.pins /\ index.rows \in RowsOfNotes
      /\ owner.gen = resource.gen /\ OwnerKnows /\ SearchKnows(query[q], resource, index)
      /\ UNCHANGED <<artifacts, index, syncer, owner>> /\ resource.gen \in Nat
      /\ RowsOf(index.rows, index.sig)
  BY InSearch DEF LoadsChunks
<1>2. CASE /\ query' = [query EXCEPT ![q].at = "ranking", ![q].rows = index.rows] /\ UNCHANGED resource
  <2> DEFINE x == [query[q] EXCEPT !.at = "ranking", !.rows = index.rows]
  <2>1. x \in Searches /\ x.at = "ranking" /\ x.gen = query[q].gen /\ x.vector = query[q].vector
        /\ x.rows = index.rows
    BY <1>1 DEF Searches, SearchPlaces
  <2>2. query' = [query EXCEPT ![q] = x]
    BY <1>2
  <2>3. SearchKnows(x, resource', index) /\ OwnerKnows'
    BY <1>1, <1>2, <2>1 DEF SearchKnows, OwnerKnows, Serves
  <2> HIDE DEF x
  <2>4. /\ UNCHANGED <<artifacts, index, syncer>> /\ resource' \in Resources /\ owner' \in Owners
        /\ resource'.gen = resource.gen /\ (resource.model # 0 => resource'.model = resource.model)
        /\ resource'.pins \ {q} = resource.pins \ {q}
        /\ (x.at \notin {"idle", "prepared"} => q \in resource'.pins)
        /\ (resource'.pins # {} => owner'.gen = resource.gen) /\ owner'.gen <= resource.gen
        /\ (owner.gen = resource.gen /\ owner.sig # 0 => owner'.sig # 0)
    BY <1>1, <1>2, <2>1
  <2> QED
    BY <2>1, <2>2, <2>3, <2>4, SearchStep
<1>3. CASE Leaves(q, resource)
  BY <1>1, <1>3, LeavesKeeps DEF OwnerKnows
<1> QED
  BY <1>2, <1>3 DEF LoadsChunks

LEMMA EndsKeeps == ASSUME ReadersInv, NEW q \in Queries, Ranks(q) \/ RefusedSearch(q) PROVE ReadersInv'
<1>1. /\ resource \in Resources /\ owner \in Owners /\ OwnerKnows
      /\ Leaves(q, resource) /\ UNCHANGED <<artifacts, index, syncer, owner>>
  BY InSearch DEF Ranks, RefusedSearch
<1> QED
  BY <1>1, LeavesKeeps DEF OwnerKnows

LEMMA SnapshotKeeps == ASSUME ReadersInv, NEW q \in Queries, ReadsSnapshot(q) PROVE ReadersInv'
<1>1. /\ resource \in Resources /\ owner \in Owners /\ query[q] \in Searches
      /\ query[q].at = "reading" /\ q \in resource.pins /\ index.rows \in RowsOfNotes
      /\ index.sig \in ModelOrNone
      /\ owner.gen = resource.gen /\ OwnerKnows /\ SearchKnows(query[q], resource, index)
      /\ UNCHANGED <<artifacts, index, syncer, owner, resource>> /\ resource.gen \in Nat
      /\ RowsOf(index.rows, index.sig)
  BY InSearch DEF ReadsSnapshot
<1>2. PICK at \in {"comparing", "previous", "refused"} :
         query' = [query EXCEPT ![q].rows = index.rows, ![q].sig = index.sig, ![q].at = at]
  BY DEF ReadsSnapshot
<1> DEFINE x == [query[q] EXCEPT !.rows = index.rows, !.sig = index.sig, !.at = at]
<1>3. x \in Searches /\ x.at = at /\ x.gen = query[q].gen /\ x.rows = index.rows /\ x.sig = index.sig
  BY <1>1 DEF Searches, SearchPlaces
<1>4. query' = [query EXCEPT ![q] = x]
  BY <1>2
<1>5. SearchKnows(x, resource', index) /\ OwnerKnows'
  BY <1>1, <1>3 DEF SearchKnows, OwnerKnows
<1> HIDE DEF x
<1>6. /\ UNCHANGED <<artifacts, index, syncer>> /\ resource' \in Resources /\ owner' \in Owners
      /\ resource'.gen = resource.gen /\ (resource.model # 0 => resource'.model = resource.model)
      /\ resource'.pins \ {q} = resource.pins \ {q}
      /\ (x.at \notin {"idle", "prepared"} => q \in resource'.pins)
      /\ (resource'.pins # {} => owner'.gen = resource.gen) /\ owner'.gen <= resource.gen
      /\ (owner.gen = resource.gen /\ owner.sig # 0 => owner'.sig # 0)
  BY <1>1, <1>3
<1> QED
  BY <1>3, <1>4, <1>5, <1>6, SearchStep

LEMMA ComparesKeeps == ASSUME ReadersInv, NEW q \in Queries, Compares(q) PROVE ReadersInv'
<1>1. /\ resource \in Resources /\ owner \in Owners /\ query[q] \in Searches
      /\ query[q].at \in {"comparing", "previous"} /\ q \in resource.pins
      /\ owner.gen = resource.gen /\ OwnerKnows /\ SearchKnows(query[q], resource, index)
      /\ UNCHANGED <<artifacts, index, syncer>> /\ resource.gen \in Nat
  BY InSearch DEF Compares
<1>2. CASE Leaves(q, Failing(resource)) /\ UNCHANGED owner
  BY <1>1, <1>2, ResourceAfter, LeavesKeeps DEF OwnerKnows, Serves
<1>3. ASSUME NEW evident, evident = IF owner.evidence = 0 THEN Loaded ELSE owner.evidence,
             NEW loading, loading = IF owner.evidence = 0 THEN [resource EXCEPT !.model = Loaded] ELSE resource
      PROVE  /\ loading \in Resources /\ loading.gen = resource.gen /\ loading.pins = resource.pins
             /\ loading.model = evident /\ evident \in 1..2
             /\ resource.model # 0 => evident = resource.model
  <2>1. CASE owner.evidence = 0
    BY <1>3, <2>1, ResourceAfter
  <2>2. CASE owner.evidence # 0
    BY <1>1, <1>3, <2>2 DEF OwnerKnows, Owners, ModelOrNone
  <2> QED
    BY <2>1, <2>2
<1> DEFINE evident == IF owner.evidence = 0 THEN Loaded ELSE owner.evidence
           loading == IF owner.evidence = 0 THEN [resource EXCEPT !.model = Loaded] ELSE resource
<1>4. /\ loading \in Resources /\ loading.gen = resource.gen /\ loading.pins = resource.pins
      /\ loading.model = evident /\ evident \in 1..2
      /\ resource.model # 0 => evident = resource.model
  BY <1>3
<1> HIDE DEF evident, loading
<1>5. CASE Leaves(q, loading) /\ UNCHANGED owner
  <2>1. owner.gen = loading.gen =>
           /\ owner.sig \in {0, loading.model} /\ owner.evidence \in {0, loading.model}
           /\ owner.initialized \/ owner.available => Serves(loading, index)
    BY <1>1, <1>4 DEF OwnerKnows, Serves
  <2> QED
    BY <1>1, <1>4, <1>5, <2>1, LeavesKeeps
<1>6. ASSUME owner' = [owner EXCEPT !.evidence = evident]
      PROVE  /\ owner' \in Owners /\ owner'.gen = owner.gen /\ owner'.sig = owner.sig
             /\ owner'.sig \in {0, loading.model} /\ owner'.evidence \in {0, loading.model}
             /\ owner'.initialized \/ owner'.available => Serves(loading, index)
  <2>1. evident \in ModelOrNone
    BY <1>4 DEF ModelOrNone
  <2>2. /\ owner' \in Owners /\ owner'.gen = owner.gen /\ owner'.sig = owner.sig
        /\ owner'.evidence = evident /\ owner'.initialized = owner.initialized
        /\ owner'.available = owner.available
    BY <1>1, <1>6, <2>1 DEF Owners
  <2> QED
    BY <1>1, <1>4, <2>2 DEF OwnerKnows, Serves
<1>7. CASE owner' = [owner EXCEPT !.evidence = evident] /\ Leaves(q, loading)
  BY <1>1, <1>4, <1>6, <1>7, LeavesKeeps
<1>8. CASE /\ owner' = [owner EXCEPT !.evidence = evident] /\ query[q].sig = evident
           /\ query' = [query EXCEPT ![q].at = "prepared", ![q].gen = resource.gen]
           /\ resource' = Unpinned(q, loading)
  <2> DEFINE x == [query[q] EXCEPT !.at = "prepared", !.gen = resource.gen]
  <2>1. /\ x \in Searches /\ x.at = "prepared" /\ x.gen = resource.gen /\ x.sig = query[q].sig
        /\ x.rows = query[q].rows
    BY <1>1 DEF Searches, SearchPlaces
  <2>2. query' = [query EXCEPT ![q] = x]
    BY <1>8
  <2>3. /\ resource' \in Resources /\ resource'.gen = resource.gen /\ resource'.model = evident
        /\ resource'.pins = resource.pins \ {q}
    BY <1>4, <1>8 DEF Unpinned, Resources
  <2>4. OwnerKnows'
    BY <1>1, <1>4, <1>6, <1>8, <2>3 DEF OwnerKnows, Serves
  <2>5. SearchKnows(x, resource', index)
    BY <1>1, <1>4, <1>8, <2>1, <2>3 DEF SearchKnows
  <2> HIDE DEF x
  <2>6. /\ UNCHANGED <<artifacts, index, syncer>> /\ resource' \in Resources /\ owner' \in Owners
        /\ resource'.gen = resource.gen /\ (resource.model # 0 => resource'.model = resource.model)
        /\ resource'.pins \ {q} = resource.pins \ {q}
        /\ (x.at \notin {"idle", "prepared"} => q \in resource'.pins)
        /\ (resource'.pins # {} => owner'.gen = resource.gen) /\ owner'.gen <= resource.gen
        /\ (owner.gen = resource.gen /\ owner.sig # 0 => owner'.sig # 0)
    BY <1>1, <1>4, <1>6, <1>8, <2>1, <2>3
  <2> QED
    BY <2>1, <2>2, <2>4, <2>5, <2>6, SearchStep
<1> QED
  BY <1>2, <1>5, <1>7, <1>8 DEF Compares, evident, loading

LEMMA ScoringKeeps == ASSUME ReadersInv, NEW q \in Queries, BeginScoring(q) PROVE ReadersInv'
<1>0. UNCHANGED <<artifacts, index, syncer>> /\ OwnerKnows /\ query[q] \in Searches
      /\ SearchKnows(query[q], resource, index) /\ query[q].at = "prepared" /\ resource.gen \in Nat
      /\ resource \in Resources /\ owner \in Owners /\ owner.gen <= resource.gen
      /\ IdleQuery \in Searches /\ SearchKnows(IdleQuery, resource, index)
      /\ (resource.pins # {} => owner.gen = resource.gen)
  BY InSearch DEF BeginScoring, ReadersInv, InsidePinned
<1>1. CASE query' = [query EXCEPT ![q] = IdleQuery] /\ UNCHANGED <<resource, owner>>
  <2> DEFINE x == IdleQuery
  <2>1. x.at = "idle" /\ OwnerKnows'
    BY <1>0, <1>1 DEF IdleQuery, OwnerKnows
  <2> HIDE DEF x
  <2>2. /\ UNCHANGED <<artifacts, index, syncer>> /\ resource' \in Resources /\ owner' \in Owners
        /\ resource'.gen = resource.gen /\ (resource.model # 0 => resource'.model = resource.model)
        /\ resource'.pins \ {q} = resource.pins \ {q}
        /\ (x.at \notin {"idle", "prepared"} => q \in resource'.pins)
        /\ (resource'.pins # {} => owner'.gen = resource.gen) /\ owner'.gen <= resource.gen
        /\ (owner.gen = resource.gen /\ owner.sig # 0 => owner'.sig # 0)
    BY <1>0, <1>1, <2>1
  <2> QED
    BY <1>0, <1>1, <2>1, <2>2, SearchStep DEF x
<1>2. CASE /\ query[q].gen = resource.gen /\ Enters(q, query[q].gen)
           /\ Step(q, IF owner'.failed THEN "refused" ELSE "scoring")
  <2>1. Enters(q, query[q].gen)
    BY <1>2
  <2>2. /\ resource' \in Resources /\ owner' \in Owners
        /\ resource'.gen = resource.gen /\ resource'.model = resource.model
        /\ resource'.pins = resource.pins \cup {q}
        /\ owner'.gen = resource.gen
        /\ \/ owner' = owner
           \/ /\ owner'.sig = 0 /\ owner'.evidence = 0
              /\ ~owner'.initialized /\ ~owner'.available /\ owner.gen # resource.gen
    BY <2>1, EntersKeeps
  <2>3. OwnerKnows'
    BY <1>0, <2>2 DEF OwnerKnows, Serves
  <2>4. PICK at \in {"refused", "scoring"} : query' = [query EXCEPT ![q].at = at]
    BY <1>2 DEF Step
  <2> DEFINE x == [query[q] EXCEPT !.at = at]
  <2>5. /\ x \in Searches /\ x.at = at /\ x.gen = query[q].gen /\ x.sig = query[q].sig
        /\ x.rows = query[q].rows
    BY <1>0 DEF Searches, SearchPlaces
  <2>6. query' = [query EXCEPT ![q] = x]
    BY <2>4
  <2>7. SearchKnows(x, resource', index)
    BY <1>0, <1>2, <2>2, <2>5 DEF SearchKnows
  <2> HIDE DEF x
  <2>8. /\ UNCHANGED <<artifacts, index, syncer>> /\ resource' \in Resources /\ owner' \in Owners
        /\ resource'.gen = resource.gen /\ (resource.model # 0 => resource'.model = resource.model)
        /\ resource'.pins \ {q} = resource.pins \ {q}
        /\ (x.at \notin {"idle", "prepared"} => q \in resource'.pins)
        /\ (resource'.pins # {} => owner'.gen = resource.gen) /\ owner'.gen <= resource.gen
        /\ (owner.gen = resource.gen /\ owner.sig # 0 => owner'.sig # 0)
    BY <1>0, <2>2, <2>5
  <2> QED
    BY <2>3, <2>5, <2>6, <2>7, <2>8, SearchStep
<1> QED
  BY <1>1, <1>2 DEF BeginScoring

LEMMA ScoresKeeps == ASSUME ReadersInv, NEW q \in Queries, Scores(q) PROVE ReadersInv'
<1>1. /\ resource \in Resources /\ owner \in Owners /\ query[q] \in Searches
      /\ query[q].at = "scoring" /\ q \in resource.pins
      /\ owner.gen = resource.gen /\ OwnerKnows /\ SearchKnows(query[q], resource, index)
      /\ UNCHANGED <<artifacts, index, syncer, owner>> /\ resource.gen \in Nat
  BY InSearch DEF Scores
<1>2. ASSUME NEW at \in {"refused", "ranking"}, resource' = [resource EXCEPT !.model = Loaded],
             query' = [query EXCEPT ![q].vector = Loaded, ![q].at = at]
      PROVE  ReadersInv'
  <2> DEFINE x == [query[q] EXCEPT !.vector = Loaded, !.at = at]
  <2>1. Loaded \in ModelOrNone /\ query[q].sig = Loaded /\ Loaded = resource.model
    BY <1>1, ResourceAfter DEF SearchKnows, ModelOrNone
  <2>2. /\ x \in Searches /\ x.at = at /\ x.gen = query[q].gen /\ x.vector = Loaded
        /\ x.rows = query[q].rows
    BY <1>1, <2>1 DEF Searches, SearchPlaces
  <2>3. /\ resource' \in Resources /\ resource'.gen = resource.gen /\ resource'.pins = resource.pins
        /\ resource'.model = resource.model
    BY <1>2, <2>1, ResourceAfter
  <2>4. query' = [query EXCEPT ![q] = x]
    BY <1>2
  <2>5. SearchKnows(x, resource', index) /\ OwnerKnows'
    BY <1>1, <2>1, <2>2, <2>3 DEF SearchKnows, OwnerKnows, Serves
  <2> HIDE DEF x
  <2>6. /\ UNCHANGED <<artifacts, index, syncer>> /\ resource' \in Resources /\ owner' \in Owners
        /\ resource'.gen = resource.gen /\ (resource.model # 0 => resource'.model = resource.model)
        /\ resource'.pins \ {q} = resource.pins \ {q}
        /\ (x.at \notin {"idle", "prepared"} => q \in resource'.pins)
        /\ (resource'.pins # {} => owner'.gen = resource.gen) /\ owner'.gen <= resource.gen
        /\ (owner.gen = resource.gen /\ owner.sig # 0 => owner'.sig # 0)
    BY <1>1, <2>2, <2>3
  <2> QED
    BY <2>2, <2>4, <2>5, <2>6, SearchStep
<1>3. CASE Leaves(q, Failing(resource))
  BY <1>1, <1>3, ResourceAfter, LeavesKeeps DEF OwnerKnows, Serves
<1> QED
  BY <1>1, <1>2, <1>3 DEF Scores

LEMMA ReadersStep == ReadersInv /\ [ReadersNext]_readerVars => ReadersInv'
<1> SUFFICES ASSUME ReadersInv, [ReadersNext]_readerVars PROVE ReadersInv'
  OBVIOUS
<1>1. CASE ReplaceArtifacts \/ UNCHANGED readerVars
  BY <1>1, ReplaceKeeps
<1>2. CASE ReleaseGeneration \/ BeginRun \/ ResolveForRun \/ ValidateBackend
  BY <1>2, ReleaseKeeps, BeginRunKeeps, ResolveKeeps, ValidateKeeps
<1>3. CASE PrepareRun \/ ReserveRun \/ ResumeRun \/ FinishRun \/ TurnFails
  BY <1>3, PrepareKeeps, ReserveRunKeeps, ResumeKeeps, FinishKeeps, TurnFailsKeeps
<1>4. CASE \E n \in IndexedNotes : IndexNote(n)
  BY <1>4, IndexKeeps
<1>5. ASSUME NEW q \in Queries,
             \/ BeginSearch(q) \/ Asks(q) \/ EmbedsQuery(q) \/ LoadsChunks(q) \/ Ranks(q)
             \/ BeginPrepare(q) \/ RefusedSearch(q) \/ ReadsSnapshot(q) \/ Compares(q)
             \/ BeginScoring(q) \/ Scores(q)
      PROVE  ReadersInv'
  BY <1>5, BeginSearchKeeps, AsksKeeps, EmbedsKeeps, LoadsKeeps, EndsKeeps, BeginPrepareKeeps,
     SnapshotKeeps, ComparesKeeps, ScoringKeeps, ScoresKeeps
<1> QED
  BY <1>1, <1>2, <1>3, <1>4, <1>5 DEF ReadersNext

(* The strengthened invariant of the readers. *)
THEOREM ReadersInvariance == ReadersSpec => []ReadersInv
BY ReadersInitially, ReadersStep, PTL DEF ReadersSpec

(* For any searches, notes, releases and runs, a search compares its query only
   with rows of the model that embedded it (search and the federated scoring of
   semantic_search.py). *)
THEOREM AnswersAreOfOneModel == ReadersSpec => []OneModelPerAnswer
<1>1. ReadersInv => OneModelPerAnswer
  BY DEF ReadersInv, OneModelPerAnswer, SearchKnows, RowsOf
<1> QED
  BY <1>1, ReadersInvariance, PTL

-----------------------------------------------------------------------------
(* IndexStatus: the reports on a stored index.                             *)

Metas == [tables : BOOLEAN, sig : Signatures, state : Lifecycle \cup {"none"}]
Contents == [meta : Metas, rows : BOOLEAN]
Services == [resolved : 0..2, failed : BOOLEAN, initialized : BOOLEAN, available : BOOLEAN, bound : 0..1]
ClaimsMade == SUBSET ({"ready", "kept", "missing"} \X Signatures)
ReportPlaces == {"idle", "begun", "found", "counting", "checking", "read", "made"}
ReportRecords ==
    [at : ReportPlaces, live : BOOLEAN, guard : {"plain", "bound", "inspect"}, before : 0..2, opened : 0..2,
     overtaken : BOOLEAN, meta : Metas, rows : BOOLEAN, status : {"none", "missing", "error", "ok"},
     claims : ClaimsMade]

StatusTyped ==
    /\ place \in 0..2 /\ stored \in Contents /\ pages \in Contents /\ wal \in {"none", "open", "left"}
    /\ service \in Services /\ whole \in Signatures /\ report \in ReportRecords

ShowsReady(c) == c.meta.state = "ready" \/ (c.meta.state = "none" /\ c.rows)

(* The store and what the service believes of it: a state that says ready, and
   a service that offers search, stand on a complete index of that signature. *)
StoredSound ==
    /\ wal = "none" => pages = stored
    /\ wal = "open" => service.bound = 1
    /\ ShowsReady(stored) => whole = stored.meta.sig
    /\ ~stored.meta.tables => stored.meta.sig = 0
    /\ stored.meta.sig = 0 => stored.meta.state = "none" /\ ~stored.rows
    /\ service.initialized => service.bound = 1 /\ service.resolved # 0
    /\ service.available =>
          /\ service.initialized /\ service.resolved # 0
          /\ stored.meta.sig = service.resolved /\ whole = service.resolved

(* What a read in progress has seen was true when it saw it.  An immutable one
   has seen the committed state as long as no writer was there. *)
LiveSound(r) ==
    r.live =>
       /\ r.at # "counting"
       /\ r.at = "checking" \/ (r.at = "read" /\ r.status = "ok") =>
             /\ ShowsReady(r) => {<<"ready", r.meta.sig>>, <<"kept", r.meta.sig>>} \subseteq seen
             /\ service.available /\ service.resolved = r.meta.sig => <<"kept", r.meta.sig>> \in seen
ImmutableSound(r) ==
    ~r.live /\ ~r.overtaken =>
       /\ r.at \in {"counting", "checking"} /\ wal = "none" =>
             /\ r.opened \in 1..2
             /\ r.meta = IF r.opened = 2 THEN Foreign.meta ELSE stored.meta
             /\ r.rows = IF r.opened = 2 THEN Foreign.rows ELSE stored.rows
       /\ (r.at \in {"counting", "checking"} /\ wal = "none") \/ (r.at = "read" /\ r.status = "ok") =>
             (ShowsReady(r) => <<"ready", r.meta.sig>> \in seen)
ReportSound(r) ==
    /\ r.at # "idle" /\ r.status = "missing" => <<"missing", 0>> \in seen
    /\ LiveSound(r) /\ ImmutableSound(r)
    /\ r.at = "made" /\ (r.live \/ ~r.overtaken) => r.claims \subseteq seen

StatusInv == StatusTyped /\ StoredSound /\ ReportSound(report)

LEMMA ContentTypes ==
    /\ Absent \in Contents /\ Foreign \in Contents /\ NoReport \in ReportRecords
<1>2. Absent \in Contents /\ Foreign \in Contents
  BY DEF Absent, Foreign, Content, Meta, Contents, Metas, Signatures, Lifecycle
<1>3. Absent.meta \in Metas
  BY <1>2 DEF Contents
<1>4. NoReport \in ReportRecords
  BY <1>3 DEF NoReport, ReportRecords, ReportPlaces, ClaimsMade
<1> QED
  BY <1>2, <1>4

LEMMA StatusInitially == StatusInit => StatusInv
<1> SUFFICES ASSUME StatusInit PROVE StatusInv
  OBVIOUS
<1>1. stored \in {Absent, Content(TRUE, 1, "ready", TRUE), Content(TRUE, 3, "ready", TRUE),
                  Content(TRUE, 1, "none", TRUE), Content(TRUE, 2, "indexing", TRUE)}
  BY DEF StatusInit
<1>2. stored \in Contents /\ pages = stored
      /\ (~stored.meta.tables => stored.meta.sig = 0)
      /\ (stored.meta.sig = 0 => stored.meta.state = "none" /\ ~stored.rows)
      /\ (stored.meta.state = "ready" => stored.rows)
  <2>1. stored \in Contents
    <3>1. Content(TRUE, 1, "ready", TRUE) \in Contents
      BY DEF Content, Meta, Contents, Metas, Signatures, Lifecycle
    <3>2. Content(TRUE, 3, "ready", TRUE) \in Contents
      BY DEF Content, Meta, Contents, Metas, Signatures, Lifecycle
    <3>3. Content(TRUE, 1, "none", TRUE) \in Contents
      BY DEF Content, Meta, Contents, Metas, Signatures, Lifecycle
    <3>4. Content(TRUE, 2, "indexing", TRUE) \in Contents
      BY DEF Content, Meta, Contents, Metas, Signatures, Lifecycle
    <3> QED
      BY <1>1, <3>1, <3>2, <3>3, <3>4, ContentTypes
  <2>2. /\ ~stored.meta.tables => stored.meta.sig = 0
        /\ stored.meta.sig = 0 => stored.meta.state = "none" /\ ~stored.rows
        /\ stored.meta.state = "ready" => stored.rows
    BY <1>1 DEF Content, Meta, Absent
  <2> QED
    BY <2>1, <2>2 DEF StatusInit
<1>3. service \in Services /\ ~service.initialized /\ ~service.available
  BY DEF StatusInit, NewService, Services
<1>4. whole \in Signatures /\ (ShowsReady(stored) => whole = stored.meta.sig)
  BY <1>2 DEF StatusInit, ShowsReady, Contents, Metas, Signatures
<1>5. report = NoReport /\ report \in ReportRecords /\ report.at = "idle"
  BY ContentTypes DEF StatusInit, NoReport
<1>6. ReportSound(report)
  BY <1>5 DEF ReportSound, LiveSound, ImmutableSound
<1> QED
  BY <1>2, <1>3, <1>4, <1>5, <1>6 DEF StatusInv, StatusTyped, StoredSound, StatusInit

(* What is true of the file at the path has been seen by the read in progress. *)
LEMMA TruthIsSeen ==
    ASSUME StatusNext, report'.at # "idle"
    PROVE  /\ report.at # "idle" => seen \subseteq seen'
           /\ Truth' \subseteq seen'
BY DEF StatusNext

LEMMA TruthSays ==
    /\ place' = 1 /\ ShowsReady(stored') =>
          {<<"ready", stored'.meta.sig>>, <<"kept", stored'.meta.sig>>} \subseteq Truth'
    /\ place' = 1 /\ whole' = stored'.meta.sig => <<"kept", stored'.meta.sig>> \in Truth'
    /\ place' = 2 /\ report'.guard = "plain" =>
          {<<"ready", Foreign.meta.sig>>, <<"kept", Foreign.meta.sig>>} \subseteq Truth'
    /\ place' = 0 => <<"missing", 0>> \in Truth'
<1>1. Foreign.meta.state = "ready"
  BY DEF Foreign, Content, Meta
<1> QED
  BY <1>1 DEF Truth, ShowsReady

(* What a step of the writer or of the operator owes the read in progress. *)
LEMMA WriterStep ==
    ASSUME StatusInv, StatusNext, StatusTyped', StoredSound',
           report' = report \/ report' = [report EXCEPT !.overtaken = report.at # "idle"],
           service'.available =>
              (service.available /\ service'.resolved = service.resolved) \/ place' = 1,
           wal' = "none" => (wal = "none" /\ stored' = stored) \/ report'.overtaken \/ report.at = "idle"
    PROVE  StatusInv'
<1>1. report \in ReportRecords /\ ReportSound(report)
  BY DEF StatusInv, StatusTyped
<1>2. /\ report'.at = report.at /\ report'.live = report.live /\ report'.meta = report.meta
      /\ report'.rows = report.rows /\ report'.status = report.status /\ report'.claims = report.claims
      /\ report'.opened = report.opened
      /\ (report.at # "idle" /\ report.overtaken => report'.overtaken)
  BY <1>1 DEF ReportRecords
<1>3. CASE report.at = "idle"
  BY <1>2, <1>3 DEF StatusInv, ReportSound, LiveSound, ImmutableSound
<1>4. CASE report.at # "idle"
  <2>1. seen \subseteq seen' /\ Truth' \subseteq seen'
    BY <1>2, <1>4, TruthIsSeen
  <2>2. service'.available /\ place' = 1 => <<"kept", service'.resolved>> \in seen'
    BY <2>1, TruthSays DEF StoredSound
  <2>3. LiveSound(report)'
    BY <1>1, <1>2, <2>1, <2>2 DEF ReportSound, LiveSound, ShowsReady
  <2>4. ImmutableSound(report)'
    BY <1>1, <1>2, <1>4, <2>1 DEF ReportSound, ImmutableSound, ShowsReady
  <2> QED
    BY <1>1, <1>2, <1>4, <2>1, <2>3, <2>4 DEF StatusInv, ReportSound
<1> QED
  BY <1>3, <1>4

LEMMA StatusKnown ==
    ASSUME StatusInv
    PROVE  /\ place \in 0..2 /\ stored \in Contents /\ pages \in Contents /\ wal \in {"none", "open", "left"}
           /\ service \in Services /\ whole \in Signatures /\ report \in ReportRecords
           /\ StoredSound
           /\ stored.meta \in Metas /\ stored.rows \in BOOLEAN /\ stored.meta.tables \in BOOLEAN
           /\ stored.meta.sig \in Signatures /\ stored.meta.state \in Lifecycle \cup {"none"}
           /\ service.resolved \in 0..2 /\ service.resolved \in Signatures
<1>1. /\ place \in 0..2 /\ stored \in Contents /\ pages \in Contents /\ wal \in {"none", "open", "left"}
      /\ service \in Services /\ whole \in Signatures /\ report \in ReportRecords
      /\ StoredSound
  BY DEF StatusInv, StatusTyped
<1>2. stored.meta \in Metas /\ stored.rows \in BOOLEAN /\ service.resolved \in 0..2
  BY <1>1 DEF Contents, Services
<1>3. service.resolved \in Signatures
  BY <1>2 DEF Signatures
<1> QED
  BY <1>1, <1>2, <1>3 DEF Metas

(* The service and the operator, beside the writes. *)
LEMMA ServiceKeeps ==
    StatusInv /\ StatusNext /\ (ResolveSignature \/ ForgetSignature) => StatusInv'
<1> SUFFICES ASSUME StatusInv, StatusNext, ResolveSignature \/ ForgetSignature PROVE StatusInv'
  OBVIOUS
<1>1. /\ service \in Services /\ StoredSound /\ StatusTyped
      /\ UNCHANGED <<place, stored, pages, wal, whole, report>>
  BY DEF StatusInv, StatusTyped, ResolveSignature, ForgetSignature
<1>2. /\ service' \in Services
      /\ service'.available => service.available /\ service'.resolved = service.resolved
      /\ service'.initialized => service.initialized /\ service'.resolved # 0
      /\ service'.available => service'.initialized
      /\ service'.bound = service.bound
  <2>1. CASE service' = [service EXCEPT !.failed = TRUE, !.available = FALSE]
    BY <1>1, <2>1 DEF Services, StoredSound
  <2>2. ASSUME NEW r \in Resolvable, service' = [service EXCEPT !.failed = FALSE, !.resolved = r],
               service.resolved = 0
        PROVE  /\ service' \in Services /\ ~service'.available /\ service'.bound = service.bound
               /\ service'.initialized => service.initialized /\ service'.resolved # 0
    <3>1. ~service.available /\ ~service.initialized /\ r \in 0..2
      BY <1>1, <2>2 DEF StoredSound, Resolvable
    <3> QED
      BY <1>1, <2>2, <3>1 DEF Services
  <2>3. CASE service' = NewService(service.bound)
    BY <1>1, <2>3 DEF Services, NewService
  <2> QED
    BY <2>1, <2>2, <2>3 DEF ResolveSignature, ForgetSignature
<1>3. StatusTyped' /\ StoredSound'
  BY <1>1, <1>2 DEF StatusTyped, StoredSound, ShowsReady
<1> QED
  BY <1>1, <1>2, <1>3, WriterStep

LEMMA OpenKeeps == StatusInv /\ StatusNext /\ OpenWriter => StatusInv'
<1> SUFFICES ASSUME StatusInv, StatusNext, OpenWriter PROVE StatusInv'
  OBVIOUS
<1>1. /\ place \in {1, service.bound} /\ place' = 1 /\ wal' = "open" /\ service' = [service EXCEPT !.bound = 1]
      /\ IF place = 0 THEN stored' = Absent /\ pages' = Absent /\ whole' = 0
                      ELSE UNCHANGED <<stored, pages, whole>>
      /\ report' = report
  BY DEF OpenWriter
<1>2. /\ service' \in Services /\ service'.bound = 1 /\ service'.available = service.available
      /\ service'.initialized = service.initialized /\ service'.resolved = service.resolved
  BY <1>1, StatusKnown DEF Services
<1>3. CASE place = 0
  <2>1. ~service.available /\ ~service.initialized
    BY <1>1, <1>3, StatusKnown DEF StoredSound
  <2>2. /\ ~Absent.meta.tables /\ Absent.meta.sig = 0 /\ Absent.meta.state = "none" /\ ~Absent.rows
        /\ 0 \in Signatures
    BY DEF Absent, Content, Meta, Signatures
  <2>3. StatusTyped' /\ StoredSound'
    BY <1>1, <1>2, <1>3, <2>1, <2>2, StatusKnown, ContentTypes DEF StatusTyped, StoredSound, ShowsReady
  <2> QED
    BY <1>1, <2>3, WriterStep
<1>4. CASE place # 0
  <2>1. StatusTyped' /\ StoredSound'
    BY <1>1, <1>2, <1>4, StatusKnown DEF StatusTyped, StoredSound, ShowsReady
  <2> QED
    BY <1>1, <2>1, WriterStep
<1> QED
  BY <1>3, <1>4

(* A commit of the service: only its contents, and what it then believes, matter. *)
LEMMA WritesKeep ==
    ASSUME StatusInv, StatusNext, NEW c \in Contents, NEW w \in Signatures, Writes(c, w), service' \in Services,
           ShowsReady(c) => w = c.meta.sig,
           ~c.meta.tables => c.meta.sig = 0,
           c.meta.sig = 0 => c.meta.state = "none" /\ ~c.rows,
           service'.bound = service.bound,
           service'.available => service'.initialized /\ service'.resolved # 0
                                 /\ c.meta.sig = service'.resolved /\ w = service'.resolved,
           service'.initialized => service'.resolved # 0 /\ (service.initialized \/ service.bound = 1)
    PROVE  StatusInv'
<1>1. /\ stored' = c /\ whole' = w /\ wal = "open" /\ place = 1
      /\ UNCHANGED <<place, pages, wal, report>>
  BY DEF Writes
<1>2. StatusTyped' /\ StoredSound'
  BY <1>1, StatusKnown DEF StatusTyped, StoredSound
<1> QED
  BY <1>1, <1>2, WriterStep

LEMMA PrepareIndexKeeps == StatusInv /\ StatusNext /\ PrepareIndex => StatusInv'
<1> SUFFICES ASSUME StatusInv, StatusNext, PrepareIndex PROVE StatusInv'
  OBVIOUS
<1> DEFINE old == stored.meta
           changed == old.sig # service.resolved /\ (old.sig # 0 \/ stored.rows)
           state == IF changed THEN "none" ELSE old.state
           rows == stored.rows /\ ~changed
           c == Content(TRUE, service.resolved, state, rows)
           w == IF changed THEN 0 ELSE whole
<1>1. /\ Writes(c, w) /\ service' = service /\ service.resolved # 0 /\ ~service.initialized
      /\ old.sig # service.resolved \/ ~old.tables
  BY DEF PrepareIndex
<1>2. state \in Lifecycle \cup {"none"} /\ rows \in BOOLEAN /\ w \in Signatures
  BY StatusKnown DEF Signatures
<1>3. /\ c \in Contents /\ c.rows = rows /\ c.meta.sig = service.resolved /\ c.meta.state = state
      /\ c.meta.tables
  <2> HIDE DEF state, rows
  <2> QED
    BY <1>2, StatusKnown DEF Content, Meta, Contents, Metas
<1>4. ShowsReady(c) => w = c.meta.sig
  <2>1. ~changed => old.sig = 0 /\ ~stored.rows
    BY <1>1, StatusKnown DEF StoredSound
  <2>2. state # "ready" /\ ~rows
    BY <2>1, StatusKnown DEF StoredSound
  <2> QED
    BY <1>3, <2>2 DEF ShowsReady
<1>5. ~service.available
  BY <1>1, StatusKnown DEF StoredSound
<1> HIDE DEF c, w
<1> QED
  BY <1>1, <1>2, <1>3, <1>4, <1>5, WritesKeep, StatusKnown

LEMMA InitializeStoredKeeps == StatusInv /\ StatusNext /\ InitializeStored => StatusInv'
<1> SUFFICES ASSUME StatusInv, StatusNext, InitializeStored PROVE StatusInv'
  OBVIOUS
<1> DEFINE state == Reached(stored.meta, stored.rows)
           c == Content(TRUE, stored.meta.sig, state, stored.rows)
           offered == service.available \/ state = "ready"
<1>1. /\ ~service.initialized /\ service.resolved # 0 /\ stored.meta.sig = service.resolved
      /\ Writes(c, whole) /\ service' = [service EXCEPT !.initialized = TRUE, !.available = offered]
  BY DEF InitializeStored
<1>2. state \in Lifecycle /\ (state = "ready" => ShowsReady(stored))
  BY StatusKnown DEF Reached, Lifecycle, ShowsReady
<1>3. /\ c \in Contents /\ c.rows = stored.rows /\ c.meta.sig = stored.meta.sig /\ c.meta.state = state
      /\ c.meta.tables
  <2> HIDE DEF state
  <2> QED
    BY <1>2, StatusKnown DEF Content, Meta, Contents, Metas
<1>4. ~service.available /\ service.bound = 1
  BY <1>1, StatusKnown DEF StoredSound, Writes
<1>5. ShowsReady(c) => whole = c.meta.sig /\ state = "ready"
  BY <1>2, <1>3, StatusKnown DEF ShowsReady, StoredSound, Lifecycle
<1>6. offered => whole = stored.meta.sig
  BY <1>2, <1>4, StatusKnown DEF StoredSound
<1>7. offered \in BOOLEAN
  OBVIOUS
<1> HIDE DEF c, offered
<1>8. /\ service' \in Services /\ service'.initialized /\ service'.available = offered
      /\ service'.resolved = service.resolved /\ service'.bound = service.bound
  BY <1>1, <1>7, StatusKnown DEF Services
<1> QED
  BY <1>1, <1>3, <1>4, <1>5, <1>6, <1>8, WritesKeep, StatusKnown

LEMMA RebuildKeeps == StatusInv /\ StatusNext /\ RebuildIndex => StatusInv'
<1> SUFFICES ASSUME StatusInv, StatusNext, RebuildIndex PROVE StatusInv'
  OBVIOUS
<1> DEFINE c == Content(TRUE, service.resolved, "uninitialized", FALSE)
<1>1. /\ service.resolved # 0 /\ Writes(c, 0)
      /\ service' = [service EXCEPT !.initialized = TRUE, !.available = FALSE]
  BY DEF RebuildIndex
<1>2. /\ c \in Contents /\ c.rows = FALSE /\ c.meta.sig = service.resolved
      /\ c.meta.state = "uninitialized" /\ c.meta.tables /\ 0 \in Signatures
  <2>1. "uninitialized" \in Lifecycle \cup {"none"} /\ 0 \in Signatures
    BY DEF Lifecycle, Signatures
  <2> QED
    BY <2>1, StatusKnown DEF Content, Meta, Contents, Metas
<1>3. /\ service' \in Services /\ ~service'.available /\ service'.bound = service.bound
  BY <1>1, StatusKnown DEF Services
<1>4. service.bound = 1
  BY <1>1, StatusKnown DEF StoredSound, Writes
<1> HIDE DEF c
<1> QED
  BY <1>1, <1>2, <1>3, <1>4, WritesKeep DEF ShowsReady

LEMMA SynchronizeKeeps == StatusInv /\ StatusNext /\ Synchronize => StatusInv'
<1> SUFFICES ASSUME StatusInv, StatusNext, Synchronize PROVE StatusInv'
  OBVIOUS
<1>1. service.initialized /\ stored.meta.sig = service.resolved
  BY DEF Synchronize
<1>2. ASSUME NEW s \in {"indexing", "error", "ready"}
      PROVE  LET c == [stored EXCEPT !.meta.state = s]
             IN /\ c \in Contents /\ c.rows = stored.rows /\ c.meta.sig = stored.meta.sig
                /\ c.meta.state = s /\ c.meta.tables = stored.meta.tables
  BY <1>2, StatusKnown DEF Contents, Metas, Lifecycle
<1>3. stored.meta.sig = 0 => stored.meta.state = "none"
  BY StatusKnown DEF StoredSound
<1>4. service.resolved # 0 /\ service.bound = 1
  BY <1>1, StatusKnown DEF StoredSound
<1>5. CASE /\ Writes([stored EXCEPT !.meta.state = "indexing"], whole) \/
              Writes([stored EXCEPT !.meta.state = "error"], whole)
           /\ UNCHANGED service
  <2> DEFINE c(s) == [stored EXCEPT !.meta.state = s]
  <2>1. PICK s \in {"indexing", "error"} : Writes(c(s), whole)
    BY <1>5
  <2>2. /\ c(s) \in Contents /\ c(s).rows = stored.rows /\ c(s).meta.sig = stored.meta.sig
        /\ c(s).meta.state = s /\ c(s).meta.tables = stored.meta.tables
    BY <1>2
  <2> HIDE DEF c
  <2> QED
    BY <1>1, <1>4, <1>5, <2>1, <2>2, WritesKeep, StatusKnown DEF ShowsReady, StoredSound
<1>6. ASSUME NEW rows \in BOOLEAN, Writes([stored EXCEPT !.rows = rows], whole), UNCHANGED service,
             stored.meta.state = "indexing"
      PROVE  StatusInv'
  <2> DEFINE c == [stored EXCEPT !.rows = rows]
  <2>1. c \in Contents /\ c.meta = stored.meta /\ Writes(c, whole)
    BY <1>6, StatusKnown DEF Contents
  <2> HIDE DEF c
  <2> QED
    BY <1>1, <1>4, <1>6, <2>1, WritesKeep, StatusKnown DEF ShowsReady, StoredSound
<1>7. CASE /\ Writes([stored EXCEPT !.meta.state = "ready"], service.resolved)
           /\ service' = [service EXCEPT !.available = TRUE]
  <2> DEFINE c == [stored EXCEPT !.meta.state = "ready"]
  <2>1. /\ c \in Contents /\ c.rows = stored.rows /\ c.meta.sig = stored.meta.sig
        /\ c.meta.state = "ready" /\ c.meta.tables = stored.meta.tables /\ Writes(c, service.resolved)
    BY <1>2, <1>7
  <2>2. /\ service' \in Services /\ service'.initialized = service.initialized
        /\ service'.resolved = service.resolved /\ service'.bound = service.bound
    BY <1>7, StatusKnown DEF Services
  <2> HIDE DEF c
  <2> QED
    BY <1>1, <1>4, <2>1, <2>2, WritesKeep, StatusKnown DEF StoredSound
<1> QED
  BY <1>5, <1>6, <1>7 DEF Synchronize

LEMMA FileKeeps == StatusInv /\ StatusNext /\ (Checkpoint \/ MoveFile) => StatusInv'
<1> SUFFICES ASSUME StatusInv, StatusNext, Checkpoint \/ MoveFile PROVE StatusInv'
  OBVIOUS
<1>1. /\ place' \in 0..2 /\ pages' \in Contents
      /\ UNCHANGED <<stored, wal, service, whole, report>>
      /\ wal = "none" => pages' = pages
      /\ place' = place \/ wal = "none"
  <2>1. [pages EXCEPT !.meta = stored.meta] \in Contents /\ [pages EXCEPT !.rows = stored.rows] \in Contents
    BY StatusKnown DEF Contents
  <2>2. CASE Checkpoint
    BY <2>1, <2>2, StatusKnown DEF Checkpoint
  <2>3. CASE MoveFile
    BY <2>3, StatusKnown DEF MoveFile
  <2> QED
    BY <2>2, <2>3
<1>2. StatusTyped' /\ StoredSound'
  BY <1>1, StatusKnown DEF StatusTyped, StoredSound, ShowsReady
<1> QED
  BY <1>1, <1>2, WriterStep

LEMMA CloseKeeps == StatusInv /\ StatusNext /\ CloseWriter => StatusInv'
<1> SUFFICES ASSUME StatusInv, StatusNext, CloseWriter PROVE StatusInv'
  OBVIOUS
<1>1. /\ wal' = "none" /\ pages' = stored /\ UNCHANGED <<place, stored, service, whole>>
      /\ report' = [report EXCEPT !.overtaken = report.at # "idle"]
  BY DEF CloseWriter
<1>2. report' \in ReportRecords /\ report'.overtaken = (report.at # "idle")
  <2>1. (report.at # "idle") \in BOOLEAN
    OBVIOUS
  <2> DEFINE during == report.at # "idle"
  <2>2. report' = [report EXCEPT !.overtaken = during] /\ during \in BOOLEAN
    BY <1>1
  <2> HIDE DEF during
  <2>3. report' \in ReportRecords /\ report'.overtaken = during
    BY <2>2, StatusKnown DEF ReportRecords
  <2> QED
    BY <2>3 DEF during
<1>3. StatusTyped' /\ StoredSound'
  BY <1>1, <1>2, StatusKnown DEF StatusTyped, StoredSound, ShowsReady
<1> QED
  BY <1>1, <1>2, <1>3, WriterStep

LEMMA CrashKeeps == StatusInv /\ StatusNext /\ ServiceCrashes => StatusInv'
<1> SUFFICES ASSUME StatusInv, StatusNext, ServiceCrashes PROVE StatusInv'
  OBVIOUS
<1>1. /\ place # 2 /\ service' = NewService(place)
      /\ wal' = IF wal = "open" THEN "left" ELSE wal
      /\ UNCHANGED <<place, stored, pages, whole, report>>
  BY DEF ServiceCrashes
<1>2. service' \in Services /\ ~service'.available /\ ~service'.initialized
  BY <1>1, StatusKnown DEF NewService, Services
<1>3. StatusTyped' /\ StoredSound'
  BY <1>1, <1>2, StatusKnown DEF StatusTyped, StoredSound, ShowsReady
<1> QED
  BY <1>1, <1>2, <1>3, StatusKnown, WriterStep

(* A step of the read in progress leaves the rest alone. *)
LEMMA ReaderStep ==
    ASSUME StatusInv, UNCHANGED <<place, stored, pages, wal, service, whole>>,
           report' \in ReportRecords, ReportSound(report)'
    PROVE  StatusInv'
BY DEF StatusInv, StatusTyped, StoredSound, ShowsReady

LEMMA BeginReportKeeps == StatusInv /\ StatusNext /\ BeginReport => StatusInv'
<1> SUFFICES ASSUME StatusInv, StatusNext, BeginReport PROVE StatusInv'
  OBVIOUS
<1>1. PICK live \in BOOLEAN, guard \in {"plain", "bound", "inspect"} :
         report' = [NoReport EXCEPT !.at = "begun", !.live = live, !.guard = guard]
  BY DEF BeginReport
<1>2. report' \in ReportRecords /\ report'.at = "begun" /\ report'.status = NoReport.status
  BY <1>1, ContentTypes DEF ReportRecords, ReportPlaces
<1>3. NoReport.status = "none"
  BY DEF NoReport
<1>4. ReportSound(report)'
  BY <1>2, <1>3 DEF ReportSound, LiveSound, ImmutableSound
<1> QED
  BY <1>2, <1>4, ReaderStep DEF BeginReport

LEMMA EndReportKeeps == StatusInv /\ StatusNext /\ EndReport => StatusInv'
<1> SUFFICES ASSUME StatusInv, StatusNext, EndReport PROVE StatusInv'
  OBVIOUS
<1>1. report' = NoReport /\ NoReport.at = "idle" /\ NoReport \in ReportRecords
  BY ContentTypes DEF EndReport, ReportGoes, NoReport
<1>2. ReportSound(report)'
  BY <1>1 DEF ReportSound, LiveSound, ImmutableSound
<1> QED
  BY <1>1, <1>2, ReaderStep DEF EndReport, ReportGoes

(* A refused read claims nothing. *)
LEMMA RefusedKeeps ==
    ASSUME StatusInv, StatusNext, report.at # "idle", ReportGoes(Refused)
    PROVE  StatusInv'
<1>1. /\ report' \in ReportRecords /\ report'.at = "read" /\ report'.status = "error"
  BY StatusKnown DEF ReportGoes, Refused, ReportRecords, ReportPlaces
<1>2. ReportSound(report)'
  BY <1>1 DEF ReportSound, LiveSound, ImmutableSound
<1> QED
  BY <1>1, <1>2, ReaderStep DEF ReportGoes

LEMMA FirstLookKeeps == StatusInv /\ StatusNext /\ FirstLook => StatusInv'
<1> SUFFICES ASSUME StatusInv, StatusNext, FirstLook PROVE StatusInv'
  OBVIOUS
<1>1. CASE ReportGoes(Refused)
  BY <1>1, RefusedKeeps DEF FirstLook
<1>2. CASE place = 0 /\ ReportGoes(NotThere)
  <2>1. /\ report' \in ReportRecords /\ report'.at = "read" /\ report'.status = "missing"
        /\ place' = 0
    BY <1>2, StatusKnown DEF ReportGoes, NotThere, ReportRecords, ReportPlaces
  <2>2. <<"missing", 0>> \in seen'
    BY <2>1, TruthSays, TruthIsSeen
  <2>3. ReportSound(report)'
    BY <2>1, <2>2 DEF ReportSound, LiveSound, ImmutableSound
  <2> QED
    BY <1>2, <2>1, <2>3, ReaderStep DEF ReportGoes
<1>3. CASE ReportGoes([report EXCEPT !.at = "found", !.before = place])
  <2>1. /\ report' \in ReportRecords /\ report'.at = "found" /\ report'.status = report.status
    BY <1>3, StatusKnown DEF ReportGoes, ReportRecords, ReportPlaces
  <2>2. report.at # "idle" /\ (report.status = "missing" => <<"missing", 0>> \in seen)
        /\ seen \subseteq seen'
    BY <2>1, TruthIsSeen DEF FirstLook, StatusInv, ReportSound
  <2>3. ReportSound(report)'
    BY <2>1, <2>2 DEF ReportSound, LiveSound, ImmutableSound
  <2> QED
    BY <1>3, <2>1, <2>3, ReaderStep DEF ReportGoes
<1> QED
  BY <1>1, <1>2, <1>3 DEF FirstLook, Located

LEMMA ReadMetaKeeps == StatusInv /\ StatusNext /\ ReadMeta => StatusInv'
<1> SUFFICES ASSUME StatusInv, StatusNext, ReadMeta PROVE StatusInv'
  OBVIOUS
<1> DEFINE file == IF place = 2 THEN Foreign ELSE IF report.live THEN stored ELSE pages
           at == IF report.live THEN "checking" ELSE "counting"
           r == [report EXCEPT !.at = at, !.meta = file.meta, !.rows = file.rows, !.opened = place]
<1>1. CASE ReportGoes(Refused)
  BY <1>1, RefusedKeeps DEF ReadMeta
<1>2. CASE place # 0 /\ (report.guard = "plain" \/ place = 1) /\ ReportGoes(r)
  <2>1. file.meta \in Metas /\ file.rows \in BOOLEAN /\ at \in ReportPlaces
    BY StatusKnown, ContentTypes DEF Contents, ReportPlaces
  <2>2. /\ report' \in ReportRecords /\ report'.at = at /\ report'.status = report.status
        /\ report'.meta = file.meta /\ report'.rows = file.rows /\ report'.opened = place
        /\ report'.live = report.live /\ report'.overtaken = report.overtaken
        /\ report'.guard = report.guard
    <3>1. report' = r
      BY <1>2 DEF ReportGoes
    <3> HIDE DEF file, at
    <3> QED
      BY <2>1, <3>1, StatusKnown DEF ReportRecords
  <2>3. report.at # "idle" /\ (report.status = "missing" => <<"missing", 0>> \in seen)
        /\ seen \subseteq seen' /\ Truth' \subseteq seen'
    BY <2>2, TruthIsSeen DEF ReadMeta, StatusInv, ReportSound
  <2>4. UNCHANGED <<place, stored, pages, wal, service, whole>> /\ place \in 1..2
    BY <1>2, StatusKnown DEF ReportGoes
  <2>5. ShowsReady(file) /\ (report.live \/ file = stored \/ place = 2) =>
            {<<"ready", file.meta.sig>>, <<"kept", file.meta.sig>>} \subseteq seen'
    <3>1. CASE place = 1
      BY <2>3, <2>4, <3>1, TruthSays
    <3>2. CASE place = 2
      BY <1>2, <2>2, <2>3, <2>4, <3>2, TruthSays
    <3> QED
      BY <2>4, <3>1, <3>2
  <2>6. report.live /\ service.available /\ service.resolved = file.meta.sig =>
            <<"kept", file.meta.sig>> \in seen'
    <3>1. CASE place = 1
      BY <2>3, <2>4, <3>1, TruthSays, StatusKnown DEF StoredSound
    <3>2. CASE place = 2
      BY <1>2, <2>2, <2>3, <2>4, <3>2, TruthSays
    <3> QED
      BY <2>4, <3>1, <3>2
  <2>7. LiveSound(report)'
    <3>1. ShowsReady(report)' <=> ShowsReady(file)
      BY <2>2 DEF ShowsReady
    <3> HIDE DEF file
    <3> QED
      BY <2>2, <2>4, <2>5, <2>6, <3>1 DEF LiveSound
  <2>8. ImmutableSound(report)'
    <3>1. ShowsReady(report)' <=> ShowsReady(file)
      BY <2>2 DEF ShowsReady
    <3>2. wal = "none" /\ ~report.live => file = IF place = 2 THEN Foreign ELSE stored
      BY StatusKnown DEF StoredSound
    <3> HIDE DEF file
    <3> QED
      BY <2>2, <2>4, <2>5, <3>1, <3>2 DEF ImmutableSound
  <2>9. ReportSound(report)'
    BY <2>2, <2>3, <2>7, <2>8 DEF ReportSound
  <2> QED
    BY <2>2, <2>4, <2>9, ReaderStep
<1> QED
  BY <1>1, <1>2 DEF ReadMeta, Namespace

LEMMA ReadRowsKeeps == StatusInv /\ StatusNext /\ ReadRows => StatusInv'
<1> SUFFICES ASSUME StatusInv, StatusNext, ReadRows PROVE StatusInv'
  OBVIOUS
<1> DEFINE rows == IF report.opened = 2 THEN Foreign.rows ELSE pages.rows
<1>1. /\ report.at = "counting" /\ report' = [report EXCEPT !.at = "checking", !.rows = rows]
      /\ UNCHANGED <<place, stored, pages, wal, service, whole>>
  BY DEF ReadRows, ReportGoes
<1>2. rows \in BOOLEAN
  BY StatusKnown, ContentTypes DEF Contents
<1>3. /\ report' \in ReportRecords /\ report'.at = "checking" /\ report'.rows = rows
      /\ report'.meta = report.meta /\ report'.opened = report.opened /\ report'.status = report.status
      /\ report'.live = report.live /\ report'.overtaken = report.overtaken
  <2> HIDE DEF rows
  <2> QED
    BY <1>1, <1>2, StatusKnown DEF ReportRecords, ReportPlaces
<1>4. /\ ReportSound(report) /\ ~report.live /\ seen \subseteq seen'
  BY <1>1, <1>3, TruthIsSeen DEF StatusInv, ReportSound, LiveSound
<1>5. ~report.overtaken /\ wal = "none" =>
         /\ report.opened \in 1..2 /\ report.rows = rows
         /\ report.meta = IF report.opened = 2 THEN Foreign.meta ELSE stored.meta
         /\ rows = IF report.opened = 2 THEN Foreign.rows ELSE stored.rows
         /\ ShowsReady(report) => <<"ready", report.meta.sig>> \in seen
  BY <1>1, <1>4, StatusKnown DEF ReportSound, ImmutableSound, StoredSound
<1> HIDE DEF rows
<1>6. ReportSound(report)'
  BY <1>1, <1>3, <1>4, <1>5 DEF ReportSound, LiveSound, ImmutableSound, ShowsReady
<1> QED
  BY <1>1, <1>3, <1>6, ReaderStep

LEMMA LastLookKeeps == StatusInv /\ StatusNext /\ LastLook => StatusInv'
<1> SUFFICES ASSUME StatusInv, StatusNext, LastLook PROVE StatusInv'
  OBVIOUS
<1>1. CASE ReportGoes(Refused)
  BY <1>1, RefusedKeeps DEF LastLook
<1>2. CASE SidecarsQuiet /\ ReportGoes([report EXCEPT !.at = "read", !.status = "ok"])
  <2>1. /\ report' \in ReportRecords /\ report'.at = "read" /\ report'.status = "ok"
        /\ report'.meta = report.meta /\ report'.rows = report.rows
        /\ report'.live = report.live /\ report'.overtaken = report.overtaken
        /\ UNCHANGED <<place, stored, pages, wal, service, whole>>
    BY <1>2, StatusKnown DEF ReportGoes, ReportRecords, ReportPlaces
  <2>2. /\ ReportSound(report) /\ report.at = "checking" /\ seen \subseteq seen'
        /\ report.live \/ wal = "none"
    BY <1>2, <2>1, TruthIsSeen DEF StatusInv, LastLook, SidecarsQuiet
  <2>3. ReportSound(report)'
    BY <2>1, <2>2 DEF ReportSound, LiveSound, ImmutableSound, ShowsReady
  <2> QED
    BY <2>1, <2>3, ReaderStep
<1> QED
  BY <1>1, <1>2 DEF LastLook

(* What a report may claim, by what it read and by what the service remembers. *)
Supported(c) ==
    \/ c = <<"ready", report.meta.sig>> /\ report.status = "ok" /\ ShowsReady(report)
    \/ /\ c = <<"kept", report.meta.sig>> /\ report.status = "ok" /\ report.live
       /\ ShowsReady(report) \/ (service.available /\ service.resolved = report.meta.sig)
    \/ c = <<"missing", 0>> /\ report.status = "missing"

LEMMA ClaimsSupported == \A c \in Claims : Supported(c)
<1>1. /\ HealthState = "ready" => report.status = "ok" /\ ShowsReady(report)
      /\ InspectionAvailable => report.status = "ok" /\ ShowsReady(report)
  BY DEF HealthState, InspectionAvailable, PersistedReady, Readable, ShowsReady
<1>2. ProbeAvailable => report.status = "ok" /\ (ShowsReady(report) \/
                            (service.available /\ service.resolved = report.meta.sig))
  BY DEF ProbeAvailable, PersistedReady, Readable, ShowsReady
<1>3. \A r : /\ HygieneLabel(r) = "compatible_ready" => report.status = "ok" /\ ShowsReady(report)
             /\ StoredAvailable(r) => report.status = "ok" /\ ShowsReady(report)
             /\ HygieneLabel(r) = "missing" => report.status = "missing"
  BY DEF HygieneLabel, StoredAvailable, PersistedReady, Readable, ShowsReady
<1>4. CASE report.live
  BY <1>1, <1>2, <1>4 DEF Claims, Supported
<1>5. CASE ~report.live
  BY <1>3, <1>5 DEF Claims, Supported
<1> QED
  BY <1>4, <1>5

LEMMA MakeReportKeeps == StatusInv /\ StatusNext /\ MakeReport => StatusInv'
<1> SUFFICES ASSUME StatusInv, StatusNext, MakeReport PROVE StatusInv'
  OBVIOUS
<1>1. /\ report.at = "read" /\ report' = [report EXCEPT !.at = "made", !.claims = Claims]
      /\ UNCHANGED <<place, stored, pages, wal, service, whole>> /\ ReportSound(report)
  BY DEF MakeReport, ReportGoes, StatusInv
<1>2. Claims \in ClaimsMade
  <2>1. report.meta.sig \in Signatures /\ 0 \in Signatures
    BY StatusKnown DEF ReportRecords, Metas, Signatures
  <2> QED
    BY <2>1, ClaimsSupported DEF Supported, ClaimsMade
<1>3. report.live \/ ~report.overtaken => Claims \subseteq seen
  BY <1>1, ClaimsSupported DEF Supported, ReportSound, LiveSound, ImmutableSound
<1>4. /\ report' \in ReportRecords /\ report'.at = "made" /\ report'.status = report.status
      /\ report'.live = report.live /\ report'.overtaken = report.overtaken
      /\ report'.claims = Claims
  BY <1>1, <1>2, StatusKnown DEF ReportRecords, ReportPlaces
<1>5. seen \subseteq seen'
  BY <1>1, <1>4, TruthIsSeen
<1>6. ReportSound(report)'
  BY <1>1, <1>3, <1>4, <1>5 DEF ReportSound, LiveSound, ImmutableSound
<1> QED
  BY <1>1, <1>4, <1>6, ReaderStep

LEMMA StatusStepKeeps == StatusInv /\ [StatusNext]_statusVars => StatusInv'
<1>1. StatusInv /\ UNCHANGED statusVars => StatusInv'
  BY DEF StatusInv, StatusTyped, StoredSound, ReportSound, LiveSound, ImmutableSound, ShowsReady, statusVars
<1>2. StatusInv /\ StatusNext => StatusInv'
  <2> SUFFICES ASSUME StatusInv, StatusNext PROVE StatusInv'
    OBVIOUS
  <2>1. StatusStep
    BY DEF StatusNext
  <2> QED
    BY <2>1, ServiceKeeps, OpenKeeps, PrepareIndexKeeps, InitializeStoredKeeps, RebuildKeeps, SynchronizeKeeps,
       FileKeeps, CloseKeeps, CrashKeeps, BeginReportKeeps, FirstLookKeeps, ReadMetaKeeps, ReadRowsKeeps,
       LastLookKeeps, MakeReportKeeps, EndReportKeeps DEF StatusStep
<1> QED
  BY <1>1, <1>2

(* Whatever the writer, crashes and the operator do between the looks of a
   read, the store is sound, the service remembers nothing that is not so, and
   what the read holds was true at some moment of it. *)
THEOREM StatusInvariance == StatusSpec => []StatusInv
<1> QED
  BY StatusInitially, StatusStepKeeps, PTL DEF StatusSpec

(* A report that an index is ready or searchable, or that none exists, was true
   of this reader's own index at some moment of the call; an immutable read
   owes this unless a writer came and went within it. *)
THEOREM ReportsAreHonest == StatusSpec => []ReportsHonest
<1>1. StatusInv => ReportsHonest
  BY DEF StatusInv, ReportSound, ReportsHonest
<1> QED
  BY <1>1, StatusInvariance, PTL
=============================================================================

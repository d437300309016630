------------------------------- MODULE SyncOwner -------------------------------
(***************************************************************************)
(* The synchronization owner of one space (services/semantic_search.py,    *)
(* services/semantic_sync.py and the metadata of repositories/semantic.py):*)
(* begin_sync reserves a continuation, sync_step runs one bounded turn of  *)
(* it, cancel_sync abandons it, close_synchronization fences the owner     *)
(* from another thread.  The store commits batch by batch and outlives a   *)
(* crash; everything else does not.                                        *)
(*                                                                         *)
(* A row of the store is "current" or "old" against the note it was read   *)
(* from.  An unchanged modification time and size is taken to mean an      *)
(* unchanged note, as the code does.                                       *)
(***************************************************************************)
EXTENDS Naturals, FiniteSets

CONSTANTS
    SyncNotes,        \* paths, in the order of their sort key: a set of naturals
    IndexBatch,       \* index_batch_size
    MaxVaultChanges,  \* bound: changes of the vault
    MaxRestarts       \* bound: crashes and restarts

ASSUME SyncAssumption ==
    /\ SyncNotes \subseteq Nat /\ IsFiniteSet(SyncNotes)
    /\ IndexBatch \in Nat \ {0} /\ MaxVaultChanges \in Nat /\ MaxRestarts \in Nat

VARIABLES
    present,   \* the notes of the vault
    store,     \* [row, state, model]: notes, index_state and index_signature
    memory,    \* [model, initialized, available, required]: the owner's fields
    work,      \* _active_sync
    worker,    \* [at, mode]: the thread that begins and steps
    closer,    \* close_synchronization, in another thread
    past       \* [changes, restarts, late, since, skipped, complete]: history

syncVars == <<present, store, memory, work, worker, closer, past>>

NoWork == [full |-> FALSE, phase |-> "none", seen |-> {}, gone |-> {}, todo |-> {},
           handle |-> "none"]
FreshMemory(model) == [model |-> model, initialized |-> FALSE, available |-> FALSE, required |-> FALSE]
IdleWorker == [at |-> "idle", full |-> FALSE, rebuild |-> FALSE, paths |-> {}]

SyncInit ==
    /\ present = {} /\ store = [row |-> [n \in SyncNotes |-> "none"], state |-> "none", model |-> 1]
    /\ memory = FreshMemory(1) /\ work = NoWork /\ worker = IdleWorker /\ closer = "none"
    /\ past = [changes |-> 0, restarts |-> 0, late |-> SyncNotes, since |-> SyncNotes,
               skipped |-> {}, complete |-> FALSE]

(* The repository's transactions. *)
ResetStore(state) == [row |-> [n \in SyncNotes |-> "none"], state |-> state, model |-> memory.model]
SignatureChanged == store.model # memory.model
RowsAfter(read, deleted) ==
    [n \in SyncNotes |-> IF n \in read THEN "current" ELSE IF n \in deleted THEN "none" ELSE store.row[n]]
WithState(state) == [store EXCEPT !.state = state]

Owed(n) == IF n \in present THEN store.row[n] # "current" ELSE store.row[n] # "none"

-----------------------------------------------------------------------------
(* The vault, by other programs.                                           *)

ChangeNote(n) ==
    /\ past.changes < MaxVaultChanges
    /\ present' \in {present \cup {n}, present \ {n}} /\ (n \notin present => n \in present')
    /\ store' = [store EXCEPT !.row[n] = IF @ = "none" THEN @ ELSE "old"]
    /\ past' = [past EXCEPT !.changes = @ + 1, !.late = @ \cup {n}, !.since = @ \cup {n}]
    /\ UNCHANGED <<memory, work, worker, closer>>

-----------------------------------------------------------------------------
(* begin_sync and _prepare_sync.  Each commit is a step of its own; the    *)
(* close fence is looked at before each of them.                           *)

Fenced == closer # "none"

BeginSync(full, rebuild, paths) ==
    /\ worker.at = "idle" /\ ~Fenced /\ work.handle # "incomplete"
    /\ full \/ paths # {}
    /\ rebuild => full
    /\ worker' = [at |-> "disposing", full |-> full, rebuild |-> rebuild, paths |-> paths]
    /\ UNCHANGED <<present, store, memory, work, closer, past>>

(* Terminal work is disposed of first; if its workspace will not go, nothing begins. *)
DisposeBefore ==
    /\ worker.at = "disposing"
    /\ \/ work' = NoWork /\ worker' = [worker EXCEPT !.at = IF worker.rebuild THEN "resetting" ELSE "preparing"]
       \/ work # NoWork /\ work' = work /\ worker' = IdleWorker
    /\ UNCHANGED <<present, store, memory, closer, past>>

Abandoned == worker' = IdleWorker /\ UNCHANGED <<store, memory, work, past>>

(* rebuild: availability goes before the rows do. *)
ResetIndex ==
    /\ worker.at = "resetting"
    /\ IF Fenced THEN Abandoned
       ELSE /\ store' = ResetStore("uninitialized")
            /\ memory' = [memory EXCEPT !.initialized = TRUE, !.available = FALSE, !.required = TRUE]
            /\ past' = [past EXCEPT !.complete = FALSE, !.skipped = {}]
            /\ worker' = [worker EXCEPT !.at = "preparing"]
            /\ UNCHANGED work
    /\ UNCHANGED <<present, closer>>

RecoveredAsStored(state) == IF state = "indexing" THEN "ready" ELSE state

(* _initialize_state: an interrupted synchronization is an error, another
   model's rows are dropped. *)
Recovered(state) ==
    CASE state = "none" -> IF \E n \in SyncNotes : store.row[n] # "none" THEN "ready" ELSE "uninitialized"
      [] state = "indexing" -> "error"
      [] OTHER -> state

InitializeState ==
    /\ worker.at = "preparing"
    /\ IF Fenced THEN Abandoned
       ELSE /\ IF memory.initialized THEN UNCHANGED <<store, past>>
               ELSE IF SignatureChanged
               THEN /\ store' = ResetStore("uninitialized")
                    /\ past' = [past EXCEPT !.complete = FALSE, !.skipped = {}]
               ELSE /\ store' = WithState(Recovered(store.state))
                    /\ UNCHANGED past
            /\ memory' = [memory EXCEPT !.initialized = TRUE,
                                       !.available = @ \/ store'.state = "ready"]
            /\ worker' = [worker EXCEPT !.at = "reserving"]
            /\ UNCHANGED work
    /\ UNCHANGED <<present, closer>>

(* Targeted work is enough only on top of an index that was reconciled. *)
NeedsFull ==
    worker.full \/ memory.required \/ (~memory.available /\ store.state # "ready")

Reserve ==
    /\ worker.at = "reserving"
    /\ IF Fenced THEN Abandoned
       ELSE /\ work' = [full |-> NeedsFull, phase |-> IF NeedsFull THEN "discover" ELSE "targets",
                        seen |-> {}, gone |-> {}, handle |-> "incomplete",
                        todo |-> IF NeedsFull THEN SyncNotes ELSE worker.paths]
            /\ store' = WithState("indexing")
            /\ memory' = [memory EXCEPT !.required = @ \/ NeedsFull]
            /\ past' = IF NeedsFull THEN [past EXCEPT !.since = {}] ELSE past
            /\ worker' = IdleWorker
    /\ UNCHANGED <<present, closer>>

-----------------------------------------------------------------------------
(* sync_step: one phase turn under the turn lock.                          *)

(* A turn that the fence overtakes may still reach its commit. *)
Stepping(phase) == worker.at = "stepping" /\ work.phase = phase

BeginStep ==
    /\ worker.at = "idle" /\ ~Fenced /\ work.handle = "incomplete"
    /\ worker' = [worker EXCEPT !.at = "stepping"]
    /\ UNCHANGED <<present, store, memory, work, closer, past>>

Turned(w) == work' = w /\ worker' = [worker EXCEPT !.at = "idle"]

(* discover and admit_targets look at one path per unit of budget; a path that
   vanished is only provisional evidence for targeted work. *)
Look(n) ==
    /\ (Stepping("discover") \/ Stepping("targets")) /\ n \in work.todo
    /\ Turned([work EXCEPT !.todo = @ \ {n},
                           !.seen = IF n \in present THEN @ \cup {n} ELSE @,
                           !.gone = IF n \in present \/ work.full THEN @ ELSE @ \cup {n}])
    /\ UNCHANGED <<present, store, memory, closer, past>>

Scanned ==
    /\ (Stepping("discover") \/ Stepping("targets")) /\ work.todo = {}
    /\ Turned([work EXCEPT !.phase = "process", !.todo = work.seen \cup work.gone])
    /\ UNCHANGED <<present, store, memory, closer, past>>

(* The next IndexBatch notes in the order of their sort keys. *)
FirstOf(S) == {s \in S : Cardinality({t \in S : t < s}) < IndexBatch}

(* _index_files: what of a batch it reads; a full scan skips what it cannot read. *)
MayRead(batch) == {read \in SUBSET (batch \cap present) : work.full \/ read = batch \cap present}

(* One transaction: each note is checked again on use, and a note that left
   since the scan fails the batch. *)
Process ==
    /\ Stepping("process") /\ work.todo # {}
    /\ LET batch == FirstOf(work.todo)
       IN /\ batch \cap work.seen \subseteq present
          /\ \E read \in MayRead(batch) :
                /\ store' = [store EXCEPT !.row = RowsAfter(read, batch \ present)]
                /\ past' = [past EXCEPT !.skipped = (@ \ batch) \cup ((batch \cap present) \ read)]
          /\ Turned([work EXCEPT !.todo = @ \ batch])
    /\ UNCHANGED <<present, memory, closer>>

Processed ==
    /\ Stepping("process") /\ work.todo = {}
    /\ Turned([work EXCEPT !.phase = IF work.full THEN "stale" ELSE "finish",
                           !.todo = IF work.full THEN SyncNotes ELSE {}])
    /\ UNCHANGED <<present, store, memory, closer, past>>

(* reconcile: rows of paths the scan did not see. *)
Stored == {n \in work.todo : store.row[n] # "none"}
StaleBatch == FirstOf(Stored)
Reconcile ==
    /\ Stepping("stale")
    /\ IF Stored = {} THEN store' = store /\ Turned([work EXCEPT !.phase = "finish"])
       ELSE /\ store' = [store EXCEPT !.row = RowsAfter({}, StaleBatch \ work.seen)]
            /\ Turned([work EXCEPT !.todo = {n \in @ : \A b \in StaleBatch : n > b}])
    /\ UNCHANGED <<present, memory, closer, past>>

(* The workspace is disposed of, then one commit declares success. *)
DisposeWorkspace ==
    /\ Stepping("finish")
    /\ work' = [work EXCEPT !.phase = "disposed"]
    /\ UNCHANGED <<present, store, memory, worker, closer, past>>

Complete ==
    /\ Stepping("disposed")
    /\ store' = WithState("ready")
    /\ memory' = [memory EXCEPT !.available = TRUE, !.required = @ /\ ~work.full]
    /\ past' = IF work.full THEN [past EXCEPT !.late = past.since, !.complete = TRUE] ELSE past
    /\ work' = NoWork /\ worker' = IdleWorker
    /\ UNCHANGED <<present, closer>>

(* _fail_sync: best effort to store the error, then the handle is terminal;
   its workspace goes now or is kept for the next begin or close. *)
Terminated(by) ==
    /\ store' \in {store, WithState("error")}
    /\ work' \in {NoWork, [work EXCEPT !.handle = by]}

(* An error of any phase, the owner's cancellation or the close fence. *)
StepFails ==
    /\ worker.at = "stepping"
    /\ Terminated("failed")
    /\ worker' = IdleWorker
    /\ UNCHANGED <<present, memory, closer, past>>

CancelSync ==
    /\ worker.at = "idle" /\ work.handle = "incomplete" /\ ~Fenced
    /\ Terminated("cancelled")
    /\ UNCHANGED <<present, memory, worker, closer, past>>

-----------------------------------------------------------------------------
(* close_synchronization: fence, drain admitted operations, discard the rest. *)

CloseFence ==
    /\ closer = "none" /\ closer' = "draining"
    /\ UNCHANGED <<present, store, memory, work, worker, past>>

CloseWithoutDraining ==
    /\ closer = "draining" /\ closer' = "closed"
    /\ UNCHANGED <<present, store, memory, work, worker, past>>

CloseDrained ==
    /\ closer = "draining" /\ worker.at = "idle"
    /\ IF work.handle = "incomplete" THEN Terminated("cancelled")
       ELSE store' = store /\ work' \in {work, NoWork}
    /\ closer' = "closed"
    /\ UNCHANGED <<present, memory, worker, past>>

-----------------------------------------------------------------------------
(* is_search_available, from a reader's thread. *)
SearchAvailable ==
    /\ ~memory.available /\ store.state = "ready" /\ store.model = memory.model
    /\ memory' = [memory EXCEPT !.available = TRUE]
    /\ UNCHANGED <<present, store, work, worker, closer, past>>

(* A crash, or an orderly restart; the next process may load another model. *)
Restart ==
    /\ past.restarts < MaxRestarts
    /\ \E model \in 1..2 : memory' = FreshMemory(model)
    /\ work' = NoWork /\ worker' = IdleWorker /\ closer' = "none"
    /\ past' = [past EXCEPT !.restarts = @ + 1]
    /\ UNCHANGED <<present, store>>

SyncNext ==
    \/ \E n \in SyncNotes : ChangeNote(n) \/ Look(n)
    \/ \E paths \in SUBSET SyncNotes, full, rebuild \in BOOLEAN : BeginSync(full, rebuild, paths)
    \/ DisposeBefore \/ ResetIndex \/ InitializeState \/ Reserve
    \/ BeginStep \/ Scanned \/ Process \/ Processed \/ Reconcile \/ DisposeWorkspace \/ Complete
    \/ StepFails \/ CancelSync \/ CloseFence \/ CloseDrained \/ SearchAvailable \/ Restart

SyncSpec == SyncInit /\ [][SyncNext]_syncVars

-----------------------------------------------------------------------------
(* Whatever was interrupted, cancelled or repeated: a store that says "ready"
   owes only notes that changed after the last completed full scan began, or
   that a full scan could not read; and semantic search is offered only over
   rows that a full scan of this index once completed. *)
StoredStateHonest ==
    /\ store.state = "ready" =>
          \A n \in SyncNotes : Owed(n) => n \in past.late \cup past.skipped
    /\ memory.available => past.complete

(* Once close_synchronization has returned, no thread writes to the store:
   only the vault can make its rows old. *)
ClosedMeansQuiet ==
    [][closer = "closed" /\ closer' = "closed" =>
          /\ store'.state = store.state
          /\ \A n \in SyncNotes : store'.row[n] \in {store.row[n], "old"}]_syncVars
=============================================================================

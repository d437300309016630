-------------------------- MODULE BackgroundIndexer --------------------------
(***************************************************************************)
(* app/services/indexer.py: BackgroundSemanticIndexer, one in-process      *)
(* synchronization worker fed by request threads and the watcher.          *)
(*                                                                         *)
(* Every block the code runs under self._lock is one action.  Between two  *)
(* such blocks anything may happen: a write, an enqueue, the end of the    *)
(* job, its completion callback, shutdown, or the death of the process.    *)
(*                                                                         *)
(* Only the Future held in self._future is represented: _record_completion *)
(* of any other Future finds "self._future is future" false and returns,   *)
(* which is a stuttering step.                                             *)
(***************************************************************************)
EXTENDS Integers

CONSTANTS Paths,         \* vault-relative note paths
          MaxVersion,    \* bound: how often one note is written in a model
          MaxRestarts    \* bound: process deaths in a model

ASSUME BackgroundIndexerAssumption ==
    /\ MaxVersion \in Nat
    /\ MaxRestarts \in Nat

VARIABLES
    vault,           \* version of each note on disk
    index,           \* version each committed index row was derived from
    unqueued,        \* notes committed, enqueue_paths not yet called for them
    pending,         \* self._pending_paths
    fullRequested,   \* self._full_sync_requested
    fullRequired,    \* self._full_sync_required
    followUp,        \* self._follow_up_requested
    closed,          \* self._closed
    cancel,          \* self._cancel_event.is_set()
    lastError,       \* self._last_error is not None
    future,          \* self._future: absent, or where it stands
    callback,        \* whether _record_completion of self._future was attached, ran
    op,              \* where the worker stands inside _run
    paths,           \* the local "paths" of _run: claimed by the current job
    todo,            \* notes the current job has still to read
    batch,           \* notes read into the open index transaction
    snap,            \* the version read for each note of the batch
    started,         \* lifespan has called start()
    stopped,         \* shutdown() has returned
    restarts,        \* process deaths so far
    hasSyncPaths     \* self._sync_paths was supplied to the constructor

queueVars == <<unqueued, pending, fullRequested, fullRequired, followUp>>
futureVars == <<future, callback, lastError, cancel>>
jobVars == <<op, paths, todo, batch, snap>>
lifeVars == <<closed, started, stopped, restarts, hasSyncPaths>>
vars == <<vault, index, queueVars, futureVars, jobVars, lifeVars>>

Version == 0..MaxVersion
FutureState == {"none", "submitted", "running", "ok", "error"}
RunState == {"idle", "claim", "full", "targeted", "returning", "raising"}

TypeOK ==
    /\ vault \in [Paths -> Version]
    /\ index \in [Paths -> Version]
    /\ unqueued \in SUBSET Paths
    /\ pending \in SUBSET Paths
    /\ fullRequested \in BOOLEAN
    /\ fullRequired \in BOOLEAN
    /\ followUp \in BOOLEAN
    /\ closed \in BOOLEAN
    /\ cancel \in BOOLEAN
    /\ lastError \in BOOLEAN
    /\ future \in FutureState
    /\ callback \in {"unattached", "attached", "delivered"}
    /\ op \in RunState
    /\ paths \in SUBSET Paths
    /\ todo \in SUBSET Paths
    /\ batch \in SUBSET Paths
    /\ snap \in [Paths -> Version]
    /\ started \in BOOLEAN
    /\ stopped \in BOOLEAN
    /\ restarts \in 0..MaxRestarts
    /\ hasSyncPaths \in BOOLEAN

Done == future \in {"ok", "error"}            \* self._future.done()
Debt == fullRequested \/ fullRequired \/ pending # {}
Working == op \in {"full", "targeted"}
-----------------------------------------------------------------------------
(* A new process: the constructor's field values, nothing claimed.         *)
FreshProcess ==
    /\ unqueued = {} /\ pending = {} /\ paths = {} /\ todo = {} /\ batch = {}
    /\ fullRequested = FALSE /\ fullRequired = FALSE /\ followUp = FALSE
    /\ closed = FALSE /\ cancel = FALSE /\ lastError = FALSE
    /\ future = "none" /\ callback = "delivered" /\ op = "idle"
    /\ started = FALSE /\ stopped = FALSE

Init ==
    /\ vault = [p \in Paths |-> 0]
    /\ index = [p \in Paths |-> 0]
    /\ FreshProcess
    /\ snap = [p \in Paths |-> 0]
    /\ restarts = 0
    /\ hasSyncPaths \in BOOLEAN

(* The process dies, or is stopped and started again: memory and the open  *)
(* transaction are gone, the vault and the committed index rows are not.   *)
Restart ==
    /\ restarts < MaxRestarts
    /\ restarts' = restarts + 1
    /\ unqueued' = {} /\ pending' = {} /\ paths' = {} /\ todo' = {} /\ batch' = {}
    /\ fullRequested' = FALSE /\ fullRequired' = FALSE /\ followUp' = FALSE
    /\ closed' = FALSE /\ cancel' = FALSE /\ lastError' = FALSE
    /\ future' = "none" /\ callback' = "delivered" /\ op' = "idle"
    /\ started' = FALSE /\ stopped' = FALSE
    /\ UNCHANGED <<vault, index, snap, hasSyncPaths>>
-----------------------------------------------------------------------------
(* A note write commits.  VaultService and editors are outside this        *)
(* component; the writer calls enqueue_paths afterwards (note_writes.py).  *)
Write(p) ==
    /\ vault[p] < MaxVersion
    /\ vault' = [vault EXCEPT ![p] = @ + 1]
    /\ unqueued' = unqueued \cup {p}
    /\ UNCHANGED <<index, pending, fullRequested, fullRequired, followUp,
                   futureVars, jobVars, lifeVars>>

(* _submit_locked: the executor accepts the job, or raises.                *)
SubmitLocked ==
    /\ cancel' = FALSE
    /\ \/ /\ future' = "submitted"
          /\ callback' = "unattached"
          /\ lastError' = FALSE
       \/ /\ future' = "none"
          /\ callback' = "delivered"
          /\ lastError' = TRUE

(* start(): returns False and changes nothing while a job is running.      *)
Start ==
    /\ ~closed
    /\ future = "none" \/ Done
    /\ started' = TRUE
    /\ fullRequested' = TRUE
    /\ SubmitLocked
    /\ UNCHANGED <<vault, index, unqueued, pending, fullRequired, followUp,
                   jobVars, closed, stopped, restarts, hasSyncPaths>>

(* enqueue_paths(ps): one write's path, both ends of a rename, or a        *)
(* duplicate of something already queued.                                  *)
EnqueuePaths(ps) ==
    /\ started
    /\ unqueued' = unqueued \ ps
    /\ \/ /\ closed
          /\ UNCHANGED <<pending, followUp, futureVars>>
       \/ /\ ~closed
          /\ pending' = pending \cup ps
          /\ \/ /\ future \in {"submitted", "running"}
                /\ followUp' = TRUE
                /\ UNCHANGED futureVars
             \/ /\ future = "none" \/ Done
                /\ SubmitLocked
                /\ UNCHANGED followUp
    /\ UNCHANGED <<vault, index, fullRequested, fullRequired, jobVars, lifeVars>>

(* future.add_done_callback(self._record_completion), after the lock.      *)
AttachCallback ==
    /\ callback = "unattached"
    /\ callback' = "attached"
    /\ UNCHANGED <<vault, index, queueVars, future, lastError, cancel, jobVars, lifeVars>>

(* _record_completion for a job that raised: only newer work is retried.   *)
RecordFailure ==
    /\ future = "error" /\ callback = "attached"
    /\ \/ /\ ~closed /\ followUp
          /\ SubmitLocked
       \/ /\ closed \/ ~followUp
          /\ callback' = "delivered"
          /\ lastError' = TRUE
          /\ UNCHANGED <<future, cancel>>
    /\ UNCHANGED <<vault, index, queueVars, jobVars, lifeVars>>

(* _record_completion for a job that returned: work that arrived after its *)
(* last look at the queue is submitted.                                    *)
RecordSuccess ==
    /\ future = "ok" /\ callback = "attached"
    /\ \/ /\ ~closed /\ Debt
          /\ SubmitLocked
       \/ /\ closed \/ ~Debt
          /\ callback' = "delivered"
          /\ UNCHANGED <<future, lastError, cancel>>
    /\ UNCHANGED <<vault, index, queueVars, jobVars, lifeVars>>

(* wait(): a thread that saw the job return submits what is left; a job    *)
(* that raised makes wait() raise.                                         *)
WaitResubmits ==
    /\ future = "ok"
    /\ ~closed /\ Debt
    /\ SubmitLocked
    /\ UNCHANGED <<vault, index, queueVars, jobVars, lifeVars>>
-----------------------------------------------------------------------------
(* The executor's only thread picks the submitted job up.                  *)
RunBegins ==
    /\ future = "submitted" /\ op = "idle"
    /\ future' = "running"
    /\ op' = "claim"
    /\ UNCHANGED <<vault, index, queueVars, callback, lastError, cancel,
                   paths, todo, batch, snap, lifeVars>>

\* Mutant: the full debt is dropped when it is claimed, not when it is paid.
ClaimFullForgetsDebt ==
    /\ op = "claim" /\ ~closed
    /\ \/ fullRequested \/ fullRequired
       \/ pending # {} /\ ~hasSyncPaths
    /\ fullRequested' = FALSE
    /\ fullRequired' = FALSE
    /\ op' = "full" /\ todo' = Paths
    /\ paths' = pending /\ pending' = {} /\ followUp' = FALSE
    /\ UNCHANGED <<vault, index, unqueued, futureVars, batch, snap, lifeVars>>

\* Mutant: claiming leaves the follow-up flag set.
ClaimTargetedKeepsFollowUp ==
    /\ op = "claim" /\ ~closed
    /\ ~fullRequested /\ ~fullRequired
    /\ pending # {} /\ hasSyncPaths
    /\ op' = "targeted" /\ todo' = pending
    /\ paths' = pending /\ pending' = {}
    /\ UNCHANGED <<vault, index, unqueued, fullRequested, fullRequired, followUp,
                   futureVars, batch, snap, lifeVars>>

(* The head of the loop in _run: everything queued is claimed; a full      *)
(* synchronization owed has priority and absorbs the queued paths.         *)
ClaimFull ==
    /\ op = "claim" /\ ~closed
    /\ \/ fullRequested \/ fullRequired
       \/ pending # {} /\ ~hasSyncPaths
    /\ fullRequested' = FALSE
    /\ fullRequired' = TRUE
    /\ op' = "full" /\ todo' = Paths
    /\ paths' = pending /\ pending' = {} /\ followUp' = FALSE
    /\ UNCHANGED <<vault, index, unqueued, futureVars, batch, snap, lifeVars>>

ClaimTargeted ==
    /\ op = "claim" /\ ~closed
    /\ ~fullRequested /\ ~fullRequired
    /\ pending # {} /\ hasSyncPaths
    /\ op' = "targeted" /\ todo' = pending
    /\ paths' = pending /\ pending' = {} /\ followUp' = FALSE
    /\ UNCHANGED <<vault, index, unqueued, fullRequested, fullRequired,
                   futureVars, batch, snap, lifeVars>>

ClaimNothing ==
    /\ op = "claim"
    /\ closed \/ ~Debt
    /\ op' = "returning"
    /\ UNCHANGED <<vault, index, queueVars, futureVars,
                   paths, todo, batch, snap, lifeVars>>

(* The callables self._sync and self._sync_paths, as far as the queue can  *)
(* tell: notes are read one by one into a batch that commits as a whole.   *)
ReadNote(p) ==
    /\ Working /\ p \in todo
    /\ todo' = todo \ {p}
    /\ batch' = batch \cup {p}
    /\ snap' = [snap EXCEPT ![p] = vault[p]]
    /\ UNCHANGED <<vault, index, queueVars, futureVars, op, paths, lifeVars>>

CommitBatch ==
    /\ Working /\ batch # {}
    /\ index' = [p \in Paths |-> IF p \in batch THEN snap[p] ELSE index[p]]
    /\ batch' = {}
    /\ UNCHANGED <<vault, queueVars, futureVars, op, paths, todo, snap, lifeVars>>

JobSucceeds ==
    /\ Working /\ todo = {} /\ batch = {}
    /\ fullRequired' = (fullRequired /\ op # "full")
    /\ op' = "claim" /\ paths' = {}
    /\ UNCHANGED <<vault, index, unqueued, pending, fullRequested, followUp,
                   futureVars, todo, batch, snap, lifeVars>>

\* Mutant: the claimed paths are not returned.
JobFailsDroppingClaim ==
    /\ Working
    /\ op' = "raising" /\ paths' = {} /\ todo' = {} /\ batch' = {}
    /\ UNCHANGED <<vault, index, queueVars, futureVars, snap, lifeVars>>

(* The except branch of _run: cancellation, an unreadable note, a failing  *)
(* model or database.  The open batch rolls back, the claim is returned.   *)
JobFails ==
    /\ Working
    /\ pending' = IF closed THEN pending ELSE pending \cup paths
    /\ op' = "raising" /\ paths' = {} /\ todo' = {} /\ batch' = {}
    /\ UNCHANGED <<vault, index, unqueued, fullRequested, fullRequired, followUp,
                   futureVars, snap, lifeVars>>

(* _run has returned or raised; the executor resolves the Future.          *)
RunEnds ==
    /\ op \in {"returning", "raising"}
    /\ future' = IF op = "returning" THEN "ok" ELSE "error"
    /\ op' = "idle"
    /\ UNCHANGED <<vault, index, queueVars, callback, lastError, cancel,
                   paths, todo, batch, snap, lifeVars>>
-----------------------------------------------------------------------------
(* shutdown(), the block under the lock.                                   *)
ShutdownRequested ==
    /\ started /\ ~closed
    /\ closed' = TRUE
    /\ cancel' = TRUE
    /\ fullRequested' = FALSE /\ followUp' = FALSE /\ pending' = {}
    /\ UNCHANGED <<vault, index, unqueued, fullRequired, future, callback, lastError,
                   jobVars, started, stopped, restarts, hasSyncPaths>>

(* Executor.shutdown(cancel_futures=True), or Future.cancel() when the     *)
(* executor is shared: a job not yet started never runs.                   *)
CancelSubmitted ==
    /\ closed /\ future = "submitted"
    /\ future' = "error"
    /\ UNCHANGED <<vault, index, queueVars, callback, lastError, cancel, jobVars, lifeVars>>

\* Mutant: shutdown() does not wait for the active job.
ShutdownReturnsEarly ==
    /\ closed /\ ~stopped
    /\ stopped' = TRUE
    /\ UNCHANGED <<vault, index, queueVars, futureVars, jobVars, closed, started, restarts, hasSyncPaths>>

(* shutdown() returns once the active job has ended.                       *)
ShutdownReturns ==
    /\ closed /\ ~stopped
    /\ future = "none" \/ Done
    /\ stopped' = TRUE
    /\ UNCHANGED <<vault, index, queueVars, futureVars, jobVars, closed, started, restarts, hasSyncPaths>>

WorkerStep ==
    \/ RunBegins \/ ClaimFull \/ ClaimTargeted \/ ClaimNothing
    \/ CommitBatch \/ JobSucceeds \/ RunEnds
    \/ \E p \in Paths : ReadNote(p)

CallbackStep == AttachCallback \/ RecordFailure \/ RecordSuccess

Next ==
    \/ \E p \in Paths : Write(p)
    \/ \E ps \in SUBSET Paths \ {{}} : EnqueuePaths(ps)
    \/ Start \/ WaitResubmits
    \/ WorkerStep \/ JobFails
    \/ CallbackStep
    \/ ShutdownRequested \/ CancelSubmitted \/ ShutdownReturns
    \/ Restart

Spec == Init /\ [][Next]_vars

(* Fairness the code provides: lifespan calls start(); a writer that has   *)
(* committed goes on to enqueue; the executor's thread, its callbacks and  *)
(* the thread inside shutdown() keep running.  Nothing makes a job fail,   *)
(* a client write or a process die.                                        *)
Fairness ==
    /\ WF_vars(~started /\ Start)
    /\ \A p \in Paths : WF_vars(p \in unqueued /\ EnqueuePaths({p}))
    /\ WF_vars(WorkerStep)
    /\ WF_vars(CallbackStep)
    /\ WF_vars(CancelSubmitted)
    /\ WF_vars(ShutdownReturns)

FairSpec == Spec /\ Fairness
-----------------------------------------------------------------------------
(* Properties.                                                             *)

Stale(p) == index[p] # vault[p]

\* Someone still holds the newest version of p, or the duty to read it: the
\* writer, the queue, the running job's worklist, or its open transaction.
Covered(p) ==
    \/ p \in unqueued \cup pending \cup todo
    \/ p \in batch /\ snap[p] = vault[p]

\* No committed note write is forgotten.  While the indexer is open, every
\* note whose row is out of date is held by somebody or a full
\* synchronization is owed, through claims, failures that return them,
\* completion callbacks and submissions that the executor refuses.
NoLostWrite ==
    started /\ ~closed =>
        fullRequested \/ fullRequired \/ \A p \in Paths : Stale(p) => Covered(p)

\* Queued work never sits unattended in silence: when no job is submitted or
\* running and no completion callback is still to come, either nothing is owed
\* or last_error says why (the callback of _record_completion racing an
\* enqueue that arrived after _run's last look at the queue).
NoSilentStall ==
    ~closed /\ Debt /\ (future = "none" \/ (Done /\ callback = "delivered")) => lastError

\* shutdown()'s cancellation is never withdrawn: _submit_locked clears the
\* event, so no late callback, waiter or enqueue may submit once closed.
ShutdownCancelSticks == closed => cancel

\* The strengthening that is preserved by every step.  A full job covers every
\* stale note although the debt is recorded as paid only at its end; a targeted
\* job reads nothing it could not give back; versions read are never behind the
\* row they replace nor ahead of the note; the completion callback of an
\* unfinished job is still to come.
JobShape ==
    /\ future = "running" <=> op # "idle"
    /\ ~Working => todo = {} /\ batch = {} /\ paths = {}
    /\ op = "full" => fullRequired
    /\ op = "targeted" => todo \cup batch \subseteq paths
    /\ callback = "delivered" => future = "none" \/ Done

VersionOrder ==
    \A p \in Paths :
        /\ index[p] <= vault[p]
        /\ p \in batch => index[p] <= snap[p] /\ snap[p] <= vault[p]

FullCovers ==
    started /\ ~closed /\ op = "full" => \A p \in Paths : Stale(p) => Covered(p)

StoppedShape ==
    /\ closed \/ future # "none" => started
    /\ stopped => closed /\ (future = "none" \/ Done)

IndInv ==
    /\ TypeOK
    /\ JobShape
    /\ VersionOrder
    /\ FullCovers
    /\ NoLostWrite
    /\ NoSilentStall
    /\ ShutdownCancelSticks
    /\ StoppedShape

\* The indexer implements the promise of MarkdownIndex: rows only move forward
\* and never past the note, and nothing is committed before start() or once
\* shutdown() has returned.
Promise == INSTANCE MarkdownIndex WITH serving <- started /\ ~stopped

IndexPromise == Promise!AbsSpec

\* If jobs stop failing, the index catches up with the vault again and again
\* for as long as the process runs, unless the executor refuses the work.
Converges ==
    <>[][~JobFails]_vars =>
        []<>(~started \/ closed \/ lastError \/ index = vault)

\* A step some caller asked for, and not also the completion callback's own.
Requested ==
    /\ Start \/ WaitResubmits \/ \E ps \in SUBSET Paths : EnqueuePaths(ps)
    /\ ~CallbackStep

\* A failing job does not retry itself: once callers stop asking, the worker
\* comes to rest even if every job fails (only newer work sets the follow-up
\* flag, and a claim clears it).
ComesToRest ==
    <>[][~Requested]_vars => <>[](future = "none" \/ Done)

(* No committed note write is forgotten and none rests in silence: each    *)
(* note whose row is out of date is held by somebody or covered by a full  *)
(* synchronization, and what is owed has a job, a callback still to come   *)
(* or an error that says why not.                                          *)
WritesAccounted == NoLostWrite /\ NoSilentStall
=============================================================================

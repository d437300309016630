-------------------------- MODULE SemanticScheduler --------------------------
(***************************************************************************)
(* app/services/semantic_scheduler.py: SharedSemanticScheduler, one worker *)
(* thread that gives each knowledge space (owner) one bounded step of      *)
(* synchronization per turn, in sorted round-robin order.                  *)
(*                                                                         *)
(* Every block under self._condition is one action; between two blocks of  *)
(* _turn anything may happen.  A path is reserved in three stages          *)
(* (deferred, pending, inflight) that share one count.  The debounce       *)
(* revision is compared only with a value read a moment before, so it is   *)
(* the flag "crossed" of the probe in flight.  Coverage evidence is left   *)
(* to WatcherCoverage; here a probe may be refused for it at any time.     *)
(***************************************************************************)
EXTENDS Integers, FiniteSets, FiniteSetsExt

CONSTANTS Owners,        \* space ids, as numbers: their sorting order
          Paths,         \* canonical note paths within a space
          NoOwner, NoPath,
          GlobalLimit,   \* GLOBAL_TARGET_LIMIT
          SpaceLimit     \* SPACE_TARGET_LIMIT

ASSUME SemanticSchedulerAssumption ==
    /\ Owners \subseteq Nat /\ NoOwner \notin Owners /\ NoPath \notin Paths
    /\ GlobalLimit \in Nat /\ SpaceLimit \in Nat

VARIABLES
    pending, inflight, deferred,        \* per owner: the three stages
    probe, crossed,                     \* per owner: the path a _debounce call is
                                        \* validating, and whether the revision moved
    total,                              \* self._total
    fullNeeded, fullAgain, fullActive,  \* per owner
    continuation,                       \* per owner: a yielded or running job exists
    running, paused, wakePending, cancel,
    cleanupFailed, cleanupComplete,
    lastId,                             \* self._last_id
    cur,                                \* the owner whose turn it is, or NoOwner
    turn,                               \* where _turn stands
    watching,                           \* watcher token: "off", "on", "fenced"
    closed,
    worker,                             \* "staged", "live", "closing", "done"
    shutdown,                           \* "no", "first", "retry", "retryable", "complete"
    passLeft,                           \* owners _close_owners has still to visit
    owed,                               \* per owner: paths accepted, not yet synchronized
    covered,                            \* per owner: owed paths the current job will pay
    trig,                               \* per owner: a wake-up came during the turn
    failedTurn,                         \* per owner: the last turn ended in failure
    ahead                               \* per owner: who was served while it waited

queueVars == <<pending, inflight, deferred, probe, crossed, total>>
fullVars == <<fullNeeded, fullAgain, fullActive, continuation>>
wakeVars == <<paused, wakePending, cancel, trig>>
workerVars == <<running, lastId, cur, turn, failedTurn, ahead>>
cleanupVars == <<cleanupFailed, cleanupComplete, worker, shutdown, passLeft>>
debtVars == <<owed, covered>>
vars == <<queueVars, fullVars, wakeVars, workerVars, cleanupVars, debtVars, watching, closed>>

TypeOK ==
    /\ pending \in [Owners -> SUBSET Paths]
    /\ inflight \in [Owners -> SUBSET Paths]
    /\ deferred \in [Owners -> SUBSET Paths]
    /\ probe \in [Owners -> Paths \cup {NoPath}]
    /\ total \in Nat
    /\ \A f \in {crossed, fullNeeded, fullAgain, fullActive, continuation, running, paused,
                 wakePending, cancel, cleanupFailed, cleanupComplete, trig, failedTurn} :
         f \in [Owners -> BOOLEAN]
    /\ lastId \in Owners \cup {NoOwner}
    /\ cur \in Owners \cup {NoOwner}
    /\ turn \in {"none", "entered", "checked", "preempting", "beginning", "stepping", "raised",
                 "ending"}
    /\ watching \in {"off", "on", "fenced"}
    /\ closed \in BOOLEAN
    /\ worker \in {"staged", "live", "closing", "done"}
    /\ shutdown \in {"no", "first", "retry", "retryable", "complete"}
    /\ passLeft \subseteq Owners
    /\ owed \in [Owners -> SUBSET Paths]
    /\ covered \in [Owners -> SUBSET Paths]
    /\ ahead \in [Owners -> SUBSET Owners]

None == [o \in Owners |-> {}]
Nowhere == [o \in Owners |-> FALSE]

Init ==
    /\ pending = None /\ inflight = None /\ deferred = None /\ total = 0
    /\ probe = [o \in Owners |-> NoPath] /\ crossed = Nowhere
    /\ fullNeeded = Nowhere /\ fullAgain = Nowhere /\ fullActive = Nowhere /\ continuation = Nowhere
    /\ running = Nowhere /\ paused = Nowhere /\ wakePending = Nowhere /\ cancel = Nowhere
    /\ cleanupFailed = Nowhere /\ cleanupComplete = Nowhere
    /\ lastId = NoOwner /\ cur = NoOwner /\ turn = "none"
    /\ watching = "off" /\ closed = FALSE
    /\ worker = "staged" /\ shutdown = "no" /\ passLeft = {}
    /\ owed = None /\ covered = None
    /\ trig = Nowhere /\ failedTurn = Nowhere /\ ahead = None

Identities(o) == pending[o] \cup inflight[o] \cup deferred[o]

\* The reservations of all owners together, as pairs.
Reserved == {r \in Owners \X Paths : r[2] \in Identities(r[1])}

\* What gives up a reservation: only the in-flight paths of an owner, or only
\* those that are neither pending nor in flight, stay.
Claimed == {r \in Owners \X Paths : r[2] \in inflight[r[1]]}
Undelivered == {r \in Reserved : r[2] \notin pending[r[1]] \cup inflight[r[1]]}
-----------------------------------------------------------------------------
(* _request_full and _wake, the helpers every trigger uses.                *)
RequestFull(o) ==
    /\ fullNeeded' = [fullNeeded EXCEPT ![o] = TRUE]
    /\ fullAgain' = [fullAgain EXCEPT ![o] = @ \/ fullActive[o] \/ running[o]]
    /\ UNCHANGED <<fullActive, continuation>>

Wake(o) ==
    /\ wakePending' = [wakePending EXCEPT ![o] =
                          @ \/ running[o] \/ (cancel[o] /\ continuation[o])]
    /\ IF cancel[o] /\ (running[o] \/ continuation[o])
       THEN UNCHANGED <<cancel, paused>>
       ELSE /\ cancel' = [cancel EXCEPT ![o] = FALSE]
            /\ paused' = [paused EXCEPT ![o] = FALSE]
    /\ trig' = [trig EXCEPT ![o] = TRUE]

\* p is accepted as owed: the running job, if it read p already, does not pay.
Owe(o, p) ==
    /\ owed' = [owed EXCEPT ![o] = @ \cup {p}]
    /\ covered' = [covered EXCEPT ![o] = @ \ {p}]

\* _admit: FALSE when a new identity would exceed a limit.
Fits(o, p) ==
    p \in Identities(o) \/ (total < GlobalLimit /\ Cardinality(Identities(o)) < SpaceLimit)

Admitted(o, p) == total' = IF p \in Identities(o) THEN total ELSE total + 1

\* debounce_revision += 1
Cross(o) == crossed' = [crossed EXCEPT ![o] = probe[o] # NoPath]
-----------------------------------------------------------------------------
(* Triggers: request threads and the watcher.                              *)

\* enqueue() checks under the lock, after validating the path outside it.
Admitting == ~closed

\* enqueue(): a duplicate wakes, an overflow becomes full debt.
Enqueue(o, p) ==
    /\ Admitting
    /\ Wake(o) /\ Owe(o, p)
    /\ \/ /\ p \in pending[o]
          /\ UNCHANGED <<queueVars, fullVars>>
       \/ /\ p \notin pending[o] /\ ~Fits(o, p)
          /\ RequestFull(o)
          /\ UNCHANGED queueVars
       \/ /\ p \notin pending[o] /\ Fits(o, p)
          /\ Admitted(o, p)
          /\ pending' = [pending EXCEPT ![o] = @ \cup {p}]
          /\ deferred' = [deferred EXCEPT ![o] = @ \ {p}]
          /\ IF p \in deferred[o] THEN Cross(o) ELSE UNCHANGED crossed
          /\ UNCHANGED <<inflight, probe, fullVars>>
    /\ UNCHANGED <<workerVars, cleanupVars, watching, closed>>

\* _debounce(): the revision is read, then the path is validated unlocked.
ProbeBegins(o, p) ==
    /\ watching = "on" /\ probe[o] = NoPath
    /\ probe' = [probe EXCEPT ![o] = p]
    /\ crossed' = [crossed EXCEPT ![o] = FALSE]
    /\ UNCHANGED <<pending, inflight, deferred, total, fullVars, wakeVars, workerVars,
                   cleanupVars, debtVars, watching, closed>>

\* The probe returns after the path was transferred, absorbed or cancelled:
\* the event is kept as full debt.
ProbeCrossed(o) ==
    /\ probe[o] # NoPath
    /\ crossed[o] /\ probe[o] \notin deferred[o]
    /\ ~closed /\ watching = "on"
    /\ Owe(o, probe[o])
    /\ RequestFull(o) /\ Wake(o)
    /\ probe' = [probe EXCEPT ![o] = NoPath]
    /\ crossed' = [crossed EXCEPT ![o] = FALSE]
    /\ UNCHANGED <<pending, inflight, deferred, total, workerVars, cleanupVars, watching, closed>>

ProbeAdmits(o) ==
    /\ probe[o] # NoPath
    /\ ~crossed[o] \/ probe[o] \in deferred[o]
    /\ ~closed /\ watching = "on"
    /\ Owe(o, probe[o]) /\ Wake(o)
    /\ \/ /\ ~Fits(o, probe[o])
          /\ RequestFull(o)
          /\ UNCHANGED <<total, deferred>>
       \/ /\ Fits(o, probe[o])
          /\ Admitted(o, probe[o])
          /\ deferred' = [deferred EXCEPT ![o] = @ \cup {probe[o]}]
          /\ UNCHANGED fullVars
    /\ probe' = [probe EXCEPT ![o] = NoPath]
    /\ crossed' = [crossed EXCEPT ![o] = FALSE]
    /\ UNCHANGED <<pending, inflight, workerVars, cleanupVars, watching, closed>>

\* Closed, fenced, another generation, monitoring failed, or an unsafe path.
ProbeRefused(o) ==
    /\ probe[o] # NoPath
    /\ probe' = [probe EXCEPT ![o] = NoPath]
    /\ crossed' = [crossed EXCEPT ![o] = FALSE]
    /\ UNCHANGED <<pending, inflight, deferred, total, fullVars, wakeVars, workerVars,
                   cleanupVars, debtVars, watching, closed>>

\* _deliver_debounced(): a deadline passed; the reservation moves on.
Deliver(o, p) ==
    /\ ~closed /\ watching # "off" /\ p \in deferred[o]
    /\ pending' = [pending EXCEPT ![o] = @ \cup {p}]
    /\ deferred' = [deferred EXCEPT ![o] = @ \ {p}]
    /\ Cross(o) /\ Wake(o)
    /\ UNCHANGED <<inflight, probe, total, fullVars, workerVars, cleanupVars, debtVars,
                   watching, closed>>

\* _debounce_failed(): the path is no longer safe to look at.
DeliverFails(o, p) ==
    /\ watching # "off" /\ p \in deferred[o]
    /\ deferred' = [deferred EXCEPT ![o] = @ \ {p}]
    /\ total' = IF p \in pending[o] \cup inflight[o] THEN total ELSE total - 1
    /\ Cross(o) /\ RequestFull(o)
    /\ IF closed THEN UNCHANGED wakeVars ELSE Wake(o)
    /\ UNCHANGED <<pending, inflight, probe, workerVars, cleanupVars, debtVars, watching, closed>>

RequestFullSync(o) ==
    /\ ~closed
    /\ RequestFull(o) /\ Wake(o)
    /\ UNCHANGED <<queueVars, workerVars, cleanupVars, debtVars, watching, closed>>

\* _watcher_loss(): a repeated loss cannot retry a paused owner.
WatcherLoss(o) ==
    /\ watching # "off"
    /\ RequestFull(o)
    /\ IF fullNeeded[o] \/ closed THEN UNCHANGED wakeVars ELSE Wake(o)
    /\ UNCHANGED <<queueVars, workerVars, cleanupVars, debtVars, watching, closed>>

Retry(o) ==
    /\ ~closed /\ ~running[o] /\ ~continuation[o]
    /\ Wake(o)
    /\ UNCHANGED <<queueVars, fullVars, workerVars, cleanupVars, debtVars, watching, closed>>

\* The part of cancel() and begin_shutdown() that gives reservations up.
DropReservations(o) ==
    /\ pending' = [pending EXCEPT ![o] = {}]
    /\ deferred' = [deferred EXCEPT ![o] = {}]
    /\ fullNeeded' = [fullNeeded EXCEPT ![o] =
                         @ \/ Identities(o) # {} \/ continuation[o] \/ running[o]]

Cancel(o) ==
    /\ DropReservations(o)
    /\ total' = total - Cardinality(Identities(o) \ inflight[o])
    /\ Cross(o)
    /\ cancel' = [cancel EXCEPT ![o] = TRUE]
    /\ paused' = [paused EXCEPT ![o] = TRUE]
    /\ wakePending' = [wakePending EXCEPT ![o] = FALSE]
    /\ trig' = [trig EXCEPT ![o] = FALSE]
    /\ UNCHANGED <<inflight, probe, fullAgain, fullActive, continuation, workerVars, cleanupVars,
                   debtVars, watching, closed>>

(* _attach_watcher, _fence_watcher, _retire_watcher_work, _detach_watcher. *)
AttachWatcher ==
    /\ ~closed /\ watching = "off"
    /\ watching' = "on"
    /\ UNCHANGED <<queueVars, fullVars, wakeVars, workerVars, cleanupVars, debtVars, closed>>

FenceWatcher ==
    /\ watching = "on"
    /\ watching' = "fenced"
    /\ UNCHANGED <<queueVars, fullVars, wakeVars, workerVars, cleanupVars, debtVars, closed>>

\* _retire_watcher_work(): deferred reservations become full debt, no wake-up.
RetireWork ==
    /\ deferred' = None
    /\ total' = total - Cardinality(Undelivered)
    /\ crossed' = [o \in Owners |-> crossed[o] \/ (deferred[o] # {} /\ probe[o] # NoPath)]
    /\ fullNeeded' = [o \in Owners |-> fullNeeded[o] \/ deferred[o] # {}]
    /\ fullAgain' = [o \in Owners |->
                        fullAgain[o] \/ (deferred[o] # {} /\ (fullActive[o] \/ running[o]))]

\* Alone (watching' = watching), or on the way to _detach_watcher.
RetireWatcher ==
    /\ watching # "off"
    /\ watching' \in {watching, "off"}
    /\ RetireWork
    /\ UNCHANGED <<pending, inflight, probe, fullActive, continuation, wakeVars, workerVars,
                   cleanupVars, debtVars, closed>>
-----------------------------------------------------------------------------
(* The worker thread.                                                      *)
Start ==
    /\ ~closed /\ worker = "staged"
    /\ worker' = "live"
    /\ fullNeeded' \in {fullNeeded, [o \in Owners |-> TRUE]}
    /\ UNCHANGED <<queueVars, fullAgain, fullActive, continuation, wakeVars, workerVars,
                   cleanupFailed, cleanupComplete, shutdown, passLeft, debtVars, watching, closed>>

\* A yielded continuation is disposed even though its owner is paused.
Ready(o) ==
    \/ continuation[o] /\ cancel[o]
    \/ ~paused[o] /\ (continuation[o] \/ fullNeeded[o] \/ pending[o] # {})

ReadyOwners == {o \in Owners : Ready(o)}

\* Mutant: always the first ready owner.
NextOwnerFirst == Min(ReadyOwners)

\* The next ready id after the last one served, in cyclic order.
NextOwner ==
    LET later == {o \in ReadyOwners : lastId = NoOwner \/ o > lastId}
    IN  IF later # {} THEN Min(later) ELSE Min(ReadyOwners)

Select ==
    /\ worker = "live" /\ ~closed /\ cur = NoOwner /\ ReadyOwners # {}
    /\ LET o == NextOwner IN
         /\ cur' = o /\ lastId' = o
         /\ running' = [running EXCEPT ![o] = TRUE]
         /\ failedTurn' = [failedTurn EXCEPT ![o] = FALSE]
         /\ trig' = [trig EXCEPT ![o] = @ /\ continuation[o] /\ cancel[o]]
         /\ ahead' = [q \in Owners |-> IF q = o \/ ~Ready(q) THEN {} ELSE ahead[q] \cup {o}]
    /\ turn' = "entered"
    /\ UNCHANGED <<queueVars, fullVars, paused, wakePending, cancel, cleanupVars, debtVars,
                   watching, closed>>

Goto(label) ==
    /\ turn' = label
    /\ UNCHANGED <<running, lastId, cur, failedTurn, ahead>>

\* The token and the owner are valid; either may change right after.
Checked(o) ==
    /\ turn = "entered" /\ ~cancel[o]
    /\ Goto("checked")
    /\ UNCHANGED <<queueVars, fullVars, wakeVars, cleanupVars, debtVars, watching, closed>>

\* A yielded job goes on, or makes room for full debt.
Resume(o) ==
    /\ turn = "checked" /\ continuation[o]
    /\ Goto(IF ~fullActive[o] /\ fullNeeded[o] THEN "preempting" ELSE "stepping")
    /\ UNCHANGED <<queueVars, fullVars, wakeVars, cleanupVars, debtVars, watching, closed>>

\* A cancelled token, an invalid owner, a failing begin, step or disposal.
Raises(o) ==
    /\ turn \in {"entered", "preempting", "beginning", "stepping"}
    /\ Goto("raised")
    /\ UNCHANGED <<queueVars, fullVars, wakeVars, cleanupVars, debtVars, watching, closed>>

\* Mutant: in-flight paths queued again meanwhile are released as well.
ReleasedTotalAll(o) == total - Cardinality(inflight[o])

\* _release_inflight: what is still reserved elsewhere keeps its one count.
ReleasedTotal(o) == total - Cardinality(inflight[o] \ (pending[o] \cup deferred[o]))

ReleaseInflight(o) ==
    /\ total' = ReleasedTotal(o)
    /\ inflight' = [inflight EXCEPT ![o] = {}]
    /\ UNCHANGED <<pending, deferred, probe, crossed>>

\* Full debt arrived during a targeted job: the job is cancelled, not run on.
Preempt(o) ==
    /\ turn = "preempting"
    /\ continuation' = [continuation EXCEPT ![o] = FALSE]
    /\ ReleaseInflight(o)
    /\ covered' = [covered EXCEPT ![o] = {}]
    /\ Goto("ending")
    /\ UNCHANGED <<fullNeeded, fullAgain, fullActive, wakeVars, cleanupVars, owed, watching, closed>>

ClaimRefused(o) ==
    /\ turn = "checked" /\ ~continuation[o] /\ (closed \/ cancel[o])
    /\ Goto("raised")
    /\ UNCHANGED <<queueVars, fullVars, wakeVars, cleanupVars, debtVars, watching, closed>>

Claim(o) ==
    /\ turn = "checked" /\ ~continuation[o] /\ ~closed /\ ~cancel[o]
    /\ pending' = [pending EXCEPT ![o] = {}]
    /\ fullActive' = [fullActive EXCEPT ![o] = fullNeeded[o]]
    /\ fullAgain' = [fullAgain EXCEPT ![o] = FALSE]
    /\ IF fullNeeded[o]
       THEN /\ total' = total - Cardinality(Identities(o))
            /\ deferred' = [deferred EXCEPT ![o] = {}]
            /\ covered' = [covered EXCEPT ![o] = owed[o]]
            /\ Cross(o)
            /\ UNCHANGED inflight
       ELSE /\ inflight' = [inflight EXCEPT ![o] = pending[o]]
            /\ covered' = [covered EXCEPT ![o] = owed[o] \cap pending[o]]
            /\ UNCHANGED <<deferred, total, crossed>>
    /\ Goto("beginning")
    /\ UNCHANGED <<probe, fullNeeded, continuation, wakeVars, cleanupVars, owed, watching, closed>>

\* begin_sync() may promote a targeted request to a full one.
Begin(o) ==
    /\ turn = "beginning"
    /\ cleanupFailed' = [cleanupFailed EXCEPT ![o] = FALSE]
    /\ continuation' = [continuation EXCEPT ![o] = TRUE]
    /\ \/ /\ ~fullActive[o]
          /\ UNCHANGED <<fullActive, fullNeeded, queueVars>>
       \/ /\ fullActive' = [fullActive EXCEPT ![o] = TRUE]
          /\ fullNeeded' = [fullNeeded EXCEPT ![o] = TRUE]
          /\ ReleaseInflight(o)
    /\ Goto("stepping")
    /\ UNCHANGED <<fullAgain, wakeVars, cleanupComplete, worker, shutdown, passLeft, debtVars,
                   watching, closed>>

Yields(o) ==
    /\ turn = "stepping"
    /\ Goto("ending")
    /\ UNCHANGED <<queueVars, fullVars, wakeVars, cleanupVars, debtVars, watching, closed>>

\* Mutant: full debt that arrived during the full job is taken as paid.
CompletesForgetting(o) ==
    /\ turn = "stepping"
    /\ fullNeeded' = [fullNeeded EXCEPT ![o] = @ /\ (~fullActive[o] \/ cancel[o])]
    /\ ReleaseInflight(o)
    /\ continuation' = [continuation EXCEPT ![o] = FALSE]
    /\ fullActive' = [fullActive EXCEPT ![o] = FALSE]
    /\ owed' = [owed EXCEPT ![o] = @ \ covered[o]]
    /\ covered' = [covered EXCEPT ![o] = {}]
    /\ Goto("ending")
    /\ UNCHANGED <<fullAgain, wakeVars, cleanupVars, watching, closed>>

\* SyncStepState.COMPLETE: full debt is paid unless it was renewed meanwhile.
Completes(o) ==
    /\ turn = "stepping"
    /\ fullNeeded' = [fullNeeded EXCEPT ![o] =
                         IF fullActive[o] /\ ~cancel[o] THEN fullAgain[o] ELSE @]
    /\ ReleaseInflight(o)
    /\ continuation' = [continuation EXCEPT ![o] = FALSE]
    /\ fullActive' = [fullActive EXCEPT ![o] = FALSE]
    /\ owed' = [owed EXCEPT ![o] = @ \ covered[o]]
    /\ covered' = [covered EXCEPT ![o] = {}]
    /\ Goto("ending")
    /\ UNCHANGED <<fullAgain, wakeVars, cleanupVars, watching, closed>>

\* The except block: the job becomes full debt and its owner is paused.
Fails(o) ==
    /\ turn = "raised"
    /\ fullNeeded' = [fullNeeded EXCEPT ![o] = TRUE]
    /\ paused' = [paused EXCEPT ![o] = TRUE]
    /\ ReleaseInflight(o)
    /\ continuation' = [continuation EXCEPT ![o] = FALSE]
    /\ fullActive' = [fullActive EXCEPT ![o] = FALSE]
    /\ \E failed \in BOOLEAN : cleanupFailed' = [cleanupFailed EXCEPT ![o] = failed]
    /\ covered' = [covered EXCEPT ![o] = {}]
    /\ failedTurn' = [failedTurn EXCEPT ![o] = TRUE]
    /\ turn' = "ending"
    /\ UNCHANGED <<fullAgain, wakePending, cancel, trig, running, lastId, cur, ahead,
                   cleanupComplete, worker, shutdown, passLeft, owed, watching, closed>>

\* A yielded turn keeps its triggers only while its cancellation is undisposed.
KeepsTriggerFor(o) == continuation[o] /\ cancel[o]

\* The finally block.
EndTurn(o) ==
    /\ turn = "ending"
    /\ running' = [running EXCEPT ![o] = FALSE]
    /\ LET woken == wakePending[o] /\ ~continuation[o] /\ ~closed IN
         /\ cancel' = [cancel EXCEPT ![o] = @ /\ ~woken]
         /\ paused' = [paused EXCEPT ![o] = @ /\ ~woken]
    /\ wakePending' = [wakePending EXCEPT ![o] = @ /\ KeepsTriggerFor(o)]
    /\ cur' = NoOwner /\ turn' = "none"
    /\ UNCHANGED <<queueVars, fullVars, trig, lastId, failedTurn, ahead, cleanupVars, debtVars,
                   watching, closed>>

TurnStep ==
    \E o \in Owners :
      /\ cur = o
      /\ \/ Checked(o) \/ Resume(o) \/ Raises(o) \/ Preempt(o) \/ ClaimRefused(o)
         \/ Claim(o) \/ Begin(o) \/ Yields(o) \/ Completes(o) \/ Fails(o) \/ EndTurn(o)
-----------------------------------------------------------------------------
(* Shutdown: fence, let the worker drain, then close every owner.          *)
BeginShutdown ==
    /\ ~closed
    /\ closed' = TRUE
    /\ cancel' = [o \in Owners |-> TRUE]
    /\ paused' = [o \in Owners |-> TRUE]
    /\ fullNeeded' = [o \in Owners |-> \/ fullNeeded[o] \/ Identities(o) # {}
                                       \/ continuation[o] \/ running[o]]
    /\ total' = total - Cardinality(Reserved \ Claimed)
    /\ pending' = None /\ deferred' = None
    /\ crossed' = [o \in Owners |-> probe[o] # NoPath]
    /\ UNCHANGED <<inflight, probe, fullAgain, fullActive, continuation, wakePending, trig,
                   workerVars, cleanupVars, debtVars, watching>>

\* Mutant: the loop looks at _closed only when no owner is ready.
WorkerExitsWhenIdle ==
    /\ worker = "live" /\ closed /\ cur = NoOwner /\ ReadyOwners = {}
    /\ worker' = "closing" /\ passLeft' = Owners
    /\ UNCHANGED <<queueVars, fullVars, wakeVars, workerVars, cleanupFailed, cleanupComplete,
                   shutdown, debtVars, watching, closed>>

\* _run leaves its loop; its finally closes the owners once.
WorkerExits ==
    /\ worker = "live" /\ closed /\ cur = NoOwner
    /\ worker' = "closing" /\ passLeft' = Owners
    /\ UNCHANGED <<queueVars, fullVars, wakeVars, workerVars, cleanupFailed, cleanupComplete,
                   shutdown, debtVars, watching, closed>>

WorkerDone ==
    /\ worker = "closing" /\ passLeft = {}
    /\ worker' = "done"
    /\ UNCHANGED <<queueVars, fullVars, wakeVars, workerVars, cleanupFailed, cleanupComplete,
                   shutdown, passLeft, debtVars, watching, closed>>

\* shutdown(), serialized; it has waited for the executor.
ShutdownPass ==
    /\ closed /\ worker \in {"staged", "done"} /\ shutdown \in {"no", "retryable"}
    /\ shutdown' = IF shutdown = "no" THEN "first" ELSE "retry"
    /\ passLeft' = Owners
    /\ UNCHANGED <<queueVars, fullVars, wakeVars, workerVars, cleanupFailed, cleanupComplete,
                   worker, debtVars, watching, closed>>

\* _close_owners: may the disposal of o fail?  A failure is not retried before
\* the second shutdown() call.
CloseOutcomes(o) ==
    IF cleanupFailed[o] /\ shutdown # "retry" THEN {TRUE} ELSE BOOLEAN

CloseOwner(o) ==
    /\ o \in passLeft
    /\ passLeft' = passLeft \ {o}
    /\ \/ /\ cleanupComplete[o]
          /\ UNCHANGED <<queueVars, continuation, running, cleanupFailed, cleanupComplete>>
       \/ /\ ~cleanupComplete[o]
          /\ \E failed \in CloseOutcomes(o) :
               /\ cleanupFailed' = [cleanupFailed EXCEPT ![o] = failed]
               /\ cleanupComplete' = [cleanupComplete EXCEPT ![o] = ~failed]
               /\ continuation' = [continuation EXCEPT ![o] = @ /\ failed]
          /\ ReleaseInflight(o)
          /\ running' = [running EXCEPT ![o] = FALSE]
    /\ UNCHANGED <<fullNeeded, fullAgain, fullActive, wakeVars, lastId, cur, turn, failedTurn,
                   ahead, worker, shutdown, debtVars, watching, closed>>

ShutdownEnds ==
    /\ shutdown \in {"first", "retry"} /\ passLeft = {}
    /\ shutdown' = IF \A o \in Owners : cleanupComplete[o] THEN "complete" ELSE "retryable"
    /\ UNCHANGED <<queueVars, fullVars, wakeVars, workerVars, cleanupFailed, cleanupComplete,
                   worker, passLeft, debtVars, watching, closed>>
-----------------------------------------------------------------------------
Trigger ==
    \/ \E o \in Owners, p \in Paths :
         Enqueue(o, p) \/ ProbeBegins(o, p) \/ Deliver(o, p) \/ DeliverFails(o, p)
    \/ \E o \in Owners :
         \/ ProbeCrossed(o) \/ ProbeAdmits(o) \/ ProbeRefused(o)
         \/ RequestFullSync(o) \/ WatcherLoss(o) \/ Retry(o) \/ Cancel(o)
    \/ AttachWatcher \/ FenceWatcher \/ RetireWatcher

Worker == Select \/ TurnStep

Closing ==
    \/ WorkerExits \/ WorkerDone \/ ShutdownEnds
    \/ \E o \in Owners : CloseOwner(o)

Next == Trigger \/ Start \/ Worker \/ Closing \/ BeginShutdown \/ ShutdownPass

Spec == Init /\ [][Next]_vars

\* The worker thread runs while it has something to do, and every step and
\* every disposal returns.  No trigger, no shutdown() call need ever come.
FairSpec == Spec /\ WF_vars(Worker) /\ WF_vars(Closing)
-----------------------------------------------------------------------------
(* One count per reserved identity whichever stages hold it, and never     *)
(* above the global limit: _total agrees with the three sets although      *)
(* paths move, are queued again in flight, and are dropped in every order. *)
ReservationsCounted ==
    /\ total = Cardinality(Reserved)
    /\ total <= GlobalLimit
    /\ \A o \in Owners : Cardinality(Identities(o)) <= SpaceLimit

(* An accepted path that no completed job has synchronized since is still  *)
(* reserved or covered by full debt, through cancellation, failure,        *)
(* pre-emption, overflow, retirement of the watcher and shutdown.          *)
NoTargetLost ==
    \A o \in Owners : \A p \in owed[o] : p \in Identities(o) \/ fullNeeded[o]

(* "Failures never self-resubmit", and no wake-up is lost: after a failed  *)
(* turn an owner waits until a trigger comes, but a trigger that came      *)
(* while the turn failed or was being cancelled still wakes it once the    *)
(* failure has been published.                                             *)
FailureAwaitsTrigger ==
    \A o \in Owners : ~running[o] =>
      /\ failedTurn[o] /\ ~trig[o] => paused[o]
      /\ trig[o] /\ ~closed /\ ~(continuation[o] /\ cancel[o]) => ~paused[o]

(* When shutdown() reports completion nothing is reserved, running or      *)
(* yielded any more, whatever was in flight when it was fenced.            *)
ShutdownIsClean ==
    shutdown = "complete" =>
      /\ total = 0
      /\ \A o \in Owners : ~continuation[o] /\ ~running[o] /\ Identities(o) = {}

(* Round robin: while an owner stays ready at every selection no other     *)
(* owner is served twice before it.                                        *)
ServedInTurn ==
    [][\A o \in Owners :
         cur = NoOwner /\ cur' \in Owners \ {o} /\ Ready(o) => cur' \notin ahead[o]]_vars

(* A ready owner of a running scheduler is eventually served.              *)
EveryOwnerServed ==
    \A o \in Owners : worker = "live" /\ Ready(o) ~> cur = o \/ ~Ready(o) \/ closed

(* Once admission is fenced the worker thread drains and ends.             *)
WorkerDrains == closed /\ worker # "staged" ~> worker = "done"

(* The worker does not stall: a ready owner's turn comes, and a fenced     *)
(* worker ends.                                                            *)
WorkerProgresses == EveryOwnerServed /\ WorkerDrains

(* Each reserved identity is counted once and within both limits whichever *)
(* stages hold it, and a shutdown that reports completion has left none.   *)
Accounted == TypeOK /\ ReservationsCounted /\ ShutdownIsClean

(* Neither work nor wake-ups are lost: an accepted path is reserved or     *)
(* covered by full debt until a job has synchronized it, a failed turn is  *)
(* not repeated by itself, and a trigger that came meanwhile still counts. *)
NothingForgotten == NoTargetLost /\ FailureAwaitsTrigger
=============================================================================

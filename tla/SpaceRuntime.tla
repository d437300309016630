---------------------------- MODULE SpaceRuntime ----------------------------
(***************************************************************************)
(* app/services/space_admission.py and the lifecycle of                    *)
(* app/services/space_runtime.py: scoped operations enter one at a time    *)
(* through ScopedOperationAdmission while other threads start and shut     *)
(* down (and shut down again) the watcher, the scheduler, the owners'      *)
(* resources and the shared embedding resource.                            *)
(*                                                                         *)
(* Every block under the admission's condition is one step, and so is each *)
(* call to a component.  No operation calls start() or shutdown(), so the  *)
(* operations' threads and the administrators' are different ones.         *)
(***************************************************************************)
EXTENDS Integers, FiniteSets

CONSTANTS Ops,          \* threads that run scoped operations
          Admins,       \* threads that call start() and shutdown()
          None,
          MaxWaiting,   \* MAX_WAITING_OPERATIONS
          MaxCalls,     \* operations per thread
          MaxShutdowns  \* shutdown() calls per administrator

ASSUME SpaceRuntimeAssumption ==
    /\ None \notin Ops \cup Admins /\ IsFiniteSet(Ops)
    /\ MaxWaiting \in Nat /\ MaxCalls \in Nat /\ MaxShutdowns \in Nat

VARIABLES
    open, stopped, active, waiting,         \* ScopedOperationAdmission
    pc,         \* per operation thread
    cancelled,  \* per operation thread: the caller's token
    completed,  \* per operation thread: token._write_completed
    committed,  \* per operation thread: its write reached the vault
    verdict, result, calls,
    state,      \* SpaceRuntime._state
    lifecycle,  \* holder of the lifecycle lock
    lc,         \* per administrator
    rollback,   \* per administrator: shutdown() runs inside start()
    failed,     \* per administrator: the error its shutdown() will raise
    shutdowns,
    watcherUp, schedulerUp,         \* native threads, worker thread
    watcherFenced, schedulerFenced,
    ownersClosed, resourceClosed

admission == <<open, stopped, active, waiting>>
opVars == <<pc, cancelled, completed, committed, verdict, result, calls>>
adminVars == <<state, lifecycle, lc, rollback, failed, shutdowns>>
parts == <<watcherUp, schedulerUp, watcherFenced, schedulerFenced, ownersClosed, resourceClosed>>
vars == <<admission, opVars, adminVars, parts>>

Inside == {"entered", "body", "writing", "after", "leaving"}
Outcome == {"none", "ok", "cancelled", "unavailable", "error"}
Starting == {"watcher", "scheduler", "open", "opened"}
Fencing == {"fenceAdmission", "fenceScheduler", "fenceWatcher", "lockWait"}
Stopping == {"stopWatcher", "stopScheduler", "drain", "cleanup", "close"}

OperationsTypeOK ==
    /\ open \in BOOLEAN /\ stopped \in BOOLEAN
    /\ active \in Ops \cup {None} /\ waiting \in 0..MaxWaiting
    /\ pc \in [Ops -> Inside \cup {"idle", "waiting"}]
    /\ cancelled \in [Ops -> BOOLEAN] /\ completed \in [Ops -> BOOLEAN]
    /\ committed \in [Ops -> BOOLEAN]
    /\ verdict \in [Ops -> Outcome] /\ result \in [Ops -> Outcome]
    /\ calls \in [Ops -> 0..MaxCalls]

LifecycleTypeOK ==
    /\ state \in {"composed", "starting", "running", "stopping", "stopped"}
    /\ lifecycle \in Admins \cup {None}
    /\ lc \in [Admins -> Starting \cup Fencing \cup Stopping \cup {"idle", "startWait"}]
    /\ rollback \in [Admins -> BOOLEAN] /\ failed \in [Admins -> BOOLEAN]
    /\ shutdowns \in [Admins -> 0..MaxShutdowns]
    /\ watcherUp \in BOOLEAN /\ schedulerUp \in BOOLEAN
    /\ watcherFenced \in BOOLEAN /\ schedulerFenced \in BOOLEAN
    /\ ownersClosed \in BOOLEAN /\ resourceClosed \in BOOLEAN

TypeOK == OperationsTypeOK /\ LifecycleTypeOK

Init ==
    /\ open = FALSE /\ stopped = FALSE /\ active = None /\ waiting = 0
    /\ pc = [t \in Ops |-> "idle"]
    /\ cancelled = [t \in Ops |-> FALSE] /\ completed = [t \in Ops |-> FALSE]
    /\ committed = [t \in Ops |-> FALSE]
    /\ verdict = [t \in Ops |-> "none"] /\ result = [t \in Ops |-> "none"]
    /\ calls = [t \in Ops |-> 0]
    /\ state = "composed" /\ lifecycle = None
    /\ lc = [a \in Admins |-> "idle"]
    /\ rollback = [a \in Admins |-> FALSE] /\ failed = [a \in Admins |-> FALSE]
    /\ shutdowns = [a \in Admins |-> 0]
    /\ watcherUp = FALSE /\ schedulerUp = FALSE
    /\ watcherFenced = FALSE /\ schedulerFenced = FALSE
    /\ ownersClosed = FALSE /\ resourceClosed = FALSE
-----------------------------------------------------------------------------
(* Scoped operations.                                                      *)

\* token.check(): the caller's token or the runtime's shutdown.
Cancelled(t) == cancelled[t] \/ stopped

Goto(t, place) == pc' = [pc EXCEPT ![t] = place]
Return(t, what) == Goto(t, "idle") /\ result' = [result EXCEPT ![t] = what]

Conclude(t, what) ==
    /\ verdict' = [verdict EXCEPT ![t] = what]
    /\ Goto(t, "leaving")

CallerCancels(t) ==
    /\ pc[t] # "idle" /\ ~cancelled[t]
    /\ cancelled' = [cancelled EXCEPT ![t] = TRUE]
    /\ UNCHANGED <<admission, pc, completed, committed, verdict, result, calls, adminVars, parts>>

Full == waiting >= MaxWaiting

\* operation(): an idle admission is entered at once, even past waiters.
Enter(t) ==
    /\ pc[t] = "idle" /\ calls[t] < MaxCalls
    /\ calls' = [calls EXCEPT ![t] = @ + 1]
    /\ completed' = [completed EXCEPT ![t] = FALSE]
    /\ committed' = [committed EXCEPT ![t] = FALSE]
    /\ \E token \in BOOLEAN :
         /\ cancelled' = [cancelled EXCEPT ![t] = token]
         /\ \/ (token \/ stopped) /\ Return(t, "cancelled") /\ UNCHANGED <<active, waiting>>
            \/ /\ ~token /\ ~stopped
               /\ ~open \/ (active # None /\ Full)
               /\ Return(t, "unavailable") /\ UNCHANGED <<active, waiting>>
            \/ /\ ~token /\ ~stopped /\ open /\ active = None
               /\ active' = t /\ Goto(t, "entered")
               /\ UNCHANGED <<waiting, result>>
            \/ /\ ~token /\ ~stopped /\ open /\ active # None /\ ~Full
               /\ waiting' = waiting + 1 /\ Goto(t, "waiting")
               /\ UNCHANGED <<active, result>>
    /\ UNCHANGED <<open, stopped, verdict, adminVars, parts>>

WaiterEnters(t) ==
    /\ pc[t] = "waiting" /\ active = None /\ ~Cancelled(t)
    /\ waiting' = waiting - 1
    /\ active' = t /\ Goto(t, "entered")
    /\ UNCHANGED <<open, stopped, cancelled, completed, committed, verdict, result, calls,
                   adminVars, parts>>

\* Mutant: a cancelled waiter stays counted.
WaiterCancelledUncounted(t) ==
    /\ pc[t] = "waiting" /\ Cancelled(t)
    /\ Return(t, "cancelled")
    /\ UNCHANGED <<admission, cancelled, completed, committed, verdict, calls, adminVars, parts>>

\* Woken or after at most 50 ms.
WaiterCancelled(t) ==
    /\ pc[t] = "waiting" /\ Cancelled(t)
    /\ waiting' = waiting - 1
    /\ Return(t, "cancelled")
    /\ UNCHANGED <<open, stopped, active, cancelled, completed, committed, verdict, calls,
                   adminVars, parts>>

\* The check before the body, outside the condition.
CheckEntered(t) ==
    /\ pc[t] = "entered"
    /\ IF Cancelled(t) THEN Conclude(t, "cancelled") ELSE Goto(t, "body") /\ UNCHANGED verdict
    /\ UNCHANGED <<admission, cancelled, completed, committed, result, calls, adminVars, parts>>

\* A read ends, or any body raises.
BodyEnds(t) ==
    /\ pc[t] = "body"
    /\ \/ Goto(t, "after") /\ UNCHANGED verdict
       \/ Conclude(t, "error")
    /\ UNCHANGED <<admission, cancelled, completed, committed, result, calls, adminVars, parts>>

\* A read looks at the token, or capture and apply do before they write.
AboutToWrite(t) ==
    /\ pc[t] = "body"
    /\ IF Cancelled(t) THEN Conclude(t, "cancelled") ELSE Goto(t, "writing") /\ UNCHANGED verdict
    /\ UNCHANGED <<admission, cancelled, completed, committed, result, calls, adminVars, parts>>

\* The write commits, or may have committed, or is refused; then it returns or
\* raises (the enqueueing after it included).
Write(t) ==
    /\ pc[t] = "writing"
    /\ \/ /\ committed' = [committed EXCEPT ![t] = TRUE]
          /\ completed' = [completed EXCEPT ![t] = TRUE]
       \/ /\ UNCHANGED committed
          /\ completed' \in {completed, [completed EXCEPT ![t] = TRUE]}
    /\ \/ Goto(t, "after") /\ UNCHANGED verdict
       \/ Conclude(t, "error")
    /\ UNCHANGED <<admission, cancelled, result, calls, adminVars, parts>>

\* Mutant: a cancellation wins over a completed write.
AfterBodyAlwaysChecked(t) ==
    /\ pc[t] = "after"
    /\ Conclude(t, IF Cancelled(t) THEN "cancelled" ELSE "ok")
    /\ UNCHANGED <<admission, cancelled, completed, committed, result, calls, adminVars, parts>>

AfterBody(t) ==
    /\ pc[t] = "after"
    /\ Conclude(t, IF ~completed[t] /\ Cancelled(t) THEN "cancelled" ELSE "ok")
    /\ UNCHANGED <<admission, cancelled, completed, committed, result, calls, adminVars, parts>>

Leave(t) ==
    /\ pc[t] = "leaving"
    /\ active' = None
    /\ Return(t, verdict[t])
    /\ UNCHANGED <<open, stopped, waiting, cancelled, completed, committed, verdict, calls,
                   adminVars, parts>>
-----------------------------------------------------------------------------
(* start().                                                                *)

At(a, place) == lc' = [lc EXCEPT ![a] = place]

StartCalled(a) ==
    /\ lc[a] = "idle" /\ state = "composed"
    /\ At(a, "startWait")
    /\ UNCHANGED <<admission, opVars, state, lifecycle, rollback, failed, shutdowns, parts>>

\* A runtime starts once; a second start() raises and changes nothing.
StartLocks(a) ==
    /\ lc[a] = "startWait" /\ lifecycle = None
    /\ IF state = "composed"
       THEN lifecycle' = a /\ state' = "starting" /\ At(a, "watcher")
       ELSE At(a, "idle") /\ UNCHANGED <<lifecycle, state>>
    /\ UNCHANGED <<admission, opVars, rollback, failed, shutdowns, parts>>

\* start() raises: the same shutdown() runs inside the lifecycle lock.
RollBack(a) ==
    /\ rollback' = [rollback EXCEPT ![a] = TRUE]
    /\ At(a, "fenceAdmission")

\* watcher.start(): ready and not fenced, or it fails and its own clean-up may
\* leave native threads behind.
WatcherStarts(a) ==
    /\ lc[a] = "watcher"
    /\ \/ /\ ~watcherFenced /\ ~schedulerFenced
          /\ watcherUp' = TRUE /\ At(a, "scheduler") /\ UNCHANGED rollback
       \/ watcherUp' \in BOOLEAN /\ RollBack(a)
    /\ UNCHANGED <<admission, opVars, state, lifecycle, failed, shutdowns, schedulerUp, watcherFenced,
                   schedulerFenced, ownersClosed, resourceClosed>>

SchedulerStarts(a) ==
    /\ lc[a] = "scheduler"
    /\ IF schedulerFenced THEN RollBack(a) /\ UNCHANGED schedulerUp
       ELSE schedulerUp' = TRUE /\ At(a, "open") /\ UNCHANGED rollback
    /\ UNCHANGED <<admission, opVars, state, lifecycle, failed, shutdowns, watcherUp, watcherFenced,
                   schedulerFenced, ownersClosed, resourceClosed>>

\* admission.open() raises once shutdown has begun.
OpenRefused == stopped

AdmissionOpens(a) ==
    /\ lc[a] = "open"
    /\ IF OpenRefused THEN RollBack(a) /\ UNCHANGED open
       ELSE open' = TRUE /\ At(a, "opened") /\ UNCHANGED rollback
    /\ UNCHANGED <<stopped, active, waiting, opVars, state, lifecycle, failed, shutdowns, parts>>

StartReturns(a) ==
    /\ lc[a] = "opened"
    /\ state' = "running" /\ lifecycle' = None
    /\ At(a, "idle")
    /\ UNCHANGED <<admission, opVars, rollback, failed, shutdowns, parts>>
-----------------------------------------------------------------------------
(* shutdown(): fence without the lifecycle lock, then stop in order.       *)

ShutdownCalled(a) ==
    /\ lc[a] = "idle" /\ shutdowns[a] < MaxShutdowns
    /\ shutdowns' = [shutdowns EXCEPT ![a] = @ + 1]
    /\ At(a, "fenceAdmission")
    /\ UNCHANGED <<admission, opVars, state, lifecycle, rollback, failed, parts>>

FenceAdmission(a) ==
    /\ lc[a] = "fenceAdmission"
    /\ open' = FALSE /\ stopped' = TRUE
    /\ At(a, "fenceScheduler")
    /\ UNCHANGED <<active, waiting, opVars, state, lifecycle, rollback, failed, shutdowns, parts>>

FenceScheduler(a) ==
    /\ lc[a] = "fenceScheduler"
    /\ schedulerFenced' = TRUE
    /\ At(a, "fenceWatcher")
    /\ UNCHANGED <<admission, opVars, state, lifecycle, rollback, failed, shutdowns, watcherUp,
                   schedulerUp, watcherFenced, ownersClosed, resourceClosed>>

FenceWatcher(a) ==
    /\ lc[a] = "fenceWatcher"
    /\ watcherFenced' = TRUE
    /\ At(a, "lockWait")
    /\ UNCHANGED <<admission, opVars, state, lifecycle, rollback, failed, shutdowns, watcherUp,
                   schedulerUp, schedulerFenced, ownersClosed, resourceClosed>>

\* shutdown() returns or raises; so does the start() it rolls back.
ShutdownReturns(a) ==
    /\ lifecycle' = None
    /\ rollback' = [rollback EXCEPT ![a] = FALSE]
    /\ failed' = [failed EXCEPT ![a] = FALSE]
    /\ At(a, "idle")

\* The lifecycle lock is re-entrant for the start() that rolls back.
ShutdownLocks(a) ==
    /\ lc[a] = "lockWait" /\ lifecycle \in {None, a}
    /\ IF state = "stopped" THEN ShutdownReturns(a) /\ UNCHANGED state
       ELSE /\ lifecycle' = a /\ state' = "stopping" /\ At(a, "stopWatcher")
            /\ UNCHANGED <<rollback, failed>>
    /\ UNCHANGED <<admission, opVars, shutdowns, parts>>

Fails(a) == failed' = [failed EXCEPT ![a] = TRUE]

\* A failed stop keeps its threads for the next attempt; the rest still runs.
StopWatcher(a) ==
    /\ lc[a] = "stopWatcher"
    /\ \/ watcherUp' = FALSE /\ UNCHANGED failed
       \/ Fails(a) /\ UNCHANGED watcherUp
    /\ At(a, "stopScheduler")
    /\ UNCHANGED <<admission, opVars, state, lifecycle, rollback, shutdowns, schedulerUp,
                   watcherFenced, schedulerFenced, ownersClosed, resourceClosed>>

StopScheduler(a) ==
    /\ lc[a] = "stopScheduler"
    /\ \/ schedulerUp' = FALSE /\ UNCHANGED failed
       \/ Fails(a) /\ UNCHANGED schedulerUp
    /\ At(a, "drain")
    /\ UNCHANGED <<admission, opVars, state, lifecycle, rollback, shutdowns, watcherUp,
                   watcherFenced, schedulerFenced, ownersClosed, resourceClosed>>

Drained == active = None /\ waiting = 0

Drain(a) ==
    /\ lc[a] = "drain" /\ Drained
    /\ At(a, "cleanup")
    /\ UNCHANGED <<admission, opVars, state, lifecycle, rollback, failed, shutdowns, parts>>

\* The owners' repositories, readers and descriptors.
CloseOwners(a) ==
    /\ lc[a] = "cleanup"
    /\ \/ ownersClosed' = TRUE /\ UNCHANGED failed
       \/ Fails(a) /\ UNCHANGED ownersClosed
    /\ At(a, "close")
    /\ UNCHANGED <<admission, opVars, state, lifecycle, rollback, shutdowns, watcherUp, schedulerUp,
                   watcherFenced, schedulerFenced, resourceClosed>>

\* Mutant: the embedding resource is closed although something failed.
MayCloseResourceAlways(a) == TRUE

MayCloseResource(a) == ~failed[a]

\* The shared resource goes last; an incomplete shutdown stays "stopping" and
\* raises, and shutdown() may be called again.
CloseResource(a) ==
    /\ lc[a] = "close"
    /\ \/ /\ MayCloseResource(a)
          /\ resourceClosed' = TRUE
          /\ state' = IF failed[a] THEN state ELSE "stopped"
       \/ UNCHANGED <<resourceClosed, state>>
    /\ ShutdownReturns(a)
    /\ UNCHANGED <<admission, opVars, shutdowns, watcherUp, schedulerUp, watcherFenced,
                   schedulerFenced, ownersClosed>>
-----------------------------------------------------------------------------
OpStep(t) ==
    \/ WaiterEnters(t) \/ WaiterCancelled(t) \/ CheckEntered(t) \/ BodyEnds(t)
    \/ AboutToWrite(t) \/ Write(t) \/ AfterBody(t) \/ Leave(t)

AdminStep(a) ==
    \/ StartLocks(a) \/ WatcherStarts(a) \/ SchedulerStarts(a) \/ AdmissionOpens(a)
    \/ StartReturns(a)
    \/ FenceAdmission(a) \/ FenceScheduler(a) \/ FenceWatcher(a) \/ ShutdownLocks(a)
    \/ StopWatcher(a) \/ StopScheduler(a) \/ Drain(a) \/ CloseOwners(a) \/ CloseResource(a)

Next ==
    \/ \E t \in Ops : Enter(t) \/ CallerCancels(t) \/ OpStep(t)
    \/ \E a \in Admins : StartCalled(a) \/ ShutdownCalled(a) \/ AdminStep(a)

Spec == Init /\ [][Next]_vars

\* Threads are scheduled, bodies and component calls return.
FairSpec ==
    /\ Spec
    /\ \A t \in Ops : WF_vars(OpStep(t))
    /\ \A a \in Admins : WF_vars(AdminStep(a))
-----------------------------------------------------------------------------
ActiveInside == \A t \in Ops : active = t <=> pc[t] \in Inside
WaitersCounted == waiting = Cardinality({t \in Ops : pc[t] = "waiting"})

(* One operation at a time, and the number of waiters is exact: whoever    *)
(* enters, waits, is cancelled or leaves in which order.                   *)
OneAtATime == ActiveInside /\ WaitersCounted

(* Nothing is closed under a user: the owners' resources not under an      *)
(* admitted operation, the embedding resource not under a thread of the    *)
(* watcher or the scheduler, not even when some part failed to stop.       *)
ClosedAfterUse ==
    /\ ownersClosed => \A t \in Ops : pc[t] = "idle"
    /\ resourceClosed => ~watcherUp /\ ~schedulerUp /\ ownersClosed

(* "stopped" is only ever reached complete: no thread, no operation and no *)
(* waiter is left, and everything is closed.                               *)
StoppedIsComplete ==
    state = "stopped" =>
      /\ ~open /\ ~watcherUp /\ ~schedulerUp /\ ownersClosed /\ resourceClosed
      /\ \A t \in Ops : pc[t] = "idle"

(* Operations are admitted only while watcher and scheduler run; in        *)
(* particular a shutdown() that overtakes start() is never undone by it.   *)
OpenMeansRunning == open => watcherUp /\ schedulerUp /\ ~stopped

(* A write that reached the vault is never reported as cancelled.          *)
CommittedIsReported == \A t \in Ops : committed[t] => result[t] # "cancelled" \/ pc[t] # "idle"

(* The inductive invariant behind the properties above.                    *)
\* The lifecycle lock is held exactly through start() and the inner shutdown().
LifecycleHeld ==
    \A a \in Admins :
      /\ lifecycle = a <=> \/ lc[a] \in Starting \cup Stopping
                           \/ rollback[a] /\ lc[a] \in Fencing
      /\ rollback[a] => lc[a] \in Fencing \cup Stopping

\* The state follows its holder: only a running start() precedes "running".
StateFollows ==
    /\ \A a \in Admins :
         /\ lc[a] \in Starting => state = "starting"
         /\ lc[a] \in Stopping => state = "stopping"
    /\ state = "composed" => ~open
    /\ state \in {"composed", "stopped"} => \A a \in Admins : ~(rollback[a] /\ lc[a] \in Fencing)
    /\ resourceClosed <=> state = "stopped"

\* The fences are up before anything is stopped, and stay up.
FencedFirst ==
    \A a \in Admins :
      /\ lc[a] \in Stopping \cup (Fencing \ {"fenceAdmission"}) => stopped
      /\ lc[a] \in {"watcher", "scheduler", "open"} => ~open
      /\ lc[a] \in {"scheduler", "open", "opened"} => watcherUp
      /\ lc[a] \in {"open", "opened"} => schedulerUp

\* A shutdown() without an error so far has really stopped what it passed.
NothingSkipped ==
    \A a \in Admins :
      /\ lc[a] \in {"cleanup", "close"} => Drained
      /\ ~failed[a] =>
           /\ lc[a] \in Stopping \ {"stopWatcher"} => ~watcherUp
           /\ lc[a] \in {"drain", "cleanup", "close"} => ~schedulerUp
           /\ lc[a] = "close" => ownersClosed

\* Closed owners stay without operations: nobody enters once stopped.
ClosedForGood ==
    /\ ownersClosed => stopped /\ Drained
    /\ resourceClosed => ~watcherUp /\ ~schedulerUp /\ ownersClosed

\* The token's flag covers the commit on every way out.
CommitFlagged ==
    \A t \in Ops :
      /\ committed[t] => completed[t]
      /\ pc[t] \in {"waiting", "entered", "body", "writing"} => ~committed[t]
      /\ pc[t] = "leaving" /\ verdict[t] = "cancelled" => ~committed[t]

RuntimeInv ==
    /\ TypeOK /\ OneAtATime /\ OpenMeansRunning /\ CommittedIsReported
    /\ LifecycleHeld /\ StateFollows /\ FencedFirst /\ NothingSkipped /\ ClosedForGood
    /\ CommitFlagged

(* shutdown() returns, whatever operations wait or run and although a      *)
(* start() may hold the lifecycle lock.                                    *)
ShutdownTerminates == \A a \in Admins : lc[a] = "fenceAdmission" ~> lc[a] = "idle"

(* Nothing is closed under its user, a runtime that calls itself stopped   *)
(* has let go of everything, and one that admits operations runs all its   *)
(* parts: whatever operations, cancellations, failing steps and repeated   *)
(* shutdowns run into each other.                                          *)
ShutsDownSafely == ClosedAfterUse /\ StoppedIsComplete /\ OpenMeansRunning
=============================================================================

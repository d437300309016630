-------------------------- MODULE FilesystemWatcher --------------------------
(***************************************************************************)
(* app/services/filesystem_watcher.py and its part of main.py's lifespan:  *)
(* the watchdog observer thread interprets events and submits note paths,  *)
(* a dispatcher thread hands them to the background indexer after a quiet  *)
(* period, and application shutdown stops first the observer, then the     *)
(* dispatcher (flushing it), then the indexer.                             *)
(*                                                                         *)
(* Paths are names that pass the purely lexical filters of                 *)
(* _safe_markdown_path (suffix, excluded directories, temporary prefixes); *)
(* an event about any other path submits nothing and is left out.  What    *)
(* is on disk under a name is looked at twice, at two different moments;   *)
(* the second look follows a symbolic link, and it is the note the link    *)
(* leads to that is handed over, not the name of the link.                 *)
(***************************************************************************)
EXTENDS Integers

CONSTANTS Paths,        \* lexically admissible note paths
          Debounce,     \* debounce_seconds, in clock ticks
          MaxTime,      \* bound: the clock stops here
          MaxChanges    \* bound: changes made to the vault in a model

ASSUME FilesystemWatcherAssumption ==
    /\ Debounce \in Nat \ {0}
    /\ MaxTime \in Nat
    /\ MaxChanges \in Nat

Never == MaxTime + Debounce + 1     \* Condition.wait() without a timeout
Time == 0..MaxTime

VARIABLES
    now,          \* the monotonic clock
    disk,         \* what has a name: "note", "absent", "link" (a symbolic link to
                  \* another of Paths), "unsafe" (a link to nothing of the kind)
    leads,        \* the name a path resolves to: its own unless it is a "link"
    dirty,        \* names changed and not handed to the indexer since
    changes,      \* changes so far
    emitted,      \* watchdog's events not yet taken, as sets of names
    observer,     \* "none", "running", "stopping", "dead"
    raw,          \* names of the current event not yet looked at
    looking,      \* names found live by exists(), to be verified
    kept,         \* names paths_for_event will return
    queue,        \* keys of DebouncedPathQueue._deadlines
    deadline,     \* its values
    lastSubmit,   \* when a name was last accepted by submit()
    accepted,     \* names accepted and not yet handed to an open indexer
    accepting, stopping, flushOnStop,
    thread,       \* dispatcher: "none", "awake", "asleep", "dispatching", "exited"
    wakeAt,       \* when its Condition.wait times out
    inHand,       \* the local "paths" of _run
    lastRound,    \* the local "should_stop" of _run
    phase,        \* where lifespan stands
    failed,       \* watcher.start() or watcher.stop() raised
    indexerOpen   \* indexer.shutdown() has not been called

worldVars == <<now, disk, leads, dirty, changes>>
observerVars == <<emitted, observer, raw, looking, kept>>
queueVars == <<queue, deadline, lastSubmit, accepted>>
threadVars == <<thread, wakeAt, inHand, lastRound>>
flagVars == <<accepting, stopping, flushOnStop>>
lifeVars == <<phase, failed, indexerOpen>>
vars == <<worldVars, observerVars, queueVars, threadVars, flagVars, lifeVars>>

Phase == {"new", "starting", "serving", "joiningObserver", "stoppingDispatcher",
          "joiningDispatcher", "watcherDown", "down"}

TypeOK ==
    /\ now \in Time
    /\ disk \in [Paths -> {"note", "absent", "link", "unsafe"}]
    /\ leads \in [Paths -> Paths]
    /\ dirty \subseteq Paths
    /\ changes \in 0..MaxChanges
    /\ emitted \subseteq SUBSET Paths
    /\ observer \in {"none", "running", "stopping", "dead"}
    /\ raw \subseteq Paths /\ looking \subseteq Paths /\ kept \subseteq Paths
    /\ queue \subseteq Paths /\ inHand \subseteq Paths /\ accepted \subseteq Paths
    /\ deadline \in [Paths -> 0..(MaxTime + Debounce)]
    /\ lastSubmit \in [Paths -> -1..MaxTime]
    /\ accepting \in BOOLEAN /\ stopping \in BOOLEAN /\ flushOnStop \in BOOLEAN
    /\ thread \in {"none", "awake", "asleep", "dispatching", "exited"}
    /\ wakeAt \in 0..Never
    /\ lastRound \in BOOLEAN
    /\ phase \in Phase
    /\ failed \in BOOLEAN /\ indexerOpen \in BOOLEAN

Init ==
    /\ now = 0
    /\ disk \in [Paths -> {"note", "absent"}]
    /\ leads = [p \in Paths |-> p]
    /\ dirty = {} /\ changes = 0
    /\ emitted = {} /\ observer = "none"
    /\ raw = {} /\ looking = {} /\ kept = {}
    /\ queue = {} /\ accepted = {}
    /\ deadline = [p \in Paths |-> 0]
    /\ lastSubmit = [p \in Paths |-> -1]
    /\ accepting = FALSE /\ stopping = FALSE /\ flushOnStop = FALSE
    /\ thread = "none" /\ wakeAt = Never /\ inHand = {} /\ lastRound = FALSE
    /\ phase = "new" /\ failed = FALSE /\ indexerOpen = TRUE
-----------------------------------------------------------------------------
(* The vault changes under an editor or a synchronizer; a running observer *)
(* gets an event.  Bound: every name accepted can become due by MaxTime.   *)
Touch(ps) ==
    /\ changes < MaxChanges /\ now + Debounce <= MaxTime
    /\ changes' = changes + 1
    /\ emitted' = IF observer = "running" THEN emitted \cup {ps} ELSE emitted
    /\ dirty' = IF observer = "running" THEN dirty \cup ps ELSE dirty
    /\ UNCHANGED <<now, observer, raw, looking, kept, queueVars, threadVars,
                   flagVars, lifeVars>>

Change(p, d) ==
    /\ ~(disk[p] = "absent" /\ d = "absent")
    /\ disk' = [disk EXCEPT ![p] = d]
    /\ leads' = [leads EXCEPT ![p] = p]
    /\ Touch({p})

\* A symbolic link takes the name p.  It may be dead: q need not be there.
\* Bound: links have one step, none leads to a link.
MakeLink(p, q) ==
    /\ p # q /\ disk[q] # "link"
    /\ \A r \in Paths \ {p} : leads[r] # p
    /\ disk' = [disk EXCEPT ![p] = "link"]
    /\ leads' = [leads EXCEPT ![p] = q]
    /\ Touch({p})

Rename(p, q) ==
    /\ p # q /\ disk[p] = "note"
    /\ disk' = [disk EXCEPT ![p] = "absent", ![q] = "note"]
    /\ leads' = [leads EXCEPT ![q] = q]
    /\ Touch({p, q})

\* Bound: the last Debounce ticks pass only when no event is under way.
Tick ==
    /\ now < MaxTime
    /\ now + Debounce < MaxTime \/ (emitted = {} /\ raw \cup looking \cup kept = {})
    /\ now' = now + 1
    /\ UNCHANGED <<disk, leads, dirty, changes, observerVars, queueVars, threadVars,
                   flagVars, lifeVars>>
-----------------------------------------------------------------------------
(* The observer thread: paths_for_event, then DebouncedPathDispatcher.submit. *)
TakeEvent(e) ==
    /\ observer \in {"running", "stopping"}
    /\ raw = {} /\ looking = {} /\ kept = {}
    /\ e \in emitted
    /\ emitted' = emitted \ {e}
    /\ raw' = e
    /\ UNCHANGED <<worldVars, observer, looking, kept, queueVars, threadVars,
                   flagVars, lifeVars>>

\* Mutant: a name that is gone is not a path to refresh.
LookDropsDeleted(p) ==
    /\ p \in raw /\ looking = {}
    /\ raw' = raw \ {p}
    /\ looking' = IF disk[p] = "absent" THEN {} ELSE {p}
    /\ kept' = kept
    /\ UNCHANGED <<worldVars, emitted, observer, queueVars, threadVars, flagVars, lifeVars>>

\* candidate.exists() or candidate.is_symlink()
Look(p) ==
    /\ p \in raw /\ looking = {}
    /\ raw' = raw \ {p}
    /\ looking' = IF disk[p] = "absent" THEN {} ELSE {p}
    /\ kept' = IF disk[p] = "absent" THEN kept \cup {p} ELSE kept
    /\ UNCHANGED <<worldVars, emitted, observer, queueVars, threadVars, flagVars, lifeVars>>

\* verify_existing_markdown_path: the resolved name if a note is there now, None
\* if it is gone, the link is dead or leads out of the notes.
Verify(p) ==
    /\ p \in looking
    /\ looking' = {}
    /\ kept' = IF disk[leads[p]] = "note" THEN kept \cup {leads[p]} ELSE kept
    /\ UNCHANGED <<worldVars, emitted, observer, raw, queueVars, threadVars,
                   flagVars, lifeVars>>

\* DebouncedPathQueue.add: every event restarts the quiet period.
Add(ps) ==
    /\ queue' = queue \cup ps
    /\ deadline' = [p \in Paths |-> IF p \in ps THEN now + Debounce ELSE deadline[p]]

\* Mutant: a sleeping dispatcher is not notified.
NotifyNobody == UNCHANGED <<thread, wakeAt>>

\* Condition.notify: the dispatcher, if it sleeps, runs its loop again.
Notify ==
    /\ thread' = IF thread = "asleep" THEN "awake" ELSE thread
    /\ UNCHANGED wakeAt

Submit ==
    /\ raw = {} /\ looking = {} /\ kept # {}
    /\ kept' = {}
    /\ \/ /\ ~accepting
          /\ UNCHANGED <<queueVars, thread, wakeAt>>
       \/ /\ accepting
          /\ Add(kept)
          /\ accepted' = accepted \cup kept
          /\ lastSubmit' = [p \in Paths |-> IF p \in kept THEN now ELSE lastSubmit[p]]
          /\ Notify
    /\ UNCHANGED <<worldVars, emitted, observer, raw, looking, inHand, lastRound,
                   flagVars, lifeVars>>

\* observer.stop() took effect: the thread ends between two events and the
\* events it has not taken are gone.
ObserverExits ==
    /\ observer = "stopping"
    /\ raw = {} /\ looking = {} /\ kept = {}
    /\ observer' = "dead" /\ emitted' = {}
    /\ UNCHANGED <<worldVars, raw, looking, kept, queueVars, threadVars, flagVars, lifeVars>>
-----------------------------------------------------------------------------
(* The dispatcher thread: DebouncedPathDispatcher._run.                    *)
IsNextDeadline(d) ==
    /\ \E p \in queue : d = deadline[p]
    /\ \A p \in queue : d <= deadline[p]

Sleep ==
    /\ thread = "awake" /\ ~stopping
    /\ thread' = "asleep"
    /\ \/ queue = {} /\ wakeAt' = Never
       \/ \E d \in (now + 1)..(MaxTime + Debounce) : IsNextDeadline(d) /\ wakeAt' = d
    /\ UNCHANGED <<worldVars, observerVars, queueVars, inHand, lastRound, flagVars, lifeVars>>

WakeUp ==
    /\ thread = "asleep" /\ wakeAt <= now
    /\ thread' = "awake"
    /\ UNCHANGED <<worldVars, observerVars, queueVars, wakeAt, inHand, lastRound,
                   flagVars, lifeVars>>

PopReady ==
    /\ thread = "awake" /\ ~stopping
    /\ \E p \in queue : deadline[p] <= now
    /\ inHand' = {p \in queue : deadline[p] <= now}
    /\ queue' = queue \ inHand'
    /\ thread' = "dispatching" /\ lastRound' = FALSE
    /\ UNCHANGED <<worldVars, observerVars, deadline, lastSubmit, accepted, wakeAt, flagVars, lifeVars>>

PopAll ==
    /\ thread = "awake" /\ stopping
    /\ inHand' = IF flushOnStop THEN queue ELSE {}
    /\ queue' = IF flushOnStop THEN {} ELSE queue
    /\ thread' = "dispatching" /\ lastRound' = TRUE
    /\ UNCHANGED <<worldVars, observerVars, deadline, lastSubmit, accepted, wakeAt, flagVars, lifeVars>>

OnItsWay(p) ==
    (\E e \in emitted : p \in e) \/ p \in raw \cup looking \cup kept \cup queue

\* A name reaches the indexer under its own name or the one it resolves to.
Via(p) == {p, leads[p]}

\* _dispatch_paths: enqueue_paths of a closed indexer returns 0.  Names that
\* changed again and are queued or on their way again stay dirty.
Dispatch ==
    /\ thread = "dispatching"
    /\ dirty' = IF indexerOpen
                 THEN {p \in dirty : Via(p) \cap inHand = {} \/ \E q \in Via(p) : OnItsWay(q)}
                 ELSE dirty
    /\ accepted' = IF indexerOpen THEN accepted \ (inHand \ queue) ELSE accepted
    /\ inHand' = {}
    /\ thread' = IF lastRound THEN "exited" ELSE "awake"
    /\ UNCHANGED <<now, disk, leads, changes, observerVars, queue, deadline, lastSubmit,
                   wakeAt, lastRound, flagVars, lifeVars>>
-----------------------------------------------------------------------------
(* lifespan, with SemanticFilesystemWatcher.start and stop.                *)
StartDispatcher ==
    /\ phase = "new"
    /\ accepting' = TRUE
    /\ thread' = "awake"
    /\ phase' = "starting"
    /\ UNCHANGED <<worldVars, observerVars, queueVars, wakeAt, inHand, lastRound,
                   stopping, flushOnStop, failed, indexerOpen>>

StartObserver ==
    /\ phase = "starting"
    /\ observer' = "running"
    /\ phase' = "serving"
    /\ UNCHANGED <<worldVars, emitted, raw, looking, kept, queueVars, threadVars,
                   flagVars, failed, indexerOpen>>

\* The observer cannot be created, scheduled or started: no handler has run,
\* dispatcher.stop(flush=False), and start() raises.
StartFails ==
    /\ phase = "starting"
    /\ accepting' = FALSE /\ stopping' = TRUE /\ flushOnStop' = FALSE
    /\ Notify
    /\ failed' = TRUE
    /\ phase' = "joiningDispatcher"
    /\ UNCHANGED <<worldVars, observerVars, queueVars, inHand, lastRound, indexerOpen>>

StopObserver ==
    /\ phase = "serving"
    /\ observer' = "stopping"
    /\ phase' = "joiningObserver"
    /\ UNCHANGED <<worldVars, emitted, raw, looking, kept, queueVars, threadVars,
                   flagVars, failed, indexerOpen>>

\* observer.join(timeout): the thread has ended, or it has not in time.
ObserverJoined ==
    /\ phase = "joiningObserver"
    /\ failed' = (failed \/ observer # "dead")
    /\ phase' = "stoppingDispatcher"
    /\ UNCHANGED <<worldVars, observerVars, queueVars, threadVars, flagVars, indexerOpen>>

StopDispatcher ==
    /\ phase = "stoppingDispatcher"
    /\ accepting' = FALSE /\ stopping' = TRUE /\ flushOnStop' = TRUE
    /\ Notify
    /\ phase' = "joiningDispatcher"
    /\ UNCHANGED <<worldVars, observerVars, queueVars, inHand, lastRound, failed, indexerOpen>>

DispatcherJoined ==
    /\ phase = "joiningDispatcher"
    /\ failed' = (failed \/ thread # "exited")
    /\ phase' = "watcherDown"
    /\ UNCHANGED <<worldVars, observerVars, queueVars, threadVars, flagVars, indexerOpen>>

ShutdownIndexer ==
    /\ phase = "watcherDown"
    /\ indexerOpen' = FALSE
    /\ phase' = "down"
    /\ UNCHANGED <<worldVars, observerVars, queueVars, threadVars, flagVars, failed>>

ObserverStep ==
    \/ \E e \in SUBSET Paths : TakeEvent(e)
    \/ \E p \in Paths : Look(p) \/ Verify(p)
    \/ Submit \/ ObserverExits

DispatcherStep == Sleep \/ WakeUp \/ PopReady \/ PopAll \/ Dispatch

LifespanStep ==
    \/ StartDispatcher \/ StartObserver \/ StartFails \/ StopObserver
    \/ ObserverJoined \/ StopDispatcher \/ DispatcherJoined \/ ShutdownIndexer

Next ==
    \/ \E p \in Paths, d \in {"note", "absent", "unsafe"} : Change(p, d)
    \/ \E p, q \in Paths : Rename(p, q) \/ MakeLink(p, q)
    \/ Tick
    \/ ObserverStep \/ DispatcherStep \/ LifespanStep

Spec == Init /\ [][Next]_vars

(* Threads that can run do, and the clock advances; nobody has to change   *)
(* the vault or to stop the application.                                   *)
Fairness == WF_vars(Tick) /\ WF_vars(ObserverStep) /\ WF_vars(DispatcherStep)

FairSpec == Spec /\ Fairness
-----------------------------------------------------------------------------
(* Properties.                                                             *)

\* What Verify drops on purpose: a name that resolves to something unsafe, and a
\* link that leads to no note.
Refused(p) == disk[leads[p]] = "unsafe" \/ (leads[p] # p /\ disk[leads[p]] # "note")

\* A change to a note is never overlooked while the observer runs: until the
\* indexer has been told, the name, or the name it resolves to, is in an event,
\* on its way through the two looks at the disk, queued, or in the dispatcher's
\* hands.  A name that became a link is handed over only as the note it leads
\* to: that the note it was is gone, the indexer learns at its next full
\* synchronization.
NoOverlookedChange ==
    observer = "running" =>
        \A p \in dirty : Refused(p) \/ \E q \in Via(p) : OnItsWay(q) \/ q \in inHand

\* watcher.stop() that returns normally leaves nothing behind: both threads
\* have ended and every accepted name was handed to an indexer still open, so
\* the indexer.shutdown() that follows loses no accepted change.
CleanStop ==
    phase \in {"watcherDown", "down"} /\ ~failed =>
        /\ observer = "dead" /\ thread = "exited"
        /\ accepted = {} /\ kept = {}

\* Names handed to the indexer because they are due have been quiet for the
\* whole debounce interval since the last accepted event about them.
QuietPeriod ==
    [][\A p \in inHand' \ inHand : ~lastRound' => lastSubmit[p] + Debounce <= now]_vars

\* Names whose last accepted event is the same one leave the queue together: the
\* indexer gets both ends of a rename in one batch, unless one of them changed
\* again meanwhile and waits longer.
BatchTogether ==
    \A p, q \in Paths :
        lastSubmit[p] = lastSubmit[q] => (p \in queue <=> q \in queue)

\* The dispatcher never sleeps past a deadline or through a stop request: what
\* Condition.wait was told is no later than the earliest queued deadline, which
\* a submit() since then can only have changed by waking it.
NoOversleep ==
    thread = "asleep" => ~stopping /\ \A p \in queue : wakeAt <= deadline[p]

\* The facts that make the properties above inductive: where the names can be
\* in each state of the two threads, what each phase of lifespan has already
\* achieved when nothing failed, that a name not queued while submissions are
\* accepted has been due since, and that links have one step.
ThreadShape ==
    /\ inHand # {} => thread = "dispatching"
    /\ accepted \subseteq queue \cup inHand \/ failed
    /\ thread = "exited" => lastRound
    /\ lastRound => stopping /\ (flushOnStop => queue = {})
    /\ raw \cup looking \cup kept # {} => observer \in {"running", "stopping"}
    /\ observer = "none" => dirty = {}
    /\ \A p, q \in looking : p = q

PhaseShape ==
    /\ phase = "new" => thread = "none"
    /\ phase = "starting" => accepting
    /\ phase \in {"new", "starting"} => observer = "none"
    /\ stopping <=> phase \in {"joiningDispatcher", "watcherDown", "down"}
    /\ stopping => ~accepting
    /\ ~failed /\ stopping => flushOnStop
    /\ ~failed /\ (stopping \/ phase = "stoppingDispatcher") => observer = "dead"
    /\ ~failed /\ phase \in {"watcherDown", "down"} => thread = "exited"
    /\ ~indexerOpen => phase = "down"

QueueShape ==
    \A p \in Paths :
        /\ lastSubmit[p] <= now
        /\ p \in queue => lastSubmit[p] >= 0 /\ deadline[p] = lastSubmit[p] + Debounce
        /\ p \notin queue /\ ~lastRound => lastSubmit[p] = -1 \/ lastSubmit[p] + Debounce <= now

LinkShape ==
    \A p \in Paths :
        /\ disk[p] = "link" <=> leads[p] # p
        /\ disk[leads[p]] # "link"

ObserverShape ==
    observer = "running" =>
        /\ accepting /\ phase = "serving"
        /\ \A p \in looking : disk[p] = "absent" => \E e \in emitted : p \in e

WatcherInv ==
    /\ TypeOK
    /\ ThreadShape
    /\ PhaseShape
    /\ QueueShape
    /\ LinkShape
    /\ ObserverShape
    /\ NoOversleep
    /\ BatchTogether
    /\ NoOverlookedChange

\* Every accepted name is handed over in the end: the dispatcher cannot sleep
\* through a notification or past a deadline, nor be stopped with names left.
AcceptedIsDispatched == \A p \in Paths : p \in queue ~> p \notin queue

(* A change to a note is on its way to the indexer for as long as the      *)
(* observer runs, and a stop that returns normally has handed over every   *)
(* name it accepted.                                                       *)
ChangesAccounted == NoOverlookedChange /\ CleanStop
=============================================================================

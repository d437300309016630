---------------------- MODULE FilesystemWatcher_proof ----------------------
(***************************************************************************)
(* Proofs about FilesystemWatcher, for every set of names, debounce        *)
(* interval and bound.                                                     *)
(***************************************************************************)
EXTENDS FilesystemWatcher, TLAPS

\* The initial state satisfies the inductive invariant.
LEMMA InitEstablishes == Init => WatcherInv
<1> SUFFICES ASSUME Init PROVE WatcherInv
  OBVIOUS
<1> USE FilesystemWatcherAssumption DEF Init
<1>0. 0 \in 0..(MaxTime + Debounce) /\ -1 \in -1..MaxTime /\ 0 \in 0..MaxChanges /\ now \in Time
      /\ wakeAt \in 0..Never
  BY DEF Time, Never
<1>1. TypeOK
  BY <1>0 DEF TypeOK, Phase
<1>2. ThreadShape /\ PhaseShape /\ QueueShape /\ ObserverShape
  BY DEF ThreadShape, PhaseShape, QueueShape, ObserverShape
<1>3. LinkShape
  BY DEF LinkShape
<1>4. NoOversleep /\ BatchTogether /\ NoOverlookedChange
  BY DEF NoOversleep, BatchTogether, NoOverlookedChange
<1> QED
  BY <1>1, <1>2, <1>3, <1>4 DEF WatcherInv

\* A change is tracked from the moment it is made: the event that watchdog
\* emits for it carries every name the change touched, so a name that resolves
\* elsewhere than before, or to something else, is on its way.
LEMMA TouchIsTracked ==
    ASSUME WatcherInv, NEW ps \in SUBSET Paths, Touch(ps),
           \A q \in Paths \ ps : disk'[q] = disk[q] /\ leads'[q] = leads[q]
    PROVE  ObserverShape' /\ NoOverlookedChange'
<1> USE DEF Touch, WatcherInv, TypeOK
<1>1. CASE observer = "running"
  <2>1. \A q \in ps : \E e \in emitted' : q \in e
    BY <1>1
  <2>2. \A q : (\E e \in emitted : q \in e) => \E e \in emitted' : q \in e
    BY <1>1
  <2>3. ObserverShape'
    BY <1>1, <2>1, <2>2 DEF ObserverShape, flagVars, lifeVars
  <2>4. \A q : OnItsWay(q) => OnItsWay(q)'
    BY <2>2 DEF OnItsWay, queueVars
  <2>5. \A q \in ps : OnItsWay(q)'
    BY <2>1 DEF OnItsWay
  <2> SUFFICES ASSUME NEW p \in dirty', p \notin ps, leads[p] \notin ps
               PROVE  Refused(p)' \/ \E q \in Via(p)' : OnItsWay(q)' \/ q \in inHand'
    BY <2>3, <2>5 DEF NoOverlookedChange, Via
  <2>6. p \in dirty /\ p \in Paths /\ leads'[p] = leads[p] /\ disk'[leads[p]] = disk[leads[p]]
    BY <1>1
  <2>7. Refused(p) \/ \E q \in Via(p) : OnItsWay(q) \/ q \in inHand
    BY <1>1, <2>6 DEF NoOverlookedChange
  <2>8. Via(p)' = Via(p) /\ (Refused(p) <=> Refused(p)') /\ inHand' = inHand
    BY <2>6 DEF Via, Refused, threadVars
  <2> QED
    BY <2>4, <2>7, <2>8
<1>2. CASE observer # "running"
  BY <1>2 DEF ObserverShape, NoOverlookedChange
<1> QED
  BY <1>1, <1>2

\* Links keep their one step: whoever takes the name of a link's target is no
\* link, and a name that becomes a link had nothing leading to it.
LEMMA LinksKeepShape == WatcherInv /\ [Next]_vars => LinkShape'
<1> SUFFICES ASSUME WatcherInv, [Next]_vars PROVE LinkShape'
  OBVIOUS
<1>0. LinkShape /\ disk \in [Paths -> {"note", "absent", "link", "unsafe"}]
      /\ leads \in [Paths -> Paths]
  BY DEF WatcherInv, TypeOK
<1>1. CASE \E p \in Paths, d \in {"note", "absent", "unsafe"} : Change(p, d)
  BY <1>0, <1>1 DEF Change, LinkShape
<1>2. CASE \E p, q \in Paths : Rename(p, q)
  BY <1>0, <1>2 DEF Rename, LinkShape
<1>3. CASE \E p, q \in Paths : MakeLink(p, q)
  BY <1>0, <1>3 DEF MakeLink, LinkShape
<1>4. CASE UNCHANGED <<disk, leads>>
  BY <1>0, <1>4 DEF LinkShape
<1>5. CASE ObserverStep
  BY <1>4, <1>5 DEF ObserverStep, TakeEvent, Look, Verify, Submit, ObserverExits, worldVars
<1>6. CASE DispatcherStep
  BY <1>4, <1>6 DEF DispatcherStep, Sleep, WakeUp, PopReady, PopAll, Dispatch, worldVars
<1>7. CASE LifespanStep
  BY <1>4, <1>7 DEF LifespanStep, StartDispatcher, StartObserver, StartFails, StopObserver,
       ObserverJoined, StopDispatcher, DispatcherJoined, ShutdownIndexer, worldVars
<1>8. CASE Tick \/ UNCHANGED vars
  BY <1>4, <1>8 DEF Tick, vars, worldVars
<1> QED
  BY <1>1, <1>2, <1>3, <1>5, <1>6, <1>7, <1>8 DEF Next

\* Every step preserves the inductive invariant.
LEMMA StepPreserves == WatcherInv /\ [Next]_vars => WatcherInv'
<1> SUFFICES ASSUME WatcherInv, [Next]_vars PROVE WatcherInv'
  OBVIOUS
<1>0. LinkShape'
  BY LinksKeepShape
<1> USE FilesystemWatcherAssumption DEF WatcherInv, TypeOK
<1>1. CASE \E p \in Paths, d \in {"note", "absent", "unsafe"} : Change(p, d)
  <2> PICK p \in Paths, d \in {"note", "absent", "unsafe"} : Change(p, d)
    BY <1>1
  <2>0. ObserverShape' /\ NoOverlookedChange'
    BY TouchIsTracked, {p} \in SUBSET Paths DEF Change
  <2>1. TypeOK'
    BY DEF Change, Touch, Time, Never, Phase,
         worldVars, observerVars, queueVars, threadVars, flagVars, lifeVars
  <2>2. ThreadShape'
    BY DEF Change, Touch, ThreadShape, PhaseShape,
         worldVars, observerVars, queueVars, threadVars, flagVars, lifeVars
  <2>3. PhaseShape'
    BY DEF Change, Touch, PhaseShape, ThreadShape, Phase,
         worldVars, observerVars, queueVars, threadVars, flagVars, lifeVars
  <2>4. QueueShape'
    BY DEF Change, Touch, QueueShape, Time, ThreadShape, PhaseShape,
         worldVars, observerVars, queueVars, threadVars, flagVars, lifeVars
  <2>6. NoOversleep'
    BY DEF Change, Touch, NoOversleep, QueueShape, Never, Time, PhaseShape,
         worldVars, observerVars, queueVars, threadVars, flagVars, lifeVars
  <2>7. BatchTogether'
    BY DEF Change, Touch, BatchTogether, QueueShape, ThreadShape, PhaseShape, Time,
         worldVars, observerVars, queueVars, threadVars, flagVars, lifeVars
  <2> QED
    BY <1>0, <2>0, <2>1, <2>2, <2>3, <2>4, <2>6, <2>7
<1>2. CASE \E p, q \in Paths : Rename(p, q)
  <2> PICK p \in Paths, q \in Paths : Rename(p, q)
    BY <1>2
  <2>0. ObserverShape' /\ NoOverlookedChange'
    BY TouchIsTracked, {p, q} \in SUBSET Paths DEF Rename
  <2>1. TypeOK'
    BY DEF Rename, Touch, Time, Never, Phase,
         worldVars, observerVars, queueVars, threadVars, flagVars, lifeVars
  <2>2. ThreadShape'
    BY DEF Rename, Touch, ThreadShape, PhaseShape,
         worldVars, observerVars, queueVars, threadVars, flagVars, lifeVars
  <2>3. PhaseShape'
    BY DEF Rename, Touch, PhaseShape, ThreadShape, Phase,
         worldVars, observerVars, queueVars, threadVars, flagVars, lifeVars
  <2>4. QueueShape'
    BY DEF Rename, Touch, QueueShape, Time, ThreadShape, PhaseShape,
         worldVars, observerVars, queueVars, threadVars, flagVars, lifeVars
  <2>6. NoOversleep'
    BY DEF Rename, Touch, NoOversleep, QueueShape, Never, Time, PhaseShape,
         worldVars, observerVars, queueVars, threadVars, flagVars, lifeVars
  <2>7. BatchTogether'
    BY DEF Rename, Touch, BatchTogether, QueueShape, ThreadShape, PhaseShape, Time,
         worldVars, observerVars, queueVars, threadVars, flagVars, lifeVars
  <2> QED
    BY <1>0, <2>0, <2>1, <2>2, <2>3, <2>4, <2>6, <2>7
<1>23. CASE \E p, q \in Paths : MakeLink(p, q)
  <2> PICK p \in Paths, q \in Paths : MakeLink(p, q)
    BY <1>23
  <2>0. ObserverShape' /\ NoOverlookedChange'
    BY TouchIsTracked, {p} \in SUBSET Paths DEF MakeLink
  <2>1. TypeOK'
    BY DEF MakeLink, Touch, Time, Never, Phase,
         worldVars, observerVars, queueVars, threadVars, flagVars, lifeVars
  <2>2. ThreadShape'
    BY DEF MakeLink, Touch, ThreadShape, PhaseShape,
         worldVars, observerVars, queueVars, threadVars, flagVars, lifeVars
  <2>3. PhaseShape'
    BY DEF MakeLink, Touch, PhaseShape, ThreadShape, Phase,
         worldVars, observerVars, queueVars, threadVars, flagVars, lifeVars
  <2>4. QueueShape'
    BY DEF MakeLink, Touch, QueueShape, Time, ThreadShape, PhaseShape,
         worldVars, observerVars, queueVars, threadVars, flagVars, lifeVars
  <2>6. NoOversleep'
    BY DEF MakeLink, Touch, NoOversleep, QueueShape, Never, Time, PhaseShape,
         worldVars, observerVars, queueVars, threadVars, flagVars, lifeVars
  <2>7. BatchTogether'
    BY DEF MakeLink, Touch, BatchTogether, QueueShape, ThreadShape, PhaseShape, Time,
         worldVars, observerVars, queueVars, threadVars, flagVars, lifeVars
  <2> QED
    BY <1>0, <2>0, <2>1, <2>2, <2>3, <2>4, <2>6, <2>7
<1>3. CASE Tick
  <2>1. TypeOK'
    BY <1>3 DEF Tick, Time, Never, Phase,
         worldVars, observerVars, queueVars, threadVars, flagVars, lifeVars
  <2>2. ThreadShape'
    BY <1>3 DEF Tick, ThreadShape, PhaseShape,
         worldVars, observerVars, queueVars, threadVars, flagVars, lifeVars
  <2>3. PhaseShape'
    BY <1>3 DEF Tick, PhaseShape, ThreadShape, Phase,
         worldVars, observerVars, queueVars, threadVars, flagVars, lifeVars
  <2>4. QueueShape'
    BY <1>3 DEF Tick, QueueShape, Time, ThreadShape, PhaseShape,
         worldVars, observerVars, queueVars, threadVars, flagVars, lifeVars
  <2>5. ObserverShape'
    BY <1>3 DEF Tick, ObserverShape, PhaseShape, ThreadShape,
         worldVars, observerVars, queueVars, threadVars, flagVars, lifeVars
  <2>6. NoOversleep'
    BY <1>3 DEF Tick, NoOversleep, QueueShape, Never, Time, PhaseShape,
         worldVars, observerVars, queueVars, threadVars, flagVars, lifeVars
  <2>7. BatchTogether'
    BY <1>3 DEF Tick, BatchTogether, QueueShape, ThreadShape, PhaseShape, Time,
         worldVars, observerVars, queueVars, threadVars, flagVars, lifeVars
  <2>8. NoOverlookedChange'
    BY <1>3 DEF Tick, NoOverlookedChange, OnItsWay, Via, Refused, ObserverShape, PhaseShape, ThreadShape,
         worldVars, observerVars, queueVars, threadVars, flagVars, lifeVars
  <2> QED
    BY <1>0, <2>1, <2>2, <2>3, <2>4, <2>5, <2>6, <2>7, <2>8
<1>4. CASE \E e \in SUBSET Paths : TakeEvent(e)
  <2>1. TypeOK'
    BY <1>4 DEF TakeEvent, Time, Never, Phase,
         worldVars, observerVars, queueVars, threadVars, flagVars, lifeVars
  <2>2. ThreadShape'
    BY <1>4 DEF TakeEvent, ThreadShape, PhaseShape,
         worldVars, observerVars, queueVars, threadVars, flagVars, lifeVars
  <2>3. PhaseShape'
    BY <1>4 DEF TakeEvent, PhaseShape, ThreadShape, Phase,
         worldVars, observerVars, queueVars, threadVars, flagVars, lifeVars
  <2>4. QueueShape'
    BY <1>4 DEF TakeEvent, QueueShape, Time, ThreadShape, PhaseShape,
         worldVars, observerVars, queueVars, threadVars, flagVars, lifeVars
  <2>5. ObserverShape'
    BY <1>4 DEF TakeEvent, ObserverShape, PhaseShape, ThreadShape,
         worldVars, observerVars, queueVars, threadVars, flagVars, lifeVars
  <2>6. NoOversleep'
    BY <1>4 DEF TakeEvent, NoOversleep, QueueShape, Never, Time, PhaseShape,
         worldVars, observerVars, queueVars, threadVars, flagVars, lifeVars
  <2>7. BatchTogether'
    BY <1>4 DEF TakeEvent, BatchTogether, QueueShape, ThreadShape, PhaseShape, Time,
         worldVars, observerVars, queueVars, threadVars, flagVars, lifeVars
  <2>8. NoOverlookedChange'
    BY <1>4 DEF TakeEvent, NoOverlookedChange, OnItsWay, Via, Refused, ObserverShape, PhaseShape, ThreadShape,
         worldVars, observerVars, queueVars, threadVars, flagVars, lifeVars
  <2> QED
    BY <1>0, <2>1, <2>2, <2>3, <2>4, <2>5, <2>6, <2>7, <2>8
<1>5. CASE \E p \in Paths : Look(p)
  <2>1. TypeOK'
    BY <1>5 DEF Look, Time, Never, Phase,
         worldVars, observerVars, queueVars, threadVars, flagVars, lifeVars
  <2>2. ThreadShape'
    BY <1>5 DEF Look, ThreadShape, PhaseShape,
         worldVars, observerVars, queueVars, threadVars, flagVars, lifeVars
  <2>3. PhaseShape'
    BY <1>5 DEF Look, PhaseShape, ThreadShape, Phase,
         worldVars, observerVars, queueVars, threadVars, flagVars, lifeVars
  <2>4. QueueShape'
    BY <1>5 DEF Look, QueueShape, Time, ThreadShape, PhaseShape,
         worldVars, observerVars, queueVars, threadVars, flagVars, lifeVars
  <2>5. ObserverShape'
    BY <1>5 DEF Look, ObserverShape, PhaseShape, ThreadShape,
         worldVars, observerVars, queueVars, threadVars, flagVars, lifeVars
  <2>6. NoOversleep'
    BY <1>5 DEF Look, NoOversleep, QueueShape, Never, Time, PhaseShape,
         worldVars, observerVars, queueVars, threadVars, flagVars, lifeVars
  <2>7. BatchTogether'
    BY <1>5 DEF Look, BatchTogether, QueueShape, ThreadShape, PhaseShape, Time,
         worldVars, observerVars, queueVars, threadVars, flagVars, lifeVars
  <2>8. NoOverlookedChange'
    BY <1>5 DEF Look, NoOverlookedChange, OnItsWay, Via, Refused, ObserverShape, PhaseShape, ThreadShape,
         worldVars, observerVars, queueVars, threadVars, flagVars, lifeVars
  <2> QED
    BY <1>0, <2>1, <2>2, <2>3, <2>4, <2>5, <2>6, <2>7, <2>8
<1>6. CASE \E p \in Paths : Verify(p)
  <2>1. TypeOK'
    BY <1>6 DEF Verify, Time, Never, Phase,
         worldVars, observerVars, queueVars, threadVars, flagVars, lifeVars
  <2>2. ThreadShape'
    BY <1>6 DEF Verify, ThreadShape, PhaseShape,
         worldVars, observerVars, queueVars, threadVars, flagVars, lifeVars
  <2>3. PhaseShape'
    BY <1>6 DEF Verify, PhaseShape, ThreadShape, Phase,
         worldVars, observerVars, queueVars, threadVars, flagVars, lifeVars
  <2>4. QueueShape'
    BY <1>6 DEF Verify, QueueShape, Time, ThreadShape, PhaseShape,
         worldVars, observerVars, queueVars, threadVars, flagVars, lifeVars
  <2>5. ObserverShape'
    BY <1>6 DEF Verify, ObserverShape, PhaseShape, ThreadShape,
         worldVars, observerVars, queueVars, threadVars, flagVars, lifeVars
  <2>6. NoOversleep'
    BY <1>6 DEF Verify, NoOversleep, QueueShape, Never, Time, PhaseShape,
         worldVars, observerVars, queueVars, threadVars, flagVars, lifeVars
  <2>7. BatchTogether'
    BY <1>6 DEF Verify, BatchTogether, QueueShape, ThreadShape, PhaseShape, Time,
         worldVars, observerVars, queueVars, threadVars, flagVars, lifeVars
  <2>8. NoOverlookedChange'
    <3> PICK p \in Paths : Verify(p)
      BY <1>6
    <3> SUFFICES ASSUME observer = "running", NEW r \in dirty, ~Refused(r)
                 PROVE  \E q \in Via(r) : OnItsWay(q)' \/ q \in inHand'
      BY DEF Verify, NoOverlookedChange, Via, Refused, worldVars
    <3>1. PICK q \in Via(r) : OnItsWay(q) \/ q \in inHand
      BY DEF NoOverlookedChange
    <3>2. CASE q # p
      BY <3>1, <3>2 DEF Verify, OnItsWay, ThreadShape, queueVars, threadVars
    <3>3. CASE q = p /\ disk[leads[p]] = "note"
      <4>1. leads[p] \in Via(r)
        BY <3>3 DEF Via, LinkShape
      <4>2. leads[p] \in kept'
        BY <3>3 DEF Verify
      <4> QED
        BY <4>1, <4>2 DEF OnItsWay
    <3>4. CASE q = p /\ disk[leads[p]] # "note"
      <4>1. p = r /\ disk[p] = "absent"
        BY <3>4 DEF Via, Refused, LinkShape
      <4>2. \E e \in emitted : p \in e
        BY <4>1 DEF ObserverShape, Verify
      <4>3. OnItsWay(p)'
        BY <4>2 DEF Verify, OnItsWay
      <4> QED
        BY <3>4, <4>3
    <3> QED
      BY <3>2, <3>3, <3>4
  <2> QED
    BY <1>0, <2>1, <2>2, <2>3, <2>4, <2>5, <2>6, <2>7, <2>8
<1>7. CASE Submit
  <2>1. TypeOK'
    BY <1>7 DEF Submit, Add, Notify, Time, Never, Phase,
         worldVars, observerVars, queueVars, threadVars, flagVars, lifeVars
  <2>2. ThreadShape'
    BY <1>7 DEF Submit, Add, Notify, ThreadShape, PhaseShape,
         worldVars, observerVars, queueVars, threadVars, flagVars, lifeVars
  <2>3. PhaseShape'
    BY <1>7 DEF Submit, Add, Notify, PhaseShape, ThreadShape, Phase,
         worldVars, observerVars, queueVars, threadVars, flagVars, lifeVars
  <2>4. QueueShape'
    BY <1>7 DEF Submit, Add, Notify, QueueShape, Time, ThreadShape, PhaseShape,
         worldVars, observerVars, queueVars, threadVars, flagVars, lifeVars
  <2>5. ObserverShape'
    BY <1>7 DEF Submit, Add, Notify, ObserverShape, PhaseShape, ThreadShape,
         worldVars, observerVars, queueVars, threadVars, flagVars, lifeVars
  <2>6. NoOversleep'
    BY <1>7 DEF Submit, Add, Notify, NoOversleep, QueueShape, Never, Time, PhaseShape,
         worldVars, observerVars, queueVars, threadVars, flagVars, lifeVars
  <2>7. BatchTogether'
    BY <1>7 DEF Submit, Add, Notify, BatchTogether, QueueShape, ThreadShape, PhaseShape, Time,
         worldVars, observerVars, queueVars, threadVars, flagVars, lifeVars
  <2>8. NoOverlookedChange'
    BY <1>7 DEF Submit, Add, Notify, NoOverlookedChange, OnItsWay, Via, Refused, ObserverShape, PhaseShape, ThreadShape,
         worldVars, observerVars, queueVars, threadVars, flagVars, lifeVars
  <2> QED
    BY <1>0, <2>1, <2>2, <2>3, <2>4, <2>5, <2>6, <2>7, <2>8
<1>8. CASE ObserverExits
  <2>1. TypeOK'
    BY <1>8 DEF ObserverExits, Time, Never, Phase,
         worldVars, observerVars, queueVars, threadVars, flagVars, lifeVars
  <2>2. ThreadShape'
    BY <1>8 DEF ObserverExits, ThreadShape, PhaseShape,
         worldVars, observerVars, queueVars, threadVars, flagVars, lifeVars
  <2>3. PhaseShape'
    BY <1>8 DEF ObserverExits, PhaseShape, ThreadShape, Phase,
         worldVars, observerVars, queueVars, threadVars, flagVars, lifeVars
  <2>4. QueueShape'
    BY <1>8 DEF ObserverExits, QueueShape, Time, ThreadShape, PhaseShape,
         worldVars, observerVars, queueVars, threadVars, flagVars, lifeVars
  <2>5. ObserverShape'
    BY <1>8 DEF ObserverExits, ObserverShape, PhaseShape, ThreadShape,
         worldVars, observerVars, queueVars, threadVars, flagVars, lifeVars
  <2>6. NoOversleep'
    BY <1>8 DEF ObserverExits, NoOversleep, QueueShape, Never, Time, PhaseShape,
         worldVars, observerVars, queueVars, threadVars, flagVars, lifeVars
  <2>7. BatchTogether'
    BY <1>8 DEF ObserverExits, BatchTogether, QueueShape, ThreadShape, PhaseShape, Time,
         worldVars, observerVars, queueVars, threadVars, flagVars, lifeVars
  <2>8. NoOverlookedChange'
    BY <1>8 DEF ObserverExits, NoOverlookedChange, OnItsWay, Via, Refused, ObserverShape, PhaseShape, ThreadShape,
         worldVars, observerVars, queueVars, threadVars, flagVars, lifeVars
  <2> QED
    BY <1>0, <2>1, <2>2, <2>3, <2>4, <2>5, <2>6, <2>7, <2>8
<1>9. CASE Sleep
  <2>1. TypeOK'
    BY <1>9 DEF Sleep, IsNextDeadline, Time, Never, Phase,
         worldVars, observerVars, queueVars, threadVars, flagVars, lifeVars
  <2>2. ThreadShape'
    BY <1>9 DEF Sleep, IsNextDeadline, ThreadShape, PhaseShape,
         worldVars, observerVars, queueVars, threadVars, flagVars, lifeVars
  <2>3. PhaseShape'
    BY <1>9 DEF Sleep, IsNextDeadline, PhaseShape, ThreadShape, Phase,
         worldVars, observerVars, queueVars, threadVars, flagVars, lifeVars
  <2>4. QueueShape'
    BY <1>9 DEF Sleep, IsNextDeadline, QueueShape, Time, ThreadShape, PhaseShape,
         worldVars, observerVars, queueVars, threadVars, flagVars, lifeVars
  <2>5. ObserverShape'
    BY <1>9 DEF Sleep, IsNextDeadline, ObserverShape, PhaseShape, ThreadShape,
         worldVars, observerVars, queueVars, threadVars, flagVars, lifeVars
  <2>6. NoOversleep'
    BY <1>9 DEF Sleep, IsNextDeadline, NoOversleep, QueueShape, Never, Time, PhaseShape,
         worldVars, observerVars, queueVars, threadVars, flagVars, lifeVars
  <2>7. BatchTogether'
    BY <1>9 DEF Sleep, IsNextDeadline, BatchTogether, QueueShape, ThreadShape, PhaseShape, Time,
         worldVars, observerVars, queueVars, threadVars, flagVars, lifeVars
  <2>8. NoOverlookedChange'
    BY <1>9 DEF Sleep, IsNextDeadline, NoOverlookedChange, OnItsWay, Via, Refused, ObserverShape, PhaseShape, ThreadShape,
         worldVars, observerVars, queueVars, threadVars, flagVars, lifeVars
  <2> QED
    BY <1>0, <2>1, <2>2, <2>3, <2>4, <2>5, <2>6, <2>7, <2>8
<1>10. CASE WakeUp
  <2>1. TypeOK'
    BY <1>10 DEF WakeUp, Time, Never, Phase,
         worldVars, observerVars, queueVars, threadVars, flagVars, lifeVars
  <2>2. ThreadShape'
    BY <1>10 DEF WakeUp, ThreadShape, PhaseShape,
         worldVars, observerVars, queueVars, threadVars, flagVars, lifeVars
  <2>3. PhaseShape'
    BY <1>10 DEF WakeUp, PhaseShape, ThreadShape, Phase,
         worldVars, observerVars, queueVars, threadVars, flagVars, lifeVars
  <2>4. QueueShape'
    BY <1>10 DEF WakeUp, QueueShape, Time, ThreadShape, PhaseShape,
         worldVars, observerVars, queueVars, threadVars, flagVars, lifeVars
  <2>5. ObserverShape'
    BY <1>10 DEF WakeUp, ObserverShape, PhaseShape, ThreadShape,
         worldVars, observerVars, queueVars, threadVars, flagVars, lifeVars
  <2>6. NoOversleep'
    BY <1>10 DEF WakeUp, NoOversleep, QueueShape, Never, Time, PhaseShape,
         worldVars, observerVars, queueVars, threadVars, flagVars, lifeVars
  <2>7. BatchTogether'
    BY <1>10 DEF WakeUp, BatchTogether, QueueShape, ThreadShape, PhaseShape, Time,
         worldVars, observerVars, queueVars, threadVars, flagVars, lifeVars
  <2>8. NoOverlookedChange'
    BY <1>10 DEF WakeUp, NoOverlookedChange, OnItsWay, Via, Refused, ObserverShape, PhaseShape, ThreadShape,
         worldVars, observerVars, queueVars, threadVars, flagVars, lifeVars
  <2> QED
    BY <1>0, <2>1, <2>2, <2>3, <2>4, <2>5, <2>6, <2>7, <2>8
<1>11. CASE PopReady
  <2>1. TypeOK'
    BY <1>11 DEF PopReady, Time, Never, Phase,
         worldVars, observerVars, queueVars, threadVars, flagVars, lifeVars
  <2>2. ThreadShape'
    BY <1>11 DEF PopReady, ThreadShape, PhaseShape,
         worldVars, observerVars, queueVars, threadVars, flagVars, lifeVars
  <2>3. PhaseShape'
    BY <1>11 DEF PopReady, PhaseShape, ThreadShape, Phase,
         worldVars, observerVars, queueVars, threadVars, flagVars, lifeVars
  <2>4. QueueShape'
    BY <1>11 DEF PopReady, QueueShape, Time, ThreadShape, PhaseShape,
         worldVars, observerVars, queueVars, threadVars, flagVars, lifeVars
  <2>5. ObserverShape'
    BY <1>11 DEF PopReady, ObserverShape, PhaseShape, ThreadShape,
         worldVars, observerVars, queueVars, threadVars, flagVars, lifeVars
  <2>6. NoOversleep'
    BY <1>11 DEF PopReady, NoOversleep, QueueShape, Never, Time, PhaseShape,
         worldVars, observerVars, queueVars, threadVars, flagVars, lifeVars
  <2>7. BatchTogether'
    BY <1>11 DEF PopReady, BatchTogether, QueueShape, ThreadShape, PhaseShape, Time,
         worldVars, observerVars, queueVars, threadVars, flagVars, lifeVars
  <2>8. NoOverlookedChange'
    BY <1>11 DEF PopReady, NoOverlookedChange, OnItsWay, Via, Refused, ObserverShape, PhaseShape, ThreadShape,
         worldVars, observerVars, queueVars, threadVars, flagVars, lifeVars
  <2> QED
    BY <1>0, <2>1, <2>2, <2>3, <2>4, <2>5, <2>6, <2>7, <2>8
<1>12. CASE PopAll
  <2>1. TypeOK'
    BY <1>12 DEF PopAll, Time, Never, Phase,
         worldVars, observerVars, queueVars, threadVars, flagVars, lifeVars
  <2>2. ThreadShape'
    BY <1>12 DEF PopAll, ThreadShape, PhaseShape,
         worldVars, observerVars, queueVars, threadVars, flagVars, lifeVars
  <2>3. PhaseShape'
    BY <1>12 DEF PopAll, PhaseShape, ThreadShape, Phase,
         worldVars, observerVars, queueVars, threadVars, flagVars, lifeVars
  <2>4. QueueShape'
    BY <1>12 DEF PopAll, QueueShape, Time, ThreadShape, PhaseShape,
         worldVars, observerVars, queueVars, threadVars, flagVars, lifeVars
  <2>5. ObserverShape'
    BY <1>12 DEF PopAll, ObserverShape, PhaseShape, ThreadShape,
         worldVars, observerVars, queueVars, threadVars, flagVars, lifeVars
  <2>6. NoOversleep'
    BY <1>12 DEF PopAll, NoOversleep, QueueShape, Never, Time, PhaseShape,
         worldVars, observerVars, queueVars, threadVars, flagVars, lifeVars
  <2>7. BatchTogether'
    BY <1>12 DEF PopAll, BatchTogether, QueueShape, ThreadShape, PhaseShape, Time,
         worldVars, observerVars, queueVars, threadVars, flagVars, lifeVars
  <2>8. NoOverlookedChange'
    BY <1>12 DEF PopAll, NoOverlookedChange, OnItsWay, Via, Refused, ObserverShape, PhaseShape, ThreadShape,
         worldVars, observerVars, queueVars, threadVars, flagVars, lifeVars
  <2> QED
    BY <1>0, <2>1, <2>2, <2>3, <2>4, <2>5, <2>6, <2>7, <2>8
<1>13. CASE Dispatch
  <2>1. TypeOK'
    BY <1>13 DEF Dispatch, OnItsWay, Time, Never, Phase,
         worldVars, observerVars, queueVars, threadVars, flagVars, lifeVars
  <2>2. ThreadShape'
    BY <1>13 DEF Dispatch, OnItsWay, ThreadShape, PhaseShape,
         worldVars, observerVars, queueVars, threadVars, flagVars, lifeVars
  <2>3. PhaseShape'
    BY <1>13 DEF Dispatch, OnItsWay, PhaseShape, ThreadShape, Phase,
         worldVars, observerVars, queueVars, threadVars, flagVars, lifeVars
  <2>4. QueueShape'
    BY <1>13 DEF Dispatch, OnItsWay, QueueShape, Time, ThreadShape, PhaseShape,
         worldVars, observerVars, queueVars, threadVars, flagVars, lifeVars
  <2>5. ObserverShape'
    BY <1>13 DEF Dispatch, OnItsWay, ObserverShape, PhaseShape, ThreadShape,
         worldVars, observerVars, queueVars, threadVars, flagVars, lifeVars
  <2>6. NoOversleep'
    BY <1>13 DEF Dispatch, OnItsWay, NoOversleep, QueueShape, Never, Time, PhaseShape,
         worldVars, observerVars, queueVars, threadVars, flagVars, lifeVars
  <2>7. BatchTogether'
    BY <1>13 DEF Dispatch, OnItsWay, BatchTogether, QueueShape, ThreadShape, PhaseShape, Time,
         worldVars, observerVars, queueVars, threadVars, flagVars, lifeVars
  <2>8. NoOverlookedChange'
    BY <1>13 DEF Dispatch, OnItsWay, NoOverlookedChange, OnItsWay, Via, Refused, ObserverShape, PhaseShape, ThreadShape,
         worldVars, observerVars, queueVars, threadVars, flagVars, lifeVars
  <2> QED
    BY <1>0, <2>1, <2>2, <2>3, <2>4, <2>5, <2>6, <2>7, <2>8
<1>14. CASE StartDispatcher
  <2>1. TypeOK'
    BY <1>14 DEF StartDispatcher, Time, Never, Phase,
         worldVars, observerVars, queueVars, threadVars, flagVars, lifeVars
  <2>2. ThreadShape'
    BY <1>14 DEF StartDispatcher, ThreadShape, PhaseShape,
         worldVars, observerVars, queueVars, threadVars, flagVars, lifeVars
  <2>3. PhaseShape'
    BY <1>14 DEF StartDispatcher, PhaseShape, ThreadShape, Phase,
         worldVars, observerVars, queueVars, threadVars, flagVars, lifeVars
  <2>4. QueueShape'
    BY <1>14 DEF StartDispatcher, QueueShape, Time, ThreadShape, PhaseShape,
         worldVars, observerVars, queueVars, threadVars, flagVars, lifeVars
  <2>5. ObserverShape'
    BY <1>14 DEF StartDispatcher, ObserverShape, PhaseShape, ThreadShape,
         worldVars, observerVars, queueVars, threadVars, flagVars, lifeVars
  <2>6. NoOversleep'
    BY <1>14 DEF StartDispatcher, NoOversleep, QueueShape, Never, Time, PhaseShape,
         worldVars, observerVars, queueVars, threadVars, flagVars, lifeVars
  <2>7. BatchTogether'
    BY <1>14 DEF StartDispatcher, BatchTogether, QueueShape, ThreadShape, PhaseShape, Time,
         worldVars, observerVars, queueVars, threadVars, flagVars, lifeVars
  <2>8. NoOverlookedChange'
    BY <1>14 DEF StartDispatcher, NoOverlookedChange, OnItsWay, Via, Refused, ObserverShape, PhaseShape, ThreadShape,
         worldVars, observerVars, queueVars, threadVars, flagVars, lifeVars
  <2> QED
    BY <1>0, <2>1, <2>2, <2>3, <2>4, <2>5, <2>6, <2>7, <2>8
<1>15. CASE StartObserver
  <2>1. TypeOK'
    BY <1>15 DEF StartObserver, Time, Never, Phase,
         worldVars, observerVars, queueVars, threadVars, flagVars, lifeVars
  <2>2. ThreadShape'
    BY <1>15 DEF StartObserver, ThreadShape, PhaseShape,
         worldVars, observerVars, queueVars, threadVars, flagVars, lifeVars
  <2>3. PhaseShape'
    BY <1>15 DEF StartObserver, PhaseShape, ThreadShape, Phase,
         worldVars, observerVars, queueVars, threadVars, flagVars, lifeVars
  <2>4. QueueShape'
    BY <1>15 DEF StartObserver, QueueShape, Time, ThreadShape, PhaseShape,
         worldVars, observerVars, queueVars, threadVars, flagVars, lifeVars
  <2>5. ObserverShape'
    BY <1>15 DEF StartObserver, ObserverShape, PhaseShape, ThreadShape,
         worldVars, observerVars, queueVars, threadVars, flagVars, lifeVars
  <2>6. NoOversleep'
    BY <1>15 DEF StartObserver, NoOversleep, QueueShape, Never, Time, PhaseShape,
         worldVars, observerVars, queueVars, threadVars, flagVars, lifeVars
  <2>7. BatchTogether'
    BY <1>15 DEF StartObserver, BatchTogether, QueueShape, ThreadShape, PhaseShape, Time,
         worldVars, observerVars, queueVars, threadVars, flagVars, lifeVars
  <2>8. NoOverlookedChange'
    BY <1>15 DEF StartObserver, NoOverlookedChange, OnItsWay, Via, Refused, ObserverShape, PhaseShape, ThreadShape,
         worldVars, observerVars, queueVars, threadVars, flagVars, lifeVars
  <2> QED
    BY <1>0, <2>1, <2>2, <2>3, <2>4, <2>5, <2>6, <2>7, <2>8
<1>16. CASE StartFails
  <2>1. TypeOK'
    BY <1>16 DEF StartFails, Notify, Time, Never, Phase,
         worldVars, observerVars, queueVars, threadVars, flagVars, lifeVars
  <2>2. ThreadShape'
    BY <1>16 DEF StartFails, Notify, ThreadShape, PhaseShape,
         worldVars, observerVars, queueVars, threadVars, flagVars, lifeVars
  <2>3. PhaseShape'
    BY <1>16 DEF StartFails, Notify, PhaseShape, ThreadShape, Phase,
         worldVars, observerVars, queueVars, threadVars, flagVars, lifeVars
  <2>4. QueueShape'
    BY <1>16 DEF StartFails, Notify, QueueShape, Time, ThreadShape, PhaseShape,
         worldVars, observerVars, queueVars, threadVars, flagVars, lifeVars
  <2>5. ObserverShape'
    BY <1>16 DEF StartFails, Notify, ObserverShape, PhaseShape, ThreadShape,
         worldVars, observerVars, queueVars, threadVars, flagVars, lifeVars
  <2>6. NoOversleep'
    BY <1>16 DEF StartFails, Notify, NoOversleep, QueueShape, Never, Time, PhaseShape,
         worldVars, observerVars, queueVars, threadVars, flagVars, lifeVars
  <2>7. BatchTogether'
    BY <1>16 DEF StartFails, Notify, BatchTogether, QueueShape, ThreadShape, PhaseShape, Time,
         worldVars, observerVars, queueVars, threadVars, flagVars, lifeVars
  <2>8. NoOverlookedChange'
    BY <1>16 DEF StartFails, Notify, NoOverlookedChange, OnItsWay, Via, Refused, ObserverShape, PhaseShape, ThreadShape,
         worldVars, observerVars, queueVars, threadVars, flagVars, lifeVars
  <2> QED
    BY <1>0, <2>1, <2>2, <2>3, <2>4, <2>5, <2>6, <2>7, <2>8
<1>17. CASE StopObserver
  <2>1. TypeOK'
    BY <1>17 DEF StopObserver, Time, Never, Phase,
         worldVars, observerVars, queueVars, threadVars, flagVars, lifeVars
  <2>2. ThreadShape'
    BY <1>17 DEF StopObserver, ThreadShape, PhaseShape,
         worldVars, observerVars, queueVars, threadVars, flagVars, lifeVars
  <2>3. PhaseShape'
    BY <1>17 DEF StopObserver, PhaseShape, ThreadShape, Phase,
         worldVars, observerVars, queueVars, threadVars, flagVars, lifeVars
  <2>4. QueueShape'
    BY <1>17 DEF StopObserver, QueueShape, Time, ThreadShape, PhaseShape,
         worldVars, observerVars, queueVars, threadVars, flagVars, lifeVars
  <2>5. ObserverShape'
    BY <1>17 DEF StopObserver, ObserverShape, PhaseShape, ThreadShape,
         worldVars, observerVars, queueVars, threadVars, flagVars, lifeVars
  <2>6. NoOversleep'
    BY <1>17 DEF StopObserver, NoOversleep, QueueShape, Never, Time, PhaseShape,
         worldVars, observerVars, queueVars, threadVars, flagVars, lifeVars
  <2>7. BatchTogether'
    BY <1>17 DEF StopObserver, BatchTogether, QueueShape, ThreadShape, PhaseShape, Time,
         worldVars, observerVars, queueVars, threadVars, flagVars, lifeVars
  <2>8. NoOverlookedChange'
    BY <1>17 DEF StopObserver, NoOverlookedChange, OnItsWay, Via, Refused, ObserverShape, PhaseShape, ThreadShape,
         worldVars, observerVars, queueVars, threadVars, flagVars, lifeVars
  <2> QED
    BY <1>0, <2>1, <2>2, <2>3, <2>4, <2>5, <2>6, <2>7, <2>8
<1>18. CASE ObserverJoined
  <2>1. TypeOK'
    BY <1>18 DEF ObserverJoined, Time, Never, Phase,
         worldVars, observerVars, queueVars, threadVars, flagVars, lifeVars
  <2>2. ThreadShape'
    BY <1>18 DEF ObserverJoined, ThreadShape, PhaseShape,
         worldVars, observerVars, queueVars, threadVars, flagVars, lifeVars
  <2>3. PhaseShape'
    BY <1>18 DEF ObserverJoined, PhaseShape, ThreadShape, Phase,
         worldVars, observerVars, queueVars, threadVars, flagVars, lifeVars
  <2>4. QueueShape'
    BY <1>18 DEF ObserverJoined, QueueShape, Time, ThreadShape, PhaseShape,
         worldVars, observerVars, queueVars, threadVars, flagVars, lifeVars
  <2>5. ObserverShape'
    BY <1>18 DEF ObserverJoined, ObserverShape, PhaseShape, ThreadShape,
         worldVars, observerVars, queueVars, threadVars, flagVars, lifeVars
  <2>6. NoOversleep'
    BY <1>18 DEF ObserverJoined, NoOversleep, QueueShape, Never, Time, PhaseShape,
         worldVars, observerVars, queueVars, threadVars, flagVars, lifeVars
  <2>7. BatchTogether'
    BY <1>18 DEF ObserverJoined, BatchTogether, QueueShape, ThreadShape, PhaseShape, Time,
         worldVars, observerVars, queueVars, threadVars, flagVars, lifeVars
  <2>8. NoOverlookedChange'
    BY <1>18 DEF ObserverJoined, NoOverlookedChange, OnItsWay, Via, Refused, ObserverShape, PhaseShape, ThreadShape,
         worldVars, observerVars, queueVars, threadVars, flagVars, lifeVars
  <2> QED
    BY <1>0, <2>1, <2>2, <2>3, <2>4, <2>5, <2>6, <2>7, <2>8
<1>19. CASE StopDispatcher
  <2>1. TypeOK'
    BY <1>19 DEF StopDispatcher, Notify, Time, Never, Phase,
         worldVars, observerVars, queueVars, threadVars, flagVars, lifeVars
  <2>2. ThreadShape'
    BY <1>19 DEF StopDispatcher, Notify, ThreadShape, PhaseShape,
         worldVars, observerVars, queueVars, threadVars, flagVars, lifeVars
  <2>3. PhaseShape'
    BY <1>19 DEF StopDispatcher, Notify, PhaseShape, ThreadShape, Phase,
         worldVars, observerVars, queueVars, threadVars, flagVars, lifeVars
  <2>4. QueueShape'
    BY <1>19 DEF StopDispatcher, Notify, QueueShape, Time, ThreadShape, PhaseShape,
         worldVars, observerVars, queueVars, threadVars, flagVars, lifeVars
  <2>5. ObserverShape'
    BY <1>19 DEF StopDispatcher, Notify, ObserverShape, PhaseShape, ThreadShape,
         worldVars, observerVars, queueVars, threadVars, flagVars, lifeVars
  <2>6. NoOversleep'
    BY <1>19 DEF StopDispatcher, Notify, NoOversleep, QueueShape, Never, Time, PhaseShape,
         worldVars, observerVars, queueVars, threadVars, flagVars, lifeVars
  <2>7. BatchTogether'
    BY <1>19 DEF StopDispatcher, Notify, BatchTogether, QueueShape, ThreadShape, PhaseShape, Time,
         worldVars, observerVars, queueVars, threadVars, flagVars, lifeVars
  <2>8. NoOverlookedChange'
    BY <1>19 DEF StopDispatcher, Notify, NoOverlookedChange, OnItsWay, Via, Refused, ObserverShape, PhaseShape, ThreadShape,
         worldVars, observerVars, queueVars, threadVars, flagVars, lifeVars
  <2> QED
    BY <1>0, <2>1, <2>2, <2>3, <2>4, <2>5, <2>6, <2>7, <2>8
<1>20. CASE DispatcherJoined
  <2>1. TypeOK'
    BY <1>20 DEF DispatcherJoined, Time, Never, Phase,
         worldVars, observerVars, queueVars, threadVars, flagVars, lifeVars
  <2>2. ThreadShape'
    BY <1>20 DEF DispatcherJoined, ThreadShape, PhaseShape,
         worldVars, observerVars, queueVars, threadVars, flagVars, lifeVars
  <2>3. PhaseShape'
    BY <1>20 DEF DispatcherJoined, PhaseShape, ThreadShape, Phase,
         worldVars, observerVars, queueVars, threadVars, flagVars, lifeVars
  <2>4. QueueShape'
    BY <1>20 DEF DispatcherJoined, QueueShape, Time, ThreadShape, PhaseShape,
         worldVars, observerVars, queueVars, threadVars, flagVars, lifeVars
  <2>5. ObserverShape'
    BY <1>20 DEF DispatcherJoined, ObserverShape, PhaseShape, ThreadShape,
         worldVars, observerVars, queueVars, threadVars, flagVars, lifeVars
  <2>6. NoOversleep'
    BY <1>20 DEF DispatcherJoined, NoOversleep, QueueShape, Never, Time, PhaseShape,
         worldVars, observerVars, queueVars, threadVars, flagVars, lifeVars
  <2>7. BatchTogether'
    BY <1>20 DEF DispatcherJoined, BatchTogether, QueueShape, ThreadShape, PhaseShape, Time,
         worldVars, observerVars, queueVars, threadVars, flagVars, lifeVars
  <2>8. NoOverlookedChange'
    BY <1>20 DEF DispatcherJoined, NoOverlookedChange, OnItsWay, Via, Refused, ObserverShape, PhaseShape, ThreadShape,
         worldVars, observerVars, queueVars, threadVars, flagVars, lifeVars
  <2> QED
    BY <1>0, <2>1, <2>2, <2>3, <2>4, <2>5, <2>6, <2>7, <2>8
<1>21. CASE ShutdownIndexer
  <2>1. TypeOK'
    BY <1>21 DEF ShutdownIndexer, Time, Never, Phase,
         worldVars, observerVars, queueVars, threadVars, flagVars, lifeVars
  <2>2. ThreadShape'
    BY <1>21 DEF ShutdownIndexer, ThreadShape, PhaseShape,
         worldVars, observerVars, queueVars, threadVars, flagVars, lifeVars
  <2>3. PhaseShape'
    BY <1>21 DEF ShutdownIndexer, PhaseShape, ThreadShape, Phase,
         worldVars, observerVars, queueVars, threadVars, flagVars, lifeVars
  <2>4. QueueShape'
    BY <1>21 DEF ShutdownIndexer, QueueShape, Time, ThreadShape, PhaseShape,
         worldVars, observerVars, queueVars, threadVars, flagVars, lifeVars
  <2>5. ObserverShape'
    BY <1>21 DEF ShutdownIndexer, ObserverShape, PhaseShape, ThreadShape,
         worldVars, observerVars, queueVars, threadVars, flagVars, lifeVars
  <2>6. NoOversleep'
    BY <1>21 DEF ShutdownIndexer, NoOversleep, QueueShape, Never, Time, PhaseShape,
         worldVars, observerVars, queueVars, threadVars, flagVars, lifeVars
  <2>7. BatchTogether'
    BY <1>21 DEF ShutdownIndexer, BatchTogether, QueueShape, ThreadShape, PhaseShape, Time,
         worldVars, observerVars, queueVars, threadVars, flagVars, lifeVars
  <2>8. NoOverlookedChange'
    BY <1>21 DEF ShutdownIndexer, NoOverlookedChange, OnItsWay, Via, Refused, ObserverShape, PhaseShape, ThreadShape,
         worldVars, observerVars, queueVars, threadVars, flagVars, lifeVars
  <2> QED
    BY <1>0, <2>1, <2>2, <2>3, <2>4, <2>5, <2>6, <2>7, <2>8
<1>22. CASE UNCHANGED vars
  <2> USE DEF vars, worldVars, observerVars, queueVars, threadVars, flagVars, lifeVars
  <2>1. TypeOK' /\ ThreadShape' /\ PhaseShape'
    BY <1>22 DEF ThreadShape, PhaseShape
  <2>2. QueueShape' /\ ObserverShape' /\ NoOversleep' /\ BatchTogether'
    BY <1>22 DEF QueueShape, ObserverShape, NoOversleep, BatchTogether
  <2>3. NoOverlookedChange'
    BY <1>22 DEF NoOverlookedChange, OnItsWay, Via, Refused
  <2> QED
    BY <1>0, <2>1, <2>2, <2>3
<1> QED
  BY <1>1, <1>2, <1>3, <1>4, <1>5, <1>6, <1>7, <1>8, <1>9, <1>10, <1>11, <1>12, <1>13, <1>14, <1>15, <1>16, <1>17, <1>18, <1>19, <1>20, <1>21, <1>22, <1>23
     DEF Next, ObserverStep, DispatcherStep, LifespanStep

\* The inductive invariant holds throughout.
THEOREM Inductive == Spec => []WatcherInv
<1>1. Init => WatcherInv
  BY InitEstablishes
<1>2. WatcherInv /\ [Next]_vars => WatcherInv'
  BY StepPreserves
<1> QED
  BY <1>1, <1>2, PTL DEF Spec

\* The state keeps its type.
THEOREM TypeCorrect == Spec => []TypeOK
<1>1. WatcherInv => TypeOK
  BY DEF WatcherInv
<1> QED
  BY <1>1, Inductive, PTL

\* No change made while the observer runs is overlooked.
THEOREM NothingOverlooked == Spec => []NoOverlookedChange
<1>1. WatcherInv => NoOverlookedChange
  BY DEF WatcherInv
<1> QED
  BY <1>1, Inductive, PTL

\* A stop() that returns normally has handed over every accepted name.
THEOREM StopIsClean == Spec => []CleanStop
<1>1. WatcherInv => CleanStop
  <2> SUFFICES ASSUME WatcherInv, phase \in {"watcherDown", "down"}, ~failed
               PROVE  observer = "dead" /\ thread = "exited" /\ accepted = {} /\ kept = {}
    BY DEF CleanStop
  <2>1. stopping /\ flushOnStop /\ observer = "dead" /\ thread = "exited"
    BY DEF WatcherInv, PhaseShape
  <2>2. queue = {} /\ inHand = {} /\ kept = {}
    BY <2>1 DEF WatcherInv, ThreadShape
  <2> QED
    BY <2>1, <2>2 DEF WatcherInv, ThreadShape
<1> QED
  BY <1>1, Inductive, PTL

\* Together: a change is on its way while the observer runs, and a normal stop
\* has handed over what was accepted.
THEOREM ChangesAreAccounted == Spec => []ChangesAccounted
<1>1. NoOverlookedChange /\ CleanStop => ChangesAccounted
  BY DEF ChangesAccounted
<1> QED
  BY <1>1, NothingOverlooked, StopIsClean, PTL

\* Names whose last accepted event is the same one leave the queue together.
THEOREM BatchesStayTogether == Spec => []BatchTogether
<1>1. WatcherInv => BatchTogether
  BY DEF WatcherInv
<1> QED
  BY <1>1, Inductive, PTL

\* Due names were quiet for the whole debounce interval.
THEOREM QuietBeforeDispatch == Spec => QuietPeriod
<1>1. WatcherInv /\ [Next]_vars =>
          [\A p \in inHand' \ inHand : ~lastRound' => lastSubmit[p] + Debounce <= now]_vars
  <2> SUFFICES ASSUME WatcherInv, Next,
                      NEW p \in inHand' \ inHand, ~lastRound'
               PROVE  lastSubmit[p] + Debounce <= now
    OBVIOUS
  <2>1. CASE PopReady
    BY <2>1 DEF PopReady, WatcherInv, QueueShape, TypeOK
  <2>2. CASE ~PopReady
    <3>1. inHand' \subseteq inHand \/ PopAll
      BY <2>2 DEF Next, ObserverStep, DispatcherStep, LifespanStep, Change, Rename, MakeLink, Touch, Tick,
           TakeEvent, Look, Verify, Submit, ObserverExits, Sleep, WakeUp, Dispatch,
           StartDispatcher, StartObserver, StartFails, StopObserver, ObserverJoined,
           StopDispatcher, DispatcherJoined, ShutdownIndexer, threadVars
    <3> QED
      BY <3>1 DEF PopAll
  <2> QED
    BY <2>1, <2>2
<1> QED
  BY <1>1, Inductive, PTL DEF Spec, QuietPeriod

=============================================================================

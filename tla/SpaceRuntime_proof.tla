------------------------ MODULE SpaceRuntime_proof ------------------------
(***************************************************************************)
(* Proofs about SpaceRuntime: for any finite set of operations, any set of *)
(* administrators and any number of calls, the runtime closes nothing      *)
(* under a user and never loses count of its operations.  And about        *)
(* RateLimiter, which stands before it: for any threads, clients, table    *)
(* and window.                                                             *)
(***************************************************************************)
EXTENDS SpaceRuntime, RateLimiter, FiniteSetTheorems, WellFoundedInduction, TLAPS

Waiters == {u \in Ops : pc[u] = "waiting"}

\* Any set of waiters is finite.
LEMMA WaitersFinite == IsFiniteSet(Waiters) /\ IsFiniteSet(Waiters')
<1>1. Waiters \subseteq Ops /\ Waiters' \subseteq Ops
  BY DEF Waiters
<1> QED
  BY <1>1, FS_Subset, SpaceRuntimeAssumption

\* The count follows a thread that starts to wait.
LEMMA WaiterAdded ==
    ASSUME OperationsTypeOK, WaitersCounted, NEW t \in Ops, pc[t] # "waiting",
           pc' = [pc EXCEPT ![t] = "waiting"], waiting' = waiting + 1
    PROVE  WaitersCounted'
<1>1. Waiters' = Waiters \cup {t} /\ t \notin Waiters
  BY DEF Waiters, OperationsTypeOK
<1>2. Cardinality(Waiters') = Cardinality(Waiters) + 1
  BY <1>1, WaitersFinite, FS_AddElement
<1> QED
  BY <1>2 DEF WaitersCounted, Waiters

\* The count follows a thread that ceases to wait.
LEMMA WaiterRemoved ==
    ASSUME OperationsTypeOK, WaitersCounted, NEW t \in Ops, pc[t] = "waiting", NEW place,
           place # "waiting", pc' = [pc EXCEPT ![t] = place], waiting' = waiting - 1
    PROVE  WaitersCounted'
<1>1. Waiters' = Waiters \ {t} /\ t \in Waiters
  BY DEF Waiters, OperationsTypeOK
<1>2. Cardinality(Waiters') = Cardinality(Waiters) - 1
  BY <1>1, WaitersFinite, FS_RemoveElement
<1> QED
  BY <1>2 DEF WaitersCounted, Waiters

\* The count does not change when the set of waiters does not.
LEMMA WaitersSame ==
    ASSUME OperationsTypeOK, WaitersCounted, NEW t \in Ops, pc[t] # "waiting", NEW place,
           place # "waiting", pc' = [pc EXCEPT ![t] = place], waiting' = waiting
    PROVE  WaitersCounted'
<1>1. Waiters' = Waiters
  BY DEF Waiters, OperationsTypeOK
<1> QED
  BY <1>1 DEF WaitersCounted, Waiters

\* A waiting thread is counted.
LEMMA WaiterCounted ==
    ASSUME OperationsTypeOK, WaitersCounted, NEW t \in Ops, pc[t] = "waiting"
    PROVE  waiting - 1 \in 0..MaxWaiting
<1>1. Waiters # {}
  BY DEF Waiters
<1>2. Cardinality(Waiters) # 0
  BY <1>1, WaitersFinite, FS_EmptySet
<1> QED
  BY <1>2, SpaceRuntimeAssumption DEF WaitersCounted, Waiters, OperationsTypeOK

\* A drained admission has no operation left.
LEMMA NobodyLeft ==
    ASSUME OperationsTypeOK, OneAtATime, Drained PROVE \A t \in Ops : pc[t] = "idle"
<1>1. Cardinality(Waiters) = 0
  BY DEF OneAtATime, WaitersCounted, Drained, Waiters
<1>2. Waiters = {}
  BY <1>1, WaitersFinite, FS_EmptySet
<1>3. \A t \in Ops : pc[t] # "waiting"
  BY <1>2 DEF Waiters
<1>4. \A t \in Ops : pc[t] \notin Inside
  BY SpaceRuntimeAssumption DEF OneAtATime, ActiveInside, Drained
<1> QED
  BY <1>3, <1>4 DEF OperationsTypeOK

\* The constructor's values satisfy the inductive invariant.
LEMMA InitEstablishes == Init => RuntimeInv
<1> SUFFICES ASSUME Init PROVE RuntimeInv
  OBVIOUS
<1> USE SpaceRuntimeAssumption DEF Init
<1>0. 0 \in 0..MaxWaiting /\ 0 \in 0..MaxCalls /\ 0 \in 0..MaxShutdowns
  OBVIOUS
<1>1. OperationsTypeOK
  <2>1. pc \in [Ops -> Inside \cup {"idle", "waiting"}]
    BY DEF Inside
  <2>2. cancelled \in [Ops -> BOOLEAN] /\ completed \in [Ops -> BOOLEAN]
        /\ committed \in [Ops -> BOOLEAN]
    OBVIOUS
  <2>3. verdict \in [Ops -> Outcome] /\ result \in [Ops -> Outcome]
    BY DEF Outcome
  <2>4. calls \in [Ops -> 0..MaxCalls]
    BY <1>0
  <2> QED
    BY <1>0, <2>1, <2>2, <2>3, <2>4 DEF OperationsTypeOK
<1>2. LifecycleTypeOK
  <2>1. lc \in [Admins -> Starting \cup Fencing \cup Stopping \cup {"idle", "startWait"}]
    OBVIOUS
  <2>2. rollback \in [Admins -> BOOLEAN] /\ failed \in [Admins -> BOOLEAN]
    OBVIOUS
  <2>3. shutdowns \in [Admins -> 0..MaxShutdowns]
    BY <1>0
  <2> QED
    BY <2>1, <2>2, <2>3 DEF LifecycleTypeOK
<1>3. ActiveInside
  BY DEF ActiveInside, Inside
<1>4. WaitersCounted
  <2>1. {t \in Ops : pc[t] = "waiting"} = {}
    OBVIOUS
  <2> QED
    BY <2>1, FS_EmptySet DEF WaitersCounted
<1>5. LifecycleHeld
  BY DEF LifecycleHeld, Starting, Fencing, Stopping
<1>6. StateFollows /\ FencedFirst /\ NothingSkipped
  BY DEF StateFollows, FencedFirst, NothingSkipped, Starting, Fencing, Stopping
<1>7. ClosedForGood /\ CommitFlagged /\ OpenMeansRunning /\ CommittedIsReported
  BY DEF ClosedForGood, CommitFlagged, OpenMeansRunning, CommittedIsReported
<1> QED
  BY <1>1, <1>2, <1>3, <1>4, <1>5, <1>6, <1>7 DEF RuntimeInv, TypeOK, OneAtATime

\* Operations keep the lifecycle's invariant: they change neither its threads
\* nor its parts, and find a stopped admission closed.
LEMMA OperationsLeaveLifecycle ==
    ASSUME RuntimeInv, UNCHANGED <<open, stopped, adminVars, parts>>,
           Drained /\ stopped => Drained'
    PROVE  /\ LifecycleTypeOK' /\ LifecycleHeld' /\ StateFollows' /\ FencedFirst'
           /\ OpenMeansRunning' /\ NothingSkipped' /\ ClosedForGood'
<1> USE DEF RuntimeInv, TypeOK, adminVars, parts
<1>1. LifecycleTypeOK'
  BY DEF LifecycleTypeOK
<1>2. LifecycleHeld'
  BY DEF LifecycleHeld
<1>3. StateFollows'
  BY DEF StateFollows
<1>4. FencedFirst'
  BY DEF FencedFirst
<1>5. OpenMeansRunning'
  BY DEF OpenMeansRunning
<1>6. NothingSkipped'
  BY DEF NothingSkipped, FencedFirst, Stopping
<1>7. ClosedForGood'
  BY DEF ClosedForGood
<1> QED
  BY <1>1, <1>2, <1>3, <1>4, <1>5, <1>6, <1>7

\* Administrators keep the operations' invariant.
LEMMA AdministratorsLeaveOperations ==
    ASSUME RuntimeInv, UNCHANGED <<active, waiting, opVars>>, open' \in BOOLEAN, stopped' \in BOOLEAN
    PROVE  /\ OperationsTypeOK' /\ ActiveInside' /\ WaitersCounted' /\ CommitFlagged'
           /\ CommittedIsReported'
<1> USE DEF RuntimeInv, TypeOK, OneAtATime, opVars
<1>1. OperationsTypeOK'
  BY DEF OperationsTypeOK
<1>2. ActiveInside' /\ WaitersCounted'
  BY DEF ActiveInside, WaitersCounted
<1>3. CommitFlagged' /\ CommittedIsReported'
  BY DEF CommitFlagged, CommittedIsReported
<1> QED
  BY <1>1, <1>2, <1>3

\* A step of an operation preserves the inductive invariant.
LEMMA OperationPreserves ==
    ASSUME RuntimeInv, NEW t \in Ops, Enter(t) \/ CallerCancels(t) \/ OpStep(t)
    PROVE  RuntimeInv'
<1> USE SpaceRuntimeAssumption DEF RuntimeInv, TypeOK, OneAtATime, Goto, Cancelled, admission
<1>1. CASE CallerCancels(t)
  <2>1. OperationsTypeOK'
    BY <1>1 DEF CallerCancels, OperationsTypeOK, Inside, Outcome
  <2>2. ActiveInside'
    BY <1>1 DEF CallerCancels, ActiveInside, Inside, OperationsTypeOK
  <2>3. WaitersCounted'
    BY <1>1 DEF CallerCancels, WaitersCounted
  <2>4. CommitFlagged'
    BY <1>1 DEF CallerCancels, CommitFlagged, OperationsTypeOK
  <2>5. CommittedIsReported'
    BY <1>1 DEF CallerCancels, CommittedIsReported, CommitFlagged, OperationsTypeOK
  <2>6. UNCHANGED <<open, stopped, adminVars, parts>>
    BY <1>1 DEF CallerCancels
  <2>7. Drained /\ stopped => Drained'
    BY <1>1, NobodyLeft DEF CallerCancels, Drained
  <2> QED
    BY <2>1, <2>2, <2>3, <2>4, <2>5, <2>6, <2>7, OperationsLeaveLifecycle
<1>2. CASE Enter(t)
  <2>1. OperationsTypeOK'
    BY <1>2 DEF Enter, Return, Full, OperationsTypeOK, Inside, Outcome
  <2>2. ActiveInside'
    BY <1>2 DEF Enter, Return, Full, ActiveInside, Inside, OperationsTypeOK
  <2>3. WaitersCounted'
    <3>1. CASE pc' = [pc EXCEPT ![t] = "waiting"]
      <4>1. waiting' = waiting + 1 /\ pc[t] # "waiting"
        BY <1>2, <3>1 DEF Enter, Return, Full, OperationsTypeOK
      <4> QED
        BY <3>1, <4>1, WaiterAdded
    <3>2. CASE \E place \in {"idle", "entered"} : pc' = [pc EXCEPT ![t] = place]
      <4>1. waiting' = waiting /\ pc[t] # "waiting"
        BY <1>2, <3>2 DEF Enter, Return, Full, OperationsTypeOK
      <4> QED
        BY <3>2, <4>1, WaitersSame
    <3> QED
      BY <1>2, <3>1, <3>2 DEF Enter, Return
  <2>4. CommitFlagged'
    BY <1>2 DEF Enter, Return, Full, CommitFlagged, OperationsTypeOK
  <2>5. CommittedIsReported'
    BY <1>2 DEF Enter, Return, Full, CommittedIsReported, CommitFlagged, OperationsTypeOK
  <2>6. UNCHANGED <<open, stopped, adminVars, parts>>
    BY <1>2 DEF Enter
  <2>7. Drained /\ stopped => Drained'
    BY <1>2, NobodyLeft DEF Enter, Return, Full, Drained
  <2> QED
    BY <2>1, <2>2, <2>3, <2>4, <2>5, <2>6, <2>7, OperationsLeaveLifecycle
<1>3. CASE WaiterEnters(t)
  <2>1. OperationsTypeOK'
    BY <1>3, WaiterCounted DEF WaiterEnters, OperationsTypeOK, Inside, Outcome
  <2>2. ActiveInside'
    BY <1>3 DEF WaiterEnters, ActiveInside, Inside, OperationsTypeOK
  <2>3. WaitersCounted'
    BY <1>3, WaiterRemoved DEF WaiterEnters
  <2>4. CommitFlagged'
    BY <1>3 DEF WaiterEnters, CommitFlagged, OperationsTypeOK
  <2>5. CommittedIsReported'
    BY <1>3 DEF WaiterEnters, CommittedIsReported, CommitFlagged, OperationsTypeOK
  <2>6. UNCHANGED <<open, stopped, adminVars, parts>>
    BY <1>3 DEF WaiterEnters
  <2>7. Drained /\ stopped => Drained'
    BY <1>3, NobodyLeft DEF WaiterEnters, Drained
  <2> QED
    BY <2>1, <2>2, <2>3, <2>4, <2>5, <2>6, <2>7, OperationsLeaveLifecycle
<1>4. CASE WaiterCancelled(t)
  <2>1. OperationsTypeOK'
    BY <1>4, WaiterCounted DEF WaiterCancelled, Return, OperationsTypeOK, Inside, Outcome
  <2>2. ActiveInside'
    BY <1>4 DEF WaiterCancelled, Return, ActiveInside, Inside, OperationsTypeOK
  <2>3. WaitersCounted'
    BY <1>4, WaiterRemoved DEF WaiterCancelled, Return
  <2>4. CommitFlagged'
    BY <1>4 DEF WaiterCancelled, Return, CommitFlagged, OperationsTypeOK
  <2>5. CommittedIsReported'
    BY <1>4 DEF WaiterCancelled, Return, CommittedIsReported, CommitFlagged, OperationsTypeOK
  <2>6. UNCHANGED <<open, stopped, adminVars, parts>>
    BY <1>4 DEF WaiterCancelled
  <2>7. Drained /\ stopped => Drained'
    BY <1>4, NobodyLeft DEF WaiterCancelled, Return, Drained
  <2> QED
    BY <2>1, <2>2, <2>3, <2>4, <2>5, <2>6, <2>7, OperationsLeaveLifecycle
<1>5. CASE CheckEntered(t)
  <2>1. OperationsTypeOK'
    BY <1>5 DEF CheckEntered, Conclude, OperationsTypeOK, Inside, Outcome
  <2>2. ActiveInside'
    BY <1>5 DEF CheckEntered, Conclude, ActiveInside, Inside, OperationsTypeOK
  <2>3. WaitersCounted'
    BY <1>5, WaitersSame DEF CheckEntered, Conclude
  <2>4. CommitFlagged'
    BY <1>5 DEF CheckEntered, Conclude, CommitFlagged, OperationsTypeOK
  <2>5. CommittedIsReported'
    BY <1>5 DEF CheckEntered, Conclude, CommittedIsReported, CommitFlagged, OperationsTypeOK
  <2>6. UNCHANGED <<open, stopped, adminVars, parts>>
    BY <1>5 DEF CheckEntered
  <2>7. Drained /\ stopped => Drained'
    BY <1>5, NobodyLeft DEF CheckEntered, Conclude, Drained
  <2> QED
    BY <2>1, <2>2, <2>3, <2>4, <2>5, <2>6, <2>7, OperationsLeaveLifecycle
<1>6. CASE BodyEnds(t)
  <2>1. OperationsTypeOK'
    BY <1>6 DEF BodyEnds, Conclude, OperationsTypeOK, Inside, Outcome
  <2>2. ActiveInside'
    BY <1>6 DEF BodyEnds, Conclude, ActiveInside, Inside, OperationsTypeOK
  <2>3. WaitersCounted'
    BY <1>6, WaitersSame DEF BodyEnds, Conclude
  <2>4. CommitFlagged'
    BY <1>6 DEF BodyEnds, Conclude, CommitFlagged, OperationsTypeOK
  <2>5. CommittedIsReported'
    BY <1>6 DEF BodyEnds, Conclude, CommittedIsReported, CommitFlagged, OperationsTypeOK
  <2>6. UNCHANGED <<open, stopped, adminVars, parts>>
    BY <1>6 DEF BodyEnds
  <2>7. Drained /\ stopped => Drained'
    BY <1>6, NobodyLeft DEF BodyEnds, Conclude, Drained
  <2> QED
    BY <2>1, <2>2, <2>3, <2>4, <2>5, <2>6, <2>7, OperationsLeaveLifecycle
<1>7. CASE AboutToWrite(t)
  <2>1. OperationsTypeOK'
    BY <1>7 DEF AboutToWrite, Conclude, OperationsTypeOK, Inside, Outcome
  <2>2. ActiveInside'
    BY <1>7 DEF AboutToWrite, Conclude, ActiveInside, Inside, OperationsTypeOK
  <2>3. WaitersCounted'
    BY <1>7, WaitersSame DEF AboutToWrite, Conclude
  <2>4. CommitFlagged'
    BY <1>7 DEF AboutToWrite, Conclude, CommitFlagged, OperationsTypeOK
  <2>5. CommittedIsReported'
    BY <1>7 DEF AboutToWrite, Conclude, CommittedIsReported, CommitFlagged, OperationsTypeOK
  <2>6. UNCHANGED <<open, stopped, adminVars, parts>>
    BY <1>7 DEF AboutToWrite
  <2>7. Drained /\ stopped => Drained'
    BY <1>7, NobodyLeft DEF AboutToWrite, Conclude, Drained
  <2> QED
    BY <2>1, <2>2, <2>3, <2>4, <2>5, <2>6, <2>7, OperationsLeaveLifecycle
<1>8. CASE Write(t)
  <2>1. OperationsTypeOK'
    BY <1>8 DEF Write, Conclude, OperationsTypeOK, Inside, Outcome
  <2>2. ActiveInside'
    BY <1>8 DEF Write, Conclude, ActiveInside, Inside, OperationsTypeOK
  <2>3. WaitersCounted'
    BY <1>8, WaitersSame DEF Write, Conclude
  <2>4. CommitFlagged'
    BY <1>8 DEF Write, Conclude, CommitFlagged, OperationsTypeOK
  <2>5. CommittedIsReported'
    BY <1>8 DEF Write, Conclude, CommittedIsReported, CommitFlagged, OperationsTypeOK
  <2>6. UNCHANGED <<open, stopped, adminVars, parts>>
    BY <1>8 DEF Write
  <2>7. Drained /\ stopped => Drained'
    BY <1>8, NobodyLeft DEF Write, Conclude, Drained
  <2> QED
    BY <2>1, <2>2, <2>3, <2>4, <2>5, <2>6, <2>7, OperationsLeaveLifecycle
<1>9. CASE AfterBody(t)
  <2>1. OperationsTypeOK'
    BY <1>9 DEF AfterBody, Conclude, OperationsTypeOK, Inside, Outcome
  <2>2. ActiveInside'
    BY <1>9 DEF AfterBody, Conclude, ActiveInside, Inside, OperationsTypeOK
  <2>3. WaitersCounted'
    BY <1>9, WaitersSame DEF AfterBody, Conclude
  <2>4. CommitFlagged'
    BY <1>9 DEF AfterBody, Conclude, CommitFlagged, OperationsTypeOK
  <2>5. CommittedIsReported'
    BY <1>9 DEF AfterBody, Conclude, CommittedIsReported, CommitFlagged, OperationsTypeOK
  <2>6. UNCHANGED <<open, stopped, adminVars, parts>>
    BY <1>9 DEF AfterBody
  <2>7. Drained /\ stopped => Drained'
    BY <1>9, NobodyLeft DEF AfterBody, Conclude, Drained
  <2> QED
    BY <2>1, <2>2, <2>3, <2>4, <2>5, <2>6, <2>7, OperationsLeaveLifecycle
<1>10. CASE Leave(t)
  <2>1. OperationsTypeOK'
    BY <1>10 DEF Leave, Return, OperationsTypeOK, Inside, Outcome
  <2>2. ActiveInside'
    BY <1>10 DEF Leave, Return, ActiveInside, Inside, OperationsTypeOK
  <2>3. WaitersCounted'
    BY <1>10, WaitersSame DEF Leave, Return
  <2>4. CommitFlagged'
    BY <1>10 DEF Leave, Return, CommitFlagged, OperationsTypeOK
  <2>5. CommittedIsReported'
    BY <1>10 DEF Leave, Return, CommittedIsReported, CommitFlagged, OperationsTypeOK
  <2>6. UNCHANGED <<open, stopped, adminVars, parts>>
    BY <1>10 DEF Leave
  <2>7. Drained /\ stopped => Drained'
    BY <1>10, NobodyLeft DEF Leave, Return, Drained
  <2> QED
    BY <2>1, <2>2, <2>3, <2>4, <2>5, <2>6, <2>7, OperationsLeaveLifecycle
<1> QED
  BY <1>1, <1>2, <1>3, <1>4, <1>5, <1>6, <1>7, <1>8, <1>9, <1>10 DEF OpStep

\* A step of start() or shutdown() preserves the inductive invariant.
LEMMA AdministratorPreserves ==
    ASSUME RuntimeInv, NEW a \in Admins, StartCalled(a) \/ ShutdownCalled(a) \/ AdminStep(a)
    PROVE  RuntimeInv'
<1> USE SpaceRuntimeAssumption
    DEF RuntimeInv, TypeOK, OneAtATime, At, LifecycleTypeOK, Starting, Fencing, Stopping, admission
<1>1. CASE StartCalled(a)
  <2>0. UNCHANGED <<active, waiting, opVars>> /\ open' \in BOOLEAN /\ stopped' \in BOOLEAN
    BY <1>1 DEF StartCalled, OperationsTypeOK
  <2>1. LifecycleTypeOK'
    BY <1>1 DEF StartCalled, parts
  <2>2. LifecycleHeld'
    BY <1>1 DEF StartCalled, LifecycleHeld, parts
  <2>3. StateFollows'
    BY <1>1 DEF StartCalled, LifecycleHeld, StateFollows, parts
  <2>4. FencedFirst'
    BY <1>1 DEF StartCalled, LifecycleHeld, FencedFirst, StateFollows, parts
  <2>5. OpenMeansRunning'
    BY <1>1 DEF StartCalled, OpenMeansRunning, FencedFirst, parts
  <2>6. NothingSkipped'
    BY <1>1, <2>0 DEF StartCalled, LifecycleHeld, NothingSkipped, FencedFirst, Drained, parts
  <2>7. ClosedForGood'
    BY <1>1, <2>0 DEF StartCalled, ClosedForGood, StateFollows, FencedFirst, NothingSkipped, Drained, parts
  <2> QED
    BY <2>0, <2>1, <2>2, <2>3, <2>4, <2>5, <2>6, <2>7, AdministratorsLeaveOperations
<1>2. CASE StartLocks(a)
  <2>0. UNCHANGED <<active, waiting, opVars>> /\ open' \in BOOLEAN /\ stopped' \in BOOLEAN
    BY <1>2 DEF StartLocks, OperationsTypeOK
  <2>1. LifecycleTypeOK'
    BY <1>2 DEF StartLocks, parts
  <2>2. LifecycleHeld'
    BY <1>2 DEF StartLocks, LifecycleHeld, parts
  <2>3. StateFollows'
    BY <1>2 DEF StartLocks, LifecycleHeld, StateFollows, parts
  <2>4. FencedFirst'
    BY <1>2 DEF StartLocks, LifecycleHeld, FencedFirst, StateFollows, parts
  <2>5. OpenMeansRunning'
    BY <1>2 DEF StartLocks, OpenMeansRunning, FencedFirst, parts
  <2>6. NothingSkipped'
    BY <1>2, <2>0 DEF StartLocks, LifecycleHeld, NothingSkipped, FencedFirst, Drained, parts
  <2>7. ClosedForGood'
    BY <1>2, <2>0 DEF StartLocks, ClosedForGood, StateFollows, FencedFirst, NothingSkipped, Drained, parts
  <2> QED
    BY <2>0, <2>1, <2>2, <2>3, <2>4, <2>5, <2>6, <2>7, AdministratorsLeaveOperations
<1>3. CASE WatcherStarts(a)
  <2>0. UNCHANGED <<active, waiting, opVars>> /\ open' \in BOOLEAN /\ stopped' \in BOOLEAN
    BY <1>3 DEF WatcherStarts, RollBack, OperationsTypeOK
  <2>1. LifecycleTypeOK'
    BY <1>3 DEF WatcherStarts, RollBack, parts
  <2>2. LifecycleHeld'
    BY <1>3 DEF WatcherStarts, RollBack, LifecycleHeld, parts
  <2>3. StateFollows'
    BY <1>3 DEF WatcherStarts, RollBack, LifecycleHeld, StateFollows, parts
  <2>4. FencedFirst'
    BY <1>3 DEF WatcherStarts, RollBack, LifecycleHeld, FencedFirst, StateFollows, parts
  <2>5. OpenMeansRunning'
    BY <1>3 DEF WatcherStarts, RollBack, OpenMeansRunning, FencedFirst, parts
  <2>6. NothingSkipped'
    BY <1>3, <2>0 DEF WatcherStarts, RollBack, LifecycleHeld, NothingSkipped, FencedFirst, Drained, parts
  <2>7. ClosedForGood'
    BY <1>3, <2>0 DEF WatcherStarts, RollBack, ClosedForGood, StateFollows, FencedFirst, NothingSkipped, Drained, parts
  <2> QED
    BY <2>0, <2>1, <2>2, <2>3, <2>4, <2>5, <2>6, <2>7, AdministratorsLeaveOperations
<1>4. CASE SchedulerStarts(a)
  <2>0. UNCHANGED <<active, waiting, opVars>> /\ open' \in BOOLEAN /\ stopped' \in BOOLEAN
    BY <1>4 DEF SchedulerStarts, RollBack, OperationsTypeOK
  <2>1. LifecycleTypeOK'
    BY <1>4 DEF SchedulerStarts, RollBack, parts
  <2>2. LifecycleHeld'
    BY <1>4 DEF SchedulerStarts, RollBack, LifecycleHeld, parts
  <2>3. StateFollows'
    BY <1>4 DEF SchedulerStarts, RollBack, LifecycleHeld, StateFollows, parts
  <2>4. FencedFirst'
    BY <1>4 DEF SchedulerStarts, RollBack, LifecycleHeld, FencedFirst, StateFollows, parts
  <2>5. OpenMeansRunning'
    BY <1>4 DEF SchedulerStarts, RollBack, OpenMeansRunning, FencedFirst, parts
  <2>6. NothingSkipped'
    BY <1>4, <2>0 DEF SchedulerStarts, RollBack, LifecycleHeld, NothingSkipped, FencedFirst, Drained, parts
  <2>7. ClosedForGood'
    BY <1>4, <2>0 DEF SchedulerStarts, RollBack, ClosedForGood, StateFollows, FencedFirst, NothingSkipped, Drained, parts
  <2> QED
    BY <2>0, <2>1, <2>2, <2>3, <2>4, <2>5, <2>6, <2>7, AdministratorsLeaveOperations
<1>5. CASE AdmissionOpens(a)
  <2>0. UNCHANGED <<active, waiting, opVars>> /\ open' \in BOOLEAN /\ stopped' \in BOOLEAN
    BY <1>5 DEF AdmissionOpens, RollBack, OpenRefused, OperationsTypeOK
  <2>1. LifecycleTypeOK'
    BY <1>5 DEF AdmissionOpens, RollBack, OpenRefused, parts
  <2>2. LifecycleHeld'
    BY <1>5 DEF AdmissionOpens, RollBack, OpenRefused, LifecycleHeld, parts
  <2>3. StateFollows'
    BY <1>5 DEF AdmissionOpens, RollBack, OpenRefused, LifecycleHeld, StateFollows, parts
  <2>4. FencedFirst'
    BY <1>5 DEF AdmissionOpens, RollBack, OpenRefused, LifecycleHeld, FencedFirst, StateFollows, parts
  <2>5. OpenMeansRunning'
    BY <1>5 DEF AdmissionOpens, RollBack, OpenRefused, OpenMeansRunning, FencedFirst, parts
  <2>6. NothingSkipped'
    BY <1>5, <2>0 DEF AdmissionOpens, RollBack, OpenRefused, LifecycleHeld, NothingSkipped, FencedFirst, Drained, parts
  <2>7. ClosedForGood'
    BY <1>5, <2>0 DEF AdmissionOpens, RollBack, OpenRefused, ClosedForGood, StateFollows, FencedFirst, NothingSkipped, Drained, parts
  <2> QED
    BY <2>0, <2>1, <2>2, <2>3, <2>4, <2>5, <2>6, <2>7, AdministratorsLeaveOperations
<1>6. CASE StartReturns(a)
  <2>0. UNCHANGED <<active, waiting, opVars>> /\ open' \in BOOLEAN /\ stopped' \in BOOLEAN
    BY <1>6 DEF StartReturns, OperationsTypeOK
  <2>1. LifecycleTypeOK'
    BY <1>6 DEF StartReturns, parts
  <2>2. LifecycleHeld'
    BY <1>6 DEF StartReturns, LifecycleHeld, parts
  <2>3. StateFollows'
    BY <1>6 DEF StartReturns, LifecycleHeld, StateFollows, parts
  <2>4. FencedFirst'
    BY <1>6 DEF StartReturns, LifecycleHeld, FencedFirst, StateFollows, parts
  <2>5. OpenMeansRunning'
    BY <1>6 DEF StartReturns, OpenMeansRunning, FencedFirst, parts
  <2>6. NothingSkipped'
    BY <1>6, <2>0 DEF StartReturns, LifecycleHeld, NothingSkipped, FencedFirst, Drained, parts
  <2>7. ClosedForGood'
    BY <1>6, <2>0 DEF StartReturns, ClosedForGood, StateFollows, FencedFirst, NothingSkipped, Drained, parts
  <2> QED
    BY <2>0, <2>1, <2>2, <2>3, <2>4, <2>5, <2>6, <2>7, AdministratorsLeaveOperations
<1>7. CASE ShutdownCalled(a)
  <2>0. UNCHANGED <<active, waiting, opVars>> /\ open' \in BOOLEAN /\ stopped' \in BOOLEAN
    BY <1>7 DEF ShutdownCalled, OperationsTypeOK
  <2>1. LifecycleTypeOK'
    BY <1>7 DEF ShutdownCalled, parts
  <2>2. LifecycleHeld'
    BY <1>7 DEF ShutdownCalled, LifecycleHeld, parts
  <2>3. StateFollows'
    BY <1>7 DEF ShutdownCalled, LifecycleHeld, StateFollows, parts
  <2>4. FencedFirst'
    BY <1>7 DEF ShutdownCalled, LifecycleHeld, FencedFirst, StateFollows, parts
  <2>5. OpenMeansRunning'
    BY <1>7 DEF ShutdownCalled, OpenMeansRunning, FencedFirst, parts
  <2>6. NothingSkipped'
    BY <1>7, <2>0 DEF ShutdownCalled, LifecycleHeld, NothingSkipped, FencedFirst, Drained, parts
  <2>7. ClosedForGood'
    BY <1>7, <2>0 DEF ShutdownCalled, ClosedForGood, StateFollows, FencedFirst, NothingSkipped, Drained, parts
  <2> QED
    BY <2>0, <2>1, <2>2, <2>3, <2>4, <2>5, <2>6, <2>7, AdministratorsLeaveOperations
<1>8. CASE FenceAdmission(a)
  <2>0. UNCHANGED <<active, waiting, opVars>> /\ open' \in BOOLEAN /\ stopped' \in BOOLEAN
    BY <1>8 DEF FenceAdmission, OperationsTypeOK
  <2>1. LifecycleTypeOK'
    BY <1>8 DEF FenceAdmission, parts
  <2>2. LifecycleHeld'
    BY <1>8 DEF FenceAdmission, LifecycleHeld, parts
  <2>3. StateFollows'
    BY <1>8 DEF FenceAdmission, LifecycleHeld, StateFollows, parts
  <2>4. FencedFirst'
    BY <1>8 DEF FenceAdmission, LifecycleHeld, FencedFirst, StateFollows, parts
  <2>5. OpenMeansRunning'
    BY <1>8 DEF FenceAdmission, OpenMeansRunning, FencedFirst, parts
  <2>6. NothingSkipped'
    BY <1>8, <2>0 DEF FenceAdmission, LifecycleHeld, NothingSkipped, FencedFirst, Drained, parts
  <2>7. ClosedForGood'
    BY <1>8, <2>0 DEF FenceAdmission, ClosedForGood, StateFollows, FencedFirst, NothingSkipped, Drained, parts
  <2> QED
    BY <2>0, <2>1, <2>2, <2>3, <2>4, <2>5, <2>6, <2>7, AdministratorsLeaveOperations
<1>9. CASE FenceScheduler(a)
  <2>0. UNCHANGED <<active, waiting, opVars>> /\ open' \in BOOLEAN /\ stopped' \in BOOLEAN
    BY <1>9 DEF FenceScheduler, OperationsTypeOK
  <2>1. LifecycleTypeOK'
    BY <1>9 DEF FenceScheduler, parts
  <2>2. LifecycleHeld'
    BY <1>9 DEF FenceScheduler, LifecycleHeld, parts
  <2>3. StateFollows'
    BY <1>9 DEF FenceScheduler, LifecycleHeld, StateFollows, parts
  <2>4. FencedFirst'
    BY <1>9 DEF FenceScheduler, LifecycleHeld, FencedFirst, StateFollows, parts
  <2>5. OpenMeansRunning'
    BY <1>9 DEF FenceScheduler, OpenMeansRunning, FencedFirst, parts
  <2>6. NothingSkipped'
    BY <1>9, <2>0 DEF FenceScheduler, LifecycleHeld, NothingSkipped, FencedFirst, Drained, parts
  <2>7. ClosedForGood'
    BY <1>9, <2>0 DEF FenceScheduler, ClosedForGood, StateFollows, FencedFirst, NothingSkipped, Drained, parts
  <2> QED
    BY <2>0, <2>1, <2>2, <2>3, <2>4, <2>5, <2>6, <2>7, AdministratorsLeaveOperations
<1>10. CASE FenceWatcher(a)
  <2>0. UNCHANGED <<active, waiting, opVars>> /\ open' \in BOOLEAN /\ stopped' \in BOOLEAN
    BY <1>10 DEF FenceWatcher, OperationsTypeOK
  <2>1. LifecycleTypeOK'
    BY <1>10 DEF FenceWatcher, parts
  <2>2. LifecycleHeld'
    BY <1>10 DEF FenceWatcher, LifecycleHeld, parts
  <2>3. StateFollows'
    BY <1>10 DEF FenceWatcher, LifecycleHeld, StateFollows, parts
  <2>4. FencedFirst'
    BY <1>10 DEF FenceWatcher, LifecycleHeld, FencedFirst, StateFollows, parts
  <2>5. OpenMeansRunning'
    BY <1>10 DEF FenceWatcher, OpenMeansRunning, FencedFirst, parts
  <2>6. NothingSkipped'
    BY <1>10, <2>0 DEF FenceWatcher, LifecycleHeld, NothingSkipped, FencedFirst, Drained, parts
  <2>7. ClosedForGood'
    BY <1>10, <2>0 DEF FenceWatcher, ClosedForGood, StateFollows, FencedFirst, NothingSkipped, Drained, parts
  <2> QED
    BY <2>0, <2>1, <2>2, <2>3, <2>4, <2>5, <2>6, <2>7, AdministratorsLeaveOperations
<1>11. CASE ShutdownLocks(a)
  <2>0. UNCHANGED <<active, waiting, opVars>> /\ open' \in BOOLEAN /\ stopped' \in BOOLEAN
    BY <1>11 DEF ShutdownLocks, ShutdownReturns, OperationsTypeOK
  <2>1. LifecycleTypeOK'
    BY <1>11 DEF ShutdownLocks, ShutdownReturns, parts
  <2>2. LifecycleHeld'
    BY <1>11 DEF ShutdownLocks, ShutdownReturns, LifecycleHeld, parts
  <2>3. StateFollows'
    BY <1>11 DEF ShutdownLocks, ShutdownReturns, LifecycleHeld, StateFollows, parts
  <2>4. FencedFirst'
    BY <1>11 DEF ShutdownLocks, ShutdownReturns, LifecycleHeld, FencedFirst, StateFollows, parts
  <2>5. OpenMeansRunning'
    BY <1>11 DEF ShutdownLocks, ShutdownReturns, OpenMeansRunning, FencedFirst, parts
  <2>6. NothingSkipped'
    BY <1>11, <2>0 DEF ShutdownLocks, ShutdownReturns, LifecycleHeld, NothingSkipped, FencedFirst, Drained, parts
  <2>7. ClosedForGood'
    BY <1>11, <2>0 DEF ShutdownLocks, ShutdownReturns, ClosedForGood, StateFollows, FencedFirst, NothingSkipped, Drained, parts
  <2> QED
    BY <2>0, <2>1, <2>2, <2>3, <2>4, <2>5, <2>6, <2>7, AdministratorsLeaveOperations
<1>12. CASE StopWatcher(a)
  <2>0. UNCHANGED <<active, waiting, opVars>> /\ open' \in BOOLEAN /\ stopped' \in BOOLEAN
    BY <1>12 DEF StopWatcher, Fails, OperationsTypeOK
  <2>1. LifecycleTypeOK'
    BY <1>12 DEF StopWatcher, Fails, parts
  <2>2. LifecycleHeld'
    BY <1>12 DEF StopWatcher, Fails, LifecycleHeld, parts
  <2>3. StateFollows'
    BY <1>12 DEF StopWatcher, Fails, LifecycleHeld, StateFollows, parts
  <2>4. FencedFirst'
    BY <1>12 DEF StopWatcher, Fails, LifecycleHeld, FencedFirst, StateFollows, parts
  <2>5. OpenMeansRunning'
    BY <1>12 DEF StopWatcher, Fails, OpenMeansRunning, FencedFirst, parts
  <2>6. NothingSkipped'
    BY <1>12, <2>0 DEF StopWatcher, Fails, LifecycleHeld, NothingSkipped, FencedFirst, Drained, parts
  <2>7. ClosedForGood'
    BY <1>12, <2>0 DEF StopWatcher, Fails, ClosedForGood, StateFollows, FencedFirst, NothingSkipped, Drained, parts
  <2> QED
    BY <2>0, <2>1, <2>2, <2>3, <2>4, <2>5, <2>6, <2>7, AdministratorsLeaveOperations
<1>13. CASE StopScheduler(a)
  <2>0. UNCHANGED <<active, waiting, opVars>> /\ open' \in BOOLEAN /\ stopped' \in BOOLEAN
    BY <1>13 DEF StopScheduler, Fails, OperationsTypeOK
  <2>1. LifecycleTypeOK'
    BY <1>13 DEF StopScheduler, Fails, parts
  <2>2. LifecycleHeld'
    BY <1>13 DEF StopScheduler, Fails, LifecycleHeld, parts
  <2>3. StateFollows'
    BY <1>13 DEF StopScheduler, Fails, LifecycleHeld, StateFollows, parts
  <2>4. FencedFirst'
    BY <1>13 DEF StopScheduler, Fails, LifecycleHeld, FencedFirst, StateFollows, parts
  <2>5. OpenMeansRunning'
    BY <1>13 DEF StopScheduler, Fails, OpenMeansRunning, FencedFirst, parts
  <2>6. NothingSkipped'
    BY <1>13, <2>0 DEF StopScheduler, Fails, LifecycleHeld, NothingSkipped, FencedFirst, Drained, parts
  <2>7. ClosedForGood'
    BY <1>13, <2>0 DEF StopScheduler, Fails, ClosedForGood, StateFollows, FencedFirst, NothingSkipped, Drained, parts
  <2> QED
    BY <2>0, <2>1, <2>2, <2>3, <2>4, <2>5, <2>6, <2>7, AdministratorsLeaveOperations
<1>14. CASE Drain(a)
  <2>0. UNCHANGED <<active, waiting, opVars>> /\ open' \in BOOLEAN /\ stopped' \in BOOLEAN
    BY <1>14 DEF Drain, Drained, OperationsTypeOK
  <2>1. LifecycleTypeOK'
    BY <1>14 DEF Drain, Drained, parts
  <2>2. LifecycleHeld'
    BY <1>14 DEF Drain, Drained, LifecycleHeld, parts
  <2>3. StateFollows'
    BY <1>14 DEF Drain, Drained, LifecycleHeld, StateFollows, parts
  <2>4. FencedFirst'
    BY <1>14 DEF Drain, Drained, LifecycleHeld, FencedFirst, StateFollows, parts
  <2>5. OpenMeansRunning'
    BY <1>14 DEF Drain, Drained, OpenMeansRunning, FencedFirst, parts
  <2>6. NothingSkipped'
    BY <1>14, <2>0 DEF Drain, Drained, LifecycleHeld, NothingSkipped, FencedFirst, parts
  <2>7. ClosedForGood'
    BY <1>14, <2>0 DEF Drain, Drained, ClosedForGood, StateFollows, FencedFirst, NothingSkipped, parts
  <2> QED
    BY <2>0, <2>1, <2>2, <2>3, <2>4, <2>5, <2>6, <2>7, AdministratorsLeaveOperations
<1>15. CASE CloseOwners(a)
  <2>0. UNCHANGED <<active, waiting, opVars>> /\ open' \in BOOLEAN /\ stopped' \in BOOLEAN
    BY <1>15 DEF CloseOwners, Fails, OperationsTypeOK
  <2>1. LifecycleTypeOK'
    BY <1>15 DEF CloseOwners, Fails, parts
  <2>2. LifecycleHeld'
    BY <1>15 DEF CloseOwners, Fails, LifecycleHeld, parts
  <2>3. StateFollows'
    BY <1>15 DEF CloseOwners, Fails, LifecycleHeld, StateFollows, parts
  <2>4. FencedFirst'
    BY <1>15 DEF CloseOwners, Fails, LifecycleHeld, FencedFirst, StateFollows, parts
  <2>5. OpenMeansRunning'
    BY <1>15 DEF CloseOwners, Fails, OpenMeansRunning, FencedFirst, parts
  <2>6. NothingSkipped'
    BY <1>15, <2>0 DEF CloseOwners, Fails, LifecycleHeld, NothingSkipped, FencedFirst, Drained, parts
  <2>7. ClosedForGood'
    BY <1>15, <2>0 DEF CloseOwners, Fails, ClosedForGood, StateFollows, FencedFirst, NothingSkipped, Drained, parts
  <2> QED
    BY <2>0, <2>1, <2>2, <2>3, <2>4, <2>5, <2>6, <2>7, AdministratorsLeaveOperations
<1>16. CASE CloseResource(a)
  <2>0. UNCHANGED <<active, waiting, opVars>> /\ open' \in BOOLEAN /\ stopped' \in BOOLEAN
    BY <1>16 DEF CloseResource, ShutdownReturns, MayCloseResource, OperationsTypeOK
  <2>1. LifecycleTypeOK'
    BY <1>16 DEF CloseResource, ShutdownReturns, MayCloseResource, parts
  <2>2. LifecycleHeld'
    BY <1>16 DEF CloseResource, ShutdownReturns, MayCloseResource, LifecycleHeld, parts
  <2>3. StateFollows'
    BY <1>16 DEF CloseResource, ShutdownReturns, MayCloseResource, LifecycleHeld, StateFollows, parts
  <2>4. FencedFirst'
    BY <1>16 DEF CloseResource, ShutdownReturns, MayCloseResource, LifecycleHeld, FencedFirst, StateFollows, parts
  <2>5. OpenMeansRunning'
    BY <1>16 DEF CloseResource, ShutdownReturns, MayCloseResource, OpenMeansRunning, FencedFirst, parts
  <2>6. NothingSkipped'
    BY <1>16, <2>0 DEF CloseResource, ShutdownReturns, MayCloseResource, LifecycleHeld, NothingSkipped, FencedFirst, Drained, parts
  <2>7. ClosedForGood'
    BY <1>16, <2>0 DEF CloseResource, ShutdownReturns, MayCloseResource, ClosedForGood, StateFollows, FencedFirst, NothingSkipped, Drained, parts
  <2> QED
    BY <2>0, <2>1, <2>2, <2>3, <2>4, <2>5, <2>6, <2>7, AdministratorsLeaveOperations
<1> QED
  BY <1>1, <1>2, <1>3, <1>4, <1>5, <1>6, <1>7, <1>8, <1>9, <1>10, <1>11, <1>12, <1>13, <1>14, <1>15, <1>16 DEF AdminStep

\* Every step preserves the inductive invariant.
LEMMA StepPreserves == RuntimeInv /\ [Next]_vars => RuntimeInv'
<1> SUFFICES ASSUME RuntimeInv, [Next]_vars PROVE RuntimeInv'
  OBVIOUS
<1>1. CASE Next
  BY <1>1, OperationPreserves, AdministratorPreserves DEF Next
<1>2. CASE UNCHANGED vars
  <2>1. UNCHANGED <<open, stopped, active, waiting, opVars, adminVars, parts>>
    BY <1>2 DEF vars, admission
  <2>2. (Drained /\ stopped => Drained') /\ open' \in BOOLEAN /\ stopped' \in BOOLEAN
    BY <2>1 DEF Drained, RuntimeInv, TypeOK, OperationsTypeOK
  <2> QED
    BY <2>1, <2>2, OperationsLeaveLifecycle, AdministratorsLeaveOperations
       DEF RuntimeInv, TypeOK, OneAtATime
<1> QED
  BY <1>1, <1>2

\* The inductive invariant holds throughout.
THEOREM Inductive == Spec => []RuntimeInv
<1> QED
  BY InitEstablishes, StepPreserves, PTL DEF Spec

\* Operations run one at a time and waiters are counted exactly.
THEOREM OneOperationAtATime == Spec => []OneAtATime
<1>1. RuntimeInv => OneAtATime
  BY DEF RuntimeInv
<1> QED
  BY <1>1, Inductive, PTL

\* An admission is open only over a running watcher and scheduler.
THEOREM OpenOverRunningParts == Spec => []OpenMeansRunning
<1>1. RuntimeInv => OpenMeansRunning
  BY DEF RuntimeInv
<1> QED
  BY <1>1, Inductive, PTL

\* A committed write is not reported as cancelled.
THEOREM CommitsAreReported == Spec => []CommittedIsReported
<1>1. RuntimeInv => CommittedIsReported
  BY DEF RuntimeInv
<1> QED
  BY <1>1, Inductive, PTL

\* Nothing is closed under a user, whatever fails during shutdown.
THEOREM NothingClosedUnderUser == Spec => []ClosedAfterUse
<1>1. RuntimeInv => ClosedAfterUse
  BY NobodyLeft DEF RuntimeInv, TypeOK, ClosedForGood, ClosedAfterUse
<1> QED
  BY <1>1, Inductive, PTL

\* A stopped runtime is completely stopped.
THEOREM StoppedCompletely == Spec => []StoppedIsComplete
<1>1. RuntimeInv => StoppedIsComplete
  BY NobodyLeft DEF RuntimeInv, TypeOK, ClosedForGood, StoppedIsComplete, StateFollows,
                    OpenMeansRunning
<1> QED
  BY <1>1, Inductive, PTL

\* Together: a shutdown never harms a user and never claims too much.
THEOREM ShutdownIsSafe == Spec => []ShutsDownSafely
<1>1. ClosedAfterUse /\ StoppedIsComplete /\ OpenMeansRunning => ShutsDownSafely
  BY DEF ShutsDownSafely
<1> QED
  BY <1>1, NothingClosedUnderUser, StoppedCompletely, OpenOverRunningParts, PTL

-----------------------------------------------------------------------------
(* RateLimiter: the windows and what they have answered.                   *)

WindowSet == [client : Clients, startedAt : Int, requestCount : Nat, id : Nat, used : Nat]
AnswerSet == [nth : Nat, window : Nat, client : Clients, read : Int, retry : Nat]

RateTyped ==
    /\ windows \subseteq WindowSet /\ IsFiniteSet(windows)
    /\ answered \subseteq AnswerSet /\ IsFiniteSet(answered)
    /\ reading \in [Threads -> Int] /\ asks \in [Threads -> Clients] /\ now \in Nat

TableKept == Cardinality(windows) <= MaxClients /\ \A v, w \in windows : v.client = w.client => v = w

(* Answers and windows are numbered by the answers before them. *)
Numbered ==
    /\ \A a \in answered : a.nth < Answers /\ a.window < Answers
    /\ \A w \in windows : w.id < Answers
    /\ \A v, w \in windows : v.id = w.id => v = w

AllowedBy(id) == {a \in answered : a.window = id /\ a.retry = 0}

(* A window in the table counts what it has allowed, and whomever it refused it
   told to wait for its end. *)
WindowKnown(w) ==
    /\ w.requestCount <= Requests /\ Cardinality(AllowedBy(w.id)) = w.requestCount
    /\ \A a \in answered : a.window = w.id =>
          /\ a.client = w.client
          /\ a.retry > 0 => /\ a.read < w.startedAt + WindowSeconds
                            /\ a.read + a.retry = w.startedAt + WindowSeconds

(* A window that has left the table keeps its promises. *)
AnswersHold ==
    \A a \in answered :
        /\ Cardinality(AllowedBy(a.window)) <= Requests
        /\ \A b \in answered :
              b.window = a.window => b.client = a.client /\ (a.retry > 0 /\ b.retry > 0 => b.read < a.read + a.retry)

RateInv == RateTyped /\ TableKept /\ Numbered /\ (\A w \in windows : WindowKnown(w)) /\ AnswersHold

(* An empty table has answered nobody. *)
LEMMA RateStart == RateInit => RateInv
<1> SUFFICES ASSUME RateInit PROVE RateInv
  OBVIOUS
<1>1. RateTyped /\ Cardinality(windows) = 0
  <2>1. (CHOOSE c \in Clients : TRUE) \in Clients
    BY RateAssumption
  <2> QED
    BY <2>1, FS_EmptySet DEF RateInit, RateTyped, Nothing
<1>2. TableKept /\ Numbered /\ AnswersHold /\ \A w \in windows : WindowKnown(w)
  BY <1>1, RateAssumption DEF RateInit, TableKept, Numbered, AnswersHold
<1> QED
  BY <1>1, <1>2 DEF RateInv

(* One more answer, numbered by those before it. *)
LEMMA AnswerAdded ==
    ASSUME RateInv, NEW new \in AnswerSet, new.nth = Answers, answered' = answered \cup {new}
    PROVE  /\ answered' \subseteq AnswerSet /\ IsFiniteSet(answered') /\ new \notin answered
           /\ Answers \in Nat /\ Answers' = Answers + 1
           /\ \A id : AllowedBy(id)' = IF new.window = id /\ new.retry = 0 THEN AllowedBy(id) \cup {new} ELSE AllowedBy(id)
           /\ \A id : IsFiniteSet(AllowedBy(id)) /\ Cardinality(AllowedBy(id)) \in Nat
           /\ \A id : new.window = id /\ new.retry = 0 => Cardinality(AllowedBy(id)') = Cardinality(AllowedBy(id)) + 1
<1>1. answered \subseteq AnswerSet /\ IsFiniteSet(answered) /\ Answers \in Nat
  BY FS_CardinalityType DEF RateInv, RateTyped, Answers
<1>2. new \notin answered
  BY <1>1 DEF RateInv, Numbered
<1>3. IsFiniteSet(answered') /\ Cardinality(answered') = Cardinality(answered) + 1
  BY <1>1, <1>2, FS_AddElement
<1>4. \A id : AllowedBy(id)' = IF new.window = id /\ new.retry = 0 THEN AllowedBy(id) \cup {new} ELSE AllowedBy(id)
  BY DEF AllowedBy
<1>5. \A id : IsFiniteSet(AllowedBy(id)) /\ Cardinality(AllowedBy(id)) \in Nat
  <2>1. \A id : AllowedBy(id) \subseteq answered
    BY DEF AllowedBy
  <2> QED
    BY <1>1, <2>1, FS_Subset, FS_CardinalityType
<1>6. \A id : new.window = id /\ new.retry = 0 => Cardinality(AllowedBy(id)') = Cardinality(AllowedBy(id)) + 1
  <2>1. \A id : new \notin AllowedBy(id)
    BY <1>2 DEF AllowedBy
  <2> QED
    BY <1>4, <1>5, <2>1, FS_AddElement
<1> QED
  BY <1>1, <1>2, <1>3, <1>4, <1>5, <1>6 DEF Answers

(* A judgement: one window speaks, and others may leave the table. *)
LEMMA JudgementKeeps ==
    ASSUME RateInv, NEW others, others \subseteq windows, NEW v \in WindowSet, NEW new \in AnswerSet,
           windows' = others \cup {v}, answered' = answered \cup {new},
           new.nth = Answers, new.window = v.id, v.id <= Answers,
           \A w \in others : w.client # v.client /\ w.id # v.id,
           IsFiniteSet(windows'), Cardinality(windows') <= MaxClients, WindowKnown(v)',
           reading' \in [Threads -> Int], asks' \in [Threads -> Clients], now' \in Nat
    PROVE  RateInv'
<1>1. /\ answered' \subseteq AnswerSet /\ IsFiniteSet(answered')
      /\ Answers \in Nat /\ Answers' = Answers + 1
      /\ \A id : id # v.id => AllowedBy(id)' = AllowedBy(id)
  BY AnswerAdded
<1>2. RateTyped'
  BY <1>1 DEF RateInv, RateTyped
<1>3. TableKept'
  BY DEF RateInv, TableKept
<1>4. Numbered'
  <2>1. \A a \in answered : a.nth < Answers /\ a.window < Answers /\ a.nth \in Nat /\ a.window \in Nat
    BY DEF RateInv, Numbered, RateTyped, AnswerSet
  <2>2. \A w \in windows : w.id < Answers /\ w.id \in Nat
    BY DEF RateInv, Numbered, RateTyped, WindowSet
  <2>3. v.id \in Nat
    BY DEF WindowSet
  <2>4. \A a \in answered' : a.nth < Answers + 1 /\ a.window < Answers + 1
    BY <1>1, <2>1, <2>3
  <2>5. \A w \in windows' : w.id < Answers + 1
    BY <1>1, <2>2, <2>3
  <2>6. \A u, w \in windows' : u.id = w.id => u = w
    BY DEF RateInv, Numbered
  <2> QED
    BY <1>1, <2>4, <2>5, <2>6 DEF Numbered
<1>5. ASSUME NEW w \in windows' PROVE WindowKnown(w)'
  <2>1. CASE w \in others
    <3>1. WindowKnown(w) /\ w.id # v.id
      BY <2>1 DEF RateInv
    <3> QED
      BY <1>1, <3>1 DEF WindowKnown
  <2>2. CASE w = v
    BY <2>2
  <2> QED
    BY <2>1, <2>2
<1>6. AnswersHold'
  <2>1. ASSUME NEW a \in answered', a.window = v.id
        PROVE  /\ Cardinality(AllowedBy(a.window)') <= Requests
               /\ \A b \in answered' :
                     b.window = a.window => b.client = a.client /\ (a.retry > 0 /\ b.retry > 0 => b.read < a.read + a.retry)
    BY <2>1 DEF WindowKnown
  <2>2. ASSUME NEW a \in answered', a.window # v.id
        PROVE  /\ Cardinality(AllowedBy(a.window)') <= Requests
               /\ \A b \in answered' :
                     b.window = a.window => b.client = a.client /\ (a.retry > 0 /\ b.retry > 0 => b.read < a.read + a.retry)
    BY <1>1, <2>2 DEF RateInv, AnswersHold
  <2> QED
    BY <2>1, <2>2 DEF AnswersHold
<1> QED
  BY <1>2, <1>3, <1>4, <1>5, <1>6 DEF RateInv

(* There is room for one more window: the least recently used one is one of them. *)
LEMMA RoomForOne ==
    ASSUME RateInv, NEW t
    PROVE  /\ WithRoom(Kept(t)) \subseteq Kept(t) /\ Kept(t) \subseteq windows /\ IsFiniteSet(WithRoom(Kept(t)))
           /\ Cardinality(WithRoom(Kept(t))) + 1 <= MaxClients /\ Cardinality(WithRoom(Kept(t))) \in Nat
<1> DEFINE kept == Kept(t)
<1>1. kept \subseteq windows /\ IsFiniteSet(kept) /\ Cardinality(kept) \in Nat /\ Cardinality(kept) <= MaxClients
      /\ MaxClients \in Nat \ {0}
  <2>1. kept \subseteq windows /\ IsFiniteSet(windows) /\ Cardinality(windows) <= MaxClients
    BY DEF Kept, RateInv, RateTyped, TableKept
  <2>2. IsFiniteSet(kept) /\ Cardinality(kept) <= Cardinality(windows)
    BY <2>1, FS_Subset
  <2> QED
    BY <2>1, <2>2, FS_CardinalityType, RateAssumption
<1> HIDE DEF kept
<1>2. CASE Cardinality(kept) >= MaxClients
  <2> DEFINE Less == {x \in Nat \X Nat : x[1] < x[2]}
             stamps == {w.used : w \in kept}
  <2>1. Less = OpToRel(<, Nat)
    BY DEF OpToRel
  <2>2. kept # {}
    BY <1>1, <1>2, FS_EmptySet
  <2>3. stamps \subseteq Nat /\ stamps # {}
    BY <1>1, <2>2 DEF RateInv, RateTyped, WindowSet
  <2>w. IsWellFoundedOn(Less, Nat)
    BY <2>1, NatLessThanWellFounded
  <2>4. PICK m \in stamps : \A k \in stamps : ~(<<k, m>> \in Less)
    <3> HIDE DEF Less, stamps
    <3> QED
      BY <2>w, <2>3, WFMin, Zenon
  <2>5. ASSUME NEW k \in stamps PROVE m <= k
    <3>1. m \in Nat /\ k \in Nat
      BY <2>3
    <3>2. ~(<<k, m>> \in Less)
      BY <2>4
    <3>3. ~(k < m)
      BY <3>1, <3>2 DEF Less
    <3> QED
      BY <3>1, <3>3
  <2>6. \E w \in kept : \A v \in kept : w.used <= v.used
    BY <2>4, <2>5
  <2>7. LeastRecent(kept) \in kept
    BY <2>6 DEF LeastRecent
  <2>8. IsFiniteSet(kept \ {LeastRecent(kept)}) /\ Cardinality(kept \ {LeastRecent(kept)}) = Cardinality(kept) - 1
    BY <1>1, <2>7, FS_RemoveElement
  <2>9. WithRoom(kept) = kept \ {LeastRecent(kept)}
    BY <1>2 DEF WithRoom
  <2>10. Cardinality(kept) - 1 \in Nat /\ Cardinality(kept) - 1 + 1 <= MaxClients
    BY <1>1, <1>2
  <2> QED
    BY <1>1, <2>8, <2>9, <2>10 DEF kept
<1>3. CASE ~(Cardinality(kept) >= MaxClients)
  BY <1>1, <1>3 DEF WithRoom, kept
<1> QED
  BY <1>2, <1>3

(* A window that is opened answers for the first time. *)
LEMMA OpensKeeps ==
    ASSUME RateInv, NEW t \in Threads, OpensWindow(t), reading' \in [Threads -> Int], UNCHANGED <<now, asks>>
    PROVE  RateInv'
<1> DEFINE others == WithRoom(Kept(t))
<1>1. asks[t] \in Clients /\ reading[t] \in Int /\ Answers \in Nat
  BY FS_CardinalityType DEF RateInv, RateTyped, Answers
<1>2. PICK v \in WindowSet : v = Opened(t) /\ v.id = Answers /\ v.client = asks[t] /\ v.requestCount = 1
  <2>1. /\ Opened(t) \in WindowSet /\ Opened(t).id = Answers
        /\ Opened(t).client = asks[t] /\ Opened(t).requestCount = 1
    BY <1>1 DEF Opened, WindowSet
  <2> QED
    BY <2>1
<1>3. PICK new \in AnswerSet :
         /\ new = [nth |-> Answers, window |-> v.id, client |-> asks[t], read |-> reading[t], retry |-> 0]
         /\ new.nth = Answers /\ new.window = v.id /\ new.client = asks[t] /\ new.retry = 0
  <2> DEFINE a == [nth |-> Answers, window |-> v.id, client |-> asks[t], read |-> reading[t], retry |-> 0]
  <2>1. a \in AnswerSet
    BY <1>1, <1>2 DEF AnswerSet, WindowSet
  <2> QED
    BY <2>1
<1>4. windows' = others \cup {v} /\ answered' = answered \cup {new}
  BY <1>2, <1>3 DEF OpensWindow, Answer
<1>5. others \subseteq windows /\ \A w \in others : w.client # v.client /\ w.id # v.id
  <2>1. others \subseteq windows /\ others \subseteq Kept(t)
    BY RoomForOne
  <2>2. \A w \in windows : w.id < Answers /\ w.id \in Nat
    BY DEF RateInv, Numbered, RateTyped, WindowSet
  <2> QED
    BY <1>1, <1>2, <2>1, <2>2 DEF OpensWindow
<1> HIDE DEF others
<1>6. IsFiniteSet(windows') /\ Cardinality(windows') <= MaxClients
  <2>1. IsFiniteSet(others) /\ Cardinality(others) + 1 <= MaxClients
    BY RoomForOne DEF others
  <2>2. v \notin others
    BY <1>5
  <2> QED
    BY <1>4, <2>1, <2>2, FS_AddElement
<1>7. AllowedBy(v.id) = {} /\ \A a \in answered : a.window # v.id
  <2>1. \A a \in answered : a.window < Answers /\ a.window \in Nat
    BY DEF RateInv, Numbered, RateTyped, AnswerSet
  <2> QED
    BY <1>1, <1>2, <2>1 DEF AllowedBy
<1>8. WindowKnown(v)'
  <2>1. Cardinality(AllowedBy(v.id)') = 1
    BY <1>3, <1>4, <1>7, AnswerAdded, FS_EmptySet
  <2>2. \A a \in answered' : a.window = v.id => a = new
    BY <1>4, <1>7
  <2> QED
    BY <1>2, <1>3, <2>1, <2>2, RateAssumption DEF WindowKnown
<1>9. v.id <= Answers /\ asks' \in [Threads -> Clients] /\ now' \in Nat
  BY <1>1, <1>2 DEF RateInv, RateTyped
<1> QED
  BY <1>2, <1>3, <1>4, <1>5, <1>6, <1>8, <1>9, JudgementKeeps

(* A window that answers again: what its next version must be shown to know. *)
LEMMA AnswersAgainKeeps ==
    ASSUME RateInv, NEW t \in Threads, NEW w \in Kept(t), w.client = asks[t], NEW count \in Nat, NEW retry \in Nat,
           windows' = (Kept(t) \ {w}) \cup {Used(w, count)}, Answer(w, t, retry),
           count <= Requests, count = w.requestCount + IF retry = 0 THEN 1 ELSE 0,
           retry > 0 => /\ reading[t] < w.startedAt + WindowSeconds
                        /\ reading[t] + retry = w.startedAt + WindowSeconds,
           reading' \in [Threads -> Int], UNCHANGED <<now, asks>>
    PROVE  RateInv'
<1> DEFINE others == Kept(t) \ {w}
<1>1. asks[t] \in Clients /\ reading[t] \in Int /\ Answers \in Nat
  BY FS_CardinalityType DEF RateInv, RateTyped, Answers
<1>2. w \in windows /\ w \in WindowSet /\ w.id < Answers /\ WindowKnown(w) /\ Kept(t) \subseteq windows
  BY DEF Kept, RateInv, RateTyped, Numbered
<1>3. PICK v \in WindowSet :
         /\ v = Used(w, count) /\ v.id = w.id /\ v.client = w.client
         /\ v.startedAt = w.startedAt /\ v.requestCount = count
  <2>1. /\ Used(w, count) \in WindowSet /\ Used(w, count).id = w.id /\ Used(w, count).client = w.client
        /\ Used(w, count).startedAt = w.startedAt /\ Used(w, count).requestCount = count
    BY <1>1, <1>2 DEF Used, WindowSet
  <2> QED
    BY <2>1
<1>4. PICK new \in AnswerSet :
         /\ new = [nth |-> Answers, window |-> w.id, client |-> asks[t], read |-> reading[t], retry |-> retry]
         /\ new.nth = Answers /\ new.window = w.id /\ new.client = w.client
         /\ new.read = reading[t] /\ new.retry = retry
  <2> DEFINE a == [nth |-> Answers, window |-> w.id, client |-> asks[t], read |-> reading[t], retry |-> retry]
  <2>1. a \in AnswerSet
    BY <1>1, <1>2 DEF AnswerSet, WindowSet
  <2> QED
    BY <1>2, <2>1
<1>5. windows' = others \cup {v} /\ answered' = answered \cup {new}
  BY <1>3, <1>4 DEF Answer
<1>6. others \subseteq windows /\ \A u \in others : u.client # v.client /\ u.id # v.id
  BY <1>2, <1>3 DEF RateInv, TableKept, Numbered
<1> HIDE DEF others
<1>7. IsFiniteSet(windows') /\ Cardinality(windows') <= MaxClients
  <2>1. IsFiniteSet(windows) /\ Cardinality(windows) \in Nat /\ Cardinality(windows) <= MaxClients /\ MaxClients \in Nat
    BY FS_CardinalityType, RateAssumption DEF RateInv, RateTyped, TableKept
  <2>2. IsFiniteSet(windows \ {w}) /\ Cardinality(windows \ {w}) = Cardinality(windows) - 1
    BY <1>2, <2>1, FS_RemoveElement
  <2>3. others \subseteq windows \ {w}
    BY <1>2 DEF others
  <2>4. IsFiniteSet(others) /\ Cardinality(others) <= Cardinality(windows) - 1 /\ Cardinality(others) \in Nat
    BY <2>2, <2>3, FS_Subset, FS_CardinalityType
  <2>5. v \notin others
    BY <1>6
  <2>6. IsFiniteSet(others \cup {v}) /\ Cardinality(others \cup {v}) = Cardinality(others) + 1
    BY <2>4, <2>5, FS_AddElement
  <2>7. windows' = others \cup {v}
    BY <1>5
  <2>8. Cardinality(others) + 1 <= MaxClients
    BY <2>1, <2>4
  <2> QED
    BY <2>6, <2>7, <2>8
<1>8. Cardinality(AllowedBy(v.id)') = count
  <2>1. Cardinality(AllowedBy(w.id)) = w.requestCount
    BY <1>2 DEF WindowKnown
  <2>2. retry = 0 => Cardinality(AllowedBy(w.id)') = Cardinality(AllowedBy(w.id)) + 1
    BY <1>4, <1>5, AnswerAdded
  <2>3. retry # 0 => AllowedBy(w.id)' = AllowedBy(w.id)
    BY <1>4, <1>5, AnswerAdded
  <2>4. count \in Nat /\ w.requestCount \in Nat
    BY <1>2 DEF WindowSet
  <2> QED
    BY <1>3, <2>1, <2>2, <2>3, <2>4
<1>9. WindowKnown(v)'
  <2>1. \A a \in answered' : a.window = v.id =>
          /\ a.client = v.client
          /\ a.retry > 0 => /\ a.read < v.startedAt + WindowSeconds
                            /\ a.read + a.retry = v.startedAt + WindowSeconds
    BY <1>2, <1>3, <1>4, <1>5 DEF WindowKnown
  <2> QED
    BY <1>3, <1>8, <2>1 DEF WindowKnown
<1>10. v.id <= Answers /\ new.window = v.id /\ asks' \in [Threads -> Clients] /\ now' \in Nat
  BY <1>1, <1>2, <1>3, <1>4 DEF RateInv, RateTyped, WindowSet
<1> QED
  BY <1>3, <1>4, <1>5, <1>6, <1>7, <1>9, <1>10, JudgementKeeps

(* Every step of the clock and of the threads. *)
LEMMA RateSteps == ASSUME RateInv, [RateNext]_rateVars PROVE RateInv'
<1>1. CASE UNCHANGED <<windows, answered, asks>> /\ reading' = reading /\ now' \in Nat
  BY <1>1 DEF RateInv, RateTyped, TableKept, Numbered, Answers, WindowKnown, AllowedBy, AnswersHold
<1>2. ASSUME NEW t \in Threads, ReadClock(t) PROVE RateInv'
  <2>1. UNCHANGED <<windows, answered, now>> /\ reading' \in [Threads -> Int] /\ asks' \in [Threads -> Clients]
    BY <1>2 DEF ReadClock, RateInv, RateTyped
  <2> QED
    BY <2>1 DEF RateInv, RateTyped, TableKept, Numbered, Answers, WindowKnown, AllowedBy, AnswersHold
<1>3. ASSUME NEW t \in Threads, Judge(t) PROVE RateInv'
  <2>1. reading' \in [Threads -> Int] /\ UNCHANGED <<now, asks>> /\ reading[t] \in Int
    BY <1>3 DEF Judge, RateInv, RateTyped, Nothing
  <2>2. CASE OpensWindow(t)
    BY <2>1, <2>2, OpensKeeps
  <2>3. ASSUME NEW w \in Kept(t), w.client = asks[t], Allows(t, w) PROVE RateInv'
    <3>1. w.requestCount \in Nat /\ w.requestCount + 1 <= Requests
      BY <2>3, RateAssumption DEF Allows, Kept, RateInv, RateTyped, WindowSet
    <3>2. windows' = (Kept(t) \ {w}) \cup {Used(w, w.requestCount + 1)} /\ Answer(w, t, 0)
      BY <2>3 DEF Allows
    <3>3. w.requestCount + 1 \in Nat /\ w.requestCount + 1 = w.requestCount + IF 0 = 0 THEN 1 ELSE 0
      BY <3>1
    <3> QED
      BY <2>1, <2>3, <3>1, <3>2, <3>3, AnswersAgainKeeps
  <2>4. ASSUME NEW w \in Kept(t), w.client = asks[t], Refuses(t, w) PROVE RateInv'
    <3> DEFINE remaining == WindowSeconds - (reading[t] - w.startedAt)
    <3>1. w \in WindowSet /\ w.requestCount <= Requests /\ reading[t] - w.startedAt < WindowSeconds
      BY DEF Kept, Live, RateInv, RateTyped, WindowKnown
    <3>2. remaining \in Nat /\ remaining >= 1 /\ reading[t] + remaining = w.startedAt + WindowSeconds
          /\ reading[t] < w.startedAt + WindowSeconds /\ w.requestCount \in Nat
      BY <2>1, <3>1, RateAssumption DEF WindowSet
    <3>3. windows' = (Kept(t) \ {w}) \cup {Used(w, w.requestCount)} /\ Answer(w, t, remaining)
      BY <2>4, <3>2 DEF Refuses
    <3> HIDE DEF remaining
    <3>4. w.requestCount = w.requestCount + IF remaining = 0 THEN 1 ELSE 0
      BY <3>2
    <3> QED
      BY <2>1, <2>4, <3>1, <3>2, <3>3, <3>4, AnswersAgainKeeps
  <2> QED
    BY <1>3, <2>2, <2>3, <2>4 DEF Judge
<1>4. CASE Tick \/ UNCHANGED rateVars
  BY <1>1, <1>4 DEF Tick, rateVars, RateInv, RateTyped
<1> QED
  BY <1>2, <1>3, <1>4 DEF RateNext

(* Every judgement keeps what is known of the windows in the table and the
   promises of those that have left it. *)
THEOREM RateInvariance == RateSpec => []RateInv
<1>1. RateInv /\ [RateNext]_rateVars => RateInv'
  BY RateSteps
<1> QED
  BY <1>1, RateStart, PTL DEF RateSpec

(* For any number of threads, clients and checks, and whatever the order in which
   the threads reach the lock, the table is bounded, a window allows at most
   Requests checks, and waiting as told suffices: rate_limiter.py. *)
THEOREM WaitingAsToldSuffices == RateSpec => []RateHolds
<1>1. RateInv => RateHolds
  BY DEF RateInv, TableKept, AnswersHold, RateHolds, AllowedBy
<1> QED
  BY <1>1, RateInvariance, PTL

=============================================================================

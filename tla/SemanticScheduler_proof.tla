---------------------- MODULE SemanticScheduler_proof ----------------------
(***************************************************************************)
(* Proofs about SemanticScheduler, for any sets of spaces and paths        *)
(* (infinite ones too) and any limits: the reservations are counted        *)
(* exactly, no accepted path and no wake-up is lost, a reported shutdown   *)
(* is clean, and nobody is served twice before an owner that stays ready.  *)
(***************************************************************************)
EXTENDS SemanticScheduler, FiniteSetTheorems, WellFoundedInduction, TLAPS

(* TypeOK flag by flag, but for the count. *)
Types ==
    /\ pending \in [Owners -> SUBSET Paths]
    /\ inflight \in [Owners -> SUBSET Paths]
    /\ deferred \in [Owners -> SUBSET Paths]
    /\ probe \in [Owners -> Paths \cup {NoPath}]
    /\ owed \in [Owners -> SUBSET Paths]
    /\ covered \in [Owners -> SUBSET Paths]
    /\ ahead \in [Owners -> SUBSET Owners]
    /\ crossed \in [Owners -> BOOLEAN]
    /\ fullNeeded \in [Owners -> BOOLEAN]
    /\ fullAgain \in [Owners -> BOOLEAN]
    /\ fullActive \in [Owners -> BOOLEAN]
    /\ continuation \in [Owners -> BOOLEAN]
    /\ running \in [Owners -> BOOLEAN]
    /\ paused \in [Owners -> BOOLEAN]
    /\ wakePending \in [Owners -> BOOLEAN]
    /\ cancel \in [Owners -> BOOLEAN]
    /\ cleanupFailed \in [Owners -> BOOLEAN]
    /\ cleanupComplete \in [Owners -> BOOLEAN]
    /\ trig \in [Owners -> BOOLEAN]
    /\ failedTurn \in [Owners -> BOOLEAN]
    /\ lastId \in Owners \cup {NoOwner}
    /\ cur \in Owners \cup {NoOwner}
    /\ turn \in {"none", "entered", "checked", "preempting", "beginning", "stepping", "raised",
                 "ending"}
    /\ watching \in {"off", "on", "fenced"}
    /\ closed \in BOOLEAN
    /\ worker \in {"staged", "live", "closing", "done"}
    /\ shutdown \in {"no", "first", "retry", "retryable", "complete"}
    /\ passLeft \subseteq Owners

(* The owner of the turn is the one that runs, and turns are taken by the  *)
(* live worker only; the passes over the owners come after the last turn,  *)
(* and an owner whose cleanup is complete has nothing left.                *)
Turns ==
    /\ \A o \in Owners : running[o] <=> cur = o
    /\ worker # "live" => cur = NoOwner
    /\ worker \in {"closing", "done"} => closed
    /\ shutdown # "no" => closed /\ worker \in {"staged", "done"}
    /\ passLeft # {} => closed /\ worker # "live"
    /\ \A o \in Owners : cleanupComplete[o] =>
         closed /\ worker # "live" /\ inflight[o] = {} /\ ~continuation[o]
    /\ shutdown = "complete" => \A o \in Owners : cleanupComplete[o]

\* A job of o exists: it has claimed its paths and has not ended.
Job(o) == continuation[o] \/ (cur = o /\ turn = "beginning")

(* Paths are in flight only during a job or on the way to publishing its   *)
(* failure, and no job begins beside a yielded one.                        *)
Stages ==
    /\ \A o \in Owners :
         /\ inflight[o] # {} => Job(o) \/ (cur = o /\ turn = "raised")
         /\ cur = o /\ turn = "beginning" => ~continuation[o]
         /\ cur = o /\ turn \in {"preempting", "stepping"} => continuation[o]
    /\ closed => \A o \in Owners : pending[o] = {} /\ deferred[o] = {} /\ cancel[o]

\* What is counted is finite, whatever the sets of spaces and paths.
Counted == IsFiniteSet(Reserved) /\ ReservationsCounted

(* Full debt is not forgotten by the job that does not pay it, and a path  *)
(* the job does not pay either waits in the queue or renews the full debt. *)
Debts ==
    \A o \in Owners :
      /\ fullActive[o] \/ fullAgain[o] => fullNeeded[o]
      /\ cur = o /\ turn = "preempting" => fullNeeded[o]
      /\ cancel[o] /\ Job(o) => fullNeeded[o]
      /\ closed /\ owed[o] # {} => fullNeeded[o]
      /\ Job(o) => \A p \in owed[o] \ covered[o] :
           \/ p \in pending[o] \cup deferred[o]
           \/ fullAgain[o] \/ cancel[o]
           \/ fullNeeded[o] /\ ~fullActive[o] /\ continuation[o]

(* A wake-up that came during a turn is remembered until the turn has been *)
(* published, and only a cancelled job is paused.                          *)
Wakeups ==
    \A o \in Owners :
      /\ failedTurn[o] /\ ~trig[o] => paused[o]
      /\ wakePending[o] => trig[o] /\ (closed \/ running[o] \/ (continuation[o] /\ cancel[o]))
      /\ trig[o] /\ ~closed /\ (running[o] \/ (continuation[o] /\ cancel[o])) => wakePending[o]
      /\ trig[o] /\ ~closed /\ ~running[o] /\ ~(continuation[o] /\ cancel[o]) => ~paused[o]
      /\ paused[o] /\ (continuation[o] \/ (cur = o /\ turn # "ending")) => cancel[o]

Inductive ==
    Types /\ Turns /\ Stages /\ Counted /\ Debts /\ NoTargetLost /\ Wakeups

\* b is met before a on the way round from l (l itself comes last).
Between(q, a, l) == (q < a /\ a <= l) \/ (a <= l /\ l < q) \/ (l < q /\ q < a)

(* Everyone served since an owner began to wait stands between it and the  *)
(* last one served.                                                        *)
InOrder ==
    \A q \in Owners : \A a \in ahead[q] : lastId \in Owners /\ Between(q, a, lastId)
-----------------------------------------------------------------------------
(* The next owner. *)

(* Min is the least of some naturals. *)
LEMMA MinOfNaturals ==
    ASSUME NEW S \in SUBSET Nat, S # {}
    PROVE  Min(S) \in S /\ \A y \in S : Min(S) <= y
<1> DEFINE Below == {0..k : k \in S}
<1>1. Below \subseteq FiniteSubsetsOf(Nat) /\ Below # {}
  <2>1. ASSUME NEW k \in S PROVE 0..k \in FiniteSubsetsOf(Nat)
    BY FS_Interval DEF FiniteSubsetsOf
  <2> QED
    BY <2>1
<1>2. PICK T \in Below : \A U \in Below : ~ (<<U, T>> \in StrictSubsetOrdering(Nat))
  BY <1>1, FS_StrictSubsetOrderingWellFounded, WFMin
<1>3. PICK x \in S : T = 0..x
  OBVIOUS
<1>4. ASSUME NEW y \in S, ~ (x <= y) PROVE FALSE
  <2>1. 0..y \in Below /\ 0..y \subseteq T /\ x \in T /\ x \notin 0..y /\ T \subseteq Nat
    BY <1>3, <1>4
  <2>2. <<0..y, T>> \in StrictSubsetOrdering(Nat)
    BY <2>1 DEF StrictSubsetOrdering
  <2> QED
    BY <1>2, <2>1, <2>2
<1> QED
  BY <1>3, <1>4 DEF Min

(* _select picks a ready owner, and none that is ready stands between the  *)
(* last one served and it.                                                 *)
LEMMA NextOwnerInTurn ==
    ASSUME ReadyOwners # {}, lastId \in Owners \cup {NoOwner}
    PROVE  /\ NextOwner \in ReadyOwners
           /\ \A q \in ReadyOwners : lastId \in Owners /\ q # NextOwner =>
                \/ lastId < NextOwner /\ (NextOwner < q \/ q <= lastId)
                \/ NextOwner < q /\ q <= lastId
<1> DEFINE later == {o \in ReadyOwners : lastId = NoOwner \/ o > lastId}
<1>1. ReadyOwners \in SUBSET Nat /\ later \in SUBSET Nat
  BY SemanticSchedulerAssumption DEF ReadyOwners
<1>2. CASE later # {}
  <2>1. NextOwner \in later /\ \A q \in later : NextOwner <= q
    <3> HIDE DEF later
    <3>1. Min(later) \in later /\ \A q \in later : Min(later) <= q
      BY <1>1, <1>2, MinOfNaturals
    <3> QED
      BY <1>2, <3>1 DEF NextOwner, later
  <2> QED
    BY <1>1, <2>1, SemanticSchedulerAssumption
<1>3. CASE later = {}
  <2>1. NextOwner \in ReadyOwners /\ \A q \in ReadyOwners : NextOwner <= q
    <3>1. Min(ReadyOwners) \in ReadyOwners /\ \A q \in ReadyOwners : Min(ReadyOwners) <= q
      BY <1>1, MinOfNaturals
    <3> QED
      BY <1>3, <3>1 DEF NextOwner
  <2> QED
    BY <1>1, <1>3, <2>1, SemanticSchedulerAssumption
<1> QED
  BY <1>2, <1>3
-----------------------------------------------------------------------------
(* What the helpers of the triggers leave behind. *)
LEMMA WakeTypes ==
    ASSUME NEW o \in Owners, Types, Wake(o)
    PROVE  /\ wakePending' \in [Owners -> BOOLEAN] /\ trig' \in [Owners -> BOOLEAN]
           /\ cancel' \in [Owners -> BOOLEAN] /\ paused' \in [Owners -> BOOLEAN]
BY DEF Types, Wake

LEMMA RequestFullTypes ==
    ASSUME NEW o \in Owners, Types, RequestFull(o)
    PROVE  /\ fullNeeded' \in [Owners -> BOOLEAN] /\ fullAgain' \in [Owners -> BOOLEAN]
           /\ UNCHANGED <<fullActive, continuation>>
BY DEF Types, RequestFull

LEMMA OweTypes ==
    ASSUME NEW o \in Owners, NEW p \in Paths, Types, Owe(o, p)
    PROVE  owed' \in [Owners -> SUBSET Paths] /\ covered' \in [Owners -> SUBSET Paths]
BY DEF Types, Owe

(* A turn is taken by the live worker, before any shutdown pass. *)
LEMMA TurnIsLive ==
    ASSUME Inductive, NEW o \in Owners, cur = o
    PROVE  /\ worker = "live" /\ passLeft = {} /\ shutdown = "no" /\ running[o]
           /\ \A q \in Owners : ~cleanupComplete[q] /\ (running[q] <=> q = o)
BY SemanticSchedulerAssumption DEF Inductive, Types, Turns

-----------------------------------------------------------------------------
(* The counts. *)

(* As many pairs as there are second members. *)
LEMMA Slice ==
    ASSUME NEW o, NEW D, IsFiniteSet({o} \X D)
    PROVE  IsFiniteSet(D) /\ Cardinality(D) = Cardinality({o} \X D)
<1> DEFINE f == [r \in {o} \X D |-> r[2]]
<1>1. f \in Bijection({o} \X D, D)
  <2>1. f \in [{o} \X D -> D]
    OBVIOUS
  <2>2. \A a, b \in {o} \X D : f[a] = f[b] => a = b
    OBVIOUS
  <2>3. ASSUME NEW d \in D PROVE \E a \in {o} \X D : f[a] = d
    <3>1. <<o, d>> \in {o} \X D /\ f[<<o, d>>] = d
      OBVIOUS
    <3> QED
      BY <3>1
  <2> QED
    BY <2>1, <2>2, <2>3 DEF Bijection, Injection, Surjection, IsInjective
<1> QED
  BY <1>1, FS_Bijection DEF ExistsBijection

(* The paths reserved for one owner are counted among all reservations. *)
LEMMA SliceOfReserved ==
    ASSUME Types, IsFiniteSet(Reserved), NEW o \in Owners, NEW D, D \subseteq Identities(o)
    PROVE  /\ {o} \X D \subseteq Reserved
           /\ IsFiniteSet(D) /\ Cardinality(D) \in Nat /\ Cardinality(D) = Cardinality({o} \X D)
<1>1. {o} \X D \subseteq Reserved
  BY DEF Types, Reserved, Identities
<1>2. IsFiniteSet({o} \X D)
  BY <1>1, FS_Subset
<1> QED
  BY <1>1, <1>2, Slice, FS_CardinalityType

(* Nothing was reserved or given up. *)
LEMMA CountSame ==
    ASSUME Counted, total' = total, \A q \in Owners : Identities(q)' = Identities(q)
    PROVE  Counted'
<1>1. Reserved' = Reserved
  BY DEF Reserved
<1> QED
  BY <1>1 DEF Counted, ReservationsCounted

(* One path was reserved, or had been before, within the limits. *)
LEMMA CountGrows ==
    ASSUME Types, Counted, NEW o \in Owners, NEW p \in Paths, Fits(o, p), Admitted(o, p),
           \A q \in Owners : Identities(q)' = IF q = o THEN Identities(q) \cup {p}
                                              ELSE Identities(q)
    PROVE  Counted'
<1>1. CASE p \in Identities(o)
  BY <1>1, CountSame DEF Admitted
<1>2. CASE p \notin Identities(o)
  <2>1. Reserved' = Reserved \cup {<<o, p>>}
    BY DEF Reserved
  <2>2. <<o, p>> \notin Reserved
    BY <1>2 DEF Reserved
  <2>3. IsFiniteSet(Reserved') /\ Cardinality(Reserved') = Cardinality(Reserved) + 1
    BY <2>1, <2>2, FS_AddElement DEF Counted
  <2>4. total < GlobalLimit /\ Cardinality(Identities(o)) < SpaceLimit /\ total' = total + 1
    BY <1>2 DEF Fits, Admitted
  <2>5. IsFiniteSet(Identities(o)) /\ Cardinality(Identities(o)) \in Nat
    BY SliceOfReserved DEF Counted
  <2>6. Cardinality(Identities(o) \cup {p}) = Cardinality(Identities(o)) + 1
    BY <1>2, <2>5, FS_AddElement
  <2>7. Cardinality(Identities(o) \cup {p}) <= SpaceLimit
    BY <2>4, <2>5, <2>6, SemanticSchedulerAssumption
  <2>8. total' = Cardinality(Reserved') /\ total' <= GlobalLimit
    BY <2>3, <2>4, FS_CardinalityType, SemanticSchedulerAssumption DEF Counted, ReservationsCounted
  <2>9. \A q \in Owners : Cardinality(Identities(q)') <= SpaceLimit
    BY <2>7 DEF Counted, ReservationsCounted
  <2> QED
    BY <2>3, <2>8, <2>9 DEF Counted, ReservationsCounted
<1> QED
  BY <1>1, <1>2

(* Some reservations were given up, and exactly those were subtracted. *)
LEMMA CountShrinks ==
    ASSUME Types, Counted, NEW X, X \subseteq Reserved, total' = total - Cardinality(X),
           \A q \in Owners : Identities(q)' = {p \in Identities(q) : <<q, p>> \notin X}
    PROVE  Counted'
<1>1. Reserved' = Reserved \ X
  BY DEF Reserved
<1>2. /\ IsFiniteSet(Reserved') /\ Cardinality(Reserved') = Cardinality(Reserved) - Cardinality(X)
      /\ Cardinality(Reserved) \in Nat /\ Cardinality(X) \in Nat
  <2>1. IsFiniteSet(Reserved) /\ Reserved \cap X = X
    BY DEF Counted
  <2>2. IsFiniteSet(X) /\ Cardinality(X) \in Nat /\ Cardinality(Reserved) \in Nat
    BY <2>1, FS_Subset, FS_CardinalityType
  <2>3. /\ IsFiniteSet(Reserved \ X)
        /\ Cardinality(Reserved \ X) = Cardinality(Reserved) - Cardinality(X)
    BY <2>1, FS_Difference
  <2> QED
    BY <1>1, <2>2, <2>3
<1>3. total' = Cardinality(Reserved') /\ total' <= GlobalLimit
  BY <1>2, SemanticSchedulerAssumption DEF Counted, ReservationsCounted
<1>4. ASSUME NEW q \in Owners PROVE Cardinality(Identities(q)') <= SpaceLimit
  <2>1. Identities(q)' \subseteq Identities(q)
    OBVIOUS
  <2>2. IsFiniteSet(Identities(q)) /\ Cardinality(Identities(q)) <= SpaceLimit
    BY SliceOfReserved DEF Counted, ReservationsCounted
  <2>3. /\ Cardinality(Identities(q)') <= Cardinality(Identities(q))
        /\ Cardinality(Identities(q)') \in Nat /\ Cardinality(Identities(q)) \in Nat
    BY <2>1, <2>2, FS_Subset, FS_CardinalityType
  <2> QED
    BY <2>2, <2>3, SemanticSchedulerAssumption
<1> QED
  BY <1>2, <1>3, <1>4 DEF Counted, ReservationsCounted

(* The same when one owner gives up the paths D. *)
LEMMA OwnerShrinks ==
    ASSUME Types, Counted, NEW o \in Owners, NEW D, D \subseteq Identities(o),
           total' = total - Cardinality(D),
           \A q \in Owners : Identities(q)' = IF q = o THEN Identities(q) \ D ELSE Identities(q)
    PROVE  Counted'
<1>1. {o} \X D \subseteq Reserved /\ Cardinality(D) = Cardinality({o} \X D)
  BY SliceOfReserved DEF Counted
<1>2. \A q \in Owners : Identities(q)' = {p \in Identities(q) : <<q, p>> \notin {o} \X D}
  OBVIOUS
<1> QED
  BY <1>1, <1>2, CountShrinks

(* _release_inflight. *)
LEMMA ReleaseCounts ==
    ASSUME Types, Counted, NEW o \in Owners, ReleaseInflight(o)
    PROVE  Counted'
<1> DEFINE D == inflight[o] \ (pending[o] \cup deferred[o])
<1>1. D \subseteq Identities(o) /\ total' = total - Cardinality(D)
  BY DEF ReleaseInflight, ReleasedTotal, Identities
<1>2. \A q \in Owners : Identities(q)' = IF q = o THEN Identities(q) \ D ELSE Identities(q)
  BY DEF Types, ReleaseInflight, Identities
<1> QED
  BY <1>1, <1>2, OwnerShrinks
-----------------------------------------------------------------------------
(* The steps, one conjunct of the invariant at a time. *)

(* Every step keeps the types, but for the count. *)
LEMMA TypesKept == ASSUME Inductive, [Next]_vars PROVE Types'
<1>1. ASSUME NEW o \in Owners, NEW p \in Paths, Enqueue(o, p) PROVE Types'
  <2>1. Wake(o) /\ Owe(o, p) /\ UNCHANGED <<workerVars, cleanupVars, watching, closed>>
    BY <1>1 DEF Enqueue
  <2>2. UNCHANGED fullVars \/ RequestFull(o)
    BY <1>1 DEF Enqueue
  <2>3. /\ pending' = pending \/ pending' = [pending EXCEPT ![o] = @ \cup {p}]
        /\ deferred' = deferred \/ deferred' = [deferred EXCEPT ![o] = @ \ {p}]
        /\ crossed' = crossed \/ crossed' = [crossed EXCEPT ![o] = probe[o] # NoPath]
        /\ UNCHANGED <<inflight, probe>>
    BY <1>1 DEF Enqueue, Cross, queueVars
  <2>4. pending' \in [Owners -> SUBSET Paths]
    BY <2>3 DEF Inductive, Types
  <2>5. deferred' \in [Owners -> SUBSET Paths]
    BY <2>3 DEF Inductive, Types
  <2>6. crossed' \in [Owners -> BOOLEAN]
    BY <2>3 DEF Inductive, Types
  <2> QED
    BY <2>1, <2>2, <2>3, <2>4, <2>5, <2>6, WakeTypes, RequestFullTypes, OweTypes
    DEF Inductive, Types, fullVars, workerVars, cleanupVars
<1>2. ASSUME NEW o \in Owners, NEW p \in Paths, DeliverFails(o, p) PROVE Types'
  <2>1. RequestFull(o) /\ (UNCHANGED wakeVars \/ Wake(o))
        /\ UNCHANGED <<pending, inflight, probe, workerVars, cleanupVars, debtVars, watching, closed>>
    BY <1>2 DEF DeliverFails
  <2>2. deferred' \in [Owners -> SUBSET Paths] /\ crossed' \in [Owners -> BOOLEAN]
    BY <1>2 DEF DeliverFails, Cross, Inductive, Types
  <2> QED
    BY <2>1, <2>2, WakeTypes, RequestFullTypes
    DEF Inductive, Types, wakeVars, workerVars, cleanupVars, debtVars
<1>3. ASSUME NEW o \in Owners, NEW p \in Paths, ProbeBegins(o, p) PROVE Types'
  BY <1>3 DEF ProbeBegins, queueVars, fullVars, wakeVars, workerVars, cleanupVars, debtVars,
      Inductive, Types
<1>4. ASSUME NEW o \in Owners, NEW p \in Paths, Deliver(o, p) PROVE Types'
  <2>1. /\ Wake(o)
        /\ UNCHANGED <<inflight, probe, fullVars, workerVars, cleanupVars, debtVars, watching, closed>>
    BY <1>4 DEF Deliver
  <2>2. pending' \in [Owners -> SUBSET Paths] /\ deferred' \in [Owners -> SUBSET Paths]
    BY <1>4 DEF Deliver, Inductive, Types
  <2>3. crossed' \in [Owners -> BOOLEAN]
    BY <1>4 DEF Deliver, Cross, Inductive, Types
  <2> QED
    BY <2>1, <2>2, <2>3, WakeTypes DEF Inductive, Types, fullVars, workerVars, cleanupVars, debtVars
<1>5. ASSUME NEW o \in Owners, ProbeCrossed(o) PROVE Types'
  <2>1. /\ RequestFull(o) /\ Wake(o) /\ Owe(o, probe[o]) /\ probe[o] \in Paths
        /\ UNCHANGED <<pending, inflight, deferred, total, workerVars, cleanupVars, watching, closed>>
    BY <1>5 DEF ProbeCrossed, Inductive, Types
  <2>2. probe' \in [Owners -> Paths \cup {NoPath}] /\ crossed' \in [Owners -> BOOLEAN]
    BY <1>5 DEF ProbeCrossed, Inductive, Types
  <2> QED
    BY <2>1, <2>2, WakeTypes, RequestFullTypes, OweTypes
    DEF Inductive, Types, workerVars, cleanupVars
<1>6. ASSUME NEW o \in Owners, ProbeAdmits(o) PROVE Types'
  <2>1. /\ Wake(o) /\ Owe(o, probe[o]) /\ probe[o] \in Paths
        /\ UNCHANGED <<pending, inflight, workerVars, cleanupVars, watching, closed>>
    BY <1>6 DEF ProbeAdmits, Inductive, Types
  <2>2. UNCHANGED fullVars \/ RequestFull(o)
    BY <1>6 DEF ProbeAdmits
  <2>3. /\ probe' \in [Owners -> Paths \cup {NoPath}] /\ crossed' \in [Owners -> BOOLEAN]
        /\ deferred' \in [Owners -> SUBSET Paths]
    BY <1>6 DEF ProbeAdmits, Inductive, Types
  <2> QED
    BY <2>1, <2>2, <2>3, WakeTypes, RequestFullTypes, OweTypes
    DEF Inductive, Types, fullVars, workerVars, cleanupVars
<1>7. ASSUME NEW o \in Owners, ProbeRefused(o) PROVE Types'
  BY <1>7 DEF ProbeRefused, queueVars, fullVars, wakeVars, workerVars, cleanupVars, debtVars,
      Inductive, Types
<1>8. ASSUME NEW o \in Owners, WatcherLoss(o) PROVE Types'
  <2>1. RequestFull(o) /\ (UNCHANGED wakeVars \/ Wake(o))
        /\ UNCHANGED <<queueVars, workerVars, cleanupVars, debtVars, watching, closed>>
    BY <1>8 DEF WatcherLoss
  <2> QED
    BY <2>1, WakeTypes, RequestFullTypes
    DEF Inductive, Types, queueVars, wakeVars, workerVars, cleanupVars, debtVars
<1>9. ASSUME NEW o \in Owners, RequestFullSync(o) PROVE Types'
  <2>1. /\ RequestFull(o) /\ Wake(o)
        /\ UNCHANGED <<queueVars, workerVars, cleanupVars, debtVars, watching, closed>>
    BY <1>9 DEF RequestFullSync
  <2> QED
    BY <2>1, WakeTypes, RequestFullTypes
    DEF Inductive, Types, queueVars, workerVars, cleanupVars, debtVars
<1>10. ASSUME NEW o \in Owners, Retry(o) PROVE Types'
  <2>1. /\ Wake(o)
        /\ UNCHANGED <<queueVars, fullVars, workerVars, cleanupVars, debtVars, watching, closed>>
    BY <1>10 DEF Retry
  <2> QED
    BY <2>1, WakeTypes DEF Inductive, Types, queueVars, fullVars, workerVars, cleanupVars, debtVars
<1>11. ASSUME NEW o \in Owners, Cancel(o) PROVE Types'
  BY <1>11 DEF Cancel, DropReservations, Cross, queueVars, fullVars, wakeVars, workerVars,
      cleanupVars, debtVars, Inductive, Types
<1>12. ASSUME AttachWatcher PROVE Types'
  BY <1>12 DEF AttachWatcher, queueVars, fullVars, wakeVars, workerVars, cleanupVars, debtVars,
      Inductive, Types
<1>13. ASSUME FenceWatcher PROVE Types'
  BY <1>13 DEF FenceWatcher, queueVars, fullVars, wakeVars, workerVars, cleanupVars, debtVars,
      Inductive, Types
<1>14. ASSUME RetireWatcher PROVE Types'
  BY <1>14 DEF RetireWatcher, RetireWork, None, queueVars, fullVars, wakeVars, workerVars,
      cleanupVars, debtVars, Inductive, Types
<1>15. ASSUME Start PROVE Types'
  <2>1. /\ worker' = "live" /\ fullNeeded' \in {fullNeeded, [o \in Owners |-> TRUE]}
        /\ UNCHANGED <<queueVars, fullAgain, fullActive, continuation, wakeVars, workerVars,
                       cleanupFailed, cleanupComplete, shutdown, passLeft, debtVars, watching, closed>>
    BY <1>15 DEF Start
  <2>2. fullNeeded' \in [Owners -> BOOLEAN]
    BY <2>1 DEF Inductive, Types
  <2> QED
    BY <2>1, <2>2 DEF Inductive, Types, queueVars, wakeVars, workerVars, debtVars
<1>16. ASSUME Select PROVE Types'
  <2>1. NextOwner \in Owners
    BY <1>16, NextOwnerInTurn DEF Select, Inductive, Types, ReadyOwners
  <2>2. /\ cur' = NextOwner /\ lastId' = NextOwner /\ turn' = "entered"
        /\ running' = [running EXCEPT ![NextOwner] = TRUE]
        /\ failedTurn' = [failedTurn EXCEPT ![NextOwner] = FALSE]
        /\ UNCHANGED <<queueVars, fullVars, paused, wakePending, cancel, cleanupVars, debtVars,
                       watching, closed>>
    BY <1>16 DEF Select
  <2>3. ahead' \in [Owners -> SUBSET Owners]
    <3>1. ahead' = [q \in Owners |-> IF q = NextOwner \/ ~Ready(q) THEN {} ELSE ahead[q] \cup {NextOwner}]
      BY <1>16 DEF Select
    <3>2. \A q \in Owners : ahead[q] \cup {NextOwner} \in SUBSET Owners
      BY <2>1 DEF Inductive, Types
    <3> QED
      BY <3>1, <3>2
  <2>4. trig' \in [Owners -> BOOLEAN]
    BY <1>16 DEF Select, Inductive, Types
  <2> QED
    BY <2>1, <2>2, <2>3, <2>4 DEF Inductive, Types, queueVars, fullVars, cleanupVars, debtVars
<1>17. ASSUME NEW o \in Owners, cur = o, Checked(o) \/ Resume(o) \/ Raises(o) \/ ClaimRefused(o)
             \/ Yields(o)
      PROVE  Types'
  BY <1>17 DEF Checked, Goto, Resume, Raises, ClaimRefused, Yields, queueVars, fullVars, wakeVars,
      workerVars, cleanupVars, debtVars, Inductive, Types
<1>18. ASSUME NEW o \in Owners, cur = o, Preempt(o) PROVE Types'
  BY <1>18 DEF Preempt, ReleaseInflight, Goto, queueVars, fullVars, wakeVars, workerVars,
      cleanupVars, debtVars, Inductive, Types
<1>19. ASSUME NEW o \in Owners, cur = o, Completes(o) PROVE Types'
  BY <1>19 DEF Completes, ReleaseInflight, Goto, queueVars, fullVars, wakeVars, workerVars,
      cleanupVars, debtVars, Inductive, Types
<1>20. ASSUME NEW o \in Owners, cur = o, Fails(o) PROVE Types'
  BY <1>20 DEF Fails, ReleaseInflight, queueVars, fullVars, wakeVars, workerVars, cleanupVars,
      debtVars, Inductive, Types
<1>21. ASSUME NEW o \in Owners, cur = o, Claim(o) PROVE Types'
  BY <1>21 DEF Claim, Cross, Goto, queueVars, fullVars, wakeVars, workerVars, cleanupVars,
      debtVars, Inductive, Types
<1>22. ASSUME NEW o \in Owners, cur = o, Begin(o) PROVE Types'
  <2>1. /\ cleanupFailed' = [cleanupFailed EXCEPT ![o] = FALSE]
        /\ continuation' = [continuation EXCEPT ![o] = TRUE]
        /\ Goto("stepping")
        /\ UNCHANGED <<fullAgain, wakeVars, cleanupComplete, worker, shutdown, passLeft, debtVars,
                       watching, closed>>
    BY <1>22 DEF Begin
  <2>2. /\ fullActive' \in {fullActive, [fullActive EXCEPT ![o] = TRUE]}
        /\ fullNeeded' \in {fullNeeded, [fullNeeded EXCEPT ![o] = TRUE]}
        /\ inflight' \in {inflight, [inflight EXCEPT ![o] = {}]}
        /\ UNCHANGED <<pending, deferred, probe, crossed>>
    BY <1>22 DEF Begin, ReleaseInflight, queueVars
  <2>3. /\ cleanupFailed' \in [Owners -> BOOLEAN] /\ continuation' \in [Owners -> BOOLEAN]
        /\ fullActive' \in [Owners -> BOOLEAN] /\ fullNeeded' \in [Owners -> BOOLEAN]
        /\ inflight' \in [Owners -> SUBSET Paths]
    BY <2>1, <2>2 DEF Inductive, Types
  <2> QED
    BY <2>1, <2>2, <2>3 DEF Goto, Inductive, Types, wakeVars, debtVars
<1>23. ASSUME NEW o \in Owners, cur = o, EndTurn(o) PROVE Types'
  BY <1>23 DEF EndTurn, KeepsTriggerFor, queueVars, fullVars, wakeVars, workerVars, cleanupVars,
      debtVars, Inductive, Types
<1>24. ASSUME BeginShutdown PROVE Types'
  BY <1>24 DEF BeginShutdown, None, queueVars, fullVars, wakeVars, workerVars, cleanupVars,
      debtVars, Inductive, Types
<1>25. ASSUME WorkerExits \/ WorkerDone \/ ShutdownPass \/ ShutdownEnds PROVE Types'
  BY <1>25 DEF WorkerExits, WorkerDone, ShutdownPass, ShutdownEnds, queueVars, fullVars, wakeVars,
      workerVars, cleanupVars, debtVars, Inductive, Types
<1>26. ASSUME NEW o \in Owners, CloseOwner(o) PROVE Types'
  <2>1. /\ passLeft' \subseteq Owners /\ inflight' \in [Owners -> SUBSET Paths]
        /\ running' \in [Owners -> BOOLEAN]
        /\ UNCHANGED <<pending, deferred, probe, crossed>>
    BY <1>26 DEF CloseOwner, ReleaseInflight, queueVars, Inductive, Types
  <2>2. /\ cleanupFailed' \in [Owners -> BOOLEAN] /\ cleanupComplete' \in [Owners -> BOOLEAN]
        /\ continuation' \in [Owners -> BOOLEAN]
    <3>1. CASE cleanupComplete[o]
      BY <1>26, <3>1 DEF CloseOwner, Inductive, Types
    <3>2. CASE ~cleanupComplete[o]
      <4>1. PICK failed \in BOOLEAN :
              /\ cleanupFailed' = [cleanupFailed EXCEPT ![o] = failed]
              /\ cleanupComplete' = [cleanupComplete EXCEPT ![o] = ~failed]
              /\ continuation' = [continuation EXCEPT ![o] = @ /\ failed]
        BY <1>26, <3>2 DEF CloseOwner, CloseOutcomes
      <4> QED
        BY <4>1 DEF Inductive, Types
    <3> QED
      BY <3>1, <3>2
  <2> QED
    BY <1>26, <2>1, <2>2 DEF CloseOwner, wakeVars, debtVars, Inductive, Types
<1>27. CASE UNCHANGED vars
  BY <1>27 DEF vars, queueVars, fullVars, wakeVars, workerVars, cleanupVars, debtVars, Inductive,
      Types
<1> QED
  BY <1>1, <1>2, <1>3, <1>4, <1>5, <1>6, <1>7, <1>8, <1>9, <1>10, <1>11, <1>12, <1>13, <1>14,
      <1>15, <1>16, <1>17, <1>18, <1>19, <1>20, <1>21, <1>22, <1>23, <1>24, <1>25, <1>26, <1>27
      DEF Next, Trigger, Worker, TurnStep, Closing

(* Every step keeps the order of turns, worker and shutdown passes. *)
LEMMA TurnsKept == ASSUME Inductive, [Next]_vars PROVE Turns'
<1>1. ASSUME NEW o \in Owners, NEW p \in Paths, Enqueue(o, p) \/ ProbeBegins(o, p) \/ Deliver(o,
             p) \/ DeliverFails(o, p)
      PROVE  Turns'
  BY <1>1 DEF Enqueue, Admitting, RequestFull, ProbeBegins, Deliver, DeliverFails, queueVars,
      fullVars, workerVars, cleanupVars, Inductive, Types, Turns, Stages
<1>2. ASSUME NEW o \in Owners, ProbeCrossed(o) \/ ProbeAdmits(o) \/ ProbeRefused(o) PROVE Turns'
  BY <1>2 DEF ProbeCrossed, RequestFull, ProbeAdmits, ProbeRefused, queueVars, fullVars,
      workerVars, cleanupVars, Inductive, Types, Turns, Stages
<1>3. ASSUME NEW o \in Owners, RequestFullSync(o) \/ WatcherLoss(o) \/ Retry(o) \/ Cancel(o)
      PROVE  Turns'
  BY <1>3 DEF RequestFullSync, RequestFull, WatcherLoss, Retry, Cancel, DropReservations,
      queueVars, fullVars, workerVars, cleanupVars, Inductive, Types, Turns, Stages
<1>4. ASSUME AttachWatcher \/ FenceWatcher \/ RetireWatcher \/ Start PROVE Turns'
  BY <1>4 DEF AttachWatcher, FenceWatcher, RetireWatcher, RetireWork, None, Start, queueVars,
      fullVars, workerVars, cleanupVars, Inductive, Types, Turns, Stages
<1>5. ASSUME Select PROVE Turns'
  <2>1. NextOwner \in Owners
    BY <1>5, NextOwnerInTurn DEF Select, Inductive, Types, ReadyOwners
  <2>2. /\ cur = NoOwner /\ cur' = NextOwner /\ worker = "live"
        /\ running' = [running EXCEPT ![NextOwner] = TRUE]
        /\ UNCHANGED <<queueVars, fullVars, cleanupVars, closed>>
    BY <1>5 DEF Select
  <2> QED
    BY <2>1, <2>2, SemanticSchedulerAssumption
    DEF Inductive, Types, Turns, queueVars, fullVars, cleanupVars
<1>6. ASSUME NEW o \in Owners, cur = o, Checked(o) \/ Resume(o) \/ Raises(o) \/ ClaimRefused(o) \/
             Yields(o)
      PROVE  Turns'
  BY <1>6 DEF Checked, Goto, Resume, Raises, ClaimRefused, Yields, queueVars, fullVars,
      workerVars, cleanupVars, Inductive, Types, Turns, Stages
<1>7. ASSUME NEW o \in Owners, cur = o, Preempt(o) \/ Completes(o) \/ Fails(o) PROVE Turns'
  BY <1>7 DEF Preempt, ReleaseInflight, Goto, Completes, Fails, queueVars, fullVars, workerVars,
      cleanupVars, Inductive, Types, Turns, Stages
<1>8. ASSUME NEW o \in Owners, cur = o, Claim(o) PROVE Turns'
  BY <1>8 DEF Claim, Goto, queueVars, fullVars, workerVars, cleanupVars, Inductive, Types, Turns,
      Stages
<1>9. ASSUME NEW o \in Owners, cur = o, Begin(o) PROVE Turns'
  <2>1. /\ UNCHANGED <<running, cur, cleanupComplete, worker, shutdown, passLeft, closed>>
    BY <1>9 DEF Begin, Goto
  <2> QED
    BY <2>1, <1>9, TurnIsLive DEF Inductive, Turns
<1>10. ASSUME NEW o \in Owners, cur = o, EndTurn(o) PROVE Turns'
  <2>1. /\ running' = [running EXCEPT ![o] = FALSE] /\ cur' = NoOwner
        /\ UNCHANGED <<cleanupComplete, worker, shutdown, passLeft, closed>>
    BY <1>10 DEF EndTurn, cleanupVars
  <2> QED
    BY <2>1, <1>10, TurnIsLive, SemanticSchedulerAssumption DEF Inductive, Types, Turns
<1>11. ASSUME BeginShutdown PROVE Turns'
  BY <1>11 DEF BeginShutdown, None, queueVars, fullVars, workerVars, cleanupVars, Inductive,
      Types, Turns, Stages
<1>12. ASSUME WorkerExits \/ WorkerDone \/ ShutdownPass \/ ShutdownEnds PROVE Turns'
  BY <1>12 DEF WorkerExits, WorkerDone, ShutdownPass, ShutdownEnds, queueVars, fullVars,
      workerVars, cleanupVars, Inductive, Types, Turns, Stages
<1>13. ASSUME NEW o \in Owners, CloseOwner(o) PROVE Turns'
  <2>1. /\ closed /\ worker # "live" /\ cur = NoOwner
        /\ UNCHANGED <<cur, closed, worker, shutdown>> /\ passLeft' \subseteq passLeft
    BY <1>13 DEF CloseOwner, Inductive, Turns
  <2>2. CASE cleanupComplete[o]
    BY <1>13, <2>1, <2>2 DEF CloseOwner, queueVars, Inductive, Turns
  <2>3. CASE ~cleanupComplete[o]
    <3>1. PICK failed \in BOOLEAN :
            /\ cleanupComplete' = [cleanupComplete EXCEPT ![o] = ~failed]
            /\ continuation' = [continuation EXCEPT ![o] = @ /\ failed]
      BY <1>13, <2>3 DEF CloseOwner, CloseOutcomes
    <3>2. inflight' = [inflight EXCEPT ![o] = {}] /\ running' = [running EXCEPT ![o] = FALSE]
      BY <1>13, <2>3 DEF CloseOwner, ReleaseInflight
    <3> QED
      BY <2>1, <2>3, <3>1, <3>2, SemanticSchedulerAssumption DEF Inductive, Types, Turns
  <2> QED
    BY <2>2, <2>3
<1>14. CASE UNCHANGED vars
  BY <1>14 DEF vars, queueVars, fullVars, workerVars, cleanupVars, Inductive, Types, Turns, Stages
<1> QED
  BY <1>1, <1>2, <1>3, <1>4, <1>5, <1>6, <1>7, <1>8, <1>9, <1>10, <1>11, <1>12, <1>13, <1>14 DEF
      Next, Trigger, Worker, TurnStep, Closing

(* Every step keeps paths in flight only with a job. *)
LEMMA StagesKept == ASSUME Inductive, [Next]_vars PROVE Stages'
<1>1. ASSUME NEW o \in Owners, NEW p \in Paths, Enqueue(o, p) \/ ProbeBegins(o, p) \/ Deliver(o,
             p) \/ DeliverFails(o, p)
      PROVE  Stages'
  BY <1>1 DEF Enqueue, Admitting, Wake, RequestFull, ProbeBegins, Deliver, DeliverFails,
      queueVars, fullVars, wakeVars, workerVars, Inductive, Types, Turns, Stages, Job
<1>2. ASSUME NEW o \in Owners, ProbeCrossed(o) \/ ProbeAdmits(o) \/ ProbeRefused(o) PROVE Stages'
  BY <1>2 DEF ProbeCrossed, RequestFull, Wake, ProbeAdmits, ProbeRefused, queueVars, fullVars,
      wakeVars, workerVars, Inductive, Types, Turns, Stages, Job
<1>3. ASSUME NEW o \in Owners, RequestFullSync(o) \/ WatcherLoss(o) \/ Retry(o) \/ Cancel(o)
      PROVE  Stages'
  BY <1>3 DEF RequestFullSync, RequestFull, Wake, WatcherLoss, Retry, Cancel, DropReservations,
      queueVars, fullVars, wakeVars, workerVars, Inductive, Types, Turns, Stages, Job
<1>4. ASSUME AttachWatcher \/ FenceWatcher \/ RetireWatcher \/ Start PROVE Stages'
  BY <1>4 DEF AttachWatcher, FenceWatcher, RetireWatcher, RetireWork, None, Start, queueVars,
      fullVars, wakeVars, workerVars, Inductive, Types, Turns, Stages, Job
<1>5. ASSUME Select PROVE Stages'
  <2>1. NextOwner \in Owners
    BY <1>5, NextOwnerInTurn DEF Select, Inductive, Types, ReadyOwners
  <2>2. /\ cur = NoOwner /\ cur' = NextOwner /\ turn' = "entered"
        /\ UNCHANGED <<pending, inflight, deferred, continuation, cancel, closed>>
    BY <1>5 DEF Select, queueVars, fullVars
  <2> QED
    BY <2>1, <2>2, SemanticSchedulerAssumption DEF Inductive, Types, Stages, Job
<1>6. ASSUME NEW o \in Owners, cur = o, Checked(o) \/ Resume(o) \/ Raises(o) \/ ClaimRefused(o) \/
             Yields(o)
      PROVE  Stages'
  BY <1>6 DEF Checked, Goto, Resume, Raises, ClaimRefused, Yields, queueVars, fullVars, wakeVars,
      workerVars, Inductive, Types, Turns, Stages, Job
<1>7. ASSUME NEW o \in Owners, cur = o, Preempt(o) \/ Completes(o) \/ Fails(o) PROVE Stages'
  BY <1>7 DEF Preempt, ReleaseInflight, Goto, Completes, Fails, queueVars, fullVars, wakeVars,
      workerVars, Inductive, Types, Turns, Stages, Job
<1>8. ASSUME NEW o \in Owners, cur = o, Claim(o) PROVE Stages'
  BY <1>8 DEF Claim, Goto, queueVars, fullVars, wakeVars, workerVars, Inductive, Types, Turns,
      Stages, Job
<1>9. ASSUME NEW o \in Owners, cur = o, Begin(o) PROVE Stages'
  BY <1>9 DEF Begin, ReleaseInflight, Goto, queueVars, fullVars, wakeVars, workerVars, Inductive,
      Types, Turns, Stages, Job
<1>10. ASSUME NEW o \in Owners, cur = o, EndTurn(o) PROVE Stages'
  BY <1>10 DEF EndTurn, KeepsTriggerFor, queueVars, fullVars, wakeVars, workerVars, Inductive,
      Types, Turns, Stages, Job
<1>11. ASSUME BeginShutdown PROVE Stages'
  BY <1>11 DEF BeginShutdown, None, queueVars, fullVars, wakeVars, workerVars, Inductive, Types,
      Turns, Stages, Job
<1>12. ASSUME WorkerExits \/ WorkerDone \/ ShutdownPass \/ ShutdownEnds PROVE Stages'
  BY <1>12 DEF WorkerExits, WorkerDone, ShutdownPass, ShutdownEnds, queueVars, fullVars, wakeVars,
      workerVars, Inductive, Types, Turns, Stages, Job
<1>13. ASSUME NEW o \in Owners, CloseOwner(o) PROVE Stages'
  <2>1. /\ UNCHANGED <<pending, deferred, cancel, cur, turn, closed>> /\ cur = NoOwner
    BY <1>13 DEF CloseOwner, ReleaseInflight, queueVars, wakeVars, Inductive, Turns
  <2>2. ASSUME NEW q \in Owners
        PROVE  \/ inflight'[q] = {}
               \/ inflight'[q] = inflight[q] /\ continuation'[q] = continuation[q]
    <3>1. CASE cleanupComplete[o]
      BY <1>13, <3>1 DEF CloseOwner, queueVars
    <3>2. CASE ~cleanupComplete[o]
      <4>1. PICK failed \in BOOLEAN : continuation' = [continuation EXCEPT ![o] = @ /\ failed]
        BY <1>13, <3>2 DEF CloseOwner, CloseOutcomes
      <4>2. inflight' = [inflight EXCEPT ![o] = {}]
        BY <1>13, <3>2 DEF CloseOwner, ReleaseInflight
      <4> QED
        BY <4>1, <4>2 DEF Inductive, Types
    <3> QED
      BY <3>1, <3>2
  <2> QED
    BY <2>1, <2>2, SemanticSchedulerAssumption DEF Inductive, Types, Stages, Job
<1>14. CASE UNCHANGED vars
  BY <1>14 DEF vars, queueVars, fullVars, wakeVars, workerVars, Inductive, Types, Turns, Stages,
      Job
<1> QED
  BY <1>1, <1>2, <1>3, <1>4, <1>5, <1>6, <1>7, <1>8, <1>9, <1>10, <1>11, <1>12, <1>13, <1>14 DEF
      Next, Trigger, Worker, TurnStep, Closing

(* Every step keeps the count. *)
LEMMA CountKept == ASSUME Inductive, [Next]_vars PROVE Counted'
<1>1. ASSUME NEW o \in Owners, NEW p \in Paths, Enqueue(o, p) PROVE Counted'
  <2>1. CASE UNCHANGED queueVars
    BY <2>1, CountSame DEF Inductive, queueVars, Identities
  <2>2. CASE /\ Fits(o, p) /\ Admitted(o, p) /\ UNCHANGED inflight
             /\ pending' = [pending EXCEPT ![o] = @ \cup {p}]
             /\ deferred' = [deferred EXCEPT ![o] = @ \ {p}]
    <3>1. \A q \in Owners : Identities(q)' = IF q = o THEN Identities(q) \cup {p} ELSE Identities(q)
      BY <2>2 DEF Inductive, Types, Identities
    <3> QED
      BY <2>2, <3>1, CountGrows DEF Inductive
  <2> QED
    BY <1>1, <2>1, <2>2 DEF Enqueue
<1>2. ASSUME NEW o \in Owners, NEW p \in Paths, Deliver(o, p) PROVE Counted'
  <2>1. \A q \in Owners : Identities(q)' = Identities(q)
    BY <1>2 DEF Deliver, Inductive, Types, Identities
  <2> QED
    BY <1>2, <2>1, CountSame DEF Deliver, Inductive
<1>3. ASSUME NEW o \in Owners, NEW p \in Paths, DeliverFails(o, p) PROVE Counted'
  <2> DEFINE D == IF p \in pending[o] \cup inflight[o] THEN {} ELSE {p}
  <2>1. D \subseteq Identities(o)
    BY <1>3 DEF DeliverFails, Identities
  <2>2. total' = total - Cardinality(D)
    <3>1. total \in Nat
      BY FS_CardinalityType DEF Inductive, Counted, ReservationsCounted
    <3>2. Cardinality(D) = IF p \in pending[o] \cup inflight[o] THEN 0 ELSE 1
      BY FS_EmptySet, FS_Singleton
    <3>3. total' = IF p \in pending[o] \cup inflight[o] THEN total ELSE total - 1
      BY <1>3 DEF DeliverFails
    <3> QED
      BY <3>1, <3>2, <3>3
  <2>3. \A q \in Owners : Identities(q)' = IF q = o THEN Identities(q) \ D ELSE Identities(q)
    BY <1>3 DEF DeliverFails, Inductive, Types, Identities
  <2> QED
    BY <2>1, <2>2, <2>3, OwnerShrinks DEF Inductive
<1>4. ASSUME NEW o \in Owners, NEW p \in Paths, ProbeBegins(o, p) PROVE Counted'
  BY <1>4, CountSame DEF ProbeBegins, queueVars, Inductive, Identities
<1>5. ASSUME NEW o \in Owners, ProbeAdmits(o) PROVE Counted'
  <2>1. probe[o] \in Paths /\ UNCHANGED <<pending, inflight>>
    BY <1>5 DEF ProbeAdmits, Inductive, Types
  <2>2. CASE UNCHANGED <<total, deferred>>
    BY <2>1, <2>2, CountSame DEF Inductive, Identities
  <2>3. CASE /\ Fits(o, probe[o]) /\ Admitted(o, probe[o])
             /\ deferred' = [deferred EXCEPT ![o] = @ \cup {probe[o]}]
    <3>1. \A q \in Owners :
            Identities(q)' = IF q = o THEN Identities(q) \cup {probe[o]} ELSE Identities(q)
      BY <2>1, <2>3 DEF Inductive, Types, Identities
    <3> QED
      BY <2>1, <2>3, <3>1, CountGrows DEF Inductive
  <2> QED
    BY <1>5, <2>2, <2>3 DEF ProbeAdmits
<1>6. ASSUME NEW o \in Owners, ProbeCrossed(o) \/ ProbeRefused(o) PROVE Counted'
  BY <1>6, CountSame DEF ProbeCrossed, ProbeRefused, queueVars, Inductive, Identities
<1>7. ASSUME NEW o \in Owners, Cancel(o) PROVE Counted'
  <2>1. \A q \in Owners : Identities(q)' = IF q = o THEN Identities(q) \ (Identities(o) \ inflight[o])
                                            ELSE Identities(q)
    BY <1>7 DEF Cancel, DropReservations, Inductive, Types, Identities
  <2>2. total' = total - Cardinality(Identities(o) \ inflight[o])
    BY <1>7 DEF Cancel
  <2> QED
    BY <2>1, <2>2, OwnerShrinks DEF Inductive
<1>8. ASSUME NEW o \in Owners, RequestFullSync(o) \/ WatcherLoss(o) \/ Retry(o) PROVE Counted'
  BY <1>8, CountSame DEF RequestFullSync, WatcherLoss, Retry, queueVars, Inductive, Identities
<1>9. ASSUME RetireWatcher PROVE Counted'
  <2>1. /\ total' = total - Cardinality(Undelivered) /\ deferred' = None
        /\ UNCHANGED <<pending, inflight>>
    BY <1>9 DEF RetireWatcher, RetireWork
  <2>2. Undelivered \subseteq Reserved
    BY DEF Undelivered
  <2>3. \A q \in Owners : Identities(q)' = {p \in Identities(q) : <<q, p>> \notin Undelivered}
    BY <2>1 DEF Inductive, Types, Identities, Undelivered, Reserved, None
  <2> QED
    BY <2>1, <2>2, <2>3, CountShrinks DEF Inductive
<1>10. ASSUME AttachWatcher \/ FenceWatcher \/ Start PROVE Counted'
  BY <1>10, CountSame DEF AttachWatcher, FenceWatcher, Start, queueVars, Inductive, Identities
<1>11. ASSUME Select PROVE Counted'
  BY <1>11, CountSame DEF Select, NextOwner, queueVars, Inductive, Identities
<1>12. ASSUME NEW o \in Owners, cur = o, Checked(o) \/ Resume(o) \/ Raises(o) \/ ClaimRefused(o)
             \/ Yields(o)
      PROVE  Counted'
  BY <1>12, CountSame DEF Checked, Resume, Raises, ClaimRefused, Yields, queueVars, Inductive,
      Identities
<1>13. ASSUME NEW o \in Owners, cur = o, Preempt(o) PROVE Counted'
  BY <1>13, ReleaseCounts DEF Preempt, Inductive
<1>14. ASSUME NEW o \in Owners, cur = o, Completes(o) PROVE Counted'
  BY <1>14, ReleaseCounts DEF Completes, Inductive
<1>15. ASSUME NEW o \in Owners, cur = o, Fails(o) PROVE Counted'
  BY <1>15, ReleaseCounts DEF Fails, Inductive
<1>16. ASSUME NEW o \in Owners, cur = o, Claim(o) PROVE Counted'
  <2>1. inflight[o] = {}
    BY <1>16, SemanticSchedulerAssumption DEF Claim, Inductive, Types, Stages, Job
  <2>2. CASE fullNeeded[o]
    <3>1. \A q \in Owners : Identities(q)' = IF q = o THEN Identities(q) \ Identities(o)
                                             ELSE Identities(q)
      BY <1>16, <2>1, <2>2 DEF Claim, Inductive, Types, Identities
    <3>2. total' = total - Cardinality(Identities(o))
      BY <1>16, <2>2 DEF Claim
    <3> QED
      BY <3>1, <3>2, OwnerShrinks DEF Inductive
  <2>3. CASE ~fullNeeded[o]
    <3>1. \A q \in Owners : Identities(q)' = Identities(q)
      BY <1>16, <2>1, <2>3 DEF Claim, Inductive, Types, Identities
    <3> QED
      BY <1>16, <2>3, <3>1, CountSame DEF Claim, Inductive
  <2> QED
    BY <2>2, <2>3
<1>17. ASSUME NEW o \in Owners, cur = o, Begin(o) PROVE Counted'
  <2>1. CASE UNCHANGED queueVars
    BY <2>1, CountSame DEF Inductive, queueVars, Identities
  <2>2. CASE ReleaseInflight(o)
    BY <2>2, ReleaseCounts DEF Inductive
  <2> QED
    BY <1>17, <2>1, <2>2 DEF Begin
<1>18. ASSUME NEW o \in Owners, cur = o, EndTurn(o) PROVE Counted'
  BY <1>18, CountSame DEF EndTurn, KeepsTriggerFor, queueVars, Inductive, Identities
<1>19. ASSUME BeginShutdown PROVE Counted'
  <2>1. /\ total' = total - Cardinality(Reserved \ Claimed) /\ pending' = None /\ deferred' = None
        /\ UNCHANGED inflight
    BY <1>19 DEF BeginShutdown
  <2>2. \A q \in Owners : Identities(q)' = {p \in Identities(q) : <<q, p>> \notin Reserved \ Claimed}
    BY <2>1 DEF Inductive, Types, Identities, Claimed, Reserved, None
  <2> QED
    BY <2>1, <2>2, CountShrinks DEF Inductive
<1>20. ASSUME WorkerExits \/ WorkerDone \/ ShutdownPass \/ ShutdownEnds PROVE Counted'
  BY <1>20, CountSame DEF WorkerExits, WorkerDone, ShutdownPass, ShutdownEnds, queueVars,
      Inductive, Identities
<1>21. ASSUME NEW o \in Owners, CloseOwner(o) PROVE Counted'
  <2>1. CASE UNCHANGED queueVars
    BY <2>1, CountSame DEF Inductive, queueVars, Identities
  <2>2. CASE ReleaseInflight(o)
    BY <2>2, ReleaseCounts DEF Inductive
  <2> QED
    BY <1>21, <2>1, <2>2 DEF CloseOwner
<1>22. CASE UNCHANGED vars
  BY <1>22, CountSame DEF vars, queueVars, Inductive, Identities
<1> QED
  BY <1>1, <1>2, <1>3, <1>4, <1>5, <1>6, <1>7, <1>8, <1>9, <1>10, <1>11, <1>12, <1>13, <1>14,
      <1>15, <1>16, <1>17, <1>18, <1>19, <1>20, <1>21, <1>22 DEF Next, Trigger, Worker, TurnStep,
      Closing

(* Every step keeps the debts known. *)
LEMMA DebtsKept == ASSUME Inductive, [Next]_vars PROVE Debts'
<1>1. ASSUME NEW o \in Owners, NEW p \in Paths, Enqueue(o, p) \/ ProbeBegins(o, p) \/ Deliver(o,
             p) \/ DeliverFails(o, p)
      PROVE  Debts'
  BY <1>1 DEF Enqueue, Admitting, Wake, Owe, RequestFull, Admitted, Cross, ProbeBegins, Deliver,
      DeliverFails, queueVars, fullVars, wakeVars, workerVars, debtVars, Inductive, Types, Turns,
      Stages, Debts, NoTargetLost, Job, Identities
<1>2. ASSUME NEW o \in Owners, ProbeCrossed(o) \/ ProbeAdmits(o) \/ ProbeRefused(o) PROVE Debts'
  BY <1>2 DEF ProbeCrossed, Owe, RequestFull, Wake, ProbeAdmits, Admitted, ProbeRefused,
      queueVars, fullVars, wakeVars, workerVars, debtVars, Inductive, Types, Turns, Stages, Debts,
      NoTargetLost, Job, Identities
<1>3. ASSUME NEW o \in Owners, RequestFullSync(o) \/ WatcherLoss(o) \/ Retry(o) \/ Cancel(o)
      PROVE  Debts'
  BY <1>3 DEF RequestFullSync, RequestFull, Wake, WatcherLoss, Retry, Cancel, DropReservations,
      Cross, queueVars, fullVars, wakeVars, workerVars, debtVars, Inductive, Types, Turns, Stages,
      Debts, NoTargetLost, Job, Identities
<1>4. ASSUME AttachWatcher \/ FenceWatcher \/ RetireWatcher \/ Start PROVE Debts'
  BY <1>4 DEF AttachWatcher, FenceWatcher, RetireWatcher, RetireWork, None, Start, queueVars,
      fullVars, wakeVars, workerVars, debtVars, Inductive, Types, Turns, Stages, Debts,
      NoTargetLost, Job, Identities
<1>5. ASSUME Select PROVE Debts'
  BY <1>5 DEF Select, NextOwner, queueVars, fullVars, wakeVars, workerVars, debtVars, Inductive,
      Types, Turns, Stages, Debts, NoTargetLost, Job, Identities
<1>6. ASSUME NEW o \in Owners, cur = o, Checked(o) \/ Resume(o) \/ Raises(o) \/ ClaimRefused(o) \/
             Yields(o)
      PROVE  Debts'
  BY <1>6 DEF Checked, Goto, Resume, Raises, ClaimRefused, Yields, queueVars, fullVars, wakeVars,
      workerVars, debtVars, Inductive, Types, Turns, Stages, Debts, NoTargetLost, Job, Identities
<1>7. ASSUME NEW o \in Owners, cur = o, Preempt(o) \/ Completes(o) \/ Fails(o) PROVE Debts'
  BY <1>7 DEF Preempt, ReleaseInflight, Goto, Completes, Fails, queueVars, fullVars, wakeVars,
      workerVars, debtVars, Inductive, Types, Turns, Stages, Debts, NoTargetLost, Job, Identities
<1>8. ASSUME NEW o \in Owners, cur = o, Claim(o) PROVE Debts'
  BY <1>8 DEF Claim, Cross, Goto, queueVars, fullVars, wakeVars, workerVars, debtVars, Inductive,
      Types, Turns, Stages, Debts, NoTargetLost, Job, Identities
<1>9. ASSUME NEW o \in Owners, cur = o, Begin(o) PROVE Debts'
  BY <1>9 DEF Begin, ReleaseInflight, Goto, queueVars, fullVars, wakeVars, workerVars, debtVars,
      Inductive, Types, Turns, Stages, Debts, NoTargetLost, Job, Identities
<1>10. ASSUME NEW o \in Owners, cur = o, EndTurn(o) PROVE Debts'
  BY <1>10 DEF EndTurn, KeepsTriggerFor, queueVars, fullVars, wakeVars, workerVars, debtVars,
      Inductive, Types, Turns, Stages, Debts, NoTargetLost, Job, Identities
<1>11. ASSUME BeginShutdown PROVE Debts'
  BY <1>11 DEF BeginShutdown, None, queueVars, fullVars, wakeVars, workerVars, debtVars,
      Inductive, Types, Turns, Stages, Debts, NoTargetLost, Job, Identities
<1>12. ASSUME WorkerExits \/ WorkerDone \/ ShutdownPass \/ ShutdownEnds PROVE Debts'
  BY <1>12 DEF WorkerExits, WorkerDone, ShutdownPass, ShutdownEnds, queueVars, fullVars, wakeVars,
      workerVars, debtVars, Inductive, Types, Turns, Stages, Debts, NoTargetLost, Job, Identities
<1>13. ASSUME NEW o \in Owners, CloseOwner(o) PROVE Debts'
  <2>1. /\ UNCHANGED <<pending, deferred, fullNeeded, fullAgain, fullActive, owed, covered, cancel,
                       cur, turn, closed>>
        /\ closed /\ cur = NoOwner
    BY <1>13 DEF CloseOwner, ReleaseInflight, queueVars, wakeVars, debtVars, Inductive, Turns
  <2>2. \A q \in Owners : continuation'[q] => continuation[q]
    BY <1>13 DEF CloseOwner, Inductive, Types
  <2> QED
    BY <2>1, <2>2, SemanticSchedulerAssumption DEF Inductive, Types, Stages, Debts, Job
<1>14. CASE UNCHANGED vars
  BY <1>14 DEF vars, queueVars, fullVars, wakeVars, workerVars, debtVars, Inductive, Types, Turns,
      Stages, Debts, NoTargetLost, Job, Identities
<1> QED
  BY <1>1, <1>2, <1>3, <1>4, <1>5, <1>6, <1>7, <1>8, <1>9, <1>10, <1>11, <1>12, <1>13, <1>14 DEF
      Next, Trigger, Worker, TurnStep, Closing

(* Every step keeps the accepted paths. *)
LEMMA TargetsKept == ASSUME Inductive, [Next]_vars PROVE NoTargetLost'
<1>1. ASSUME NEW o \in Owners, NEW p \in Paths, Enqueue(o, p) \/ ProbeBegins(o, p) \/ Deliver(o,
             p) \/ DeliverFails(o, p)
      PROVE  NoTargetLost'
  BY <1>1 DEF Enqueue, Admitting, Owe, RequestFull, Admitted, Cross, ProbeBegins, Deliver,
      DeliverFails, queueVars, fullVars, debtVars, Inductive, Types, Turns, Stages, Debts,
      NoTargetLost, Job, Identities
<1>2. ASSUME NEW o \in Owners, ProbeCrossed(o) \/ ProbeAdmits(o) \/ ProbeRefused(o)
      PROVE  NoTargetLost'
  BY <1>2 DEF ProbeCrossed, Owe, RequestFull, ProbeAdmits, Admitted, ProbeRefused, queueVars,
      fullVars, debtVars, Inductive, Types, Turns, Stages, Debts, NoTargetLost, Job, Identities
<1>3. ASSUME NEW o \in Owners, Cancel(o) PROVE NoTargetLost'
  <2>1. /\ pending' = [pending EXCEPT ![o] = {}] /\ deferred' = [deferred EXCEPT ![o] = {}]
        /\ fullNeeded' = [fullNeeded EXCEPT ![o] = @ \/ Identities(o) # {} \/ continuation[o] \/ running[o]]
        /\ UNCHANGED <<inflight, owed>>
    BY <1>3 DEF Cancel, DropReservations, debtVars
  <2>2. ASSUME NEW q \in Owners, q # o, NEW p \in owed[q]
        PROVE  p \in Identities(q)' \/ fullNeeded'[q]
    BY <2>1, <2>2 DEF Inductive, Types, NoTargetLost, Identities
  <2>3. ASSUME NEW p \in owed[o] PROVE fullNeeded'[o]
    BY <2>1, <2>3 DEF Inductive, Types, NoTargetLost, Identities
  <2> QED
    BY <2>1, <2>2, <2>3 DEF NoTargetLost
<1>4. ASSUME NEW o \in Owners, RequestFullSync(o) \/ WatcherLoss(o) \/ Retry(o)
      PROVE  NoTargetLost'
  BY <1>4 DEF RequestFullSync, RequestFull, WatcherLoss, Retry, queueVars, fullVars, debtVars,
      Inductive, Types, Turns, Stages, Debts, NoTargetLost, Job, Identities
<1>5. ASSUME AttachWatcher PROVE NoTargetLost'
  BY <1>5 DEF AttachWatcher, queueVars, fullVars, debtVars, Inductive, Types, Turns, Stages,
      Debts, NoTargetLost, Job, Identities
<1>6. ASSUME FenceWatcher PROVE NoTargetLost'
  BY <1>6 DEF FenceWatcher, queueVars, fullVars, debtVars, Inductive, Types, Turns, Stages, Debts,
      NoTargetLost, Job, Identities
<1>7. ASSUME RetireWatcher PROVE NoTargetLost'
  BY <1>7 DEF RetireWatcher, RetireWork, None, queueVars, fullVars, debtVars, Inductive, Types,
      Turns, Stages, Debts, NoTargetLost, Job, Identities
<1>8. ASSUME Start PROVE NoTargetLost'
  BY <1>8 DEF Start, queueVars, fullVars, debtVars, Inductive, Types, Turns, Stages, Debts,
      NoTargetLost, Job, Identities
<1>9. ASSUME Select PROVE NoTargetLost'
  BY <1>9 DEF Select, NextOwner, queueVars, fullVars, debtVars, Inductive, Types, Turns, Stages,
      Debts, NoTargetLost, Job, Identities
<1>10. ASSUME NEW o \in Owners, cur = o, Checked(o) \/ Resume(o) \/ Raises(o) \/ ClaimRefused(o)
             \/ Yields(o)
      PROVE  NoTargetLost'
  BY <1>10 DEF Checked, Goto, Resume, Raises, ClaimRefused, Yields, queueVars, fullVars, debtVars,
      Inductive, Types, Turns, Stages, Debts, NoTargetLost, Job, Identities
<1>11. ASSUME NEW o \in Owners, cur = o, Preempt(o) \/ Completes(o) \/ Fails(o)
      PROVE  NoTargetLost'
  BY <1>11 DEF Preempt, ReleaseInflight, Goto, Completes, Fails, queueVars, fullVars, debtVars,
      Inductive, Types, Turns, Stages, Debts, NoTargetLost, Job, Identities
<1>12. ASSUME NEW o \in Owners, cur = o, Claim(o) PROVE NoTargetLost'
  BY <1>12 DEF Claim, Cross, Goto, queueVars, fullVars, debtVars, Inductive, Types, Turns, Stages,
      Debts, NoTargetLost, Job, Identities
<1>13. ASSUME NEW o \in Owners, cur = o, Begin(o) PROVE NoTargetLost'
  BY <1>13 DEF Begin, ReleaseInflight, Goto, queueVars, fullVars, debtVars, Inductive, Types,
      Turns, Stages, Debts, NoTargetLost, Job, Identities
<1>14. ASSUME NEW o \in Owners, cur = o, EndTurn(o) PROVE NoTargetLost'
  BY <1>14 DEF EndTurn, KeepsTriggerFor, queueVars, fullVars, debtVars, Inductive, Types, Turns,
      Stages, Debts, NoTargetLost, Job, Identities
<1>15. ASSUME BeginShutdown PROVE NoTargetLost'
  BY <1>15 DEF BeginShutdown, None, queueVars, fullVars, debtVars, Inductive, Types, Turns,
      Stages, Debts, NoTargetLost, Job, Identities
<1>16. ASSUME WorkerExits \/ WorkerDone \/ ShutdownPass \/ ShutdownEnds PROVE NoTargetLost'
  BY <1>16 DEF WorkerExits, WorkerDone, ShutdownPass, ShutdownEnds, queueVars, fullVars, debtVars,
      Inductive, Types, Turns, Stages, Debts, NoTargetLost, Job, Identities
<1>17. ASSUME NEW o \in Owners, CloseOwner(o) PROVE NoTargetLost'
  BY <1>17 DEF CloseOwner, CloseOutcomes, ReleaseInflight, queueVars, fullVars, debtVars,
      Inductive, Types, Turns, Stages, Debts, NoTargetLost, Job, Identities
<1>18. CASE UNCHANGED vars
  BY <1>18 DEF vars, queueVars, fullVars, debtVars, Inductive, Types, Turns, Stages, Debts,
      NoTargetLost, Job, Identities
<1> QED
  BY <1>1, <1>2, <1>3, <1>4, <1>5, <1>6, <1>7, <1>8, <1>9, <1>10, <1>11, <1>12, <1>13, <1>14,
      <1>15, <1>16, <1>17, <1>18 DEF Next, Trigger, Worker, TurnStep, Closing

(* Every step keeps the wake-ups. *)
LEMMA WakeupsKept == ASSUME Inductive, [Next]_vars PROVE Wakeups'
<1>1. ASSUME NEW o \in Owners, NEW p \in Paths, Enqueue(o, p) \/ ProbeBegins(o, p) \/ Deliver(o,
             p) \/ DeliverFails(o, p)
      PROVE  Wakeups'
  BY <1>1 DEF Enqueue, Admitting, Wake, RequestFull, ProbeBegins, Deliver, DeliverFails, fullVars,
      wakeVars, workerVars, cleanupVars, Inductive, Types, Turns, Wakeups
<1>2. ASSUME NEW o \in Owners, ProbeCrossed(o) \/ ProbeAdmits(o) \/ ProbeRefused(o) PROVE Wakeups'
  BY <1>2 DEF ProbeCrossed, RequestFull, Wake, ProbeAdmits, ProbeRefused, fullVars, wakeVars,
      workerVars, cleanupVars, Inductive, Types, Turns, Wakeups
<1>3. ASSUME NEW o \in Owners, RequestFullSync(o) \/ WatcherLoss(o) \/ Retry(o) \/ Cancel(o)
      PROVE  Wakeups'
  BY <1>3 DEF RequestFullSync, RequestFull, Wake, WatcherLoss, Retry, Cancel, DropReservations,
      fullVars, wakeVars, workerVars, cleanupVars, Inductive, Types, Turns, Wakeups
<1>4. ASSUME AttachWatcher \/ FenceWatcher \/ RetireWatcher \/ Start PROVE Wakeups'
  BY <1>4 DEF AttachWatcher, FenceWatcher, RetireWatcher, RetireWork, None, Start, fullVars,
      wakeVars, workerVars, cleanupVars, Inductive, Types, Turns, Wakeups
<1>5. ASSUME Select PROVE Wakeups'
  <2>1. NextOwner \in Owners /\ Ready(NextOwner)
    BY <1>5, NextOwnerInTurn DEF Select, Inductive, Types, ReadyOwners
  <2>2. /\ cur = NoOwner /\ cur' = NextOwner /\ turn' = "entered" /\ ~closed
        /\ running' = [running EXCEPT ![NextOwner] = TRUE]
        /\ failedTurn' = [failedTurn EXCEPT ![NextOwner] = FALSE]
        /\ UNCHANGED <<fullVars, paused, wakePending, cancel, closed>>
    BY <1>5 DEF Select
  <2>3. trig' = [trig EXCEPT ![NextOwner] = @ /\ continuation[NextOwner] /\ cancel[NextOwner]]
    BY <1>5 DEF Select
  <2>4. ASSUME NEW q \in Owners, q # NextOwner
        PROVE  /\ running'[q] = running[q] /\ trig'[q] = trig[q] /\ failedTurn'[q] = failedTurn[q]
               /\ cur # q /\ cur' # q
    BY <2>2, <2>3, <2>4, SemanticSchedulerAssumption DEF Inductive, Types
  <2>5. /\ ~running[NextOwner] /\ running'[NextOwner] /\ ~failedTurn'[NextOwner]
        /\ trig'[NextOwner] <=>
             trig[NextOwner] /\ continuation[NextOwner] /\ cancel[NextOwner]
    BY <2>1, <2>2, <2>3, SemanticSchedulerAssumption DEF Inductive, Types, Turns
  <2> QED
    BY <2>1, <2>2, <2>4, <2>5 DEF Inductive, Wakeups, Ready, fullVars
<1>6. ASSUME NEW o \in Owners, cur = o, Checked(o) \/ Resume(o) \/ Raises(o) \/ ClaimRefused(o) \/
             Yields(o)
      PROVE  Wakeups'
  BY <1>6 DEF Checked, Goto, Resume, Raises, ClaimRefused, Yields, fullVars, wakeVars, workerVars,
      cleanupVars, Inductive, Types, Turns, Wakeups
<1>7. ASSUME NEW o \in Owners, cur = o, Preempt(o) \/ Completes(o) \/ Fails(o) PROVE Wakeups'
  BY <1>7 DEF Preempt, ReleaseInflight, Goto, Completes, Fails, fullVars, wakeVars, workerVars,
      cleanupVars, Inductive, Types, Turns, Wakeups
<1>8. ASSUME NEW o \in Owners, cur = o, Claim(o) PROVE Wakeups'
  BY <1>8 DEF Claim, Goto, fullVars, wakeVars, workerVars, cleanupVars, Inductive, Types, Turns,
      Wakeups
<1>9. ASSUME NEW o \in Owners, cur = o, Begin(o) PROVE Wakeups'
  BY <1>9 DEF Begin, ReleaseInflight, Goto, fullVars, wakeVars, workerVars, cleanupVars,
      Inductive, Types, Turns, Wakeups
<1>10. ASSUME NEW o \in Owners, cur = o, EndTurn(o) PROVE Wakeups'
  <2>1. /\ cur' = NoOwner /\ running' = [running EXCEPT ![o] = FALSE] /\ turn = "ending"
        /\ UNCHANGED <<trig, failedTurn, continuation, closed>>
    BY <1>10 DEF EndTurn, fullVars
  <2> DEFINE woken == wakePending[o] /\ ~continuation[o] /\ ~closed
  <2>2. /\ cancel' = [cancel EXCEPT ![o] = @ /\ ~woken]
        /\ paused' = [paused EXCEPT ![o] = @ /\ ~woken]
        /\ wakePending' = [wakePending EXCEPT ![o] = @ /\ KeepsTriggerFor(o)]
    BY <1>10 DEF EndTurn
  <2>3. ASSUME NEW q \in Owners, q # o
        PROVE  /\ running'[q] = running[q] /\ cancel'[q] = cancel[q] /\ paused'[q] = paused[q]
               /\ wakePending'[q] = wakePending[q] /\ cur # q /\ cur' # q
    BY <2>1, <2>2, <2>3, <1>10, SemanticSchedulerAssumption DEF Inductive, Types
  <2>4. /\ ~running'[o] /\ running[o] /\ cur' # o
        /\ cancel'[o] <=> cancel[o] /\ ~woken
        /\ paused'[o] <=> paused[o] /\ ~woken
        /\ wakePending'[o] <=> wakePending[o] /\ continuation[o] /\ cancel[o]
    BY <2>1, <2>2, <1>10, TurnIsLive, SemanticSchedulerAssumption DEF Inductive, Types, KeepsTriggerFor
  <2> QED
    BY <2>1, <2>3, <2>4 DEF Inductive, Wakeups
<1>11. ASSUME BeginShutdown PROVE Wakeups'
  BY <1>11 DEF BeginShutdown, None, fullVars, wakeVars, workerVars, cleanupVars, Inductive, Types,
      Turns, Wakeups
<1>12. ASSUME WorkerExits \/ WorkerDone \/ ShutdownPass \/ ShutdownEnds PROVE Wakeups'
  BY <1>12 DEF WorkerExits, WorkerDone, ShutdownPass, ShutdownEnds, fullVars, wakeVars,
      workerVars, cleanupVars, Inductive, Types, Turns, Wakeups
<1>13. ASSUME NEW o \in Owners, CloseOwner(o) PROVE Wakeups'
  <2>1. closed /\ cur = NoOwner /\ UNCHANGED <<closed, cur, turn, cancel, paused, wakePending, trig,
                                              failedTurn>>
    BY <1>13 DEF CloseOwner, wakeVars, Inductive, Turns
  <2>2. ASSUME NEW q \in Owners PROVE continuation'[q] => continuation[q]
    BY <1>13, <2>2 DEF CloseOwner, Inductive, Types
  <2> QED
    BY <2>1, <2>2, SemanticSchedulerAssumption DEF Inductive, Wakeups
<1>14. CASE UNCHANGED vars
  BY <1>14 DEF vars, fullVars, wakeVars, workerVars, cleanupVars, Inductive, Types, Turns, Wakeups
<1> QED
  BY <1>1, <1>2, <1>3, <1>4, <1>5, <1>6, <1>7, <1>8, <1>9, <1>10, <1>11, <1>12, <1>13, <1>14 DEF
      Next, Trigger, Worker, TurnStep, Closing
-----------------------------------------------------------------------------
(* Round robin. *)

(* Only _select makes an owner current, and says who was served. *)
LEMMA OnlySelectServes ==
    ASSUME [Next]_vars
    PROVE  Select \/ (UNCHANGED <<ahead, lastId>> /\ cur' \in {cur, NoOwner})
<1>1. CASE Trigger
  <2>1. ASSUME NEW o, NEW p, Enqueue(o, p) \/ ProbeBegins(o, p) \/ Deliver(o, p) \/ DeliverFails(o, p)
        PROVE  UNCHANGED workerVars
    BY <2>1 DEF Enqueue, ProbeBegins, Deliver, DeliverFails
  <2>2. ASSUME NEW o, ProbeCrossed(o) \/ ProbeAdmits(o) \/ ProbeRefused(o)
        PROVE  UNCHANGED workerVars
    BY <2>2 DEF ProbeCrossed, ProbeAdmits, ProbeRefused
  <2>3. ASSUME NEW o, RequestFullSync(o) \/ WatcherLoss(o) \/ Retry(o) \/ Cancel(o)
        PROVE  UNCHANGED workerVars
    BY <2>3 DEF RequestFullSync, WatcherLoss, Retry, Cancel
  <2>4. ASSUME AttachWatcher \/ FenceWatcher \/ RetireWatcher PROVE UNCHANGED workerVars
    BY <2>4 DEF AttachWatcher, FenceWatcher, RetireWatcher
  <2>5. UNCHANGED workerVars
    BY <1>1, <2>1, <2>2, <2>3, <2>4 DEF Trigger
  <2> QED
    BY <2>5 DEF workerVars
<1>2. CASE TurnStep
  BY <1>2
  DEF TurnStep, Checked, Resume, Raises, Preempt, ClaimRefused, Claim, Begin, Yields, Completes,
      Fails, EndTurn, Goto
<1>3. CASE Start \/ Closing \/ BeginShutdown \/ ShutdownPass
  BY <1>3
  DEF Start, Closing, WorkerExits, WorkerDone, ShutdownEnds, CloseOwner, BeginShutdown, ShutdownPass,
      workerVars
<1>4. CASE UNCHANGED vars
  BY <1>4 DEF vars, workerVars
<1> QED
  BY <1>1, <1>2, <1>3, <1>4 DEF Next, Worker

(* Whoever is served next was not served since a ready owner began to wait. *)
LEMMA SelectedIsNotAhead ==
    ASSUME Inductive, InOrder, Select, NEW q \in Owners, Ready(q), q # NextOwner
    PROVE  NextOwner \notin ahead[q]
<1>1. NextOwner \in Owners /\ q \in ReadyOwners /\ lastId \in Owners \cup {NoOwner}
  BY NextOwnerInTurn DEF Select, Inductive, Types, ReadyOwners
<1>2. SUFFICES ASSUME NextOwner \in ahead[q] PROVE FALSE
  OBVIOUS
<1>3. lastId \in Owners /\ Between(q, NextOwner, lastId)
  BY <1>1, <1>2 DEF InOrder
<1>4. \/ lastId < NextOwner /\ (NextOwner < q \/ q <= lastId)
      \/ NextOwner < q /\ q <= lastId
  BY <1>1, <1>3, NextOwnerInTurn DEF Select
<1> QED
  BY <1>1, <1>3, <1>4, SemanticSchedulerAssumption DEF Between

LEMMA InOrderKept == ASSUME Inductive, InOrder, [Next]_vars PROVE InOrder'
<1>1. CASE UNCHANGED <<ahead, lastId>>
  BY <1>1 DEF InOrder
<1>2. CASE Select
  <2>1. /\ NextOwner \in ReadyOwners /\ NextOwner \in Owners
        /\ lastId \in Owners \cup {NoOwner} /\ lastId' = NextOwner
    BY <1>2, NextOwnerInTurn DEF Select, Inductive, Types, ReadyOwners
  <2>2. ahead' = [q \in Owners |-> IF q = NextOwner \/ ~Ready(q) THEN {}
                                   ELSE ahead[q] \cup {NextOwner}]
    BY <1>2 DEF Select
  <2>3. ASSUME NEW q \in Owners, NEW a \in ahead'[q]
        PROVE  Between(q, a, NextOwner)
    <3>1. Ready(q) /\ q # NextOwner /\ a \in ahead[q] \cup {NextOwner}
      BY <2>2, <2>3
    <3>2. CASE a = NextOwner
      BY <2>1, <3>1, <3>2, SemanticSchedulerAssumption DEF Between
    <3>3. CASE a \in ahead[q]
      <4>1. a \in Owners /\ q \in ReadyOwners
        BY <3>1, <3>3 DEF Inductive, Types, ReadyOwners
      <4>2. lastId \in Owners /\ Between(q, a, lastId)
        BY <3>3 DEF InOrder
      <4>3. \/ lastId < NextOwner /\ (NextOwner < q \/ q <= lastId)
            \/ NextOwner < q /\ q <= lastId
        BY <2>1, <3>1, <4>1, <4>2, NextOwnerInTurn
      <4> QED
        BY <2>1, <4>1, <4>2, <4>3, SemanticSchedulerAssumption DEF Between
    <3> QED
      BY <3>1, <3>2, <3>3
  <2> QED
    BY <2>1, <2>3 DEF InOrder
<1> QED
  BY <1>1, <1>2, OnlySelectServes
-----------------------------------------------------------------------------
LEMMA Initially == ASSUME Init PROVE Inductive /\ InOrder
<1>1. Types /\ Turns /\ Stages /\ Debts /\ NoTargetLost /\ Wakeups
  BY SemanticSchedulerAssumption
  DEF Init, None, Nowhere, Types, Turns, Stages, Debts, Job, NoTargetLost, Wakeups
<1>2. \A o \in Owners : Identities(o) = {}
  BY DEF Init, None, Identities
<1>3. Reserved = {} /\ total = 0
  BY <1>2 DEF Init, Reserved
<1>4. Counted
  BY <1>2, <1>3, FS_EmptySet, SemanticSchedulerAssumption DEF Counted, ReservationsCounted
<1>5. InOrder
  BY DEF Init, None, InOrder
<1> QED
  BY <1>1, <1>4, <1>5 DEF Inductive

LEMMA InductiveKept == ASSUME Inductive, [Next]_vars PROVE Inductive'
BY TypesKept, TurnsKept, StagesKept, CountKept, DebtsKept, TargetsKept, WakeupsKept DEF Inductive

(* Types flag by flag, and the count of a finite set, are the type invariant. *)
LEMMA Typed == ASSUME Inductive PROVE TypeOK
<1>1. total \in Nat
  BY FS_CardinalityType DEF Inductive, Counted, ReservationsCounted
<1> QED
  BY <1>1 DEF Inductive, Types, TypeOK

LEMMA CleanShutdown == ASSUME Inductive PROVE ShutdownIsClean
<1> SUFFICES ASSUME shutdown = "complete"
             PROVE  /\ total = 0
                    /\ \A o \in Owners : ~continuation[o] /\ ~running[o] /\ Identities(o) = {}
  BY DEF ShutdownIsClean
<1>1. /\ closed /\ cur = NoOwner
      /\ \A o \in Owners : inflight[o] = {} /\ ~continuation[o] /\ ~running[o]
  BY SemanticSchedulerAssumption DEF Inductive, Types, Turns
<1>2. \A o \in Owners : Identities(o) = {}
  BY <1>1 DEF Inductive, Stages, Identities
<1>3. Reserved = {}
  BY <1>2 DEF Reserved
<1>4. total = 0
  BY <1>3, FS_EmptySet DEF Inductive, Counted, ReservationsCounted
<1> QED
  BY <1>1, <1>2, <1>4

(* The strengthened invariant holds of every run.                          *)
THEOREM Invariance == Spec => [](Inductive /\ InOrder)
<1>1. Init => Inductive /\ InOrder
  BY Initially
<1>2. Inductive /\ InOrder /\ [Next]_vars => Inductive' /\ InOrder'
  BY InductiveKept, InOrderKept
<1> QED
  BY <1>1, <1>2, PTL DEF Spec

(* Each reserved identity is counted once and within both limits whichever *)
(* stages hold it, and a shutdown that reports completion has left none:   *)
(* SharedSemanticScheduler._total agrees with the sets after every block   *)
(* under the condition, for any number of spaces, notes and limits.        *)
THEOREM Accounting == Spec => []Accounted
<1>1. Inductive => Accounted
  BY Typed, CleanShutdown DEF Inductive, Counted, Accounted
<1> QED
  BY <1>1, Invariance, PTL

(* An accepted path stays reserved or covered by full debt until a job has *)
(* synchronized it; a failed turn waits for a trigger and a trigger that   *)
(* came during the failing turn is not lost.                               *)
THEOREM NothingIsForgotten == Spec => []NothingForgotten
<1>1. Inductive => NothingForgotten
  BY DEF Inductive, Wakeups, NothingForgotten, FailureAwaitsTrigger
<1> QED
  BY <1>1, Invariance, PTL

(* While an owner stays ready at every selection no other owner is served  *)
(* twice before it: the round robin of _select, whatever ids the spaces    *)
(* have.                                                                   *)
THEOREM RoundRobin == Spec => ServedInTurn
<1>1. ASSUME Inductive, InOrder, [Next]_vars, NEW o \in Owners,
             cur = NoOwner, cur' \in Owners \ {o}, Ready(o)
      PROVE  cur' \notin ahead[o]
  <2>1. Select
    BY <1>1, OnlySelectServes, SemanticSchedulerAssumption
  <2>2. cur' = NextOwner
    BY <2>1 DEF Select
  <2> QED
    BY <1>1, <2>1, <2>2, SelectedIsNotAhead
<1>2. Inductive /\ InOrder /\ [Next]_vars =>
        [\A o \in Owners :
           cur = NoOwner /\ cur' \in Owners \ {o} /\ Ready(o) => cur' \notin ahead[o]]_vars
  BY <1>1
<1> QED
  BY <1>2, Invariance, PTL DEF ServedInTurn, Spec
=============================================================================

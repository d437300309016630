---------------------- MODULE EmbeddingResource_proof ----------------------
(***************************************************************************)
(* Proofs about EmbeddingResource, for every set of threads and any number *)
(* of releases.                                                            *)
(***************************************************************************)
EXTENDS EmbeddingResource, TLAPS

\* The constructor's values satisfy the inductive invariant.
LEMMA InitEstablishes == Init => ResourceInv
<1> SUFFICES ASSUME Init PROVE ResourceInv
  OBVIOUS
<1> USE EmbeddingResourceAssumption DEF Init, Pc, Holding
<1>0. failedGen \in Int /\ generation \in Nat /\ cleanupRevision \in Nat
  OBVIOUS
<1>1. TypeOK
  <2>1. pinned \in [Threads -> Nat] /\ revision \in [Threads -> Nat] /\ pc \in [Threads -> Pc]
    OBVIOUS
  <2> QED
    BY <1>0, <2>1 DEF TypeOK
<1>2. FlagsMatchThreads
  BY DEF FlagsMatchThreads
<1>3. PinnedGenerationStable /\ ReleaseExclusive /\ ClosedIsFinal
  BY DEF PinnedGenerationStable, ReleaseExclusive, ClosedIsFinal
<1> QED
  BY <1>1, <1>2, <1>3 DEF ResourceInv

\* Every step of every thread preserves the inductive invariant.
LEMMA StepPreserves == ResourceInv /\ [Next]_vars => ResourceInv'
<1> SUFFICES ASSUME ResourceInv, [Next]_vars PROVE ResourceInv'
  OBVIOUS
<1> USE EmbeddingResourceAssumption DEF ResourceInv, TypeOK, Goto, Pc, Holding, cleanupVars
<1>1. ASSUME NEW t \in Threads, Enter(t) PROVE ResourceInv'
  <2>1. TypeOK'
    BY <1>1 DEF Enter
  <2>2. FlagsMatchThreads'
    BY <1>1 DEF Enter, FlagsMatchThreads
  <2>3. PinnedGenerationStable'
    BY <1>1 DEF Enter, FlagsMatchThreads, PinnedGenerationStable
  <2>4. ReleaseExclusive'
    BY <1>1 DEF Enter, FlagsMatchThreads, ReleaseExclusive
  <2>5. ClosedIsFinal'
    BY <1>1 DEF Enter, FlagsMatchThreads, ClosedIsFinal
  <2> QED
    BY <2>1, <2>2, <2>3, <2>4, <2>5
<1>2. ASSUME NEW t \in Threads, EnterRaises(t) PROVE ResourceInv'
  <2>1. TypeOK'
    BY <1>2 DEF EnterRaises
  <2>2. FlagsMatchThreads'
    BY <1>2 DEF EnterRaises, FlagsMatchThreads
  <2>3. PinnedGenerationStable'
    BY <1>2 DEF EnterRaises, FlagsMatchThreads, PinnedGenerationStable
  <2>4. ReleaseExclusive'
    BY <1>2 DEF EnterRaises, FlagsMatchThreads, ReleaseExclusive
  <2>5. ClosedIsFinal'
    BY <1>2 DEF EnterRaises, FlagsMatchThreads, ClosedIsFinal
  <2> QED
    BY <2>1, <2>2, <2>3, <2>4, <2>5
<1>3. ASSUME NEW t \in Threads, Pin(t) PROVE ResourceInv'
  <2>1. TypeOK'
    BY <1>3 DEF Pin, Open
  <2>2. FlagsMatchThreads'
    BY <1>3 DEF Pin, Open, FlagsMatchThreads
  <2>3. PinnedGenerationStable'
    BY <1>3 DEF Pin, Open, FlagsMatchThreads, PinnedGenerationStable
  <2>4. ReleaseExclusive'
    BY <1>3 DEF Pin, Open, FlagsMatchThreads, ReleaseExclusive
  <2>5. ClosedIsFinal'
    BY <1>3 DEF Pin, Open, FlagsMatchThreads, ClosedIsFinal
  <2> QED
    BY <2>1, <2>2, <2>3, <2>4, <2>5
<1>4. ASSUME NEW t \in Threads, WantLease(t) PROVE ResourceInv'
  <2>1. TypeOK'
    BY <1>4 DEF WantLease
  <2>2. FlagsMatchThreads'
    BY <1>4 DEF WantLease, FlagsMatchThreads
  <2>3. PinnedGenerationStable'
    BY <1>4 DEF WantLease, FlagsMatchThreads, PinnedGenerationStable
  <2>4. ReleaseExclusive'
    BY <1>4 DEF WantLease, FlagsMatchThreads, ReleaseExclusive
  <2>5. ClosedIsFinal'
    BY <1>4 DEF WantLease, FlagsMatchThreads, ClosedIsFinal
  <2> QED
    BY <2>1, <2>2, <2>3, <2>4, <2>5
<1>5. ASSUME NEW t \in Threads, LeaseRaises(t) PROVE ResourceInv'
  <2>1. TypeOK'
    BY <1>5 DEF LeaseRaises
  <2>2. FlagsMatchThreads'
    BY <1>5 DEF LeaseRaises, FlagsMatchThreads
  <2>3. PinnedGenerationStable'
    BY <1>5 DEF LeaseRaises, FlagsMatchThreads, PinnedGenerationStable
  <2>4. ReleaseExclusive'
    BY <1>5 DEF LeaseRaises, FlagsMatchThreads, ReleaseExclusive
  <2>5. ClosedIsFinal'
    BY <1>5 DEF LeaseRaises, FlagsMatchThreads, ClosedIsFinal
  <2> QED
    BY <2>1, <2>2, <2>3, <2>4, <2>5
<1>6. ASSUME NEW t \in Threads, Lease(t) PROVE ResourceInv'
  <2>1. TypeOK'
    BY <1>6 DEF Lease, Open
  <2>2. FlagsMatchThreads'
    BY <1>6 DEF Lease, Open, FlagsMatchThreads
  <2>3. PinnedGenerationStable'
    BY <1>6 DEF Lease, Open, FlagsMatchThreads, PinnedGenerationStable
  <2>4. ReleaseExclusive'
    BY <1>6 DEF Lease, Open, FlagsMatchThreads, ReleaseExclusive
  <2>5. ClosedIsFinal'
    BY <1>6 DEF Lease, Open, FlagsMatchThreads, ClosedIsFinal
  <2> QED
    BY <2>1, <2>2, <2>3, <2>4, <2>5
<1>7. ASSUME NEW t \in Threads, CallReturns(t) PROVE ResourceInv'
  <2>1. TypeOK'
    BY <1>7 DEF CallReturns
  <2>2. FlagsMatchThreads'
    BY <1>7 DEF CallReturns, FlagsMatchThreads
  <2>3. PinnedGenerationStable'
    BY <1>7 DEF CallReturns, FlagsMatchThreads, PinnedGenerationStable
  <2>4. ReleaseExclusive'
    BY <1>7 DEF CallReturns, FlagsMatchThreads, ReleaseExclusive
  <2>5. ClosedIsFinal'
    BY <1>7 DEF CallReturns, FlagsMatchThreads, ClosedIsFinal
  <2> QED
    BY <2>1, <2>2, <2>3, <2>4, <2>5
<1>8. ASSUME NEW t \in Threads, CallFails(t) PROVE ResourceInv'
  <2>1. TypeOK'
    BY <1>8 DEF CallFails
  <2>2. FlagsMatchThreads'
    BY <1>8 DEF CallFails, FlagsMatchThreads
  <2>3. PinnedGenerationStable'
    BY <1>8 DEF CallFails, FlagsMatchThreads, PinnedGenerationStable
  <2>4. ReleaseExclusive'
    BY <1>8 DEF CallFails, FlagsMatchThreads, ReleaseExclusive
  <2>5. ClosedIsFinal'
    BY <1>8 DEF CallFails, FlagsMatchThreads, ClosedIsFinal
  <2> QED
    BY <2>1, <2>2, <2>3, <2>4, <2>5
<1>9. ASSUME NEW t \in Threads, LeaseReturned(t) PROVE ResourceInv'
  <2>1. TypeOK'
    BY <1>9 DEF LeaseReturned
  <2>2. FlagsMatchThreads'
    BY <1>9 DEF LeaseReturned, FlagsMatchThreads
  <2>3. PinnedGenerationStable'
    BY <1>9 DEF LeaseReturned, FlagsMatchThreads, PinnedGenerationStable
  <2>4. ReleaseExclusive'
    BY <1>9 DEF LeaseReturned, FlagsMatchThreads, ReleaseExclusive
  <2>5. ClosedIsFinal'
    BY <1>9 DEF LeaseReturned, FlagsMatchThreads, ClosedIsFinal
  <2> QED
    BY <2>1, <2>2, <2>3, <2>4, <2>5
<1>10. ASSUME NEW t \in Threads, InvalidateInside(t) PROVE ResourceInv'
  <2>1. TypeOK'
    BY <1>10 DEF InvalidateInside, Open
  <2>2. FlagsMatchThreads'
    BY <1>10 DEF InvalidateInside, Open, FlagsMatchThreads
  <2>3. PinnedGenerationStable'
    BY <1>10 DEF InvalidateInside, Open, FlagsMatchThreads, PinnedGenerationStable
  <2>4. ReleaseExclusive'
    BY <1>10 DEF InvalidateInside, Open, FlagsMatchThreads, ReleaseExclusive
  <2>5. ClosedIsFinal'
    BY <1>10 DEF InvalidateInside, Open, FlagsMatchThreads, ClosedIsFinal
  <2> QED
    BY <2>1, <2>2, <2>3, <2>4, <2>5
<1>11. ASSUME NEW t \in Threads, Unpin(t) PROVE ResourceInv'
  <2>1. TypeOK'
    BY <1>11 DEF Unpin, Reserve, NoReserve
  <2>2. FlagsMatchThreads'
    BY <1>11 DEF Unpin, Reserve, NoReserve, FlagsMatchThreads
  <2>3. PinnedGenerationStable'
    BY <1>11 DEF Unpin, Reserve, NoReserve, FlagsMatchThreads, PinnedGenerationStable
  <2>4. ReleaseExclusive'
    BY <1>11 DEF Unpin, Reserve, NoReserve, FlagsMatchThreads, ReleaseExclusive
  <2>5. ClosedIsFinal'
    BY <1>11 DEF Unpin, Reserve, NoReserve, FlagsMatchThreads, ClosedIsFinal
  <2> QED
    BY <2>1, <2>2, <2>3, <2>4, <2>5
<1>12. ASSUME NEW t \in Threads, Invalidate(t) PROVE ResourceInv'
  <2>1. TypeOK'
    BY <1>12 DEF Invalidate, Reserve, NoReserve, Open
  <2>2. FlagsMatchThreads'
    BY <1>12 DEF Invalidate, Reserve, NoReserve, Open, FlagsMatchThreads
  <2>3. PinnedGenerationStable'
    BY <1>12 DEF Invalidate, Reserve, NoReserve, Open, FlagsMatchThreads, PinnedGenerationStable
  <2>4. ReleaseExclusive'
    BY <1>12 DEF Invalidate, Reserve, NoReserve, Open, FlagsMatchThreads, ReleaseExclusive
  <2>5. ClosedIsFinal'
    BY <1>12 DEF Invalidate, Reserve, NoReserve, Open, FlagsMatchThreads, ClosedIsFinal
  <2> QED
    BY <2>1, <2>2, <2>3, <2>4, <2>5
<1>13. ASSUME NEW t \in Threads, InvalidateReturns(t) PROVE ResourceInv'
  <2>1. TypeOK'
    BY <1>13 DEF InvalidateReturns
  <2>2. FlagsMatchThreads'
    BY <1>13 DEF InvalidateReturns, FlagsMatchThreads
  <2>3. PinnedGenerationStable'
    BY <1>13 DEF InvalidateReturns, FlagsMatchThreads, PinnedGenerationStable
  <2>4. ReleaseExclusive'
    BY <1>13 DEF InvalidateReturns, FlagsMatchThreads, ReleaseExclusive
  <2>5. ClosedIsFinal'
    BY <1>13 DEF InvalidateReturns, FlagsMatchThreads, ClosedIsFinal
  <2> QED
    BY <2>1, <2>2, <2>3, <2>4, <2>5
<1>14. ASSUME NEW t \in Threads, ReleaseSucceeds(t) PROVE ResourceInv'
  <2>1. TypeOK'
    <3>1. closed' \in BOOLEAN /\ loaded' \in BOOLEAN /\ cleanupFailed' \in BOOLEAN
      BY <1>14 DEF ReleaseSucceeds
    <3>2. cleanupRevision' \in Nat /\ generation' \in Nat
      BY <1>14 DEF ReleaseSucceeds
    <3>3. pc' \in [Threads -> Pc]
      BY <1>14 DEF ReleaseSucceeds
    <3> QED
      BY <1>14, <3>1, <3>2, <3>3 DEF ReleaseSucceeds
  <2>2. FlagsMatchThreads'
    <3>1. ~(\E u \in Threads : pc'[u] = "releasing")
      BY <1>14 DEF ReleaseSucceeds, ReleaseExclusive
    <3>2. \A u \in Threads : pc[u] \notin Holding /\ pc'[u] \notin Holding /\ busy # u
      BY <1>14 DEF ReleaseSucceeds, FlagsMatchThreads
    <3>3. pins' = {} /\ busy' = NoThread
      BY <1>14 DEF ReleaseSucceeds, ReleaseExclusive
    <3>4. (failedGen <= generation /\ (failedGen = generation => cleanupFailed))'
      BY <1>14 DEF ReleaseSucceeds, FlagsMatchThreads
    <3>5. (/\ closed => closing
           /\ closing /\ ~closed => cleanupFailed)'
      BY <1>14 DEF ReleaseSucceeds, FlagsMatchThreads
    <3>6. ~cleaning'
      BY <1>14 DEF ReleaseSucceeds
    <3> QED
      BY <3>1, <3>2, <3>3, <3>4, <3>5, <3>6 DEF FlagsMatchThreads
  <2>3. PinnedGenerationStable'
    BY <1>14 DEF ReleaseSucceeds, FlagsMatchThreads, PinnedGenerationStable
  <2>4. ReleaseExclusive'
    BY <1>14 DEF ReleaseSucceeds, FlagsMatchThreads, ReleaseExclusive
  <2>5. ClosedIsFinal'
    BY <1>14 DEF ReleaseSucceeds, FlagsMatchThreads, ClosedIsFinal
  <2> QED
    BY <2>1, <2>2, <2>3, <2>4, <2>5
<1>15. ASSUME NEW t \in Threads, ReleaseFails(t) PROVE ResourceInv'
  <2>1. TypeOK'
    <3>1. closed' \in BOOLEAN /\ loaded' \in BOOLEAN /\ cleanupFailed' \in BOOLEAN
      BY <1>15 DEF ReleaseFails
    <3>2. cleanupRevision' \in Nat /\ generation' \in Nat
      BY <1>15 DEF ReleaseFails
    <3>3. pc' \in [Threads -> Pc]
      BY <1>15 DEF ReleaseFails
    <3> QED
      BY <1>15, <3>1, <3>2, <3>3 DEF ReleaseFails
  <2>2. FlagsMatchThreads'
    <3>1. ~(\E u \in Threads : pc'[u] = "releasing")
      BY <1>15 DEF ReleaseFails, ReleaseExclusive
    <3>2. \A u \in Threads : pc[u] \notin Holding /\ pc'[u] \notin Holding /\ busy # u
      BY <1>15 DEF ReleaseFails, FlagsMatchThreads
    <3>3. pins' = {} /\ busy' = NoThread
      BY <1>15 DEF ReleaseFails, ReleaseExclusive
    <3>4. (failedGen <= generation /\ (failedGen = generation => cleanupFailed))'
      BY <1>15 DEF ReleaseFails, FlagsMatchThreads
    <3>5. (/\ closed => closing
           /\ closing /\ ~closed => cleanupFailed)'
      BY <1>15 DEF ReleaseFails, FlagsMatchThreads
    <3>6. ~cleaning'
      BY <1>15 DEF ReleaseFails
    <3> QED
      BY <3>1, <3>2, <3>3, <3>4, <3>5, <3>6 DEF FlagsMatchThreads
  <2>3. PinnedGenerationStable'
    BY <1>15 DEF ReleaseFails, FlagsMatchThreads, PinnedGenerationStable
  <2>4. ReleaseExclusive'
    BY <1>15 DEF ReleaseFails, FlagsMatchThreads, ReleaseExclusive
  <2>5. ClosedIsFinal'
    BY <1>15 DEF ReleaseFails, FlagsMatchThreads, ClosedIsFinal
  <2> QED
    BY <2>1, <2>2, <2>3, <2>4, <2>5
<1>16. ASSUME NEW t \in Threads, Close(t) PROVE ResourceInv'
  <2>1. TypeOK'
    BY <1>16 DEF Close, Reserve, NoReserve
  <2>2. FlagsMatchThreads'
    BY <1>16 DEF Close, Reserve, NoReserve, FlagsMatchThreads
  <2>3. PinnedGenerationStable'
    BY <1>16 DEF Close, Reserve, NoReserve, FlagsMatchThreads, PinnedGenerationStable
  <2>4. ReleaseExclusive'
    BY <1>16 DEF Close, Reserve, NoReserve, FlagsMatchThreads, ReleaseExclusive
  <2>5. ClosedIsFinal'
    BY <1>16 DEF Close, Reserve, NoReserve, FlagsMatchThreads, ClosedIsFinal
  <2> QED
    BY <2>1, <2>2, <2>3, <2>4, <2>5
<1>17. ASSUME NEW t \in Threads, CloseReturns(t) PROVE ResourceInv'
  <2>1. TypeOK'
    BY <1>17 DEF CloseReturns
  <2>2. FlagsMatchThreads'
    BY <1>17 DEF CloseReturns, FlagsMatchThreads
  <2>3. PinnedGenerationStable'
    BY <1>17 DEF CloseReturns, FlagsMatchThreads, PinnedGenerationStable
  <2>4. ReleaseExclusive'
    BY <1>17 DEF CloseReturns, FlagsMatchThreads, ReleaseExclusive
  <2>5. ClosedIsFinal'
    BY <1>17 DEF CloseReturns, FlagsMatchThreads, ClosedIsFinal
  <2> QED
    BY <2>1, <2>2, <2>3, <2>4, <2>5
<1>18. CASE UNCHANGED vars
  BY <1>18 DEF vars, FlagsMatchThreads, PinnedGenerationStable, ReleaseExclusive, ClosedIsFinal
<1> QED
  BY <1>1, <1>2, <1>3, <1>4, <1>5, <1>6, <1>7, <1>8, <1>9, <1>10, <1>11, <1>12, <1>13, <1>14, <1>15, <1>16, <1>17, <1>18 DEF Next, Proceed

\* The inductive invariant holds throughout.
THEOREM Inductive == Spec => []ResourceInv
<1>1. Init => ResourceInv
  BY InitEstablishes
<1>2. ResourceInv /\ [Next]_vars => ResourceInv'
  BY StepPreserves
<1> QED
  BY <1>1, <1>2, PTL DEF Spec

\* The generation of a pinned pipeline never changes under it.
THEOREM PinsAreStable == Spec => []PinnedGenerationStable
<1>1. ResourceInv => PinnedGenerationStable
  BY DEF ResourceInv
<1> QED
  BY <1>1, Inductive, PTL

\* A release excludes pins, backend calls and other releases.
THEOREM ReleasesAreExclusive == Spec => []ReleaseExclusive
<1>1. ResourceInv => ReleaseExclusive
  BY DEF ResourceInv
<1> QED
  BY <1>1, Inductive, PTL

\* Together: uses and releases of the model keep apart.
THEOREM GenerationsAreSeparated == Spec => []GenerationsSeparated
<1>1. PinnedGenerationStable /\ ReleaseExclusive => GenerationsSeparated
  BY DEF GenerationsSeparated
<1> QED
  BY <1>1, PinsAreStable, ReleasesAreExclusive, PTL

\* A closed resource holds no model, for ever.
THEOREM CloseIsFinal == Spec => []ClosedIsFinal
<1>1. ResourceInv => ClosedIsFinal
  BY DEF ResourceInv
<1> QED
  BY <1>1, Inductive, PTL

\* No pipeline that enters gets a generation whose backend has failed.
THEOREM FailedModelsAreNotReused == Spec => FailedModelNotReused
<1>1. ResourceInv /\ [Next]_vars =>
          [\A t \in Threads : t \in pins' \ pins => pinned'[t] > failedGen]_vars
  <2> SUFFICES ASSUME ResourceInv, Next, NEW t \in Threads, t \in pins' \ pins
               PROVE  pinned'[t] > failedGen
    OBVIOUS
  <2>1. PICK u \in Threads : Pin(u)
    BY DEF Next, Proceed, Enter, EnterRaises, WantLease, LeaseRaises, Lease, CallReturns, CallFails,
         LeaseReturned, InvalidateInside, Unpin, Invalidate, InvalidateReturns, ReleaseSucceeds,
         ReleaseFails, Close, CloseReturns
  <2>2. t = u /\ pinned'[t] = generation
    BY <2>1 DEF Pin, ResourceInv, TypeOK
  <2>3. failedGen < generation
    BY <2>1 DEF Pin, Open, ResourceInv, TypeOK, FlagsMatchThreads
  <2> QED
    BY <2>2, <2>3
<1> QED
  BY <1>1, Inductive, PTL DEF Spec, FailedModelNotReused

=============================================================================

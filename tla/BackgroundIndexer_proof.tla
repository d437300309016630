---------------------- MODULE BackgroundIndexer_proof ----------------------
(***************************************************************************)
(* Proofs about BackgroundIndexer, for every set of notes and every bound. *)
(* The three facts Init => IndInv, IndInv /\ [Next]_vars => IndInv' and    *)
(* IndInv => (each safety property) give the invariants; the refinement of *)
(* MarkdownIndex needs VersionOrder and StoppedShape besides.              *)
(***************************************************************************)
EXTENDS BackgroundIndexer, TLAPS

\* The constructor's values satisfy the inductive invariant.
LEMMA InitEstablishes == Init => IndInv
<1> SUFFICES ASSUME Init PROVE IndInv
  OBVIOUS
<1> USE BackgroundIndexerAssumption DEF Init, FreshProcess
<1>0. 0 \in Version /\ 0 \in 0..MaxRestarts
  BY DEF Version
<1>1. TypeOK
  BY <1>0 DEF TypeOK, FutureState, RunState
<1>2. JobShape /\ VersionOrder /\ FullCovers /\ NoLostWrite
  BY DEF JobShape, VersionOrder, FullCovers, NoLostWrite, Working, Done
<1>3. NoSilentStall /\ ShutdownCancelSticks /\ StoppedShape
  BY DEF NoSilentStall, ShutdownCancelSticks, StoppedShape, Debt
<1> QED
  BY <1>1, <1>2, <1>3 DEF IndInv

\* Type correctness of the two submitting actions whose outcomes must be told
\* apart for the provers: the executor's answer, or no submission at all.
LEMMA EnqueuePathsType ==
    ASSUME TypeOK, NEW ps \in SUBSET Paths, EnqueuePaths(ps) PROVE TypeOK'
<1>1. CASE SubmitLocked
  BY <1>1 DEF EnqueuePaths, SubmitLocked, TypeOK, FutureState, jobVars, lifeVars
<1>2. CASE UNCHANGED futureVars
  BY <1>2 DEF EnqueuePaths, TypeOK, jobVars, lifeVars, futureVars
<1> QED
  BY <1>1, <1>2 DEF EnqueuePaths

LEMMA RecordSuccessType == ASSUME TypeOK, RecordSuccess PROVE TypeOK'
<1>1. CASE SubmitLocked
  BY <1>1 DEF RecordSuccess, SubmitLocked, TypeOK, FutureState, jobVars, lifeVars, queueVars
<1>2. CASE callback' = "delivered" /\ UNCHANGED <<future, lastError, cancel>>
  BY <1>2 DEF RecordSuccess, TypeOK, jobVars, lifeVars, queueVars
<1> QED
  BY <1>1, <1>2 DEF RecordSuccess

\* Every step preserves the inductive invariant.
LEMMA StepPreserves == IndInv /\ [Next]_vars => IndInv'
<1> SUFFICES ASSUME IndInv, [Next]_vars PROVE IndInv'
  OBVIOUS
<1> USE BackgroundIndexerAssumption DEF IndInv
<1>1. CASE \E p \in Paths : Write(p)
  BY <1>1 DEF Write, TypeOK, JobShape, VersionOrder, FullCovers, NoLostWrite,
         NoSilentStall, ShutdownCancelSticks, StoppedShape, Version, FutureState,
         RunState, Done, Debt, Working, Stale, Covered, queueVars, futureVars,
         jobVars, lifeVars
<1>2. CASE \E ps \in SUBSET Paths \ {{}} : EnqueuePaths(ps)
  <2>1. TypeOK'
    BY <1>2, EnqueuePathsType
  <2>2. JobShape'
    BY <1>2 DEF EnqueuePaths, SubmitLocked, TypeOK, JobShape,
         RunState, Working, Done, queueVars, futureVars, jobVars, lifeVars
  <2>3. VersionOrder'
    BY <1>2 DEF EnqueuePaths, SubmitLocked, TypeOK, Version,
         JobShape, VersionOrder, Working, queueVars, futureVars, jobVars, lifeVars
  <2>4. FullCovers'
    BY <1>2 DEF EnqueuePaths, SubmitLocked, TypeOK, JobShape, FullCovers,
         NoLostWrite, Stale, Covered, Working, Done, queueVars, futureVars, jobVars, lifeVars
  <2>5. NoLostWrite'
    BY <1>2 DEF EnqueuePaths, SubmitLocked, TypeOK, JobShape, FullCovers,
         NoLostWrite, Stale, Covered, Working, queueVars, futureVars, jobVars, lifeVars
  <2>6. NoSilentStall'
    BY <1>2 DEF EnqueuePaths, SubmitLocked, TypeOK, JobShape, NoSilentStall,
         Done, Debt, Working, queueVars, futureVars, jobVars, lifeVars
  <2>7. ShutdownCancelSticks'
    BY <1>2 DEF EnqueuePaths, SubmitLocked, TypeOK,
         ShutdownCancelSticks, queueVars, futureVars, jobVars, lifeVars
  <2>8. StoppedShape'
    BY <1>2 DEF EnqueuePaths, SubmitLocked, TypeOK, StoppedShape,
         JobShape, Done, Working, FutureState, queueVars, futureVars, jobVars, lifeVars
  <2> QED
    BY <2>1, <2>2, <2>3, <2>4, <2>5, <2>6, <2>7, <2>8
<1>3. CASE Start
  <2>1. TypeOK'
    BY <1>3 DEF Start, SubmitLocked, TypeOK, Version,
         FutureState, RunState, queueVars, futureVars, jobVars, lifeVars
  <2>2. JobShape'
    BY <1>3 DEF Start, SubmitLocked, TypeOK, JobShape,
         RunState, Working, Done, queueVars, futureVars, jobVars, lifeVars
  <2>3. VersionOrder'
    BY <1>3 DEF Start, SubmitLocked, TypeOK, Version,
         JobShape, VersionOrder, Working, queueVars, futureVars, jobVars, lifeVars
  <2>4. FullCovers'
    BY <1>3 DEF Start, SubmitLocked, TypeOK, JobShape, FullCovers,
         NoLostWrite, Stale, Covered, Working, Done, queueVars, futureVars, jobVars, lifeVars
  <2>5. NoLostWrite'
    BY <1>3 DEF Start, SubmitLocked, TypeOK, JobShape, FullCovers,
         NoLostWrite, Stale, Covered, Working, queueVars, futureVars, jobVars, lifeVars
  <2>6. NoSilentStall'
    BY <1>3 DEF Start, SubmitLocked, TypeOK, JobShape, NoSilentStall,
         Done, Debt, Working, queueVars, futureVars, jobVars, lifeVars
  <2>7. ShutdownCancelSticks'
    BY <1>3 DEF Start, SubmitLocked, TypeOK,
         ShutdownCancelSticks, queueVars, futureVars, jobVars, lifeVars
  <2>8. StoppedShape'
    BY <1>3 DEF Start, SubmitLocked, TypeOK, StoppedShape,
         JobShape, Done, Working, FutureState, queueVars, futureVars, jobVars, lifeVars
  <2> QED
    BY <2>1, <2>2, <2>3, <2>4, <2>5, <2>6, <2>7, <2>8
<1>4. CASE WaitResubmits
  <2>1. TypeOK'
    BY <1>4 DEF WaitResubmits, SubmitLocked, TypeOK, Version,
         FutureState, RunState, queueVars, futureVars, jobVars, lifeVars
  <2>2. JobShape'
    BY <1>4 DEF WaitResubmits, SubmitLocked, TypeOK, JobShape,
         RunState, Working, Done, queueVars, futureVars, jobVars, lifeVars
  <2>3. VersionOrder'
    BY <1>4 DEF WaitResubmits, SubmitLocked, TypeOK, Version,
         JobShape, VersionOrder, Working, queueVars, futureVars, jobVars, lifeVars
  <2>4. FullCovers'
    BY <1>4 DEF WaitResubmits, SubmitLocked, TypeOK, JobShape, FullCovers,
         NoLostWrite, Stale, Covered, Working, Done, queueVars, futureVars, jobVars, lifeVars
  <2>5. NoLostWrite'
    BY <1>4 DEF WaitResubmits, SubmitLocked, TypeOK, JobShape, FullCovers,
         NoLostWrite, Stale, Covered, Working, queueVars, futureVars, jobVars, lifeVars
  <2>6. NoSilentStall'
    BY <1>4 DEF WaitResubmits, SubmitLocked, TypeOK, JobShape, NoSilentStall,
         Done, Debt, Working, queueVars, futureVars, jobVars, lifeVars
  <2>7. ShutdownCancelSticks'
    BY <1>4 DEF WaitResubmits, SubmitLocked, TypeOK,
         ShutdownCancelSticks, queueVars, futureVars, jobVars, lifeVars
  <2>8. StoppedShape'
    BY <1>4 DEF WaitResubmits, SubmitLocked, TypeOK, StoppedShape,
         JobShape, Done, Working, FutureState, queueVars, futureVars, jobVars, lifeVars
  <2> QED
    BY <2>1, <2>2, <2>3, <2>4, <2>5, <2>6, <2>7, <2>8
<1>5. CASE RunBegins
  BY <1>5 DEF RunBegins, TypeOK, JobShape, VersionOrder, FullCovers, NoLostWrite,
         NoSilentStall, ShutdownCancelSticks, StoppedShape, Version, FutureState,
         RunState, Done, Debt, Working, Stale, Covered, queueVars, futureVars,
         jobVars, lifeVars
<1>6. CASE ClaimFull
  <2>1. TypeOK'
    BY <1>6 DEF ClaimFull, TypeOK, Version,
         FutureState, RunState, queueVars, futureVars, jobVars, lifeVars
  <2>2. JobShape'
    BY <1>6 DEF ClaimFull, TypeOK, JobShape,
         RunState, Working, Done, queueVars, futureVars, jobVars, lifeVars
  <2>3. VersionOrder'
    BY <1>6 DEF ClaimFull, TypeOK, Version,
         JobShape, VersionOrder, Working, queueVars, futureVars, jobVars, lifeVars
  <2>4. FullCovers'
    BY <1>6 DEF ClaimFull, TypeOK, JobShape, FullCovers,
         NoLostWrite, Stale, Covered, Working, Done, queueVars, futureVars, jobVars, lifeVars
  <2>5. NoLostWrite'
    BY <1>6 DEF ClaimFull, TypeOK, JobShape, FullCovers,
         NoLostWrite, Stale, Covered, Working, queueVars, futureVars, jobVars, lifeVars
  <2>6. NoSilentStall'
    BY <1>6 DEF ClaimFull, TypeOK, JobShape, NoSilentStall,
         Done, Debt, Working, queueVars, futureVars, jobVars, lifeVars
  <2>7. ShutdownCancelSticks'
    BY <1>6 DEF ClaimFull, TypeOK,
         ShutdownCancelSticks, queueVars, futureVars, jobVars, lifeVars
  <2>8. StoppedShape'
    BY <1>6 DEF ClaimFull, TypeOK, StoppedShape,
         JobShape, Done, Working, FutureState, queueVars, futureVars, jobVars, lifeVars
  <2> QED
    BY <2>1, <2>2, <2>3, <2>4, <2>5, <2>6, <2>7, <2>8
<1>7. CASE ClaimTargeted
  <2>1. TypeOK'
    BY <1>7 DEF ClaimTargeted, TypeOK, Version,
         FutureState, RunState, queueVars, futureVars, jobVars, lifeVars
  <2>2. JobShape'
    BY <1>7 DEF ClaimTargeted, TypeOK, JobShape,
         RunState, Working, Done, queueVars, futureVars, jobVars, lifeVars
  <2>3. VersionOrder'
    BY <1>7 DEF ClaimTargeted, TypeOK, Version,
         JobShape, VersionOrder, Working, queueVars, futureVars, jobVars, lifeVars
  <2>4. FullCovers'
    BY <1>7 DEF ClaimTargeted, TypeOK, JobShape, FullCovers,
         NoLostWrite, Stale, Covered, Working, Done, queueVars, futureVars, jobVars, lifeVars
  <2>5. NoLostWrite'
    BY <1>7 DEF ClaimTargeted, TypeOK, JobShape, FullCovers,
         NoLostWrite, Stale, Covered, Working, queueVars, futureVars, jobVars, lifeVars
  <2>6. NoSilentStall'
    BY <1>7 DEF ClaimTargeted, TypeOK, JobShape, NoSilentStall,
         Done, Debt, Working, queueVars, futureVars, jobVars, lifeVars
  <2>7. ShutdownCancelSticks'
    BY <1>7 DEF ClaimTargeted, TypeOK,
         ShutdownCancelSticks, queueVars, futureVars, jobVars, lifeVars
  <2>8. StoppedShape'
    BY <1>7 DEF ClaimTargeted, TypeOK, StoppedShape,
         JobShape, Done, Working, FutureState, queueVars, futureVars, jobVars, lifeVars
  <2> QED
    BY <2>1, <2>2, <2>3, <2>4, <2>5, <2>6, <2>7, <2>8
<1>8. CASE ClaimNothing
  BY <1>8 DEF ClaimNothing, TypeOK, JobShape, VersionOrder, FullCovers, NoLostWrite,
         NoSilentStall, ShutdownCancelSticks, StoppedShape, Version, FutureState,
         RunState, Done, Debt, Working, Stale, Covered, queueVars, futureVars,
         jobVars, lifeVars
<1>9. CASE CommitBatch
  BY <1>9 DEF CommitBatch, TypeOK, JobShape, VersionOrder, FullCovers, NoLostWrite,
         NoSilentStall, ShutdownCancelSticks, StoppedShape, Version, FutureState,
         RunState, Done, Debt, Working, Stale, Covered, queueVars, futureVars,
         jobVars, lifeVars
<1>10. CASE JobSucceeds
  BY <1>10 DEF JobSucceeds, TypeOK, JobShape, VersionOrder, FullCovers, NoLostWrite,
         NoSilentStall, ShutdownCancelSticks, StoppedShape, Version, FutureState,
         RunState, Done, Debt, Working, Stale, Covered, queueVars, futureVars,
         jobVars, lifeVars
<1>11. CASE RunEnds
  <2>1. TypeOK'
    BY <1>11 DEF RunEnds, TypeOK, Version,
         FutureState, RunState, queueVars, futureVars, jobVars, lifeVars
  <2>2. JobShape'
    BY <1>11 DEF RunEnds, TypeOK, JobShape,
         RunState, Working, Done, queueVars, futureVars, jobVars, lifeVars
  <2>3. VersionOrder'
    BY <1>11 DEF RunEnds, TypeOK, Version,
         JobShape, VersionOrder, Working, queueVars, futureVars, jobVars, lifeVars
  <2>4. FullCovers'
    BY <1>11 DEF RunEnds, TypeOK, JobShape, FullCovers,
         NoLostWrite, Stale, Covered, Working, Done, queueVars, futureVars, jobVars, lifeVars
  <2>5. NoLostWrite'
    BY <1>11 DEF RunEnds, TypeOK, JobShape, FullCovers,
         NoLostWrite, Stale, Covered, Working, queueVars, futureVars, jobVars, lifeVars
  <2>6. NoSilentStall'
    BY <1>11 DEF RunEnds, TypeOK, JobShape, NoSilentStall,
         Done, Debt, Working, queueVars, futureVars, jobVars, lifeVars
  <2>7. ShutdownCancelSticks'
    BY <1>11 DEF RunEnds, TypeOK,
         ShutdownCancelSticks, queueVars, futureVars, jobVars, lifeVars
  <2>8. StoppedShape'
    BY <1>11 DEF RunEnds, TypeOK, StoppedShape,
         JobShape, Done, Working, FutureState, queueVars, futureVars, jobVars, lifeVars
  <2> QED
    BY <2>1, <2>2, <2>3, <2>4, <2>5, <2>6, <2>7, <2>8
<1>12. CASE \E p \in Paths : ReadNote(p)
  BY <1>12 DEF ReadNote, TypeOK, JobShape, VersionOrder, FullCovers, NoLostWrite,
         NoSilentStall, ShutdownCancelSticks, StoppedShape, Version, FutureState,
         RunState, Done, Debt, Working, Stale, Covered, queueVars, futureVars,
         jobVars, lifeVars
<1>13. CASE JobFails
  BY <1>13 DEF JobFails, TypeOK, JobShape, VersionOrder, FullCovers, NoLostWrite,
         NoSilentStall, ShutdownCancelSticks, StoppedShape, Version, FutureState,
         RunState, Done, Debt, Working, Stale, Covered, queueVars, futureVars,
         jobVars, lifeVars
<1>14. CASE AttachCallback
  BY <1>14 DEF AttachCallback, TypeOK, JobShape, VersionOrder, FullCovers, NoLostWrite,
         NoSilentStall, ShutdownCancelSticks, StoppedShape, Version, FutureState,
         RunState, Done, Debt, Working, Stale, Covered, queueVars, futureVars,
         jobVars, lifeVars
<1>15. CASE RecordFailure
  <2>1. TypeOK'
    <3>1. UNCHANGED <<vault, index, queueVars, jobVars, lifeVars>>
      BY <1>15 DEF RecordFailure
    <3>2. /\ future' \in FutureState /\ callback' \in {"unattached", "attached", "delivered"}
          /\ cancel' \in BOOLEAN /\ lastError' \in BOOLEAN
      BY <1>15 DEF RecordFailure, SubmitLocked, TypeOK, FutureState
    <3> QED
      BY <3>1, <3>2 DEF TypeOK, queueVars, jobVars, lifeVars
  <2>2. JobShape'
    BY <1>15 DEF RecordFailure, SubmitLocked, TypeOK, JobShape,
         RunState, Working, Done, queueVars, futureVars, jobVars, lifeVars
  <2>3. VersionOrder'
    BY <1>15 DEF RecordFailure, SubmitLocked, TypeOK, Version,
         JobShape, VersionOrder, Working, queueVars, futureVars, jobVars, lifeVars
  <2>4. FullCovers'
    BY <1>15 DEF RecordFailure, SubmitLocked, TypeOK, JobShape, FullCovers,
         NoLostWrite, Stale, Covered, Working, Done, queueVars, futureVars, jobVars, lifeVars
  <2>5. NoLostWrite'
    BY <1>15 DEF RecordFailure, SubmitLocked, TypeOK, JobShape, FullCovers,
         NoLostWrite, Stale, Covered, Working, queueVars, futureVars, jobVars, lifeVars
  <2>6. NoSilentStall'
    BY <1>15 DEF RecordFailure, SubmitLocked, TypeOK, JobShape, NoSilentStall,
         Done, Debt, Working, queueVars, futureVars, jobVars, lifeVars
  <2>7. ShutdownCancelSticks'
    BY <1>15 DEF RecordFailure, SubmitLocked, TypeOK,
         ShutdownCancelSticks, queueVars, futureVars, jobVars, lifeVars
  <2>8. StoppedShape'
    BY <1>15 DEF RecordFailure, SubmitLocked, TypeOK, StoppedShape,
         JobShape, Done, Working, FutureState, queueVars, futureVars, jobVars, lifeVars
  <2> QED
    BY <2>1, <2>2, <2>3, <2>4, <2>5, <2>6, <2>7, <2>8
<1>16. CASE RecordSuccess
  <2>1. TypeOK'
    BY <1>16, RecordSuccessType
  <2>2. JobShape'
    BY <1>16 DEF RecordSuccess, SubmitLocked, TypeOK, JobShape,
         RunState, Working, Done, queueVars, futureVars, jobVars, lifeVars
  <2>3. VersionOrder'
    BY <1>16 DEF RecordSuccess, SubmitLocked, TypeOK, Version,
         JobShape, VersionOrder, Working, queueVars, futureVars, jobVars, lifeVars
  <2>4. FullCovers'
    BY <1>16 DEF RecordSuccess, SubmitLocked, TypeOK, JobShape, FullCovers,
         NoLostWrite, Stale, Covered, Working, Done, queueVars, futureVars, jobVars, lifeVars
  <2>5. NoLostWrite'
    BY <1>16 DEF RecordSuccess, SubmitLocked, TypeOK, JobShape, FullCovers,
         NoLostWrite, Stale, Covered, Working, queueVars, futureVars, jobVars, lifeVars
  <2>6. NoSilentStall'
    BY <1>16 DEF RecordSuccess, SubmitLocked, TypeOK, JobShape, NoSilentStall,
         Done, Debt, Working, queueVars, futureVars, jobVars, lifeVars
  <2>7. ShutdownCancelSticks'
    BY <1>16 DEF RecordSuccess, SubmitLocked, TypeOK,
         ShutdownCancelSticks, queueVars, futureVars, jobVars, lifeVars
  <2>8. StoppedShape'
    BY <1>16 DEF RecordSuccess, SubmitLocked, TypeOK, StoppedShape,
         JobShape, Done, Working, FutureState, queueVars, futureVars, jobVars, lifeVars
  <2> QED
    BY <2>1, <2>2, <2>3, <2>4, <2>5, <2>6, <2>7, <2>8
<1>17. CASE ShutdownRequested
  <2>1. TypeOK'
    <3>1. /\ closed' = TRUE /\ cancel' = TRUE /\ fullRequested' = FALSE /\ followUp' = FALSE /\ pending' = {}
          /\ UNCHANGED <<vault, index, unqueued, fullRequired, future, callback, lastError, jobVars,
                         started, stopped, restarts, hasSyncPaths>>
      BY <1>17 DEF ShutdownRequested
    <3> QED
      BY <3>1 DEF TypeOK, jobVars
  <2>2. JobShape'
    BY <1>17 DEF ShutdownRequested, TypeOK, JobShape,
         RunState, Working, Done, queueVars, futureVars, jobVars, lifeVars
  <2>3. VersionOrder'
    BY <1>17 DEF ShutdownRequested, TypeOK, Version,
         JobShape, VersionOrder, Working, queueVars, futureVars, jobVars, lifeVars
  <2>4. FullCovers'
    BY <1>17 DEF ShutdownRequested, TypeOK, JobShape, FullCovers,
         NoLostWrite, Stale, Covered, Working, Done, queueVars, futureVars, jobVars, lifeVars
  <2>5. NoLostWrite'
    BY <1>17 DEF ShutdownRequested, TypeOK, JobShape, FullCovers,
         NoLostWrite, Stale, Covered, Working, queueVars, futureVars, jobVars, lifeVars
  <2>6. NoSilentStall'
    BY <1>17 DEF ShutdownRequested, TypeOK, JobShape, NoSilentStall,
         Done, Debt, Working, queueVars, futureVars, jobVars, lifeVars
  <2>7. ShutdownCancelSticks'
    BY <1>17 DEF ShutdownRequested, TypeOK,
         ShutdownCancelSticks, queueVars, futureVars, jobVars, lifeVars
  <2>8. StoppedShape'
    BY <1>17 DEF ShutdownRequested, TypeOK, StoppedShape,
         JobShape, Done, Working, FutureState, queueVars, futureVars, jobVars, lifeVars
  <2> QED
    BY <2>1, <2>2, <2>3, <2>4, <2>5, <2>6, <2>7, <2>8
<1>18. CASE CancelSubmitted
  BY <1>18 DEF CancelSubmitted, TypeOK, JobShape, VersionOrder, FullCovers, NoLostWrite,
         NoSilentStall, ShutdownCancelSticks, StoppedShape, Version, FutureState,
         RunState, Done, Debt, Working, Stale, Covered, queueVars, futureVars,
         jobVars, lifeVars
<1>19. CASE ShutdownReturns
  <2>1. TypeOK'
    BY <1>19 DEF ShutdownReturns, TypeOK, Version,
         FutureState, RunState, queueVars, futureVars, jobVars, lifeVars
  <2>2. JobShape'
    BY <1>19 DEF ShutdownReturns, TypeOK, JobShape,
         RunState, Working, Done, queueVars, futureVars, jobVars, lifeVars
  <2>3. VersionOrder'
    BY <1>19 DEF ShutdownReturns, TypeOK, Version,
         JobShape, VersionOrder, Working, queueVars, futureVars, jobVars, lifeVars
  <2>4. FullCovers'
    BY <1>19 DEF ShutdownReturns, TypeOK, JobShape, FullCovers,
         NoLostWrite, Stale, Covered, Working, Done, queueVars, futureVars, jobVars, lifeVars
  <2>5. NoLostWrite'
    BY <1>19 DEF ShutdownReturns, TypeOK, JobShape, FullCovers,
         NoLostWrite, Stale, Covered, Working, queueVars, futureVars, jobVars, lifeVars
  <2>6. NoSilentStall'
    BY <1>19 DEF ShutdownReturns, TypeOK, JobShape, NoSilentStall,
         Done, Debt, Working, queueVars, futureVars, jobVars, lifeVars
  <2>7. ShutdownCancelSticks'
    BY <1>19 DEF ShutdownReturns, TypeOK,
         ShutdownCancelSticks, queueVars, futureVars, jobVars, lifeVars
  <2>8. StoppedShape'
    BY <1>19 DEF ShutdownReturns, TypeOK, StoppedShape,
         JobShape, Done, Working, FutureState, queueVars, futureVars, jobVars, lifeVars
  <2> QED
    BY <2>1, <2>2, <2>3, <2>4, <2>5, <2>6, <2>7, <2>8
<1>20. CASE Restart
  <2>1. TypeOK'
    <3>1. restarts' \in 0..MaxRestarts
      BY <1>20 DEF Restart, TypeOK
    <3> QED
      BY <1>20, <3>1 DEF Restart, TypeOK, FutureState, RunState
  <2>2. JobShape'
    BY <1>20 DEF Restart, TypeOK, JobShape,
         RunState, Working, Done, queueVars, futureVars, jobVars, lifeVars
  <2>3. VersionOrder'
    BY <1>20 DEF Restart, TypeOK, Version,
         JobShape, VersionOrder, Working, queueVars, futureVars, jobVars, lifeVars
  <2>4. FullCovers'
    BY <1>20 DEF Restart, TypeOK, JobShape, FullCovers,
         NoLostWrite, Stale, Covered, Working, Done, queueVars, futureVars, jobVars, lifeVars
  <2>5. NoLostWrite'
    BY <1>20 DEF Restart, TypeOK, JobShape, FullCovers,
         NoLostWrite, Stale, Covered, Working, queueVars, futureVars, jobVars, lifeVars
  <2>6. NoSilentStall'
    BY <1>20 DEF Restart, TypeOK, JobShape, NoSilentStall,
         Done, Debt, Working, queueVars, futureVars, jobVars, lifeVars
  <2>7. ShutdownCancelSticks'
    BY <1>20 DEF Restart, TypeOK,
         ShutdownCancelSticks, queueVars, futureVars, jobVars, lifeVars
  <2>8. StoppedShape'
    BY <1>20 DEF Restart, TypeOK, StoppedShape,
         JobShape, Done, Working, FutureState, queueVars, futureVars, jobVars, lifeVars
  <2> QED
    BY <2>1, <2>2, <2>3, <2>4, <2>5, <2>6, <2>7, <2>8
<1>21. CASE UNCHANGED vars
  BY <1>21 DEF vars, TypeOK, JobShape, VersionOrder, FullCovers, NoLostWrite,
         NoSilentStall, ShutdownCancelSticks, StoppedShape, Done, Debt, Working,
         Stale, Covered, queueVars, futureVars, jobVars, lifeVars
<1> QED
  BY <1>1, <1>2, <1>3, <1>4, <1>5, <1>6, <1>7, <1>8, <1>9, <1>10, <1>11, <1>12, <1>13, <1>14, <1>15, <1>16, <1>17, <1>18, <1>19, <1>20, <1>21 DEF Next, WorkerStep, CallbackStep

\* The inductive invariant holds throughout: the strengthening that the
\* theorems below read off.
THEOREM Inductive == Spec => []IndInv
<1>1. Init => IndInv
  BY InitEstablishes
<1>2. IndInv /\ [Next]_vars => IndInv'
  BY StepPreserves
<1> QED
  BY <1>1, <1>2, PTL DEF Spec

\* The state of the indexer keeps its shape.
THEOREM TypeCorrect == Spec => []TypeOK
<1>1. IndInv => TypeOK
  BY DEF IndInv
<1> QED
  BY <1>1, Inductive, PTL

\* No committed note write is ever forgotten by an open indexer.
THEOREM NoWriteIsLost == Spec => []NoLostWrite
<1>1. IndInv => NoLostWrite
  BY DEF IndInv
<1> QED
  BY <1>1, Inductive, PTL

\* Work that is owed is being worked on, is about to be, or has left an error.
THEOREM NeverStallsSilently == Spec => []NoSilentStall
<1>1. IndInv => NoSilentStall
  BY DEF IndInv
<1> QED
  BY <1>1, Inductive, PTL

\* Together: no committed write is forgotten, and none rests in silence.
THEOREM WritesAreAccounted == Spec => []WritesAccounted
<1>1. NoLostWrite /\ NoSilentStall => WritesAccounted
  BY DEF WritesAccounted
<1> QED
  BY <1>1, NoWriteIsLost, NeverStallsSilently, PTL

\* Once shutdown() has set the cancel event no submission clears it.
THEOREM CancellationSticks == Spec => []ShutdownCancelSticks
<1>1. IndInv => ShutdownCancelSticks
  BY DEF IndInv
<1> QED
  BY <1>1, Inductive, PTL

\* A committed batch is an abstract refresh: the owner is serving and every row
\* moves to a version between its old one and the note's.
LEMMA CommitRefreshes == ASSUME IndInv, CommitBatch PROVE Promise!AbsRefresh
<1>1. started /\ ~stopped
  BY DEF IndInv, CommitBatch, JobShape, StoppedShape, Working, Done, lifeVars
<1>2. \A p \in Paths : index'[p] \in Version /\ index[p] <= index'[p] /\ index'[p] <= vault[p]
  BY BackgroundIndexerAssumption
     DEF IndInv, TypeOK, Version, VersionOrder, CommitBatch
<1>3. index' = [p \in Paths |-> index'[p]]
  BY DEF CommitBatch
<1>4. index' \in [Paths -> Promise!Version]
  BY <1>2, <1>3 DEF Promise!Version, Version
<1> QED
  BY <1>1, <1>2, <1>4 DEF Promise!AbsRefresh, CommitBatch, lifeVars

\* The indexer implements MarkdownIndex: the index only follows the vault, and
\* only between start() and the return of shutdown().
THEOREM ImplementsPromise == Spec => IndexPromise
<1>1. Init => Promise!AbsInit
  BY DEF Init, FreshProcess, Promise!AbsInit
<1>2. IndInv /\ [Next]_vars => [Promise!AbsNext]_(Promise!absVars)
  <2> SUFFICES ASSUME IndInv, [Next]_vars
               PROVE  Promise!AbsNext \/ UNCHANGED Promise!absVars
    OBVIOUS
  <2> USE DEF Promise!absVars
  <2>1. CASE \E p \in Paths : Write(p)
    <3> PICK p \in Paths : Write(p)
      BY <2>1
    <3>1. Promise!AbsWrite(p)
      BY DEF Write, Promise!AbsWrite, lifeVars
    <3> QED
      BY <3>1 DEF Promise!AbsNext
  <2>2. CASE CommitBatch
    BY <2>2, CommitRefreshes DEF Promise!AbsNext
  <2>3. CASE Start \/ ShutdownReturns \/ Restart
    <3>1. UNCHANGED <<vault, index>>
      BY <2>3 DEF Start, ShutdownReturns, Restart
    <3>2. started \in BOOLEAN /\ stopped \in BOOLEAN /\ started' \in BOOLEAN /\ stopped' \in BOOLEAN
      BY StepPreserves DEF IndInv, TypeOK
    <3> QED
      BY <3>1, <3>2 DEF Promise!AbsNext, Promise!AbsStartOrStop
  <2>4. CASE \/ \E ps \in SUBSET Paths \ {{}} : EnqueuePaths(ps)
             \/ WaitResubmits \/ RunBegins \/ ClaimFull \/ ClaimTargeted \/ ClaimNothing
             \/ JobSucceeds \/ RunEnds \/ JobFails \/ CallbackStep
             \/ ShutdownRequested \/ CancelSubmitted
             \/ \E p \in Paths : ReadNote(p)
    BY <2>4 DEF EnqueuePaths, WaitResubmits, RunBegins, ClaimFull, ClaimTargeted, ClaimNothing,
         JobSucceeds, RunEnds, JobFails, CallbackStep, AttachCallback, RecordFailure,
         RecordSuccess, ShutdownRequested, CancelSubmitted, ReadNote, lifeVars
  <2>5. CASE UNCHANGED vars
    BY <2>5 DEF vars, lifeVars
  <2> QED
    BY <2>1, <2>2, <2>3, <2>4, <2>5 DEF Next, WorkerStep
<1> QED
  BY <1>1, <1>2, Inductive, PTL DEF Spec, IndexPromise, Promise!AbsSpec

=============================================================================

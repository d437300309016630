-------------------------- MODULE EmbeddingResource --------------------------
(***************************************************************************)
(* app/services/semantic_resources.py: SharedEmbeddingResource, one        *)
(* embedding model shared by every semantic owner.  A pipeline pins the    *)
(* current generation, leases the backend for each call, and unpins; an    *)
(* invalidation blocks new pins, waits until the last pin is gone and then *)
(* releases the model outside the lock; close() does the same for good.    *)
(*                                                                         *)
(* Each action is one block under self._condition.  A wait(0.05) loop is a *)
(* state in which the thread polls: its next action is enabled whenever    *)
(* the loop would go on.  Nested pins change only the thread's own depth   *)
(* and are left out; a thread pins at most once, so the counter _pins is   *)
(* the set of threads that hold a pin.                                     *)
(***************************************************************************)
EXTENDS Integers

CONSTANTS Threads,       \* threads of pipelines, maintenance and shutdown
          NoThread,      \* not a thread
          MaxReleases    \* bound: releases of the model in a model

ASSUME EmbeddingResourceAssumption ==
    /\ NoThread \notin Threads
    /\ MaxReleases \in Nat

VARIABLES
    pc,              \* where each thread stands
    pins,            \* threads counted by _pins
    pinned,          \* _local.generation of each thread
    busy,            \* the thread that holds the lease (_busy), or NoThread
    generation, invalidating, cleaning, cleanupFailed, cleanupRevision,
    closing, closed,
    revision,        \* the local "revision" of close()
    loaded,          \* the backend holds a model in memory
    failedGen        \* newest generation whose backend raised, -1 before any

cleanupVars == <<cleaning, cleanupFailed, cleanupRevision, generation, closed>>
vars == <<pc, pins, pinned, busy, invalidating, closing, revision, loaded, failedGen,
          cleanupVars>>

Holding == {"pinned", "leasing", "calling", "failing"}
Pc == {"out", "entering", "releasing", "invalidateWait", "closeWait"} \cup Holding

TypeOK ==
    /\ pc \in [Threads -> Pc]
    /\ pins \in SUBSET Threads
    /\ pinned \in [Threads -> Nat]
    /\ busy \in Threads \cup {NoThread}
    /\ generation \in Nat /\ cleanupRevision \in Nat
    /\ invalidating \in BOOLEAN /\ cleaning \in BOOLEAN /\ cleanupFailed \in BOOLEAN
    /\ closing \in BOOLEAN /\ closed \in BOOLEAN
    /\ revision \in [Threads -> Nat]
    /\ loaded \in BOOLEAN
    /\ failedGen \in Int

Init ==
    /\ pc = [t \in Threads |-> "out"]
    /\ pins = {} /\ busy = NoThread
    /\ pinned = [t \in Threads |-> 0]
    /\ revision = [t \in Threads |-> 0]
    /\ generation = 0 /\ cleanupRevision = 0 /\ failedGen = -1
    /\ invalidating = FALSE /\ cleaning = FALSE /\ cleanupFailed = FALSE
    /\ closing = FALSE /\ closed = FALSE /\ loaded = FALSE

Open == ~closing /\ ~cleanupFailed                    \* _check_open
MayInvalidate == cleanupRevision < MaxReleases        \* the bound

Goto(t, place) == pc' = [pc EXCEPT ![t] = place]
-----------------------------------------------------------------------------
(* operation(): entering.                                                  *)
Enter(t) ==
    /\ pc[t] = "out"
    /\ Goto(t, "entering")
    /\ UNCHANGED <<pins, pinned, busy, invalidating, closing, revision, loaded,
                   failedGen, cleanupVars>>

\* _check_open or the caller's check() raises, or "expected" is another
\* generation than the current one.
EnterRaises(t) ==
    /\ pc[t] = "entering"
    /\ Goto(t, "out")
    /\ UNCHANGED <<pins, pinned, busy, invalidating, closing, revision, loaded,
                   failedGen, cleanupVars>>

Pin(t) ==
    /\ pc[t] = "entering"
    /\ ~invalidating /\ Open
    /\ pins' = pins \cup {t}
    /\ pinned' = [pinned EXCEPT ![t] = generation]
    /\ Goto(t, "pinned")
    /\ UNCHANGED <<busy, invalidating, closing, revision, loaded, failedGen, cleanupVars>>

(* _call(): the backend lease, taken and returned under a pin.             *)
WantLease(t) ==
    /\ pc[t] = "pinned"
    /\ Goto(t, "leasing")
    /\ UNCHANGED <<pins, pinned, busy, invalidating, closing, revision, loaded,
                   failedGen, cleanupVars>>

LeaseRaises(t) ==
    /\ pc[t] = "leasing"
    /\ Goto(t, "pinned")
    /\ UNCHANGED <<pins, pinned, busy, invalidating, closing, revision, loaded,
                   failedGen, cleanupVars>>

Lease(t) ==
    /\ pc[t] = "leasing"
    /\ busy = NoThread /\ Open
    /\ busy' = t
    /\ Goto(t, "calling")
    /\ UNCHANGED <<pins, pinned, invalidating, closing, revision, loaded,
                   failedGen, cleanupVars>>

\* _get_backend creates the backend and the call loads its model.
CallReturns(t) ==
    /\ pc[t] = "calling"
    /\ loaded' = TRUE
    /\ busy' = NoThread
    /\ Goto(t, "pinned")
    /\ UNCHANGED <<pins, pinned, invalidating, closing, revision, failedGen, cleanupVars>>

\* The backend or its cache directory failed: first block under the lock.
CallFails(t) ==
    /\ pc[t] = "calling"
    /\ MayInvalidate
    /\ loaded' \in BOOLEAN
    /\ failedGen' = generation
    /\ invalidating' = TRUE
    /\ Goto(t, "failing")
    /\ UNCHANGED <<pins, pinned, busy, closing, revision, cleanupVars>>

\* Its finally block.
LeaseReturned(t) ==
    /\ pc[t] = "failing"
    /\ busy' = NoThread
    /\ Goto(t, "pinned")
    /\ UNCHANGED <<pins, pinned, invalidating, closing, revision, loaded,
                   failedGen, cleanupVars>>

\* invalidate_embedding_compatibility_cache() inside a pipeline: deferred.
InvalidateInside(t) ==
    /\ pc[t] = "pinned"
    /\ MayInvalidate /\ Open
    /\ invalidating' = TRUE
    /\ UNCHANGED <<pc, pins, pinned, busy, closing, revision, loaded, failedGen, cleanupVars>>

\* Mutant: a release may start while pipelines are still pinned.
ReserveIgnoringPins(t, remaining) ==
    /\ ~cleaning /\ invalidating'
    /\ cleaning' = TRUE
    /\ Goto(t, "releasing")
    /\ UNCHANGED <<cleanupFailed, cleanupRevision, generation, closed>>

\* _reserve_cleanup() answers True, for a thread that then releases.
Reserve(t, remaining) ==
    /\ remaining = {} /\ ~cleaning /\ invalidating'
    /\ cleaning' = TRUE
    /\ Goto(t, "releasing")
    /\ UNCHANGED <<cleanupFailed, cleanupRevision, generation, closed>>

\* _reserve_cleanup() answers False.
NoReserve(t, remaining, place) ==
    /\ remaining # {} \/ cleaning \/ ~invalidating'
    /\ Goto(t, place)
    /\ UNCHANGED cleanupVars

\* Mutant: leaving a pipeline does not take over a deferred release.
UnpinOnly(t) ==
    /\ pc[t] = "pinned"
    /\ pins' = pins \ {t}
    /\ UNCHANGED invalidating
    /\ Goto(t, "out")
    /\ UNCHANGED <<pinned, busy, closing, revision, loaded, failedGen, cleanupVars>>

(* operation(): leaving.                                                   *)
Unpin(t) ==
    /\ pc[t] = "pinned"
    /\ pins' = pins \ {t}
    /\ UNCHANGED invalidating
    /\ Reserve(t, pins \ {t}) \/ NoReserve(t, pins \ {t}, "out")
    /\ UNCHANGED <<pinned, busy, closing, revision, loaded, failedGen>>
-----------------------------------------------------------------------------
(* invalidate_embedding_compatibility_cache() from outside any pipeline.   *)
Invalidate(t) ==
    /\ pc[t] = "out"
    /\ MayInvalidate /\ Open
    /\ invalidating' = TRUE
    /\ Reserve(t, pins) \/ NoReserve(t, pins, "invalidateWait")
    /\ UNCHANGED <<pins, pinned, busy, closing, revision, loaded, failedGen>>

InvalidateReturns(t) ==
    /\ pc[t] = "invalidateWait" /\ ~invalidating
    /\ Goto(t, "out")
    /\ UNCHANGED <<pins, pinned, busy, invalidating, closing, revision, loaded,
                   failedGen, cleanupVars>>

(* _release_generation(): the backend released its model, or raised (a     *)
(* backend never created has nothing to release; failing then is harmless). *)
ReleaseSucceeds(t) ==
    /\ pc[t] = "releasing"
    /\ loaded' = FALSE
    /\ cleanupFailed' = FALSE
    /\ cleanupRevision' = cleanupRevision + 1
    /\ generation' = generation + 1
    /\ cleaning' = FALSE /\ invalidating' = FALSE
    /\ closed' = (closed \/ closing)
    /\ Goto(t, "out")
    /\ UNCHANGED <<pins, pinned, busy, closing, revision, failedGen>>

ReleaseFails(t) ==
    /\ pc[t] = "releasing"
    /\ loaded' \in {loaded, FALSE}
    /\ cleanupFailed' = TRUE
    /\ cleanupRevision' = cleanupRevision + 1
    /\ cleaning' = FALSE /\ invalidating' = FALSE
    /\ Goto(t, "out")
    /\ UNCHANGED <<pins, pinned, busy, closing, closed, revision, failedGen, generation>>

(* close(), up to its first wait; a closed resource returns at once.       *)
Close(t) ==
    /\ pc[t] = "out" /\ ~closed
    /\ MayInvalidate
    /\ closing' = TRUE
    /\ revision' = [revision EXCEPT ![t] = cleanupRevision]
    /\ invalidating' = TRUE
    /\ Reserve(t, pins) \/ NoReserve(t, pins, "closeWait")
    /\ UNCHANGED <<pins, pinned, busy, loaded, failedGen>>

\* The loop of close(): someone else released, or someone else's release
\* failed.  The _reserve_cleanup() of the loop never succeeds: whoever unpins
\* last has reserved in the same block, so there is no action for it, and
\* DrainTerminates would fail if one were needed.
CloseReturns(t) ==
    /\ pc[t] = "closeWait"
    /\ closed \/ (revision[t] # cleanupRevision /\ cleanupFailed)
    /\ Goto(t, "out")
    /\ UNCHANGED <<pins, pinned, busy, invalidating, closing, revision, loaded,
                   failedGen, cleanupVars>>

\* What a thread that has entered does until it is out again.
Proceed(t) ==
    \/ EnterRaises(t) \/ Pin(t)
    \/ LeaseRaises(t) \/ Lease(t)
    \/ CallReturns(t) \/ CallFails(t) \/ LeaseReturned(t)
    \/ Unpin(t)
    \/ InvalidateReturns(t)
    \/ ReleaseSucceeds(t) \/ ReleaseFails(t)
    \/ CloseReturns(t)

Next ==
    \E t \in Threads :
        Enter(t) \/ WantLease(t) \/ InvalidateInside(t) \/ Invalidate(t) \/ Close(t) \/ Proceed(t)

Spec == Init /\ [][Next]_vars

(* Threads are scheduled and backend calls end; a pipeline does not lease  *)
(* for ever (its work is finite), so it unpins.                            *)
Fairness ==
    \A t \in Threads : WF_vars(Proceed(t)) /\ SF_vars(Unpin(t))

FairSpec == Spec /\ Fairness
-----------------------------------------------------------------------------
(* Properties.                                                             *)

\* A pinned pipeline works with one generation from its first to its last
\* call, whatever invalidations and shutdowns are requested meanwhile.
PinnedGenerationStable == \A t \in pins : pinned[t] = generation

\* The model is released by one thread, while nobody is pinned to it or calls
\* it: the release runs outside the lock and has only the flags to protect it.
ReleaseExclusive ==
    \A t \in Threads : pc[t] = "releasing" =>
        /\ pins = {} /\ busy = NoThread
        /\ \A u \in Threads : pc[u] = "releasing" => u = t

\* A model that has failed a call serves no pipeline that enters afterwards:
\* entering gets a newer generation or an error.
FailedModelNotReused ==
    [][\A t \in Threads : t \in pins' \ pins => pinned'[t] > failedGen]_vars

\* Once closed, the model is out of memory, nobody holds a pin or releases, and
\* no late pipeline, invalidation or close() ever brings it back.
ClosedIsFinal ==
    closed => ~loaded /\ pins = {} /\ busy = NoThread /\ ~cleaning /\ ~invalidating

\* Where the flags stand for each place of the threads.
FlagsMatchThreads ==
    /\ pins = {t \in Threads : pc[t] \in Holding}
    /\ \A t \in Threads : busy = t <=> pc[t] \in {"calling", "failing"}
    /\ cleaning <=> \E t \in Threads : pc[t] = "releasing"
    /\ cleaning => invalidating /\ pins = {}
    /\ closed => closing
    /\ closing /\ ~closed => invalidating \/ cleanupFailed
    /\ failedGen <= generation
    /\ failedGen = generation => invalidating \/ cleanupFailed
    /\ cleanupFailed => pins = {}

ResourceInv ==
    TypeOK /\ FlagsMatchThreads /\ PinnedGenerationStable /\ ReleaseExclusive /\ ClosedIsFinal

\* close() comes to an end, and so does an invalidation: the pipelines already
\* inside drain because nobody new gets in, and somebody then releases.
DrainTerminates ==
    \A t \in Threads : pc[t] \in {"closeWait", "invalidateWait"} ~> pc[t] = "out"

(* Uses and releases of the model keep apart: a pinned pipeline sees one   *)
(* generation to its end, and a release has the resource for itself.       *)
GenerationsSeparated == PinnedGenerationStable /\ ReleaseExclusive
=============================================================================

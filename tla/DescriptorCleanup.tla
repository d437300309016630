-------------------------- MODULE DescriptorCleanup --------------------------
(***************************************************************************)
(* Disposal of one owned native descriptor (POSIX) or handle (Windows), as *)
(* core/resource_cleanup.py does it: a lease in a registry, the release    *)
(* evidence of the descriptor and of the guard duplicated from it at close *)
(* time, and the process-wide descriptor table in which other code may     *)
(* reuse a number the moment it is free.                                   *)
(*                                                                         *)
(* One lease at a time: a lease that failed fences the registry, so the    *)
(* next allocation waits until the previous one is forgotten.  Errors are  *)
(* not modelled as values: a release that raises and one that returns      *)
(* differ only in the state they leave, which is what the registry probes. *)
(***************************************************************************)
EXTENDS Naturals

CONSTANTS Numbers,      \* descriptor numbers the process may hand out
          Unknown,      \* a number the owner does not know
          LooksPerCredit    \* native looks set aside for one disposal (8)

(* The code sets 8 looks aside. *)
ASSUME CleanupAssumption ==
    Unknown \notin Numbers /\ LooksPerCredit \in Nat /\ LooksPerCredit >= 8

Parts == {"primary", "guard"}

VARIABLES
    adapter,     \* "descriptor" (DescriptorState) or "handle" (_HandleState)
    table,       \* who holds each number; a "twin" opened the same file
    evidence,    \* ReleaseEvidence.state of each part
    number,      \* the numbers the owner knows of each part
    released,    \* descriptor_released/released and guard_released
    lease,       \* the registry: "none", "held" or "failed"
    disposal,    \* the release under way: <<step, part>>
    looks,       \* cleanup probes made by the release under way
    misclosed    \* history: a close reached a number the owner did not hold

cleanupVars == <<adapter, table, evidence, number, released, lease, disposal, looks, misclosed>>

Idle == <<"idle", "primary">>
Begun == <<"enter", "primary">>

(* _fd_absent accepts nothing but EBADF; _descriptor_current also compares
   the file's identity, which a twin shares; a handle is valid or it is not. *)
FdAbsent(part) == table[number[part]] = "free"
DescriptorCurrent == table[number["primary"]] \in {"primary", "twin"}
HandleValid(part) == table[number[part]] # "free"

Absent(part) ==
    CASE adapter = "handle" -> ~HandleValid(part)
      [] adapter = "descriptor" /\ part = "guard" -> FdAbsent(part)
      [] OTHER -> ~DescriptorCurrent

NewEvidence == [p \in Parts |-> "owned_open"]
NewNumbers == [p \in Parts |-> Unknown]
NewReleased == [p \in Parts |-> FALSE]

CleanupInit ==
    /\ adapter \in {"descriptor", "handle"}
    /\ table = [n \in Numbers |-> "free"]
    /\ evidence = NewEvidence /\ number = NewNumbers /\ released = NewReleased
    /\ lease = "none" /\ disposal = Idle /\ looks = 0 /\ misclosed = FALSE

----------------------------------------------------------------------------
(* An allocation returns a number, is refused without effect (NoAllocation),
   or is interrupted and its number, if there is one, is lost. *)

Allocate(part, n) ==
    /\ table[n] = "free"
    /\ table' = [table EXCEPT ![n] = part]

Returns(part) ==
    /\ \E n \in Numbers : Allocate(part, n) /\ number' = [number EXCEPT ![part] = n]
    /\ evidence' = [evidence EXCEPT ![part] = "owned_open"]

Interrupted(part) ==
    /\ \/ UNCHANGED table
       \/ \E n \in Numbers : Allocate(part, n)
    /\ UNCHANGED number

(* Both failures release the published lease at once, before raising. *)
Acquire ==
    /\ disposal = Idle /\ lease = "none"
    /\ lease' = "held"
    /\ \/ Returns("primary") /\ UNCHANGED disposal
       \/ /\ evidence' = [evidence EXCEPT !["primary"] = "verified_released"]
          /\ disposal' = Begun
          /\ UNCHANGED <<table, number>>
       \/ /\ Interrupted("primary")
          /\ evidence' = [evidence EXCEPT !["primary"] = "ambiguous"]
          /\ disposal' = Begun
    /\ UNCHANGED <<adapter, released, looks, misclosed>>

OpenDescriptor == adapter = "descriptor" /\ Acquire
AcquireHandle == adapter = "handle" /\ Acquire

(* The owner's context exit, or drain with retry after a failure. *)
BeginRelease ==
    /\ disposal = Idle /\ lease \in {"held", "failed"}
    /\ disposal' = Begun
    /\ UNCHANGED <<adapter, table, evidence, number, released, lease, looks, misclosed>>

----------------------------------------------------------------------------
(* A released primary goes on to its guard, also behind an error. *)
Ends(part, outcome) ==
    /\ evidence' = [evidence EXCEPT ![part] = outcome]
    /\ released' = [released EXCEPT ![part] = outcome = "verified_released"]
    /\ disposal' = IF part = "primary" /\ outcome = "verified_released"
                   THEN <<"enter", "guard">> ELSE <<"probe", "guard">>

(* A part whose number the owner never learnt, or that is already gone. *)
NothingToClose(part) ==
    /\ disposal = <<"enter", part>>
    /\ number[part] = Unknown \/ released[part]
    /\ IF evidence[part] = "ambiguous"
       THEN disposal' = <<"probe", "guard">> /\ UNCHANGED released
       ELSE /\ released' = [released EXCEPT ![part] = TRUE]
            /\ disposal' = IF part = "primary" THEN <<"enter", "guard">> ELSE <<"probe", "guard">>
    /\ UNCHANGED <<adapter, table, evidence, number, lease, looks, misclosed>>

Looked(times) == looks' = looks + times

Entered(part) ==
    /\ disposal = <<"enter", part>>
    /\ number[part] # Unknown /\ ~released[part]
    /\ UNCHANGED <<adapter, lease, misclosed>>

(* ReleaseEvidence.run up to the dispatch: absent, ambiguous and still there,
   or a look or preparation that raised before anything was dispatched. *)
RunFindsAbsent(part) ==
    /\ Entered(part)
    /\ Absent(part)
    /\ Ends(part, "verified_released")
    /\ Looked(1)
    /\ UNCHANGED <<table, number>>

RunStaysAmbiguous(part) ==
    /\ Entered(part)
    /\ evidence[part] = "ambiguous" /\ ~Absent(part)
    /\ Ends(part, "ambiguous")
    /\ Looked(1)
    /\ UNCHANGED <<table, number>>

RunCannotPrepare(part) ==
    /\ Entered(part)
    /\ evidence[part] # "ambiguous"
    /\ Ends(part, "verified_safe_to_retry")
    /\ Looked(2)
    /\ UNCHANGED <<table, number>>

(* prepare: before a primary is closed its guard must exist.  A guard whose
   allocation was interrupted, or refused, keeps the primary open.  Only the
   Windows call can leave the number behind when it is interrupted. *)
Prepares ==
    /\ Entered("primary")
    /\ evidence["primary"] # "ambiguous" /\ ~Absent("primary")
    /\ number["guard"] = Unknown /\ evidence["guard"] # "ambiguous"

GuardUnavailable(guard) ==
    /\ evidence' = [evidence EXCEPT !["primary"] = "verified_safe_to_retry", !["guard"] = guard]
    /\ disposal' = <<"probe", "guard">>
    /\ Looked(3)
    /\ UNCHANGED released

PrepareGuard ==
    /\ Prepares
    /\ \/ Returns("guard") /\ Looked(1) /\ UNCHANGED <<released, disposal>>
       \/ GuardUnavailable("verified_released") /\ UNCHANGED <<table, number>>
       \/ GuardUnavailable("ambiguous") /\ Interrupted("guard")

DuplicateHandle ==
    /\ Prepares /\ adapter = "handle"
    /\ GuardUnavailable("ambiguous")
    /\ \E n \in Numbers : Allocate("guard", n) /\ number' = [number EXCEPT !["guard"] = n]

(* A plausible bug: an outcome nobody knows is retried like a clean failure. *)
MayCloseWhateverHappened(part) ==
    /\ ~Absent(part)
    /\ part = "primary" => number["guard"] # Unknown

MayClose(part) ==
    /\ evidence[part] # "ambiguous" /\ ~Absent(part)
    /\ part = "primary" => number["guard"] # Unknown

(* A normal return of the platform's own close, for the number expected. *)
NativeReceipt(part) ==
    /\ table' = [table EXCEPT ![number[part]] = "free"]
    /\ Ends(part, "verified_released")

(* The dispatch of the opaque close: with a native receipt it is verified,
   otherwise it may or may not have had its effect, and returned or raised. *)
Close(part) ==
    /\ disposal = <<"enter", part>>
    /\ number[part] # Unknown /\ ~released[part]
    /\ MayClose(part)
    /\ Looked(IF part = "guard" /\ adapter = "descriptor" THEN 1 ELSE 2)
    /\ misclosed' = (misclosed \/ table[number[part]] # part)
    /\ \/ NativeReceipt(part)
       \/ /\ UNCHANGED table \/ table' = [table EXCEPT ![number[part]] = "free"]
          /\ \/ /\ evidence' = [evidence EXCEPT ![part] = "release_in_progress"]
                /\ disposal' = <<"verify", part>>
             \/ /\ evidence' = [evidence EXCEPT ![part] = "ambiguous"]
                /\ disposal' = <<"recheck", part>>
          /\ UNCHANGED released
    /\ UNCHANGED <<adapter, number, lease>>

(* A return without receipt is believed only when the number is absent; the
   look may itself raise.  Then the evidence is ambiguous, and looked at once
   more, if the credit of the first disposal still pays for a look.  Other threads run between the close and each look. *)
Verify(part) ==
    /\ disposal = <<"verify", part>>
    /\ Looked(1)
    /\ \/ Absent(part) /\ Ends(part, "verified_released")
       \/ /\ evidence' = [evidence EXCEPT ![part] = "ambiguous"]
          /\ disposal' = <<"recheck", part>>
          /\ UNCHANGED released
    /\ UNCHANGED <<adapter, table, number, lease, misclosed>>

Recheck(part) ==
    /\ disposal = <<"recheck", part>>
    /\ Looked(1)
    /\ \/ looks < LooksPerCredit /\ Absent(part) /\ Ends(part, "verified_released")
       \/ Ends(part, "ambiguous")
    /\ UNCHANGED <<adapter, table, number, lease, misclosed>>

(* OwnedResources.release: the probe decides whether the lease is forgotten. *)
Probe ==
    /\ disposal = <<"probe", "guard">>
    /\ disposal' = Idle
    /\ looks' = 0
    /\ IF \A p \in Parts : released[p]
       THEN /\ lease' = "none"
            /\ evidence' = NewEvidence /\ number' = NewNumbers /\ released' = NewReleased
       ELSE lease' = "failed" /\ UNCHANGED <<evidence, number, released>>
    /\ UNCHANGED <<adapter, table, misclosed>>

----------------------------------------------------------------------------
(* The rest of the process opens and closes descriptors of its own. *)
Elsewhere ==
    /\ \E n \in Numbers :
          \/ table[n] = "free" /\ \E who \in {"twin", "other"} : table' = [table EXCEPT ![n] = who]
          \/ table[n] \in {"twin", "other"} /\ table' = [table EXCEPT ![n] = "free"]
    /\ UNCHANGED <<adapter, evidence, number, released, lease, disposal, looks, misclosed>>

ReleaseStep ==
    \/ PrepareGuard \/ DuplicateHandle
    \/ Probe
    \/ \E part \in Parts :
          \/ NothingToClose(part) \/ RunFindsAbsent(part) \/ RunStaysAmbiguous(part)
          \/ RunCannotPrepare(part) \/ Close(part) \/ Verify(part) \/ Recheck(part)

CleanupNext == OpenDescriptor \/ AcquireHandle \/ BeginRelease \/ ReleaseStep \/ Elsewhere

CleanupSpec == CleanupInit /\ [][CleanupNext]_cleanupVars

----------------------------------------------------------------------------
(* However a close fails and however the process reuses numbers meanwhile, no
   close is ever dispatched at a number that belongs to somebody else, and the
   registry forgets a lease only when neither its descriptor nor its guard,
   known or lost, is open any more. *)
NeverClosesForeign == ~misclosed

NothingLeaked == (\E n \in Numbers : table[n] \in Parts) => lease # "none"

(* The looks set aside when a descriptor is opened are enough to dispose of
   it and its guard, whatever fails.  (A Windows handle may need one more in
   the worst case: its guard's last look is then refused, and it stays.) *)
CreditSuffices == adapter = "descriptor" => looks <= LooksPerCredit

(* Whatever opens, closes and probes fail or stay unknown: no number is closed
   that somebody else has opened since, what stays open keeps a lease that
   answers for it, and the looks reserved at opening suffice for disposal. *)
DescriptorsAccounted == NeverClosesForeign /\ NothingLeaked /\ CreditSuffices
=============================================================================

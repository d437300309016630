-------------------------- MODULE ScopedPromotion --------------------------
(***************************************************************************)
(* app/services/_scoped_promotion.py over promotion.py and capture.py, the *)
(* grants of knowledge_spaces.py, and the admission every call of          *)
(* space_operations.py passes: one capture of one space is reviewed,       *)
(* decided about and promoted into one note, in separate calls, possibly   *)
(* of several callers, while users edit both notes and replace the space's *)
(* root, calls are cancelled, and the runtime is closed and composed again *)
(* with another policy.                                                    *)
(*                                                                         *)
(* A text is the number of the revision that made it, so two texts are the *)
(* same bytes exactly when the numbers are.  A decision stands for its     *)
(* digest and for the block or note it produces.  The writers' lock keeps  *)
(* other calls out, not the users: the checks of the source and of the     *)
(* destination, the write, the look at what it left and, when that or a    *)
(* system call failed, the second look are steps of their own.             *)
(***************************************************************************)
EXTENDS Integers

CONSTANTS Workflows,     \* callers; a workflow is a promotion id and its approved content
          Missing,       \* no note, no snapshot, no decision
          MaxUserEdits, MaxWorkflowCalls, MaxStartups

ASSUME PromotionAssumption == Missing \notin Workflows

VARIABLES
    runtime,     \* [startup, policy, stopped, bound]: the composed runtime
    root,        \* the identity of the directory at the space's root
    capture,     \* Missing or [rev, ours]: ours if it names this space (provenance version 2)
    target,      \* Missing or [rev, file, made, blocks, captured]: the note promoted
                 \* into; "file" is its identity, "made" the promotion whose whole text
                 \* it is, "blocks" those that are appended to it
    busy,        \* the workflow whose operation is admitted
    call,        \* per workflow, its current or last call
    holds,       \* per workflow, what its caller holds: [snapshot, seen, decision]
    revisions, userEdits, asked

placeVars == <<root, capture, target, revisions, userEdits>>
promotionVars == <<runtime, placeVars, busy, call, holds, asked>>

Operations == {"review", "inspect", "decide", "apply"}

\* KnowledgeSpacePolicy.__post_init__: nothing is written or indexed unread.
Policies == {p \in [read : BOOLEAN, write : BOOLEAN, indexing : BOOLEAN, promotes : BOOLEAN] :
               ~p.read => ~p.write /\ ~p.indexing}

IdleCall == [at |-> "idle", op |-> "review", startup |-> 0, cancelled |-> FALSE, source |-> 0,
           text |-> 0, file |-> 0, found |-> Missing, answer |-> "none", index |-> "none",
           wrote |-> Missing]
NothingHeld == [snapshot |-> Missing, seen |-> 0, decision |-> Missing]

PromotionInit ==
    /\ \E p \in Policies : runtime = [startup |-> 1, policy |-> p, stopped |-> FALSE, bound |-> 0]
    /\ root = 0 /\ capture = [rev |-> 1, ours |-> TRUE]
    /\ target \in {Missing, [rev |-> 2, file |-> 2, made |-> {}, blocks |-> {}, captured |-> FALSE]}
    /\ busy = Missing
    /\ call = [w \in Workflows |-> IdleCall] /\ holds = [w \in Workflows |-> NothingHeld]
    /\ revisions = 2 /\ userEdits = 0 /\ asked = 0
-----------------------------------------------------------------------------
Running(w, at) == busy = w /\ call[w].at = at
Becomes(w, at) == call' = [call EXCEPT ![w].at = at]
Concludes(w, answer) == call' = [call EXCEPT ![w].at = "leaving", ![w].answer = answer]

\* _OperationCancellation.check: the caller's own cancellation or the shutdown.
TokenFails(w) == call[w].cancelled \/ runtime.stopped \/ call[w].startup # runtime.startup

\* _select: writing asks for reading as well.
Selected(write) == runtime.policy.read /\ (write => runtime.policy.write)

\* authorize_read and, to apply, authorize_write.
Authorized(op) == Selected(op = "apply") /\ runtime.policy.promotes

\* _context and SpaceRegistry._accepts: only what this registry issued.
AcceptsWrapper(wrapper) == wrapper # Missing /\ wrapper.startup = runtime.startup

Presents(w, op) ==
    CASE op = "decide" -> AcceptsWrapper(holds[w].snapshot)
      [] op = "apply" -> AcceptsWrapper(holds[w].decision)
      [] OTHER -> TRUE

\* The grant, before admission.  A call that is refused here touches nothing.
Asks(w) ==
    /\ call[w].at = "idle" /\ asked < MaxWorkflowCalls
    /\ asked' = asked + 1
    /\ \E op \in Operations :
         /\ op = "decide" => holds[w].snapshot # Missing
         /\ op = "apply" => holds[w].decision # Missing
         /\ call' = [call EXCEPT ![w] =
                [IdleCall EXCEPT !.op = op, !.startup = runtime.startup,
                    !.at = IF Presents(w, op) /\ Authorized(op) THEN "asking" ELSE "idle",
                    !.answer = IF Presents(w, op) /\ Authorized(op) THEN "none" ELSE "denied"]]
    /\ UNCHANGED <<runtime, placeVars, busy, holds>>

\* ScopedOperationAdmission.operation: one at a time, and none once shutdown began.
Admitted(w) ==
    /\ call[w].at = "asking"
    /\ \/ /\ TokenFails(w)
          /\ call' = [call EXCEPT ![w].at = "idle", ![w].answer = "cancelled"]
          /\ UNCHANGED busy
       \/ /\ ~TokenFails(w) /\ busy = Missing
          /\ busy' = w /\ Becomes(w, "binding")
    /\ UNCHANGED <<runtime, placeVars, holds, asked>>

\* _owners: the root must be the directory the space was composed over.
Binds(w) ==
    /\ Running(w, "binding")
    /\ IF root # runtime.bound THEN Concludes(w, "unavailable") ELSE Becomes(w, "reading")
    /\ UNCHANGED <<runtime, placeVars, busy, holds, asked>>

\* PromotionService._capture: a capture of another space, or none, is unsafe.
Usable == capture # Missing /\ capture.ours
SourceIs(rev) == Usable /\ capture.rev = rev

\* review and inspect_destination; the caller receives what was read on leaving.
ReadsSource(w) ==
    /\ Running(w, "reading") /\ call[w].op = "review"
    /\ IF Usable
       THEN call' = [call EXCEPT ![w].at = "leaving", ![w].answer = "answered",
                                 ![w].found = [source |-> capture.rev, startup |-> runtime.startup]]
       ELSE Concludes(w, "unsafe_source")
    /\ UNCHANGED <<runtime, placeVars, busy, holds, asked>>

Inspects(w) ==
    /\ Running(w, "reading") /\ call[w].op = "inspect"
    /\ IF target = Missing THEN Concludes(w, "destination_missing")
       ELSE IF target.captured THEN Concludes(w, "unsafe_destination")
       ELSE call' = [call EXCEPT ![w].at = "leaving", ![w].answer = "answered",
                                 ![w].found = target.rev]
    /\ UNCHANGED <<runtime, placeVars, busy, holds, asked>>

\* decide: the request names the source as reviewed, and the destination as
\* inspected, or as absent (0), which makes the action a creation.
Decides(w) ==
    /\ Running(w, "reading") /\ call[w].op = "decide"
    /\ IF ~Usable THEN Concludes(w, "unsafe_source")
       ELSE IF ~SourceIs(holds[w].snapshot.source) THEN Concludes(w, "source_changed")
       ELSE \E expected \in {0, holds[w].seen} :
              call' = [call EXCEPT ![w].at = "leaving", ![w].answer = "answered",
                  ![w].found = [by |-> w, source |-> capture.rev, expected |-> expected,
                                startup |-> runtime.startup]]
    /\ UNCHANGED <<runtime, placeVars, busy, holds, asked>>

\* apply: the decision is taken again from the live capture and must be the same.
DecidesAgain(w) ==
    /\ Running(w, "reading") /\ call[w].op = "apply"
    /\ IF SourceIs(holds[w].decision.source) THEN Becomes(w, "ready") ELSE Concludes(w, "source_changed")
    /\ UNCHANGED <<runtime, placeVars, busy, holds, asked>>

\* The last look at the token; PromotionService.apply then decides once more.
Commits(w) ==
    /\ Running(w, "ready")
    /\ IF TokenFails(w) THEN Concludes(w, "cancelled")
       ELSE IF SourceIs(holds[w].decision.source) THEN Becomes(w, "locking")
       ELSE Concludes(w, "source_changed")
    /\ UNCHANGED <<runtime, placeVars, busy, holds, asked>>

StillReviewed(w) == SourceIs(holds[w].decision.source)

\* check_source, under the lock.
ChecksSource(w) ==
    /\ Running(w, "locking")
    /\ IF StillReviewed(w)
       THEN call' = [call EXCEPT ![w].at = "checking", ![w].source = capture.rev]
       ELSE Concludes(w, "source_changed")
    /\ UNCHANGED <<runtime, placeVars, busy, holds, asked>>
-----------------------------------------------------------------------------
Block(d) == [by |-> d.by, source |-> d.source, expected |-> d.expected, whole |-> TRUE]
Torn(d) == [Block(d) EXCEPT !.whole = FALSE]

\* What the markers of the promotion show of it in the destination.
Own(d) == {b \in target.blocks : b.by = d.by}

\* What the destination answers under the lock; "write" goes on.
Destination(d) ==
    IF d.expected = 0
    THEN IF target = Missing THEN "write"
         ELSE IF target.made = {Block(d)} THEN "already_applied" ELSE "conflict"
    ELSE IF target = Missing THEN "destination_missing"
    ELSE IF target.captured THEN "unsafe_destination"
    ELSE IF Own(d) # {} THEN IF Own(d) = {Block(d)} THEN "already_applied" ELSE "conflict"
    ELSE IF target.rev # d.expected THEN "destination_changed"
    ELSE "write"

\* The note is looked for, or read and judged: what was read, of which file, is
\* all that is known of it from here on.
ChecksDestination(w) ==
    /\ Running(w, "checking")
    /\ \/ \E answer \in {Destination(holds[w].decision), "write_unavailable"} \ {"write"} :
            Concludes(w, answer)
       \/ /\ Destination(holds[w].decision) = "write"
          /\ call' = [call EXCEPT ![w].at = "writing",
                 ![w].text = IF target = Missing THEN 0 ELSE target.rev,
                 ![w].file = IF target = Missing THEN 0 ELSE target.file]
    /\ UNCHANGED <<runtime, placeVars, busy, holds, asked>>

\* The file that was read is still the one that has the name.
SameFile(w) == target # Missing /\ target.file = call[w].file

\* Nothing is attempted: a failing system call, an entry that appeared where one
\* is created, a note that is gone, is another file or has another size.  An
\* edit in place that kept the size is not seen.
WritesNothing(w) ==
    LET d == holds[w].decision IN
    /\ Running(w, "writing")
    /\ \/ Concludes(w, "write_unavailable")
       \/ d.expected = 0 /\ target # Missing /\ Concludes(w, Destination(d))
       \/ d.expected # 0 /\ target = Missing /\ Concludes(w, "destination_missing")
       \/ /\ d.expected # 0 /\ target # Missing /\ (~SameFile(w) \/ target.rev # call[w].text)
          /\ Concludes(w, "destination_changed")
    /\ UNCHANGED <<runtime, placeVars, busy, holds, asked>>

\* The link of a created note takes the name, if it is free.
Creates(w) ==
    /\ holds[w].decision.expected = 0 /\ target = Missing
    /\ target' = [rev |-> revisions + 1, file |-> revisions + 1, captured |-> FALSE,
                  made |-> {Block(holds[w].decision)}, blocks |-> {}]

\* The block goes behind whatever text the file has now, or a part of it does.
Appends(w, whole) ==
    LET d == holds[w].decision IN
    /\ d.expected # 0 /\ SameFile(w)
    /\ target' = [target EXCEPT !.rev = revisions + 1, !.made = {},
                     !.blocks = @ \cup {IF whole THEN Block(d) ELSE Torn(d)}]

\* The write is attempted; "wrote" is what the note was given, and behind what.
\* Nothing of it reaches the note when the system call fails, or when another
\* file took the name after the last look.
Writes(w) ==
    /\ Running(w, "writing")
    /\ revisions' = revisions + 1
    /\ \E whole \in BOOLEAN :
         /\ \/ whole /\ Creates(w)
            \/ Appends(w, whole)
            \/ ~whole /\ UNCHANGED target
         /\ call' = [call EXCEPT ![w].at = "confirming",
                ![w].file = IF holds[w].decision.expected = 0 THEN revisions + 1 ELSE @,
                ![w].wrote = [source |-> call[w].source, startup |-> runtime.startup,
                              rev |-> revisions + 1, whole |-> whole,
                              before |-> IF target = Missing THEN 0 ELSE target.rev]]
    /\ UNCHANGED <<runtime, root, capture, userEdits, busy, holds, asked>>

\* The note holds the text that was read and the block behind it, nothing else.
AsWritten(w) ==
    /\ call[w].wrote.whole /\ call[w].wrote.before = call[w].text
    /\ SameFile(w) /\ target.rev = call[w].wrote.rev

\* The look at what the write left; it, or the write before it, may have failed.
Confirms(w) ==
    /\ Running(w, "confirming")
    /\ \/ /\ AsWritten(w)
          /\ call' = [call EXCEPT ![w].at = "queueing", ![w].answer = "applied"]
       \/ Becomes(w, "recovering")
    /\ UNCHANGED <<runtime, placeVars, busy, holds, asked>>

\* _promotion_block_proved over _promotion_recovery_bytes; for a created note,
\* the very bytes of the decision.
Proved(w) ==
    LET d == holds[w].decision IN
    /\ SameFile(w)
    /\ IF d.expected = 0 THEN target.made = {Block(d)}
       ELSE ~target.captured /\ Own(d) = {Block(d)}

\* The second look, in a lock of its own: what it proves is reported as applied
\* already, and not queued; else, or when it fails, the outcome is unknown.
Recovers(w) ==
    /\ Running(w, "recovering")
    /\ \/ Proved(w) /\ Concludes(w, "already_applied")
       \/ Concludes(w, "commit_unknown")
    /\ UNCHANGED <<runtime, placeVars, busy, holds, asked>>

\* _enqueue: only the indexing part of the answer depends on the scheduler.
Queues(w) ==
    /\ Running(w, "queueing")
    /\ \E index \in IF runtime.policy.indexing THEN {"index_pending", "index_unavailable"}
                    ELSE {"index_unavailable"} :
         call' = [call EXCEPT ![w].at = "leaving", ![w].index = index]
    /\ UNCHANGED <<runtime, placeVars, busy, holds, asked>>

\* A plausible bug: a cancellation that arrives during the write discards the answer.
CommittedNever(w) == FALSE

\* _write_completed: the answer of a call that wrote, or may have, is returned.
Committed(w) == call[w].answer \in {"applied", "already_applied", "commit_unknown"}

\* Leaving the admission; the caller keeps what an answered call returned.
Leaves(w) ==
    /\ Running(w, "leaving")
    /\ busy' = Missing
    /\ LET failed == ~Committed(w) /\ TokenFails(w) IN
       /\ call' = [call EXCEPT ![w].at = "idle",
                               ![w].answer = IF failed THEN "cancelled" ELSE @]
       /\ IF failed \/ call[w].answer # "answered" THEN UNCHANGED holds
          ELSE holds' = [holds EXCEPT ![w] =
                  CASE call[w].op = "review" -> [@ EXCEPT !.snapshot = call[w].found]
                    [] call[w].op = "inspect" -> [@ EXCEPT !.seen = call[w].found]
                    [] OTHER -> [@ EXCEPT !.decision = call[w].found]]
    /\ UNCHANGED <<runtime, placeVars, asked>>
-----------------------------------------------------------------------------
Cancels(w) ==
    /\ call[w].at # "idle" /\ ~call[w].cancelled
    /\ call' = [call EXCEPT ![w].cancelled = TRUE]
    /\ UNCHANGED <<runtime, placeVars, busy, holds, asked>>

\* SpaceRuntime.begin_shutdown and, once drained, a new composition: a new
\* registry over the root as it is now.
BeginsShutdown ==
    /\ ~runtime.stopped /\ runtime.startup < MaxStartups
    /\ runtime' = [runtime EXCEPT !.stopped = TRUE]
    /\ UNCHANGED <<placeVars, busy, call, holds, asked>>

Composes ==
    /\ runtime.stopped /\ busy = Missing
    /\ \E p \in Policies :
         runtime' = [startup |-> runtime.startup + 1, policy |-> p, stopped |-> FALSE, bound |-> root]
    /\ UNCHANGED <<placeVars, busy, call, holds, asked>>

\* A user saves, in place or as a new file, or deletes either note, copies a
\* capture of another space over this one, marks the target as a capture, or
\* replaces the root.
UserWorks ==
    /\ userEdits < MaxUserEdits
    /\ userEdits' = userEdits + 1 /\ revisions' = revisions + 1
    /\ \/ /\ \/ capture' = Missing
             \/ \E ours \in BOOLEAN : capture' = [rev |-> revisions + 1, ours |-> ours]
          /\ UNCHANGED <<root, target>>
       \/ /\ \/ target' = Missing
             \/ \E captured \in BOOLEAN, blocks \in {{}, IF target = Missing THEN {} ELSE target.blocks},
                   file \in {revisions + 1, IF target = Missing THEN revisions + 1 ELSE target.file} :
                  target' = [rev |-> revisions + 1, file |-> file, made |-> {},
                             blocks |-> blocks, captured |-> captured]
          /\ UNCHANGED <<root, capture>>
       \/ root' = revisions + 1 /\ UNCHANGED <<capture, target>>
    /\ UNCHANGED <<runtime, busy, call, holds, asked>>

Works(w) ==
    \/ Asks(w) \/ Admitted(w) \/ Binds(w)
    \/ ReadsSource(w) \/ Inspects(w) \/ Decides(w)
    \/ DecidesAgain(w) \/ Commits(w) \/ ChecksSource(w)
    \/ ChecksDestination(w) \/ WritesNothing(w) \/ Writes(w) \/ Confirms(w) \/ Recovers(w)
    \/ Queues(w) \/ Leaves(w)
    \/ Cancels(w)

PromotionNext ==
    \/ \E w \in Workflows : Works(w)
    \/ BeginsShutdown \/ Composes \/ UserWorks

PromotionSpec == PromotionInit /\ [][PromotionNext]_promotionVars
-----------------------------------------------------------------------------
(* Whatever a scoped promotion wrote was decided in the same startup,      *)
(* under whose policy writing and promoting are allowed, and about the     *)
(* very bytes of the capture found under the lock.  A call that wrote, or  *)
(* tried to, says so or that it does not know: it reports no refusal and   *)
(* no cancellation.  One that answers applied has put its whole block      *)
(* behind the very text that was decided about, or its note where none     *)
(* was, whatever users did to the note meanwhile; one that answers         *)
(* applied already has put the whole of it there, behind that text or an   *)
(* edit of it.                                                             *)
PromotedAsDecided ==
    \A w \in Workflows : call[w].wrote # Missing =>
        LET d == holds[w].decision
            wrote == call[w].wrote IN
        /\ d # Missing
        /\ wrote.source = d.source /\ wrote.startup = d.startup
        /\ call[w].at = "idle" =>
              /\ call[w].answer \in {"applied", "already_applied", "commit_unknown"}
              /\ call[w].answer = "applied" => wrote.before = d.expected
              /\ call[w].answer # "commit_unknown" => wrote.whole
        /\ d.startup = runtime.startup => runtime.policy.write /\ runtime.policy.promotes
=============================================================================

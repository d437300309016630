---------------------------- MODULE WatcherCoverage ----------------------------
(***************************************************************************)
(* How the shared watcher and the scheduler keep the index honest about    *)
(* what was not observed (services/shared_filesystem_watcher.py,           *)
(* watcher_ingress.py, watcher_ingress_linux.py and the coverage evidence  *)
(* of semantic_scheduler.py): one binding, its tree of a root and one      *)
(* subtree, successive watcher generations.                                *)
(*                                                                         *)
(* A change enters the kernel's bounded stream if its directory is         *)
(* watched.  The reader parses one stream batch at a time, opens a gap     *)
(* whenever its watches may be incomplete, and closes it only behind a     *)
(* fence in the same stream.  Bounded queues drop what does not fit and    *)
(* report the loss after unlocking.  The scheduler accepts a full          *)
(* synchronization as proof only for the coverage it had when it began.    *)
(***************************************************************************)
EXTENDS Naturals, Sequences, FiniteSets

CONSTANTS
    KernelLimit,     \* records the kernel queues before it overflows
    EventLimit,      \* INGRESS_EVENT_LIMIT
    MaxIncidents,    \* bound: changes of the tree and fatal failures of monitoring, together
    MaxGenerations   \* bound: watchers started one after another

ASSUME CoverageAssumption ==
    /\ KernelLimit \in Nat \ {0} /\ EventLimit \in Nat \ {0}
    /\ MaxIncidents \in Nat /\ MaxGenerations \in Nat \ {0}

TreeNotes == {"top", "nested"}         \* in the root and in the subtree
DirOf(n) == IF n = "top" THEN "root" ELSE "sub"

VARIABLES
    tree,       \* [sub: the subtree exists, changes: so far, dirty: changed since indexed]
    native,     \* [watched, kernel, fence, open, ticket, alive]: inotify and its gap
    reader,     \* [at, batch, events, fenced, restore, retire]: one batch being read
    pipe,       \* [queue, offered, deferred, pending, owed]: events on their way
    evidence,   \* coverage and monitoring fields of the scheduler's entry
    watcher,    \* [token, accepting, at, snapshot, generations]
    full        \* [needed, again, turn, todo, coverage]: the owner's turn

coverageVars == <<tree, native, reader, pipe, evidence, watcher, full>>

NoTicket == <<>>
IdleReader == [at |-> "idle", batch |-> <<>>, events |-> <<>>,
               fenced |-> FALSE, restore |-> FALSE, retire |-> FALSE]
NoNative == [watched |-> {}, kernel |-> <<>>, fence |-> "none", open |-> FALSE,
             ticket |-> NoTicket, alive |-> FALSE]

Incidents == tree.changes + evidence.failure

CoverageInit ==
    /\ tree = [sub |-> TRUE, changes |-> 0, dirty |-> {}]
    /\ native = NoNative
    /\ reader = IdleReader
    /\ pipe = [queue |-> <<>>, offered |-> {}, deferred |-> {}, pending |-> {}, owed |-> FALSE]
    /\ evidence = [revision |-> 0, restored |-> 0, reconciled |-> 0,
                   failure |-> 0, error |-> FALSE, verified |-> NoTicket]
    /\ watcher = [token |-> 0, accepting |-> FALSE, at |-> "off",
                  snapshot |-> NoTicket, generations |-> 0]
    /\ full = [needed |-> FALSE, again |-> FALSE, turn |-> "none",
               todo |-> {}, coverage |-> NoTicket]

-----------------------------------------------------------------------------
(* The scheduler's evidence.                                               *)

Requested(f) == [f EXCEPT !.needed = TRUE, !.again = @ \/ f.turn # "none"]

(* _can_reconcile_coverage: this generation was verified since the last failure. *)
CanReconcile(e) ==
    IF watcher.token = 0 THEN ~e.error ELSE e.verified = <<watcher.token, e.failure>>

(* _watcher_gap: a ticket for the coverage that is now open. *)
Gap(reconcile) ==
    IF watcher.token # 0 /\ watcher.accepting
    THEN LET opened == [evidence EXCEPT !.revision = @ + 1]
         IN /\ evidence' = opened
            /\ full' = IF reconcile /\ CanReconcile(evidence) THEN Requested(full) ELSE full
            /\ native' = [native EXCEPT !.open = TRUE, !.ticket = <<opened.revision, opened.failure>>]
    ELSE /\ native' = [native EXCEPT !.open = TRUE, !.ticket = NoTicket]
         /\ UNCHANGED <<evidence, full>>

(* _watcher_restored: only the ticket of the open coverage closes it. *)
TicketHolds ==
    /\ native.ticket # NoTicket /\ watcher.token # 0 /\ watcher.accepting
    /\ native.ticket = <<evidence.revision, evidence.failure>>
    /\ evidence.restored < evidence.revision

Restored ==
    /\ evidence' = IF TicketHolds THEN [evidence EXCEPT !.restored = evidence.revision] ELSE evidence
    /\ full' = IF TicketHolds /\ CanReconcile(evidence) THEN Requested(full) ELSE full

(* _watcher_failed. *)
Failed ==
    /\ evidence' = [evidence EXCEPT !.error = TRUE, !.failure = @ + 1, !.verified = NoTicket,
                                    !.revision = IF evidence.error THEN @ ELSE @ + 1]
    /\ full' = IF evidence.error THEN full ELSE Requested(full)

(* status.requires_full_sync *)
RequiresFull ==
    \/ full.needed \/ evidence.error \/ evidence.reconciled # evidence.revision
    \/ (pipe.offered # {} /\ ~watcher.accepting)

-----------------------------------------------------------------------------
(* The vault changes; the kernel records what happens in watched           *)
(* directories, and one overflow mark when its stream is full.             *)

Recorded(record) ==
    IF Len(native.kernel) < KernelLimit THEN Append(native.kernel, record)
    ELSE IF native.kernel[Len(native.kernel)] = "overflow" THEN native.kernel
         ELSE Append(native.kernel, "overflow")

Change(dir, record, note, exists) ==
    /\ Incidents < MaxIncidents
    /\ tree' = [sub |-> exists, changes |-> tree.changes + 1, dirty |-> tree.dirty \cup {note}]
    /\ native' = [native EXCEPT
          !.kernel = IF dir \in native.watched THEN Recorded(record) ELSE @,
          !.watched = IF exists THEN @ ELSE @ \ {"sub"}]
    /\ UNCHANGED <<reader, pipe, evidence, watcher, full>>

EditNote(n) == (n = "nested" => tree.sub) /\ Change(DirOf(n), n, n, tree.sub)
CreateSubtree == ~tree.sub /\ Change("root", "created", "nested", TRUE)
MoveSubtreeIn == ~tree.sub /\ Change("root", "arrived", "nested", TRUE)
MoveSubtreeOut == tree.sub /\ Change("root", "departed", "nested", FALSE)

-----------------------------------------------------------------------------
(* _BoundedInotify.read_events and its registration protocol.              *)

(* retain: at most EventLimit events of one batch; the rest is a loss. *)
Retain(r, n) == IF Len(r.events) < EventLimit THEN [r EXCEPT !.events = Append(@, n)] ELSE r
RetainLoses(r) == Len(r.events) >= EventLimit

ReadBatch ==
    /\ native.alive /\ reader.at = "idle" /\ native.kernel # <<>>
    /\ reader' = [IdleReader EXCEPT !.at = "parsing", !.batch = native.kernel]
    /\ native' = [native EXCEPT !.kernel = <<>>]
    /\ UNCHANGED <<tree, pipe, evidence, watcher, full>>

Parsing(record) == reader.at = "parsing" /\ reader.batch # <<>> /\ Head(reader.batch) = record
Parsed(r) == [r EXCEPT !.batch = Tail(@)]

(* _begin_registration moves the revision, so any fence read or queued before
   it is out of date; one gap serves a whole rebuild, an overflow opens anew. *)
NeedsGap(record) ==
    \/ record = "overflow"
    \/ record \in {"created", "arrived", "departed"} /\ ~native.open

OpenGap ==
    /\ reader.at = "parsing" /\ reader.batch # <<>> /\ NeedsGap(Head(reader.batch))
    /\ Gap(TRUE)
    /\ reader' = [reader EXCEPT !.at = "opened"]
    /\ UNCHANGED <<tree, pipe, watcher>>

Acting(record) ==
    /\ reader.batch # <<>> /\ Head(reader.batch) = record
    /\ \/ reader.at = "opened"
       \/ reader.at = "parsing" /\ ~NeedsGap(record)
Acted(r) == [r EXCEPT !.at = "parsing", !.batch = Tail(@), !.fenced = FALSE]

Outdated(fence) == IF fence = "fresh" THEN "old" ELSE fence

(* _discard_child_watches, _retire_coverage: what retired watches recorded
   no longer maps to a path. *)
Unmapped(records, lost) == [i \in DOMAIN records |-> IF records[i] \in lost THEN "unknown" ELSE records[i]]
OfWatches == {"top", "nested", "created", "arrived", "departed"}

ParseNote(n) ==
    /\ Parsing(n)
    /\ reader' = Retain(Parsed(reader), n)
    /\ full' = IF RetainLoses(reader) THEN Requested(full) ELSE full
    /\ UNCHANGED <<tree, native, pipe, evidence, watcher>>

ParseUnknown ==
    /\ Parsing("unknown")
    /\ reader' = Parsed(reader)
    /\ full' = IF native.open THEN full ELSE Requested(full)
    /\ UNCHANGED <<tree, native, pipe, evidence, watcher>>

ParseOverflow ==
    /\ Acting("overflow")
    /\ native' = [native EXCEPT !.fence = "none", !.watched = {},
                                !.kernel = Unmapped(@, OfWatches \cup {"fence"})]
    /\ reader' = [Acted(reader) EXCEPT !.events = <<>>, !.restore = TRUE,
                                       !.batch = Unmapped(@, OfWatches \cup {"fence"})]
    /\ UNCHANGED <<tree, pipe, evidence, watcher, full>>

(* The subtree's watch comes before its listing, which synthesizes events; a
   subtree that is gone again is full debt. *)
ParseCreated ==
    /\ Acting("created")
    /\ native' = [native EXCEPT !.fence = Outdated(@),
                                !.watched = IF tree.sub THEN @ \cup {"sub"} ELSE @]
    /\ reader' = IF tree.sub THEN Retain(Acted(reader), "nested") ELSE Acted(reader)
    /\ full' = IF tree.sub /\ ~RetainLoses(reader) THEN full ELSE Requested(full)
    /\ UNCHANGED <<tree, pipe, evidence, watcher>>

(* The other end of a move may be late or missing: the old names retire now
   and the whole tree is restored. *)
ParseMoved(record) ==
    /\ Acting(record)
    /\ native' = [native EXCEPT !.fence = Outdated(@), !.watched = @ \ {"sub"},
                                !.kernel = Unmapped(@, {"nested"})]
    /\ reader' = [Acted(reader) EXCEPT
          !.restore = TRUE, !.retire = TRUE, !.batch = Unmapped(@, {"nested"}),
          !.events = IF record = "departed" THEN SelectSeq(@, LAMBDA n : DirOf(n) # "sub") ELSE @]
    /\ UNCHANGED <<tree, pipe, evidence, watcher, full>>

ParseFence ==
    /\ Parsing("fence")
    /\ reader' = [Parsed(reader) EXCEPT !.fenced = native.fence = "fresh"]
    /\ native' = [native EXCEPT !.fence = "none"]
    /\ UNCHANGED <<tree, pipe, evidence, watcher, full>>

(* After the batch: retire what moved, watch the root, list it and descend. *)
RestoreRoot ==
    /\ reader.at = "parsing" /\ reader.batch = <<>> /\ reader.restore
    /\ native' = IF reader.retire
          THEN [native EXCEPT !.watched = {"root"}, !.kernel = Unmapped(@, OfWatches)]
          ELSE [native EXCEPT !.watched = @ \cup {"root"}]
    /\ reader' = [reader EXCEPT !.at = "descending"]
    /\ UNCHANGED <<tree, pipe, evidence, watcher, full>>

RestoreSubtree ==
    /\ reader.at = "descending"
    /\ native' = [native EXCEPT !.watched = IF tree.sub THEN @ \cup {"sub"} ELSE @]
    /\ reader' = [reader EXCEPT !.at = "finishing"]
    /\ UNCHANGED <<tree, pipe, evidence, watcher, full>>

NothingToRestore ==
    /\ reader.at = "parsing" /\ reader.batch = <<>> /\ ~reader.restore
    /\ reader' = [reader EXCEPT !.at = "finishing"]
    /\ UNCHANGED <<tree, native, pipe, evidence, watcher, full>>

(* _queue_coverage_fence: a marker behind everything recorded so far. *)
OwnerFenced(n) == [n EXCEPT !.fence = "fresh", !.kernel = Recorded("fence")]

(* _finish_registration_batch *)
FinishBatch ==
    /\ reader.at = "finishing"
    /\ reader' = [reader EXCEPT !.at = "putting"]
    /\ IF native.open /\ reader.fenced
       THEN Restored /\ native' = [native EXCEPT !.open = FALSE, !.ticket = NoTicket]
       ELSE /\ native' = IF native.open /\ native.fence = "none" THEN OwnerFenced(native) ELSE native
            /\ UNCHANGED <<evidence, full>>
    /\ UNCHANGED <<tree, pipe, watcher>>

(* The reader ends by an exception and reports it afterwards. *)
ReaderBreaks ==
    /\ Incidents < MaxIncidents
    /\ native.alive /\ reader.at \in {"idle", "parsing", "opened", "descending", "finishing"}
    /\ reader' = [IdleReader EXCEPT !.at = "broken"]
    /\ native' = [NoNative EXCEPT !.open = native.open]
    /\ UNCHANGED <<tree, pipe, evidence, watcher, full>>

ReportFailure ==
    /\ reader.at = "broken"
    /\ Failed
    /\ reader' = IdleReader
    /\ UNCHANGED <<tree, native, pipe, watcher>>

-----------------------------------------------------------------------------
(* The bounded queues between the reader and the scheduler, taken as one.  *)

(* put drops under the queue's mutex and reports the loss after it. *)
Admits == Len(pipe.queue) < EventLimit /\ watcher.at # "closing"

PutEvent ==
    /\ reader.at = "putting" /\ reader.events # <<>> /\ ~pipe.owed
    /\ pipe' = IF Admits THEN [pipe EXCEPT !.queue = Append(@, Head(reader.events))]
                ELSE [pipe EXCEPT !.owed = TRUE]
    /\ reader' = [reader EXCEPT !.events = Tail(@)]
    /\ UNCHANGED <<tree, native, evidence, watcher, full>>

BatchPut ==
    /\ reader.at = "putting" /\ reader.events = <<>> /\ ~pipe.owed
    /\ reader' = IdleReader
    /\ UNCHANGED <<tree, native, pipe, evidence, watcher, full>>

ReportLoss ==
    /\ pipe.owed
    /\ pipe' = [pipe EXCEPT !.owed = FALSE]
    /\ full' = Requested(full)
    /\ UNCHANGED <<tree, native, reader, evidence, watcher>>

(* _offer: unverified or failed monitoring turns the event into full debt. *)
Offer ==
    /\ pipe.queue # <<>>
    /\ LET taken == [pipe EXCEPT !.queue = Tail(@)]
           trusted == CanReconcile(evidence) /\ ~evidence.error
       IN /\ pipe' = IF watcher.accepting /\ trusted
                     THEN [taken EXCEPT !.offered = @ \cup {Head(pipe.queue)}] ELSE taken
          /\ full' = IF watcher.accepting /\ ~trusted THEN Requested(full) ELSE full
    /\ UNCHANGED <<tree, native, reader, evidence, watcher>>

(* _debounce reserves the path; refused, or no longer accepting, the callback
   leaves full debt. *)
Debounce(n) ==
    /\ n \in pipe.offered
    /\ \E reserved \in IF watcher.accepting /\ ~evidence.error THEN BOOLEAN ELSE {FALSE} :
          /\ pipe' = [pipe EXCEPT !.offered = @ \ {n},
                                  !.deferred = IF reserved THEN @ \cup {n} ELSE @]
          /\ full' = IF reserved THEN full ELSE Requested(full)
    /\ UNCHANGED <<tree, native, reader, evidence, watcher>>

(* _deliver_debounced, or _debounce_failed. *)
Deliver(n) ==
    /\ n \in pipe.deferred
    /\ pipe' = [pipe EXCEPT !.deferred = @ \ {n},
                            !.pending = IF evidence.error THEN @ ELSE @ \cup {n}]
    /\ full' = IF evidence.error THEN Requested(full) ELSE full
    /\ UNCHANGED <<tree, native, reader, evidence, watcher>>

-----------------------------------------------------------------------------
(* The owner's turn, seen from the coverage evidence.                      *)

(* Captured before begin_sync, because discovery may start there. *)
CapturedCoverage ==
    IF evidence.restored = evidence.revision /\ CanReconcile(evidence)
    THEN <<watcher.token, evidence.revision>> ELSE NoTicket

ClaimTurn ==
    /\ full.turn = "none" /\ (full.needed \/ pipe.pending # {})
    /\ full' = [full EXCEPT !.turn = IF full.needed THEN "full" ELSE "targeted",
                            !.todo = IF full.needed THEN TreeNotes ELSE pipe.pending,
                            !.again = FALSE, !.coverage = CapturedCoverage]
    /\ pipe' = [pipe EXCEPT !.pending = {}, !.deferred = IF full.needed THEN {} ELSE @]
    /\ UNCHANGED <<tree, native, reader, evidence, watcher>>

IndexOne(n) ==
    /\ n \in full.todo
    /\ full' = [full EXCEPT !.todo = @ \ {n}]
    /\ tree' = [tree EXCEPT !.dirty = @ \ {n}]
    /\ UNCHANGED <<native, reader, pipe, evidence, watcher>>

ReconcilesAnyFull == full.turn = "full" /\ watcher.accepting /\ CanReconcile(evidence)

Reconciles ==
    /\ full.turn = "full" /\ watcher.accepting /\ CanReconcile(evidence)
    /\ full.coverage = <<watcher.token, evidence.revision>>
    /\ evidence.restored = evidence.revision

TurnEnded(f, needed) == [f EXCEPT !.turn = "none", !.todo = {}, !.coverage = NoTicket, !.needed = needed]

TurnCompletes ==
    /\ full.turn # "none" /\ full.todo = {}
    /\ full' = TurnEnded(full, IF full.turn = "full" THEN full.again ELSE full.needed)
    /\ evidence' = IF Reconciles THEN [evidence EXCEPT !.reconciled = evidence.revision, !.error = FALSE]
                   ELSE evidence
    /\ UNCHANGED <<tree, native, reader, pipe, watcher>>

TurnBreaks ==
    /\ full.turn # "none"
    /\ full' = TurnEnded(full, TRUE)
    /\ UNCHANGED <<tree, native, reader, pipe, evidence, watcher>>

-----------------------------------------------------------------------------
(* SharedFilesystemWatcher.start and stop, generation after generation.    *)

(* Attach, and record the uncovered interval before any producer exists. *)
StartWatcher ==
    /\ watcher.token = 0 /\ pipe.offered = {} /\ watcher.generations < MaxGenerations
    /\ watcher' = [token |-> watcher.generations + 1, accepting |-> TRUE, at |-> "arming",
                   snapshot |-> <<evidence.failure, evidence.revision + 1>>,
                   generations |-> watcher.generations + 1]
    /\ evidence' = [evidence EXCEPT !.revision = @ + 1]
    /\ reader' = [reader EXCEPT !.at = "arming"]
    /\ UNCHANGED <<tree, native, pipe, full>>

(* _initialize_native: watch the root, then the subtree; open a gap; fence. *)
ArmRoot ==
    /\ reader.at = "arming"
    /\ native' = [native EXCEPT !.watched = {"root"}]
    /\ reader' = [reader EXCEPT !.at = "walking"]
    /\ UNCHANGED <<tree, pipe, evidence, watcher, full>>

ArmSubtree ==
    /\ reader.at = "walking"
    /\ native' = [native EXCEPT !.watched = IF tree.sub THEN @ \cup {"sub"} ELSE @]
    /\ reader' = [reader EXCEPT !.at = "fencing"]
    /\ UNCHANGED <<tree, pipe, evidence, watcher, full>>

ArmGap ==
    /\ reader.at = "fencing" /\ ~native.open
    /\ Gap(TRUE)
    /\ UNCHANGED <<tree, reader, pipe, watcher>>

Armed ==
    /\ reader.at = "fencing" /\ native.open
    /\ native' = [OwnerFenced(native) EXCEPT !.alive = TRUE]
    /\ reader' = IdleReader
    /\ watcher' = [watcher EXCEPT !.at = IF @ = "arming" THEN "armed" ELSE @]
    /\ UNCHANGED <<tree, pipe, evidence, full>>

(* _watcher_reconstructed with the snapshot taken before arming. *)
Unchanged == watcher.snapshot = <<evidence.failure, evidence.revision>>
Reconstructed(e) ==
    LET verified == [e EXCEPT !.verified = <<watcher.token, e.failure>>]
        suspect == e.error \/ e.reconciled # e.revision
    IN IF suspect /\ Unchanged
       THEN [verified EXCEPT !.revision = @ + 1, !.restored = e.revision + 1]
       ELSE verified

ServeWatcher ==
    /\ watcher.at = "armed"
    /\ watcher' = [watcher EXCEPT !.at = "serving"]
    /\ IF watcher.snapshot[1] = evidence.failure
       THEN LET e == Reconstructed(evidence)
            IN /\ evidence' = e
               /\ full' = IF (e.error \/ e.reconciled # e.revision) /\ e.restored = e.revision
                          THEN Requested(full) ELSE full
       ELSE UNCHANGED <<evidence, full>>
    /\ UNCHANGED <<tree, native, reader, pipe>>

(* _check_roots: the root's identity changed, or a producer died. *)
RootCheckFails ==
    /\ watcher.at = "serving" /\ Incidents < MaxIncidents
    /\ ~evidence.error \/ CanReconcile(evidence)
    /\ Failed
    /\ UNCHANGED <<tree, native, reader, pipe, watcher>>

(* stop_admission and _fence_watcher: coverage ends before the producers do. *)
StopAdmission ==
    /\ watcher.at \in {"arming", "armed", "serving"}
    /\ watcher' = [watcher EXCEPT !.at = "stopping", !.accepting = FALSE]
    /\ evidence' = [evidence EXCEPT !.revision = @ + 1, !.verified = NoTicket]
    /\ full' = IF pipe.offered # {} THEN Requested(full) ELSE full
    /\ UNCHANGED <<tree, native, reader, pipe>>

(* BoundedEventQueue.close *)
CloseIngress ==
    /\ watcher.at = "stopping" /\ reader.at \notin {"arming", "walking", "fencing"}
    /\ watcher' = [watcher EXCEPT !.at = "closing"]
    /\ pipe' = [pipe EXCEPT !.queue = <<>>]
    /\ full' = IF pipe.queue # <<>> THEN Requested(full) ELSE full
    /\ UNCHANGED <<tree, native, reader, evidence>>

(* _retire_watcher_work and _detach_watcher, once every thread has ended. *)
DetachWatcher ==
    /\ watcher.at = "closing" /\ reader.at = "idle" /\ ~pipe.owed
    /\ pipe.offered = {} /\ pipe.queue = <<>>
    /\ native' = NoNative
    /\ pipe' = [pipe EXCEPT !.deferred = {}]
    /\ full' = IF pipe.deferred # {} THEN Requested(full) ELSE full
    /\ watcher' = [watcher EXCEPT !.token = 0, !.at = "off", !.snapshot = NoTicket]
    /\ UNCHANGED <<tree, reader, evidence>>

-----------------------------------------------------------------------------
CoverageNext ==
    \/ \E n \in TreeNotes : EditNote(n) \/ ParseNote(n) \/ Debounce(n) \/ Deliver(n) \/ IndexOne(n)
    \/ CreateSubtree \/ MoveSubtreeIn \/ MoveSubtreeOut
    \/ ReadBatch \/ OpenGap \/ ParseUnknown \/ ParseOverflow \/ ParseCreated
    \/ ParseMoved("arrived") \/ ParseMoved("departed") \/ ParseFence \/ RestoreRoot \/ RestoreSubtree \/ NothingToRestore \/ FinishBatch
    \/ ReaderBreaks \/ ReportFailure \/ PutEvent \/ BatchPut \/ ReportLoss \/ Offer
    \/ ClaimTurn \/ TurnCompletes \/ TurnBreaks
    \/ StartWatcher \/ ArmRoot \/ ArmSubtree \/ ArmGap \/ Armed \/ ServeWatcher
    \/ RootCheckFails \/ StopAdmission \/ CloseIngress \/ DetachWatcher

CoverageSpec == CoverageInit /\ [][CoverageNext]_coverageVars

-----------------------------------------------------------------------------
(* A change of note n is still going to reach the index. *)
OnItsWay(n) ==
    LET stream == native.kernel \o reader.batch
        structural == IF DirOf(n) = "sub" THEN {"created", "arrived", "departed"} ELSE {}
    IN \/ n \in pipe.offered \cup pipe.deferred \cup pipe.pending \cup full.todo
       \/ \E i \in DOMAIN pipe.queue : pipe.queue[i] = n
       \/ \E i \in DOMAIN reader.events : reader.events[i] = n
       \/ \E i \in DOMAIN stream : stream[i] \in {n, "overflow"} \cup structural
       \/ pipe.owed \/ reader.at = "broken"

(* Once a watcher was started, a status that asks for no full synchronization
   is honest: every change that the index does not hold is still on its way.
   Lost events, an overflow, changes in directories not watched yet, a stopped
   or failed watcher and a synchronization older than the gap all show. *)
CoverageHonest ==
    (watcher.generations > 0 /\ ~RequiresFull) => \A n \in tree.dirty : OnItsWay(n)
=============================================================================

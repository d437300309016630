------------------------------ MODULE NativeReader ------------------------------
(***************************************************************************)
(* The native half of the Linux watcher (services/watcher_ingress_linux.py)*)
(* from allocation to disposal: the inotify descriptor, the two ends of    *)
(* the kill pipe and their guards, the reader thread, the thread that      *)
(* stops it, and the process around them, in which a number that is free   *)
(* may belong to somebody else a moment later.                             *)
(*                                                                         *)
(* The release evidence of one close is in DescriptorCleanup; here a       *)
(* dispatched close is verified, or uncertain with or without its effect.  *)
(***************************************************************************)
EXTENDS Naturals, Sequences

CONSTANTS
    MaxReads,   \* bound: batches the reader reads
    MaxCloses   \* bound: closes of the buffer, the retries included

Primaries == <<"inotify", "kill_r", "kill_w">>
GuardOf == [inotify |-> "guard:inotify", kill_r |-> "guard:kill_r", kill_w |-> "guard:kill_w"]
Guards == [i \in 1..3 |-> GuardOf[Primaries[i]]]
Names == {Primaries[i] : i \in 1..3} \cup {Guards[i] : i \in 1..3}

VARIABLES
    held,     \* history of each descriptor: "none", "lost", "owned", "retry", "uncertain" or "closed"
    slot,     \* what its number denotes: "ours", "free", "other", or a "twin" with our identity
    flags,    \* [closed, reading, resources_closed]
    reader,   \* the reader thread
    owner,    \* the constructing and stopping thread
    lock,     \* the native lock and the disposal under it: [by, todo]
    spent,    \* [reads, closes]
    foreign   \* history: a call reached a number that was not ours

nativeVars == <<held, slot, flags, reader, owner, lock, spent, foreign>>

Unlocked == [by |-> "nobody", todo |-> <<>>]
(* A plausible bug: a close that was dispatched counts, whatever it returned. *)
DoneWhenDispatched == {"closed", "none", "uncertain"}
Done == {"closed", "none"}

NativeInit ==
    /\ held = [n \in Names |-> "none"] /\ slot = [n \in Names |-> "free"]
    /\ flags = [closed |-> FALSE, reading |-> FALSE, resources_closed |-> FALSE]
    /\ reader = "none" /\ owner = "new"
    /\ lock = Unlocked /\ spent = [reads |-> 0, closes |-> 0] /\ foreign = FALSE

Uses(n) == foreign' = (foreign \/ slot[n] # "ours")

-----------------------------------------------------------------------------
(* Construction.  Allocations return, are refused, or are interrupted, and
   then a number may be open that nobody knows.                            *)
Returned(names) ==
    /\ held' = [n \in Names |-> IF n \in names THEN "owned" ELSE held[n]]
    /\ slot' = [n \in Names |-> IF n \in names THEN "ours" ELSE slot[n]]
RefusedAllocation(names) ==
    /\ held' = [n \in Names |-> IF n \in names THEN "closed" ELSE held[n]]
    /\ UNCHANGED slot
Lost(names) ==
    /\ held' = [n \in Names |-> IF n \in names THEN "lost" ELSE held[n]]
    /\ slot' \in {slot, [n \in Names |-> IF n \in names THEN "ours" ELSE slot[n]]}

Constructs(at, next, names) ==
    /\ owner = at
    /\ \/ Returned(names) /\ owner' = next
       \/ (RefusedAllocation(names) \/ Lost(names)) /\ owner' = "failed"
    /\ UNCHANGED <<reader, lock, spent, foreign>>

AllocateInotify == Constructs("new", "guarding", {"inotify"}) /\ UNCHANGED flags
AllocateGuard ==
    /\ Constructs("guarding", "piping", {"guard:inotify"})
    /\ flags' = [flags EXCEPT !.reading = owner' = "piping"]
AllocatePipe == Constructs("piping", "registering", {"kill_r", "kill_w"}) /\ UNCHANGED flags

(* The initial registration, then Thread.start; either may fail. *)
StartReader ==
    /\ owner = "registering"
    /\ \/ owner' = "running" /\ reader' = "entering" /\ UNCHANGED flags
       \/ owner' = "failed" /\ UNCHANGED <<reader, flags>>
       \/ owner' = "stopping" /\ reader' = "ended" /\ flags' = [flags EXCEPT !.reading = FALSE]
    /\ UNCHANGED <<held, slot, lock, spent, foreign>>

-----------------------------------------------------------------------------
(* The lock, and _close_resources under it.                                *)
Free == lock.by = "nobody"
BeginsClosing(who) == lock' = [by |-> who, todo |-> Primaries \o Guards]

(* _dispose of the next descriptor.  A guard goes only after its original, and
   an original that has none yet is given one before its number is closed. *)
Next1 == Head(lock.todo)
IsPrimary(n) == n \in DOMAIN GuardOf
MayDispose(n) == \A m \in DOMAIN GuardOf : GuardOf[m] = n => held[m] = "closed"
NeedsGuard(n) == IsPrimary(n) /\ held[GuardOf[n]] = "none"
GoneAlready(n) == held[n] # "lost" /\ slot[n] \in {"free", "other"}

Disposing == lock.todo # <<>> /\ lock' = [lock EXCEPT !.todo = Tail(@)]
Outcome(n, h) == held' = [held EXCEPT ![n] = h] /\ UNCHANGED slot

SkipDescriptor ==
    /\ Disposing /\ (held[Next1] \in Done \/ ~MayDispose(Next1))
    /\ UNCHANGED <<held, slot, flags, reader, owner, spent, foreign>>

FindAbsent ==
    /\ Disposing /\ held[Next1] \notin Done /\ MayDispose(Next1)
    /\ GoneAlready(Next1) /\ Outcome(Next1, "closed")
    /\ UNCHANGED <<flags, reader, owner, spent, foreign>>

StayUncertain ==
    /\ Disposing /\ MayDispose(Next1)
    /\ held[Next1] \in {"lost", "uncertain"} /\ ~GoneAlready(Next1)
    /\ UNCHANGED <<held, slot, flags, reader, owner, spent, foreign>>

(* prepare: the duplicate; a refusal is remembered, and the next try closes
   the original without one. *)
GuardOriginal ==
    LET g == GuardOf[Next1] IN
    /\ lock.todo # <<>> /\ held[Next1] \in {"owned", "retry"} /\ ~GoneAlready(Next1) /\ NeedsGuard(Next1)
    /\ \/ Returned({g}) /\ UNCHANGED lock
       \/ Disposing /\ held' = [held EXCEPT ![g] = "closed", ![Next1] = "retry"] /\ UNCHANGED slot
       \/ Disposing /\ held' = [held EXCEPT ![g] = "lost", ![Next1] = "retry"]
          /\ slot' \in {slot, [slot EXCEPT ![g] = "ours"]}
    /\ Uses(Next1)
    /\ UNCHANGED <<flags, reader, owner, spent>>

CloseDescriptor ==
    LET n == Next1 IN
    /\ Disposing /\ MayDispose(n)
    /\ held[n] \in {"owned", "retry"} /\ ~GoneAlready(n) /\ ~NeedsGuard(n)
    /\ \/ held' = [held EXCEPT ![n] = "closed"] /\ slot' = [slot EXCEPT ![n] = "free"]
       \/ held' = [held EXCEPT ![n] = "uncertain"] /\ slot' \in {slot, [slot EXCEPT ![n] = "free"]}
    /\ Uses(n)
    /\ UNCHANGED <<flags, reader, owner, spent>>

EndClosing ==
    /\ lock.by # "nobody" /\ lock.todo = <<>> /\ lock' = Unlocked
    /\ flags' = [flags EXCEPT !.resources_closed = \A n \in Names : held[n] \in Done]
    /\ reader' = IF lock.by # "reader" THEN reader ELSE IF reader = "noticing" THEN "ending" ELSE "ended"
    /\ owner' = IF lock.by # "owner" THEN owner ELSE IF owner = "stopping" THEN "joining" ELSE "done"
    /\ UNCHANGED <<held, slot, spent, foreign>>

-----------------------------------------------------------------------------
(* The reader: read_events, and what run does when its loop ends.          *)
Reads(at, next) ==
    /\ reader = at /\ reader' = next
    /\ UNCHANGED <<held, slot, owner>>

EnterRead ==
    /\ Free /\ Reads("entering", IF flags.closed THEN "ending" ELSE "polling")
    /\ flags' = [flags EXCEPT !.reading = @ \/ ~flags.closed]
    /\ UNCHANGED <<lock, spent, foreign>>

(* The poll ends, and the buffer is read; EINTR begins again. *)
PollEnds ==
    /\ spent.reads < MaxReads \/ flags.closed
    /\ Reads("polling", "noticing") /\ Uses("inotify")
    /\ spent' = [spent EXCEPT !.reads = IF @ < MaxReads THEN @ + 1 ELSE @]
    /\ UNCHANGED <<flags, lock>>
Interrupt ==
    /\ Reads("polling", "entering") /\ UNCHANGED <<flags, lock, spent, foreign>>
ReadBreaks ==
    /\ \/ Reads("polling", "ending")
       \/ Reads("parsing", "ending")
    /\ UNCHANGED <<flags, lock, spent, foreign>>

NoticeClose ==
    /\ Free /\ reader = "noticing"
    /\ flags' = [flags EXCEPT !.reading = FALSE]
    /\ IF flags.closed THEN BeginsClosing("reader") /\ UNCHANGED reader
                       ELSE reader' = "parsing" /\ UNCHANGED lock
    /\ UNCHANGED <<held, slot, owner, spent, foreign>>

(* A batch read before a stop is no permission to register after it. *)
Parses == ~flags.closed
ParseBatch ==
    /\ Free
    /\ IF Parses THEN Reads("parsing", "entering") /\ Uses("inotify")
                 ELSE Reads("parsing", "ending") /\ UNCHANGED foreign
    /\ UNCHANGED <<flags, lock, spent>>

(* close_after_reader by the reader itself. *)
CloseAfterLoop ==
    /\ Free /\ reader = "ending"
    /\ flags' = [flags EXCEPT !.closed = TRUE, !.reading = FALSE]
    /\ BeginsClosing("reader")
    /\ reader' = "closing"
    /\ UNCHANGED <<held, slot, owner, spent, foreign>>

-----------------------------------------------------------------------------
(* The owner: BoundedInotifyBuffer.close, and again by whoever retries.    *)
BeginStop ==
    /\ owner = "running" /\ owner' = "stopping"
    /\ UNCHANGED <<held, slot, flags, reader, lock, spent, foreign>>

(* close: the kill byte wakes a reader; without one, disposal is ours. *)
CloseNative ==
    /\ Free /\ owner = "stopping" /\ lock = Unlocked
    /\ flags' = [flags EXCEPT !.closed = TRUE]
    /\ IF ~flags.closed /\ flags.reading THEN Uses("kill_w") ELSE UNCHANGED foreign
    /\ IF flags.reading THEN owner' = "joining" /\ UNCHANGED lock
                        ELSE BeginsClosing("owner") /\ UNCHANGED owner
    /\ UNCHANGED <<held, slot, reader, spent>>

(* After the join, and after a construction that failed. *)
CloseAfterReader ==
    /\ Free
    /\ \/ owner = "joining" /\ reader = "ended"
       \/ owner = "failed"
       \/ owner = "done" /\ ~flags.resources_closed
    /\ spent.closes < MaxCloses /\ spent' = [spent EXCEPT !.closes = @ + 1]
    /\ flags' = [flags EXCEPT !.closed = TRUE, !.reading = FALSE]
    /\ BeginsClosing("owner") /\ owner' = "closing"
    /\ UNCHANGED <<held, slot, reader, foreign>>

(* The rest of the process opens and closes descriptors of its own.  Where it
   matters is a number whose release is uncertain; any use of a number that is
   known to be closed counts as foreign already. *)
ProcessElsewhere ==
    /\ \E n \in Names :
          /\ held[n] = "uncertain"
          /\ \/ slot[n] = "free" /\ \E who \in {"other", "twin"} : slot' = [slot EXCEPT ![n] = who]
             \/ slot[n] \in {"other", "twin"} /\ slot' = [slot EXCEPT ![n] = "free"]
    /\ UNCHANGED <<held, flags, reader, owner, lock, spent, foreign>>

NativeNext ==
    \/ AllocateInotify \/ AllocateGuard \/ AllocatePipe \/ StartReader
    \/ SkipDescriptor \/ FindAbsent \/ StayUncertain \/ GuardOriginal \/ CloseDescriptor \/ EndClosing
    \/ EnterRead \/ PollEnds \/ Interrupt \/ ReadBreaks \/ NoticeClose \/ ParseBatch \/ CloseAfterLoop
    \/ BeginStop \/ CloseNative \/ CloseAfterReader \/ ProcessElsewhere

NativeSpec == NativeInit /\ [][NativeNext]_nativeVars

-----------------------------------------------------------------------------
(* However construction fails, closes turn out uncertain and stopping meets the
   reader: no poll, read, registration, wake-up or close ever reaches a number
   that is not this reader's own, nothing is disposed of while the reader may
   still use it, and the resources count as closed only when none is open. *)
NativeAccounted ==
    /\ ~foreign
    /\ reader = "polling" => slot["inotify"] = "ours"
    /\ flags.resources_closed => \A n \in Names : slot[n] # "ours"
=============================================================================

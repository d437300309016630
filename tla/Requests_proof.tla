---------------------------- MODULE Requests_proof ----------------------------
(***************************************************************************)
(* Proofs about the components a request passes through.                   *)
(*                                                                         *)
(* ConnectionLeases, DescriptorCleanup, ReadTransport, NativeReader: for   *)
(* any number of connections, descriptor numbers, body parts and           *)
(* cancellations, what is open is known to whoever must close it, and      *)
(* nothing is closed, read or sent that is somebody else's.                *)
(*                                                                         *)
(* ScopedPromotion, for any number of workflows, calls, edits and startups:*)
(* what a promotion wrote is what was decided, under a policy that allows  *)
(* it, and a refused promotion wrote nothing.                              *)
(*                                                                         *)
(* NoteAppend, for any number of callers, keys, retries, edits and torn    *)
(* writes: a block is in the note at most once, and answers are true.      *)
(*                                                                         *)
(* NoteAccess, for any number of edits and calls: what is read was at its  *)
(* path, and what is reported missing was ordinarily absent.               *)
(*                                                                         *)
(* HygieneScan, for any vault, limits and edits: what a scan calls missing *)
(* was missing, and a complete scan read every note.                       *)
(*                                                                         *)
(* ScopedBudget, for any number of spaces, credits and charges: a reserved *)
(* cleanup probe can be paid, and the counters add up.                     *)
(*                                                                         *)
(* ScopedFederation, for any number of spaces, notes, budgets and changes: *)
(* the coverage of an answer is true, and no space pays for another.       *)
(***************************************************************************)
EXTENDS ConnectionLeases, DescriptorCleanup, ReadTransport, NativeReader, ScopedPromotion, NoteAppend,
        NoteAccess, HygieneScan, ScopedBudget, ScopedFederation, WellFoundedInduction, FiniteSetTheorems, TLAPS

-----------------------------------------------------------------------------
(* SQLite connections: what is held open is known to a registry, and a     *)
(* connection outlives its cursors.                                        *)

States == {"none", "active", "failed"}

LeasesTyped ==
    /\ opened \in [Connections -> SUBSET {"connection", "cursor"}]
    /\ leases \in [Connections -> States]
    /\ cursors \in [Connections -> States]
    /\ drained \in BOOLEAN

(* What one slot's registries say of what is open in it. *)
SlotKnown(c) ==
    /\ "cursor" \in opened[c] => cursors[c] # "none" /\ "connection" \in opened[c]
    /\ opened[c] # {} => leases[c] # "none"
    /\ leases[c] = "active" => "connection" \in opened[c]
    /\ leases[c] = "none" => cursors[c] = "none"

DrainedIsEmpty == drained => \A c \in Connections : leases[c] = "none"

LeasesInv == LeasesTyped /\ (\A c \in Connections : SlotKnown(c)) /\ DrainedIsEmpty

(* A step at one slot preserves the invariant if it leaves that slot known. *)
LEMMA OneSlot ==
    ASSUME LeasesInv, NEW c \in Connections,
           NEW o \in SUBSET {"connection", "cursor"}, NEW l \in States, NEW k \in States,
           opened' = [opened EXCEPT ![c] = o],
           leases' = [leases EXCEPT ![c] = l],
           cursors' = [cursors EXCEPT ![c] = k],
           drained' = FALSE \/ (drained' = drained /\ leases[c] # "none"),
           "cursor" \in o => k # "none" /\ "connection" \in o,
           o # {} => l # "none",
           l = "active" => "connection" \in o,
           l = "none" => k = "none"
    PROVE  LeasesInv'
<1>1. LeasesTyped'
  BY DEF LeasesInv, LeasesTyped
<1>2. ASSUME NEW d \in Connections PROVE SlotKnown(d)'
  <2>1. CASE d = c
    BY <2>1 DEF LeasesInv, LeasesTyped, SlotKnown
  <2>2. CASE d # c
    <3>1. SlotKnown(d)
      BY DEF LeasesInv
    <3> QED
      BY <2>2, <3>1 DEF LeasesInv, LeasesTyped, SlotKnown
  <2> QED
    BY <2>1, <2>2
<1>3. DrainedIsEmpty'
  BY DEF LeasesInv, LeasesTyped, DrainedIsEmpty
<1> QED
  BY <1>1, <1>2, <1>3 DEF LeasesInv

(* The body of a release under either kind of retry: whatever the closers do,
   the slot stays known. *)
LEMMA CloseKeepsSlot ==
    ASSUME LeasesInv, NEW c \in Connections, NEW retry \in BOOLEAN, CloseConnection(c, retry)
    PROVE  LeasesInv'
<1>1. PICK outcome \in (IF MayTry(cursors[c], retry) THEN Outcomes ELSE {"stuck"}), last \in Outcomes :
          /\ cursors' = [cursors EXCEPT ![c] = IF MayTry(@, retry) THEN Left(outcome) ELSE @]
          /\ IF CursorsClear(c, outcome)
             THEN /\ opened' = [opened EXCEPT ![c] = IF last = "stuck" THEN StillOpen(c, "cursor", outcome)
                                                     ELSE StillOpen(c, "cursor", outcome) \ {"connection"}]
                  /\ leases' = [leases EXCEPT ![c] = Left(last)]
             ELSE /\ opened' = [opened EXCEPT ![c] = StillOpen(c, "cursor", outcome)]
                  /\ leases' = [leases EXCEPT ![c] = "failed"]
  BY DEF CloseConnection
<1>2. MayTry(leases[c], retry) /\ drained' = drained
  BY DEF CloseConnection
<1> DEFINE children == StillOpen(c, "cursor", outcome)
           k == IF MayTry(cursors[c], retry) THEN Left(outcome) ELSE cursors[c]
<1>3. /\ leases[c] # "none" /\ SlotKnown(c)
      /\ opened[c] \in SUBSET {"connection", "cursor"} /\ cursors[c] \in States
  BY <1>2 DEF MayTry, LeasesInv, LeasesTyped
<1>4. children \in SUBSET {"connection", "cursor"} /\ k \in States /\ outcome \in Outcomes
  BY <1>3 DEF StillOpen, Left, States, Outcomes
<1>5. cursors' = [cursors EXCEPT ![c] = k]
  BY <1>1
<1>6. "cursor" \in children => k # "none" /\ "connection" \in children
  BY <1>3 DEF SlotKnown, StillOpen, Left, Outcomes
<1>7. CASE CursorsClear(c, outcome)
  <2> DEFINE o == IF last = "stuck" THEN children ELSE children \ {"connection"}
  <2>1. opened' = [opened EXCEPT ![c] = o] /\ leases' = [leases EXCEPT ![c] = Left(last)]
    BY <1>1, <1>7
  <2>2. k = "none" /\ "cursor" \notin children
    BY <1>1, <1>3, <1>7 DEF CursorsClear, SlotKnown, StillOpen, Left, MayTry
  <2>3. Left(last) \in States /\ Left(last) # "active" /\ (o # {} => Left(last) # "none")
    BY <1>1, <1>4, <2>2 DEF Left, States, Outcomes
  <2>4. o \in SUBSET {"connection", "cursor"} /\ "cursor" \notin o
    BY <1>4, <2>2
  <2> HIDE DEF o, k, children
  <2> QED
    BY <1>2, <1>3, <1>4, <1>5, <2>1, <2>2, <2>3, <2>4, OneSlot
<1>8. CASE ~CursorsClear(c, outcome)
  <2>1. opened' = [opened EXCEPT ![c] = children] /\ leases' = [leases EXCEPT ![c] = "failed"]
    BY <1>1, <1>8
  <2>2. "failed" \in States
    BY DEF States
  <2> HIDE DEF k, children
  <2> QED
    BY <1>2, <1>3, <1>4, <1>5, <1>6, <2>1, <2>2, OneSlot
<1> QED
  BY <1>7, <1>8

(* Types, the registries of every slot and the drain survive every step. *)
LEMMA LeasesStep == LeasesInv /\ [LeasesNext]_leaseVars => LeasesInv'
<1> SUFFICES ASSUME LeasesInv, [LeasesNext]_leaseVars PROVE LeasesInv'
  OBVIOUS
<1>1. CASE UNCHANGED leaseVars
  BY <1>1 DEF leaseVars, LeasesInv, LeasesTyped, SlotKnown, DrainedIsEmpty
<1>2. CASE DrainReturns
  BY <1>2 DEF DrainReturns, LeasesInv, LeasesTyped, SlotKnown, DrainedIsEmpty
<1>3. ASSUME NEW c \in Connections, Connect(c) PROVE LeasesInv'
  <2> DEFINE o == opened[c] \cup {"connection"}
  <2>1. /\ opened' = [opened EXCEPT ![c] = o] /\ leases' = [leases EXCEPT ![c] = "active"]
        /\ cursors' = [cursors EXCEPT ![c] = "none"] /\ drained' = FALSE
    BY <1>3 DEF Connect, LeasesInv, LeasesTyped, SlotKnown
  <2>2. o \in SUBSET {"connection", "cursor"} /\ "cursor" \notin o /\ "connection" \in o
    BY <1>3 DEF Connect, LeasesInv, LeasesTyped, SlotKnown
  <2>3. "active" \in States /\ "none" \in States
    BY DEF States
  <2> HIDE DEF o
  <2> QED
    BY <2>1, <2>2, <2>3, OneSlot
<1>4. ASSUME NEW c \in Connections, OpenCursor(c) PROVE LeasesInv'
  <2> DEFINE o == opened[c] \cup {"cursor"}
  <2>1. /\ opened' = [opened EXCEPT ![c] = o] /\ leases' = [leases EXCEPT ![c] = "active"]
        /\ cursors' = [cursors EXCEPT ![c] = "active"] /\ drained' = drained /\ leases[c] # "none"
    BY <1>4 DEF OpenCursor, LeasesInv, LeasesTyped
  <2>2. o \in SUBSET {"connection", "cursor"} /\ "connection" \in o
    BY <1>4 DEF OpenCursor, LeasesInv, LeasesTyped, SlotKnown
  <2>3. "active" \in States
    BY DEF States
  <2> HIDE DEF o
  <2> QED
    BY <2>1, <2>2, <2>3, OneSlot
<1>5. ASSUME NEW c \in Connections, CloseCursor(c) PROVE LeasesInv'
  <2>1. PICK outcome \in Outcomes :
            /\ opened' = [opened EXCEPT ![c] = StillOpen(c, "cursor", outcome)]
            /\ cursors' = [cursors EXCEPT ![c] = Left(outcome)]
    BY <1>5 DEF CloseCursor
  <2> DEFINE o == StillOpen(c, "cursor", outcome)
             k == Left(outcome)
  <2>2. /\ leases' = [leases EXCEPT ![c] = "active"] /\ drained' = drained /\ leases[c] # "none"
    BY <1>5 DEF CloseCursor, LeasesInv, LeasesTyped
  <2>3. o \in SUBSET {"connection", "cursor"} /\ "connection" \in o /\ k \in States
    BY <1>5 DEF CloseCursor, LeasesInv, LeasesTyped, SlotKnown, StillOpen, Left, States
  <2>4. "cursor" \in o => k # "none"
    BY <2>1 DEF StillOpen, Left, Outcomes
  <2>5. "active" \in States
    BY DEF States
  <2> HIDE DEF o, k
  <2>6. /\ opened' = [opened EXCEPT ![c] = o] /\ cursors' = [cursors EXCEPT ![c] = k]
    BY <2>1 DEF o, k
  <2> QED
    BY <2>2, <2>3, <2>4, <2>5, <2>6, OneSlot
<1>6. ASSUME NEW c \in Connections, CloseConnection(c, FALSE) \/ DrainOne(c) PROVE LeasesInv'
  BY <1>6, CloseKeepsSlot DEF DrainOne
<1> QED
  BY <1>1, <1>2, <1>3, <1>4, <1>5, <1>6 DEF LeasesNext

(* The invariant: what is open has a lease, and a cursor's slot its connection. *)
THEOREM LeasesInvariance == LeasesSpec => []LeasesInv
<1>1. LeasesInit => LeasesInv
  BY DEF LeasesInit, LeasesInv, LeasesTyped, SlotKnown, DrainedIsEmpty, States
<1> QED
  BY <1>1, LeasesStep, PTL DEF LeasesSpec

(* Whatever closes, probes and retries fail (SQLiteConnections and
   OwnedResources.drain): no connection is closed under an open cursor, nothing
   open is forgotten, and a drain that returned left nothing open. *)
THEOREM ConnectionsAreAccounted == LeasesSpec => []ConnectionsAccounted
<1>1. LeasesInv => ConnectionsAccounted
  BY DEF LeasesInv, LeasesTyped, SlotKnown, DrainedIsEmpty, ConnectionsAccounted
<1> QED
  BY <1>1, LeasesInvariance, PTL

-----------------------------------------------------------------------------
(* The disposal of one descriptor or handle.                               *)

CleanupTyped ==
    /\ adapter \in {"descriptor", "handle"}
    /\ table \in [Numbers -> Parts \cup {"free", "twin", "other"}]
    /\ evidence \in [Parts -> {"owned_open", "verified_released", "ambiguous",
                               "verified_safe_to_retry", "release_in_progress"}]
    /\ number \in [Parts -> Numbers \cup {Unknown}]
    /\ released \in [Parts -> BOOLEAN]
    /\ lease \in {"none", "held", "failed"}
    /\ disposal \in {Idle, <<"probe", "guard">>} \cup ({"enter", "verify", "recheck"} \X Parts)
    /\ looks \in Nat

(* What is open is a part that is not released: its number is known, or it
   was lost and the evidence says so.                                      *)
OpenIsKnown ==
    \A p \in Parts : \A n \in Numbers :
       table[n] = p => /\ ~released[p]
                       /\ number[p] = n \/ (number[p] = Unknown /\ evidence[p] = "ambiguous")

(* A part whose evidence permits a close is open under its number. *)
CloseableIsOpen ==
    \A p \in Parts :
       number[p] # Unknown /\ ~released[p]
         /\ evidence[p] \in {"owned_open", "verified_safe_to_retry", "verified_released"} =>
            table[number[p]] = p

(* Where the release stands: the guard goes last. *)
DisposalInOrder ==
    /\ \A p \in Parts :
          /\ disposal \in {<<"verify", p>>, <<"recheck", p>>} => number[p] # Unknown /\ ~released[p]
          /\ evidence[p] = "release_in_progress" <=> disposal = <<"verify", p>>
          /\ disposal = <<"recheck", p>> => evidence[p] = "ambiguous"
    /\ disposal \in {<<"enter", "guard">>, <<"verify", "guard">>, <<"recheck", "guard">>} =>
          released["primary"]
    /\ released["guard"] => released["primary"]
    /\ disposal # Idle => lease # "none"
    /\ lease = "none" => evidence = NewEvidence /\ number = NewNumbers /\ released = NewReleased

(* The looks each stage of a release may have made. *)
LooksBounded ==
    /\ disposal = Idle => looks = 0
    /\ adapter = "descriptor" =>
          /\ disposal = <<"enter", "primary">> =>
                looks <= 1 /\ (number["guard"] = Unknown => looks = 0)
          /\ disposal = <<"verify", "primary">> => looks <= 3
          /\ disposal = <<"recheck", "primary">> => looks <= 4
          /\ disposal = <<"enter", "guard">> => looks <= 5
          /\ disposal = <<"verify", "guard">> => looks <= 6
          /\ disposal = <<"recheck", "guard">> => looks <= 7
          /\ looks <= 8

CleanupInv ==
    CleanupTyped /\ OpenIsKnown /\ CloseableIsOpen /\ DisposalInOrder /\ LooksBounded /\ ~misclosed

LEMMA CleanupStart == CleanupInit => CleanupInv
BY CleanupAssumption DEF CleanupInit, CleanupInv, CleanupTyped, OpenIsKnown, CloseableIsOpen, DisposalInOrder,
   LooksBounded, NewEvidence, NewNumbers, NewReleased, Idle, Parts

(* A number found absent is not open as this part, nor is any other. *)
LEMMA AbsentIsGone ==
    ASSUME CleanupInv, NEW p \in Parts, number[p] # Unknown, Absent(p)
    PROVE  \A n \in Numbers : table[n] # p
<1>1. \A n \in Numbers : table[n] = p => number[p] = n
  BY DEF CleanupInv, OpenIsKnown
<1>2. table[number[p]] # p
  BY DEF Absent, HandleValid, FdAbsent, DescriptorCurrent, CleanupInv, CleanupTyped, Parts
<1> QED
  BY <1>1, <1>2

(* What may be closed is open under its number. *)
LEMMA ClosesItsOwn ==
    ASSUME CleanupInv, NEW p \in Parts, disposal = <<"enter", p>>, number[p] # Unknown, ~released[p],
           evidence[p] # "ambiguous"
    PROVE  table[number[p]] = p /\ number[p] \in Numbers
<1>1. evidence[p] # "release_in_progress"
  BY DEF CleanupInv, DisposalInOrder
<1> QED
  BY <1>1 DEF CleanupInv, CleanupTyped, CloseableIsOpen

(* With no lease there is nothing open. *)
LEMMA WithoutLease ==
    ASSUME CleanupInv, lease = "none"
    PROVE  /\ evidence = NewEvidence /\ number = NewNumbers /\ released = NewReleased
           /\ \A n \in Numbers : table[n] \notin Parts
BY CleanupAssumption DEF CleanupInv, OpenIsKnown, DisposalInOrder, NewEvidence, NewNumbers, NewReleased, Parts

LEMMA AcquireKeeps == ASSUME CleanupInv, Acquire PROVE CleanupInv'
<1>1. /\ evidence = NewEvidence /\ number = NewNumbers /\ released = NewReleased
      /\ \A n \in Numbers : table[n] \notin Parts
      /\ disposal = Idle /\ looks = 0 /\ UNCHANGED <<adapter, released, looks, misclosed>> /\ lease' = "held"
  BY WithoutLease DEF Acquire, CleanupInv, LooksBounded
<1>2. CASE Returns("primary") /\ UNCHANGED disposal
  <2>1. PICK n \in Numbers : /\ table' = [table EXCEPT ![n] = "primary"]
                             /\ number' = [number EXCEPT !["primary"] = n]
    BY <1>2 DEF Returns, Allocate
  <2>2. evidence' = [evidence EXCEPT !["primary"] = "owned_open"]
    BY <1>2 DEF Returns
  <2>3. CleanupTyped'
    BY <1>1, <1>2, <2>1, <2>2 DEF CleanupInv, CleanupTyped, Parts
  <2>4. OpenIsKnown' /\ CloseableIsOpen'
    BY <1>1, <2>1, <2>2, CleanupAssumption DEF CleanupInv, CleanupTyped, OpenIsKnown, CloseableIsOpen, NewNumbers,
       NewReleased, Parts
  <2>5. DisposalInOrder' /\ LooksBounded' /\ ~misclosed'
    BY <1>1, <1>2, <2>2 DEF CleanupInv, DisposalInOrder, LooksBounded, NewEvidence, NewReleased, Idle, Parts
  <2> QED
    BY <2>3, <2>4, <2>5 DEF CleanupInv
<1>3. CASE /\ evidence' = [evidence EXCEPT !["primary"] = "verified_released"]
           /\ disposal' = Begun
           /\ UNCHANGED <<table, number>>
  <2>1. CleanupTyped'
    BY <1>1, <1>3 DEF CleanupInv, CleanupTyped, Begun, Parts
  <2>2. OpenIsKnown' /\ CloseableIsOpen'
    BY <1>1, <1>3, CleanupAssumption DEF OpenIsKnown, CloseableIsOpen, NewNumbers, Parts
  <2>3. DisposalInOrder' /\ LooksBounded' /\ ~misclosed'
    BY <1>1, <1>3 DEF CleanupInv, DisposalInOrder, LooksBounded, NewEvidence, NewReleased, Idle, Begun, Parts
  <2> QED
    BY <2>1, <2>2, <2>3 DEF CleanupInv
<1>4. CASE /\ Interrupted("primary")
           /\ evidence' = [evidence EXCEPT !["primary"] = "ambiguous"]
           /\ disposal' = Begun
  <2>1. /\ table' \in [Numbers -> Parts \cup {"free", "twin", "other"}] /\ number' = number
        /\ \A n \in Numbers : table'[n] # "guard"
    BY <1>1, <1>4 DEF Interrupted, Allocate, CleanupInv, CleanupTyped, Parts
  <2>2. CleanupTyped'
    BY <1>1, <1>4, <2>1 DEF CleanupInv, CleanupTyped, Begun, Parts
  <2>3. OpenIsKnown' /\ CloseableIsOpen'
    BY <1>1, <1>4, <2>1 DEF OpenIsKnown, CloseableIsOpen, NewNumbers, NewReleased, NewEvidence, Parts
  <2>4. DisposalInOrder' /\ LooksBounded' /\ ~misclosed'
    BY <1>1, <1>4 DEF CleanupInv, DisposalInOrder, LooksBounded, NewEvidence, NewReleased, Idle, Begun, Parts
  <2> QED
    BY <2>2, <2>3, <2>4 DEF CleanupInv
<1> QED
  BY <1>2, <1>3, <1>4 DEF Acquire

LEMMA BeginReleaseKeeps == ASSUME CleanupInv, BeginRelease PROVE CleanupInv'
<1>1. CleanupTyped' /\ OpenIsKnown' /\ CloseableIsOpen' /\ ~misclosed'
  BY DEF BeginRelease, CleanupInv, CleanupTyped, OpenIsKnown, CloseableIsOpen, Begun, Parts
<1>2. DisposalInOrder' /\ LooksBounded'
  BY DEF BeginRelease, CleanupInv, DisposalInOrder, LooksBounded, Begun, Idle, Parts
<1> QED
  BY <1>1, <1>2 DEF CleanupInv

(* A part whose release ends, in whatever way, leaves the other as it was. *)
LEMMA EndsKeeps ==
    ASSUME CleanupInv, NEW p \in Parts, NEW outcome \in {"verified_released", "ambiguous", "verified_safe_to_retry"},
           disposal \in {<<"enter", p>>, <<"verify", p>>, <<"recheck", p>>}, number[p] # Unknown, ~released[p],
           Ends(p, outcome), UNCHANGED <<adapter, number, lease>>,
           table' \in {table, [table EXCEPT ![number[p]] = "free"]},
           table' # table => table[number[p]] = p,
           outcome = "verified_released" => \A n \in Numbers : table'[n] # p,
           outcome = "verified_safe_to_retry" => table'[number[p]] = p,
           ~misclosed', looks' \in Nat,
           adapter = "descriptor" => looks' <= 8 /\ (p = "primary" => looks' <= 5)
    PROVE  CleanupInv'
<1> DEFINE done == outcome = "verified_released"
<1>1. /\ evidence' = [evidence EXCEPT ![p] = outcome] /\ released' = [released EXCEPT ![p] = done]
      /\ disposal' = IF p = "primary" /\ done THEN <<"enter", "guard">> ELSE <<"probe", "guard">>
  BY DEF Ends
<1>2. /\ evidence'[p] = outcome /\ released'[p] = done
      /\ \A q \in Parts \ {p} : evidence'[q] = evidence[q] /\ released'[q] = released[q]
      /\ released' \in [Parts -> BOOLEAN]
  BY <1>1 DEF CleanupInv, CleanupTyped
<1>3. /\ table' \in [Numbers -> Parts \cup {"free", "twin", "other"}]
      /\ \A n \in Numbers : table'[n] \in Parts => table'[n] = table[n]
      /\ \A q \in Parts \ {p} : number[q] # Unknown /\ table[number[q]] = q => table'[number[q]] = q
  <2>1. CASE table' = table
    BY <2>1 DEF CleanupInv, CleanupTyped
  <2>2. CASE table' = [table EXCEPT ![number[p]] = "free"] /\ table[number[p]] = p
    BY <2>2 DEF CleanupInv, CleanupTyped, Parts
  <2> QED
    BY <2>1, <2>2
<1>4. CleanupTyped'
  <2>1. evidence' \in [Parts -> {"owned_open", "verified_released", "ambiguous",
                                 "verified_safe_to_retry", "release_in_progress"}]
    BY <1>1 DEF CleanupInv, CleanupTyped
  <2>2. disposal' \in {Idle, <<"probe", "guard">>} \cup ({"enter", "verify", "recheck"} \X Parts)
    BY <1>1 DEF Parts
  <2> QED
    BY <1>2, <1>3, <2>1, <2>2 DEF CleanupInv, CleanupTyped
<1>5. OpenIsKnown'
  BY <1>2, <1>3 DEF CleanupInv, OpenIsKnown
<1>6. CloseableIsOpen'
  BY <1>2, <1>3 DEF CleanupInv, CloseableIsOpen
<1>7. DisposalInOrder'
  <2>1. /\ lease # "none"
        /\ p = "primary" => ~released["guard"]
        /\ p = "guard" => released["primary"]
    BY DEF CleanupInv, DisposalInOrder, Idle
  <2>2. \A q \in Parts : evidence'[q] # "release_in_progress"
    BY <1>2 DEF CleanupInv, DisposalInOrder, Parts
  <2>3. lease' # "none"
    BY <2>1
  <2>4. released'["guard"] => released'["primary"]
    BY <1>2, <2>1 DEF Parts
  <2>5. disposal' = <<"enter", "guard">> => released'["primary"]
    BY <1>1, <1>2 DEF Parts
  <2>6. \A q \in Parts : disposal' \notin {<<"verify", q>>, <<"recheck", q>>}
    BY <1>1
  <2> QED
    BY <1>1, <2>2, <2>3, <2>4, <2>5, <2>6 DEF DisposalInOrder
<1>8. LooksBounded'
  BY <1>1 DEF LooksBounded, Idle
<1> QED
  BY <1>4, <1>5, <1>6, <1>7, <1>8 DEF CleanupInv

(* A part whose close has been dispatched, and of which nothing is known yet. *)
LEMMA AwaitsKeeps ==
    ASSUME CleanupInv, NEW p \in Parts, NEW step \in {"verify", "recheck"},
           NEW state \in {"release_in_progress", "ambiguous"}, step = "verify" <=> state # "ambiguous",
           disposal \in {<<"enter", p>>, <<"verify", p>>}, number[p] # Unknown, ~released[p],
           disposal' = <<step, p>>,
           evidence' = [evidence EXCEPT ![p] = state],
           UNCHANGED <<adapter, number, lease, released>>,
           table' \in {table, [table EXCEPT ![number[p]] = "free"]},
           table' # table => table[number[p]] = p,
           ~misclosed', looks' \in Nat,
           adapter = "descriptor" => looks' <= IF p = "primary" THEN 4 ELSE 7,
           adapter = "descriptor" /\ step = "verify" => looks' <= IF p = "primary" THEN 3 ELSE 6
    PROVE  CleanupInv'
<1>1. /\ evidence'[p] = state
      /\ \A q \in Parts \ {p} : evidence'[q] = evidence[q]
  BY DEF CleanupInv, CleanupTyped
<1>2. /\ table' \in [Numbers -> Parts \cup {"free", "twin", "other"}]
      /\ \A n \in Numbers : table'[n] \in Parts => table'[n] = table[n]
      /\ \A q \in Parts \ {p} : number[q] # Unknown /\ table[number[q]] = q => table'[number[q]] = q
  <2>1. CASE table' = table
    BY <2>1 DEF CleanupInv, CleanupTyped
  <2>2. CASE table' = [table EXCEPT ![number[p]] = "free"] /\ table[number[p]] = p
    BY <2>2 DEF CleanupInv, CleanupTyped, Parts
  <2> QED
    BY <2>1, <2>2
<1>3. CleanupTyped'
  BY <1>2 DEF CleanupInv, CleanupTyped
<1>4. OpenIsKnown'
  BY <1>1, <1>2 DEF CleanupInv, OpenIsKnown
<1>5. CloseableIsOpen'
  BY <1>1, <1>2 DEF CleanupInv, CloseableIsOpen
<1>6. DisposalInOrder'
  BY <1>1 DEF CleanupInv, DisposalInOrder, Idle, Parts
<1>7. LooksBounded'
  BY DEF LooksBounded, Idle, Parts
<1> QED
  BY <1>3, <1>4, <1>5, <1>6, <1>7 DEF CleanupInv

LEMMA NothingToCloseKeeps ==
    ASSUME CleanupInv, NEW p \in Parts, NothingToClose(p)
    PROVE  CleanupInv'
<1>1. /\ disposal = <<"enter", p>> /\ lease # "none"
      /\ p = "guard" => released["primary"]
      /\ UNCHANGED <<adapter, table, evidence, number, lease, looks, misclosed>>
  BY DEF NothingToClose, CleanupInv, DisposalInOrder, Idle
<1>2. CASE evidence[p] = "ambiguous"
  <2>1. disposal' = <<"probe", "guard">> /\ UNCHANGED released
    BY <1>2 DEF NothingToClose
  <2>2. CleanupTyped' /\ OpenIsKnown' /\ CloseableIsOpen'
    BY <1>1, <2>1 DEF CleanupInv, CleanupTyped, OpenIsKnown, CloseableIsOpen
  <2>3. DisposalInOrder' /\ LooksBounded'
    BY <1>1, <2>1 DEF CleanupInv, DisposalInOrder, LooksBounded, Idle, Parts
  <2> QED
    BY <1>1, <2>2, <2>3 DEF CleanupInv
<1>3. CASE evidence[p] # "ambiguous"
  <2>1. /\ released' = [released EXCEPT ![p] = TRUE]
        /\ disposal' = IF p = "primary" THEN <<"enter", "guard">> ELSE <<"probe", "guard">>
    BY <1>3 DEF NothingToClose
  <2>2. released'[p] /\ (\A q \in Parts \ {p} : released'[q] = released[q])
    BY <2>1 DEF CleanupInv, CleanupTyped
  <2>3. \A n \in Numbers : table[n] # p
    BY <1>3, CleanupAssumption DEF NothingToClose, CleanupInv, OpenIsKnown
  <2>4. CleanupTyped'
    BY <1>1, <2>1 DEF CleanupInv, CleanupTyped, Parts
  <2>5. OpenIsKnown' /\ CloseableIsOpen'
    BY <1>1, <2>2, <2>3 DEF CleanupInv, OpenIsKnown, CloseableIsOpen
  <2>6. DisposalInOrder'
    BY <1>1, <2>1, <2>2 DEF CleanupInv, DisposalInOrder, Idle, Parts
  <2>7. LooksBounded'
    BY <1>1, <2>1 DEF CleanupInv, CleanupTyped, LooksBounded, Idle, Parts
  <2> QED
    BY <1>1, <2>4, <2>5, <2>6, <2>7 DEF CleanupInv
<1> QED
  BY <1>2, <1>3

(* ReleaseEvidence.run before a close, and its looks. *)
LEMMA RunKeeps ==
    ASSUME CleanupInv, NEW p \in Parts, RunFindsAbsent(p) \/ RunStaysAmbiguous(p) \/ RunCannotPrepare(p)
    PROVE  CleanupInv'
<1>1. /\ disposal = <<"enter", p>> /\ number[p] # Unknown /\ ~released[p]
      /\ UNCHANGED <<adapter, lease, misclosed, table, number>>
      /\ looks' = looks + 1 \/ looks' = looks + 2
  BY DEF RunFindsAbsent, RunStaysAmbiguous, RunCannotPrepare, Entered, Looked
<1>2. looks' \in Nat /\ (adapter = "descriptor" => looks' <= 8 /\ (p = "primary" => looks' <= 5))
  BY <1>1 DEF CleanupInv, CleanupTyped, LooksBounded, Parts
<1>3. CASE RunFindsAbsent(p)
  BY <1>1, <1>2, <1>3, AbsentIsGone, EndsKeeps DEF RunFindsAbsent, CleanupInv
<1>4. CASE RunStaysAmbiguous(p)
  BY <1>1, <1>2, <1>4, EndsKeeps DEF RunStaysAmbiguous, CleanupInv
<1>5. CASE RunCannotPrepare(p)
  BY <1>1, <1>2, <1>5, ClosesItsOwn, EndsKeeps DEF RunCannotPrepare, CleanupInv
<1> QED
  BY <1>3, <1>4, <1>5

LEMMA CloseKeeps == ASSUME CleanupInv, NEW p \in Parts, Close(p) PROVE CleanupInv'
<1>1. /\ disposal = <<"enter", p>> /\ number[p] # Unknown /\ ~released[p] /\ evidence[p] # "ambiguous"
      /\ misclosed' = (misclosed \/ table[number[p]] # p)
      /\ looks' = looks + (IF p = "guard" /\ adapter = "descriptor" THEN 1 ELSE 2)
      /\ UNCHANGED <<adapter, number, lease>>
  BY DEF Close, MayClose, Looked
<1>2. table[number[p]] = p /\ number[p] \in Numbers
  BY <1>1, ClosesItsOwn
<1>3. ~misclosed'
  BY <1>1, <1>2 DEF CleanupInv
<1>4. /\ looks' \in Nat
      /\ adapter = "descriptor" => looks' <= IF p = "primary" THEN 3 ELSE 6
      /\ adapter = "descriptor" => looks' <= IF p = "primary" THEN 4 ELSE 7
      /\ adapter = "descriptor" => looks' <= 8 /\ (p = "primary" => looks' <= 5)
  BY <1>1 DEF CleanupInv, CleanupTyped, LooksBounded, Parts
<1>5. CASE NativeReceipt(p)
  <2>1. table' = [table EXCEPT ![number[p]] = "free"] /\ Ends(p, "verified_released")
    BY <1>5 DEF NativeReceipt
  <2>2. \A n \in Numbers : table'[n] # p
    BY <1>1, <1>2, <2>1 DEF CleanupInv, CleanupTyped, OpenIsKnown, Parts
  <2> QED
    BY <1>1, <1>2, <1>3, <1>4, <2>1, <2>2, EndsKeeps
<1>6. CASE /\ UNCHANGED table \/ table' = [table EXCEPT ![number[p]] = "free"]
           /\ evidence' = [evidence EXCEPT ![p] = "release_in_progress"]
           /\ disposal' = <<"verify", p>>
           /\ UNCHANGED released
  BY <1>1, <1>2, <1>3, <1>4, <1>6, AwaitsKeeps
<1>7. CASE /\ UNCHANGED table \/ table' = [table EXCEPT ![number[p]] = "free"]
           /\ evidence' = [evidence EXCEPT ![p] = "ambiguous"]
           /\ disposal' = <<"recheck", p>>
           /\ UNCHANGED released
  BY <1>1, <1>2, <1>3, <1>4, <1>7, AwaitsKeeps
<1> QED
  BY <1>5, <1>6, <1>7 DEF Close

LEMMA AfterCloseKeeps == ASSUME CleanupInv, NEW p \in Parts, Verify(p) \/ Recheck(p) PROVE CleanupInv'
<1>1. /\ disposal \in {<<"verify", p>>, <<"recheck", p>>} /\ looks' = looks + 1
      /\ UNCHANGED <<adapter, table, number, lease, misclosed>>
  BY DEF Verify, Recheck, Looked
<1>2. number[p] # Unknown /\ ~released[p]
  BY <1>1 DEF CleanupInv, DisposalInOrder
<1>3. /\ looks' \in Nat
      /\ adapter = "descriptor" => looks' <= 8 /\ (p = "primary" => looks' <= 5)
      /\ adapter = "descriptor" /\ Verify(p) => looks' <= IF p = "primary" THEN 4 ELSE 7
  BY <1>1 DEF CleanupInv, CleanupTyped, LooksBounded, Verify, Parts
<1>4. CASE Absent(p) /\ Ends(p, "verified_released")
  BY <1>1, <1>2, <1>3, <1>4, AbsentIsGone, EndsKeeps DEF CleanupInv
<1>5. CASE Ends(p, "ambiguous")
  BY <1>1, <1>2, <1>3, <1>5, EndsKeeps DEF CleanupInv
<1>6. CASE /\ Verify(p)
           /\ evidence' = [evidence EXCEPT ![p] = "ambiguous"]
           /\ disposal' = <<"recheck", p>>
           /\ UNCHANGED released
  <2>1. disposal = <<"verify", p>>
    BY <1>6 DEF Verify
  <2> QED
    BY <1>1, <1>2, <1>3, <1>6, <2>1, AwaitsKeeps DEF CleanupInv
<1> QED
  BY <1>4, <1>5, <1>6 DEF Verify, Recheck

(* prepare: the guard of a primary that may be closed. *)
LEMMA PreparesKnown ==
    ASSUME CleanupInv, Prepares
    PROVE  /\ disposal = <<"enter", "primary">> /\ lease # "none"
           /\ ~released["primary"] /\ ~released["guard"]
           /\ number["guard"] = Unknown /\ evidence["guard"] \notin {"ambiguous", "release_in_progress"}
           /\ table[number["primary"]] = "primary" /\ number["primary"] \in Numbers
           /\ \A n \in Numbers : table[n] # "guard"
           /\ adapter = "descriptor" => looks = 0
           /\ UNCHANGED <<adapter, lease, misclosed>>
<1>1. /\ disposal = <<"enter", "primary">> /\ number["primary"] # Unknown /\ ~released["primary"]
      /\ evidence["primary"] # "ambiguous" /\ number["guard"] = Unknown /\ evidence["guard"] # "ambiguous"
      /\ UNCHANGED <<adapter, lease, misclosed>>
  BY DEF Prepares, Entered
<1>2. table[number["primary"]] = "primary" /\ number["primary"] \in Numbers
  BY <1>1, ClosesItsOwn DEF Parts
<1>3. \A n \in Numbers : table[n] # "guard"
  BY <1>1, CleanupAssumption DEF CleanupInv, OpenIsKnown, Parts
<1>4. /\ lease # "none" /\ ~released["guard"] /\ evidence["guard"] # "release_in_progress"
      /\ adapter = "descriptor" => looks = 0
  BY <1>1 DEF CleanupInv, CleanupTyped, DisposalInOrder, LooksBounded, Idle, Parts
<1> QED
  BY <1>1, <1>2, <1>3, <1>4

LEMMA GuardReturnedKeeps ==
    ASSUME CleanupInv, Prepares, Returns("guard"), Looked(1), UNCHANGED <<released, disposal>>
    PROVE  CleanupInv'
<1>1. PICK n \in Numbers : /\ table[n] = "free" /\ table' = [table EXCEPT ![n] = "guard"]
                           /\ number' = [number EXCEPT !["guard"] = n]
  BY DEF Returns, Allocate
<1>2. evidence' = [evidence EXCEPT !["guard"] = "owned_open"] /\ looks' = looks + 1
  BY DEF Returns, Looked
<1>3. CleanupTyped'
  BY <1>1, <1>2, PreparesKnown DEF CleanupInv, CleanupTyped, Parts
<1>4. OpenIsKnown' /\ CloseableIsOpen'
  BY <1>1, <1>2, PreparesKnown DEF CleanupInv, CleanupTyped, OpenIsKnown, CloseableIsOpen, Parts
<1>5. DisposalInOrder' /\ LooksBounded' /\ ~misclosed'
  BY <1>1, <1>2, PreparesKnown, CleanupAssumption
     DEF CleanupInv, CleanupTyped, DisposalInOrder, LooksBounded, Idle, Parts
<1> QED
  BY <1>3, <1>4, <1>5 DEF CleanupInv

LEMMA GuardUnavailableKeeps ==
    ASSUME CleanupInv, Prepares, NEW guard \in {"verified_released", "ambiguous"}, GuardUnavailable(guard),
           number' \in [Parts -> Numbers \cup {Unknown}], number'["primary"] = number["primary"],
           table' \in [Numbers -> Parts \cup {"free", "twin", "other"}],
           \A n \in Numbers : table'[n] = table[n] \/ (table[n] = "free" /\ table'[n] = "guard"),
           guard = "verified_released" => UNCHANGED <<table, number>>,
           \A n \in Numbers : table'[n] = "guard" => number'["guard"] \in {n, Unknown}
    PROVE  CleanupInv'
<1>1. /\ evidence' = [evidence EXCEPT !["primary"] = "verified_safe_to_retry", !["guard"] = guard]
      /\ disposal' = <<"probe", "guard">> /\ looks' = looks + 3 /\ UNCHANGED released
  BY DEF GuardUnavailable, Looked
<1>2. CleanupTyped'
  BY <1>1, PreparesKnown DEF CleanupInv, CleanupTyped, Parts
<1>3. OpenIsKnown'
  <2>1. \A n \in Numbers : table'[n] = "primary" => number'["primary"] = n
    BY PreparesKnown, CleanupAssumption DEF CleanupInv, OpenIsKnown, Parts
  <2>2. evidence'["guard"] = guard
    BY <1>1 DEF CleanupInv, CleanupTyped, Parts
  <2>3. \A n \in Numbers : table'[n] = "guard" => number'["guard"] = n \/ guard = "ambiguous"
    BY PreparesKnown
  <2>4. ~released'["primary"] /\ ~released'["guard"]
    BY <1>1, PreparesKnown
  <2> QED
    BY <2>1, <2>2, <2>3, <2>4 DEF OpenIsKnown, Parts
<1>4. CloseableIsOpen'
  BY <1>1, PreparesKnown DEF CleanupInv, CleanupTyped, CloseableIsOpen, Parts
<1>5. DisposalInOrder' /\ LooksBounded' /\ ~misclosed'
  BY <1>1, PreparesKnown DEF CleanupInv, CleanupTyped, DisposalInOrder, LooksBounded, Idle, Parts
<1> QED
  BY <1>2, <1>3, <1>4, <1>5 DEF CleanupInv

LEMMA PrepareKeeps == ASSUME CleanupInv, PrepareGuard \/ DuplicateHandle PROVE CleanupInv'
<1>1. Prepares /\ number["guard"] = Unknown /\ (\A n \in Numbers : table[n] # "guard")
  BY PreparesKnown DEF PrepareGuard, DuplicateHandle
<1>2. /\ table \in [Numbers -> Parts \cup {"free", "twin", "other"}]
      /\ number \in [Parts -> Numbers \cup {Unknown}]
  BY DEF CleanupInv, CleanupTyped
<1>3. CASE Returns("guard") /\ Looked(1) /\ UNCHANGED <<released, disposal>>
  BY <1>1, <1>3, GuardReturnedKeeps
<1>4. CASE GuardUnavailable("verified_released") /\ UNCHANGED <<table, number>>
  BY <1>1, <1>2, <1>4, GuardUnavailableKeeps
<1>5. CASE GuardUnavailable("ambiguous") /\ Interrupted("guard")
  <2>1. /\ table' \in [Numbers -> Parts \cup {"free", "twin", "other"}] /\ number' = number
        /\ \A n \in Numbers : table'[n] = table[n] \/ (table[n] = "free" /\ table'[n] = "guard")
    BY <1>2, <1>5 DEF Interrupted, Allocate, Parts
  <2> QED
    BY <1>1, <1>2, <1>5, <2>1, GuardUnavailableKeeps
<1>6. CASE /\ GuardUnavailable("ambiguous")
           /\ \E n \in Numbers : Allocate("guard", n) /\ number' = [number EXCEPT !["guard"] = n]
  <2>1. PICK n \in Numbers : /\ table[n] = "free" /\ table' = [table EXCEPT ![n] = "guard"]
                             /\ number' = [number EXCEPT !["guard"] = n]
    BY <1>6 DEF Allocate
  <2>2. /\ table' \in [Numbers -> Parts \cup {"free", "twin", "other"}]
        /\ \A m \in Numbers : table'[m] = table[m] \/ (table[m] = "free" /\ table'[m] = "guard")
        /\ \A m \in Numbers : table'[m] = "guard" => m = n
    BY <1>1, <1>2, <2>1 DEF Parts
  <2>3. /\ number' \in [Parts -> Numbers \cup {Unknown}] /\ number'["primary"] = number["primary"]
        /\ number'["guard"] = n
    BY <1>2, <2>1 DEF Parts
  <2> QED
    BY <1>1, <1>6, <2>2, <2>3, GuardUnavailableKeeps
<1> QED
  BY <1>3, <1>4, <1>5, <1>6 DEF PrepareGuard, DuplicateHandle

LEMMA ProbeKeeps == ASSUME CleanupInv, Probe PROVE CleanupInv'
<1>1. disposal = <<"probe", "guard">> /\ disposal' = Idle /\ looks' = 0 /\ UNCHANGED <<adapter, table, misclosed>>
  BY DEF Probe
<1>2. CASE \A p \in Parts : released[p]
  <2>1. lease' = "none" /\ evidence' = NewEvidence /\ number' = NewNumbers /\ released' = NewReleased
    BY <1>2 DEF Probe
  <2>2. \A n \in Numbers : table'[n] \notin Parts
    BY <1>1, <1>2 DEF CleanupInv, OpenIsKnown
  <2>3. CleanupTyped'
    BY <1>1, <2>1 DEF CleanupInv, CleanupTyped, NewEvidence, NewNumbers, NewReleased
  <2>4. OpenIsKnown' /\ CloseableIsOpen'
    BY <2>1, <2>2 DEF OpenIsKnown, CloseableIsOpen, NewNumbers
  <2>5. DisposalInOrder' /\ LooksBounded' /\ ~misclosed'
    BY <1>1, <2>1 DEF CleanupInv, DisposalInOrder, LooksBounded, NewEvidence, NewReleased, Idle, Parts
  <2> QED
    BY <2>3, <2>4, <2>5 DEF CleanupInv
<1>3. CASE ~(\A p \in Parts : released[p])
  <2>1. lease' = "failed" /\ UNCHANGED <<evidence, number, released>>
    BY <1>3 DEF Probe
  <2>2. CleanupTyped' /\ OpenIsKnown' /\ CloseableIsOpen'
    BY <1>1, <2>1 DEF CleanupInv, CleanupTyped, OpenIsKnown, CloseableIsOpen
  <2>3. DisposalInOrder' /\ LooksBounded' /\ ~misclosed'
    BY <1>1, <2>1 DEF CleanupInv, DisposalInOrder, LooksBounded, Idle
  <2> QED
    BY <2>2, <2>3 DEF CleanupInv
<1> QED
  BY <1>2, <1>3

LEMMA StrangersKeep == ASSUME CleanupInv, Elsewhere PROVE CleanupInv'
<1>1. /\ UNCHANGED <<adapter, evidence, number, released, lease, disposal, looks, misclosed>>
      /\ table' \in [Numbers -> Parts \cup {"free", "twin", "other"}]
      /\ \A n \in Numbers : table'[n] = table[n] \/ (table[n] \notin Parts /\ table'[n] \notin Parts)
  BY DEF Elsewhere, CleanupInv, CleanupTyped, Parts
<1>2. CleanupTyped' /\ OpenIsKnown' /\ CloseableIsOpen'
  BY <1>1 DEF CleanupInv, CleanupTyped, OpenIsKnown, CloseableIsOpen
<1>3. DisposalInOrder' /\ LooksBounded' /\ ~misclosed'
  BY <1>1 DEF CleanupInv, DisposalInOrder, LooksBounded
<1> QED
  BY <1>2, <1>3 DEF CleanupInv

LEMMA CleanupStep == CleanupInv /\ [CleanupNext]_cleanupVars => CleanupInv'
<1> SUFFICES ASSUME CleanupInv, [CleanupNext]_cleanupVars PROVE CleanupInv'
  OBVIOUS
<1>1. CASE OpenDescriptor \/ AcquireHandle
  BY <1>1, AcquireKeeps DEF OpenDescriptor, AcquireHandle
<1>2. CASE BeginRelease \/ Elsewhere
  BY <1>2, BeginReleaseKeeps, StrangersKeep
<1>3. CASE ReleaseStep
  BY <1>3, PrepareKeeps, ProbeKeeps, NothingToCloseKeeps, RunKeeps, CloseKeeps, AfterCloseKeeps DEF ReleaseStep
<1>4. CASE UNCHANGED cleanupVars
  BY <1>4 DEF cleanupVars, CleanupInv, CleanupTyped, OpenIsKnown, CloseableIsOpen, DisposalInOrder,
     LooksBounded
<1> QED
  BY <1>1, <1>2, <1>3, <1>4 DEF CleanupNext

(* The inductive invariant of disposal: what is open is known or known to be
   lost, what may be closed is open, and each stage has looks left.        *)
THEOREM CleanupInvariance == CleanupSpec => []CleanupInv
BY CleanupStart, CleanupStep, PTL DEF CleanupSpec

(* No close reaches a foreign number, nothing open is forgotten, and eight
   looks suffice, however many numbers the process has.                    *)
THEOREM DescriptorsAreAccounted == CleanupSpec => []DescriptorsAccounted
<1>1. CleanupInv => DescriptorsAccounted
  <2> SUFFICES ASSUME CleanupInv PROVE DescriptorsAccounted
    OBVIOUS
  <2>1. NeverClosesForeign
    BY DEF CleanupInv, NeverClosesForeign
  <2>2. NothingLeaked
    BY WithoutLease DEF NothingLeaked
  <2>3. CreditSuffices
    BY CleanupAssumption DEF CleanupInv, CleanupTyped, LooksBounded, CreditSuffices
  <2> QED
    BY <2>1, <2>2, <2>3 DEF DescriptorsAccounted
<1> QED
  BY <1>1, CleanupInvariance, PTL

-----------------------------------------------------------------------------
(* One HTTP read.                                                          *)

TransportTyped ==
    /\ unsent \in Nat /\ gone \in BOOLEAN /\ cancels \in Nat
    /\ pump \in Items \cup {"none", "receiving", "ended"}
    /\ queue \in {<<>>, <<"part">>, <<"last">>, <<"disconnect">>}
    /\ closed \in BOOLEAN /\ enrolled \in BOOLEAN /\ seen \in BOOLEAN
    /\ token \in {"none", "live", "cancelled"}
    /\ app \in {"reading", "dispatch", "answering", "over"} \cup Draining
    /\ work \in {"none", "running", "ok", "failed"}
    /\ sent \in {"none", "result", "error"}

(* The end of the body is received once, and the look-ahead takes all of it. *)
BodyInOrder ==
    /\ pump = "part" => unsent > 0
    /\ pump = "last" => unsent = 0 /\ queue # <<"last">>
    /\ queue = <<"last">> => unsent = 0
    /\ app \in Draining \cup {"dispatch", "answering"} =>
          unsent = 0 /\ pump \notin {"part", "last"} /\ queue \notin {<<"part">>, <<"last">>}

(* Who has been told: a read in the registry from the moment of the
   disconnect, one whose task was cancelled from then on.                  *)
ReadTold ==
    /\ enrolled <=> app \in Draining
    /\ app = "waiting" => (token = "cancelled" <=> closed) /\ token # "none"
    /\ app = "shielding" => token = "cancelled" /\ cancels > 0
    /\ app = "answering" => token = "live"

(* A read runs within its request, or was left to itself. *)
ReadOwned ==
    /\ work = "running" => app \in Draining \cup {"over"}
    /\ work = "running" /\ app = "over" => token = "cancelled" /\ cancels > 1
    /\ sent # "none" => app = "over" /\ work # "running" /\ token = "live"
    /\ sent = "result" => work = "ok"

TransportInv == TransportTyped /\ BodyInOrder /\ ReadTold /\ ReadOwned

LEMMA TransportStart == TransportInit => TransportInv
<1> SUFFICES ASSUME TransportInit PROVE TransportInv
  OBVIOUS
<1>1. TransportTyped
  <2>1. unsent \in Nat /\ cancels \in Nat
    BY TransportAssumption DEF TransportInit
  <2>2. app \in {"reading", "dispatch", "answering", "over"} \cup Draining
    BY DEF TransportInit
  <2> QED
    BY <2>1, <2>2 DEF TransportInit, TransportTyped
<1>2. BodyInOrder /\ ReadTold /\ ReadOwned
  BY DEF TransportInit, BodyInOrder, ReadTold, ReadOwned, Draining
<1> QED
  BY <1>1, <1>2 DEF TransportInv

LEMMA PumpKeeps ==
    ASSUME TransportInv, ClientLeaves \/ PumpReceives \/ PumpPuts \/ StartsPump
    PROVE  TransportInv'
<1> USE DEF Items, Draining
<1>1. CASE ClientLeaves
  BY <1>1 DEF ClientLeaves, TransportInv, TransportTyped, BodyInOrder, ReadTold, ReadOwned
<1>2. CASE PumpReceives
  <2>1. CASE gone
    BY <1>2, <2>1 DEF PumpReceives, Disconnects, TransportInv, TransportTyped, BodyInOrder, ReadTold,
       ReadOwned
  <2>2. CASE ~gone
    <3>1. TransportTyped' /\ BodyInOrder'
      BY <1>2, <2>2 DEF PumpReceives, TransportInv, TransportTyped, BodyInOrder
    <3> QED
      BY <1>2, <2>2, <3>1 DEF PumpReceives, TransportInv, ReadTold, ReadOwned
  <2> QED
    BY <2>1, <2>2
<1>3. CASE PumpPuts
  BY <1>3 DEF PumpPuts, TransportInv, TransportTyped, BodyInOrder, ReadTold, ReadOwned
<1>4. CASE StartsPump
  BY <1>4 DEF StartsPump, TransportInv, TransportTyped, BodyInOrder, ReadTold, ReadOwned
<1> QED
  BY <1>1, <1>2, <1>3, <1>4

LEMMA BodyKeeps ==
    ASSUME TransportInv, ReadsBody \/ BeginsRead \/ WorkEnds \/ Listens
    PROVE  TransportInv'
<1> USE DEF Items, Draining
<1>1. CASE ReadsBody
  BY <1>1 DEF ReadsBody, RequestEnds, TransportInv, TransportTyped, BodyInOrder, ReadTold, ReadOwned
<1>2. CASE BeginsRead
  BY <1>2 DEF BeginsRead, Enrolled, TransportInv, TransportTyped, BodyInOrder, ReadTold, ReadOwned
<1>3. CASE WorkEnds
  BY <1>3 DEF WorkEnds, TransportInv, TransportTyped, BodyInOrder, ReadTold, ReadOwned
<1>4. CASE Listens
  BY <1>4 DEF Listens, TransportInv, TransportTyped, BodyInOrder, ReadTold, ReadOwned
<1> QED
  BY <1>1, <1>2, <1>3, <1>4

LEMMA DrainKeeps ==
    ASSUME TransportInv, Wakes \/ Sends \/ Cancelled \/ Drained
    PROVE  TransportInv'
<1> USE DEF Items, Draining
<1>1. CASE Wakes
  BY <1>1 DEF Wakes, RequestEnds, TransportInv, TransportTyped, BodyInOrder, ReadTold, ReadOwned
<1>2. CASE Sends
  BY <1>2 DEF Sends, RequestEnds, TransportInv, TransportTyped, BodyInOrder, ReadTold, ReadOwned
<1>3. CASE Cancelled
  <2>1. CASE app = "waiting"
    BY <1>3, <2>1 DEF Cancelled, TransportInv, TransportTyped, BodyInOrder, ReadTold, ReadOwned
  <2>2. CASE app # "waiting"
    <3>1. /\ app' = "over" /\ pump' \in {"none", "ended"} /\ enrolled' = FALSE
          /\ cancels' \in Nat /\ (app = "shielding" => cancels' > 1)
          /\ UNCHANGED <<unsent, gone, queue, closed, token, work, seen, sent>>
      BY <1>3, <2>2 DEF Cancelled, RequestEnds, TransportInv, TransportTyped, ReadTold
    <3>2. TransportTyped'
      BY <3>1 DEF TransportInv, TransportTyped
    <3>3. BodyInOrder'
      BY <3>1 DEF TransportInv, BodyInOrder
    <3>4. ReadTold' /\ ReadOwned'
      BY <1>3, <2>2, <3>1 DEF Cancelled, TransportInv, ReadTold, ReadOwned
    <3> QED
      BY <3>2, <3>3, <3>4 DEF TransportInv
  <2> QED
    BY <2>1, <2>2
<1>4. CASE Drained
  BY <1>4 DEF Drained, RequestEnds, TransportInv, TransportTyped, BodyInOrder, ReadTold, ReadOwned
<1> QED
  BY <1>1, <1>2, <1>3, <1>4

LEMMA TransportStep == TransportInv /\ [TransportNext]_transportVars => TransportInv'
<1> SUFFICES ASSUME TransportInv, [TransportNext]_transportVars PROVE TransportInv'
  OBVIOUS
<1>1. CASE TransportNext
  BY <1>1, PumpKeeps, BodyKeeps, DrainKeeps DEF TransportNext
<1>2. CASE UNCHANGED transportVars
  BY <1>2 DEF transportVars, TransportInv, TransportTyped, BodyInOrder, ReadTold, ReadOwned
<1> QED
  BY <1>1, <1>2

(* The inductive invariant of a request over HTTP: the body is taken in order,
   every enrolled read is told, and no read runs without its request.        *)
THEOREM TransportInvariance == TransportSpec => []TransportInv
BY TransportStart, TransportStep, PTL DEF TransportSpec

(* A read is stopped and waited for with its request, for bodies of any length
   and any number of cancellations.                                          *)
THEOREM ReadsAreDrained == TransportSpec => []ReadsDrained
<1>1. TransportInv => ReadsDrained
  BY DEF TransportInv, TransportTyped, BodyInOrder, ReadTold, ReadOwned, ReadsDrained, Draining
<1> QED
  BY <1>1, TransportInvariance, PTL

-----------------------------------------------------------------------------
(* The native reader.                                                      *)

Building == {"new", "guarding", "piping", "registering"}

NativeTyped ==
    /\ held \in [Names -> {"none", "lost", "owned", "retry", "uncertain", "closed"}]
    /\ slot \in [Names -> {"ours", "free", "other", "twin"}]
    /\ flags \in [closed : BOOLEAN, reading : BOOLEAN, resources_closed : BOOLEAN]
    /\ reader \in {"none", "entering", "polling", "noticing", "parsing", "ending", "closing", "ended"}
    /\ owner \in Building \cup {"failed", "running", "stopping", "joining", "closing", "done"}
    /\ lock \in [by : {"nobody", "reader", "owner"}, todo : Seq(Names)]
    /\ spent \in [reads : Nat, closes : Nat]

(* What is known of a descriptor says what its number denotes. *)
SlotTruth(n) ==
    /\ held[n] = "none" => slot[n] = "free"
    /\ held[n] \in {"owned", "retry"} => slot[n] = "ours"
    /\ held[n] = "closed" => slot[n] \in {"free", "other"}
    /\ held[n] = "lost" => slot[n] \in {"ours", "free"}
SlotsTrue == \A n \in Names : SlotTruth(n)

(* Nothing is allocated twice. *)
NotYet ==
    /\ owner = "new" => held["inotify"] = "none"
    /\ owner \in {"new", "guarding"} => held["guard:inotify"] = "none"
    /\ owner \in {"new", "guarding", "piping"} => held["kill_r"] = "none" /\ held["kill_w"] = "none"

(* Until somebody closes it, a reader that runs has what construction made. *)
Equipped ==
    /\ owner \in Building \ {"new"} => held["inotify"] = "owned"
    /\ owner = "registering" => held["kill_w"] = "owned"
    /\ reader # "none" /\ ~flags.closed => held["inotify"] = "owned" /\ held["kill_w"] = "owned"

(* Disposal has an owner, and nobody disposes of anything before the stop. *)
LockHeld ==
    /\ lock.by = "nobody" => lock.todo = <<>>
    /\ lock.by # "nobody" => flags.closed
    /\ lock.by = "owner" => owner \in {"stopping", "closing"}
    /\ lock.by = "reader" => reader \in {"noticing", "closing"}

(* How far owner and reader can be apart. *)
PhasesAgree ==
    /\ owner \in Building => ~flags.closed /\ ~flags.resources_closed
    /\ owner \in Building \cup {"failed"} => reader = "none"
    /\ owner \in {"running", "stopping"} => reader # "none"
    /\ owner \in {"closing", "done"} => reader \in {"none", "ended"}

(* While the reader polls, its descriptor is open and nobody is at the lock. *)
PollsItsOwn ==
    reader = "polling" => flags.reading /\ lock.by = "nobody" /\ held["inotify"] = "owned"

ClosedIsDone == flags.resources_closed => \A n \in Names : held[n] \in Done

NativeInv ==
    /\ NativeTyped /\ SlotsTrue /\ NotYet /\ Equipped /\ LockHeld /\ PhasesAgree /\ PollsItsOwn
    /\ ClosedIsDone /\ ~foreign

LEMMA NamesAre ==
    /\ DOMAIN GuardOf = {"inotify", "kill_r", "kill_w"}
    /\ Names = {"inotify", "kill_r", "kill_w", "guard:inotify", "guard:kill_r", "guard:kill_w"}
    /\ \A n \in DOMAIN GuardOf : GuardOf[n] \in Names /\ GuardOf[n] # n
    /\ Primaries \o Guards \in Seq(Names)
<1>1. DOMAIN GuardOf = {"inotify", "kill_r", "kill_w"}
  BY DEF GuardOf
<1>2. /\ {Primaries[i] : i \in 1..3} = {"inotify", "kill_r", "kill_w"}
      /\ Primaries \in Seq({"inotify", "kill_r", "kill_w"})
  <2>1. 1..3 = {1, 2, 3}
    OBVIOUS
  <2> QED
    BY <2>1 DEF Primaries
<1>3. /\ {Guards[i] : i \in 1..3} = {"guard:inotify", "guard:kill_r", "guard:kill_w"}
      /\ Guards \in Seq({"guard:inotify", "guard:kill_r", "guard:kill_w"})
  <2>1. 1..3 = {1, 2, 3}
    OBVIOUS
  <2>2. Guards[1] = "guard:inotify" /\ Guards[2] = "guard:kill_r" /\ Guards[3] = "guard:kill_w"
    BY DEF Guards, GuardOf, Primaries
  <2> QED
    BY <2>1, <2>2 DEF Guards
<1>4. Names = {"inotify", "kill_r", "kill_w", "guard:inotify", "guard:kill_r", "guard:kill_w"}
  BY <1>2, <1>3 DEF Names
<1>5. \A n \in DOMAIN GuardOf : GuardOf[n] \in Names /\ GuardOf[n] # n
  BY <1>1, <1>4 DEF GuardOf
<1>6. Primaries \in Seq(Names) /\ Guards \in Seq(Names)
  BY <1>2, <1>3, <1>4
<1> QED
  BY <1>1, <1>4, <1>5, <1>6

LEMMA NativeStart == NativeInit => NativeInv
BY NamesAre DEF NativeInit, NativeInv, NativeTyped, SlotsTrue, SlotTruth, NotYet, Equipped, LockHeld,
   PhasesAgree, PollsItsOwn, ClosedIsDone, Unlocked, Building

(* What an allocation can do to the table of descriptors. *)
LEMMA AllocationKeeps ==
    ASSUME NativeInv, NEW names \in SUBSET Names,
           Returned(names) \/ RefusedAllocation(names) \/ Lost(names),
           \A n \in names : held[n] = "none"
    PROVE  /\ held' \in [Names -> {"none", "lost", "owned", "retry", "uncertain", "closed"}]
           /\ slot' \in [Names -> {"ours", "free", "other", "twin"}]
           /\ SlotsTrue'
           /\ \A n \in Names \ names : held'[n] = held[n]
<1>1. CASE Returned(names)
  BY <1>1 DEF NativeInv, NativeTyped, SlotsTrue, SlotTruth, Returned
<1>2. CASE RefusedAllocation(names)
  BY <1>2 DEF NativeInv, NativeTyped, SlotsTrue, SlotTruth, RefusedAllocation
<1>3. CASE Lost(names)
  <2>1. held' = [n \in Names |-> IF n \in names THEN "lost" ELSE held[n]]
    BY <1>3 DEF Lost
  <2>2. CASE slot' = slot
    BY <2>1, <2>2 DEF NativeInv, NativeTyped, SlotsTrue, SlotTruth
  <2>3. CASE slot' = [n \in Names |-> IF n \in names THEN "ours" ELSE slot[n]]
    BY <2>1, <2>3 DEF NativeInv, NativeTyped, SlotsTrue, SlotTruth
  <2> QED
    BY <1>3, <2>2, <2>3 DEF Lost
<1> QED
  BY <1>1, <1>2, <1>3

LEMMA ConstructionKeeps ==
    ASSUME NativeInv, AllocateInotify \/ AllocateGuard \/ AllocatePipe
    PROVE  NativeInv'
<1> DEFINE Made == IF owner = "new" THEN {"inotify"}
                   ELSE IF owner = "guarding" THEN {"guard:inotify"} ELSE {"kill_r", "kill_w"}
<1>1. /\ owner \in {"new", "guarding", "piping"}
      /\ Returned(Made) \/ RefusedAllocation(Made) \/ Lost(Made)
      /\ owner' = "failed" \/ (Returned(Made) /\ owner' = CASE owner = "new" -> "guarding"
                                                           [] owner = "guarding" -> "piping"
                                                           [] OTHER -> "registering")
      /\ UNCHANGED <<reader, lock, spent, foreign>>
  BY DEF AllocateInotify, AllocateGuard, AllocatePipe, Constructs
<1>2. /\ flags' \in [closed : BOOLEAN, reading : BOOLEAN, resources_closed : BOOLEAN]
      /\ flags'.closed = flags.closed /\ flags'.resources_closed = flags.resources_closed
  BY DEF AllocateInotify, AllocateGuard, AllocatePipe, NativeInv, NativeTyped
<1>3. Made \in SUBSET Names /\ \A n \in Made : held[n] = "none"
  BY <1>1, NamesAre DEF NativeInv, NotYet
<1>4. /\ held' \in [Names -> {"none", "lost", "owned", "retry", "uncertain", "closed"}]
      /\ slot' \in [Names -> {"ours", "free", "other", "twin"}]
      /\ SlotsTrue'
      /\ \A n \in Names \ Made : held'[n] = held[n]
  BY <1>1, <1>3, AllocationKeeps
<1>5. reader = "none" /\ ~flags.closed /\ ~flags.resources_closed /\ lock.by = "nobody"
  BY <1>1 DEF NativeInv, PhasesAgree, LockHeld, Building
<1>6. NotYet' /\ Equipped'
  <2>1. CASE owner' = "failed"
    BY <2>1, <1>1, <1>5 DEF NotYet, Equipped, Building
  <2>2. CASE Returned(Made) /\ owner' # "failed"
    BY <2>2, <1>1, <1>4, <1>5, NamesAre DEF Returned, NativeInv, NotYet, Equipped, Building
  <2> QED
    BY <2>1, <2>2, <1>1
<1>7. NativeTyped'
  BY <1>1, <1>2, <1>4 DEF NativeInv, NativeTyped, Building
<1>8. LockHeld' /\ PhasesAgree' /\ PollsItsOwn' /\ ClosedIsDone'
  BY <1>1, <1>2, <1>5 DEF NativeInv, LockHeld, PhasesAgree, PollsItsOwn, ClosedIsDone, Building
<1> QED
  BY <1>1, <1>4, <1>6, <1>7, <1>8 DEF NativeInv

LEMMA StartKeeps ==
    ASSUME NativeInv, StartReader
    PROVE  NativeInv'
<1>1. NativeTyped'
  BY DEF StartReader, NativeInv, NativeTyped, Building
<1>2. SlotsTrue' /\ NotYet' /\ Equipped'
  BY DEF StartReader, NativeInv, NativeTyped, SlotsTrue, SlotTruth, NotYet, Equipped, PhasesAgree, Building
<1>3. LockHeld' /\ PhasesAgree' /\ PollsItsOwn' /\ ClosedIsDone' /\ ~foreign'
  BY DEF StartReader, NativeInv, NativeTyped, LockHeld, PhasesAgree, PollsItsOwn, ClosedIsDone, Building
<1> QED
  BY <1>1, <1>2, <1>3 DEF NativeInv

-----------------------------------------------------------------------------
(* Under the lock. *)

(* Disposal belongs to whoever holds the lock after the stop, so all it can
   upset is what is known of the descriptors.                              *)
LEMMA DisposalKeeps ==
    ASSUME NativeInv, lock.todo # <<>>,
           lock' = lock \/ lock' = [lock EXCEPT !.todo = Tail(@)],
           held' \in [Names -> {"none", "lost", "owned", "retry", "uncertain", "closed"}],
           slot' \in [Names -> {"ours", "free", "other", "twin"}],
           SlotsTrue',
           flags.resources_closed => \A n \in Names : held'[n] \in Done,
           ~foreign', UNCHANGED <<flags, reader, owner, spent>>
    PROVE  NativeInv'
<1>1. lock.by # "nobody" /\ flags.closed
  BY DEF NativeInv, LockHeld
<1>2. lock' \in [by : {"nobody", "reader", "owner"}, todo : Seq(Names)] /\ lock'.by = lock.by
  <2>1. lock \in [by : {"nobody", "reader", "owner"}, todo : Seq(Names)]
    BY DEF NativeInv, NativeTyped
  <2>2. Tail(lock.todo) \in Seq(Names)
    BY <2>1
  <2> QED
    BY <2>1, <2>2
<1>3. owner \notin Building
  BY <1>1 DEF NativeInv, PhasesAgree
<1>4. NativeTyped'
  BY <1>2 DEF NativeInv, NativeTyped
<1>5. NotYet' /\ Equipped' /\ LockHeld' /\ PhasesAgree' /\ PollsItsOwn' /\ ClosedIsDone'
  BY <1>1, <1>2, <1>3 DEF NativeInv, NotYet, Equipped, LockHeld, PhasesAgree, PollsItsOwn, ClosedIsDone,
     Building
<1> QED
  BY <1>4, <1>5 DEF NativeInv

LEMMA NextIsKnown == ASSUME NativeInv, lock.todo # <<>> PROVE Next1 \in Names
BY DEF NativeInv, NativeTyped, Next1

LEMMA DisposingKeeps ==
    ASSUME NativeInv, SkipDescriptor \/ FindAbsent \/ StayUncertain \/ GuardOriginal \/ CloseDescriptor
    PROVE  NativeInv'
<1>1. /\ lock.todo # <<>>
      /\ lock' = lock \/ lock' = [lock EXCEPT !.todo = Tail(@)]
      /\ UNCHANGED <<flags, reader, owner, spent>>
  BY DEF SkipDescriptor, FindAbsent, StayUncertain, GuardOriginal, CloseDescriptor, Disposing
<1>2. Next1 \in Names
  BY <1>1, NextIsKnown
<1>3. /\ held \in [Names -> {"none", "lost", "owned", "retry", "uncertain", "closed"}]
      /\ slot \in [Names -> {"ours", "free", "other", "twin"}]
      /\ \A n \in Names : SlotTruth(n)
      /\ ClosedIsDone /\ ~foreign
  BY DEF NativeInv, NativeTyped, SlotsTrue
<1>4. CASE SkipDescriptor \/ StayUncertain
  <2>1. UNCHANGED <<held, slot, foreign>>
    BY <1>4 DEF SkipDescriptor, StayUncertain
  <2> QED
    BY <1>1, <1>3, <2>1, DisposalKeeps DEF SlotsTrue, SlotTruth, ClosedIsDone
<1>5. CASE FindAbsent
  <2>1. /\ held' = [held EXCEPT ![Next1] = "closed"] /\ UNCHANGED <<slot, foreign>>
        /\ slot[Next1] \in {"free", "other"}
    BY <1>5 DEF FindAbsent, GoneAlready, Outcome
  <2>2. SlotsTrue'
    BY <1>2, <1>3, <2>1 DEF SlotsTrue, SlotTruth
  <2> QED
    BY <1>1, <1>2, <1>3, <2>1, <2>2, DisposalKeeps DEF ClosedIsDone, Done
<1>6. CASE GuardOriginal
  <2> DEFINE g == GuardOf[Next1]
  <2>1. /\ held[Next1] \in {"owned", "retry"} /\ held[g] = "none" /\ g \in Names /\ g # Next1
        /\ foreign' = (foreign \/ slot[Next1] # "ours")
    BY <1>6, NamesAre DEF GuardOriginal, NeedsGuard, IsPrimary, Uses
  <2>2. ~flags.resources_closed /\ slot[Next1] = "ours" /\ slot[g] = "free"
    BY <1>2, <1>3, <2>1 DEF SlotTruth, ClosedIsDone, Done
  <2>3. /\ held' \in [Names -> {"none", "lost", "owned", "retry", "uncertain", "closed"}]
        /\ slot' \in [Names -> {"ours", "free", "other", "twin"}]
        /\ SlotsTrue'
    <3>1. CASE Returned({g})
      BY <3>1, <1>3, <2>1, <2>2 DEF Returned, SlotsTrue, SlotTruth
    <3>2. CASE held' = [held EXCEPT ![g] = "closed", ![Next1] = "retry"] /\ UNCHANGED slot
      BY <3>2, <1>2, <1>3, <2>1, <2>2 DEF SlotsTrue, SlotTruth
    <3>3. CASE /\ held' = [held EXCEPT ![g] = "lost", ![Next1] = "retry"]
               /\ slot' \in {slot, [slot EXCEPT ![g] = "ours"]}
      BY <3>3, <1>2, <1>3, <2>1, <2>2 DEF SlotsTrue, SlotTruth
    <3> QED
      BY <1>6, <3>1, <3>2, <3>3 DEF GuardOriginal
  <2> QED
    BY <1>1, <1>3, <2>1, <2>2, <2>3, DisposalKeeps
<1>7. CASE CloseDescriptor
  <2>1. /\ held[Next1] \in {"owned", "retry"}
        /\ foreign' = (foreign \/ slot[Next1] # "ours")
    BY <1>7 DEF CloseDescriptor, Uses
  <2>2. ~flags.resources_closed /\ slot[Next1] = "ours"
    BY <1>2, <1>3, <2>1 DEF SlotTruth, ClosedIsDone, Done
  <2>3. /\ held' \in [Names -> {"none", "lost", "owned", "retry", "uncertain", "closed"}]
        /\ slot' \in [Names -> {"ours", "free", "other", "twin"}]
        /\ SlotsTrue'
    <3>1. CASE /\ held' = [held EXCEPT ![Next1] = "closed"]
               /\ slot' = [slot EXCEPT ![Next1] = "free"]
      BY <3>1, <1>2, <1>3 DEF SlotsTrue, SlotTruth
    <3>2. CASE /\ held' = [held EXCEPT ![Next1] = "uncertain"]
               /\ slot' \in {slot, [slot EXCEPT ![Next1] = "free"]}
      BY <3>2, <1>2, <1>3 DEF SlotsTrue, SlotTruth
    <3> QED
      BY <1>7, <3>1, <3>2 DEF CloseDescriptor
  <2> QED
    BY <1>1, <1>3, <2>1, <2>2, <2>3, DisposalKeeps
<1> QED
  BY <1>4, <1>5, <1>6, <1>7

LEMMA EndClosingKeeps == ASSUME NativeInv, EndClosing PROVE NativeInv'
<1>1. /\ lock' = [by |-> "nobody", todo |-> <<>>] /\ lock.by \in {"reader", "owner"}
      /\ flags' = [flags EXCEPT !.resources_closed = \A n \in Names : held[n] \in Done]
      /\ UNCHANGED <<held, slot, spent, foreign>>
  BY DEF EndClosing, Unlocked, NativeInv, NativeTyped
<1>2. /\ flags \in [closed : BOOLEAN, reading : BOOLEAN, resources_closed : BOOLEAN]
      /\ flags.closed /\ owner \notin Building
  BY <1>1 DEF NativeInv, NativeTyped, LockHeld, PhasesAgree
<1>3. /\ flags' \in [closed : BOOLEAN, reading : BOOLEAN, resources_closed : BOOLEAN]
      /\ flags'.closed /\ flags'.reading = flags.reading
      /\ flags'.resources_closed = \A n \in Names : held[n] \in Done
  BY <1>1, <1>2
<1>4. NativeTyped'
  BY <1>1, <1>3 DEF EndClosing, NativeInv, NativeTyped
<1>5. /\ owner' \notin Building
      /\ owner' \in {"running", "stopping"} => reader' # "none"
      /\ owner' = "failed" => reader' = "none"
      /\ owner' \in {"closing", "done"} => reader' \in {"none", "ended"}
      /\ reader' # "polling"
  BY <1>1, <1>2 DEF EndClosing, NativeInv, NativeTyped, LockHeld, PhasesAgree, PollsItsOwn, Building
<1>6. SlotsTrue' /\ NotYet' /\ Equipped' /\ LockHeld'
  BY <1>1, <1>3, <1>5 DEF NativeInv, SlotsTrue, SlotTruth, NotYet, Equipped, LockHeld, Building
<1>7. PhasesAgree' /\ PollsItsOwn' /\ ClosedIsDone' /\ ~foreign'
  BY <1>1, <1>3, <1>5 DEF NativeInv, PhasesAgree, PollsItsOwn, ClosedIsDone, Building
<1> QED
  BY <1>4, <1>6, <1>7 DEF NativeInv

-----------------------------------------------------------------------------
(* The reader, the owner and the process around them. *)

(* A step that leaves the descriptors alone. *)
LEMMA BystanderKeeps ==
    ASSUME NativeInv, UNCHANGED <<held, slot>>, ~foreign',
           flags' \in [closed : BOOLEAN, reading : BOOLEAN, resources_closed : BOOLEAN],
           flags.closed => flags'.closed, flags'.resources_closed = flags.resources_closed,
           reader' \in {"none", "entering", "polling", "noticing", "parsing", "ending", "closing", "ended"},
           owner' \in {"failed", "running", "stopping", "joining", "closing", "done"},
           owner \notin Building,
           reader' # "none" => reader # "none",
           lock' \in [by : {"nobody", "reader", "owner"}, todo : Seq(Names)],
           spent' \in [reads : Nat, closes : Nat],
           LockHeld', PhasesAgree', PollsItsOwn'
    PROVE  NativeInv'
<1>1. NativeTyped'
  BY DEF NativeInv, NativeTyped
<1>2. SlotsTrue' /\ NotYet' /\ ClosedIsDone'
  BY DEF NativeInv, SlotsTrue, SlotTruth, NotYet, ClosedIsDone, Building
<1>3. Equipped'
  BY DEF NativeInv, NativeTyped, Equipped, Building
<1> QED
  BY <1>1, <1>2, <1>3 DEF NativeInv

LEMMA ClosingTyped ==
    ASSUME NEW who \in {"reader", "owner"}, BeginsClosing(who)
    PROVE  lock' \in [by : {"nobody", "reader", "owner"}, todo : Seq(Names)]
<1> DEFINE all == Primaries \o Guards
<1>1. lock' = [by |-> who, todo |-> all] /\ all \in Seq(Names)
  BY NamesAre DEF BeginsClosing
<1> HIDE DEF all
<1> QED
  BY <1>1

LEMMA ReaderMoves ==
    ASSUME NativeInv, EnterRead \/ PollEnds \/ Interrupt \/ ReadBreaks \/ ParseBatch
    PROVE  NativeInv'
<1>1. /\ UNCHANGED <<held, slot, owner, lock>>
      /\ reader \in {"entering", "polling", "parsing"}
      /\ reader' \in {"entering", "polling", "noticing", "ending"}
  BY DEF EnterRead, PollEnds, Interrupt, ReadBreaks, ParseBatch, Reads
<1>2. /\ flags' \in [closed : BOOLEAN, reading : BOOLEAN, resources_closed : BOOLEAN]
      /\ flags'.closed = flags.closed /\ flags'.resources_closed = flags.resources_closed
  BY DEF EnterRead, PollEnds, Interrupt, ReadBreaks, ParseBatch, NativeInv, NativeTyped
<1>3. spent' \in [reads : Nat, closes : Nat]
  BY DEF EnterRead, PollEnds, Interrupt, ReadBreaks, ParseBatch, NativeInv, NativeTyped
<1>4. ~foreign'
  <2>1. CASE PollEnds
    BY <2>1, NamesAre DEF PollEnds, Reads, Uses, NativeInv, PollsItsOwn, SlotsTrue, SlotTruth
  <2>2. CASE ParseBatch
    BY <2>2, NamesAre DEF ParseBatch, Parses, Reads, Uses, NativeInv, Equipped, SlotsTrue, SlotTruth
  <2>3. CASE EnterRead \/ Interrupt \/ ReadBreaks
    BY <2>3 DEF EnterRead, Interrupt, ReadBreaks, NativeInv
  <2> QED
    BY <2>1, <2>2, <2>3
<1>5. PollsItsOwn'
  BY <1>1, <1>2 DEF EnterRead, PollEnds, Interrupt, ReadBreaks, ParseBatch, Reads, Free, NativeInv, NativeTyped,
     PollsItsOwn, Equipped
<1>6. LockHeld' /\ PhasesAgree'
  BY <1>1, <1>2 DEF EnterRead, PollEnds, Interrupt, ReadBreaks, ParseBatch, Reads, Free, NativeInv,
     LockHeld, PhasesAgree, PollsItsOwn
<1>7. owner \notin Building /\ owner' \in {"failed", "running", "stopping", "joining", "closing", "done"}
      /\ lock' \in [by : {"nobody", "reader", "owner"}, todo : Seq(Names)]
  BY <1>1 DEF NativeInv, NativeTyped, PhasesAgree
<1> QED
  BY <1>1, <1>2, <1>3, <1>4, <1>5, <1>6, <1>7, BystanderKeeps

LEMMA ClosersKeep ==
    ASSUME NativeInv, NoticeClose \/ CloseAfterLoop \/ CloseAfterReader
    PROVE  NativeInv'
<1>1. UNCHANGED <<held, slot, foreign>> /\ lock.by = "nobody" /\ reader \notin {"polling", "entering"}
  BY DEF NoticeClose, CloseAfterLoop, CloseAfterReader, Free, NativeInv, PhasesAgree, Building
<1>2. /\ flags' \in [closed : BOOLEAN, reading : BOOLEAN, resources_closed : BOOLEAN]
      /\ flags.closed => flags'.closed /\ flags'.resources_closed = flags.resources_closed
      /\ flags'.resources_closed = flags.resources_closed
      /\ flags'.closed \/ (NoticeClose /\ lock' = lock)
  BY DEF NoticeClose, CloseAfterLoop, CloseAfterReader, NativeInv, NativeTyped
<1>3. /\ lock' \in [by : {"nobody", "reader", "owner"}, todo : Seq(Names)]
      /\ spent' \in [reads : Nat, closes : Nat]
  BY ClosingTyped DEF NoticeClose, CloseAfterLoop, CloseAfterReader, NativeInv, NativeTyped
<1>4. /\ reader' \in {"none", "noticing", "parsing", "closing", "ended"}
      /\ owner' \in {"failed", "running", "stopping", "joining", "closing", "done"}
      /\ owner \notin Building
      /\ reader' # "none" => reader # "none"
  BY DEF NoticeClose, CloseAfterLoop, CloseAfterReader, NativeInv, NativeTyped, PhasesAgree, Building
<1>5. LockHeld'
  BY <1>1, <1>2 DEF NoticeClose, CloseAfterLoop, CloseAfterReader, BeginsClosing, NativeInv, LockHeld
<1>6. PhasesAgree'
  BY <1>2, <1>4 DEF NoticeClose, CloseAfterLoop, CloseAfterReader, NativeInv, PhasesAgree, Building
<1>7. PollsItsOwn' /\ ~foreign'
  BY <1>1, <1>4 DEF PollsItsOwn, NativeInv
<1> QED
  BY <1>1, <1>2, <1>3, <1>4, <1>5, <1>6, <1>7, BystanderKeeps

LEMMA StopKeeps ==
    ASSUME NativeInv, BeginStop \/ CloseNative
    PROVE  NativeInv'
<1>1. /\ UNCHANGED <<held, slot, reader, spent>> /\ reader # "none" /\ owner \in {"running", "stopping"}
      /\ owner' \in {"stopping", "joining"}
  BY DEF BeginStop, CloseNative, NativeInv, PhasesAgree
<1>2. /\ flags' \in [closed : BOOLEAN, reading : BOOLEAN, resources_closed : BOOLEAN]
      /\ flags.closed => flags'.closed
      /\ flags'.resources_closed = flags.resources_closed /\ flags'.reading = flags.reading
      /\ flags'.closed \/ lock' = lock
  BY DEF BeginStop, CloseNative, NativeInv, NativeTyped
<1>3. lock' \in [by : {"nobody", "reader", "owner"}, todo : Seq(Names)]
  BY ClosingTyped DEF BeginStop, CloseNative, NativeInv, NativeTyped
<1>4. ~foreign'
  BY <1>1, NamesAre DEF BeginStop, CloseNative, Uses, NativeInv, Equipped, SlotsTrue, SlotTruth
<1>5. LockHeld'
  BY <1>1, <1>2 DEF BeginStop, CloseNative, BeginsClosing, Free, NativeInv, LockHeld
<1>6. PhasesAgree'
  BY <1>1, <1>2 DEF NativeInv, PhasesAgree, Building
<1>7. PollsItsOwn'
  BY <1>1, <1>2 DEF BeginStop, CloseNative, NativeInv, PollsItsOwn
<1>8. /\ owner \notin Building
      /\ reader' \in {"none", "entering", "polling", "noticing", "parsing", "ending", "closing", "ended"}
      /\ spent' \in [reads : Nat, closes : Nat]
  BY <1>1 DEF Building, NativeInv, NativeTyped
<1> QED
  BY <1>1, <1>2, <1>3, <1>4, <1>5, <1>6, <1>7, <1>8, BystanderKeeps

LEMMA ElsewhereKeeps == ASSUME NativeInv, ProcessElsewhere PROVE NativeInv'
<1>1. PICK n \in Names :
         /\ held[n] = "uncertain"
         /\ \E who \in {"free", "other", "twin"} : slot' = [slot EXCEPT ![n] = who]
  BY DEF ProcessElsewhere
<1>2. SlotsTrue'
  BY <1>1 DEF ProcessElsewhere, NativeInv, NativeTyped, SlotsTrue, SlotTruth
<1>3. NativeTyped'
  BY <1>1 DEF ProcessElsewhere, NativeInv, NativeTyped
<1> QED
  BY <1>2, <1>3 DEF ProcessElsewhere, NativeInv, NotYet, Equipped, LockHeld, PhasesAgree, PollsItsOwn,
     ClosedIsDone

LEMMA NativeStep == NativeInv /\ [NativeNext]_nativeVars => NativeInv'
<1> SUFFICES ASSUME NativeInv, [NativeNext]_nativeVars PROVE NativeInv'
  OBVIOUS
<1>1. CASE NativeNext
  BY <1>1, ConstructionKeeps, StartKeeps, DisposingKeeps, EndClosingKeeps, ReaderMoves, ClosersKeep,
     StopKeeps, ElsewhereKeeps DEF NativeNext
<1>2. CASE UNCHANGED nativeVars
  BY <1>2 DEF nativeVars, NativeInv, NativeTyped, SlotsTrue, SlotTruth, NotYet, Equipped, LockHeld,
     PhasesAgree, PollsItsOwn, ClosedIsDone
<1> QED
  BY <1>1, <1>2

(* The inductive invariant of the native reader: what is known of each
   descriptor is true, and disposal has one owner, after the stop.         *)
THEOREM NativeInvariance == NativeSpec => []NativeInv
BY NativeStart, NativeStep, PTL DEF NativeSpec

(* No call of the reader ever reaches a number that is not its own, it polls
   what is open, and the resources count as closed only when none is.      *)
THEOREM NativeIsAccounted == NativeSpec => []NativeAccounted
<1>1. NativeInv => NativeAccounted
  BY NamesAre DEF NativeInv, SlotsTrue, SlotTruth, PollsItsOwn, ClosedIsDone, NativeAccounted, Done
<1> QED
  BY <1>1, NativeInvariance, PTL

-----------------------------------------------------------------------------
(* Scoped promotion.                                                       *)

Attempted == {"confirming", "recovering"}
Unattempted == {"binding", "reading", "ready", "locking", "checking", "writing"}
WhileAdmitted == Unattempted \cup Attempted \cup {"queueing", "leaving"}
Reviews == [source : Nat, startup : Nat]
Decisions == [by : Workflows, source : Nat, expected : Nat, startup : Nat]
Blocks == [by : Workflows, source : Nat, expected : Nat, whole : BOOLEAN]
Receipts == [source : Nat, startup : Nat, rev : Nat, whole : BOOLEAN, before : Nat]
Findings == {Missing} \cup Nat \cup Reviews \cup Decisions
ReceiptsOrNone == {Missing} \cup Receipts
Snapshots == {Missing} \cup Reviews
HeldDecisions == {Missing} \cup Decisions
Stations == {"idle", "asking"} \cup WhileAdmitted
PromotionAnswers == {"none", "denied", "cancelled", "unavailable", "answered", "unsafe_source",
             "destination_missing", "unsafe_destination", "source_changed", "already_applied",
             "conflict", "destination_changed", "write_unavailable", "commit_unknown", "applied"}
Indexings == {"none", "index_pending", "index_unavailable"}
CallRecords ==
    [at : Stations, op : Operations, startup : Nat, cancelled : BOOLEAN, source : Nat,
     text : Nat, file : Nat, found : Findings, answer : PromotionAnswers, index : Indexings,
     wrote : ReceiptsOrNone]
Holdings == [snapshot : Snapshots, seen : Nat, decision : HeldDecisions]

Runtimes == [startup : Nat, policy : Policies, stopped : BOOLEAN, bound : Nat]
Captures == {Missing} \cup [rev : Nat, ours : BOOLEAN]
Notes == [rev : Nat, file : Nat, made : SUBSET Blocks, blocks : SUBSET Blocks, captured : BOOLEAN]
Targets == {Missing} \cup Notes

WorldTyped ==
    /\ runtime \in Runtimes /\ root \in Nat /\ revisions \in Nat
    /\ capture \in Captures /\ target \in Targets
CallsTyped == call \in [Workflows -> CallRecords] /\ holds \in [Workflows -> Holdings]

(* What an operation does, it does as the only one, in one startup. *)
AloneInside(w) ==
    call[w].at \in WhileAdmitted => busy = w /\ call[w].startup = runtime.startup

(* Nothing is dated later than now, and what an operation found has its kind. *)
Dated(w) ==
    /\ call[w].startup <= runtime.startup
    /\ holds[w].decision # Missing => holds[w].decision.startup <= runtime.startup
    /\ call[w].answer = "answered" =>
          /\ call[w].op = "review" => call[w].found \in Reviews
          /\ call[w].op = "inspect" => call[w].found \in Nat
          /\ call[w].op = "decide" => call[w].found \in Decisions /\ call[w].found.startup <= runtime.startup
          /\ call[w].op \in {"review", "inspect", "decide"}

Allowed == runtime.policy.write /\ runtime.policy.promotes

(* An application under way presents a decision of its own startup, which
   allows it, and writes what was decided about.                           *)
AppliesOwn(w) ==
    /\ call[w].at \in {"ready", "locking", "checking", "writing", "queueing"} \cup Attempted
          => call[w].op = "apply"
    /\ call[w].op = "apply" /\ call[w].at # "idle" =>
          /\ holds[w].decision # Missing
          /\ holds[w].decision.startup = call[w].startup
          /\ call[w].startup = runtime.startup => Allowed
    /\ call[w].at \in {"checking", "writing"} => call[w].source = holds[w].decision.source

(* Nothing of the decision is in the note, as far as its markers show.     *)
Unwritten(d) ==
    target # Missing => IF d.expected = 0 THEN target.made # {Block(d)} ELSE Block(d) \notin target.blocks

(* What the call read of the note is what was decided about, and there is  *)
(* nothing of it in the note that the call has not written in full.        *)
AttemptKnown(w) ==
    /\ call[w].at \in {"writing"} \cup Attempted => call[w].text = holds[w].decision.expected
    /\ call[w].at = "writing" => Unwritten(holds[w].decision)
    /\ call[w].at \in Attempted => call[w].wrote.whole \/ Unwritten(holds[w].decision)

(* What a call says that wrote: nothing but the truth. *)
Told(w) ==
    /\ call[w].answer \in {"applied", "already_applied", "commit_unknown"}
    /\ call[w].answer = "applied" => call[w].wrote.before = holds[w].decision.expected
    /\ call[w].answer # "commit_unknown" => call[w].wrote.whole

(* The write comes last, and was decided. *)
WroteDecided(w) ==
    call[w].wrote # Missing =>
       LET d == holds[w].decision IN
       /\ call[w].op = "apply" /\ call[w].at \in Attempted \cup {"queueing", "leaving", "idle"}
       /\ d # Missing
       /\ call[w].wrote.source = d.source /\ call[w].wrote.startup = d.startup
       /\ call[w].at \notin Attempted => Told(w)
       /\ d.startup = runtime.startup => Allowed

WorkflowInv(w) == AloneInside(w) /\ Dated(w) /\ AppliesOwn(w) /\ AttemptKnown(w) /\ WroteDecided(w)

PromotionInv == WorldTyped /\ CallsTyped /\ \A w \in Workflows : WorkflowInv(w)

LEMMA PromotionStart == PromotionInit => PromotionInv
<1> SUFFICES ASSUME PromotionInit PROVE PromotionInv
  OBVIOUS
<1>1. WorldTyped
  <2>1. runtime \in Runtimes
    BY DEF PromotionInit, Runtimes
  <2>2. root \in Nat /\ revisions \in Nat /\ capture \in Captures
    BY DEF PromotionInit, Captures
  <2>4. [rev |-> 2, file |-> 2, made |-> {}, blocks |-> {}, captured |-> FALSE] \in Targets
    BY DEF Targets, Notes
  <2>5. target \in Targets
    BY <2>4 DEF PromotionInit, Targets
  <2> QED
    BY <2>1, <2>2, <2>5 DEF WorldTyped
<1>2. CallsTyped
  <2>1. Missing \in Findings /\ Missing \in ReceiptsOrNone /\ Missing \in Snapshots /\ Missing \in HeldDecisions
    BY DEF Findings, ReceiptsOrNone, Snapshots, HeldDecisions
  <2>2. /\ "idle" \in Stations /\ "review" \in Operations /\ "none" \in PromotionAnswers
        /\ "none" \in Indexings
    BY DEF Stations, Operations, PromotionAnswers, Indexings
  <2>4. IdleCall \in CallRecords
    BY <2>1, <2>2 DEF IdleCall, CallRecords
  <2>3. NothingHeld \in Holdings
    BY <2>1 DEF NothingHeld, Holdings
  <2> QED
    BY <2>3, <2>4 DEF PromotionInit, CallsTyped
<1>3. ASSUME NEW w \in Workflows PROVE WorkflowInv(w)
  BY DEF PromotionInit, IdleCall, NothingHeld, WorkflowInv, AloneInside, Dated, AppliesOwn, AttemptKnown, WroteDecided,
     WhileAdmitted, Unattempted, Attempted
<1> QED
  BY <1>1, <1>2, <1>3 DEF PromotionInv

(* A step of one workflow: the others keep what they have. *)
LEMMA OneWorkflow ==
    ASSUME PromotionInv, NEW w \in Workflows, UNCHANGED runtime, WorldTyped', CallsTyped',
           \A v \in Workflows \ {w} : call'[v] = call[v] /\ holds'[v] = holds[v],
           busy' = busy \/ busy = Missing \/ busy = w,
           target' = target \/ busy = w,
           WorkflowInv(w)'
    PROVE  PromotionInv'
<1>1. ASSUME NEW v \in Workflows, v # w PROVE WorkflowInv(v)'
  <2>1. WorkflowInv(v) /\ call'[v] = call[v] /\ holds'[v] = holds[v]
    BY <1>1 DEF PromotionInv
  <2>2. AloneInside(v)'
    BY <1>1, <2>1, PromotionAssumption DEF WorkflowInv, AloneInside
  <2>3. AttemptKnown(v)'
    <3>1. CASE call[v].at \in WhileAdmitted
      <4>1. target' = target
        BY <1>1, <2>1, <3>1 DEF WorkflowInv, AloneInside
      <4> QED
        BY <2>1, <4>1 DEF WorkflowInv, AttemptKnown, Unwritten
    <3>2. CASE call[v].at \notin WhileAdmitted
      BY <2>1, <3>2 DEF AttemptKnown, WhileAdmitted, Unattempted
    <3> QED
      BY <3>1, <3>2
  <2>4. Dated(v)' /\ AppliesOwn(v)'
    BY <2>1 DEF WorkflowInv, Dated, AppliesOwn, Allowed
  <2>5. WroteDecided(v)'
    BY <2>1 DEF WorkflowInv, WroteDecided, Told, Allowed
  <2> QED
    BY <2>2, <2>3, <2>4, <2>5 DEF WorkflowInv
<1> QED
  BY <1>1 DEF PromotionInv

(* The two ways in which most steps change a call. *)
LEMMA Moved ==
    ASSUME CallsTyped, NEW w \in Workflows, NEW at \in Stations, Becomes(w, at)
    PROVE  /\ call' \in [Workflows -> CallRecords] /\ call'[w].at = at
           /\ call'[w].op = call[w].op /\ call'[w].startup = call[w].startup
           /\ call'[w].source = call[w].source /\ call'[w].text = call[w].text /\ call'[w].found = call[w].found
           /\ call'[w].answer = call[w].answer /\ call'[w].wrote = call[w].wrote
           /\ \A v \in Workflows \ {w} : call'[v] = call[v]
BY DEF CallsTyped, Becomes, CallRecords

LEMMA Concluded ==
    ASSUME CallsTyped, NEW w \in Workflows, NEW answer \in PromotionAnswers, Concludes(w, answer)
    PROVE  /\ call' \in [Workflows -> CallRecords] /\ call'[w].at = "leaving"
           /\ call'[w].op = call[w].op /\ call'[w].startup = call[w].startup
           /\ call'[w].source = call[w].source /\ call'[w].text = call[w].text /\ call'[w].found = call[w].found
           /\ call'[w].answer = answer /\ call'[w].wrote = call[w].wrote
           /\ \A v \in Workflows \ {w} : call'[v] = call[v]
<1> DEFINE c == [call[w] EXCEPT !.at = "leaving", !.answer = answer]
<1>1. call \in [Workflows -> CallRecords] /\ call' = [call EXCEPT ![w] = c]
  BY DEF CallsTyped, Concludes
<1>2. c \in CallRecords
  <2>1. "leaving" \in Stations
    BY DEF Stations, WhileAdmitted, Unattempted, Attempted
  <2> QED
    BY <1>1, <2>1 DEF CallRecords
<1>3. /\ c.at = "leaving" /\ c.op = call[w].op /\ c.startup = call[w].startup
      /\ c.source = call[w].source /\ c.text = call[w].text /\ c.found = call[w].found
      /\ c.answer = answer /\ c.wrote = call[w].wrote
  BY <1>1 DEF CallRecords
<1> HIDE DEF c
<1> QED
  BY <1>1, <1>2, <1>3

(* A call that ends without having written keeps everything in order. *)
LEMMA RefusalKeeps ==
    ASSUME PromotionInv, NEW w \in Workflows, NEW answer \in PromotionAnswers, Concludes(w, answer),
           answer # "answered", call[w].at \in Unattempted,
           UNCHANGED <<runtime, placeVars, busy, holds>>
    PROVE  PromotionInv'
<1>1. CallsTyped /\ WorldTyped /\ WorkflowInv(w)
  BY DEF PromotionInv
<1>2. call[w].wrote = Missing
  BY <1>1 DEF WorkflowInv, WroteDecided, Unattempted, Attempted
<1>3. CallsTyped' /\ WorldTyped'
  BY <1>1, Concluded DEF CallsTyped, WorldTyped, placeVars
<1>4. WorkflowInv(w)'
  <2>1. AloneInside(w)' /\ Dated(w)'
    BY <1>1, <1>2, Concluded DEF WorkflowInv, AloneInside, Dated, WhileAdmitted, Unattempted, Attempted
  <2>2. AppliesOwn(w)'
    BY <1>1, <1>2, Concluded DEF WorkflowInv, AppliesOwn, Allowed, Unattempted, Attempted
  <2>3. AttemptKnown(w)'
    BY <1>1, <1>2, Concluded DEF WorkflowInv, AttemptKnown, Unwritten, placeVars, Unattempted, Attempted
  <2>4. WroteDecided(w)'
    BY <1>1, <1>2, Concluded DEF WorkflowInv, WroteDecided, Told, Allowed, Unattempted, Attempted
  <2> QED
    BY <2>1, <2>2, <2>3, <2>4 DEF WorkflowInv
<1>5. \A v \in Workflows \ {w} : call'[v] = call[v] /\ holds'[v] = holds[v]
  BY <1>1, Concluded
<1> QED
  BY <1>3, <1>4, <1>5, OneWorkflow DEF placeVars

LEMMA AdvanceKeeps ==
    ASSUME PromotionInv, NEW w \in Workflows, NEW at \in {"reading", "ready", "locking"}, Becomes(w, at),
           call[w].at \in {"binding", "reading", "ready"}, at # "reading" => call[w].op = "apply",
           UNCHANGED <<runtime, placeVars, busy, holds>>
    PROVE  PromotionInv'
<1> at \in Stations
  BY DEF Stations, WhileAdmitted, Unattempted, Attempted
<1>1. CallsTyped /\ WorldTyped /\ WorkflowInv(w)
  BY DEF PromotionInv
<1>2. call[w].wrote = Missing
  BY <1>1 DEF WorkflowInv, WroteDecided, Attempted
<1>3. CallsTyped' /\ WorldTyped'
  BY <1>1, Moved DEF CallsTyped, WorldTyped, placeVars
<1>4. WorkflowInv(w)'
  <2>1. AloneInside(w)' /\ Dated(w)'
    BY <1>1, <1>2, Moved DEF WorkflowInv, AloneInside, Dated, WhileAdmitted, Unattempted, Attempted
  <2>2. AppliesOwn(w)'
    BY <1>1, <1>2, Moved DEF WorkflowInv, AppliesOwn, Allowed, Unattempted, Attempted
  <2>3. AttemptKnown(w)'
    BY <1>1, <1>2, Moved DEF WorkflowInv, AttemptKnown, Unwritten, placeVars, Unattempted, Attempted
  <2>4. WroteDecided(w)'
    BY <1>1, <1>2, Moved DEF WorkflowInv, WroteDecided, Told, Allowed, Unattempted, Attempted
  <2> QED
    BY <2>1, <2>2, <2>3, <2>4 DEF WorkflowInv
<1>5. \A v \in Workflows \ {w} : call'[v] = call[v] /\ holds'[v] = holds[v]
  BY <1>1, Moved
<1> QED
  BY <1>3, <1>4, <1>5, OneWorkflow DEF placeVars

LEMMA AnsweredCall ==
    ASSUME CallsTyped, NEW w \in Workflows, NEW found \in Findings,
           call' = [call EXCEPT ![w].at = "leaving", ![w].answer = "answered", ![w].found = found]
    PROVE  /\ call' \in [Workflows -> CallRecords] /\ call'[w].at = "leaving"
           /\ call'[w].op = call[w].op /\ call'[w].startup = call[w].startup
           /\ call'[w].source = call[w].source /\ call'[w].found = found
           /\ call'[w].answer = "answered" /\ call'[w].wrote = call[w].wrote
           /\ \A v \in Workflows \ {w} : call'[v] = call[v]
<1> DEFINE c == [call[w] EXCEPT !.at = "leaving", !.answer = "answered", !.found = found]
<1>1. call \in [Workflows -> CallRecords] /\ call' = [call EXCEPT ![w] = c]
  BY DEF CallsTyped
<1>2. c \in CallRecords
  <2>1. "leaving" \in Stations /\ "answered" \in PromotionAnswers
    BY DEF Stations, WhileAdmitted, Unattempted, Attempted, PromotionAnswers
  <2> QED
    BY <1>1, <2>1 DEF CallRecords
<1>3. /\ c.at = "leaving" /\ c.op = call[w].op /\ c.startup = call[w].startup
      /\ c.source = call[w].source /\ c.found = found
      /\ c.answer = "answered" /\ c.wrote = call[w].wrote
  BY <1>1 DEF CallRecords
<1> HIDE DEF c
<1>4. call'[w] = c /\ \A v \in Workflows \ {w} : call'[v] = call[v]
  BY <1>1
<1>5. call' \in [Workflows -> CallRecords]
  BY <1>1, <1>2
<1> QED
  BY <1>3, <1>4, <1>5

(* An answer has the kind its operation promises. *)
LEMMA AnswerKeeps ==
    ASSUME PromotionInv, NEW w \in Workflows, NEW found \in Findings, call[w].at = "reading",
           call' = [call EXCEPT ![w].at = "leaving", ![w].answer = "answered", ![w].found = found],
           \/ call[w].op = "review" /\ found \in Reviews
           \/ call[w].op = "inspect" /\ found \in Nat
           \/ call[w].op = "decide" /\ found \in Decisions /\ found.startup <= runtime.startup,
           UNCHANGED <<runtime, placeVars, busy, holds>>
    PROVE  PromotionInv'
<1>1. CallsTyped /\ WorldTyped /\ WorkflowInv(w)
  BY DEF PromotionInv
<1>2. call[w].wrote = Missing
  BY <1>1 DEF WorkflowInv, WroteDecided, Attempted
<1>3. CallsTyped' /\ WorldTyped'
  BY <1>1, AnsweredCall DEF CallsTyped, WorldTyped, placeVars
<1>6. /\ call'[w].at = "leaving" /\ call'[w].op = call[w].op /\ call'[w].startup = call[w].startup
      /\ call'[w].found = found /\ call'[w].wrote = Missing
  BY <1>1, <1>2, AnsweredCall
<1>7. call[w].op \in {"review", "inspect", "decide"}
  OBVIOUS
<1>4. WorkflowInv(w)'
  <2>1. AloneInside(w)'
    BY <1>1, <1>6 DEF WorkflowInv, AloneInside, WhileAdmitted, Unattempted
  <2>2. Dated(w)'
    BY <1>1, <1>6, <1>7 DEF WorkflowInv, Dated
  <2>3. AppliesOwn(w)'
    BY <1>6, <1>7 DEF AppliesOwn, Attempted
  <2>4. WroteDecided(w)' /\ AttemptKnown(w)'
    BY <1>6 DEF WroteDecided, AttemptKnown, Attempted
  <2> QED
    BY <2>1, <2>2, <2>3, <2>4 DEF WorkflowInv
<1>5. \A v \in Workflows \ {w} : call'[v] = call[v] /\ holds'[v] = holds[v]
  BY <1>1, AnsweredCall
<1> QED
  BY <1>3, <1>4, <1>5, OneWorkflow DEF placeVars

LEMMA AsksKeeps ==
    ASSUME PromotionInv, NEW w \in Workflows, Asks(w) PROVE PromotionInv'
<1> USE DEF Asks
<1>1. CallsTyped /\ WorldTyped /\ WorkflowInv(w)
  BY DEF PromotionInv
<1>2. PICK op \in Operations :
        /\ op = "apply" => holds[w].decision # Missing
        /\ call' = [call EXCEPT ![w] =
               [IdleCall EXCEPT !.op = op, !.startup = runtime.startup,
                   !.at = IF Presents(w, op) /\ Authorized(op) THEN "asking" ELSE "idle",
                   !.answer = IF Presents(w, op) /\ Authorized(op) THEN "none" ELSE "denied"]]
  OBVIOUS
<1> DEFINE ok == Presents(w, op) /\ Authorized(op)
           c == [IdleCall EXCEPT !.op = op, !.startup = runtime.startup,
                     !.at = IF ok THEN "asking" ELSE "idle", !.answer = IF ok THEN "none" ELSE "denied"]
<1>3. /\ c.at = (IF ok THEN "asking" ELSE "idle") /\ c.op = op /\ c.startup = runtime.startup
      /\ c.answer = (IF ok THEN "none" ELSE "denied") /\ c.wrote = Missing
  BY DEF IdleCall
<1>4. c \in CallRecords
  <2>1. Missing \in Findings /\ Missing \in ReceiptsOrNone
    BY DEF Findings, ReceiptsOrNone
  <2>2. /\ {"idle", "asking"} \subseteq Stations /\ "none" \in PromotionAnswers /\ "denied" \in PromotionAnswers
        /\ "none" \in Indexings
    BY DEF Stations, PromotionAnswers, Indexings
  <2>3. runtime.startup \in Nat
    BY <1>1 DEF WorldTyped, Runtimes
  <2> HIDE DEF ok
  <2> QED
    BY <2>1, <2>2, <2>3 DEF IdleCall, CallRecords
<1>5. ok /\ op = "apply" => /\ holds[w].decision # Missing
                            /\ holds[w].decision.startup = runtime.startup
                            /\ Allowed
  BY DEF Presents, AcceptsWrapper, Authorized, Selected, Allowed
<1>6. call' = [call EXCEPT ![w] = c]
  BY <1>2
<1> HIDE DEF c, ok
<1>7. CallsTyped' /\ WorldTyped'
  BY <1>1, <1>4, <1>6 DEF CallsTyped, WorldTyped, placeVars
<1>8. call'[w] = c /\ runtime.startup \in Nat
  BY <1>1, <1>6 DEF CallsTyped, WorldTyped, Runtimes
<1>9. WorkflowInv(w)'
  <2>1. AloneInside(w)'
    BY <1>3, <1>8 DEF AloneInside, WhileAdmitted, Unattempted, Attempted
  <2>2. Dated(w)'
    BY <1>1, <1>3, <1>8 DEF Dated, WorkflowInv
  <2>3. AppliesOwn(w)'
    BY <1>3, <1>5, <1>8 DEF AppliesOwn, Allowed, Attempted
  <2>4. WroteDecided(w)' /\ AttemptKnown(w)'
    BY <1>3, <1>8 DEF WroteDecided, AttemptKnown, Attempted
  <2> QED
    BY <2>1, <2>2, <2>3, <2>4 DEF WorkflowInv
<1>10. \A v \in Workflows \ {w} : call'[v] = call[v] /\ holds'[v] = holds[v]
  BY <1>1, <1>6 DEF CallsTyped
<1> QED
  BY <1>7, <1>9, <1>10, OneWorkflow DEF placeVars

LEMMA AdmittedKeeps ==
    ASSUME PromotionInv, NEW w \in Workflows, Admitted(w) PROVE PromotionInv'
<1>1. CallsTyped /\ WorldTyped /\ WorkflowInv(w) /\ call[w].at = "asking"
  BY DEF PromotionInv, Admitted
<1>2. call[w].wrote = Missing
  BY <1>1 DEF WorkflowInv, WroteDecided, Attempted
<1>3. CASE TokenFails(w)
  <2> DEFINE c == [call[w] EXCEPT !.at = "idle", !.answer = "cancelled"]
  <2>1. call' = [call EXCEPT ![w] = c] /\ UNCHANGED <<busy, runtime, placeVars, holds>>
    BY <1>3, <1>1 DEF Admitted, CallsTyped
  <2>2. /\ c \in CallRecords /\ c.at = "idle" /\ c.answer = "cancelled" /\ c.op = call[w].op
        /\ c.startup = call[w].startup /\ c.wrote = call[w].wrote
    <3>1. "idle" \in Stations /\ "cancelled" \in PromotionAnswers
      BY DEF Stations, PromotionAnswers
    <3> QED
      BY <1>1, <3>1 DEF CallsTyped, CallRecords
  <2> HIDE DEF c
  <2>3. CallsTyped' /\ WorldTyped'
    BY <1>1, <2>1, <2>2 DEF CallsTyped, WorldTyped, placeVars
  <2>4. call'[w] = c /\ \A v \in Workflows \ {w} : call'[v] = call[v] /\ holds'[v] = holds[v]
    BY <1>1, <2>1 DEF CallsTyped
  <2>5. WorkflowInv(w)'
    <3>1. AloneInside(w)' /\ Dated(w)'
      BY <1>1, <1>2, <2>1, <2>2, <2>4 DEF WorkflowInv, AloneInside, Dated, WhileAdmitted, Unattempted, Attempted
    <3>2. AppliesOwn(w)'
      BY <1>1, <1>2, <2>1, <2>2, <2>4 DEF WorkflowInv, AppliesOwn, Allowed, Unattempted, Attempted
    <3>3. AttemptKnown(w)'
      BY <1>1, <1>2, <2>1, <2>2, <2>4 DEF WorkflowInv, AttemptKnown, Unwritten, placeVars, Unattempted, Attempted
    <3>4. WroteDecided(w)'
      BY <1>1, <1>2, <2>1, <2>2, <2>4 DEF WorkflowInv, WroteDecided, Told, Allowed, Unattempted, Attempted
    <3> QED
      BY <3>1, <3>2, <3>3, <3>4 DEF WorkflowInv
  <2> QED
    BY <2>1, <2>3, <2>4, <2>5, OneWorkflow DEF placeVars
<1>4. CASE ~TokenFails(w)
  <2>1. /\ busy = Missing /\ busy' = w /\ Becomes(w, "binding")
        /\ UNCHANGED <<runtime, placeVars, holds>>
    BY <1>4 DEF Admitted
  <2>2. "binding" \in Stations /\ call[w].startup = runtime.startup
    BY <1>4 DEF Stations, WhileAdmitted, Unattempted, Attempted, TokenFails
  <2>3. CallsTyped' /\ WorldTyped'
    BY <1>1, <2>1, <2>2, Moved DEF CallsTyped, WorldTyped, placeVars
  <2>4. WorkflowInv(w)'
    <3>1. AloneInside(w)' /\ Dated(w)'
      BY <1>1, <1>2, <2>1, <2>2, Moved DEF WorkflowInv, AloneInside, Dated, WhileAdmitted, Unattempted, Attempted
    <3>2. AppliesOwn(w)'
      BY <1>1, <1>2, <2>1, <2>2, Moved DEF WorkflowInv, AppliesOwn, Allowed, Unattempted, Attempted
    <3>3. AttemptKnown(w)'
      BY <1>1, <1>2, <2>1, <2>2, Moved DEF WorkflowInv, AttemptKnown, Unwritten, placeVars, Unattempted, Attempted
    <3>4. WroteDecided(w)'
      BY <1>1, <1>2, <2>1, <2>2, Moved DEF WorkflowInv, WroteDecided, Told, Allowed, Unattempted, Attempted
    <3> QED
      BY <3>1, <3>2, <3>3, <3>4 DEF WorkflowInv
  <2>5. \A v \in Workflows \ {w} : call'[v] = call[v] /\ holds'[v] = holds[v]
    BY <1>1, <2>1, <2>2, Moved
  <2> QED
    BY <2>1, <2>3, <2>4, <2>5, OneWorkflow DEF placeVars
<1> QED
  BY <1>3, <1>4

LEMMA ReadingKeeps ==
    ASSUME PromotionInv, NEW w \in Workflows,
           ReadsSource(w) \/ Inspects(w) \/ Decides(w) \/ DecidesAgain(w)
    PROVE  PromotionInv'
<1>1. /\ WorldTyped /\ CallsTyped /\ call[w].at = "reading"
      /\ UNCHANGED <<runtime, placeVars, busy, holds>>
  BY DEF PromotionInv, ReadsSource, Inspects, Decides, DecidesAgain, Running
<1> DEFINE Refused == {"unsafe_source", "destination_missing", "unsafe_destination", "source_changed"}
           Found(x) == call' = [call EXCEPT ![w].at = "leaving", ![w].answer = "answered", ![w].found = x]
<1>2. \A answer \in Refused : answer \in PromotionAnswers /\ answer # "answered"
  BY DEF PromotionAnswers
<1>3. "reading" \in Unattempted
  BY DEF Unattempted
<1>4. ASSUME NEW answer \in Refused, Concludes(w, answer) PROVE PromotionInv'
  BY <1>1, <1>2, <1>3, <1>4, RefusalKeeps
<1>5. Usable => capture.rev \in Nat
  BY <1>1 DEF Usable, WorldTyped, Captures
<1>6. runtime.startup \in Nat
  BY <1>1 DEF WorldTyped, Runtimes
<1>7. CASE ReadsSource(w)
  <2> DEFINE x == [source |-> capture.rev, startup |-> runtime.startup]
  <2>1. call[w].op = "review" /\ ((Usable /\ Found(x)) \/ Concludes(w, "unsafe_source"))
    BY <1>7 DEF ReadsSource
  <2>2. Usable => x \in Reviews /\ x \in Findings
    BY <1>5, <1>6 DEF Reviews, Findings
  <2> HIDE DEF x
  <2> QED
    BY <1>1, <1>4, <2>1, <2>2, AnswerKeeps
<1>8. CASE Inspects(w)
  <2>1. /\ call[w].op = "inspect"
        /\ \/ target # Missing /\ Found(target.rev)
           \/ Concludes(w, "destination_missing") \/ Concludes(w, "unsafe_destination")
    BY <1>8 DEF Inspects
  <2>2. target # Missing => target.rev \in Nat /\ target.rev \in Findings
    BY <1>1 DEF WorldTyped, Targets, Notes, Findings
  <2> QED
    BY <1>1, <1>4, <2>1, <2>2, AnswerKeeps
<1>9. CASE Decides(w)
  <2>1. CASE Usable /\ \E expected \in {0, holds[w].seen} :
               Found([by |-> w, source |-> capture.rev, expected |-> expected, startup |-> runtime.startup])
    <3>1. PICK expected \in {0, holds[w].seen} :
            Found([by |-> w, source |-> capture.rev, expected |-> expected, startup |-> runtime.startup])
      BY <2>1
    <3> DEFINE x == [by |-> w, source |-> capture.rev, expected |-> expected, startup |-> runtime.startup]
    <3>2. expected \in Nat
      BY <1>1 DEF CallsTyped, Holdings
    <3>3. x \in Decisions /\ x.startup <= runtime.startup
      BY <1>5, <1>6, <2>1, <3>2 DEF Decisions
    <3>4. x \in Findings /\ call[w].op = "decide"
      BY <1>9, <3>3 DEF Findings, Decides
    <3>5. Found(x)
      BY <3>1
    <3> HIDE DEF x
    <3> QED
      BY <1>1, <3>3, <3>4, <3>5, AnswerKeeps
  <2>2. CASE Concludes(w, "unsafe_source") \/ Concludes(w, "source_changed")
    BY <1>4, <2>2
  <2> QED
    BY <1>9, <2>1, <2>2 DEF Decides
<1>10. CASE DecidesAgain(w)
  <2>1. call[w].op = "apply" /\ (Becomes(w, "ready") \/ Concludes(w, "source_changed"))
    BY <1>10 DEF DecidesAgain
  <2> QED
    BY <1>1, <1>4, <2>1, AdvanceKeeps
<1> QED
  BY <1>7, <1>8, <1>9, <1>10

LEMMA BindsOrCommits ==
    ASSUME PromotionInv, NEW w \in Workflows, Binds(w) \/ Commits(w) PROVE PromotionInv'
<1>1. /\ WorldTyped /\ CallsTyped /\ WorkflowInv(w) /\ call[w].at \in {"binding", "ready"}
      /\ UNCHANGED <<runtime, placeVars, busy, holds>>
  BY DEF PromotionInv, Binds, Commits, Running
<1>2. /\ {"unavailable", "cancelled", "source_changed"} \subseteq PromotionAnswers \ {"answered"}
      /\ {"binding", "ready"} \subseteq Unattempted
  BY DEF PromotionAnswers, Unattempted
<1>3. CASE Binds(w)
  <2>1. Concludes(w, "unavailable") \/ Becomes(w, "reading")
    BY <1>3 DEF Binds
  <2> QED
    BY <1>1, <1>2, <2>1, RefusalKeeps, AdvanceKeeps
<1>4. CASE Commits(w)
  <2>1. Concludes(w, "cancelled") \/ Concludes(w, "source_changed") \/ Becomes(w, "locking")
    BY <1>4 DEF Commits
  <2>2. call[w].at = "ready" /\ call[w].op = "apply"
    BY <1>1, <1>4 DEF Commits, Running, WorkflowInv, AppliesOwn
  <2> QED
    BY <1>1, <1>2, <2>1, <2>2, RefusalKeeps, AdvanceKeeps
<1> QED
  BY <1>3, <1>4

LEMMA ChecksSourceKeeps ==
    ASSUME PromotionInv, NEW w \in Workflows, ChecksSource(w) PROVE PromotionInv'
<1>1. /\ WorldTyped /\ CallsTyped /\ WorkflowInv(w) /\ call[w].at = "locking"
      /\ UNCHANGED <<runtime, placeVars, busy, holds>>
  BY DEF PromotionInv, ChecksSource, Running
<1>2. /\ "source_changed" \in PromotionAnswers \ {"answered"}
      /\ "locking" \in Unattempted
  BY DEF PromotionAnswers, Unattempted
<1>3. CASE Concludes(w, "source_changed")
  BY <1>1, <1>2, <1>3, RefusalKeeps
<1>4. CASE StillReviewed(w) /\ call' = [call EXCEPT ![w].at = "checking", ![w].source = capture.rev]
  <2> DEFINE c == [call[w] EXCEPT !.at = "checking", !.source = capture.rev]
  <2>1. capture.rev \in Nat /\ capture.rev = holds[w].decision.source
    BY <1>1, <1>4 DEF StillReviewed, SourceIs, Usable, WorldTyped, Captures
  <2>2. /\ c \in CallRecords /\ c.at = "checking" /\ c.op = call[w].op /\ c.startup = call[w].startup
        /\ c.source = capture.rev /\ c.found = call[w].found /\ c.answer = call[w].answer
        /\ c.wrote = call[w].wrote
    <3>1. "checking" \in Stations
      BY DEF Stations, WhileAdmitted, Unattempted, Attempted
    <3> QED
      BY <1>1, <2>1, <3>1 DEF CallsTyped, CallRecords
  <2>3. call' = [call EXCEPT ![w] = c]
    BY <1>1, <1>4 DEF CallsTyped
  <2> HIDE DEF c
  <2>4. call'[w] = c /\ \A v \in Workflows \ {w} : call'[v] = call[v] /\ holds'[v] = holds[v]
    BY <1>1, <2>3 DEF CallsTyped
  <2>5. CallsTyped' /\ WorldTyped'
    BY <1>1, <2>2, <2>3 DEF CallsTyped, WorldTyped, placeVars
  <2>6. call[w].wrote = Missing
    BY <1>1 DEF WorkflowInv, WroteDecided, Attempted
  <2>7. WorkflowInv(w)'
    <3>1. AloneInside(w)' /\ Dated(w)'
      BY <1>1, <2>1, <2>2, <2>4, <2>6 DEF WorkflowInv, AloneInside, Dated, WhileAdmitted, Unattempted, Attempted
    <3>2. AppliesOwn(w)'
      BY <1>1, <2>1, <2>2, <2>4, <2>6 DEF WorkflowInv, AppliesOwn, Allowed, Unattempted, Attempted
    <3>3. AttemptKnown(w)'
      BY <1>1, <2>1, <2>2, <2>4, <2>6 DEF WorkflowInv, AttemptKnown, Unwritten, placeVars, Unattempted, Attempted
    <3>4. WroteDecided(w)'
      BY <1>1, <2>1, <2>2, <2>4, <2>6 DEF WorkflowInv, WroteDecided, Told, Allowed, Unattempted, Attempted
    <3> QED
      BY <3>1, <3>2, <3>3, <3>4 DEF WorkflowInv
  <2> QED
    BY <1>1, <2>4, <2>5, <2>7, OneWorkflow DEF placeVars
<1> QED
  BY <1>3, <1>4 DEF ChecksSource

(* What is known of an application from its look at the destination on. *)
LEMMA OwnDecision ==
    ASSUME PromotionInv, NEW w \in Workflows, Running(w, call[w].at),
           call[w].at \in {"checking", "writing"} \cup Attempted
    PROVE  /\ WorldTyped /\ CallsTyped /\ WorkflowInv(w) /\ busy = w
           /\ call[w] \in CallRecords /\ holds[w] \in Holdings /\ call[w].op = "apply"
           /\ holds[w].decision \in Decisions /\ holds[w].decision # Missing
           /\ holds[w].decision.startup = runtime.startup /\ call[w].startup = runtime.startup
           /\ Allowed
<1>1. WorldTyped /\ CallsTyped /\ WorkflowInv(w) /\ busy = w
  BY DEF PromotionInv, Running
<1>2. call[w] \in CallRecords /\ holds[w] \in Holdings
  BY <1>1 DEF CallsTyped
<1>3. call[w].op = "apply" /\ call[w].at # "idle"
  BY <1>1 DEF WorkflowInv, AppliesOwn, Attempted
<1>4. /\ holds[w].decision # Missing /\ holds[w].decision.startup = call[w].startup
      /\ call[w].startup = runtime.startup => Allowed
  BY <1>1, <1>3 DEF WorkflowInv, AppliesOwn
<1>5. call[w].startup = runtime.startup
  BY <1>1 DEF WorkflowInv, AloneInside, WhileAdmitted, Unattempted
<1>6. holds[w].decision \in Decisions
  BY <1>2, <1>4 DEF Holdings, HeldDecisions
<1> QED
  BY <1>1, <1>2, <1>3, <1>4, <1>5, <1>6

LEMMA ChecksDestinationKeeps ==
    ASSUME PromotionInv, NEW w \in Workflows, ChecksDestination(w) PROVE PromotionInv'
<1>1. /\ Running(w, call[w].at) /\ call[w].at = "checking"
      /\ UNCHANGED <<runtime, placeVars, busy, holds>>
  BY DEF ChecksDestination, Running
<1>2. /\ WorldTyped /\ CallsTyped /\ WorkflowInv(w) /\ call[w] \in CallRecords
      /\ holds[w].decision \in Decisions /\ call[w].op = "apply"
  BY <1>1, OwnDecision
<1> DEFINE d == holds[w].decision
           text == IF target = Missing THEN 0 ELSE target.rev
           file == IF target = Missing THEN 0 ELSE target.file
<1>3. CASE \E answer \in {Destination(d), "write_unavailable"} \ {"write"} : Concludes(w, answer)
  <2>1. PICK answer \in {Destination(d), "write_unavailable"} \ {"write"} : Concludes(w, answer)
    BY <1>3
  <2>2. answer \in PromotionAnswers /\ answer # "answered"
    BY <2>1 DEF Destination, PromotionAnswers
  <2>3. call[w].at \in Unattempted
    BY <1>1 DEF Unattempted
  <2> QED
    BY <1>1, <2>1, <2>2, <2>3, RefusalKeeps
<1>4. CASE /\ Destination(d) = "write"
           /\ call' = [call EXCEPT ![w].at = "writing", ![w].text = text, ![w].file = file]
  <2> DEFINE c == [call[w] EXCEPT !.at = "writing", !.text = text, !.file = file]
  <2>1. text \in Nat /\ file \in Nat
    BY <1>2 DEF WorldTyped, Targets, Notes
  <2>2. text = d.expected
    BY <1>4 DEF Destination
  <2>3. Unwritten(d)
    <3>1. Block(d).by = d.by
      BY DEF Block
    <3> QED
      BY <1>4, <3>1 DEF Destination, Unwritten, Own
  <2> HIDE DEF text, file
  <2>4. call' = [call EXCEPT ![w] = c]
    BY <1>2, <1>4 DEF CallsTyped
  <2>5. "writing" \in Stations
    BY DEF Stations, WhileAdmitted, Unattempted
  <2>6. c \in CallRecords
    BY <1>2, <2>1, <2>5 DEF CallRecords
  <2>7. /\ c.at = "writing" /\ c.op = call[w].op /\ c.startup = call[w].startup
        /\ c.source = call[w].source /\ c.text = text /\ c.found = call[w].found
        /\ c.answer = call[w].answer /\ c.wrote = call[w].wrote
    BY <1>2 DEF CallRecords
  <2> HIDE DEF c
  <2>8. call'[w] = c /\ \A v \in Workflows \ {w} : call'[v] = call[v] /\ holds'[v] = holds[v]
    BY <1>1, <1>2, <2>4 DEF CallsTyped
  <2>9. CallsTyped' /\ WorldTyped'
    BY <1>1, <1>2, <2>4, <2>6 DEF CallsTyped, WorldTyped, placeVars
  <2>10. call[w].wrote = Missing
    BY <1>1, <1>2 DEF WorkflowInv, WroteDecided, Attempted
  <2>11. UNCHANGED <<runtime, busy, holds, target>>
    BY <1>1 DEF placeVars
  <2>12. WorkflowInv(w)'
    <3>1. AloneInside(w)' /\ Dated(w)'
      BY <1>1, <1>2, <2>7, <2>8, <2>11 DEF WorkflowInv, AloneInside, Dated, WhileAdmitted, Unattempted
    <3>2. AppliesOwn(w)'
      BY <1>1, <1>2, <2>7, <2>8, <2>11 DEF WorkflowInv, AppliesOwn, Allowed
    <3>3. AttemptKnown(w)'
      BY <2>2, <2>3, <2>7, <2>8, <2>11 DEF AttemptKnown, Unwritten, Attempted
    <3>4. WroteDecided(w)'
      BY <2>7, <2>8, <2>10 DEF WroteDecided
    <3> QED
      BY <3>1, <3>2, <3>3, <3>4 DEF WorkflowInv
  <2> QED
    BY <2>8, <2>9, <2>11, <2>12, OneWorkflow
<1> QED
  BY <1>3, <1>4 DEF ChecksDestination

LEMMA WritesNothingKeeps ==
    ASSUME PromotionInv, NEW w \in Workflows, WritesNothing(w) PROVE PromotionInv'
<1> DEFINE d == holds[w].decision
<1>1. d.expected = 0 /\ target # Missing => Destination(d) \in {"already_applied", "conflict"}
  BY DEF Destination
<1>2. PICK answer \in {"write_unavailable", "already_applied", "conflict", "destination_missing",
                       "destination_changed"} : Concludes(w, answer)
  BY <1>1 DEF WritesNothing
<1>3. answer \in PromotionAnswers /\ answer # "answered"
  BY DEF PromotionAnswers
<1>4. call[w].at \in Unattempted
  BY DEF WritesNothing, Running, Unattempted
<1> QED
  BY <1>2, <1>3, <1>4, RefusalKeeps DEF WritesNothing

(* The write, in full or not, keeps the kinds of the notes, and what is not *)
(* written in full shows nothing of the decision's whole block.             *)
LEMMA WritesKeeps ==
    ASSUME PromotionInv, NEW w \in Workflows, Writes(w) PROVE PromotionInv'
<1>1. /\ Running(w, call[w].at) /\ call[w].at = "writing"
      /\ UNCHANGED <<runtime, root, capture, busy, holds>> /\ revisions' = revisions + 1
  BY DEF Writes, Running
<1>2. /\ WorldTyped /\ CallsTyped /\ WorkflowInv(w) /\ call[w] \in CallRecords /\ busy = w
      /\ holds[w].decision \in Decisions /\ holds[w].decision # Missing
      /\ holds[w].decision.startup = runtime.startup /\ call[w].startup = runtime.startup
      /\ call[w].op = "apply" /\ Allowed
  BY <1>1, OwnDecision
<1>3. PICK d \in Decisions : d = holds[w].decision
  BY <1>2
<1>4. revisions + 1 \in Nat /\ (target = Missing \/ target \in Notes)
  BY <1>2 DEF WorldTyped, Targets
<1>5. /\ call[w].text = d.expected /\ Unwritten(d) /\ call[w].source = d.source
      /\ d.source \in Nat /\ runtime.startup \in Nat
  BY <1>1, <1>2, <1>3 DEF WorkflowInv, AttemptKnown, AppliesOwn, Decisions, WorldTyped, Runtimes
<1>6. Block(d) \in Blocks /\ Torn(d) \in Blocks /\ Block(d) # Torn(d)
  <2>1. Block(d) \in Blocks /\ Block(d).whole = TRUE
    BY DEF Block, Blocks, Decisions
  <2>2. Torn(d) \in Blocks /\ Torn(d).whole = FALSE
    BY <2>1 DEF Torn, Blocks
  <2> QED
    BY <2>1, <2>2
<1> DEFINE create == d.expected = 0
           before == IF target = Missing THEN 0 ELSE target.rev
<1>7. PICK whole \in BOOLEAN :
        /\ (whole /\ Creates(w)) \/ Appends(w, whole) \/ (~whole /\ target' = target)
        /\ call' = [call EXCEPT ![w].at = "confirming",
               ![w].file = IF create THEN revisions + 1 ELSE @,
               ![w].wrote = [source |-> call[w].source, startup |-> runtime.startup,
                             rev |-> revisions + 1, whole |-> whole, before |-> before]]
  BY <1>3 DEF Writes
<1>8. target' \in Targets
  <2>1. CASE target' = target
    BY <1>2, <2>1 DEF WorldTyped
  <2>2. CASE Creates(w)
    <3>1. [rev |-> revisions + 1, file |-> revisions + 1, captured |-> FALSE,
           made |-> {Block(d)}, blocks |-> {}] \in Notes
      BY <1>4, <1>6 DEF Notes
    <3> QED
      BY <1>3, <2>2, <3>1 DEF Creates, Targets
  <2>3. CASE Appends(w, whole)
    <3>1. target \in Notes /\ target.blocks \cup {IF whole THEN Block(d) ELSE Torn(d)} \in SUBSET Blocks
      BY <1>4, <1>6, <2>3 DEF Appends, SameFile, Notes
    <3>2. [target EXCEPT !.rev = revisions + 1, !.made = {},
             !.blocks = target.blocks \cup {IF whole THEN Block(d) ELSE Torn(d)}] \in Notes
      BY <1>4, <3>1 DEF Notes
    <3> QED
      BY <1>3, <2>3, <3>2 DEF Appends, Targets
  <2> QED
    BY <1>7, <2>1, <2>2, <2>3
<1>9. whole \/ Unwritten(d)'
  <2> SUFFICES ASSUME ~whole PROVE Unwritten(d)'
    OBVIOUS
  <2>1. CASE target' = target
    BY <1>5, <2>1 DEF Unwritten
  <2>2. CASE Appends(w, whole)
    <3>1. target # Missing /\ target \in Notes /\ d.expected # 0
      BY <1>3, <1>4, <2>2 DEF Appends, SameFile
    <3>2. target'.blocks = target.blocks \cup {Torn(d)}
      BY <1>3, <2>2, <3>1 DEF Appends, Notes
    <3> QED
      BY <1>5, <1>6, <3>1, <3>2 DEF Unwritten
  <2> QED
    BY <1>7, <2>1, <2>2
<1> DEFINE receipt == [source |-> call[w].source, startup |-> runtime.startup,
                       rev |-> revisions + 1, whole |-> whole, before |-> before]
<1>10. /\ receipt \in ReceiptsOrNone
       /\ receipt.source = d.source /\ receipt.startup = d.startup /\ receipt.whole = whole
  <2>1. before \in Nat
    BY <1>4 DEF Notes
  <2> HIDE DEF before
  <2> QED
    BY <1>2, <1>3, <1>4, <1>5, <2>1 DEF ReceiptsOrNone, Receipts
<1> HIDE DEF receipt
<1> DEFINE file == IF create THEN revisions + 1 ELSE call[w].file
           c == [call[w] EXCEPT !.at = "confirming", !.file = file, !.wrote = receipt]
<1>11. call' = [call EXCEPT ![w] = c]
  BY <1>2, <1>7 DEF CallsTyped, receipt
<1>12. file \in Nat
  BY <1>2, <1>4 DEF CallRecords
<1> HIDE DEF file, create
<1>13. "confirming" \in Stations
  BY DEF Stations, WhileAdmitted, Attempted
<1>14. c \in CallRecords
  BY <1>2, <1>10, <1>12, <1>13 DEF CallRecords
<1>15. /\ c.at = "confirming" /\ c.op = call[w].op /\ c.startup = call[w].startup /\ c.text = call[w].text
       /\ c.found = call[w].found /\ c.answer = call[w].answer /\ c.wrote = receipt
  BY <1>2 DEF CallRecords
<1> HIDE DEF c
<1>16. call'[w] = c /\ \A v \in Workflows \ {w} : call'[v] = call[v] /\ holds'[v] = holds[v]
  BY <1>1, <1>2, <1>11 DEF CallsTyped
<1>17. CallsTyped' /\ WorldTyped'
  BY <1>1, <1>2, <1>4, <1>8, <1>11, <1>14 DEF CallsTyped, WorldTyped
<1>18. WorkflowInv(w)'
  <2>1. holds'[w].decision = d /\ UNCHANGED runtime
    BY <1>1, <1>3
  <2>2. AloneInside(w)' /\ Dated(w)'
    BY <1>1, <1>2, <1>15, <1>16 DEF WorkflowInv, AloneInside, Dated
  <2>3. AppliesOwn(w)'
    BY <1>2, <1>3, <1>15, <1>16, <2>1 DEF AppliesOwn, Allowed
  <2>4. AttemptKnown(w)'
    <3>1. (\E x : x = whole /\ (x \/ Unwritten(d)')) /\ call'[w].wrote.whole = whole
      BY <1>9, <1>10, <1>15, <1>16
    <3>2. call'[w].wrote.whole \/ Unwritten(d)'
      BY <1>9, <3>1
    <3> QED
      BY <1>5, <1>15, <1>16, <2>1, <3>2 DEF AttemptKnown, Unwritten
  <2>5. WroteDecided(w)'
    BY <1>2, <1>3, <1>10, <1>15, <1>16, <2>1 DEF WroteDecided, Allowed, Attempted
  <2> QED
    BY <2>2, <2>3, <2>4, <2>5 DEF WorkflowInv
<1> QED
  BY <1>1, <1>2, <1>16, <1>17, <1>18, OneWorkflow

(* Only the very text that was decided about and the whole block behind it *)
(* are reported as applied.                                                *)
LEMMA ConfirmsKeeps ==
    ASSUME PromotionInv, NEW w \in Workflows, Confirms(w) PROVE PromotionInv'
<1>1. /\ Running(w, call[w].at) /\ call[w].at = "confirming"
      /\ UNCHANGED <<runtime, placeVars, busy, holds>>
  BY DEF Confirms, Running
<1>2. /\ WorldTyped /\ CallsTyped /\ WorkflowInv(w) /\ call[w] \in CallRecords
      /\ call[w].op = "apply"
  BY <1>1, OwnDecision DEF Attempted
<1>3. UNCHANGED <<runtime, busy, holds, target>> /\ holds'[w] = holds[w]
  BY <1>1 DEF placeVars
<1>4. ASSUME NEW at \in {"recovering", "queueing"}, NEW answer \in PromotionAnswers, NEW c \in CallRecords,
             c.at = at, c.op = call[w].op, c.startup = call[w].startup, c.text = call[w].text,
             c.found = call[w].found, c.wrote = call[w].wrote, c.answer = answer,
             answer # "answered" \/ answer = call[w].answer,
             call' = [call EXCEPT ![w] = c],
             at = "queueing" => AsWritten(w) /\ answer = "applied"
      PROVE  PromotionInv'
  <2>1. call'[w] = c /\ \A v \in Workflows \ {w} : call'[v] = call[v] /\ holds'[v] = holds[v]
    BY <1>2, <1>3, <1>4 DEF CallsTyped
  <2>2. CallsTyped' /\ WorldTyped'
    BY <1>1, <1>2, <1>4 DEF CallsTyped, WorldTyped, placeVars
  <2>3. AloneInside(w)'
    BY <1>1, <1>2, <1>3, <1>4, <2>1 DEF WorkflowInv, AloneInside, WhileAdmitted, Attempted
  <2>4. Dated(w)'
    BY <1>2, <1>3, <1>4, <2>1 DEF WorkflowInv, Dated
  <2>5. AppliesOwn(w)'
    BY <1>1, <1>2, <1>3, <1>4, <2>1 DEF WorkflowInv, AppliesOwn, Allowed
  <2>6. AttemptKnown(w)'
    BY <1>1, <1>2, <1>3, <1>4, <2>1 DEF WorkflowInv, AttemptKnown, Unwritten, Attempted
  <2>7. WroteDecided(w)'
    <3>1. at = "queueing" => Told(w)'
      BY <1>1, <1>2, <1>3, <1>4, <2>1 DEF WorkflowInv, AttemptKnown, AsWritten, Told, Attempted
    <3> QED
      BY <1>1, <1>2, <1>3, <1>4, <2>1, <3>1 DEF WorkflowInv, WroteDecided, Allowed, Attempted
  <2>8. WorkflowInv(w)'
    BY <2>3, <2>4, <2>5, <2>6, <2>7 DEF WorkflowInv
  <2> QED
    BY <1>3, <2>1, <2>2, <2>8, OneWorkflow
<1>5. CASE AsWritten(w) /\ call' = [call EXCEPT ![w].at = "queueing", ![w].answer = "applied"]
  <2> DEFINE c == [call[w] EXCEPT !.at = "queueing", !.answer = "applied"]
  <2>1. call' = [call EXCEPT ![w] = c]
    BY <1>2, <1>5 DEF CallsTyped
  <2>2. "queueing" \in Stations /\ "applied" \in PromotionAnswers
    BY DEF Stations, WhileAdmitted, PromotionAnswers
  <2>3. /\ c \in CallRecords /\ c.at = "queueing" /\ c.op = call[w].op /\ c.startup = call[w].startup
        /\ c.text = call[w].text /\ c.found = call[w].found /\ c.wrote = call[w].wrote
        /\ c.answer = "applied"
    BY <1>2, <2>2 DEF CallRecords
  <2> HIDE DEF c
  <2> QED
    BY <1>4, <1>5, <2>1, <2>2, <2>3
<1>6. CASE Becomes(w, "recovering")
  <2> DEFINE c == [call[w] EXCEPT !.at = "recovering"]
  <2>1. call' = [call EXCEPT ![w] = c]
    BY <1>2, <1>6 DEF CallsTyped, Becomes
  <2>2. "recovering" \in Stations /\ call[w].answer \in PromotionAnswers
    BY <1>2 DEF Stations, WhileAdmitted, Attempted, CallRecords
  <2>3. /\ c \in CallRecords /\ c.at = "recovering" /\ c.op = call[w].op /\ c.startup = call[w].startup
        /\ c.text = call[w].text /\ c.found = call[w].found /\ c.wrote = call[w].wrote
        /\ c.answer = call[w].answer
    BY <1>2, <2>2 DEF CallRecords
  <2> HIDE DEF c
  <2> QED
    BY <1>4, <2>1, <2>2, <2>3
<1> QED
  BY <1>5, <1>6 DEF Confirms

(* What is proved to be in the note, the call has written in full. *)
LEMMA RecoversKeeps ==
    ASSUME PromotionInv, NEW w \in Workflows, Recovers(w) PROVE PromotionInv'
<1>1. /\ Running(w, call[w].at) /\ call[w].at = "recovering"
      /\ UNCHANGED <<runtime, placeVars, busy, holds>>
  BY DEF Recovers, Running
<1>2. WorldTyped /\ CallsTyped /\ WorkflowInv(w) /\ call[w].op = "apply"
  BY <1>1, OwnDecision DEF Attempted
<1>3. PICK answer \in {"already_applied", "commit_unknown"} :
        Concludes(w, answer) /\ (answer = "already_applied" => Proved(w))
  BY DEF Recovers
<1>4. answer \in PromotionAnswers
  BY DEF PromotionAnswers
<1>5. answer = "already_applied" => call[w].wrote.whole
  <2>1. Proved(w) => ~Unwritten(holds[w].decision)
    BY DEF Proved, SameFile, Unwritten, Own
  <2> QED
    BY <1>1, <1>2, <1>3, <2>1 DEF WorkflowInv, AttemptKnown, Attempted
<1>6. /\ call' \in [Workflows -> CallRecords] /\ call'[w].at = "leaving"
      /\ call'[w].op = call[w].op /\ call'[w].startup = call[w].startup
      /\ call'[w].found = call[w].found /\ call'[w].answer = answer /\ call'[w].wrote = call[w].wrote
      /\ \A v \in Workflows \ {w} : call'[v] = call[v]
  BY <1>2, <1>3, <1>4, Concluded
<1>7. UNCHANGED <<runtime, busy, holds, target>> /\ \A v \in Workflows : holds'[v] = holds[v]
  BY <1>1 DEF placeVars
<1>8. CallsTyped' /\ WorldTyped'
  BY <1>1, <1>2, <1>6 DEF CallsTyped, WorldTyped, placeVars
<1>9. WorkflowInv(w)'
  <2>1. AloneInside(w)' /\ Dated(w)'
    BY <1>1, <1>2, <1>6, <1>7 DEF WorkflowInv, AloneInside, Dated, WhileAdmitted, Attempted
  <2>2. AppliesOwn(w)' /\ AttemptKnown(w)'
    BY <1>1, <1>2, <1>6, <1>7 DEF WorkflowInv, AppliesOwn, AttemptKnown, Allowed, Attempted
  <2>3. Told(w)'
    BY <1>5, <1>6, <1>7 DEF Told
  <2>4. WroteDecided(w)'
    BY <1>2, <1>6, <1>7, <2>3 DEF WorkflowInv, WroteDecided, Allowed
  <2> QED
    BY <2>1, <2>2, <2>4 DEF WorkflowInv
<1> QED
  BY <1>6, <1>7, <1>8, <1>9, OneWorkflow

(* A step after which a call stands as it did, but for its place in the order. *)
LEMMA QueuesKeeps ==
    ASSUME PromotionInv, NEW w \in Workflows, Queues(w) PROVE PromotionInv'
<1>1. /\ WorldTyped /\ CallsTyped /\ WorkflowInv(w) /\ call[w].at = "queueing"
      /\ UNCHANGED <<runtime, placeVars, busy, holds>>
  BY DEF PromotionInv, Queues, Running
<1>2. PICK index \in Indexings : call' = [call EXCEPT ![w].at = "leaving", ![w].index = index]
  BY DEF Queues, Indexings
<1> DEFINE c == [call[w] EXCEPT !.at = "leaving", !.index = index]
<1>3. call' = [call EXCEPT ![w] = c]
  BY <1>1, <1>2 DEF CallsTyped
<1>4. /\ c \in CallRecords /\ c.at = "leaving" /\ c.op = call[w].op /\ c.startup = call[w].startup
      /\ c.source = call[w].source /\ c.text = call[w].text /\ c.found = call[w].found
      /\ c.answer = call[w].answer
      /\ c.wrote = call[w].wrote
  <2>1. "leaving" \in Stations
    BY DEF Stations, WhileAdmitted, Unattempted, Attempted
  <2> QED
    BY <1>1, <2>1 DEF CallsTyped, CallRecords
<1> HIDE DEF c
<1>5. call'[w] = c /\ \A v \in Workflows \ {w} : call'[v] = call[v] /\ holds'[v] = holds[v]
  BY <1>1, <1>3 DEF CallsTyped
<1>6. CallsTyped' /\ WorldTyped'
  BY <1>1, <1>3, <1>4 DEF CallsTyped, WorldTyped, placeVars
<1>7. WorkflowInv(w)'
  <2>1. AloneInside(w)' /\ Dated(w)'
    BY <1>1, <1>4, <1>5 DEF WorkflowInv, AloneInside, Dated, WhileAdmitted, Unattempted, Attempted
  <2>2. AppliesOwn(w)'
    BY <1>1, <1>4, <1>5 DEF WorkflowInv, AppliesOwn, Allowed, Unattempted, Attempted
  <2>3. AttemptKnown(w)'
    BY <1>1, <1>4, <1>5 DEF WorkflowInv, AttemptKnown, Unwritten, placeVars, Unattempted, Attempted
  <2>4. WroteDecided(w)'
    BY <1>1, <1>4, <1>5 DEF WorkflowInv, WroteDecided, Told, Allowed, Unattempted, Attempted
  <2> QED
    BY <2>1, <2>2, <2>3, <2>4 DEF WorkflowInv
<1> QED
  BY <1>1, <1>5, <1>6, <1>7, OneWorkflow DEF placeVars

LEMMA CancelsKeeps ==
    ASSUME PromotionInv, NEW w \in Workflows, Cancels(w) PROVE PromotionInv'
<1>1. /\ WorldTyped /\ CallsTyped /\ WorkflowInv(w) /\ call[w].at # "idle"
      /\ UNCHANGED <<runtime, placeVars, busy, holds>>
  BY DEF PromotionInv, Cancels
<1> DEFINE c == [call[w] EXCEPT !.cancelled = TRUE]
<1>3. call' = [call EXCEPT ![w] = c]
  BY <1>1 DEF Cancels, CallsTyped
<1>4. /\ c \in CallRecords /\ c.at = call[w].at /\ c.op = call[w].op /\ c.startup = call[w].startup
      /\ c.source = call[w].source /\ c.text = call[w].text /\ c.found = call[w].found
      /\ c.answer = call[w].answer
      /\ c.wrote = call[w].wrote
  BY <1>1 DEF CallsTyped, CallRecords
<1> HIDE DEF c
<1>5. call'[w] = c /\ \A v \in Workflows \ {w} : call'[v] = call[v] /\ holds'[v] = holds[v]
  BY <1>1, <1>3 DEF CallsTyped
<1>6. CallsTyped' /\ WorldTyped'
  BY <1>1, <1>3, <1>4 DEF CallsTyped, WorldTyped, placeVars
<1>7. WorkflowInv(w)'
  <2>1. AloneInside(w)' /\ Dated(w)'
    BY <1>1, <1>4, <1>5 DEF WorkflowInv, AloneInside, Dated, WhileAdmitted, Unattempted, Attempted
  <2>2. AppliesOwn(w)'
    BY <1>1, <1>4, <1>5 DEF WorkflowInv, AppliesOwn, Allowed, Unattempted, Attempted
  <2>3. AttemptKnown(w)'
    BY <1>1, <1>4, <1>5 DEF WorkflowInv, AttemptKnown, Unwritten, placeVars, Unattempted, Attempted
  <2>4. WroteDecided(w)'
    BY <1>1, <1>4, <1>5 DEF WorkflowInv, WroteDecided, Told, Allowed, Unattempted, Attempted
  <2> QED
    BY <2>1, <2>2, <2>3, <2>4 DEF WorkflowInv
<1> QED
  BY <1>1, <1>5, <1>6, <1>7, OneWorkflow DEF placeVars

LEMMA LeavesKeeps ==
    ASSUME PromotionInv, NEW w \in Workflows, Leaves(w) PROVE PromotionInv'
<1> DEFINE failed == ~Committed(w) /\ TokenFails(w)
           answer == IF failed THEN "cancelled" ELSE call[w].answer
           h == CASE call[w].op = "review" -> [holds[w] EXCEPT !.snapshot = call[w].found]
                  [] call[w].op = "inspect" -> [holds[w] EXCEPT !.seen = call[w].found]
                  [] OTHER -> [holds[w] EXCEPT !.decision = call[w].found]
           c == [call[w] EXCEPT !.at = "idle", !.answer = answer]
<1>1. /\ WorldTyped /\ CallsTyped /\ WorkflowInv(w) /\ call[w].at = "leaving" /\ busy = w
      /\ UNCHANGED <<runtime, placeVars>> /\ busy' = Missing
  BY DEF PromotionInv, Leaves, Running
<1>2. call' = [call EXCEPT ![w] = c]
  BY <1>1 DEF Leaves, CallsTyped
<1>3. \/ UNCHANGED holds
      \/ ~failed /\ call[w].answer = "answered" /\ holds' = [holds EXCEPT ![w] = h]
  BY DEF Leaves
<1>4. answer \in PromotionAnswers
  BY <1>1 DEF CallsTyped, CallRecords, PromotionAnswers
<1>5. call[w].answer \in {"applied", "already_applied", "commit_unknown"} => answer = call[w].answer
  BY DEF Committed
<1>6. answer \in {call[w].answer, "cancelled"}
  OBVIOUS
<1> HIDE DEF answer, failed
<1>7. /\ c \in CallRecords /\ c.at = "idle" /\ c.op = call[w].op /\ c.startup = call[w].startup
      /\ c.found = call[w].found /\ c.answer = answer /\ c.wrote = call[w].wrote
  <2>1. "idle" \in Stations
    BY DEF Stations
  <2> QED
    BY <1>1, <1>4, <2>1 DEF CallsTyped, CallRecords
<1> HIDE DEF c
<1>8. call[w].answer = "answered" =>
        /\ h \in Holdings
        /\ h.decision = holds[w].decision \/ h.decision.startup <= runtime.startup
  <2> SUFFICES ASSUME call[w].answer = "answered"
               PROVE  /\ h \in Holdings
                      /\ h.decision = holds[w].decision \/ h.decision.startup <= runtime.startup
    OBVIOUS
  <2>1. /\ call[w].op \in {"review", "inspect", "decide"}
        /\ call[w].op = "review" => call[w].found \in Snapshots
        /\ call[w].op = "inspect" => call[w].found \in Nat
        /\ call[w].op = "decide" => call[w].found \in HeldDecisions /\ call[w].found.startup <= runtime.startup
    BY <1>1 DEF WorkflowInv, Dated, Snapshots, HeldDecisions
  <2> QED
    BY <1>1, <2>1 DEF CallsTyped, Holdings
<1> HIDE DEF h
<1>9. /\ call'[w] = c /\ \A v \in Workflows \ {w} : call'[v] = call[v] /\ holds'[v] = holds[v]
      /\ holds'[w] = holds[w] \/ (call[w].answer = "answered" /\ holds'[w] = h)
  <2>1. call \in [Workflows -> CallRecords] /\ holds \in [Workflows -> Holdings]
    BY <1>1 DEF CallsTyped
  <2>2. call'[w] = c /\ \A v \in Workflows \ {w} : call'[v] = call[v]
    BY <1>2, <2>1
  <2>3. CASE holds' = holds
    <3>1. \A v \in Workflows : holds'[v] = holds[v]
      BY <2>3
    <3> QED
      BY <2>2, <3>1
  <2>4. CASE call[w].answer = "answered" /\ holds' = [holds EXCEPT ![w] = h]
    BY <2>1, <2>2, <2>4
  <2> QED
    BY <1>3, <2>3, <2>4
<1>10. CallsTyped' /\ WorldTyped'
  BY <1>1, <1>2, <1>3, <1>7, <1>8 DEF CallsTyped, WorldTyped, placeVars
<1>11. WorkflowInv(w)'
  <2>1. AloneInside(w)' /\ AppliesOwn(w)' /\ AttemptKnown(w)'
    BY <1>7, <1>9 DEF AloneInside, AppliesOwn, AttemptKnown, WhileAdmitted, Unattempted, Attempted
  <2>2. Dated(w)'
    BY <1>1, <1>6, <1>7, <1>8, <1>9 DEF WorkflowInv, Dated
  <2>3. WroteDecided(w)'
    <3> SUFFICES ASSUME call[w].wrote # Missing PROVE WroteDecided(w)'
      BY <1>7, <1>9 DEF WroteDecided
    <3>1. WroteDecided(w) /\ Told(w) /\ call[w].op = "apply"
      BY <1>1 DEF WorkflowInv, WroteDecided, Attempted
    <3>2. call'[w].answer = call[w].answer /\ holds'[w] = holds[w]
      BY <1>5, <1>7, <1>9, <3>1 DEF Told
    <3> QED
      BY <1>1, <1>7, <1>9, <3>1, <3>2 DEF WroteDecided, Told, Allowed, Attempted
  <2> QED
    BY <2>1, <2>2, <2>3 DEF WorkflowInv
<1> QED
  BY <1>1, <1>9, <1>10, <1>11, OneWorkflow DEF placeVars

(* A new composition outdates every call and every decision. *)
LEMMA ComposesKeeps == PromotionInv /\ Composes => PromotionInv'
<1> SUFFICES ASSUME PromotionInv, Composes PROVE PromotionInv'
  OBVIOUS
<1>1. WorldTyped /\ CallsTyped /\ busy = Missing /\ UNCHANGED <<placeVars, busy, call, holds>>
  BY DEF PromotionInv, Composes
<1>2. runtime' \in Runtimes /\ runtime'.startup = runtime.startup + 1 /\ runtime.startup \in Nat
  BY <1>1 DEF Composes, WorldTyped, Runtimes
<1>3. CallsTyped' /\ WorldTyped'
  BY <1>1, <1>2 DEF CallsTyped, WorldTyped, placeVars
<1>4. ASSUME NEW w \in Workflows PROVE WorkflowInv(w)'
  <2>1. WorkflowInv(w) /\ call'[w] = call[w] /\ holds'[w] = holds[w] /\ busy # w
    BY <1>1, PromotionAssumption DEF PromotionInv
  <2>2. call[w] \in CallRecords /\ holds[w].decision \in HeldDecisions
    BY <1>1 DEF CallsTyped, Holdings
  <2>3. /\ call[w].startup \in Nat /\ call[w].startup <= runtime.startup
        /\ holds[w].decision # Missing =>
              holds[w].decision.startup \in Nat /\ holds[w].decision.startup <= runtime.startup
    BY <2>1, <2>2 DEF WorkflowInv, Dated, CallRecords, HeldDecisions, Decisions
  <2>4. AloneInside(w)'
    BY <1>1, <2>1 DEF WorkflowInv, AloneInside
  <2>5. Dated(w)'
    <3>1. call[w].found \in Decisions => call[w].found.startup \in Nat
      BY DEF Decisions
    <3> QED
      BY <1>2, <2>1, <2>3, <3>1 DEF WorkflowInv, Dated
  <2>6. AppliesOwn(w)' /\ WroteDecided(w)'
    BY <1>2, <2>1, <2>3 DEF WorkflowInv, AppliesOwn, WroteDecided, Told
  <2>7. AttemptKnown(w)'
    BY <1>1, <2>1 DEF WorkflowInv, AttemptKnown, Unwritten, placeVars
  <2> QED
    BY <2>4, <2>5, <2>6, <2>7 DEF WorkflowInv
<1> QED
  BY <1>3, <1>4 DEF PromotionInv

(* Users add nothing of a decision to the note; what they save of it keeps *)
(* some of its blocks.                                                     *)
LEMMA SurroundingsKeep ==
    ASSUME PromotionInv, BeginsShutdown \/ UserWorks PROVE PromotionInv'
<1>1. /\ WorldTyped /\ CallsTyped /\ UNCHANGED <<busy, call, holds>>
      /\ runtime'.startup = runtime.startup /\ runtime'.policy = runtime.policy
      /\ runtime' \in Runtimes
  BY DEF PromotionInv, BeginsShutdown, UserWorks, WorldTyped, Runtimes
<1>2. WorldTyped'
  <2>1. CASE BeginsShutdown
    BY <1>1, <2>1 DEF WorldTyped, BeginsShutdown, placeVars
  <2>2. CASE UserWorks
    <3>1. revisions' = revisions + 1 /\ revisions + 1 \in Nat
      BY <1>1, <2>2 DEF UserWorks, WorldTyped
    <3>2. ASSUME NEW ours \in BOOLEAN PROVE [rev |-> revisions + 1, ours |-> ours] \in Captures
      BY <3>1 DEF Captures
    <3>3. ASSUME NEW captured \in BOOLEAN,
                 NEW blocks \in {{}, IF target = Missing THEN {} ELSE target.blocks},
                 NEW file \in {revisions + 1, IF target = Missing THEN revisions + 1 ELSE target.file}
          PROVE  [rev |-> revisions + 1, file |-> file, made |-> {}, blocks |-> blocks,
                  captured |-> captured] \in Targets
      <4>1. blocks \in SUBSET Blocks /\ file \in Nat
        BY <1>1, <3>1 DEF WorldTyped, Targets, Notes
      <4> QED
        BY <3>1, <4>1 DEF Targets, Notes
    <3>4. Missing \in Captures /\ Missing \in Targets
      BY DEF Captures, Targets
    <3>5. capture' \in Captures /\ target' \in Targets /\ root' \in Nat
      BY <1>1, <2>2, <3>1, <3>2, <3>3, <3>4 DEF UserWorks, WorldTyped
    <3> QED
      BY <1>1, <3>1, <3>5 DEF WorldTyped
  <2> QED
    BY <2>1, <2>2
<1>3. CallsTyped'
  BY <1>1 DEF CallsTyped
<1>4. ASSUME NEW w \in Workflows PROVE WorkflowInv(w)'
  <2>1. WorkflowInv(w)
    BY DEF PromotionInv
  <2>2. Unwritten(holds[w].decision) => Unwritten(holds[w].decision)'
    <3>1. CASE target' = target
      BY <1>1, <3>1 DEF Unwritten
    <3>2. CASE target' = Missing
      BY <1>1, <3>2 DEF Unwritten
    <3>3. ASSUME NEW captured \in BOOLEAN,
                 NEW blocks \in {{}, IF target = Missing THEN {} ELSE target.blocks}, NEW file,
                 target' = [rev |-> revisions + 1, file |-> file, made |-> {}, blocks |-> blocks,
                            captured |-> captured]
          PROVE  Unwritten(holds[w].decision) => Unwritten(holds[w].decision)'
      <4>1. target'.made = {} /\ target'.blocks = blocks
        BY <3>3
      <4>2. blocks = {} \/ (target # Missing /\ blocks = target.blocks)
        OBVIOUS
      <4>3. holds'[w].decision = holds[w].decision
        BY <1>1
      <4> QED
        BY <4>1, <4>2, <4>3 DEF Unwritten
    <3> QED
      BY <3>1, <3>2, <3>3 DEF BeginsShutdown, UserWorks, placeVars
  <2>3. AttemptKnown(w)'
    BY <1>1, <2>1, <2>2 DEF WorkflowInv, AttemptKnown
  <2>4. AloneInside(w)' /\ Dated(w)' /\ AppliesOwn(w)'
    BY <1>1, <2>1 DEF WorkflowInv, AloneInside, Dated, AppliesOwn, Allowed
  <2>5. WroteDecided(w)'
    BY <1>1, <2>1 DEF WorkflowInv, WroteDecided, Told, Allowed
  <2> QED
    BY <2>3, <2>4, <2>5 DEF WorkflowInv
<1> QED
  BY <1>2, <1>3, <1>4 DEF PromotionInv

LEMMA PromotionStep == PromotionInv /\ [PromotionNext]_promotionVars => PromotionInv'
<1> SUFFICES ASSUME PromotionInv, [PromotionNext]_promotionVars PROVE PromotionInv'
  OBVIOUS
<1>1. ASSUME NEW w \in Workflows, Works(w) PROVE PromotionInv'
  BY <1>1, AsksKeeps, AdmittedKeeps, BindsOrCommits, ReadingKeeps, ChecksSourceKeeps,
     ChecksDestinationKeeps, WritesNothingKeeps, WritesKeeps, ConfirmsKeeps, RecoversKeeps,
     QueuesKeeps, LeavesKeeps, CancelsKeeps DEF Works
<1>2. CASE BeginsShutdown \/ UserWorks
  BY <1>2, SurroundingsKeep
<1>3. CASE Composes
  BY <1>3, ComposesKeeps
<1>4. CASE UNCHANGED promotionVars
  <2>1. UNCHANGED <<runtime, root, capture, target, revisions, busy, call, holds>>
    BY <1>4 DEF promotionVars, placeVars
  <2>2. WorldTyped' /\ CallsTyped'
    BY <2>1 DEF PromotionInv, WorldTyped, CallsTyped
  <2>3. ASSUME NEW w \in Workflows PROVE WorkflowInv(w)'
    BY <2>1 DEF PromotionInv, WorkflowInv, AloneInside, Dated, AppliesOwn, AttemptKnown, Unwritten,
       WroteDecided, Told, Allowed
  <2> QED
    BY <2>2, <2>3 DEF PromotionInv
<1> QED
  BY <1>1, <1>2, <1>3, <1>4 DEF PromotionNext

(* At every time one operation at most is inside, in the startup it asked  *)
(* in, an application under way presents an accepted decision, and the     *)
(* whole of it is in the note only if the call has written it there.       *)
THEOREM PromotionInvariance == PromotionSpec => []PromotionInv
BY PromotionStart, PromotionStep, PTL DEF PromotionSpec

(* Whatever a scoped promotion wrote was decided in the same startup about *)
(* the very capture it found, and a refusal has written nothing.  A call   *)
(* that wrote and answers applied put its whole block behind the very text *)
(* that was decided about, though users edit between check and write; one  *)
(* that answers applied already put the whole of it there.                 *)
THEOREM PromotionIsDecided == PromotionSpec => []PromotedAsDecided
<1>1. PromotionInv => PromotedAsDecided
  BY DEF PromotionInv, WorkflowInv, WroteDecided, Told, Attempted, PromotedAsDecided, Allowed
<1> QED
  BY <1>1, PromotionInvariance, PTL

-----------------------------------------------------------------------------
(* NoteAppend: appends to one note by several callers.                     *)

NotesOrNone == Note \cup {NoFile}
AppendPlaces == Inside \cup {"idle", "waiting", "recoverWait"}
Holding == {"opening", "writing"}
AppliedWords == {"appended", "already_applied"}

(* The types, one variable after the other. *)
NoteTyped == note \in NotesOrNone /\ reviewed \in [Promotions -> Text]
AppendsTyped ==
    /\ keyOf \in [Calls -> Keys] /\ pc \in [Calls -> AppendPlaces]
    /\ existing \in [Calls -> NotesOrNone] /\ fd \in [Calls -> 0..MaxEdits]
    /\ attempted \in [Calls -> BOOLEAN] /\ wrote \in [Calls -> BOOLEAN] /\ proved \in [Calls -> BOOLEAN]
    /\ verdict \in [Calls -> AppendOutcomes] /\ result \in [Calls -> AppendOutcomes]
CountsTyped ==
    /\ writer \in Calls \cup {NoCall} /\ tries \in [Calls -> 0..MaxTries]
    /\ edits \in 0..MaxEdits /\ failures \in 0..MaxFailures

Holds(c) == writer = c <=> pc[c] \in Inside

(* Where a call has a verdict, and where it can have written. *)
InStep(c) ==
    /\ pc[c] \in {"idle", "waiting", "reading", "opening", "writing", "confirming"} => verdict[c] = "none"
    /\ pc[c] \in {"recoverWait", "recovering"} => verdict[c] = "recover"
    /\ verdict[c] = "recover" => Promotes(c)
    /\ pc[c] # "idle" => result[c] = "none"
    /\ Promotes(c) /\ pc[c] \in {"waiting", "reading", "opening", "writing"} => ~wrote[c]
    /\ Promotes(c) /\ pc[c] \in {"writing", "confirming"} => attempted[c]
    /\ pc[c] = "confirming" => Promotes(c)

(* A refusal is a verdict on a call that has not written, success on one
   that saw its block. *)
Deserved(c) ==
    Promotes(c) =>
      /\ verdict[c] \in Refusals \/ result[c] \in Refusals => ~wrote[c]
      /\ verdict[c] \in AppliedWords \/ result[c] \in AppliedWords => proved[c]

(* What a promotion has read is what was reviewed, and is without its block. *)
ReadAsReviewed(c) ==
    Promotes(c) /\ pc[c] \in {"opening", "writing", "confirming"} =>
      /\ existing[c] \in Note
      /\ existing[c].text = reviewed[keyOf[c]]
      /\ existing[c].text.whole[keyOf[c]] = 0 /\ existing[c].text.torn[keyOf[c]] = 0

(* Whoever is about to write found no block to repeat, and no one has put it there since. *)
Unrepeated(c) ==
    pc[c] \in Holding /\ note # NoFile =>
      /\ note.text.whole[keyOf[c]] = 0
      /\ Promotes(c) => note.text.torn[keyOf[c]] = 0

Sees(c) == Once(note, keyOf[c]) => proved[c]

CallInv(c) == Holds(c) /\ InStep(c) /\ Deserved(c) /\ ReadAsReviewed(c) /\ Unrepeated(c) /\ Sees(c)

AppendInv ==
    /\ NoteTyped /\ AppendsTyped /\ CountsTyped
    /\ PromotedAtMostOnce /\ MarkedAtMostOnce
    /\ \A c \in Calls : CallInv(c)

LEMMA BlankIsText == Blank \in Text
BY AppendAssumption DEF Blank, Text

LEMMA BlockAdded ==
    ASSUME NEW text \in Text, NEW k \in Keys
    PROVE  /\ WithBlock(text, k) \in Text /\ WithBlock(text, k).torn = text.torn
           /\ WithBlock(text, k).whole[k] = text.whole[k] + 1
           /\ \A j \in Keys \ {k} : WithBlock(text, k).whole[j] = text.whole[j]
BY DEF WithBlock, Text

LEMMA TornBlockAdded ==
    ASSUME NEW text \in Text, NEW k \in Keys
    PROVE  /\ WithTornBlock(text, k) \in Text /\ WithTornBlock(text, k).whole = text.whole
           /\ WithTornBlock(text, k).torn[k] = text.torn[k] + 1
           /\ \A j \in Keys \ {k} : WithTornBlock(text, k).torn[j] = text.torn[j]
BY DEF WithTornBlock, Text

LEMMA NotesHaveCounts ==
    ASSUME NEW n \in Note, NEW k \in Keys
    PROVE  n.ino \in 0..MaxEdits /\ n.text \in Text /\ n.text.whole[k] \in Nat /\ n.text.torn[k] \in Nat
BY DEF Note, Text

LEMMA AppendStart == AppendInit => AppendInv
<1> SUFFICES ASSUME AppendInit PROVE AppendInv
  OBVIOUS
<1>1. note \in Note /\ reviewed \in [Promotions -> Text] /\ Blank \in Text
  BY BlankIsText, AppendAssumption DEF AppendInit, Note
<1>2. NoteTyped
  BY <1>1 DEF NoteTyped, NotesOrNone
<1>3. AppendsTyped
  <2>1. "idle" \in AppendPlaces /\ "none" \in AppendOutcomes /\ NoFile \in NotesOrNone /\ 0 \in 0..MaxEdits
    BY AppendAssumption DEF AppendPlaces, AppendOutcomes, NotesOrNone
  <2> QED
    BY <2>1 DEF AppendsTyped, AppendInit
<1>4. CountsTyped
  BY AppendAssumption DEF CountsTyped, AppendInit
<1>5. \A k \in Keys : note.text.whole[k] = 0 /\ note.text.torn[k] = 0
  BY DEF AppendInit, Blank
<1>6. PromotedAtMostOnce /\ MarkedAtMostOnce
  BY <1>5 DEF PromotedAtMostOnce, MarkedAtMostOnce, Keys
<1>7. ASSUME NEW c \in Calls PROVE CallInv(c)
  <2>1. /\ pc[c] = "idle" /\ verdict[c] = "none" /\ result[c] = "none" /\ keyOf[c] \in Keys
        /\ writer # c
    BY AppendAssumption DEF AppendInit
  <2>2. ~Once(note, keyOf[c])
    BY <1>5, <2>1 DEF Once
  <2> QED
    BY <2>1, <2>2
    DEF CallInv, Holds, InStep, Deserved, ReadAsReviewed, Unrepeated, Sees, Inside, Holding, Refusals, AppliedWords
<1> QED
  BY <1>2, <1>3, <1>4, <1>6, <1>7 DEF AppendInv

(* A step of one call touches of the others at most what they know of the note. *)
LEMMA OneCall ==
    ASSUME AppendInv, NEW c \in Calls, keyOf' = keyOf, reviewed' = reviewed,
           NoteTyped', AppendsTyped', CountsTyped', CallInv(c)',
           \A d \in Calls \ {c} :
              /\ pc'[d] = pc[d] /\ existing'[d] = existing[d] /\ attempted'[d] = attempted[d]
              /\ verdict'[d] = verdict[d] /\ result'[d] = result[d] /\ wrote'[d] = wrote[d]
              /\ proved[d] => proved'[d],
           writer' = writer \/ (writer = NoCall /\ writer' = c) \/ (writer = c /\ writer' = NoCall),
           \/ note' = note
           \/ /\ writer = c
              /\ \A d \in Calls \ {c} : Sees(d)'
              /\ PromotedAtMostOnce' /\ MarkedAtMostOnce'
    PROVE  AppendInv'
<1>1. ASSUME NEW d \in Calls, d # c PROVE CallInv(d)'
  <2>1. /\ CallInv(d) /\ pc'[d] = pc[d] /\ existing'[d] = existing[d] /\ attempted'[d] = attempted[d]
        /\ verdict'[d] = verdict[d] /\ result'[d] = result[d] /\ wrote'[d] = wrote[d]
        /\ proved[d] => proved'[d]
    BY <1>1 DEF AppendInv
  <2>2. Promotes(d)' = Promotes(d)
    BY DEF Promotes
  <2>3. Holds(d)'
    BY <1>1, <2>1, AppendAssumption DEF CallInv, Holds
  <2>4. InStep(d)' /\ Deserved(d)' /\ ReadAsReviewed(d)'
    BY <2>1, <2>2 DEF CallInv, InStep, Deserved, ReadAsReviewed
  <2>5. Unrepeated(d)' /\ Sees(d)'
    <3>1. CASE note' = note
      BY <1>1, <2>1, <2>2, <3>1 DEF CallInv, Unrepeated, Sees, Once
    <3>2. CASE writer = c /\ \A e \in Calls \ {c} : Sees(e)'
      <4>1. pc[d] \notin Holding
        BY <1>1, <2>1, <3>2 DEF CallInv, Holds, Holding, Inside
      <4> QED
        BY <1>1, <2>1, <3>2, <4>1 DEF Unrepeated
    <3> QED
      BY <3>1, <3>2
  <2> QED
    BY <2>3, <2>4, <2>5 DEF CallInv
<1>2. PromotedAtMostOnce' /\ MarkedAtMostOnce'
  BY DEF AppendInv, PromotedAtMostOnce, MarkedAtMostOnce
<1> QED
  BY <1>1, <1>2 DEF AppendInv

(* What there is to unfold in most steps. *)
LEMMA AtCall ==
    ASSUME AppendInv, NEW c \in Calls
    PROVE  /\ NoteTyped /\ AppendsTyped /\ CountsTyped /\ CallInv(c) /\ keyOf[c] \in Keys
           /\ note # NoFile => note \in Note
BY DEF AppendInv, AppendsTyped, NoteTyped, NotesOrNone

LEMMA BeginKeeps == ASSUME AppendInv, NEW c \in Calls, Begin(c) PROVE AppendInv'
<1> USE DEF Begin, Goto
<1>1. /\ NoteTyped /\ AppendsTyped /\ CountsTyped /\ CallInv(c) /\ pc[c] = "idle"
  BY AtCall
<1>2. Once(note, keyOf[c]) \in BOOLEAN /\ "waiting" \in AppendPlaces /\ "none" \in AppendOutcomes
  BY DEF Once, AppendPlaces, AppendOutcomes
<1>3. NoteTyped' /\ AppendsTyped'
  BY <1>1, <1>2 DEF NoteTyped, AppendsTyped
<1>4. CountsTyped'
  BY <1>1, AppendAssumption DEF CountsTyped
<1>5. /\ pc'[c] = "waiting" /\ wrote'[c] = FALSE /\ result'[c] = "none"
      /\ proved'[c] = Once(note, keyOf[c])
      /\ \A d \in Calls \ {c} : /\ pc'[d] = pc[d] /\ wrote'[d] = wrote[d] /\ result'[d] = result[d]
                                /\ proved'[d] = proved[d]
  BY <1>1 DEF AppendsTyped
<1>6. verdict[c] = "none"
  BY <1>1 DEF CallInv, InStep
<1>7. CallInv(c)'
  BY <1>1, <1>5, <1>6
  DEF CallInv, Holds, InStep, Deserved, ReadAsReviewed, Unrepeated, Sees, Inside, Holding, Promotes, Once,
      Refusals, AppliedWords
<1>8. \A d \in Calls \ {c} :
         /\ pc'[d] = pc[d] /\ existing'[d] = existing[d] /\ attempted'[d] = attempted[d]
         /\ verdict'[d] = verdict[d] /\ result'[d] = result[d] /\ wrote'[d] = wrote[d]
         /\ proved[d] => proved'[d]
  BY <1>5
<1>9. keyOf' = keyOf /\ reviewed' = reviewed /\ writer' = writer /\ note' = note
  OBVIOUS
<1> HIDE DEF Begin
<1> QED
  BY <1>3, <1>4, <1>7, <1>8, <1>9, OneCall

LEMMA AcquireLockKeeps == ASSUME AppendInv, NEW c \in Calls, AcquireLock(c) PROVE AppendInv'
<1> DEFINE place == IF pc[c] = "waiting" THEN "reading" ELSE "recovering"
<1>1. /\ NoteTyped /\ AppendsTyped /\ CountsTyped /\ CallInv(c) /\ pc[c] \in {"waiting", "recoverWait"}
      /\ writer = NoCall /\ writer' = c /\ pc' = [pc EXCEPT ![c] = place]
      /\ UNCHANGED <<note, keyOf, existing, fd, attempted, verdict, result, wrote, tries, proved,
                     reviewed, edits, failures>>
  BY AtCall DEF AcquireLock, LockFree, Goto
<1>2. place \in AppendPlaces /\ place \in Inside /\ place \notin Holding
  BY DEF AppendPlaces, Inside, Holding
<1>3. NoteTyped' /\ AppendsTyped' /\ CountsTyped'
  BY <1>1, <1>2 DEF NoteTyped, AppendsTyped, CountsTyped
<1>4. pc'[c] = place /\ \A d \in Calls \ {c} : pc'[d] = pc[d]
  BY <1>1 DEF AppendsTyped
<1>5. CallInv(c)'
  BY <1>1, <1>2, <1>4
  DEF CallInv, Holds, InStep, Deserved, ReadAsReviewed, Unrepeated, Sees, Promotes
<1> QED
  BY <1>1, <1>3, <1>4, <1>5, OneCall

(* Reaching a verdict with the note as it is. *)
LEMMA ConcludeKeeps ==
    ASSUME AppendInv, NEW c \in Calls, NEW what \in AppendOutcomes, Conclude(c, what),
           pc[c] \in Inside, what = "recover" => Promotes(c),
           NEW read \in NotesOrNone, existing' = [existing EXCEPT ![c] = read],
           Promotes(c) /\ what \in Refusals => ~wrote[c],
           Promotes(c) /\ what \in AppliedWords => proved[c],
           UNCHANGED <<note, keyOf, writer, fd, attempted, result, wrote, tries, proved, reviewed,
                       edits, failures>>
    PROVE  AppendInv'
<1>1. /\ NoteTyped /\ AppendsTyped /\ CountsTyped /\ CallInv(c)
      /\ pc' = [pc EXCEPT ![c] = "leaving"] /\ verdict' = [verdict EXCEPT ![c] = what]
  BY AtCall DEF Conclude, Goto
<1>2. "leaving" \in AppendPlaces
  BY DEF AppendPlaces, Inside
<1>3. NoteTyped' /\ AppendsTyped' /\ CountsTyped'
  BY <1>1, <1>2 DEF NoteTyped, AppendsTyped, CountsTyped
<1>4. /\ pc'[c] = "leaving" /\ verdict'[c] = what
      /\ \A d \in Calls \ {c} : pc'[d] = pc[d] /\ verdict'[d] = verdict[d] /\ existing'[d] = existing[d]
  BY <1>1 DEF AppendsTyped
<1>5. pc[c] # "idle" /\ writer = c
  BY <1>1 DEF CallInv, Holds, Inside
<1>6. CallInv(c)'
  <2>1. Holds(c)' /\ ReadAsReviewed(c)' /\ Unrepeated(c)' /\ Sees(c)'
    BY <1>1, <1>4, <1>5 DEF CallInv, Holds, ReadAsReviewed, Unrepeated, Sees, Inside, Holding, Promotes
  <2>2. InStep(c)'
    BY <1>1, <1>4, <1>5 DEF CallInv, InStep, Promotes
  <2>3. Deserved(c)'
    <3>1. result'[c] = "none" /\ "none" \notin Refusals \cup AppliedWords
      BY <1>1, <1>5 DEF CallInv, InStep, Refusals, AppliedWords
    <3> QED
      BY <1>4, <3>1 DEF Deserved, Promotes
  <2> QED
    BY <2>1, <2>2, <2>3 DEF CallInv
<1> QED
  BY <1>3, <1>4, <1>6, OneCall

LEMMA ReadKeeps == ASSUME AppendInv, NEW c \in Calls, Read(c) PROVE AppendInv'
<1> DEFINE v == IF note = NoFile THEN "destination_missing"
                ELSE IF Promotes(c) THEN PromotionVerdict(c) ELSE AppendVerdict(c)
<1>1. /\ NoteTyped /\ AppendsTyped /\ CountsTyped /\ CallInv(c) /\ pc[c] = "reading" /\ keyOf[c] \in Keys
      /\ existing' = [existing EXCEPT ![c] = note]
      /\ IF v = "append" THEN Goto(c, "opening") /\ UNCHANGED verdict ELSE Conclude(c, v)
      /\ UNCHANGED <<note, keyOf, writer, fd, attempted, result, wrote, tries, proved, reviewed,
                     edits, failures>>
  BY AtCall DEF Read
<1>2. note \in NotesOrNone /\ pc[c] \in Inside /\ writer = c /\ (Promotes(c) => ~wrote[c])
  BY <1>1 DEF NoteTyped, CallInv, Holds, InStep, Inside
<1>3. CASE v # "append"
  <2>1. /\ v \in AppendOutcomes /\ v # "recover"
        /\ Promotes(c) /\ v \in AppliedWords => Once(note, keyOf[c])
    BY <1>3 DEF PromotionVerdict, AppendVerdict, AppendOutcomes, Refusals, AppliedWords
  <2> HIDE DEF v
  <2>2. Promotes(c) /\ v \in AppliedWords => proved[c]
    BY <1>1, <2>1 DEF CallInv, Sees
  <2> QED
    BY <1>1, <1>2, <1>3, <2>1, <2>2, ConcludeKeeps
<1>4. CASE v = "append"
  <2>1. pc' = [pc EXCEPT ![c] = "opening"] /\ verdict' = verdict /\ "opening" \in AppendPlaces
    BY <1>1, <1>4 DEF Goto, AppendPlaces, Inside
  <2>2. /\ note # NoFile
        /\ Promotes(c) => /\ ~(note.text.whole[keyOf[c]] + note.text.torn[keyOf[c]] > 0)
                          /\ note.text = reviewed[keyOf[c]]
        /\ ~Promotes(c) => ~(note.text.whole[keyOf[c]] > 0)
    BY <1>4 DEF PromotionVerdict, AppendVerdict
  <2> HIDE DEF v
  <2>3. /\ note \in Note /\ note.text.whole[keyOf[c]] \in Nat /\ note.text.torn[keyOf[c]] \in Nat
    BY <1>1, <1>2, <2>2, NotesHaveCounts DEF NotesOrNone
  <2>4. /\ note.text.whole[keyOf[c]] = 0 /\ (Promotes(c) => note.text.torn[keyOf[c]] = 0)
    BY <2>2, <2>3
  <2>5. NoteTyped' /\ AppendsTyped' /\ CountsTyped'
    BY <1>1, <1>2, <2>1 DEF NoteTyped, AppendsTyped, CountsTyped
  <2>6. /\ pc'[c] = "opening" /\ existing'[c] = note
        /\ \A d \in Calls \ {c} : pc'[d] = pc[d] /\ existing'[d] = existing[d]
    BY <1>1, <2>1 DEF AppendsTyped
  <2>7. CallInv(c)'
    <3>1. Holds(c)' /\ Sees(c)' /\ Deserved(c)'
      BY <1>1, <1>2, <2>1, <2>6 DEF CallInv, Holds, Sees, Deserved, Inside, Promotes
    <3>2. ReadAsReviewed(c)' /\ Unrepeated(c)'
      BY <1>1, <2>2, <2>3, <2>4, <2>6 DEF ReadAsReviewed, Unrepeated, Promotes
    <3>3. InStep(c)'
      BY <1>1, <1>2, <2>1, <2>6 DEF CallInv, InStep, Promotes
    <3> QED
      BY <3>1, <3>2, <3>3 DEF CallInv
  <2> QED
    BY <1>1, <2>5, <2>6, <2>7, <2>1, OneCall
<1> QED
  BY <1>3, <1>4

(* Verdicts on what was read before. *)
LEMMA VerdictKeeps ==
    ASSUME AppendInv, NEW c \in Calls, SourceChanged(c) \/ Confirm(c) \/ Raises(c) \/ Recover(c)
    PROVE  AppendInv'
<1>1. /\ NoteTyped /\ AppendsTyped /\ CountsTyped /\ CallInv(c) /\ keyOf[c] \in Keys
      /\ UNCHANGED <<note, keyOf, writer, existing, fd, attempted, result, wrote, tries, proved, reviewed,
                     edits, failures>>
  BY AtCall DEF SourceChanged, Confirm, Raises, Recover
<1>2. existing[c] \in NotesOrNone /\ existing' = [existing EXCEPT ![c] = existing[c]]
  BY <1>1 DEF AppendsTyped
<1>3. ASSUME NEW what \in AppendOutcomes, Conclude(c, what), pc[c] \in Inside,
             what = "recover" => Promotes(c),
             Promotes(c) /\ what \in Refusals => ~wrote[c],
             Promotes(c) /\ what \in AppliedWords => proved[c]
      PROVE  AppendInv'
  BY <1>1, <1>2, <1>3, ConcludeKeeps
<1>4. CASE SourceChanged(c)
  BY <1>1, <1>3, <1>4 DEF SourceChanged, CallInv, InStep, Inside, AppendOutcomes, Refusals, AppliedWords
<1>5. CASE Confirm(c)
  <2> DEFINE same == /\ note # NoFile /\ note.ino = existing[c].ino
                     /\ note.text = WithBlock(existing[c].text, keyOf[c])
             what == IF same THEN "appended" ELSE "recover"
  <2>1. pc[c] = "confirming" /\ Conclude(c, what)
    BY <1>5 DEF Confirm
  <2>2. Promotes(c)
    BY <1>1, <2>1 DEF CallInv, InStep
  <2>3. same => proved[c]
    <3> SUFFICES ASSUME same PROVE proved[c]
      OBVIOUS
    <3>1. /\ existing[c] \in Note
          /\ existing[c].text.whole[keyOf[c]] = 0 /\ existing[c].text.torn[keyOf[c]] = 0
      BY <1>1, <2>1, <2>2 DEF CallInv, ReadAsReviewed
    <3>2. existing[c].text \in Text
      BY <1>1, <3>1, NotesHaveCounts
    <3>3. /\ WithBlock(existing[c].text, keyOf[c]).torn[keyOf[c]] = 0
          /\ WithBlock(existing[c].text, keyOf[c]).whole[keyOf[c]] = 1
      BY <1>1, <3>1, <3>2, BlockAdded
    <3>4. Once(note, keyOf[c])
      BY <3>3 DEF Once
    <3> QED
      BY <1>1, <3>4 DEF CallInv, Sees
  <2>4. what \in AppendOutcomes /\ what \notin Refusals /\ (what \in AppliedWords => same)
    BY DEF AppendOutcomes, Refusals, AppliedWords
  <2> HIDE DEF same, what
  <2> QED
    BY <1>3, <2>1, <2>2, <2>3, <2>4 DEF Inside
<1>6. CASE Raises(c)
  <2>1. /\ pc[c] \in {"reading", "opening", "writing", "confirming"}
        /\ Conclude(c, IF ~Promotes(c) THEN "failed"
                       ELSE IF attempted[c] THEN "recover" ELSE "write_unavailable")
    BY <1>6 DEF Raises
  <2>2. Promotes(c) /\ ~attempted[c] => ~wrote[c]
    BY <1>1, <2>1 DEF CallInv, InStep
  <2> QED
    BY <1>3, <2>1, <2>2 DEF Inside, AppendOutcomes, Refusals, AppliedWords
<1>7. CASE Recover(c)
  <2>1. pc[c] = "recovering" /\ Conclude(c, IF Recovered(c) THEN "already_applied" ELSE "commit_unknown")
    BY <1>7 DEF Recover
  <2>2. Recovered(c) => proved[c]
    BY <1>1 DEF Recovered, CallInv, Sees
  <2> QED
    BY <1>3, <2>1, <2>2 DEF Inside, AppendOutcomes, Refusals, AppliedWords
<1> QED
  BY <1>4, <1>5, <1>6, <1>7

LEMMA OpenReviewedKeeps == ASSUME AppendInv, NEW c \in Calls, OpenReviewed(c) PROVE AppendInv'
<1>1. /\ NoteTyped /\ AppendsTyped /\ CountsTyped /\ CallInv(c) /\ note \in Note
      /\ pc[c] = "opening" /\ Promotes(c) /\ note # NoFile
      /\ UNCHANGED <<note, keyOf, writer, existing, result, wrote, tries, proved, reviewed, edits, failures>>
  BY AtCall DEF OpenReviewed
<1>2. CASE Conclude(c, "destination_changed") /\ UNCHANGED <<fd, attempted>>
  <2>1. /\ existing[c] \in NotesOrNone /\ existing' = [existing EXCEPT ![c] = existing[c]]
        /\ "destination_changed" \in AppendOutcomes \ AppliedWords /\ pc[c] \in Inside /\ ~wrote[c]
    BY <1>1 DEF AppendsTyped, AppendOutcomes, Refusals, AppliedWords, Inside, CallInv, InStep
  <2> QED
    BY <1>1, <1>2, <2>1, ConcludeKeeps
<1>3. CASE /\ fd' = [fd EXCEPT ![c] = note.ino] /\ attempted' = [attempted EXCEPT ![c] = TRUE]
           /\ Goto(c, "writing") /\ UNCHANGED verdict
  <2>1. pc' = [pc EXCEPT ![c] = "writing"] /\ "writing" \in AppendPlaces /\ note.ino \in 0..MaxEdits
    BY <1>1, <1>3 DEF Goto, AppendPlaces, Inside, Note
  <2>2. NoteTyped' /\ AppendsTyped' /\ CountsTyped'
    BY <1>1, <1>3, <2>1 DEF NoteTyped, AppendsTyped, CountsTyped
  <2>3. /\ pc'[c] = "writing" /\ attempted'[c] = TRUE
        /\ \A d \in Calls \ {c} : pc'[d] = pc[d] /\ attempted'[d] = attempted[d]
    BY <1>1, <1>3, <2>1 DEF AppendsTyped
  <2>4. CallInv(c)'
    BY <1>1, <1>3, <2>3
    DEF CallInv, Holds, InStep, Deserved, ReadAsReviewed, Unrepeated, Sees, Inside, Holding, Promotes
  <2> QED
    BY <1>1, <1>3, <2>2, <2>3, <2>4, OneCall
<1> QED
  BY <1>2, <1>3 DEF OpenReviewed

LEMMA OpenPathKeeps == ASSUME AppendInv, NEW c \in Calls, OpenPath(c) PROVE AppendInv'
<1> DEFINE n == IF note = NoFile THEN [ino |-> edits, text |-> Blank] ELSE note
<1>1. /\ NoteTyped /\ AppendsTyped /\ CountsTyped /\ CallInv(c) /\ keyOf[c] \in Keys
      /\ pc[c] = "opening" /\ ~Promotes(c) /\ note' = n /\ fd' = [fd EXCEPT ![c] = n.ino]
      /\ pc' = [pc EXCEPT ![c] = "writing"]
      /\ UNCHANGED <<keyOf, writer, existing, attempted, verdict, result, wrote, tries, proved, reviewed,
                     edits, failures>>
  BY AtCall DEF OpenPath, Goto
<1>2. n \in Note /\ "writing" \in AppendPlaces
  <2>1. edits \in 0..MaxEdits /\ Blank \in Text
    BY <1>1, BlankIsText DEF CountsTyped
  <2>2. [ino |-> edits, text |-> Blank] \in Note
    BY <2>1 DEF Note
  <2> QED
    BY <1>1, <2>2 DEF NoteTyped, NotesOrNone, AppendPlaces, Inside
<1>3. \A k \in Keys : note = NoFile => n.text.whole[k] = 0 /\ n.text.torn[k] = 0
  BY DEF Blank
<1>4. note # NoFile => note' = note
  BY <1>1
<1>5. n.ino \in 0..MaxEdits
  BY <1>2, NotesHaveCounts, <1>1
<1> HIDE DEF n
<1>6. NoteTyped' /\ AppendsTyped' /\ CountsTyped'
  BY <1>1, <1>2, <1>5 DEF NoteTyped, NotesOrNone, AppendsTyped, CountsTyped
<1>7. pc'[c] = "writing" /\ \A d \in Calls \ {c} : pc'[d] = pc[d]
  BY <1>1 DEF AppendsTyped
<1>8. writer = c
  BY <1>1 DEF CallInv, Holds, Inside
<1>9. ASSUME NEW d \in Calls PROVE Sees(d)'
  <2>1. Sees(d) /\ keyOf[d] \in Keys
    BY <1>1 DEF AppendInv, CallInv, AppendsTyped
  <2> QED
    BY <1>1, <1>3, <1>4, <2>1 DEF Sees, Once
<1>10. PromotedAtMostOnce' /\ MarkedAtMostOnce'
  BY <1>1, <1>3, <1>4 DEF AppendInv, PromotedAtMostOnce, MarkedAtMostOnce, Keys
<1>11. CallInv(c)'
  <2>1. Unrepeated(c)'
    BY <1>1, <1>3, <1>4 DEF CallInv, Unrepeated, Holding, Promotes
  <2>2. Holds(c)' /\ InStep(c)' /\ Deserved(c)' /\ ReadAsReviewed(c)'
    BY <1>1, <1>7 DEF CallInv, Holds, InStep, Deserved, ReadAsReviewed, Inside, Promotes
  <2> QED
    BY <1>9, <2>1, <2>2 DEF CallInv
<1> QED
  BY <1>1, <1>6, <1>7, <1>8, <1>9, <1>10, <1>11, OneCall

(* What a write may make of the note: its block is there at most once. *)
LEMMA AppendsOnce ==
    ASSUME AppendInv, NEW c \in Calls, pc[c] = "writing",
           NEW text, text \in {WithBlock(note.text, keyOf[c]), WithTornBlock(note.text, keyOf[c])},
           AppendsBlock(c, text), keyOf' = keyOf, edits' = edits
    PROVE  /\ note' \in NotesOrNone /\ proved' \in [Calls -> BOOLEAN]
           /\ \A d \in Calls : Sees(d)' /\ (proved[d] => proved'[d])
           /\ PromotedAtMostOnce' /\ MarkedAtMostOnce'
<1>1. NoteTyped /\ AppendsTyped /\ CallInv(c) /\ keyOf[c] \in Keys /\ (note # NoFile => note \in Note)
  BY AtCall
<1>2. CASE UNCHANGED <<note, proved>>
  <2>1. \A d \in Calls : Sees(d)
    BY DEF AppendInv, CallInv
  <2> QED
    BY <1>1, <1>2, <2>1
    DEF AppendInv, NoteTyped, AppendsTyped, Sees, Once, PromotedAtMostOnce, MarkedAtMostOnce
<1>3. CASE note # NoFile /\ SetNote([note EXCEPT !.text = text])
  <2> DEFINE k == keyOf[c]
  <2>1. note' = [note EXCEPT !.text = text] /\ note \in Note
    BY <1>1, <1>3 DEF SetNote
  <2>2. /\ note.text.whole[k] = 0 /\ (k \in Promotions => note.text.torn[k] = 0)
        /\ note.text \in Text
    BY <1>1, <1>3, NotesHaveCounts DEF CallInv, Unrepeated, Holding, Promotes
  <2>3. /\ text \in Text
        /\ text.whole[k] <= 1 /\ (k \in Promotions => text.whole[k] + text.torn[k] <= 1)
        /\ \A j \in Keys \ {k} : text.whole[j] = note.text.whole[j] /\ text.torn[j] = note.text.torn[j]
    <3>1. CASE text = WithBlock(note.text, k)
      BY <1>1, <2>2, <3>1, BlockAdded
    <3>2. CASE text = WithTornBlock(note.text, k)
      BY <1>1, <2>2, <3>2, TornBlockAdded
    <3> QED
      BY <3>1, <3>2
  <2>4. note' \in Note /\ note'.text = text
    BY <2>1, <2>3 DEF Note
  <2>5. PromotedAtMostOnce' /\ MarkedAtMostOnce'
    BY <1>3, <2>3, <2>4 DEF AppendInv, PromotedAtMostOnce, MarkedAtMostOnce, Keys
  <2>6. proved' = [d \in Calls |-> proved[d] \/ Once(note', keyOf[d])]
    BY <1>3, <2>1 DEF SetNote
  <2>7. proved' \in [Calls -> BOOLEAN]
    BY <1>1, <2>6 DEF AppendsTyped, Once
  <2>8. ASSUME NEW d \in Calls PROVE Sees(d)' /\ (proved[d] => proved'[d])
    BY <2>6 DEF Sees, Once
  <2> QED
    BY <2>4, <2>5, <2>7, <2>8 DEF NotesOrNone
<1> QED
  BY <1>2, <1>3 DEF AppendsBlock

LEMMA WriteKeeps == ASSUME AppendInv, NEW c \in Calls, Write(c) PROVE AppendInv'
<1> DEFINE place == IF Promotes(c) THEN "confirming" ELSE "leaving"
           v == IF Promotes(c) THEN verdict[c] ELSE "appended"
<1>1. /\ NoteTyped /\ AppendsTyped /\ CountsTyped /\ CallInv(c) /\ pc[c] = "writing"
      /\ AppendsBlock(c, WithBlock(note.text, keyOf[c])) /\ wrote' = [wrote EXCEPT ![c] = TRUE]
      /\ UNCHANGED <<keyOf, writer, existing, fd, attempted, result, tries, reviewed, edits, failures>>
  BY AtCall DEF Write
<1>2. pc' = [pc EXCEPT ![c] = place] /\ verdict' = [verdict EXCEPT ![c] = v]
  BY <1>1 DEF Write, Goto, Conclude, AppendsTyped
<1>3. /\ note' \in NotesOrNone /\ proved' \in [Calls -> BOOLEAN]
      /\ \A d \in Calls : Sees(d)' /\ (proved[d] => proved'[d])
      /\ PromotedAtMostOnce' /\ MarkedAtMostOnce'
  BY <1>1, AppendsOnce
<1>4. place \in AppendPlaces /\ v \in AppendOutcomes
  BY <1>1 DEF AppendPlaces, Inside, AppendOutcomes, AppendsTyped
<1>5. verdict[c] = "none" /\ result[c] = "none" /\ writer = c /\ (Promotes(c) => attempted[c])
  BY <1>1 DEF CallInv, InStep, Holds, Inside
<1>6. NoteTyped' /\ AppendsTyped' /\ CountsTyped'
  BY <1>1, <1>2, <1>3, <1>4 DEF NoteTyped, AppendsTyped, CountsTyped
<1>7. /\ pc'[c] = place /\ verdict'[c] = v /\ wrote'[c] = TRUE
      /\ \A d \in Calls \ {c} : pc'[d] = pc[d] /\ verdict'[d] = verdict[d] /\ wrote'[d] = wrote[d]
  BY <1>1, <1>2 DEF AppendsTyped
<1>8. CallInv(c)'
  <2>1. Holds(c)' /\ ReadAsReviewed(c)' /\ Unrepeated(c)'
    BY <1>1, <1>5, <1>7 DEF CallInv, Holds, ReadAsReviewed, Unrepeated, Inside, Holding, Promotes
  <2>2. InStep(c)'
    BY <1>1, <1>5, <1>7 DEF CallInv, InStep, Promotes
  <2>3. Deserved(c)'
    BY <1>1, <1>5, <1>7 DEF Deserved, Promotes, Refusals, AppliedWords
  <2> QED
    BY <1>3, <2>1, <2>2, <2>3 DEF CallInv
<1> QED
  BY <1>1, <1>3, <1>5, <1>6, <1>7, <1>8, OneCall

(* A call that is over has forgotten everything but its answer. *)
LEMMA Forgotten ==
    ASSUME AppendsTyped, NEW c \in Calls, Forget(c)
    PROVE  /\ pc' \in [Calls -> AppendPlaces] /\ existing' \in [Calls -> NotesOrNone]
           /\ fd' \in [Calls -> 0..MaxEdits] /\ attempted' \in [Calls -> BOOLEAN]
           /\ verdict' \in [Calls -> AppendOutcomes]
           /\ pc'[c] = "idle" /\ verdict'[c] = "none"
           /\ \A d \in Calls \ {c} : /\ pc'[d] = pc[d] /\ existing'[d] = existing[d]
                                     /\ attempted'[d] = attempted[d] /\ verdict'[d] = verdict[d]
<1>1. "idle" \in AppendPlaces /\ "none" \in AppendOutcomes /\ NoFile \in NotesOrNone /\ 0 \in 0..MaxEdits
  BY AppendAssumption DEF AppendPlaces, AppendOutcomes, NotesOrNone
<1> QED
  BY <1>1 DEF AppendsTyped, Forget, Goto

(* A call ends, with an answer it deserves. *)
LEMMA EndKeeps ==
    ASSUME AppendInv, NEW c \in Calls, NEW answer \in AppendOutcomes, Forget(c),
           result' = [result EXCEPT ![c] = answer],
           writer' = IF writer = c THEN NoCall ELSE writer,
           NoteTyped', wrote' \in [Calls -> BOOLEAN], proved' \in [Calls -> BOOLEAN],
           failures' \in 0..MaxFailures, UNCHANGED <<keyOf, tries, reviewed, edits>>,
           \A d \in Calls \ {c} : wrote'[d] = wrote[d] /\ (proved[d] => proved'[d]),
           Promotes(c) /\ answer \in Refusals => ~wrote'[c],
           Promotes(c) /\ answer \in AppliedWords => proved'[c],
           Sees(c)',
           \/ note' = note
           \/ /\ writer = c
              /\ \A d \in Calls \ {c} : Sees(d)'
              /\ PromotedAtMostOnce' /\ MarkedAtMostOnce'
    PROVE  AppendInv'
<1>1. NoteTyped /\ AppendsTyped /\ CountsTyped /\ CallInv(c)
  BY AtCall
<1>2. AppendsTyped' /\ CountsTyped'
  BY <1>1, Forgotten DEF AppendsTyped, CountsTyped
<1>3. result'[c] = answer /\ \A d \in Calls \ {c} : result'[d] = result[d]
  BY <1>1 DEF AppendsTyped
<1>4. pc'[c] = "idle" /\ verdict'[c] = "none"
  BY <1>1, Forgotten
<1>5. writer' # c
  BY AppendAssumption
<1>6. CallInv(c)'
  BY <1>3, <1>4, <1>5
  DEF CallInv, Holds, InStep, Deserved, ReadAsReviewed, Unrepeated, Inside, Holding, Promotes, Refusals, AppliedWords
<1>7. \A d \in Calls \ {c} : /\ pc'[d] = pc[d] /\ existing'[d] = existing[d]
                             /\ attempted'[d] = attempted[d] /\ verdict'[d] = verdict[d]
  BY <1>1, Forgotten
<1> QED
  BY <1>2, <1>3, <1>6, <1>7, OneCall

LEMMA WriteTornKeeps == ASSUME AppendInv, NEW c \in Calls, WriteTorn(c) PROVE AppendInv'
<1>1. /\ NoteTyped /\ AppendsTyped /\ CountsTyped /\ CallInv(c) /\ pc[c] = "writing"
      /\ AppendsBlock(c, WithTornBlock(note.text, keyOf[c])) /\ wrote' = [wrote EXCEPT ![c] = TRUE]
      /\ failures < MaxFailures /\ failures' = failures + 1
      /\ UNCHANGED <<keyOf, tries, reviewed, edits>>
  BY AtCall DEF WriteTorn
<1>2. /\ note' \in NotesOrNone /\ proved' \in [Calls -> BOOLEAN]
      /\ \A d \in Calls : Sees(d)' /\ (proved[d] => proved'[d])
      /\ PromotedAtMostOnce' /\ MarkedAtMostOnce'
  BY <1>1, AppendsOnce
<1>3. failures' \in 0..MaxFailures /\ NoteTyped'
  BY <1>1, <1>2, AppendAssumption DEF CountsTyped, NoteTyped
<1>4. /\ wrote' \in [Calls -> BOOLEAN] /\ wrote'[c] = TRUE
      /\ \A d \in Calls \ {c} : wrote'[d] = wrote[d]
  BY <1>1 DEF AppendsTyped
<1>5. verdict[c] = "none" /\ result[c] = "none" /\ writer = c /\ (Promotes(c) => attempted[c])
  BY <1>1 DEF CallInv, InStep, Holds, Inside
<1>6. CASE Forget(c) /\ writer' = NoCall /\ result' = [result EXCEPT ![c] = "lost"]
  <2>1. "lost" \in AppendOutcomes /\ "lost" \notin Refusals \cup AppliedWords
    BY DEF AppendOutcomes, Refusals, AppliedWords
  <2> QED
    BY <1>1, <1>2, <1>3, <1>4, <1>5, <1>6, <2>1, EndKeeps
<1>7. CASE /\ Conclude(c, IF Promotes(c) THEN "recover" ELSE "failed")
           /\ UNCHANGED <<result, writer, existing, fd, attempted>>
  <2> DEFINE v == IF Promotes(c) THEN "recover" ELSE "failed"
  <2>1. pc' = [pc EXCEPT ![c] = "leaving"] /\ verdict' = [verdict EXCEPT ![c] = v]
    BY <1>7 DEF Conclude, Goto
  <2>2. "leaving" \in AppendPlaces /\ v \in AppendOutcomes /\ v \notin Refusals \cup AppliedWords
    BY DEF AppendPlaces, Inside, AppendOutcomes, Refusals, AppliedWords
  <2>3. v = "recover" => Promotes(c)
    OBVIOUS
  <2> HIDE DEF v
  <2>4. AppendsTyped' /\ CountsTyped'
    BY <1>1, <1>2, <1>3, <1>4, <1>7, <2>1, <2>2 DEF AppendsTyped, CountsTyped
  <2>5. /\ pc'[c] = "leaving" /\ verdict'[c] = v
        /\ \A d \in Calls \ {c} : pc'[d] = pc[d] /\ verdict'[d] = verdict[d]
    BY <1>1, <2>1 DEF AppendsTyped
  <2>6. CallInv(c)'
    <3>1. Holds(c)' /\ ReadAsReviewed(c)' /\ Unrepeated(c)'
      BY <1>1, <1>5, <1>7, <2>5 DEF CallInv, Holds, ReadAsReviewed, Unrepeated, Inside, Holding, Promotes
    <3>2. InStep(c)'
      BY <1>1, <1>5, <1>7, <2>3, <2>5 DEF CallInv, InStep, Promotes
    <3>3. Deserved(c)'
      BY <1>1, <1>5, <1>7, <2>2, <2>5 DEF Deserved, Promotes, Refusals, AppliedWords
    <3> QED
      BY <1>2, <3>1, <3>2, <3>3 DEF CallInv
  <2> QED
    BY <1>1, <1>2, <1>3, <1>4, <1>5, <1>7, <2>4, <2>5, <2>6, OneCall
<1> QED
  BY <1>6, <1>7 DEF WriteTorn

LEMMA LeaveKeeps == ASSUME AppendInv, NEW c \in Calls, Leave(c) \/ ProcessDies(c) PROVE AppendInv'
<1>1. /\ NoteTyped /\ AppendsTyped /\ CountsTyped /\ CallInv(c)
      /\ writer' = (IF writer = c THEN NoCall ELSE writer)
      /\ UNCHANGED <<note, keyOf, wrote, tries, proved, reviewed, edits>>
  BY AtCall DEF Leave, ProcessDies
<1>2. failures' \in 0..MaxFailures
  BY <1>1, AppendAssumption DEF CountsTyped, Leave, ProcessDies
<1>3. NoteTyped' /\ Sees(c)' /\ wrote' \in [Calls -> BOOLEAN] /\ proved' \in [Calls -> BOOLEAN]
  BY <1>1 DEF NoteTyped, AppendsTyped, CallInv, Sees, Once
<1>4. CASE Leave(c) /\ verdict[c] # "recover"
  <2>1. Forget(c) /\ result' = [result EXCEPT ![c] = verdict[c]] /\ verdict[c] \in AppendOutcomes
    BY <1>1, <1>4 DEF Leave, AppendsTyped
  <2>2. /\ Promotes(c) /\ verdict[c] \in Refusals => ~wrote[c]
        /\ Promotes(c) /\ verdict[c] \in AppliedWords => proved[c]
    BY <1>1 DEF CallInv, Deserved
  <2> QED
    BY <1>1, <1>2, <1>3, <2>1, <2>2, EndKeeps
<1>5. CASE Leave(c) /\ verdict[c] = "recover"
  <2>1. /\ pc[c] = "leaving" /\ pc' = [pc EXCEPT ![c] = "recoverWait"] /\ "recoverWait" \in AppendPlaces
        /\ UNCHANGED <<existing, fd, attempted, verdict, result, failures>>
    BY <1>5 DEF Leave, Goto, AppendPlaces
  <2>2. AppendsTyped' /\ CountsTyped'
    BY <1>1, <2>1 DEF AppendsTyped, CountsTyped
  <2>3. pc'[c] = "recoverWait" /\ \A d \in Calls \ {c} : pc'[d] = pc[d]
    BY <1>1, <2>1 DEF AppendsTyped
  <2>4. writer = c /\ writer' = NoCall /\ writer' # c /\ Promotes(c)
    BY <1>1, <1>5, <2>1, AppendAssumption DEF CallInv, Holds, InStep, Inside
  <2>5. CallInv(c)'
    BY <1>1, <1>3, <1>5, <2>1, <2>3, <2>4
    DEF CallInv, Holds, InStep, Deserved, ReadAsReviewed, Unrepeated, Inside, Holding, Promotes
  <2> QED
    BY <1>1, <1>3, <2>1, <2>2, <2>3, <2>4, <2>5, OneCall
<1>6. CASE ProcessDies(c)
  <2>1. Forget(c) /\ result' = [result EXCEPT ![c] = "lost"]
    BY <1>6 DEF ProcessDies
  <2>2. "lost" \in AppendOutcomes /\ "lost" \notin Refusals \cup AppliedWords
    BY DEF AppendOutcomes, Refusals, AppliedWords
  <2> QED
    BY <1>1, <1>2, <1>3, <2>1, <2>2, EndKeeps
<1> QED
  BY <1>4, <1>5, <1>6

(* A user may undo blocks, and adds none. *)
LEMMA UserKeeps == ASSUME AppendInv, UserChanges PROVE AppendInv'
<1>1. /\ NoteTyped /\ AppendsTyped /\ CountsTyped /\ note \in Note /\ note # NoFile
      /\ edits < MaxEdits /\ edits' = edits + 1 /\ UNCHANGED <<callVars, reviewed, failures>>
  BY DEF AppendInv, UserChanges, NoteTyped, NotesOrNone
<1>2. edits' \in 0..MaxEdits /\ CountsTyped'
  BY <1>1, AppendAssumption DEF CountsTyped, callVars
<1>3. /\ note' \in NotesOrNone
      /\ note' # NoFile => \A k \in Keys : /\ note'.text.whole[k] \in {0, note.text.whole[k]}
                                           /\ note'.text.torn[k] \in {0, note.text.torn[k]}
                                           /\ note'.text.torn[k] = note.text.torn[k] \/ note'.text.whole[k] = 0
      /\ \/ note' = NoFile /\ proved' = proved
         \/ proved' = [c \in Calls |-> proved[c] \/ Once(note', keyOf[c])]
  <2>1. CASE note' = NoFile /\ UNCHANGED proved
    BY <2>1 DEF NotesOrNone
  <2>2. CASE \E ino \in {note.ino, edits + 1},
                text \in {[note.text EXCEPT !.base = edits + 1], [Blank EXCEPT !.base = edits + 1], Blank} :
               SetNote([ino |-> ino, text |-> text])
    <3>1. PICK ino \in {note.ino, edits + 1},
               text \in {[note.text EXCEPT !.base = edits + 1], [Blank EXCEPT !.base = edits + 1], Blank} :
               SetNote([ino |-> ino, text |-> text])
      BY <2>2
    <3>2. /\ note.text \in Text /\ Blank \in Text /\ note.ino \in 0..MaxEdits /\ edits + 1 \in 0..MaxEdits
      BY <1>1, <1>2, BlankIsText DEF Note
    <3>3. /\ text \in Text
          /\ \/ text.whole = note.text.whole /\ text.torn = note.text.torn
             \/ text.whole = Blank.whole /\ text.torn = Blank.torn
      BY <3>2 DEF Text
    <3>4. \A k \in Keys : Blank.whole[k] = 0 /\ Blank.torn[k] = 0
      BY DEF Blank
    <3>5. [ino |-> ino, text |-> text] \in Note
      BY <3>2, <3>3 DEF Note
    <3>6. note' = [ino |-> ino, text |-> text] /\ note'.text = text
      BY <3>1 DEF SetNote
    <3>7. proved' = [c \in Calls |-> proved[c] \/ Once(note', keyOf[c])]
      BY <3>1, <3>6 DEF SetNote
    <3> QED
      BY <3>3, <3>4, <3>5, <3>6, <3>7 DEF NotesOrNone
  <2> QED
    BY <2>1, <2>2 DEF UserChanges
<1>4. NoteTyped' /\ AppendsTyped'
  BY <1>1, <1>3 DEF NoteTyped, AppendsTyped, callVars, Once
<1>5. \A k \in Keys : note.text.whole[k] \in Nat /\ note.text.torn[k] \in Nat
  BY <1>1, NotesHaveCounts
<1>6. PromotedAtMostOnce' /\ MarkedAtMostOnce'
  BY <1>1, <1>3, <1>5 DEF AppendInv, PromotedAtMostOnce, MarkedAtMostOnce, Keys
<1>7. ASSUME NEW c \in Calls PROVE CallInv(c)'
  <2>1. CallInv(c) /\ keyOf[c] \in Keys /\ (proved[c] => proved'[c])
    BY <1>1, <1>3 DEF AppendInv, AppendsTyped
  <2>2. Holds(c)' /\ InStep(c)' /\ Deserved(c)' /\ ReadAsReviewed(c)'
    BY <1>1, <2>1 DEF callVars, CallInv, Holds, InStep, Deserved, ReadAsReviewed, Promotes
  <2>3. Unrepeated(c)'
    BY <1>1, <1>3, <2>1 DEF callVars, CallInv, Unrepeated, Promotes
  <2>4. Sees(c)'
    BY <1>1, <1>3 DEF callVars, Sees, Once
  <2> QED
    BY <2>2, <2>3, <2>4 DEF CallInv
<1> QED
  BY <1>2, <1>4, <1>6, <1>7 DEF AppendInv

LEMMA AppendStepKeeps == AppendInv /\ [AppendNext]_appendVars => AppendInv'
<1> SUFFICES ASSUME AppendInv, [AppendNext]_appendVars PROVE AppendInv'
  OBVIOUS
<1>1. ASSUME NEW c \in Calls, Begin(c) \/ Step(c) \/ ProcessDies(c) PROVE AppendInv'
  BY <1>1, BeginKeeps, AcquireLockKeeps, ReadKeeps, VerdictKeeps, OpenReviewedKeeps, OpenPathKeeps, WriteKeeps,
     WriteTornKeeps, LeaveKeeps DEF Step
<1>2. CASE UNCHANGED appendVars
  BY <1>2 DEF appendVars, callVars, AppendInv, NoteTyped, AppendsTyped, CountsTyped, PromotedAtMostOnce,
     MarkedAtMostOnce, CallInv, Holds, InStep, Deserved, ReadAsReviewed, Unrepeated, Sees, Once, Promotes
<1> QED
  BY <1>1, <1>2, UserKeeps DEF AppendNext

(* Whoever is about to write holds the lock and found nothing to repeat,   *)
(* and a verdict is one the call deserves.                                 *)
THEOREM AppendInvariance == AppendSpec => []AppendInv
BY AppendStart, AppendStepKeeps, PTL DEF AppendSpec

(* A promotion or a dedupe key is in the note at most once, a refusal has  *)
(* written nothing, and what was reported as applied stood there whole.    *)
THEOREM AppendsAreHonest == AppendSpec => []AppendsHonest
<1>1. AppendInv => AppendsHonest
  <2> SUFFICES ASSUME AppendInv PROVE AppendsHonest
    OBVIOUS
  <2>1. AppendTyped
    BY DEF AppendInv, NoteTyped, AppendsTyped, CountsTyped, NotesOrNone, AppendPlaces, CallInv, Holds,
       AppendTyped
  <2>2. RefusedMeansUnwritten /\ AppliedMeansWhole
    BY DEF AppendInv, CallInv, Deserved, AppliedWords, RefusedMeansUnwritten, AppliedMeansWhole
  <2> QED
    BY <2>1, <2>2 DEF AppendInv, AppendsHonest
<1> QED
  BY <1>1, AppendInvariance, PTL

(* "appended" is said only of the reviewed text with the block, whatever   *)
(* was saved between the check and the write.                              *)
THEOREM OnlyReviewedTextIsAppendedTo == AppendSpec => AppendedToReviewedText
<1>1. AppendInv /\ [AppendNext]_appendVars => [AppendsReviewed]_appendVars
  <2> SUFFICES ASSUME AppendInv, AppendNext, NEW c \in Calls, Promotes(c), pc[c] = "confirming",
                      pc'[c] = "leaving", verdict'[c] = "appended"
               PROVE  note.text = WithBlock(reviewed[keyOf[c]], keyOf[c])
    BY DEF AppendsReviewed
  <2>1. AppendsTyped /\ CallInv(c) /\ verdict[c] = "none"
    BY AtCall DEF CallInv, InStep
  <2>2. Confirm(c)
    <3>1. ~UserChanges
      BY DEF UserChanges, callVars
    <3>2. PICK d \in Calls : Begin(d) \/ Step(d) \/ ProcessDies(d)
      BY <3>1 DEF AppendNext
    <3>3. d = c
      BY <2>1, <3>2 DEF AppendsTyped, Begin, ProcessDies, Step, AcquireLock, Read, SourceChanged, OpenReviewed,
         OpenPath, Write, WriteTorn, Confirm, Raises, Leave, Recover, Conclude, Forget, Goto
    <3>4. ~Raises(c)
      BY <2>1 DEF AppendsTyped, Raises, Conclude, Goto
    <3>5. ~ProcessDies(c) /\ ~Begin(c)
      BY <2>1 DEF AppendsTyped, ProcessDies, Begin, Forget, Goto
    <3> QED
      BY <3>2, <3>3, <3>4, <3>5
      DEF Step, AcquireLock, Read, SourceChanged, OpenReviewed, OpenPath, Write, WriteTorn, Leave, Recover
  <2>3. note.text = WithBlock(existing[c].text, keyOf[c])
    BY <2>1, <2>2 DEF AppendsTyped, Confirm, Conclude
  <2> QED
    BY <2>1, <2>3 DEF CallInv, ReadAsReviewed
<1> QED
  BY <1>1, AppendInvariance, PTL DEF AppendSpec, AppendedToReviewedText

-----------------------------------------------------------------------------
(* NoteAccess: verified reads and targeted absence.                        *)

SlotContents == Directories \cup LinkKinds \cup {"none"}
LookedAt == (SlotContents \cup {"root"}) \X Nat
PathFacts == LookedAt \X LookedAt \X Files \X Nat
InFile == {"reading", "ending", "confirming"}
InPin == {"opening"} \cup InFile
InPromotion == {"listing", "relisting", "promoting", "streaming", "streamed"}
BeforeWalk == {"target", "containing", "root"}
InWalk == {"ancestor", "following", "leaf"}
AccessPlaces ==
    {"idle", "resolving", "verifying", "recalling", "pinning", "entering", "rechecking", "last", "answered"}
    \cup InPin \cup InPromotion \cup BeforeWalk \cup InWalk

TreeOf(s, l, v, st) ==
    /\ s \in [Slots -> SlotContents] /\ l \in [Directories -> Files \cup {0, Dangling}]
    /\ v \in [Files -> Nat] /\ st \in [{"root", "link"} \cup Directories -> Nat]
AccessRecords ==
    [at : AccessPlaces, kind : {"read", "owned", "fact", "promotion", "target"}, path : Slots \cup {"none"},
     fact : {<<>>} \cup PathFacts, facts : Seq(LookedAt), pin : Directories \cup {"none"},
     file : Files \cup {0}, first : Nat, half : Nat, rest : Nat, answer : {"none", "unavailable", "text", "file", "missing"}]
TreeTyped == TreeOf(slots, leaf, version, stamp)

(* What a reader holds open was at the path, and a fact told what it names. *)
HeldWasThere(a, told) ==
    /\ a.at \in {"verifying", "recalling", "pinning"} \cup InPin => a.path \in Slots /\ a.kind \in {"owned", "fact"}
    /\ a.at = "resolving" => a.kind = "owned"
    /\ a.at \in {"entering"} \cup InPromotion => a.kind = "promotion" /\ a.path = "d"
    /\ a.at \in InPin \cup InPromotion => a.pin \in Directories /\ <<"held", a.path, a.pin>> \in told
    /\ a.at \in InFile \cup {"streaming", "streamed"} => a.file \in Files
FactWasThere(a, told) ==
    a.kind = "fact" =>
       /\ a.fact \in PathFacts /\ <<"note", a.path, a.fact[3], a.fact[4]>> \in told
       /\ a.at \in InFile => a.file = a.fact[3] /\ a.first = a.fact[4]

(* A version only grows, so that one seen twice was there in between. *)
ReadInOrder(a, v) ==
    /\ a.at = "reading" => a.first <= v[a.file]
    /\ a.at = "ending" => a.first <= a.half /\ a.half <= v[a.file]
    /\ a.at = "confirming" => a.half = a.first /\ a.rest = a.first

(* While the root stands as it was first looked at, the walk describes it; and
   the note was ordinarily absent when the walk ended. *)
WalkKnows(a, s, st, told) ==
    /\ a.at \in BeforeWalk \cup InWalk \cup {"rechecking", "last"} => a.kind = "target"
    /\ a.at \in BeforeWalk \cup InWalk => a.half = 0
    /\ a.at \in InWalk \cup {"rechecking"} =>
          /\ Len(a.facts) \in 1..3 /\ a.facts[1][1] = "root" /\ a.facts[1][2] <= st["root"]
    /\ a.at = "ancestor" => Len(a.facts) = 1
    /\ a.at = "following" => Len(a.facts) = 2 /\ (a.facts[1][2] = st["root"] => s["d"] \in LinkKinds)
    /\ a.at = "leaf" =>
          /\ Len(a.facts) \in 2..3
          /\ a.facts[1][2] = st["root"] =>
                \/ s["d"] \in Directories
                \/ s["d"] = "alias" /\ s["e"] \in Directories
    /\ a.at = "rechecking" /\ (a.half # 0 \/ a.facts[1][2] = st["root"]) => <<"absent">> \in told
    /\ a.at = "last" => <<"absent">> \in told

AnswerTrue(a, told) ==
    /\ a.at # "answered" => a.answer = "none"
    /\ a.at = "idle" => a = NoAccess
    /\ a.answer = "text" =>
          /\ <<"held", a.path, a.pin>> \in told
          /\ a.kind # "promotion" => a.half = a.first /\ a.rest = a.first
          /\ a.kind = "fact" => <<"note", a.path, a.file, a.first>> \in told
    /\ a.answer = "missing" => <<"absent">> \in told

Knows(a, s, v, st, told) ==
    /\ HeldWasThere(a, told) /\ FactWasThere(a, told) /\ ReadInOrder(a, v)
    /\ WalkKnows(a, s, st, told) /\ AnswerTrue(a, told)

AccessInv == TreeTyped /\ access \in AccessRecords /\ Knows(access, slots, version, stamp, truly)

(* What is true is told from the moment it is. *)
LEMMA ToldAtOnce ==
    /\ \A s \in Slots :
          /\ slots[s] \in Directories => <<"held", s, slots[s]>> \in Truth
          /\ Verified(s) => <<"note", s, leaf[slots[s]], version[leaf[slots[s]]]>> \in Truth
    /\ OrdinarilyAbsent => <<"absent">> \in Truth
  BY DEF Truth, IsDirectory

LEMMA ToldFromThen ==
    ASSUME AccessNext, access'.at # "idle"
    PROVE  /\ \A x \in Truth' : x \in truly'
           /\ access.at # "idle" => \A x \in truly : x \in truly'
  BY DEF AccessNext

(* A call that takes a step keeps what it knows, if it learns enough of it. *)
LEMMA IdleKnows ==
    ASSUME NEW s, NEW v, NEW st, NEW told
    PROVE  NoAccess \in AccessRecords /\ Knows(NoAccess, s, v, st, told)
<1>1. <<>> \in Seq(LookedAt)
  OBVIOUS
<1> QED
  BY <1>1 DEF NoAccess, AccessRecords, AccessPlaces, Knows, HeldWasThere, FactWasThere, ReadInOrder, WalkKnows,
     AnswerTrue, InPin, InFile, InPromotion, BeforeWalk, InWalk

(* Edits: versions and the stamp of the root only grow. *)
LEMMA EditsKeep ==
    ASSUME AccessInv, AccessNext, EditSlot \/ EditNote
    PROVE  AccessInv'
<1>1. TreeTyped' /\ access' = access
  <2>1. CASE EditSlot
    BY <2>1 DEF EditSlot, Edits, AccessInv, TreeTyped, TreeOf, SlotContents
  <2>2. CASE EditNote
    BY <2>2 DEF EditNote, Edits, AccessInv, TreeTyped, TreeOf, SlotContents
  <2> QED
    BY <2>1, <2>2
<1>2. /\ \A f \in Files : version[f] <= version'[f]
      /\ (slots' = slots /\ stamp'["root"] = stamp["root"]) \/ stamp'["root"] > stamp["root"]
  <2>1. CASE EditSlot
    BY <2>1 DEF EditSlot, Edits, AccessInv, TreeTyped, TreeOf, SlotContents
  <2>2. CASE EditNote
    BY <2>2 DEF EditNote, Edits, AccessInv, TreeTyped, TreeOf, SlotContents, Directories
  <2> QED
    BY <2>1, <2>2
<1>3. CASE access.at = "idle"
  BY <1>1, <1>3, IdleKnows DEF AccessInv, Knows, AnswerTrue
<1>4. CASE access.at # "idle"
  <2>1. \A x \in truly : x \in truly'
    BY <1>1, <1>4, ToldFromThen
  <2>2. WalkKnows(access, slots', stamp', truly')
    <3>1. stamp["root"] \in Nat /\ stamp'["root"] \in Nat /\ WalkKnows(access, slots, stamp, truly)
      BY <1>1 DEF AccessInv, Knows, TreeTyped, TreeOf
    <3>2. access.at \in InWalk \cup {"rechecking"} => access.facts[1][2] \in Nat
      BY <3>1 DEF AccessInv, AccessRecords, LookedAt, WalkKnows
    <3> QED
      BY <1>2, <2>1, <3>1, <3>2 DEF WalkKnows, InWalk
  <2>3. ReadInOrder(access, version')
    BY <1>1, <1>2 DEF AccessInv, Knows, ReadInOrder, HeldWasThere, InFile, TreeTyped, TreeOf, AccessRecords
  <2> QED
    BY <1>1, <2>1, <2>2, <2>3 DEF AccessInv, Knows, HeldWasThere, FactWasThere, AnswerTrue
<1> QED
  BY <1>3, <1>4

(* In the middle of a call all that was told stays told, and so is what is true. *)
LEMMA MiddleKnows ==
    ASSUME AccessInv, AccessNext, UNCHANGED <<slots, leaf, version, stamp>>, access.at # "idle", access'.at # "idle"
    PROVE  /\ Knows(access, slots', version', stamp', truly') /\ TreeTyped'
           /\ \A s \in Slots : slots[s] \in Directories => <<"held", s, slots[s]>> \in truly'
           /\ OrdinarilyAbsent => <<"absent">> \in truly'
<1>1. /\ \A x \in truly : x \in truly'
      /\ \A x \in Truth : x \in truly'
  BY ToldFromThen DEF Truth, OrdinarilyAbsent, Verified, HasFile, IsDirectory
<1>2. Knows(access, slots', version', stamp', truly')
  BY <1>1 DEF AccessInv, Knows, HeldWasThere, FactWasThere, WalkKnows, AnswerTrue
<1>3. TreeTyped'
  BY DEF AccessInv, TreeTyped
<1>4. /\ \A s \in Slots : slots[s] \in Directories => <<"held", s, slots[s]>> \in truly'
      /\ OrdinarilyAbsent => <<"absent">> \in truly'
  BY <1>1, ToldAtOnce
<1> QED
  BY <1>2, <1>3, <1>4

(* Whoever gives up claims nothing. *)
LEMMA UnavailableKeeps ==
    ASSUME AccessInv, AccessNext, access.at # "idle", Unavailable
    PROVE  AccessInv'
<1>1. /\ UNCHANGED <<slots, leaf, version, stamp>>
      /\ access' = [access EXCEPT !.at = "answered", !.answer = "unavailable"]
      /\ access \in AccessRecords
  BY DEF Unavailable, Answers, Proceeds, AccessInv
<1>2. access'.at = "answered" /\ access' \in AccessRecords
  BY <1>1 DEF AccessRecords, AccessPlaces
<1> QED
  <2>1. access.at # "idle" /\ access'.at # "idle"
    BY <1>1, <1>2
  <2>2. Knows(access, slots', version', stamp', truly') /\ access \in AccessRecords /\ access' \in AccessRecords
    BY <1>1, <1>2, <2>1, MiddleKnows DEF AccessInv
  <2>3. HeldWasThere(access', truly') /\ FactWasThere(access', truly')
    BY <1>1, <1>2, <2>2 DEF Knows, HeldWasThere, FactWasThere, InPin, InFile, InPromotion, AccessRecords
  <2>4. ReadInOrder(access', version')
    BY <1>1, <1>2, <2>2 DEF Knows, HeldWasThere, ReadInOrder, InFile, InPromotion, AccessRecords
  <2>5. WalkKnows(access', slots', stamp', truly')
    BY <1>1, <1>2, <2>2 DEF Knows, WalkKnows, BeforeWalk, InWalk, AccessRecords
  <2>6. AnswerTrue(access', truly')
    BY <1>1, <1>2, <2>2 DEF Knows, HeldWasThere, ReadInOrder, WalkKnows, AnswerTrue, AccessRecords
  <2> QED
    BY <1>1, <1>2, <2>1, <2>2, <2>3, <2>4, <2>5, <2>6, MiddleKnows DEF AccessInv, Knows

(* What an access is at any step of a call. *)
LEMMA InCall ==
    ASSUME AccessInv
    PROVE  /\ access.at \in AccessPlaces /\ access.kind \in {"read", "owned", "fact", "promotion", "target"}
           /\ access.path \in Slots \cup {"none"} /\ access.fact \in {<<>>} \cup PathFacts
           /\ access.facts \in Seq(LookedAt) /\ access.pin \in Directories \cup {"none"}
           /\ access.file \in Files \cup {0} /\ access.first \in Nat /\ access.half \in Nat /\ access.rest \in Nat
           /\ slots \in [Slots -> SlotContents] /\ leaf \in [Directories -> Files \cup {0, Dangling}]
           /\ version \in [Files -> Nat] /\ stamp \in [{"root", "link"} \cup Directories -> Nat]
  BY DEF AccessInv, AccessRecords, TreeTyped, TreeOf

(* A call that has only its place, its kind and its path is an access. *)
LEMMA BeginningShaped ==
    ASSUME NEW at \in AccessPlaces, NEW kind \in {"read", "owned", "fact", "promotion", "target"},
           NEW path \in Slots \cup {"none"}
    PROVE  [at |-> at, kind |-> kind, path |-> path, fact |-> <<>>, facts |-> <<>>, pin |-> "none",
            file |-> 0, first |-> 0, half |-> 0, rest |-> 0, answer |-> "none"] \in AccessRecords
<1>1. <<>> \in {<<>>} \cup PathFacts /\ <<>> \in Seq(LookedAt)
  OBVIOUS
<1>2. "none" \in Directories \cup {"none"} /\ 0 \in Files \cup {0} /\ 0 \in Nat
      /\ "none" \in {"none", "unavailable", "text", "file", "missing"}
  OBVIOUS
<1> QED
  BY <1>1, <1>2 DEF AccessRecords

(* A call begins with nothing but its kind, its path and perhaps a fact. *)
LEMMA BeginsKeep ==
    ASSUME AccessInv, AccessNext, BeginOwnedRead \/ BeginFactRead \/ BeginPromotionRead \/ BeginTarget
    PROVE  AccessInv'
<1>1. UNCHANGED <<slots, leaf, version, stamp>> /\ TreeTyped' /\ access.at = "idle"
  BY DEF BeginOwnedRead, BeginFactRead, BeginPromotionRead, BeginTarget, Begins, AccessInv, TreeTyped
<1>2. NoAccess \in AccessRecords
  BY IdleKnows
<1>3. CASE BeginFactRead
  <2>1. PICK s \in Slots : /\ Verified(s)
                          /\ access' = [NoAccess EXCEPT !.at = "recalling", !.kind = "fact", !.path = s, !.fact = PathFact(s)]
    BY <1>3 DEF BeginFactRead, Begins
  <2>2. /\ PathFact(s) \in PathFacts /\ slots[s] \in Directories /\ leaf[slots[s]] \in Files
        /\ PathFact(s)[3] = leaf[slots[s]] /\ PathFact(s)[4] = version[leaf[slots[s]]]
    BY <2>1, InCall DEF Verified, HasFile, IsDirectory, PathFact, PathFacts, RootFact, EntryFact, LookedAt, SlotContents, Directories
  <2>3. access' \in AccessRecords /\ access'.at # "idle"
    BY <1>2, <2>1, <2>2 DEF AccessRecords, AccessPlaces
  <2>4. <<"note", s, leaf[slots[s]], version[leaf[slots[s]]]>> \in truly'
    BY <1>1, <2>1, <2>3, ToldAtOnce, ToldFromThen DEF Truth, OrdinarilyAbsent, Verified, HasFile, IsDirectory
  <2> QED
    BY <1>1, <1>2, <2>1, <2>2, <2>3, <2>4 DEF NoAccess, AccessInv, Knows, HeldWasThere, FactWasThere, ReadInOrder, WalkKnows,
     AnswerTrue, InPin, InFile, InPromotion, BeforeWalk, InWalk
<1>4. CASE BeginOwnedRead
  <2>1. access' = [at |-> "resolving", kind |-> "owned", path |-> "none", fact |-> <<>>, facts |-> <<>>,
                  pin |-> "none", file |-> 0, first |-> 0, half |-> 0, rest |-> 0, answer |-> "none"]
    BY <1>4 DEF BeginOwnedRead, Begins, NoAccess
  <2> DEFINE a == access'
  <2>2. /\ a.at = "resolving" /\ a.kind = "owned" /\ a.path = "none" /\ a.fact = <<>> /\ a.facts = <<>>
        /\ a.pin = "none" /\ a.file = 0 /\ a.first = 0 /\ a.half = 0 /\ a.rest = 0 /\ a.answer = "none"
    BY <2>1
  <2>3. access' \in AccessRecords
    <3>1. "resolving" \in AccessPlaces /\ "none" \in Slots \cup {"none"}
      BY DEF AccessPlaces, Slots
    <3> QED
      BY <2>1, <3>1, BeginningShaped
  <2> HIDE DEF a
  <2>4. HeldWasThere(a, truly') /\ FactWasThere(a, truly') /\ ReadInOrder(a, version)
    BY <2>2 DEF HeldWasThere, FactWasThere, ReadInOrder, InPin, InFile, InPromotion
  <2>5. WalkKnows(a, slots, stamp, truly') /\ AnswerTrue(a, truly')
    BY <2>2 DEF WalkKnows, AnswerTrue, BeforeWalk, InWalk
  <2>6. Knows(a, slots, version, stamp, truly')
    BY <2>4, <2>5 DEF Knows
  <2> QED
    BY <1>1, <2>3, <2>6 DEF AccessInv, a
<1>5. CASE BeginPromotionRead
  <2>1. access' = [at |-> "entering", kind |-> "promotion", path |-> "d", fact |-> <<>>, facts |-> <<>>,
                  pin |-> "none", file |-> 0, first |-> 0, half |-> 0, rest |-> 0, answer |-> "none"]
    BY <1>5 DEF BeginPromotionRead, Begins, NoAccess
  <2> DEFINE a == access'
  <2>2. /\ a.at = "entering" /\ a.kind = "promotion" /\ a.path = "d" /\ a.fact = <<>> /\ a.facts = <<>>
        /\ a.pin = "none" /\ a.file = 0 /\ a.first = 0 /\ a.half = 0 /\ a.rest = 0 /\ a.answer = "none"
    BY <2>1
  <2>3. access' \in AccessRecords
    <3>1. "entering" \in AccessPlaces /\ "d" \in Slots \cup {"none"}
      BY DEF AccessPlaces, Slots
    <3> QED
      BY <2>1, <3>1, BeginningShaped
  <2> HIDE DEF a
  <2>4. HeldWasThere(a, truly') /\ FactWasThere(a, truly') /\ ReadInOrder(a, version)
    BY <2>2 DEF HeldWasThere, FactWasThere, ReadInOrder, InPin, InFile, InPromotion
  <2>5. WalkKnows(a, slots, stamp, truly') /\ AnswerTrue(a, truly')
    BY <2>2 DEF WalkKnows, AnswerTrue, BeforeWalk, InWalk
  <2>6. Knows(a, slots, version, stamp, truly')
    BY <2>4, <2>5 DEF Knows
  <2> QED
    BY <1>1, <2>3, <2>6 DEF AccessInv, a
<1>6. CASE BeginTarget
  <2>1. access' = [at |-> "target", kind |-> "target", path |-> "none", fact |-> <<>>, facts |-> <<>>,
                  pin |-> "none", file |-> 0, first |-> 0, half |-> 0, rest |-> 0, answer |-> "none"]
    BY <1>6 DEF BeginTarget, Begins, NoAccess
  <2> DEFINE a == access'
  <2>2. /\ a.at = "target" /\ a.kind = "target" /\ a.path = "none" /\ a.fact = <<>> /\ a.facts = <<>>
        /\ a.pin = "none" /\ a.file = 0 /\ a.first = 0 /\ a.half = 0 /\ a.rest = 0 /\ a.answer = "none"
    BY <2>1
  <2>3. access' \in AccessRecords
    <3>1. "target" \in AccessPlaces /\ "none" \in Slots \cup {"none"}
      BY DEF AccessPlaces, BeforeWalk
    <3> QED
      BY <2>1, <3>1, BeginningShaped
  <2> HIDE DEF a
  <2>4. HeldWasThere(a, truly') /\ FactWasThere(a, truly') /\ ReadInOrder(a, version)
    BY <2>2 DEF HeldWasThere, FactWasThere, ReadInOrder, InPin, InFile, InPromotion
  <2>5. WalkKnows(a, slots, stamp, truly') /\ AnswerTrue(a, truly')
    BY <2>2 DEF WalkKnows, AnswerTrue, BeforeWalk, InWalk
  <2>6. Knows(a, slots, version, stamp, truly')
    BY <2>4, <2>5 DEF Knows
  <2> QED
    BY <1>1, <2>3, <2>6 DEF AccessInv, a
<1> QED
  BY <1>3, <1>4, <1>5, <1>6

(* The verified snapshot. *)
LEMMA ResolveNoteKeeps == ASSUME AccessInv, AccessNext, ResolveNote PROVE AccessInv'
<1>1. CASE Unavailable
  BY <1>1, UnavailableKeeps DEF ResolveNote
<1>2. CASE ~Unavailable
  <2>1. /\ access' = [access EXCEPT !.at = "verifying", !.path = Resolved("d")]
        /\ UNCHANGED <<slots, leaf, version, stamp>>
        /\ access.at = "resolving"
        /\ Resolved("d") # "none"
    BY <1>2 DEF ResolveNote, Proceeds, Goes, Answers
  <2>2. access' \in AccessRecords /\ access'.at # "idle"
    <3>1. Resolved("d") \in Slots
      BY <2>1, InCall DEF Resolved, Slots, SlotContents
    <3>2. access \in AccessRecords /\ "verifying" \in AccessPlaces
      BY DEF AccessInv, AccessPlaces
    <3> QED
      BY <2>1, <3>1, <3>2 DEF AccessRecords
  <2> QED
    <3>1. access.at # "idle" /\ access'.at # "idle"
      BY <2>1, <2>2
    <3>2. Knows(access, slots', version', stamp', truly') /\ access \in AccessRecords /\ access' \in AccessRecords
      BY <2>1, <2>2, <3>1, MiddleKnows DEF AccessInv
    <3>3. HeldWasThere(access', truly') /\ FactWasThere(access', truly')
      BY <2>1, <2>2, <3>1, <3>2, MiddleKnows, InCall DEF Knows, HeldWasThere, FactWasThere, InPin, InFile, InPromotion, AccessRecords, Resolved, Slots
    <3>4. ReadInOrder(access', version')
      BY <2>1, <2>2, <3>2, InCall DEF Knows, HeldWasThere, ReadInOrder, InFile, InPromotion, AccessRecords
    <3>5. WalkKnows(access', slots', stamp', truly')
      BY <2>1, <2>2, <3>2, InCall DEF Knows, WalkKnows, BeforeWalk, InWalk, AccessRecords
    <3>6. AnswerTrue(access', truly')
      BY <2>1, <2>2, <3>1, <3>2, InCall DEF Knows, AnswerTrue, AccessRecords
    <3> QED
      BY <2>1, <2>2, <3>1, <3>2, <3>3, <3>4, <3>5, <3>6, MiddleKnows DEF AccessInv, Knows
<1> QED
  BY <1>1, <1>2

LEMMA VerifyFirstKeeps == ASSUME AccessInv, AccessNext, VerifyFirst PROVE AccessInv'
<1>1. CASE Unavailable
  BY <1>1, UnavailableKeeps DEF VerifyFirst
<1>2. CASE ~Unavailable
  <2>1. /\ access' = [access EXCEPT !.at = "pinning"]
        /\ UNCHANGED <<slots, leaf, version, stamp>>
        /\ access.at = "verifying"
    BY <1>2 DEF VerifyFirst, Proceeds, Goes, Answers
  <2>2. access' \in AccessRecords /\ access'.at # "idle"
    BY <2>1, InCall DEF AccessInv, AccessRecords, AccessPlaces, InPin, InFile, InPromotion, BeforeWalk, InWalk
  <2> QED
    <3>1. access.at # "idle" /\ access'.at # "idle"
      BY <2>1, <2>2
    <3>2. Knows(access, slots', version', stamp', truly') /\ access \in AccessRecords /\ access' \in AccessRecords
      BY <2>1, <2>2, <3>1, MiddleKnows DEF AccessInv
    <3>3. HeldWasThere(access', truly') /\ FactWasThere(access', truly')
      BY <2>1, <2>2, <3>1, <3>2, MiddleKnows, InCall DEF Knows, HeldWasThere, FactWasThere, InPin, InFile, InPromotion, AccessRecords
    <3>4. ReadInOrder(access', version')
      BY <2>1, <2>2, <3>2, InCall DEF Knows, HeldWasThere, ReadInOrder, InFile, InPromotion, AccessRecords
    <3>5. WalkKnows(access', slots', stamp', truly')
      BY <2>1, <2>2, <3>2, InCall DEF Knows, WalkKnows, BeforeWalk, InWalk, AccessRecords
    <3>6. AnswerTrue(access', truly')
      BY <2>1, <2>2, <3>1, <3>2, InCall DEF Knows, AnswerTrue, AccessRecords
    <3> QED
      BY <2>1, <2>2, <3>1, <3>2, <3>3, <3>4, <3>5, <3>6, MiddleKnows DEF AccessInv, Knows
<1> QED
  BY <1>1, <1>2

LEMMA RecallFactKeeps == ASSUME AccessInv, AccessNext, RecallFact PROVE AccessInv'
<1>1. CASE Unavailable
  BY <1>1, UnavailableKeeps DEF RecallFact
<1>2. CASE ~Unavailable
  <2>1. /\ access' = [access EXCEPT !.at = "pinning"]
        /\ UNCHANGED <<slots, leaf, version, stamp>>
        /\ access.at = "recalling"
    BY <1>2 DEF RecallFact, Proceeds, Goes, Answers
  <2>2. access' \in AccessRecords /\ access'.at # "idle"
    BY <2>1, InCall DEF AccessInv, AccessRecords, AccessPlaces, InPin, InFile, InPromotion, BeforeWalk, InWalk
  <2> QED
    <3>1. access.at # "idle" /\ access'.at # "idle"
      BY <2>1, <2>2
    <3>2. Knows(access, slots', version', stamp', truly') /\ access \in AccessRecords /\ access' \in AccessRecords
      BY <2>1, <2>2, <3>1, MiddleKnows DEF AccessInv
    <3>3. HeldWasThere(access', truly') /\ FactWasThere(access', truly')
      BY <2>1, <2>2, <3>1, <3>2, MiddleKnows, InCall DEF Knows, HeldWasThere, FactWasThere, InPin, InFile, InPromotion, AccessRecords
    <3>4. ReadInOrder(access', version')
      BY <2>1, <2>2, <3>2, InCall DEF Knows, HeldWasThere, ReadInOrder, InFile, InPromotion, AccessRecords
    <3>5. WalkKnows(access', slots', stamp', truly')
      BY <2>1, <2>2, <3>2, InCall DEF Knows, WalkKnows, BeforeWalk, InWalk, AccessRecords
    <3>6. AnswerTrue(access', truly')
      BY <2>1, <2>2, <3>1, <3>2, InCall DEF Knows, AnswerTrue, AccessRecords
    <3> QED
      BY <2>1, <2>2, <3>1, <3>2, <3>3, <3>4, <3>5, <3>6, MiddleKnows DEF AccessInv, Knows
<1> QED
  BY <1>1, <1>2

LEMMA PinDirectoryKeeps == ASSUME AccessInv, AccessNext, PinDirectory PROVE AccessInv'
<1>1. CASE Unavailable
  BY <1>1, UnavailableKeeps DEF PinDirectory
<1>2. CASE ~Unavailable
  <2>1. /\ access' = [access EXCEPT !.at = "opening", !.pin = slots[access.path]]
        /\ UNCHANGED <<slots, leaf, version, stamp>>
        /\ access.at = "pinning"
        /\ slots[access.path] \in Directories
    BY <1>2 DEF PinDirectory, Proceeds, Goes, Answers, Openable, IsDirectory
  <2>2. access' \in AccessRecords /\ access'.at # "idle"
    BY <2>1, InCall DEF AccessInv, AccessRecords, AccessPlaces, InPin, InFile, InPromotion, BeforeWalk, InWalk
  <2> QED
    <3>1. access.at # "idle" /\ access'.at # "idle"
      BY <2>1, <2>2
    <3>2. Knows(access, slots', version', stamp', truly') /\ access \in AccessRecords /\ access' \in AccessRecords
      BY <2>1, <2>2, <3>1, MiddleKnows DEF AccessInv
    <3>3. HeldWasThere(access', truly') /\ FactWasThere(access', truly')
      BY <2>1, <2>2, <3>1, <3>2, MiddleKnows, InCall DEF Knows, HeldWasThere, FactWasThere, InPin, InFile, InPromotion, AccessRecords
    <3>4. ReadInOrder(access', version')
      BY <2>1, <2>2, <3>2, InCall DEF Knows, HeldWasThere, ReadInOrder, InFile, InPromotion, AccessRecords
    <3>5. WalkKnows(access', slots', stamp', truly')
      BY <2>1, <2>2, <3>2, InCall DEF Knows, WalkKnows, BeforeWalk, InWalk, AccessRecords
    <3>6. AnswerTrue(access', truly')
      BY <2>1, <2>2, <3>1, <3>2, InCall DEF Knows, AnswerTrue, AccessRecords
    <3> QED
      BY <2>1, <2>2, <3>1, <3>2, <3>3, <3>4, <3>5, <3>6, MiddleKnows DEF AccessInv, Knows
<1> QED
  BY <1>1, <1>2

LEMMA OpenNoteKeeps == ASSUME AccessInv, AccessNext, OpenNote PROVE AccessInv'
<1>1. CASE Unavailable
  BY <1>1, UnavailableKeeps DEF OpenNote
<1>2. CASE ~Unavailable
  <2>1. /\ access' = [access EXCEPT !.at = "reading", !.file = leaf[access.pin], !.first = version[leaf[access.pin]]]
        /\ UNCHANGED <<slots, leaf, version, stamp>>
        /\ access.at = "opening"
        /\ leaf[access.pin] \in Files
        /\ access.kind = "fact" => <<leaf[access.pin], version[leaf[access.pin]]>> = <<access.fact[3], access.fact[4]>>
    BY <1>2 DEF OpenNote, Proceeds, Goes, Answers
  <2>2. access' \in AccessRecords /\ access'.at # "idle"
    BY <2>1, InCall DEF AccessInv, AccessRecords, AccessPlaces, InPin, InFile, InPromotion, BeforeWalk, InWalk, HeldWasThere, Knows
  <2>3. /\ access'.at = "reading" /\ access'.file = leaf[access.pin] /\ access'.first = version[leaf[access.pin]]
        /\ access'.kind = access.kind /\ access'.path = access.path /\ access'.fact = access.fact
        /\ access'.pin = access.pin /\ access'.half = access.half /\ access'.rest = access.rest
        /\ access'.answer = access.answer /\ access'.facts = access.facts
    BY <2>1 DEF AccessInv, AccessRecords
  <2>4. version[leaf[access.pin]] \in Nat /\ version' = version
    BY <2>1, InCall
  <2> QED
    <3>1. access.at # "idle" /\ access'.at # "idle"
      BY <2>1, <2>2
    <3>2. Knows(access, slots', version', stamp', truly') /\ access \in AccessRecords /\ access' \in AccessRecords
      BY <2>1, <2>2, <3>1, MiddleKnows DEF AccessInv
    <3>3. HeldWasThere(access', truly') /\ FactWasThere(access', truly')
      <4>1. HeldWasThere(access', truly')
        BY <2>1, <2>3, <3>2 DEF Knows, HeldWasThere, InPin, InFile, InPromotion
      <4>2. FactWasThere(access', truly')
        BY <2>1, <2>3, <3>2 DEF Knows, FactWasThere, InFile
      <4> QED
        BY <4>1, <4>2
    <3>4. ReadInOrder(access', version')
      BY <2>3, <2>4 DEF ReadInOrder
    <3>5. WalkKnows(access', slots', stamp', truly')
      BY <2>3 DEF WalkKnows, BeforeWalk, InWalk
    <3>6. AnswerTrue(access', truly')
      BY <2>1, <2>3, <3>2 DEF Knows, AnswerTrue
    <3> QED
      BY <2>1, <2>2, <3>1, <3>2, <3>3, <3>4, <3>5, <3>6, MiddleKnows DEF AccessInv, Knows
<1> QED
  BY <1>1, <1>2

LEMMA ReadBeginsKeeps == ASSUME AccessInv, AccessNext, ReadBegins PROVE AccessInv'
<1>1. CASE Unavailable
  BY <1>1, UnavailableKeeps DEF ReadBegins
<1>2. CASE ~Unavailable
  <2>1. /\ access' = [access EXCEPT !.at = "ending", !.half = version[access.file]]
        /\ UNCHANGED <<slots, leaf, version, stamp>>
        /\ access.at = "reading"
    BY <1>2 DEF ReadBegins, Proceeds, Goes, Answers
  <2>2. access' \in AccessRecords /\ access'.at # "idle"
    BY <2>1, InCall DEF AccessInv, AccessRecords, AccessPlaces, InPin, InFile, InPromotion, BeforeWalk, InWalk, HeldWasThere, Knows
  <2> QED
    <3>1. access.at # "idle" /\ access'.at # "idle"
      BY <2>1, <2>2
    <3>2. Knows(access, slots', version', stamp', truly') /\ access \in AccessRecords /\ access' \in AccessRecords
      BY <2>1, <2>2, <3>1, MiddleKnows DEF AccessInv
    <3>3. HeldWasThere(access', truly') /\ FactWasThere(access', truly')
      BY <2>1, <2>2, <3>1, <3>2, MiddleKnows, InCall DEF Knows, HeldWasThere, FactWasThere, InPin, InFile, InPromotion, AccessRecords
    <3>4. ReadInOrder(access', version')
      BY <2>1, <2>2, <3>2, InCall DEF Knows, HeldWasThere, ReadInOrder, InFile, InPromotion, AccessRecords
    <3>5. WalkKnows(access', slots', stamp', truly')
      BY <2>1, <2>2, <3>2, InCall DEF Knows, WalkKnows, BeforeWalk, InWalk, AccessRecords
    <3>6. AnswerTrue(access', truly')
      BY <2>1, <2>2, <3>1, <3>2, InCall DEF Knows, AnswerTrue, AccessRecords
    <3> QED
      BY <2>1, <2>2, <3>1, <3>2, <3>3, <3>4, <3>5, <3>6, MiddleKnows DEF AccessInv, Knows
<1> QED
  BY <1>1, <1>2

LEMMA ReadEndsKeeps == ASSUME AccessInv, AccessNext, ReadEnds PROVE AccessInv'
<1>1. CASE Unavailable
  BY <1>1, UnavailableKeeps DEF ReadEnds
<1>2. CASE ~Unavailable
  <2>1. /\ access' = [access EXCEPT !.at = "confirming", !.rest = version[access.file]]
        /\ UNCHANGED <<slots, leaf, version, stamp>>
        /\ access.at = "ending"
        /\ version[access.file] = access.first
    BY <1>2 DEF ReadEnds, Proceeds, Goes, Answers, Untouched
  <2>2. access' \in AccessRecords /\ access'.at # "idle"
    BY <2>1, InCall DEF AccessInv, AccessRecords, AccessPlaces, InPin, InFile, InPromotion, BeforeWalk, InWalk, HeldWasThere, Knows
  <2> QED
    <3>1. access.at # "idle" /\ access'.at # "idle"
      BY <2>1, <2>2
    <3>2. Knows(access, slots', version', stamp', truly') /\ access \in AccessRecords /\ access' \in AccessRecords
      BY <2>1, <2>2, <3>1, MiddleKnows DEF AccessInv
    <3>3. HeldWasThere(access', truly') /\ FactWasThere(access', truly')
      BY <2>1, <2>2, <3>1, <3>2, MiddleKnows, InCall DEF Knows, HeldWasThere, FactWasThere, InPin, InFile, InPromotion, AccessRecords
    <3>4. ReadInOrder(access', version')
      BY <2>1, <2>2, <3>2, InCall DEF Knows, HeldWasThere, ReadInOrder, InFile, InPromotion, AccessRecords
    <3>5. WalkKnows(access', slots', stamp', truly')
      BY <2>1, <2>2, <3>2, InCall DEF Knows, WalkKnows, BeforeWalk, InWalk, AccessRecords
    <3>6. AnswerTrue(access', truly')
      BY <2>1, <2>2, <3>1, <3>2, InCall DEF Knows, AnswerTrue, AccessRecords
    <3> QED
      BY <2>1, <2>2, <3>1, <3>2, <3>3, <3>4, <3>5, <3>6, MiddleKnows DEF AccessInv, Knows
<1> QED
  BY <1>1, <1>2

LEMMA ConfirmReadKeeps == ASSUME AccessInv, AccessNext, ConfirmRead PROVE AccessInv'
<1>1. CASE Unavailable
  BY <1>1, UnavailableKeeps DEF ConfirmRead
<1>2. CASE ~Unavailable
  <2>1. /\ access' = [access EXCEPT !.at = "answered", !.answer = "text"]
        /\ UNCHANGED <<slots, leaf, version, stamp>>
        /\ access.at = "confirming"
    BY <1>2 DEF ConfirmRead, Proceeds, Goes, Answers
  <2>2. access' \in AccessRecords /\ access'.at # "idle"
    BY <2>1, InCall DEF AccessInv, AccessRecords, AccessPlaces, InPin, InFile, InPromotion, BeforeWalk, InWalk
  <2>3. /\ <<"held", access.path, access.pin>> \in truly' /\ access.half = access.first /\ access.rest = access.first
        /\ access.kind \in {"owned", "fact"}
        /\ access.kind = "fact" => <<"note", access.path, access.file, access.first>> \in truly' /\ access.fact \in PathFacts
    BY <2>1, <2>2, MiddleKnows, InCall DEF Knows, HeldWasThere, FactWasThere, ReadInOrder, InPin, InFile
  <2> QED
    <3>1. access.at # "idle" /\ access'.at # "idle"
      BY <2>1, <2>2, <2>3
    <3>2. Knows(access, slots', version', stamp', truly') /\ access \in AccessRecords /\ access' \in AccessRecords
      BY <2>1, <2>2, <2>3, <3>1, MiddleKnows DEF AccessInv
    <3>3. HeldWasThere(access', truly') /\ FactWasThere(access', truly')
      BY <2>1, <2>2, <2>3, <3>1, <3>2, MiddleKnows, InCall DEF Knows, HeldWasThere, FactWasThere, InPin, InFile, InPromotion, AccessRecords
    <3>4. ReadInOrder(access', version')
      BY <2>1, <2>2, <2>3, <3>2, InCall DEF Knows, HeldWasThere, ReadInOrder, InFile, InPromotion, AccessRecords
    <3>5. WalkKnows(access', slots', stamp', truly')
      BY <2>1, <2>2, <2>3, <3>2, InCall DEF Knows, WalkKnows, BeforeWalk, InWalk, AccessRecords
    <3>6. AnswerTrue(access', truly')
      BY <2>1, <2>2, <2>3, <3>1, <3>2, InCall DEF Knows, HeldWasThere, ReadInOrder, WalkKnows, AnswerTrue, AccessRecords
    <3> QED
      BY <2>1, <2>2, <2>3, <3>1, <3>2, <3>3, <3>4, <3>5, <3>6, MiddleKnows DEF AccessInv, Knows
<1> QED
  BY <1>1, <1>2

(* read_promotion_bytes. *)
LEMMA PinExactlyKeeps == ASSUME AccessInv, AccessNext, PinExactly PROVE AccessInv'
<1>1. CASE Unavailable
  BY <1>1, UnavailableKeeps DEF PinExactly
<1>2. CASE ~Unavailable
  <2>1. /\ access' = [access EXCEPT !.at = "listing", !.pin = slots["d"]]
        /\ UNCHANGED <<slots, leaf, version, stamp>>
        /\ access.at = "entering"
        /\ slots["d"] \in Directories
    BY <1>2 DEF PinExactly, Proceeds, Goes, Answers, IsDirectory
  <2>2. access' \in AccessRecords /\ access'.at # "idle"
    BY <2>1, InCall DEF AccessInv, AccessRecords, AccessPlaces, InPin, InFile, InPromotion, BeforeWalk, InWalk
  <2>3. <<"held", "d", slots["d"]>> \in truly' /\ access.path = "d" /\ access.kind = "promotion"
    BY <2>1, <2>2, MiddleKnows, InCall DEF Slots, AccessInv, Knows, HeldWasThere
  <2> QED
    <3>1. access.at # "idle" /\ access'.at # "idle"
      BY <2>1, <2>2, <2>3
    <3>2. Knows(access, slots', version', stamp', truly') /\ access \in AccessRecords /\ access' \in AccessRecords
      BY <2>1, <2>2, <2>3, <3>1, MiddleKnows DEF AccessInv
    <3>3. HeldWasThere(access', truly') /\ FactWasThere(access', truly')
      BY <2>1, <2>2, <2>3, <3>1, <3>2, MiddleKnows, InCall DEF Knows, HeldWasThere, FactWasThere, InPin, InFile, InPromotion, AccessRecords
    <3>4. ReadInOrder(access', version')
      BY <2>1, <2>2, <2>3, <3>2, InCall DEF Knows, HeldWasThere, ReadInOrder, InFile, InPromotion, AccessRecords
    <3>5. WalkKnows(access', slots', stamp', truly')
      BY <2>1, <2>2, <2>3, <3>2, InCall DEF Knows, WalkKnows, BeforeWalk, InWalk, AccessRecords
    <3>6. AnswerTrue(access', truly')
      BY <2>1, <2>2, <2>3, <3>1, <3>2, InCall DEF Knows, AnswerTrue, AccessRecords
    <3> QED
      BY <2>1, <2>2, <2>3, <3>1, <3>2, <3>3, <3>4, <3>5, <3>6, MiddleKnows DEF AccessInv, Knows
<1> QED
  BY <1>1, <1>2

LEMMA ListExactlyKeeps == ASSUME AccessInv, AccessNext, ListExactly PROVE AccessInv'
<1>1. CASE Unavailable
  BY <1>1, UnavailableKeeps DEF ListExactly
<1>2. CASE ~Unavailable
  <2>1. /\ access' = [access EXCEPT !.at = IF access.at = "listing" THEN "relisting" ELSE "promoting"]
        /\ UNCHANGED <<slots, leaf, version, stamp>>
        /\ access.at \in {"listing", "relisting"}
    BY <1>2 DEF ListExactly, Proceeds, Goes, Answers
  <2>2. access' \in AccessRecords /\ access'.at # "idle"
    <3>1. access \in AccessRecords /\ "relisting" \in AccessPlaces /\ "promoting" \in AccessPlaces
      BY DEF AccessInv, AccessPlaces, InPromotion
    <3> QED
      BY <2>1, <3>1 DEF AccessRecords
  <2> QED
    <3>1. access.at # "idle" /\ access'.at # "idle"
      BY <2>1, <2>2
    <3>2. Knows(access, slots', version', stamp', truly') /\ access \in AccessRecords /\ access' \in AccessRecords
      BY <2>1, <2>2, <3>1, MiddleKnows DEF AccessInv
    <3>3. HeldWasThere(access', truly') /\ FactWasThere(access', truly')
      BY <2>1, <2>2, <3>2, InCall DEF Knows, HeldWasThere, FactWasThere, InPin, InFile, InPromotion, AccessRecords
    <3>4. ReadInOrder(access', version')
      BY <2>1, <2>2, <3>2, InCall DEF Knows, HeldWasThere, ReadInOrder, InFile, InPromotion, AccessRecords
    <3>5. WalkKnows(access', slots', stamp', truly')
      BY <2>1, <2>2, <3>2, InCall DEF Knows, WalkKnows, BeforeWalk, InWalk, AccessRecords
    <3>6. AnswerTrue(access', truly')
      BY <2>1, <2>2, <3>1, <3>2, InCall DEF Knows, AnswerTrue, AccessRecords
    <3> QED
      BY <2>1, <2>2, <3>1, <3>2, <3>3, <3>4, <3>5, <3>6, MiddleKnows DEF AccessInv, Knows
<1> QED
  BY <1>1, <1>2

LEMMA OpenPromotedKeeps == ASSUME AccessInv, AccessNext, OpenPromoted PROVE AccessInv'
<1>1. CASE Unavailable
  BY <1>1, UnavailableKeeps DEF OpenPromoted
<1>2. CASE ~Unavailable
  <2>1. /\ access' = [access EXCEPT !.at = "streaming", !.file = leaf[access.pin], !.first = version[leaf[access.pin]]]
        /\ UNCHANGED <<slots, leaf, version, stamp>>
        /\ access.at = "promoting"
        /\ leaf[access.pin] \in Files
    BY <1>2 DEF OpenPromoted, Proceeds, Goes, Answers
  <2>2. access' \in AccessRecords /\ access'.at # "idle"
    BY <2>1, InCall DEF AccessInv, AccessRecords, AccessPlaces, InPin, InFile, InPromotion, BeforeWalk, InWalk, HeldWasThere, Knows
  <2> QED
    <3>1. access.at # "idle" /\ access'.at # "idle"
      BY <2>1, <2>2
    <3>2. Knows(access, slots', version', stamp', truly') /\ access \in AccessRecords /\ access' \in AccessRecords
      BY <2>1, <2>2, <3>1, MiddleKnows DEF AccessInv
    <3>3. HeldWasThere(access', truly') /\ FactWasThere(access', truly')
      BY <2>1, <2>2, <3>2, InCall DEF Knows, HeldWasThere, FactWasThere, InPin, InFile, InPromotion, AccessRecords
    <3>4. ReadInOrder(access', version')
      BY <2>1, <2>2, <3>2, InCall DEF Knows, HeldWasThere, ReadInOrder, InFile, InPromotion, AccessRecords
    <3>5. WalkKnows(access', slots', stamp', truly')
      BY <2>1, <2>2, <3>2, InCall DEF Knows, WalkKnows, BeforeWalk, InWalk, AccessRecords
    <3>6. AnswerTrue(access', truly')
      BY <2>1, <2>2, <3>1, <3>2, InCall DEF Knows, AnswerTrue, AccessRecords
    <3> QED
      BY <2>1, <2>2, <3>1, <3>2, <3>3, <3>4, <3>5, <3>6, MiddleKnows DEF AccessInv, Knows
<1> QED
  BY <1>1, <1>2

LEMMA ReadPromotedKeeps == ASSUME AccessInv, AccessNext, ReadPromoted PROVE AccessInv'
<1>1. CASE Unavailable
  BY <1>1, UnavailableKeeps DEF ReadPromoted
<1>2. CASE ~Unavailable
  <2>1. /\ access' = [access EXCEPT !.at = "streamed", !.half = version[access.file]]
        /\ UNCHANGED <<slots, leaf, version, stamp>>
        /\ access.at = "streaming"
    BY <1>2 DEF ReadPromoted, Proceeds, Goes, Answers
  <2>2. access' \in AccessRecords /\ access'.at # "idle"
    BY <2>1, InCall DEF AccessInv, AccessRecords, AccessPlaces, InPin, InFile, InPromotion, BeforeWalk, InWalk, HeldWasThere, Knows
  <2> QED
    <3>1. access.at # "idle" /\ access'.at # "idle"
      BY <2>1, <2>2
    <3>2. Knows(access, slots', version', stamp', truly') /\ access \in AccessRecords /\ access' \in AccessRecords
      BY <2>1, <2>2, <3>1, MiddleKnows DEF AccessInv
    <3>3. HeldWasThere(access', truly') /\ FactWasThere(access', truly')
      BY <2>1, <2>2, <3>1, <3>2, MiddleKnows, InCall DEF Knows, HeldWasThere, FactWasThere, InPin, InFile, InPromotion, AccessRecords
    <3>4. ReadInOrder(access', version')
      BY <2>1, <2>2, <3>2, InCall DEF Knows, HeldWasThere, ReadInOrder, InFile, InPromotion, AccessRecords
    <3>5. WalkKnows(access', slots', stamp', truly')
      BY <2>1, <2>2, <3>2, InCall DEF Knows, WalkKnows, BeforeWalk, InWalk, AccessRecords
    <3>6. AnswerTrue(access', truly')
      BY <2>1, <2>2, <3>1, <3>2, InCall DEF Knows, AnswerTrue, AccessRecords
    <3> QED
      BY <2>1, <2>2, <3>1, <3>2, <3>3, <3>4, <3>5, <3>6, MiddleKnows DEF AccessInv, Knows
<1> QED
  BY <1>1, <1>2

LEMMA ConfirmPromotedKeeps == ASSUME AccessInv, AccessNext, ConfirmPromoted PROVE AccessInv'
<1>1. CASE Unavailable
  BY <1>1, UnavailableKeeps DEF ConfirmPromoted
<1>2. CASE ~Unavailable
  <2>1. /\ access' = [access EXCEPT !.at = "answered", !.answer = "text"]
        /\ UNCHANGED <<slots, leaf, version, stamp>>
        /\ access.at = "streamed"
    BY <1>2 DEF ConfirmPromoted, Proceeds, Goes, Answers
  <2>2. access' \in AccessRecords /\ access'.at # "idle"
    BY <2>1, InCall DEF AccessInv, AccessRecords, AccessPlaces, InPin, InFile, InPromotion, BeforeWalk, InWalk
  <2> QED
    <3>1. access.at # "idle" /\ access'.at # "idle"
      BY <2>1, <2>2
    <3>2. Knows(access, slots', version', stamp', truly') /\ access \in AccessRecords /\ access' \in AccessRecords
      BY <2>1, <2>2, <3>1, MiddleKnows DEF AccessInv
    <3>3. HeldWasThere(access', truly') /\ FactWasThere(access', truly')
      BY <2>1, <2>2, <3>1, <3>2, MiddleKnows, InCall DEF Knows, HeldWasThere, FactWasThere, InPin, InFile, InPromotion, AccessRecords
    <3>4. ReadInOrder(access', version')
      BY <2>1, <2>2, <3>2, InCall DEF Knows, HeldWasThere, ReadInOrder, InFile, InPromotion, AccessRecords
    <3>5. WalkKnows(access', slots', stamp', truly')
      BY <2>1, <2>2, <3>2, InCall DEF Knows, WalkKnows, BeforeWalk, InWalk, AccessRecords
    <3>6. AnswerTrue(access', truly')
      <4>1. /\ access'.at = "answered" /\ access'.answer = "text"
            /\ access'.path = access.path /\ access'.pin = access.pin /\ access'.kind = access.kind
        BY <2>1, <3>2 DEF AccessRecords
      <4>2. access.kind = "promotion" /\ <<"held", access.path, access.pin>> \in truly'
        BY <2>1, <3>2 DEF Knows, HeldWasThere, InPromotion
      <4> QED
        BY <4>1, <4>2 DEF AnswerTrue
    <3> QED
      BY <2>1, <2>2, <3>1, <3>2, <3>3, <3>4, <3>5, <3>6, MiddleKnows DEF AccessInv, Knows
<1> QED
  BY <1>1, <1>2

(* What is looked at joins what the walk has seen. *)
LEMMA LooksTyped ==
    ASSUME AccessInv
    PROVE  /\ RootFact \in LookedAt /\ <<RootFact>> \in Seq(LookedAt)
           /\ \A s \in Slots : EntryFact(s) \in LookedAt
           /\ \A s \in Slots : /\ Append(access.facts, EntryFact(s)) \in Seq(LookedAt)
                              /\ Len(Append(access.facts, EntryFact(s))) = Len(access.facts) + 1
                              /\ Len(access.facts) > 0 => Append(access.facts, EntryFact(s))[1] = access.facts[1]
<1>1. /\ "root" \in {"root", "link"} \cup Directories /\ "link" \in {"root", "link"} \cup Directories
      /\ \A x \in Directories : x \in {"root", "link"} \cup Directories
  OBVIOUS
<1>2. stamp["root"] \in Nat /\ stamp["link"] \in Nat /\ \A x \in Directories : stamp[x] \in Nat
  BY <1>1, InCall
<1>3. RootFact \in LookedAt
  BY <1>2 DEF RootFact, LookedAt
<1>4. ASSUME NEW s \in Slots PROVE EntryFact(s) \in LookedAt
  <2>1. slots[s] \in SlotContents
    BY InCall
  <2>2. CASE slots[s] \in Directories
    BY <1>2, <2>2 DEF EntryFact, LookedAt, SlotContents
  <2>3. CASE slots[s] \notin Directories /\ slots[s] = "none"
    BY <2>3 DEF EntryFact, LookedAt, SlotContents
  <2>4. CASE slots[s] \notin Directories /\ slots[s] # "none"
    BY <1>2, <2>1, <2>4 DEF EntryFact, LookedAt, SlotContents
  <2> QED
    BY <2>2, <2>3, <2>4
<1>5. ASSUME NEW x \in LookedAt
      PROVE  /\ Append(access.facts, x) \in Seq(LookedAt) /\ Len(Append(access.facts, x)) = Len(access.facts) + 1
             /\ Len(access.facts) > 0 => Append(access.facts, x)[1] = access.facts[1]
  BY InCall
<1> QED
  BY <1>3, <1>4, <1>5

(* _target_files. *)
LEMMA ResolveTargetKeeps == ASSUME AccessInv, AccessNext, ResolveTarget PROVE AccessInv'
<1>1. CASE Unavailable
  BY <1>1, UnavailableKeeps DEF ResolveTarget
<1>2. CASE /\ access' = [access EXCEPT !.at = "answered", !.answer = "file"]
              /\ UNCHANGED <<slots, leaf, version, stamp>>
              /\ access.at = "target"
  <2>1. access' \in AccessRecords /\ access'.at # "idle"
    BY <1>2, InCall DEF AccessInv, AccessRecords, AccessPlaces, InPin, InFile, InPromotion, BeforeWalk, InWalk
  <2> QED
    <3>1. access.at # "idle" /\ access'.at # "idle"
      BY <1>2, <2>1
    <3>2. Knows(access, slots', version', stamp', truly') /\ access \in AccessRecords /\ access' \in AccessRecords
      BY <1>2, <2>1, <3>1, MiddleKnows DEF AccessInv
    <3>3. HeldWasThere(access', truly') /\ FactWasThere(access', truly')
      BY <1>2, <2>1, <3>1, <3>2, MiddleKnows, InCall DEF Knows, HeldWasThere, FactWasThere, InPin, InFile, InPromotion, AccessRecords
    <3>4. ReadInOrder(access', version')
      BY <1>2, <2>1, <3>2, InCall DEF Knows, HeldWasThere, ReadInOrder, InFile, InPromotion, AccessRecords
    <3>5. WalkKnows(access', slots', stamp', truly')
      BY <1>2, <2>1, <3>2, InCall DEF Knows, WalkKnows, BeforeWalk, InWalk, AccessRecords
    <3>6. AnswerTrue(access', truly')
      BY <1>2, <2>1, <3>1, <3>2, InCall DEF Knows, HeldWasThere, ReadInOrder, WalkKnows, AnswerTrue, AccessRecords
    <3> QED
      BY <1>2, <2>1, <3>1, <3>2, <3>3, <3>4, <3>5, <3>6, MiddleKnows DEF AccessInv, Knows
<1>3. CASE /\ access' = [access EXCEPT !.at = "containing"]
              /\ UNCHANGED <<slots, leaf, version, stamp>>
              /\ access.at = "target"
  <2>1. access' \in AccessRecords /\ access'.at # "idle"
    BY <1>3, InCall DEF AccessInv, AccessRecords, AccessPlaces, InPin, InFile, InPromotion, BeforeWalk, InWalk
  <2> QED
    <3>1. access.at # "idle" /\ access'.at # "idle"
      BY <1>3, <2>1
    <3>2. Knows(access, slots', version', stamp', truly') /\ access \in AccessRecords /\ access' \in AccessRecords
      BY <1>3, <2>1, <3>1, MiddleKnows DEF AccessInv
    <3>3. HeldWasThere(access', truly') /\ FactWasThere(access', truly')
      BY <1>3, <2>1, <3>1, <3>2, MiddleKnows, InCall DEF Knows, HeldWasThere, FactWasThere, InPin, InFile, InPromotion, AccessRecords
    <3>4. ReadInOrder(access', version')
      BY <1>3, <2>1, <3>2, InCall DEF Knows, HeldWasThere, ReadInOrder, InFile, InPromotion, AccessRecords
    <3>5. WalkKnows(access', slots', stamp', truly')
      BY <1>3, <2>1, <3>2, InCall DEF Knows, WalkKnows, BeforeWalk, InWalk, AccessRecords
    <3>6. AnswerTrue(access', truly')
      BY <1>3, <2>1, <3>1, <3>2, InCall DEF Knows, HeldWasThere, ReadInOrder, WalkKnows, AnswerTrue, AccessRecords
    <3> QED
      BY <1>3, <2>1, <3>1, <3>2, <3>3, <3>4, <3>5, <3>6, MiddleKnows DEF AccessInv, Knows
<1> QED
  BY <1>1, <1>2, <1>3 DEF ResolveTarget, Proceeds, Goes, Answers

LEMMA ContainTargetKeeps == ASSUME AccessInv, AccessNext, ContainTarget PROVE AccessInv'
<1>1. CASE Unavailable
  BY <1>1, UnavailableKeeps DEF ContainTarget
<1>2. CASE /\ access' = [access EXCEPT !.at = "root"]
              /\ UNCHANGED <<slots, leaf, version, stamp>>
              /\ access.at = "containing"
  <2>1. access' \in AccessRecords /\ access'.at # "idle"
    BY <1>2, InCall DEF AccessInv, AccessRecords, AccessPlaces, InPin, InFile, InPromotion, BeforeWalk, InWalk
  <2> QED
    <3>1. access.at # "idle" /\ access'.at # "idle"
      BY <1>2, <2>1
    <3>2. Knows(access, slots', version', stamp', truly') /\ access \in AccessRecords /\ access' \in AccessRecords
      BY <1>2, <2>1, <3>1, MiddleKnows DEF AccessInv
    <3>3. HeldWasThere(access', truly') /\ FactWasThere(access', truly')
      BY <1>2, <2>1, <3>1, <3>2, MiddleKnows, InCall DEF Knows, HeldWasThere, FactWasThere, InPin, InFile, InPromotion, AccessRecords
    <3>4. ReadInOrder(access', version')
      BY <1>2, <2>1, <3>2, InCall DEF Knows, HeldWasThere, ReadInOrder, InFile, InPromotion, AccessRecords
    <3>5. WalkKnows(access', slots', stamp', truly')
      BY <1>2, <2>1, <3>2, InCall DEF Knows, WalkKnows, BeforeWalk, InWalk, AccessRecords
    <3>6. AnswerTrue(access', truly')
      BY <1>2, <2>1, <3>1, <3>2, InCall DEF Knows, AnswerTrue, AccessRecords
    <3> QED
      BY <1>2, <2>1, <3>1, <3>2, <3>3, <3>4, <3>5, <3>6, MiddleKnows DEF AccessInv, Knows
<1> QED
  BY <1>1, <1>2 DEF ContainTarget, Proceeds, Goes, Answers

LEMMA LookAtRootKeeps == ASSUME AccessInv, AccessNext, LookAtRoot PROVE AccessInv'
<1>1. CASE Unavailable
  BY <1>1, UnavailableKeeps DEF LookAtRoot
<1>2. CASE /\ access' = [access EXCEPT !.at = "ancestor", !.facts = <<RootFact>>]
              /\ UNCHANGED <<slots, leaf, version, stamp>>
              /\ access.at = "root"
  <2>1. access' \in AccessRecords /\ access'.at # "idle"
    BY <1>2, InCall, LooksTyped DEF AccessInv, AccessRecords, AccessPlaces, InPin, InFile, InPromotion, BeforeWalk, InWalk
  <2>2. Len(access'.facts) = 1 /\ access'.facts[1] = <<"root", stamp["root"]>> /\ access'.at = "ancestor"
    BY <1>2, InCall, LooksTyped DEF AccessInv, Knows, WalkKnows, InWalk, Slots, RootFact
  <2> QED
    <3>1. access.at # "idle" /\ access'.at # "idle"
      BY <1>2, <2>1, <2>2
    <3>2. Knows(access, slots', version', stamp', truly') /\ access \in AccessRecords /\ access' \in AccessRecords
      BY <1>2, <2>1, <2>2, <3>1, MiddleKnows DEF AccessInv
    <3>3. HeldWasThere(access', truly') /\ FactWasThere(access', truly')
      BY <1>2, <2>1, <2>2, <3>1, <3>2, MiddleKnows, InCall DEF Knows, HeldWasThere, FactWasThere, InPin, InFile, InPromotion, AccessRecords
    <3>4. ReadInOrder(access', version')
      BY <1>2, <2>1, <2>2, <3>2, InCall DEF Knows, HeldWasThere, ReadInOrder, InFile, InPromotion, AccessRecords
    <3>5. WalkKnows(access', slots', stamp', truly')
      BY <1>2, <2>1, <2>2, <3>2, InCall DEF Knows, WalkKnows, BeforeWalk, InWalk, AccessRecords
    <3>6. AnswerTrue(access', truly')
      BY <1>2, <2>1, <2>2, <3>1, <3>2, InCall DEF Knows, AnswerTrue, AccessRecords
    <3> QED
      BY <1>2, <2>1, <2>2, <3>1, <3>2, <3>3, <3>4, <3>5, <3>6, MiddleKnows DEF AccessInv, Knows
<1> QED
  BY <1>1, <1>2 DEF LookAtRoot, Proceeds, Goes, Answers

LEMMA LookAtAncestorKeeps == ASSUME AccessInv, AccessNext, LookAtAncestor PROVE AccessInv'
<1>1. CASE Unavailable
  BY <1>1, UnavailableKeeps DEF LookAtAncestor
<1>2. CASE /\ access' = [access EXCEPT !.at = "rechecking"]
              /\ UNCHANGED <<slots, leaf, version, stamp>>
              /\ access.at = "ancestor"
              /\ slots["d"] = "none"
  <2>1. access' \in AccessRecords /\ access'.at # "idle"
    BY <1>2, InCall, LooksTyped DEF AccessInv, AccessRecords, AccessPlaces, InPin, InFile, InPromotion, BeforeWalk, InWalk
  <2>2. <<"absent">> \in truly'
    BY <1>2, <2>1, MiddleKnows, InCall DEF OrdinarilyAbsent
  <2> QED
    <3>1. access.at # "idle" /\ access'.at # "idle"
      BY <1>2, <2>1, <2>2
    <3>2. Knows(access, slots', version', stamp', truly') /\ access \in AccessRecords /\ access' \in AccessRecords
      BY <1>2, <2>1, <2>2, <3>1, MiddleKnows DEF AccessInv
    <3>3. HeldWasThere(access', truly') /\ FactWasThere(access', truly')
      BY <1>2, <2>1, <2>2, <3>2, InCall DEF Knows, HeldWasThere, FactWasThere, InPin, InFile, InPromotion, AccessRecords
    <3>4. ReadInOrder(access', version')
      BY <1>2, <2>1, <2>2, <3>2, InCall DEF Knows, HeldWasThere, ReadInOrder, InFile, InPromotion, AccessRecords
    <3>5. WalkKnows(access', slots', stamp', truly')
      BY <1>2, <2>1, <2>2, <3>2, InCall DEF Knows, WalkKnows, BeforeWalk, InWalk, AccessRecords
    <3>6. AnswerTrue(access', truly')
      BY <1>2, <2>1, <2>2, <3>1, <3>2, InCall DEF Knows, AnswerTrue, AccessRecords
    <3> QED
      BY <1>2, <2>1, <2>2, <3>1, <3>2, <3>3, <3>4, <3>5, <3>6, MiddleKnows DEF AccessInv, Knows
<1>3. CASE /\ access' = [access EXCEPT !.at = "following", !.facts = Append(@, EntryFact("d"))]
              /\ UNCHANGED <<slots, leaf, version, stamp>>
              /\ access.at = "ancestor"
              /\ slots["d"] \in LinkKinds
  <2> DEFINE longer == Append(access.facts, EntryFact("d"))
  <2>1. longer \in Seq(LookedAt) /\ Len(longer) = Len(access.facts) + 1 /\ (Len(access.facts) > 0 => longer[1] = access.facts[1])
    <3>1. EntryFact("d") \in LookedAt /\ access.facts \in Seq(LookedAt)
      BY LooksTyped, InCall DEF Slots
    <3> QED
      BY <3>1
  <2>2. access \in AccessRecords /\ access' = [access EXCEPT !.at = "following", !.facts = longer]
    BY <1>3 DEF AccessInv
  <2> HIDE DEF longer
  <2>3. access' \in AccessRecords /\ access'.at = "following" /\ access'.facts = longer
    BY <2>1, <2>2 DEF AccessRecords, AccessPlaces, InWalk
  <2>4. Len(access'.facts) = 2 /\ access'.facts[1] = access.facts[1]
    BY <1>3, <2>1, <2>3 DEF AccessInv, Knows, WalkKnows, InWalk
  <2> QED
    <3>1. access.at # "idle" /\ access'.at # "idle"
      BY <1>3, <2>2, <2>3, <2>4
    <3>2. Knows(access, slots', version', stamp', truly') /\ access \in AccessRecords /\ access' \in AccessRecords
      BY <1>3, <2>2, <2>3, <2>4, <3>1, MiddleKnows DEF AccessInv
    <3>3. HeldWasThere(access', truly') /\ FactWasThere(access', truly')
      BY <1>3, <2>2, <2>3, <2>4, <3>2, InCall DEF Knows, HeldWasThere, FactWasThere, InPin, InFile, InPromotion, AccessRecords
    <3>4. ReadInOrder(access', version')
      BY <1>3, <2>2, <2>3, <2>4, <3>2, InCall DEF Knows, HeldWasThere, ReadInOrder, InFile, InPromotion, AccessRecords
    <3>5. WalkKnows(access', slots', stamp', truly')
      BY <1>3, <2>2, <2>3, <2>4, <3>2, InCall DEF Knows, WalkKnows, BeforeWalk, InWalk, AccessRecords
    <3>6. AnswerTrue(access', truly')
      BY <1>3, <2>2, <2>3, <2>4, <3>1, <3>2, InCall DEF Knows, AnswerTrue, AccessRecords
    <3> QED
      BY <1>3, <2>2, <2>3, <2>4, <3>1, <3>2, <3>3, <3>4, <3>5, <3>6, MiddleKnows DEF AccessInv, Knows
<1>4. CASE /\ access' = [access EXCEPT !.at = "leaf", !.facts = Append(@, EntryFact("d"))]
              /\ UNCHANGED <<slots, leaf, version, stamp>>
              /\ access.at = "ancestor"
              /\ slots["d"] \in Directories
  <2> DEFINE longer == Append(access.facts, EntryFact("d"))
  <2>1. longer \in Seq(LookedAt) /\ Len(longer) = Len(access.facts) + 1 /\ (Len(access.facts) > 0 => longer[1] = access.facts[1])
    <3>1. EntryFact("d") \in LookedAt /\ access.facts \in Seq(LookedAt)
      BY LooksTyped, InCall DEF Slots
    <3> QED
      BY <3>1
  <2>2. access \in AccessRecords /\ access' = [access EXCEPT !.at = "leaf", !.facts = longer]
    BY <1>4 DEF AccessInv
  <2> HIDE DEF longer
  <2>3. access' \in AccessRecords /\ access'.at = "leaf" /\ access'.facts = longer
    BY <2>1, <2>2 DEF AccessRecords, AccessPlaces, InWalk
  <2>4. Len(access'.facts) = 2 /\ access'.facts[1] = access.facts[1]
    BY <1>4, <2>1, <2>3 DEF AccessInv, Knows, WalkKnows, InWalk
  <2> QED
    <3>1. access.at # "idle" /\ access'.at # "idle"
      BY <1>4, <2>2, <2>3, <2>4
    <3>2. Knows(access, slots', version', stamp', truly') /\ access \in AccessRecords /\ access' \in AccessRecords
      BY <1>4, <2>2, <2>3, <2>4, <3>1, MiddleKnows DEF AccessInv
    <3>3. HeldWasThere(access', truly') /\ FactWasThere(access', truly')
      BY <1>4, <2>2, <2>3, <2>4, <3>2, InCall DEF Knows, HeldWasThere, FactWasThere, InPin, InFile, InPromotion, AccessRecords
    <3>4. ReadInOrder(access', version')
      BY <1>4, <2>2, <2>3, <2>4, <3>2, InCall DEF Knows, HeldWasThere, ReadInOrder, InFile, InPromotion, AccessRecords
    <3>5. WalkKnows(access', slots', stamp', truly')
      BY <1>4, <2>2, <2>3, <2>4, <3>2, InCall DEF Knows, WalkKnows, BeforeWalk, InWalk, AccessRecords
    <3>6. AnswerTrue(access', truly')
      BY <1>4, <2>2, <2>3, <2>4, <3>1, <3>2, InCall DEF Knows, AnswerTrue, AccessRecords
    <3> QED
      BY <1>4, <2>2, <2>3, <2>4, <3>1, <3>2, <3>3, <3>4, <3>5, <3>6, MiddleKnows DEF AccessInv, Knows
<1>5. /\ access.at = "ancestor" /\ UNCHANGED <<slots, leaf, version, stamp>>
      /\ slots["d"] = "none" \/ slots["d"] \in LinkKinds \/ slots["d"] \in Directories
      /\ \A x \in Directories : x \notin LinkKinds /\ x # "none"
      /\ "none" \notin LinkKinds
  BY InCall DEF LookAtAncestor, Proceeds, SlotContents, Slots, Directories, LinkKinds
<1> QED
  BY <1>2, <1>3, <1>4, <1>5 DEF LookAtAncestor, Proceeds

LEMMA FollowAliasKeeps == ASSUME AccessInv, AccessNext, FollowAlias PROVE AccessInv'
<1>1. CASE Unavailable
  BY <1>1, UnavailableKeeps DEF FollowAlias
<1>2. CASE /\ access' = [access EXCEPT !.at = "leaf", !.facts = Append(@, EntryFact("e"))]
              /\ UNCHANGED <<slots, leaf, version, stamp>>
              /\ access.at = "following"
              /\ slots["d"] = "alias"
              /\ slots["e"] \in Directories
  <2> DEFINE longer == Append(access.facts, EntryFact("e"))
  <2>1. longer \in Seq(LookedAt) /\ Len(longer) = Len(access.facts) + 1 /\ (Len(access.facts) > 0 => longer[1] = access.facts[1])
    <3>1. EntryFact("e") \in LookedAt /\ access.facts \in Seq(LookedAt)
      BY LooksTyped, InCall DEF Slots
    <3> QED
      BY <3>1
  <2>2. access \in AccessRecords /\ access' = [access EXCEPT !.at = "leaf", !.facts = longer]
    BY <1>2 DEF AccessInv
  <2> HIDE DEF longer
  <2>3. access' \in AccessRecords /\ access'.at = "leaf" /\ access'.facts = longer
    BY <2>1, <2>2 DEF AccessRecords, AccessPlaces, InWalk
  <2>4. Len(access'.facts) = 3 /\ access'.facts[1] = access.facts[1]
    <3>1. Len(access.facts) = 2
      BY <1>2 DEF AccessInv, Knows, WalkKnows
    <3> QED
      BY <2>1, <2>3, <3>1
  <2> QED
    <3>1. access.at # "idle" /\ access'.at # "idle"
      BY <1>2, <2>2, <2>3, <2>4
    <3>2. Knows(access, slots', version', stamp', truly') /\ access \in AccessRecords /\ access' \in AccessRecords
      BY <1>2, <2>2, <2>3, <2>4, <3>1, MiddleKnows DEF AccessInv
    <3>3. HeldWasThere(access', truly') /\ FactWasThere(access', truly')
      BY <1>2, <2>2, <2>3, <2>4, <3>2, InCall DEF Knows, HeldWasThere, FactWasThere, InPin, InFile, InPromotion, AccessRecords
    <3>4. ReadInOrder(access', version')
      BY <1>2, <2>2, <2>3, <2>4, <3>2, InCall DEF Knows, HeldWasThere, ReadInOrder, InFile, InPromotion, AccessRecords
    <3>5. WalkKnows(access', slots', stamp', truly')
      BY <1>2, <2>2, <2>3, <2>4, <3>2, InCall DEF Knows, WalkKnows, BeforeWalk, InWalk, AccessRecords
    <3>6. AnswerTrue(access', truly')
      BY <1>2, <2>2, <2>3, <2>4, <3>1, <3>2, InCall DEF Knows, AnswerTrue, AccessRecords
    <3> QED
      BY <1>2, <2>2, <2>3, <2>4, <3>1, <3>2, <3>3, <3>4, <3>5, <3>6, MiddleKnows DEF AccessInv, Knows
<1>3. CASE /\ access' = [access EXCEPT !.at = "leaf"]
              /\ UNCHANGED <<slots, leaf, version, stamp>>
              /\ access.at = "following"
              /\ slots["d"] \in Directories
  <2>1. access' \in AccessRecords /\ access'.at # "idle"
    BY <1>3, InCall, LooksTyped DEF AccessInv, AccessRecords, AccessPlaces, InPin, InFile, InPromotion, BeforeWalk, InWalk
  <2> QED
    <3>1. access.at # "idle" /\ access'.at # "idle"
      BY <1>3, <2>1
    <3>2. Knows(access, slots', version', stamp', truly') /\ access \in AccessRecords /\ access' \in AccessRecords
      BY <1>3, <2>1, <3>1, MiddleKnows DEF AccessInv
    <3>3. HeldWasThere(access', truly') /\ FactWasThere(access', truly')
      BY <1>3, <2>1, <3>2, InCall DEF Knows, HeldWasThere, FactWasThere, InPin, InFile, InPromotion, AccessRecords
    <3>4. ReadInOrder(access', version')
      BY <1>3, <2>1, <3>2, InCall DEF Knows, HeldWasThere, ReadInOrder, InFile, InPromotion, AccessRecords
    <3>5. WalkKnows(access', slots', stamp', truly')
      BY <1>3, <2>1, <3>2, InCall DEF Knows, WalkKnows, BeforeWalk, InWalk, AccessRecords
    <3>6. AnswerTrue(access', truly')
      BY <1>3, <2>1, <3>1, <3>2, InCall DEF Knows, AnswerTrue, AccessRecords
    <3> QED
      BY <1>3, <2>1, <3>1, <3>2, <3>3, <3>4, <3>5, <3>6, MiddleKnows DEF AccessInv, Knows
<1> QED
  BY <1>1, <1>2, <1>3 DEF FollowAlias, Proceeds, Goes, Answers, IsDirectory

LEMMA LookAtLeafKeeps == ASSUME AccessInv, AccessNext, LookAtLeaf PROVE AccessInv'
<1>1. CASE Unavailable
  BY <1>1, UnavailableKeeps DEF LookAtLeaf
<1>2. CASE /\ access' = [access EXCEPT !.at = "rechecking"]
              /\ UNCHANGED <<slots, leaf, version, stamp>>
              /\ access.at = "leaf"
              /\ ~LeafExists
  <2>1. access' \in AccessRecords /\ access'.at # "idle"
    BY <1>2, InCall DEF AccessInv, AccessRecords, AccessPlaces, InPin, InFile, InPromotion, BeforeWalk, InWalk
  <2>2. access.facts[1][2] = stamp["root"] => <<"absent">> \in truly'
    <3>1. access.facts[1][2] = stamp["root"] =>
             \/ slots["d"] \in Directories
             \/ slots["d"] = "alias" /\ slots["e"] \in Directories
      BY <1>2 DEF AccessInv, Knows, WalkKnows
    <3>2. (slots["d"] \in Directories \/ (slots["d"] = "alias" /\ slots["e"] \in Directories)) => OrdinarilyAbsent
      BY <1>2 DEF LeafExists, ThroughAlias, IsDirectory, OrdinarilyAbsent, Directories
    <3>3. OrdinarilyAbsent => <<"absent">> \in truly'
      BY <1>2, <2>1, MiddleKnows
    <3> QED
      BY <3>1, <3>2, <3>3
  <2> QED
    <3>1. access.at # "idle" /\ access'.at # "idle"
      BY <1>2, <2>1, <2>2
    <3>2. Knows(access, slots', version', stamp', truly') /\ access \in AccessRecords /\ access' \in AccessRecords
      BY <1>2, <2>1, <2>2, <3>1, MiddleKnows DEF AccessInv
    <3>3. HeldWasThere(access', truly') /\ FactWasThere(access', truly')
      BY <1>2, <2>1, <2>2, <3>2, InCall DEF Knows, HeldWasThere, FactWasThere, InPin, InFile, InPromotion, AccessRecords
    <3>4. ReadInOrder(access', version')
      BY <1>2, <2>1, <2>2, <3>2, InCall DEF Knows, HeldWasThere, ReadInOrder, InFile, InPromotion, AccessRecords
    <3>5. WalkKnows(access', slots', stamp', truly')
      BY <1>2, <2>1, <2>2, <3>2, InCall DEF Knows, WalkKnows, BeforeWalk, InWalk, AccessRecords
    <3>6. AnswerTrue(access', truly')
      BY <1>2, <2>1, <2>2, <3>1, <3>2, InCall DEF Knows, AnswerTrue, AccessRecords
    <3> QED
      BY <1>2, <2>1, <2>2, <3>1, <3>2, <3>3, <3>4, <3>5, <3>6, MiddleKnows DEF AccessInv, Knows
<1> QED
  BY <1>1, <1>2 DEF LookAtLeaf, Proceeds, Goes, Answers

LEMMA RecheckAncestorKeeps == ASSUME AccessInv, AccessNext, RecheckAncestor PROVE AccessInv'
<1>1. CASE Unavailable
  BY <1>1, UnavailableKeeps DEF RecheckAncestor
<1>2. CASE /\ access' = [access EXCEPT !.half = access.half + 1, !.at = IF access.half + 1 = Len(access.facts) THEN "last" ELSE access.at]
              /\ UNCHANGED <<slots, leaf, version, stamp>>
              /\ access.at = "rechecking"
              /\ access.facts[access.half + 1] = FactNow(access.half + 1)
  <2>1. access' \in AccessRecords /\ access'.at \in {"rechecking", "last"} /\ access.half + 1 \in Nat \ {0}
    <3>1. access \in AccessRecords /\ access.half + 1 \in Nat \ {0}
      BY InCall DEF AccessInv
    <3> DEFINE place == IF access.half + 1 = Len(access.facts) THEN "last" ELSE access.at
    <3>2. place \in {"rechecking", "last"}
      BY <1>2
    <3>3. access' = [access EXCEPT !.half = access.half + 1, !.at = place]
      BY <1>2
    <3> HIDE DEF place
    <3> QED
      BY <3>1, <3>2, <3>3 DEF AccessRecords, AccessPlaces
  <2>2. <<"absent">> \in truly'
    <3>1. CASE access.half = 0
      BY <1>2, <2>1, <3>1, MiddleKnows DEF Knows, WalkKnows, FactNow, RootFact
    <3>2. CASE access.half # 0
      BY <1>2, <2>1, <3>2, MiddleKnows DEF Knows, WalkKnows
    <3> QED
      BY <3>1, <3>2
  <2> QED
    <3>1. access.at # "idle" /\ access'.at # "idle"
      BY <1>2, <2>1, <2>2
    <3>2. Knows(access, slots', version', stamp', truly') /\ access \in AccessRecords /\ access' \in AccessRecords
      BY <1>2, <2>1, <2>2, <3>1, MiddleKnows DEF AccessInv
    <3>3. HeldWasThere(access', truly') /\ FactWasThere(access', truly')
      BY <1>2, <2>1, <2>2, <3>2, InCall DEF Knows, HeldWasThere, FactWasThere, InPin, InFile, InPromotion, AccessRecords
    <3>4. ReadInOrder(access', version')
      BY <1>2, <2>1, <2>2, <3>2, InCall DEF Knows, HeldWasThere, ReadInOrder, InFile, InPromotion, AccessRecords
    <3>5. WalkKnows(access', slots', stamp', truly')
      BY <1>2, <2>1, <2>2, <3>2, InCall DEF Knows, WalkKnows, BeforeWalk, InWalk, AccessRecords
    <3>6. AnswerTrue(access', truly')
      BY <1>2, <2>1, <2>2, <3>1, <3>2, InCall DEF Knows, AnswerTrue, AccessRecords
    <3> QED
      BY <1>2, <2>1, <2>2, <3>1, <3>2, <3>3, <3>4, <3>5, <3>6, MiddleKnows DEF AccessInv, Knows
<1> QED
  BY <1>1, <1>2 DEF RecheckAncestor, Proceeds, Goes, Answers

LEMMA LastLookKeeps == ASSUME AccessInv, AccessNext, LastLook PROVE AccessInv'
<1>1. CASE Unavailable
  BY <1>1, UnavailableKeeps DEF LastLook
<1>2. CASE /\ access' = [access EXCEPT !.at = "answered", !.answer = "missing"]
              /\ UNCHANGED <<slots, leaf, version, stamp>>
              /\ access.at = "last"
  <2>1. access' \in AccessRecords /\ access'.at # "idle"
    BY <1>2, InCall DEF AccessInv, AccessRecords, AccessPlaces, InPin, InFile, InPromotion, BeforeWalk, InWalk
  <2> QED
    <3>1. access.at # "idle" /\ access'.at # "idle"
      BY <1>2, <2>1
    <3>2. Knows(access, slots', version', stamp', truly') /\ access \in AccessRecords /\ access' \in AccessRecords
      BY <1>2, <2>1, <3>1, MiddleKnows DEF AccessInv
    <3>3. HeldWasThere(access', truly') /\ FactWasThere(access', truly')
      BY <1>2, <2>1, <3>1, <3>2, MiddleKnows, InCall DEF Knows, HeldWasThere, FactWasThere, InPin, InFile, InPromotion, AccessRecords
    <3>4. ReadInOrder(access', version')
      BY <1>2, <2>1, <3>2, InCall DEF Knows, HeldWasThere, ReadInOrder, InFile, InPromotion, AccessRecords
    <3>5. WalkKnows(access', slots', stamp', truly')
      BY <1>2, <2>1, <3>2, InCall DEF Knows, WalkKnows, BeforeWalk, InWalk, AccessRecords
    <3>6. AnswerTrue(access', truly')
      BY <1>2, <2>1, <3>1, <3>2, InCall DEF Knows, HeldWasThere, ReadInOrder, WalkKnows, AnswerTrue, AccessRecords
    <3> QED
      BY <1>2, <2>1, <3>1, <3>2, <3>3, <3>4, <3>5, <3>6, MiddleKnows DEF AccessInv, Knows
<1> QED
  BY <1>1, <1>2 DEF LastLook, Proceeds, Goes, Answers

(* The strengthened invariant holds of every run. *)
THEOREM AccessInvariance == AccessSpec => []AccessInv
<1>1. AccessInit => AccessInv
  BY AccessAssumption, IdleKnows DEF AccessInit, AccessInv, TreeTyped, TreeOf, SlotContents, Files, Knows
<1>2. AccessInv /\ [AccessNext]_accessVars => AccessInv'
  <2>1. ASSUME AccessInv, AccessNext PROVE AccessInv'
    <3>1. CASE EndAccess
      BY <2>1, <3>1, IdleKnows DEF EndAccess, Proceeds, AccessInv, TreeTyped
    <3> QED
      BY <2>1, <3>1, EditsKeep, BeginsKeep, ResolveNoteKeeps, VerifyFirstKeeps, RecallFactKeeps, PinDirectoryKeeps,
         OpenNoteKeeps, ReadBeginsKeeps, ReadEndsKeeps, ConfirmReadKeeps, PinExactlyKeeps, ListExactlyKeeps,
         OpenPromotedKeeps, ReadPromotedKeeps, ConfirmPromotedKeeps, ResolveTargetKeeps, ContainTargetKeeps,
         LookAtRootKeeps, LookAtAncestorKeeps, FollowAliasKeeps, LookAtLeafKeeps, RecheckAncestorKeeps, LastLookKeeps
         DEF AccessNext, AccessStep
  <2>2. CASE UNCHANGED accessVars
    BY <2>2 DEF accessVars, AccessInv, TreeTyped
  <2> QED
    BY <2>1, <2>2
<1> QED
  BY <1>1, <1>2, PTL DEF AccessSpec

(* Whatever is rearranged during a read: a text is one version of one note, read
   from a directory that was at its path, under a fact the very text of that
   path, and a note is reported missing only if it was ordinarily absent. *)
THEOREM ReadsAreTruthful == AccessSpec => []AccessTruthful
<1>1. AccessInv => AccessTruthful
  BY DEF AccessInv, Knows, AnswerTrue, AccessTruthful
<1> QED
  BY <1>1, AccessInvariance, PTL

-----------------------------------------------------------------------------
(* HygieneScan: absence claimed over a vault that is edited meanwhile.     *)

(* The least-number principle, as a fact about sets. *)
LEMMA LeastNat ==
    ASSUME NEW S, S \subseteq Nat, S # {}
    PROVE  \E m \in S : \A k \in S : m <= k
<1> DEFINE Less == {x \in Nat \X Nat : x[1] < x[2]}
<1>1. Less = OpToRel(<, Nat)
  BY DEF OpToRel
<1>w. IsWellFoundedOn(Less, Nat)
  BY <1>1, NatLessThanWellFounded
<1>2. PICK m \in S : \A k \in S : ~(<<k, m>> \in Less)
  <2> HIDE DEF Less
  <2> QED
    BY <1>w, WFMin, Zenon
<1>3. ASSUME NEW k \in S PROVE m <= k
  <2>1. ~(k < m)
    BY <1>2 DEF Less
  <2> QED
    BY <2>1
<1> QED
  BY <1>3

(* The smallest spelling of a set exists, whatever the set. *)
LEMMA SmallestIsIn ==
    ASSUME NEW S, S \subseteq Spellings, S # {}
    PROVE  Smallest(S) \in S
<1> DEFINE places == {PlaceOf[s] : s \in S}
<1>1. places \subseteq Nat /\ places # {}
  BY HygieneAssumption
<1>2. PICK m \in places : \A k \in places : m <= k
  <2> HIDE DEF places
  <2> QED
    BY <1>1, LeastNat
<1>3. \E s \in S : \A t \in S : PlaceOf[s] <= PlaceOf[t]
  BY <1>2
<1> QED
  BY <1>3 DEF Smallest

(* The shape of the state: the history and the scan are records, and what is
   walked over is spellings. *)
ScanPlaces == {"enumerating", "reading", "deriving", "verifying", "duplicates", "answered"}

EntrySeen(e) ==
    /\ e.stamp \in Nat /\ e.stamp <= truth.edits
    /\ e.kind = "alias" => e.to \in Spellings \cup {"outside"}

HygieneShaped ==
    /\ vault = [s \in Spellings |-> vault[s]] /\ \A s \in Spellings : EntrySeen(vault[s])
    /\ scan = [at |-> scan.at, todo |-> scan.todo, facts |-> scan.facts, cands |-> scan.cands, unsafe |-> scan.unsafe,
               reasons |-> scan.reasons, note |-> scan.note, live |-> scan.live, read |-> scan.read,
               edges |-> scan.edges, found |-> scan.found, pairs |-> scan.pairs, lost |-> scan.lost, late |-> scan.late]
    /\ truth = [edits |-> truth.edits, then |-> truth.then, looked |-> truth.looked, born |-> truth.born]
    /\ truth.edits \in Nat /\ scan.at \in ScanPlaces
    /\ scan.at \in {"enumerating", "reading", "deriving"} => scan.todo \subseteq Spellings

(* A fact that still holds is about the entry that stood when the enumeration
   ended: whatever is put in its place later has a later stamp. *)
StandsAsThen(s, fact) ==
    /\ fact.kind # "absent" /\ fact.stamp \in Nat /\ fact.stamp <= truth.edits
    /\ scan.at # "enumerating" /\ vault[s].kind = fact.kind /\ vault[s].stamp = fact.stamp => vault[s] = truth.then[s]

FactsKnown ==
    \A p \in DOMAIN scan.facts : p \in Spellings /\ scan.facts[p].kind = "note" /\ StandsAsThen(p, scan.facts[p])

CandsKnown ==
    \A c \in scan.cands :
       /\ c.spelling \in Spellings /\ c.canonical \in DOMAIN scan.facts
       /\ <<c.spelling, c.canonical>> \in truth.looked /\ StandsAsThen(c.spelling, c.fact)

(* Each spelling is looked at once, and what a complete walk found is kept. *)
LooksKnown ==
    /\ \A x \in truth.looked :
          x[1] \in Spellings /\ x[2] \in Spellings \cup {"none"} /\ (scan.at = "enumerating" => x[1] \notin scan.todo)
    /\ \A x, y \in truth.looked : x[1] = y[1] => x[2] = y[2]
    /\ scan.reasons = {} => \A x \in truth.looked : x[2] # "none" =>
          \E c \in scan.cands : c.spelling = x[1] /\ c.canonical = x[2]

(* A note that existed all along was met by the walk. *)
BornKnown ==
    \A n \in Spellings : n \notin truth.born =>
       /\ IsNote(vault, n) <=> IsNote(truth.then, n)
       /\ IsNote(truth.then, n) /\ (scan.at = "enumerating" => n \notin scan.todo) => <<n, n>> \in truth.looked

(* What was read is the text of then, and whoever is not live gave a reason. *)
ReadsKnown ==
    /\ scan.live \subseteq DOMAIN scan.read /\ DOMAIN scan.read \subseteq DOMAIN scan.facts
    /\ \A p \in DOMAIN scan.read : IsNote(truth.then, p) /\ scan.read[p] = truth.then[p].body
    /\ scan.lost # {} => scan.reasons # {}
    /\ scan.at = "enumerating" => DOMAIN scan.read = {}
    /\ scan.at \in {"reading", "deriving"} =>
          scan.todo \subseteq DOMAIN scan.facts /\ DOMAIN scan.facts \subseteq scan.todo \cup scan.live \cup scan.lost
    /\ scan.at \in {"verifying", "duplicates", "answered"} => DOMAIN scan.facts \subseteq scan.live \cup scan.lost
    /\ scan.at = "deriving" => scan.note \in DOMAIN scan.read

(* Without a reason, every link of a note that was derived is an edge. *)
StoodThen(c) ==
    LET e == truth.then[c.spelling]
    IN IF e.kind = "note" THEN c.canonical = c.spelling
       ELSE e.kind = "alias" /\ e.to # "outside" /\ e.to = c.canonical

LinkKept(n, l) ==
    IF l[1] = "name"
    THEN /\ \A c \in scan.cands : NameOf[c.spelling] = l[2] => StoodThen(c)
         /\ \A p \in Spellings : (\E c \in scan.cands : NameOf[c.spelling] = l[2])
                                 /\ (\A c \in scan.cands : NameOf[c.spelling] = l[2] => c.canonical = p)
                                 => <<n, p>> \in scan.edges
    ELSE \A c \in scan.cands : c.spelling = l[2] => <<n, c.canonical>> \in scan.edges

DerivedKnown ==
    scan.reasons = {} =>
       \A n \in DOMAIN scan.read : (scan.at = "deriving" => n # scan.note) =>
          \A l \in scan.read[n].links : LinkKept(n, l)

(* What a verdict claims of the vault of then, and that every verdict is true. *)
IsolatedThen(p) == IsNote(truth.then, p) /\ \A n \in NotesThen : ~LinksThen(n, p) /\ ~LinksThen(p, n)

CollidedThen(p, k) ==
    \E q \in Spellings \ {p} : IsNote(truth.then, q) /\ truth.then[q].body.key = k /\ truth.then[p].body.key = k

Judged == scan.at \in {"duplicates", "answered"}

ClaimsTrue ==
    /\ ~Judged => \A f \in scan.found : f[1] \notin {"isolated", "colliding"}
    /\ Judged => \A p \in Spellings : <<"isolated", p, "">> \in scan.found => IsolatedThen(p)
    /\ Judged => \A p \in Spellings : \A k : <<"colliding", p, k>> \in scan.found => CollidedThen(p, k)

(* The strengthened invariant. *)
HygieneInv ==
    /\ HygieneShaped /\ FactsKnown /\ CandsKnown /\ LooksKnown
    /\ BornKnown /\ ReadsKnown /\ DerivedKnown /\ ClaimsTrue

(* An entry put in place bears the stamp of the edit. *)
LEMMA EntriesAre ==
    ASSUME NEW n, NEW e \in Entries(n)
    PROVE  /\ (e.kind = "absent" /\ e.stamp = 0) \/ (e.kind # "absent" /\ e.stamp = n)
           /\ e.kind = "alias" => e.to \in Spellings \cup {"outside"}
<1>1. CASE e = Nothing
  BY <1>1 DEF Nothing
<1>2. ASSUME NEW b, e = Entry("note", "nowhere", b, n)
      PROVE  e.kind = "note" /\ e.stamp = n
  BY <1>2 DEF Entry
<1>3. ASSUME NEW to \in Spellings \cup {"outside"}, e = Entry("alias", to, Nothing.body, n)
      PROVE  e.kind = "alias" /\ e.stamp = n /\ e.to = to
  BY <1>3 DEF Entry
<1> QED
  BY <1>1, <1>2, <1>3 DEF Entries

(* The scan begins with the invariant. *)
LEMMA HygieneStart == HygieneInit => HygieneInv
<1> SUFFICES ASSUME HygieneInit PROVE HygieneInv
  OBVIOUS
<1>1. HygieneShaped
  <2>1. \A s \in Spellings : EntrySeen(vault[s])
    <3>1. truth.edits = 0 /\ \A s \in Spellings : vault[s] \in Entries(0)
      BY DEF HygieneInit
    <3> QED
      BY <3>1, EntriesAre DEF EntrySeen
  <2>2. vault = [s \in Spellings |-> vault[s]]
    BY DEF HygieneInit
  <2> QED
    BY <2>1, <2>2 DEF HygieneInit, HygieneShaped, ScanPlaces
<1>2. DOMAIN scan.facts = {} /\ DOMAIN scan.read = {} /\ scan.cands = {} /\ truth.looked = {} /\ scan.found = {}
      /\ scan.live = {} /\ scan.lost = {} /\ scan.at = "enumerating" /\ scan.todo = Spellings /\ truth.then = vault
  <2>1. scan.facts = <<>> /\ scan.read = <<>>
    BY DEF HygieneInit
  <2>2. DOMAIN scan.facts = {} /\ DOMAIN scan.read = {}
    BY <2>1
  <2>3. scan.cands = {} /\ scan.found = {} /\ scan.live = {} /\ scan.lost = {} /\ scan.at = "enumerating" /\ scan.todo = Spellings
    BY DEF HygieneInit
  <2>4. truth.looked = {} /\ truth.then = vault
    BY DEF HygieneInit
  <2> QED
    BY <2>2, <2>3, <2>4
<1>3. FactsKnown /\ CandsKnown /\ LooksKnown
  BY <1>2 DEF FactsKnown, CandsKnown, LooksKnown
<1>4. BornKnown
  BY <1>2 DEF BornKnown
<1>5. ReadsKnown /\ DerivedKnown /\ ClaimsTrue
  BY <1>2 DEF ReadsKnown, DerivedKnown, ClaimsTrue, Judged
<1> QED
  BY <1>1, <1>3, <1>4, <1>5 DEF HygieneInv

(* What depends on the vault of then only survives every edit of the vault. *)
LEMMA EditsKeepThen ==
    ASSUME HygieneInv, scan' = scan, truth'.then = truth.then, truth'.looked = truth.looked
    PROVE  ReadsKnown' /\ DerivedKnown' /\ ClaimsTrue'
<1>1. ReadsKnown'
  BY DEF HygieneInv, ReadsKnown, IsNote
<1>2. DerivedKnown'
  BY DEF HygieneInv, DerivedKnown, LinkKept, StoodThen
<1>3. ClaimsTrue'
  <2>1. \A p : IsolatedThen(p) <=> IsolatedThen(p)'
    BY DEF IsolatedThen, IsNote, NotesThen, LinksThen, Known, CanonicalIn
  <2>2. \A p, k : CollidedThen(p, k) <=> CollidedThen(p, k)'
    BY DEF CollidedThen, IsNote
  <2> QED
    BY <2>1, <2>2 DEF HygieneInv, ClaimsTrue, Judged
<1> QED
  BY <1>1, <1>2, <1>3

(* Whatever an editor puts in place has a stamp no fact was taken under. *)
LEMMA EditKeeps == ASSUME HygieneInv, NEW s \in Spellings, EditVault(s) PROVE HygieneInv'
<1>1. PICK e \in Entries(truth.edits + 1) :
         /\ vault' = [vault EXCEPT ![s] = e]
         /\ truth' = [truth EXCEPT !.edits = @ + 1,
                         !.born = IF e.kind = "note" /\ vault[s].kind = "note" THEN @ ELSE @ \cup {s}]
         /\ scan' = scan
  BY DEF EditVault
<1>2. /\ (e.kind = "absent" /\ e.stamp = 0) \/ (e.kind # "absent" /\ e.stamp = truth.edits + 1)
      /\ e.kind = "alias" => e.to \in Spellings \cup {"outside"}
  BY EntriesAre
<1>3. /\ truth.edits \in Nat /\ truth'.edits = truth.edits + 1
      /\ truth'.then = truth.then /\ truth'.looked = truth.looked
      /\ truth'.born = IF e.kind = "note" /\ vault[s].kind = "note" THEN truth.born ELSE truth.born \cup {s}
  BY <1>1 DEF HygieneInv, HygieneShaped
<1>4. vault'[s] = e /\ \A t \in Spellings : t # s => vault'[t] = vault[t]
  BY <1>1 DEF HygieneInv, HygieneShaped
<1>5. HygieneShaped'
  <2>1. vault' = [t \in Spellings |-> vault'[t]] /\ truth' = [edits |-> truth'.edits, then |-> truth'.then, looked |-> truth'.looked, born |-> truth'.born]
    BY <1>1 DEF HygieneInv, HygieneShaped
  <2>2. ASSUME NEW t \in Spellings PROVE EntrySeen(vault[t])'
    BY <1>2, <1>3, <1>4 DEF HygieneInv, HygieneShaped, EntrySeen
  <2> QED
    BY <1>1, <1>3, <2>1, <2>2 DEF HygieneInv, HygieneShaped
<1>6. ASSUME NEW t \in Spellings, NEW fact, StandsAsThen(t, fact) PROVE StandsAsThen(t, fact)'
  BY <1>1, <1>2, <1>3, <1>4, <1>6 DEF StandsAsThen
<1>7. FactsKnown' /\ CandsKnown' /\ LooksKnown'
  BY <1>1, <1>3, <1>6 DEF HygieneInv, FactsKnown, CandsKnown, LooksKnown
<1>8. BornKnown'
  BY <1>1, <1>3, <1>4 DEF HygieneInv, BornKnown, IsNote
<1> QED
  BY <1>1, <1>3, <1>5, <1>7, <1>8, EditsKeepThen DEF HygieneInv

(* What a spelling denotes is a note, and a note denotes itself. *)
LEMMA CanonicalIs ==
    ASSUME HygieneShaped, NEW s \in Spellings
    PROVE  /\ CanonicalIn(vault, s) \in Spellings \cup {"none"}
           /\ CanonicalIn(vault, s) # "none" => IsNote(vault, CanonicalIn(vault, s)) /\ vault[s].kind # "absent"
           /\ IsNote(vault, s) => CanonicalIn(vault, s) = s
  BY DEF HygieneShaped, EntrySeen, CanonicalIn, IsNote

(* A step of the walk: a spelling leaves the list, and is noted as looked at. *)
WalkStep(s, facts, cands, unsafe, reasons) ==
    /\ vault' = vault /\ truth' = [truth EXCEPT !.looked = @ \cup {<<s, CanonicalIn(vault, s)>>}]
    /\ scan.reasons \subseteq reasons
    /\ scan' = [scan EXCEPT !.todo = @ \ {s}, !.facts = facts, !.cands = cands, !.unsafe = unsafe, !.reasons = reasons]
FactsFit(facts) ==
    \A p \in DOMAIN facts : p \in Spellings /\ facts[p].kind = "note" /\ facts[p].stamp \in Nat /\ facts[p].stamp <= truth.edits
CandsFit(s, facts, cands) ==
    \A c \in cands :
       \/ c \in scan.cands /\ c.canonical \in DOMAIN facts
       \/ /\ c.spelling = s /\ c.canonical = CanonicalIn(vault, s) /\ c.canonical \in DOMAIN facts
          /\ c.fact.kind # "absent" /\ c.fact.stamp \in Nat /\ c.fact.stamp <= truth.edits
NothingDropped(s, cands, reasons) ==
    reasons = {} => /\ \A c \in scan.cands : c \in cands
                    /\ CanonicalIn(vault, s) # "none" => \E c \in cands : c.spelling = s /\ c.canonical = CanonicalIn(vault, s)

LEMMA WalkKeeps ==
    ASSUME HygieneInv, scan.at = "enumerating", NEW s \in scan.todo, vault[s].kind # "absent",
           NEW facts, NEW cands, NEW unsafe, NEW reasons, WalkStep(s, facts, cands, unsafe, reasons),
           FactsFit(facts), CandsFit(s, facts, cands), NothingDropped(s, cands, reasons)
    PROVE  HygieneInv'
<1> USE DEF WalkStep, FactsFit, CandsFit, NothingDropped
<1> DEFINE canonical == CanonicalIn(vault, s)
<1>1. /\ scan'.at = "enumerating" /\ scan'.todo = scan.todo \ {s} /\ scan'.facts = facts /\ scan'.cands = cands
      /\ scan'.reasons = reasons /\ UNCHANGED <<scan.live, scan.read, scan.found, scan.lost, scan.note, scan.edges>>
  BY DEF HygieneInv, HygieneShaped
<1>2. /\ truth'.looked = truth.looked \cup {<<s, canonical>>}
      /\ UNCHANGED <<truth.then, truth.born, truth.edits>>
  BY DEF HygieneInv, HygieneShaped
<1>3. s \in Spellings
  BY DEF HygieneInv, HygieneShaped
<1>4. /\ canonical \in Spellings \cup {"none"} /\ (IsNote(vault, s) => canonical = s)
  BY <1>3, CanonicalIs DEF HygieneInv
<1> HIDE DEF canonical
<1>5. HygieneShaped'
  <2>1. scan' = [at |-> scan'.at, todo |-> scan'.todo, facts |-> scan'.facts, cands |-> scan'.cands, unsafe |-> scan'.unsafe,
               reasons |-> scan'.reasons, note |-> scan'.note, live |-> scan'.live, read |-> scan'.read,
               edges |-> scan'.edges, found |-> scan'.found, pairs |-> scan'.pairs, lost |-> scan'.lost, late |-> scan'.late]
    BY DEF HygieneInv, HygieneShaped
  <2>2. truth' = [edits |-> truth'.edits, then |-> truth'.then, looked |-> truth'.looked, born |-> truth'.born]
    BY DEF HygieneInv, HygieneShaped
  <2> QED
    BY <1>1, <1>2, <2>1, <2>2 DEF HygieneInv, HygieneShaped, EntrySeen
<1>6. FactsKnown'
  BY <1>1, <1>2 DEF FactsKnown, StandsAsThen
<1>7. CandsKnown'
  <2> SUFFICES ASSUME NEW c \in cands
               PROVE  /\ c.spelling \in Spellings /\ c.canonical \in DOMAIN facts
                      /\ <<c.spelling, c.canonical>> \in truth.looked \cup {<<s, canonical>>} /\ StandsAsThen(c.spelling, c.fact)'
    BY <1>1, <1>2 DEF CandsKnown
  <2>1. CASE c \in scan.cands /\ c.canonical \in DOMAIN facts
    BY <1>1, <1>2, <2>1 DEF HygieneInv, CandsKnown, StandsAsThen
  <2>2. CASE c.spelling = s /\ c.canonical = CanonicalIn(vault, s)
    BY <1>1, <1>2, <1>3, <2>2 DEF StandsAsThen, canonical, HygieneInv, CandsKnown
  <2> QED
    BY <2>1, <2>2
<1>8. LooksKnown'
  <2>1. \A x \in truth'.looked : x[1] \in Spellings /\ x[2] \in Spellings \cup {"none"} /\ x[1] \notin scan'.todo
    BY <1>1, <1>2, <1>3, <1>4 DEF HygieneInv, LooksKnown
  <2>2. \A x, y \in truth'.looked : x[1] = y[1] => x[2] = y[2]
    BY <1>2 DEF HygieneInv, LooksKnown
  <2>3. reasons = {} => \A x \in truth'.looked : x[2] # "none" => \E c \in cands : c.spelling = x[1] /\ c.canonical = x[2]
    BY <1>2 DEF HygieneInv, LooksKnown, canonical
  <2> QED
    BY <1>1, <2>1, <2>2, <2>3 DEF LooksKnown
<1>9. BornKnown'
  <2> SUFFICES ASSUME NEW n \in Spellings, n \notin truth.born
               PROVE  /\ IsNote(vault, n) <=> IsNote(truth.then, n)
                      /\ IsNote(truth.then, n) /\ n \notin scan.todo \ {s} => <<n, n>> \in truth.looked \cup {<<s, canonical>>}
    BY <1>1, <1>2 DEF BornKnown, IsNote
  <2> QED
    BY <1>4 DEF HygieneInv, BornKnown
<1>10. ReadsKnown' /\ DerivedKnown' /\ ClaimsTrue'
  <2>1. DOMAIN scan.read = {} /\ scan.live = {}
    BY DEF HygieneInv, ReadsKnown
  <2>2. ReadsKnown'
    BY <1>1, <2>1 DEF HygieneInv, ReadsKnown
  <2>3. DerivedKnown'
    BY <1>1, <2>1 DEF DerivedKnown
  <2>4. ClaimsTrue'
    BY <1>1 DEF HygieneInv, ClaimsTrue, Judged
  <2> QED
    BY <2>2, <2>3, <2>4
<1> QED
  BY <1>5, <1>6, <1>7, <1>8, <1>9, <1>10 DEF HygieneInv

(* The walk keeps what it finds, or says that it did not. *)
LEMMA DiscoverKeeps == ASSUME HygieneInv, NEW s \in Spellings, Discover(s) PROVE HygieneInv'
<1> DEFINE canonical == CanonicalIn(vault, s)
<1>1. /\ scan.at = "enumerating" /\ s \in scan.todo /\ vault' = vault
      /\ scan = [at |-> scan.at, todo |-> scan.todo, facts |-> scan.facts, cands |-> scan.cands, unsafe |-> scan.unsafe,
                 reasons |-> scan.reasons, note |-> scan.note, live |-> scan.live, read |-> scan.read,
                 edges |-> scan.edges, found |-> scan.found, pairs |-> scan.pairs, lost |-> scan.lost, late |-> scan.late]
  BY DEF Discover, HygieneInv, HygieneShaped
<1>2. /\ canonical \in Spellings \cup {"none"}
      /\ canonical # "none" => IsNote(vault, canonical) /\ vault[s].kind # "absent" /\ canonical \in Spellings
  BY CanonicalIs DEF HygieneInv
<1>3. ASSUME NEW t \in Spellings PROVE FactOf(t).kind = vault[t].kind /\ FactOf(t).stamp \in Nat /\ FactOf(t).stamp <= truth.edits
  BY DEF FactOf, HygieneInv, HygieneShaped, EntrySeen
<1>4. \A p \in DOMAIN scan.facts :
         p \in Spellings /\ scan.facts[p].kind = "note" /\ scan.facts[p].stamp \in Nat /\ scan.facts[p].stamp <= truth.edits
  BY DEF HygieneInv, FactsKnown, StandsAsThen
<1>5. \A c \in scan.cands : c.canonical \in DOMAIN scan.facts
  BY DEF HygieneInv, CandsKnown
<1> HIDE DEF canonical
<1>6. CASE vault[s].kind = "absent"
  <2>1. scan' = [scan EXCEPT !.todo = @ \ {s}] /\ truth' = truth
    BY <1>6 DEF Discover
  <2>2. /\ scan'.at = "enumerating" /\ scan'.todo = scan.todo \ {s}
        /\ UNCHANGED <<scan.facts, scan.cands, scan.reasons, scan.live, scan.read, scan.found, scan.lost, scan.note, scan.edges>>
    BY <1>1, <2>1
  <2>3. HygieneShaped'
    <3>1. scan' = [at |-> scan'.at, todo |-> scan'.todo, facts |-> scan'.facts, cands |-> scan'.cands, unsafe |-> scan'.unsafe,
               reasons |-> scan'.reasons, note |-> scan'.note, live |-> scan'.live, read |-> scan'.read,
               edges |-> scan'.edges, found |-> scan'.found, pairs |-> scan'.pairs, lost |-> scan'.lost, late |-> scan'.late]
      BY <1>1, <2>1
    <3> QED
      BY <1>1, <2>1, <2>2, <3>1 DEF HygieneInv, HygieneShaped, EntrySeen
  <2>4. FactsKnown' /\ CandsKnown' /\ LooksKnown'
    BY <1>1, <2>1, <2>2 DEF HygieneInv, FactsKnown, CandsKnown, LooksKnown, StandsAsThen
  <2>5. BornKnown'
    BY <1>1, <1>6, <2>1, <2>2 DEF HygieneInv, BornKnown, IsNote
  <2>6. ReadsKnown' /\ ClaimsTrue'
    BY <1>1, <2>1, <2>2 DEF HygieneInv, ReadsKnown, ClaimsTrue, Judged
  <2>7. DerivedKnown'
    BY <1>1, <2>1, <2>2 DEF HygieneInv, ReadsKnown, DerivedKnown
  <2> QED
    BY <2>3, <2>4, <2>5, <2>6, <2>7 DEF HygieneInv
<1>7. CASE vault[s].kind # "absent"
  <2>0. truth' = [truth EXCEPT !.looked = @ \cup {<<s, CanonicalIn(vault, s)>>}]
    BY <1>7 DEF Discover
  <2>1. CASE scan' = [scan EXCEPT !.todo = @ \ {s}, !.reasons = @ \cup {"enumeration_unavailable"}]
    <3> DEFINE facts == scan.facts
               cands == scan.cands
               unsafe == scan.unsafe
               reasons == scan.reasons \cup {"enumeration_unavailable"}
    <3>1. scan' = [scan EXCEPT !.todo = @ \ {s}, !.facts = facts, !.cands = cands, !.unsafe = unsafe, !.reasons = reasons]
      BY <1>1, <2>1
    <3>2. \A p \in DOMAIN facts : p \in Spellings /\ facts[p].kind = "note" /\ facts[p].stamp \in Nat /\ facts[p].stamp <= truth.edits
      BY <1>4
    <3>3. \A c \in cands : c \in scan.cands /\ c.canonical \in DOMAIN facts
      BY <1>5
    <3>4. scan.reasons \subseteq reasons /\ \A c \in scan.cands : c \in cands
      OBVIOUS
    <3>5. reasons # {}
      OBVIOUS
    <3> HIDE DEF facts, cands, unsafe, reasons
    <3>6. WalkStep(s, facts, cands, unsafe, reasons)
      BY <1>1, <2>0, <3>1, <3>4 DEF WalkStep
    <3>7. FactsFit(facts) /\ CandsFit(s, facts, cands)
      BY <3>2, <3>3 DEF FactsFit, CandsFit
    <3>8. NothingDropped(s, cands, reasons)
      BY <3>5 DEF NothingDropped
    <3> QED
      BY <1>1, <1>7, <3>6, <3>7, <3>8, WalkKeeps
  <2>2. CASE /\ canonical = "none"
             /\ scan' = [scan EXCEPT !.todo = @ \ {s}, !.unsafe = @ \cup {NameOf[s]}]
    <3> DEFINE facts == scan.facts
               cands == scan.cands
               unsafe == scan.unsafe \cup {NameOf[s]}
               reasons == scan.reasons
    <3>1. scan' = [scan EXCEPT !.todo = @ \ {s}, !.facts = facts, !.cands = cands, !.unsafe = unsafe, !.reasons = reasons]
      BY <1>1, <2>2
    <3>2. \A p \in DOMAIN facts : p \in Spellings /\ facts[p].kind = "note" /\ facts[p].stamp \in Nat /\ facts[p].stamp <= truth.edits
      BY <1>4
    <3>3. \A c \in cands : c \in scan.cands /\ c.canonical \in DOMAIN facts
      BY <1>5
    <3>4. scan.reasons \subseteq reasons /\ \A c \in scan.cands : c \in cands
      OBVIOUS
    <3>5. CanonicalIn(vault, s) = "none"
      BY <2>2 DEF canonical
    <3> HIDE DEF facts, cands, unsafe, reasons
    <3>6. WalkStep(s, facts, cands, unsafe, reasons)
      BY <1>1, <2>0, <3>1, <3>4 DEF WalkStep
    <3>7. FactsFit(facts) /\ CandsFit(s, facts, cands)
      BY <3>2, <3>3 DEF FactsFit, CandsFit
    <3>8. NothingDropped(s, cands, reasons)
      BY <3>4, <3>5 DEF NothingDropped
    <3> QED
      BY <1>1, <1>7, <3>6, <3>7, <3>8, WalkKeeps
  <2>3. CASE canonical # "none" /\ scan' = Recorded(s, canonical)
    <3> DEFINE known == DOMAIN scan.facts
               full == canonical \notin known /\ Cardinality(known) = PathCeiling
               kept == IF canonical \in known THEN known
                       ELSE IF full THEN (known \cup {canonical}) \ {Largest(known \cup {canonical})}
                       ELSE known \cup {canonical}
               spelled == [spelling |-> s, canonical |-> canonical, fact |-> FactOf(s)]
               facts == [p \in kept |-> IF p \in known THEN scan.facts[p] ELSE FactOf(p)]
               cands == {c \in scan.cands \cup {spelled} : c.canonical \in kept}
               reasons == IF full THEN scan.reasons \cup {"path_ceiling"} ELSE scan.reasons
    <3>1. scan' = [scan EXCEPT !.todo = @ \ {s}, !.facts = facts, !.cands = cands, !.unsafe = scan.unsafe, !.reasons = reasons]
      BY <1>1, <2>3 DEF Recorded
    <3>2. kept \subseteq known \cup {canonical} /\ (~full => kept = known \cup {canonical})
      OBVIOUS
    <3>3. DOMAIN facts = kept /\ \A p \in kept : facts[p] = IF p \in known THEN scan.facts[p] ELSE FactOf(p)
      OBVIOUS
    <3>4. spelled.spelling = s /\ spelled.canonical = canonical /\ spelled.fact = FactOf(s)
      OBVIOUS
    <3>5. scan.reasons \subseteq reasons /\ (reasons = {} => ~full)
      OBVIOUS
    <3>6. \A c \in cands : c \in scan.cands \cup {spelled} /\ c.canonical \in kept
      OBVIOUS
    <3>7. ~full => \A c \in scan.cands \cup {spelled} : c \in cands
      BY <1>5, <3>2, <3>4
    <3> HIDE DEF known, full, kept, spelled, facts, cands, reasons
    <3>8. \A p \in DOMAIN facts : p \in Spellings /\ facts[p].kind = "note" /\ facts[p].stamp \in Nat /\ facts[p].stamp <= truth.edits
      BY <1>2, <1>3, <1>4, <2>3, <3>2, <3>3 DEF known, IsNote
    <3>9. \A c \in cands :
              \/ c \in scan.cands /\ c.canonical \in DOMAIN facts
              \/ /\ c.spelling = s /\ c.canonical = CanonicalIn(vault, s) /\ c.canonical \in DOMAIN facts
                 /\ c.fact.kind # "absent" /\ c.fact.stamp \in Nat /\ c.fact.stamp <= truth.edits
      BY <1>3, <1>7, <3>3, <3>4, <3>6 DEF canonical
    <3>10. reasons = {} => /\ \A c \in scan.cands : c \in cands
                           /\ \E c \in cands : c.spelling = s /\ c.canonical = CanonicalIn(vault, s)
      BY <3>4, <3>5, <3>7 DEF canonical
    <3> DEFINE unsafe == scan.unsafe
    <3>11. WalkStep(s, facts, cands, unsafe, reasons)
      BY <1>1, <2>0, <3>1, <3>5 DEF WalkStep
    <3>12. FactsFit(facts) /\ CandsFit(s, facts, cands)
      BY <3>8, <3>9 DEF FactsFit, CandsFit
    <3>13. NothingDropped(s, cands, reasons)
      BY <3>10 DEF NothingDropped
    <3> HIDE DEF unsafe
    <3> QED
      BY <1>1, <1>7, <3>11, <3>12, <3>13, WalkKeeps
  <2> QED
    BY <1>7, <2>1, <2>2, <2>3 DEF Discover, canonical
<1> QED
  BY <1>6, <1>7

(* When the walk ends, the vault of then is the vault as it stands. *)
LEMMA EnumeratedKeeps == ASSUME HygieneInv, Enumerated PROVE HygieneInv'
<1>1. /\ scan.at = "enumerating" /\ scan.todo = {} /\ vault' = vault
      /\ scan' = [scan EXCEPT !.at = "reading", !.todo = DOMAIN scan.facts] /\ truth' = [truth EXCEPT !.then = vault]
  BY DEF Enumerated
<1>2. /\ scan'.at = "reading" /\ scan'.todo = DOMAIN scan.facts /\ truth'.then = vault
      /\ UNCHANGED <<scan.facts, scan.cands, scan.reasons, scan.live, scan.read, scan.found, scan.lost, scan.note, scan.edges>>
      /\ UNCHANGED <<truth.edits, truth.looked, truth.born>>
  BY <1>1 DEF HygieneInv, HygieneShaped
<1>3. HygieneShaped'
  <2>1. scan' = [at |-> scan'.at, todo |-> scan'.todo, facts |-> scan'.facts, cands |-> scan'.cands, unsafe |-> scan'.unsafe,
               reasons |-> scan'.reasons, note |-> scan'.note, live |-> scan'.live, read |-> scan'.read,
               edges |-> scan'.edges, found |-> scan'.found, pairs |-> scan'.pairs, lost |-> scan'.lost, late |-> scan'.late]
    BY <1>1 DEF HygieneInv, HygieneShaped
  <2>2. truth' = [edits |-> truth'.edits, then |-> truth'.then, looked |-> truth'.looked, born |-> truth'.born]
    BY <1>1 DEF HygieneInv, HygieneShaped
  <2>3. scan'.todo \subseteq Spellings
    BY <1>2 DEF HygieneInv, FactsKnown
  <2> QED
    BY <1>1, <1>2, <2>1, <2>2, <2>3 DEF HygieneInv, HygieneShaped, EntrySeen, ScanPlaces
<1>4. FactsKnown' /\ CandsKnown' /\ LooksKnown'
  BY <1>1, <1>2 DEF HygieneInv, FactsKnown, CandsKnown, LooksKnown, StandsAsThen
<1>5. BornKnown'
  BY <1>1, <1>2 DEF HygieneInv, BornKnown, IsNote
<1>6. ReadsKnown' /\ DerivedKnown' /\ ClaimsTrue'
  <2>1. DOMAIN scan.read = {}
    BY <1>1 DEF HygieneInv, ReadsKnown
  <2> QED
    BY <1>1, <1>2, <2>1 DEF HygieneInv, ReadsKnown, DerivedKnown, ClaimsTrue, Judged
<1> QED
  BY <1>3, <1>4, <1>5, <1>6 DEF HygieneInv

(* After the enumeration what it found is fixed. *)
Fixed == UNCHANGED <<vault, truth, scan.facts, scan.cands>> /\ scan.reasons \subseteq scan'.reasons

(* After the walk, facts and spellings stay true whatever the step. *)
LEMMA LaterKeeps ==
    ASSUME HygieneInv, Fixed, scan.at # "enumerating", scan'.at # "enumerating"
    PROVE  FactsKnown' /\ CandsKnown' /\ LooksKnown' /\ BornKnown'
<1>1. FactsKnown' /\ CandsKnown'
  BY DEF Fixed, HygieneInv, FactsKnown, CandsKnown, StandsAsThen
<1>2. LooksKnown'
  BY DEF Fixed, HygieneInv, LooksKnown
<1>3. BornKnown'
  BY DEF Fixed, HygieneInv, BornKnown, IsNote
<1> QED
  BY <1>1, <1>2, <1>3

(* Verdicts stay true if none is added. *)
LEMMA ClaimsKept ==
    ASSUME HygieneInv, UNCHANGED truth, Judged <=> Judged',
           \A f \in scan'.found : f[1] \in {"isolated", "colliding"} => f \in scan.found
    PROVE  ClaimsTrue'
<1>1. \A p : IsolatedThen(p) <=> IsolatedThen(p)'
  BY DEF IsolatedThen, IsNote, NotesThen, LinksThen, Known, CanonicalIn
<1>2. \A p, k : CollidedThen(p, k) <=> CollidedThen(p, k)'
  BY DEF CollidedThen, IsNote
<1>3. /\ \A p : <<"isolated", p, "">>[1] = "isolated"
      /\ \A p, k : <<"colliding", p, k>>[1] = "colliding"
  OBVIOUS
<1>4. ~Judged' => \A f \in scan'.found : f[1] \notin {"isolated", "colliding"}
  BY DEF HygieneInv, ClaimsTrue
<1>5. Judged' => \A p \in Spellings : <<"isolated", p, "">> \in scan'.found => IsolatedThen(p)'
  BY <1>1, <1>3 DEF HygieneInv, ClaimsTrue
<1>6. Judged' => \A p \in Spellings : \A k : <<"colliding", p, k>> \in scan'.found => CollidedThen(p, k)'
  BY <1>2, <1>3 DEF HygieneInv, ClaimsTrue
<1> QED
  BY <1>4, <1>5, <1>6 DEF ClaimsTrue

(* A step that neither reads nor derives. *)
LEMMA DerivedKept ==
    ASSUME HygieneInv, Fixed, scan.at # "deriving", UNCHANGED <<scan.read, scan.edges>>
    PROVE  DerivedKnown'
  BY DEF Fixed, HygieneInv, DerivedKnown, LinkKept, StoodThen

(* The scan's variables are the ones it began with. *)
ScanShaped ==
    scan = [at |-> scan.at, todo |-> scan.todo, facts |-> scan.facts, cands |-> scan.cands, unsafe |-> scan.unsafe,
            reasons |-> scan.reasons, note |-> scan.note, live |-> scan.live, read |-> scan.read,
            edges |-> scan.edges, found |-> scan.found, pairs |-> scan.pairs, lost |-> scan.lost, late |-> scan.late]
LEMMA ShapeKept ==
    ASSUME HygieneInv, UNCHANGED <<vault, truth>>, ScanShaped', scan'.at \in ScanPlaces,
           scan'.at \in {"enumerating", "reading", "deriving"} => scan'.todo \subseteq Spellings
    PROVE  HygieneShaped'
  BY DEF HygieneInv, HygieneShaped, EntrySeen, ScanShaped

(* A note whose fact holds is the note of then. *)
LEMMA FactStillAsThen ==
    ASSUME HygieneInv, scan.at # "enumerating", NEW p \in DOMAIN scan.facts, FactHolds(p, scan.facts[p])
    PROVE  p \in Spellings /\ vault[p] = truth.then[p] /\ IsNote(truth.then, p)
<1>1. p \in Spellings /\ scan.facts[p].kind = "note" /\ StandsAsThen(p, scan.facts[p])
  BY DEF HygieneInv, FactsKnown
<1>2. scan.facts[p].kind = vault[p].kind /\ scan.facts[p].stamp = vault[p].stamp
  <2>1. FactOf(p) = scan.facts[p]
    BY DEF FactHolds
  <2>2. FactOf(p).kind = vault[p].kind /\ FactOf(p).stamp = vault[p].stamp
    BY DEF FactOf
  <2> QED
    BY <2>1, <2>2
<1>3. vault[p] = truth.then[p]
  BY <1>1, <1>2 DEF StandsAsThen
<1> QED
  BY <1>1, <1>2, <1>3 DEF IsNote

(* What a read returns is the text of then. *)
LEMMA InspectKeeps == ASSUME HygieneInv, Inspect PROVE HygieneInv'
<1> DEFINE p == Smallest(scan.todo)
           rest == scan.todo \ {p}
<1>1. scan.at = "reading" /\ scan.todo # {} /\ UNCHANGED <<vault, truth>> /\ ScanShaped
  BY DEF Inspect, HygieneInv, HygieneShaped, ScanShaped
<1>2. p \in scan.todo /\ p \in DOMAIN scan.facts /\ p \in Spellings /\ scan.todo \subseteq Spellings
  <2>1. scan.todo \subseteq Spellings /\ scan.todo \subseteq DOMAIN scan.facts
    BY <1>1 DEF HygieneInv, HygieneShaped, ReadsKnown
  <2>2. p \in scan.todo
    BY <1>1, <2>1, SmallestIsIn
  <2> QED
    BY <2>1, <2>2
<1>3. CASE scan' = Raced(p, [scan EXCEPT !.todo = @ \ {p}])
  <2>1. scan' = [scan EXCEPT !.todo = rest, !.lost = scan.lost \cup {p}, !.reasons = scan.reasons \cup {"note_unavailable"}]
    BY <1>1, <1>3 DEF Raced, ScanShaped
  <2> HIDE DEF p
  <2>2. /\ scan'.at = "reading" /\ scan'.todo = rest /\ scan'.lost = scan.lost \cup {p}
        /\ scan'.reasons = scan.reasons \cup {"note_unavailable"} /\ ScanShaped'
        /\ UNCHANGED <<scan.facts, scan.cands, scan.live, scan.read, scan.found, scan.note, scan.edges>>
    BY <1>1, <2>1 DEF ScanShaped
  <2>3. HygieneShaped' /\ FactsKnown' /\ CandsKnown' /\ LooksKnown' /\ BornKnown'
    BY <1>1, <1>2, <2>2, ShapeKept, LaterKeeps DEF Fixed, ScanPlaces
  <2>4. ReadsKnown'
    BY <1>1, <1>2, <2>2 DEF HygieneInv, ReadsKnown, IsNote
  <2>5. DerivedKnown' /\ ClaimsTrue'
    BY <1>1, <2>2, DerivedKept, ClaimsKept DEF Fixed, Judged
  <2> QED
    BY <2>3, <2>4, <2>5 DEF HygieneInv
<1>4. CASE /\ FactHolds(p, scan.facts[p])
           /\ scan' = [[scan EXCEPT !.todo = @ \ {p}] EXCEPT !.at = "deriving", !.note = p, !.live = @ \cup {p},
                                             !.read = [q \in DOMAIN @ \cup {p} |->
                                                          IF q = p THEN vault[p].body ELSE @[q]]]
  <2> DEFINE read == [q \in DOMAIN scan.read \cup {p} |-> IF q = p THEN vault[p].body ELSE scan.read[q]]
  <2>1. scan' = [scan EXCEPT !.todo = rest, !.at = "deriving", !.note = p, !.live = scan.live \cup {p}, !.read = read]
    BY <1>1, <1>4 DEF ScanShaped
  <2>2. /\ DOMAIN read = DOMAIN scan.read \cup {p} /\ read[p] = vault[p].body
        /\ \A q \in DOMAIN scan.read : q # p => read[q] = scan.read[q]
    OBVIOUS
  <2>3. vault[p] = truth.then[p] /\ IsNote(truth.then, p)
    BY <1>1, <1>2, <1>4, FactStillAsThen
  <2> HIDE DEF p, read
  <2>4. /\ scan'.at = "deriving" /\ scan'.todo = rest /\ scan'.note = p /\ scan'.live = scan.live \cup {p} /\ scan'.read = read
        /\ ScanShaped'
        /\ UNCHANGED <<scan.facts, scan.cands, scan.reasons, scan.lost, scan.found, scan.edges>>
    BY <1>1, <2>1 DEF ScanShaped
  <2>5. HygieneShaped' /\ FactsKnown' /\ CandsKnown' /\ LooksKnown' /\ BornKnown'
    BY <1>1, <1>2, <2>4, ShapeKept, LaterKeeps DEF Fixed, ScanPlaces
  <2>6. ReadsKnown'
    BY <1>1, <1>2, <2>2, <2>3, <2>4 DEF HygieneInv, ReadsKnown, IsNote
  <2>7. DerivedKnown'
    <3> SUFFICES ASSUME scan.reasons = {}, NEW n \in DOMAIN read, n # p, NEW l \in read[n].links
                 PROVE  LinkKept(n, l)'
      BY <2>4 DEF DerivedKnown
    <3>1. LinkKept(n, l)
      BY <1>1, <2>2 DEF HygieneInv, DerivedKnown
    <3> QED
      BY <1>1, <2>4, <3>1 DEF LinkKept, StoodThen
  <2>8. ClaimsTrue'
    BY <1>1, <2>4, ClaimsKept DEF Judged
  <2> QED
    BY <2>5, <2>6, <2>7, <2>8 DEF HygieneInv
<1> QED
  BY <1>3, <1>4 DEF Inspect

(* A spelling that stands as enumerated denotes what it denoted then. *)
LEMMA CandStillAsThen ==
    ASSUME HygieneInv, scan.at # "enumerating", NEW c \in scan.cands, CandidateHolds(c)
    PROVE  StoodThen(c)
<1>1. /\ c.spelling \in Spellings /\ c.canonical \in Spellings /\ c.canonical # "none"
      /\ StandsAsThen(c.spelling, c.fact)
  BY HygieneAssumption DEF HygieneInv, CandsKnown, FactsKnown
<1>2. c.fact.kind = vault[c.spelling].kind /\ c.fact.stamp = vault[c.spelling].stamp
  <2>1. FactOf(c.spelling) = c.fact
    BY DEF CandidateHolds, FactHolds
  <2>2. FactOf(c.spelling).kind = vault[c.spelling].kind /\ FactOf(c.spelling).stamp = vault[c.spelling].stamp
    BY DEF FactOf
  <2> QED
    BY <2>1, <2>2
<1>3. vault[c.spelling] = truth.then[c.spelling]
  BY <1>1, <1>2 DEF StandsAsThen
<1>4. CanonicalIn(vault, c.spelling) = c.canonical
  BY DEF CandidateHolds
<1> QED
  BY <1>1, <1>3, <1>4 DEF StoodThen, CanonicalIn, IsNote

(* A link that was not found unavailable is kept as an edge if it has a target. *)
LEMMA LinkIsKept ==
    ASSUME HygieneInv, scan.at # "enumerating", NEW n, NEW l, OutcomeOf(l) # "unavailable",
           UNCHANGED <<truth, scan.cands>>,
           OutcomeOf(l) = "resolved" => <<n, Target(l)>> \in scan'.edges
    PROVE  LinkKept(n, l)'
<1>1. CASE l[1] = "name"
  <2> DEFINE matches == {c \in scan.cands : NameOf[c.spelling] = l[2]}
             paths == {c.canonical : c \in matches}
  <2>1. /\ OutcomeOf(l) = ByName(l[2])
        /\ \A c \in matches : CandidateHolds(c)
        /\ Cardinality(paths) = 1 => OutcomeOf(l) = "resolved"
    BY <1>1 DEF OutcomeOf, ByName
  <2>2. \A c \in scan.cands : NameOf[c.spelling] = l[2] => StoodThen(c)
    BY <2>1, CandStillAsThen
  <2>3. ASSUME NEW p \in Spellings, \E c \in matches : TRUE, \A c \in matches : c.canonical = p
        PROVE  <<n, p>> \in scan'.edges
    <3>1. paths = {p}
      BY <2>3
    <3>2. Cardinality(paths) = 1
      BY <3>1, FS_Singleton
    <3>3. Target(l) = p
      BY <1>1, <2>3 DEF Target
    <3> QED
      BY <2>1, <3>2, <3>3
  <2> QED
    BY <1>1, <2>2, <2>3 DEF LinkKept, StoodThen
<1>2. CASE l[1] # "name"
  <2> SUFFICES ASSUME NEW c \in scan.cands, c.spelling = l[2] PROVE <<n, c.canonical>> \in scan'.edges
    BY <1>2 DEF LinkKept
  <2>1. OutcomeOf(l) = "resolved"
    <3>1. OutcomeOf(l) = ByPath(l[2])
      BY <1>2 DEF OutcomeOf
    <3>2. ByPath(l[2]) \in {"resolved", "unavailable"}
      BY DEF ByPath
    <3> QED
      BY <3>1, <3>2
  <2>2. \A d \in scan.cands : d.spelling = l[2] => d.canonical = c.canonical
    <3>1. ASSUME NEW d \in scan.cands, d.spelling = l[2] PROVE d.canonical = c.canonical
      <4>1. <<d.spelling, d.canonical>> \in truth.looked /\ <<c.spelling, c.canonical>> \in truth.looked
        BY DEF HygieneInv, CandsKnown
      <4>2. \A x, y \in truth.looked : x[1] = y[1] => x[2] = y[2]
        BY DEF HygieneInv, LooksKnown
      <4>3. <<d.spelling, d.canonical>>[2] = <<c.spelling, c.canonical>>[2]
        BY <3>1, <4>1, <4>2
      <4> QED
        BY <4>3
    <3> QED
      BY <3>1
  <2>3. Target(l) = c.canonical
    BY <1>2, <2>2 DEF Target
  <2> QED
    BY <2>1, <2>3
<1> QED
  BY <1>1, <1>2

(* Links are derived in full, or a reason says they were not. *)
LEMMA DeriveKeeps == ASSUME HygieneInv, Derive PROVE HygieneInv'
<1> DEFINE p == scan.note
           links == scan.read[p].links
           cut == scan.reasons \cap {"path_ceiling", "enumeration_unavailable"} # {}
           raced == \E l \in links : OutcomeOf(l) = "unavailable"
           reasons == IF ~cut /\ raced THEN scan.reasons \cup {"relationship_unavailable"} ELSE scan.reasons
           edges == IF cut \/ raced THEN scan.edges
                    ELSE scan.edges \cup {<<p, Target(l)>> : l \in {k \in links : OutcomeOf(k) = "resolved"}}
           found == IF cut \/ raced THEN scan.found
                    ELSE scan.found \cup {<<OutcomeOf(l), p, l[2]>> : l \in {k \in links : OutcomeOf(k) # "resolved"}}
<1>1. scan.at = "deriving" /\ UNCHANGED <<vault, truth>> /\ ScanShaped
  BY DEF Derive, HygieneInv, HygieneShaped, ScanShaped
<1>2. scan' = [scan EXCEPT !.at = "reading", !.reasons = reasons, !.edges = edges, !.found = found]
  BY <1>1 DEF Derive, ScanShaped
<1>3. /\ scan.reasons \subseteq reasons
      /\ reasons = {} => scan.reasons = {} /\ ~cut /\ ~raced
  OBVIOUS
<1>4. /\ \A e \in scan.edges : e \in edges
      /\ ~cut /\ ~raced => \A l \in links : OutcomeOf(l) = "resolved" => <<p, Target(l)>> \in edges
  OBVIOUS
<1>5. ASSUME NEW f \in found, f \notin scan.found PROVE f[1] \notin {"isolated", "colliding"}
  <2>1. PICK l \in links : f = <<OutcomeOf(l), p, l[2]>>
    BY <1>5
  <2>2. OutcomeOf(l) \notin {"isolated", "colliding"}
    BY DEF OutcomeOf, ByName, ByPath
  <2> QED
    BY <2>1, <2>2
<1> HIDE DEF reasons, edges, found, cut, raced
<1>6. /\ scan'.at = "reading" /\ scan'.reasons = reasons /\ scan'.edges = edges /\ scan'.found = found /\ ScanShaped'
      /\ UNCHANGED <<scan.facts, scan.cands, scan.todo, scan.live, scan.read, scan.lost>>
  BY <1>1, <1>2 DEF ScanShaped
<1>7. HygieneShaped' /\ FactsKnown' /\ CandsKnown' /\ LooksKnown' /\ BornKnown'
  <2>1. scan'.todo \subseteq Spellings
    BY <1>1, <1>6 DEF HygieneInv, HygieneShaped
  <2> QED
    BY <1>1, <1>3, <1>6, <2>1, ShapeKept, LaterKeeps DEF Fixed, ScanPlaces
<1>8. ReadsKnown'
  BY <1>1, <1>3, <1>6 DEF HygieneInv, ReadsKnown, IsNote
<1>9. DerivedKnown'
  <2> SUFFICES ASSUME reasons = {}, NEW n \in DOMAIN scan.read, NEW l \in scan.read[n].links
               PROVE  LinkKept(n, l)'
    BY <1>6 DEF DerivedKnown
  <2>1. CASE n = p
    <3>1. l \in links /\ OutcomeOf(l) # "unavailable"
      BY <1>3, <2>1 DEF raced
    <3>2. OutcomeOf(l) = "resolved" => <<n, Target(l)>> \in scan'.edges
      BY <1>3, <1>4, <1>6, <2>1, <3>1
    <3> QED
      BY <1>1, <1>6, <3>1, <3>2, LinkIsKept
  <2>2. CASE n # p
    <3>1. LinkKept(n, l)
      BY <1>3, <2>2 DEF HygieneInv, DerivedKnown
    <3> QED
      BY <1>1, <1>4, <1>6, <3>1 DEF LinkKept, StoodThen
  <2> QED
    BY <2>1, <2>2
<1>10. ClaimsTrue'
  BY <1>1, <1>5, <1>6, ClaimsKept DEF Judged
<1> QED
  BY <1>7, <1>8, <1>9, <1>10 DEF HygieneInv

(* What raced after its read is not live, and is a reason. *)
LEMMA VerifyKeeps == ASSUME HygieneInv, AllRead \/ VerifyAgain PROVE HygieneInv'
<1>1. CASE AllRead
  <2>1. /\ scan.at = "reading" /\ scan.todo = {} /\ UNCHANGED <<vault, truth>> /\ ScanShaped
        /\ scan' = [scan EXCEPT !.at = "verifying", !.todo = scan.live]
    BY <1>1 DEF AllRead, HygieneInv, HygieneShaped, ScanShaped
  <2>2. /\ scan'.at = "verifying" /\ ScanShaped'
        /\ UNCHANGED <<scan.facts, scan.cands, scan.reasons, scan.live, scan.read, scan.edges, scan.found, scan.lost>>
    BY <2>1 DEF ScanShaped
  <2>3. HygieneShaped' /\ FactsKnown' /\ CandsKnown' /\ LooksKnown' /\ BornKnown'
    BY <2>1, <2>2, ShapeKept, LaterKeeps DEF Fixed, ScanPlaces
  <2>4. ReadsKnown'
    BY <2>1, <2>2 DEF HygieneInv, ReadsKnown, IsNote
  <2>5. DerivedKnown' /\ ClaimsTrue'
    BY <2>1, <2>2, DerivedKept, ClaimsKept DEF Fixed, Judged
  <2> QED
    BY <2>3, <2>4, <2>5 DEF HygieneInv
<1>2. CASE VerifyAgain
  <2> DEFINE p == Smallest(scan.todo)
             rest == scan.todo \ {p}
  <2>1. /\ scan.at = "verifying" /\ UNCHANGED <<vault, truth>> /\ ScanShaped
        /\ scan' = IF FactHolds(p, scan.facts[p]) THEN [scan EXCEPT !.todo = @ \ {p}]
                   ELSE [Raced(p, [scan EXCEPT !.todo = @ \ {p}]) EXCEPT !.live = @ \ {p}]
    BY <1>2 DEF VerifyAgain, HygieneInv, HygieneShaped, ScanShaped
  <2>2. \/ scan' = [scan EXCEPT !.todo = rest]
        \/ scan' = [scan EXCEPT !.todo = rest, !.lost = scan.lost \cup {p},
                                !.reasons = scan.reasons \cup {"note_unavailable"}, !.live = scan.live \ {p}]
    BY <2>1 DEF Raced, ScanShaped
  <2> HIDE DEF p, rest
  <2>3. /\ scan'.at = "verifying" /\ ScanShaped' /\ scan.reasons \subseteq scan'.reasons
        /\ UNCHANGED <<scan.facts, scan.cands, scan.read, scan.edges, scan.found>>
        /\ \/ UNCHANGED <<scan.live, scan.lost, scan.reasons>>
           \/ scan'.live = scan.live \ {p} /\ scan'.lost = scan.lost \cup {p} /\ scan'.reasons # {}
    <3>1. CASE scan' = [scan EXCEPT !.todo = rest]
      BY <2>1, <3>1 DEF ScanShaped
    <3>2. CASE scan' = [scan EXCEPT !.todo = rest, !.lost = scan.lost \cup {p},
                                   !.reasons = scan.reasons \cup {"note_unavailable"}, !.live = scan.live \ {p}]
      <4> DEFINE lost == scan.lost \cup {p}
                 reasons == scan.reasons \cup {"note_unavailable"}
                 live == scan.live \ {p}
      <4>1. reasons # {} /\ scan.reasons \subseteq reasons
        OBVIOUS
      <4>2. scan' = [scan EXCEPT !.todo = rest, !.lost = lost, !.reasons = reasons, !.live = live]
        BY <3>2
      <4> HIDE DEF lost, reasons, live
      <4>3. /\ scan'.at = "verifying" /\ scan'.live = live /\ scan'.lost = lost /\ scan'.reasons = reasons
            /\ UNCHANGED <<scan.facts, scan.cands, scan.read, scan.edges, scan.found>>
        BY <2>1, <4>2 DEF ScanShaped
      <4>4. ScanShaped'
        BY <2>1, <4>2 DEF ScanShaped
      <4> QED
        BY <4>1, <4>3, <4>4 DEF lost, reasons, live
    <3> QED
      BY <2>2, <3>1, <3>2
  <2>4. HygieneShaped' /\ FactsKnown' /\ CandsKnown' /\ LooksKnown' /\ BornKnown'
    BY <2>1, <2>3, ShapeKept, LaterKeeps DEF Fixed, ScanPlaces
  <2>5. ReadsKnown'
    BY <2>1, <2>3 DEF HygieneInv, ReadsKnown, IsNote
  <2>6. DerivedKnown' /\ ClaimsTrue'
    BY <2>1, <2>3, DerivedKept, ClaimsKept DEF Fixed, Judged
  <2> QED
    BY <2>4, <2>5, <2>6 DEF HygieneInv
<1> QED
  BY <1>1, <1>2

(* A scan without a reason kept what it looked at, and read every note of then. *)
LEMMA LooksWereKept ==
    ASSUME HygieneInv, scan.reasons = {}
    PROVE  \A s, c : <<s, c>> \in truth.looked /\ c # "none" => \E d \in scan.cands : d.spelling = s /\ d.canonical = c
<1> SUFFICES ASSUME NEW s, NEW c, <<s, c>> \in truth.looked, c # "none"
             PROVE  \E d \in scan.cands : d.spelling = s /\ d.canonical = c
  OBVIOUS
<1>1. \A x \in truth.looked : x[2] # "none" => \E d \in scan.cands : d.spelling = x[1] /\ d.canonical = x[2]
  BY DEF HygieneInv, LooksKnown
<1>2. <<s, c>>[1] = s /\ <<s, c>>[2] = c
  OBVIOUS
<1> QED
  BY <1>1, <1>2

(* A complete scan read every note that the walk met. *)
LEMMA NotesWereRead ==
    ASSUME HygieneInv, scan.at \in {"verifying", "duplicates", "answered"}, scan.reasons = {}, NEW n, <<n, n>> \in truth.looked
    PROVE  n \in scan.live /\ n \in DOMAIN scan.read
<1>1. n # "none"
  <2>1. \A x \in truth.looked : x[1] \in Spellings
    BY DEF HygieneInv, LooksKnown
  <2>2. <<n, n>>[1] \in Spellings
    BY <2>1
  <2> QED
    BY <2>2, HygieneAssumption
<1>2. PICK d \in scan.cands : d.canonical = n
  BY <1>1, LooksWereKept
<1>3. n \in DOMAIN scan.facts
  BY <1>2 DEF HygieneInv, CandsKnown
<1> QED
  BY <1>3 DEF HygieneInv, ReadsKnown

(* A scan without a reason knows every link of then as an edge. *)
LEMMA EdgesComplete ==
    ASSUME HygieneInv, scan.at = "verifying", scan.reasons = {}, NEW n \in DOMAIN scan.read, NEW m \in Spellings, LinksThen(n, m)
    PROVE  <<n, m>> \in scan.edges
<1>1. /\ DOMAIN scan.facts \subseteq DOMAIN scan.read
      /\ \A p \in DOMAIN scan.read : IsNote(truth.then, p) /\ scan.read[p] = truth.then[p].body
  BY DEF HygieneInv, ReadsKnown
<1>2. \A p \in DOMAIN scan.facts : p \in Spellings /\ p # "none"
  BY HygieneAssumption DEF HygieneInv, FactsKnown
<1>3. \A s, c : <<s, c>> \in truth.looked /\ c # "none" => \E d \in scan.cands : d.spelling = s /\ d.canonical = c
  BY LooksWereKept
<1>4. m # "none"
  BY HygieneAssumption
<1>5. PICK l \in truth.then[n].body.links :
        IF l[1] = "name"
        THEN {CanonicalIn(truth.then, s) : s \in {x \in Known : NameOf[x] = l[2]}} \ {"none"} = {m}
        ELSE l[2] \in Known /\ CanonicalIn(truth.then, l[2]) = m
  BY DEF LinksThen
<1>6. LinkKept(n, l)
  BY <1>1, <1>5 DEF HygieneInv, DerivedKnown
<1>7. CASE l[1] = "name"
  <2> DEFINE meant == {CanonicalIn(truth.then, s) : s \in {x \in Known : NameOf[x] = l[2]}}
  <2>1. meant \ {"none"} = {m}
    BY <1>5, <1>7
  <2>2. ASSUME NEW c \in scan.cands, NameOf[c.spelling] = l[2] PROVE c.canonical = m
    <3>1. c.spelling \in Spellings /\ c.canonical \in DOMAIN scan.facts /\ <<c.spelling, c.canonical>> \in truth.looked
      BY DEF HygieneInv, CandsKnown
    <3>2. StoodThen(c) /\ IsNote(truth.then, c.canonical) /\ c.canonical # "none"
      BY <1>1, <1>2, <1>6, <1>7, <2>2, <3>1 DEF LinkKept
    <3>3. CanonicalIn(truth.then, c.spelling) = c.canonical
      BY <3>2 DEF StoodThen, CanonicalIn, IsNote
    <3>4. c.canonical \in meant
      BY <2>2, <3>1, <3>3 DEF Known
    <3> QED
      BY <2>1, <3>2, <3>4
  <2>3. \E c \in scan.cands : NameOf[c.spelling] = l[2]
    <3>1. m \in meant
      BY <2>1
    <3>2. PICK s \in Known : NameOf[s] = l[2] /\ CanonicalIn(truth.then, s) = m
      BY <3>1
    <3>3. <<s, m>> \in truth.looked
      BY <3>2 DEF Known
    <3> QED
      BY <1>3, <1>4, <3>2, <3>3
  <2> QED
    BY <1>6, <1>7, <2>2, <2>3 DEF LinkKept
<1>8. CASE l[1] # "name"
  <2>1. <<l[2], m>> \in truth.looked
    BY <1>5, <1>8 DEF Known
  <2>2. PICK c \in scan.cands : c.spelling = l[2] /\ c.canonical = m
    BY <1>3, <1>4, <2>1
  <2> QED
    BY <1>6, <1>8, <2>2 DEF LinkKept
<1> QED
  BY <1>7, <1>8

(* Verdicts are given over a complete scan only, and are true of then. *)
LEMMA JudgeKeeps == ASSUME HygieneInv, Judge PROVE HygieneInv'
<1> DEFINE isolated == {<<"isolated", p, "">> : p \in {q \in scan.live : scan.read[q].curated /\ Isolated(q)}}
           colliding == {<<"colliding", p, BodyKey(p)>> : p \in {q \in scan.live :
                             BodyKey(q) # "none" /\ \E r \in scan.live \ {q} : BodyKey(r) = BodyKey(q)}}
           found == {f \in scan.found : f[2] \notin scan.lost} \cup (IF Complete THEN isolated \cup colliding ELSE {})
           sources == DuplicateSources
<1>1. scan.at = "verifying" /\ UNCHANGED <<vault, truth>> /\ ScanShaped
  BY DEF Judge, HygieneInv, HygieneShaped, ScanShaped
<1>2. scan' = [scan EXCEPT !.at = "duplicates", !.todo = sources, !.found = found]
  BY <1>1 DEF Judge, ScanShaped
<1>3. \A f \in found : f \in scan.found \/ (Complete /\ (f \in isolated \/ f \in colliding))
  OBVIOUS
<1>4. ASSUME NEW p, <<"isolated", p, "">> \in isolated PROVE p \in scan.live /\ Isolated(p)
  BY <1>4
<1>5. ASSUME NEW p, NEW k, <<"colliding", p, k>> \in colliding
      PROVE  p \in scan.live /\ k = BodyKey(p) /\ \E r \in scan.live \ {p} : BodyKey(r) = BodyKey(p)
  BY <1>5
<1>6. /\ \A p : <<"isolated", p, "">> \notin colliding
      /\ \A p, k : <<"colliding", p, k>> \notin isolated
  OBVIOUS
<1>7. \A f \in scan.found : f[1] \notin {"isolated", "colliding"}
  BY <1>1 DEF HygieneInv, ClaimsTrue, Judged
<1> HIDE DEF isolated, colliding, found, sources
<1>8. /\ scan'.at = "duplicates" /\ scan'.found = found /\ ScanShaped'
      /\ UNCHANGED <<scan.facts, scan.cands, scan.reasons, scan.live, scan.read, scan.edges, scan.lost>>
  BY <1>1, <1>2 DEF ScanShaped
<1>9. HygieneShaped' /\ FactsKnown' /\ CandsKnown' /\ LooksKnown' /\ BornKnown'
  BY <1>1, <1>8, ShapeKept, LaterKeeps DEF Fixed, ScanPlaces
<1>10. ReadsKnown'
  BY <1>1, <1>8 DEF HygieneInv, ReadsKnown, IsNote
<1>11. DerivedKnown'
  BY <1>1, <1>8, DerivedKept DEF Fixed
<1>12. ASSUME NEW p \in scan.live
       PROVE  p \in Spellings /\ IsNote(truth.then, p) /\ scan.read[p] = truth.then[p].body
  BY DEF HygieneInv, ReadsKnown, FactsKnown
<1>13. ClaimsTrue'
  <2>1. ASSUME NEW p \in Spellings, <<"isolated", p, "">> \in found PROVE IsolatedThen(p)
    <3>1. Complete /\ <<"isolated", p, "">> \in isolated
      <4>1. <<"isolated", p, "">> \notin scan.found
        BY <1>7
      <4> QED
        BY <1>3, <1>6, <2>1, <4>1
    <3>2. p \in scan.live /\ Isolated(p) /\ scan.reasons = {}
      BY <1>4, <3>1 DEF Complete
    <3>3. p \in DOMAIN scan.read
      BY <3>2 DEF HygieneInv, ReadsKnown
    <3>4. ASSUME NEW n \in NotesThen PROVE ~LinksThen(n, p) /\ ~LinksThen(p, n)
      <4>1. n \in Spellings /\ n \in DOMAIN scan.read
        <5>1. n \in Spellings /\ <<n, n>> \in truth.looked
          BY DEF NotesThen, Known, CanonicalIn
        <5> QED
          BY <1>1, <3>2, <5>1, NotesWereRead
      <4>2. <<n, p>> \notin scan.edges /\ <<p, n>> \notin scan.edges
        <5>1. \A e \in scan.edges : e[1] # p /\ e[2] # p
          BY <3>2 DEF Isolated
        <5>2. <<n, p>>[2] = p /\ <<p, n>>[1] = p
          OBVIOUS
        <5> QED
          BY <5>1, <5>2
      <4> QED
        BY <1>1, <3>2, <3>3, <4>1, <4>2, EdgesComplete
    <3> QED
      BY <1>12, <3>2, <3>4 DEF IsolatedThen
  <2>2. ASSUME NEW p \in Spellings, NEW k, <<"colliding", p, k>> \in found PROVE CollidedThen(p, k)
    <3>1. <<"colliding", p, k>> \in colliding
      <4>1. <<"colliding", p, k>> \notin scan.found
        BY <1>7
      <4> QED
        BY <1>3, <1>6, <2>2, <4>1
    <3>2. p \in scan.live /\ k = BodyKey(p) /\ \E r \in scan.live \ {p} : BodyKey(r) = BodyKey(p)
      BY <1>5, <3>1
    <3> QED
      BY <1>12, <3>2 DEF CollidedThen, BodyKey
  <2>3. \A p : IsolatedThen(p) <=> IsolatedThen(p)'
    BY <1>1 DEF IsolatedThen, IsNote, NotesThen, LinksThen, Known, CanonicalIn
  <2>4. \A p, k : CollidedThen(p, k) <=> CollidedThen(p, k)'
    BY <1>1 DEF CollidedThen, IsNote
  <2> QED
    BY <1>8, <2>1, <2>2, <2>3, <2>4 DEF ClaimsTrue, Judged
<1> QED
  BY <1>9, <1>10, <1>11, <1>13 DEF HygieneInv

(* Title duplicates neither read nor give a verdict of absence. *)
LEMMA DuplicatesKeep == ASSUME HygieneInv, FindDuplicates \/ ConfirmPair PROVE HygieneInv'
<1>1. scan.at = "duplicates" /\ UNCHANGED <<vault, truth>> /\ ScanShaped
  BY DEF FindDuplicates, ConfirmPair, HygieneInv, HygieneShaped, ScanShaped
<1>2. /\ scan'.at = "duplicates" /\ ScanShaped'
      /\ UNCHANGED <<scan.facts, scan.cands, scan.reasons, scan.live, scan.read, scan.edges, scan.lost>>
      /\ \A f \in scan'.found : f \in scan.found \/ f[1] = "duplicate"
  <2>1. CASE FindDuplicates
    <3> DEFINE p == Smallest(scan.todo)
               same == {q \in DOMAIN scan.facts \ {p} : NameOf[q] = NameOf[p]}
               rest == scan.todo \ {p}
    <3>1. CASE Standing({p}) = {}
      <4>1. scan' = [scan EXCEPT !.todo = rest, !.late = scan.late \cup {p}, !.pairs = scan.pairs, !.found = scan.found]
        BY <1>1, <2>1, <3>1 DEF FindDuplicates, ScanShaped
      <4> QED
        BY <1>1, <4>1 DEF ScanShaped
    <3>2. CASE Standing({p}) # {}
      <4> DEFINE late == scan.late \cup (same \ Standing(same))
                 pairs == scan.pairs \cup {<<p, q>> : q \in Standing(same)}
      <4>1. scan' = [scan EXCEPT !.todo = rest, !.late = late, !.pairs = pairs, !.found = scan.found]
        BY <1>1, <2>1, <3>2 DEF FindDuplicates, ScanShaped
      <4> QED
        BY <1>1, <4>1 DEF ScanShaped
    <3> QED
      BY <3>1, <3>2
  <2>2. CASE ConfirmPair
    <3>1. PICK pair \in scan.pairs :
             LET next == [scan EXCEPT !.pairs = @ \ {pair}]
             IN scan' = IF Standing({pair[1]}) = {} THEN [next EXCEPT !.late = @ \cup {pair[1]}]
                        ELSE IF Standing({pair[2]}) = {} THEN [next EXCEPT !.late = @ \cup {pair[2]}]
                        ELSE IF <<"duplicate", pair[2], pair[1]>> \in scan.found THEN next
                        ELSE [next EXCEPT !.found = @ \cup {<<"duplicate", pair[1], pair[2]>>}]
      BY <2>2 DEF ConfirmPair
    <3> DEFINE left == scan.pairs \ {pair}
               named == scan.found \cup {<<"duplicate", pair[1], pair[2]>>}
    <3> DEFINE late1 == scan.late \cup {pair[1]}
               late2 == scan.late \cup {pair[2]}
    <3>2. \A f \in named : f \in scan.found \/ f[1] = "duplicate"
      OBVIOUS
    <3>3. CASE Standing({pair[1]}) = {}
      <4>1. scan' = [scan EXCEPT !.todo = scan.todo, !.late = late1, !.pairs = left, !.found = scan.found]
        BY <1>1, <3>1, <3>3 DEF ScanShaped
      <4> QED
        BY <1>1, <4>1 DEF ScanShaped
    <3>4. CASE Standing({pair[1]}) # {} /\ Standing({pair[2]}) = {}
      <4>1. scan' = [scan EXCEPT !.todo = scan.todo, !.late = late2, !.pairs = left, !.found = scan.found]
        BY <1>1, <3>1, <3>4 DEF ScanShaped
      <4> QED
        BY <1>1, <4>1 DEF ScanShaped
    <3>5. CASE /\ Standing({pair[1]}) # {} /\ Standing({pair[2]}) # {}
               /\ <<"duplicate", pair[2], pair[1]>> \in scan.found
      <4>1. scan' = [scan EXCEPT !.todo = scan.todo, !.late = scan.late, !.pairs = left, !.found = scan.found]
        BY <1>1, <3>1, <3>5 DEF ScanShaped
      <4> QED
        BY <1>1, <4>1 DEF ScanShaped
    <3>6. CASE /\ Standing({pair[1]}) # {} /\ Standing({pair[2]}) # {}
               /\ <<"duplicate", pair[2], pair[1]>> \notin scan.found
      <4>1. scan' = [scan EXCEPT !.todo = scan.todo, !.late = scan.late, !.pairs = left, !.found = named]
        BY <1>1, <3>1, <3>6 DEF ScanShaped
      <4> QED
        BY <1>1, <3>2, <4>1 DEF ScanShaped
    <3> QED
      BY <3>3, <3>4, <3>5, <3>6
  <2> QED
    BY <2>1, <2>2
<1>3. HygieneShaped' /\ FactsKnown' /\ CandsKnown' /\ LooksKnown' /\ BornKnown'
  BY <1>1, <1>2, ShapeKept, LaterKeeps DEF Fixed, ScanPlaces
<1>4. ReadsKnown'
  BY <1>1, <1>2 DEF HygieneInv, ReadsKnown, IsNote
<1>5. DerivedKnown' /\ ClaimsTrue'
  BY <1>1, <1>2, DerivedKept, ClaimsKept DEF Fixed, Judged
<1> QED
  BY <1>3, <1>4, <1>5 DEF HygieneInv

(* What raced late takes verdicts away, and adds none. *)
LEMMA ReportKeeps == ASSUME HygieneInv, Report PROVE HygieneInv'
<1> DEFINE raced == scan.lost \cup scan.late
           reasons == scan.reasons \cup {"note_unavailable"}
           found == {f \in scan.found : f[2] \notin raced /\ f[1] \notin {"isolated", "colliding"}
                                        /\ (f[1] = "duplicate" => f[3] \notin raced)}
<1>1. /\ scan.at = "duplicates" /\ UNCHANGED <<vault, truth>> /\ ScanShaped
      /\ \/ scan' = [scan EXCEPT !.at = "answered"]
         \/ scan' = [scan EXCEPT !.at = "answered", !.reasons = reasons, !.lost = raced, !.found = found]
  BY DEF Report, HygieneInv, HygieneShaped, ScanShaped
<1>2. scan.reasons \subseteq reasons /\ reasons # {} /\ (\A f \in found : f \in scan.found) /\ scan.lost \subseteq raced
  OBVIOUS
<1> HIDE DEF raced, reasons, found
<1>3. /\ scan'.at = "answered" /\ ScanShaped' /\ scan.reasons \subseteq scan'.reasons
      /\ UNCHANGED <<scan.facts, scan.cands, scan.live, scan.read, scan.edges>>
      /\ scan.lost \subseteq scan'.lost /\ (scan'.lost = scan.lost \/ scan'.reasons # {})
      /\ \A f \in scan'.found : f \in scan.found
  BY <1>1, <1>2 DEF ScanShaped
<1>4. HygieneShaped' /\ FactsKnown' /\ CandsKnown' /\ LooksKnown' /\ BornKnown'
  BY <1>1, <1>3, ShapeKept, LaterKeeps DEF Fixed, ScanPlaces
<1>5. ReadsKnown'
  BY <1>1, <1>3 DEF HygieneInv, ReadsKnown, IsNote
<1>6. DerivedKnown' /\ ClaimsTrue'
  BY <1>1, <1>3, DerivedKept, ClaimsKept DEF Fixed, Judged
<1> QED
  BY <1>4, <1>5, <1>6 DEF HygieneInv

(* The strengthened invariant holds of every scan. *)
THEOREM HygieneInvariance == HygieneSpec => []HygieneInv
<1>1. HygieneInv /\ [HygieneNext]_hygieneVars => HygieneInv'
  <2>1. ASSUME HygieneInv, HygieneNext PROVE HygieneInv'
    BY <2>1, EditKeeps, DiscoverKeeps, EnumeratedKeeps, InspectKeeps, DeriveKeeps, VerifyKeeps, JudgeKeeps,
       DuplicatesKeep, ReportKeeps DEF HygieneNext
  <2>2. ASSUME HygieneInv, UNCHANGED hygieneVars PROVE HygieneInv'
    <3>1. scan' = scan /\ vault' = vault /\ truth' = truth
      BY <2>2 DEF hygieneVars
    <3>2. ReadsKnown' /\ DerivedKnown' /\ ClaimsTrue'
      BY <2>2, <3>1, EditsKeepThen
    <3>3. HygieneShaped' /\ FactsKnown' /\ CandsKnown' /\ LooksKnown' /\ BornKnown'
      BY <2>2, <3>1 DEF HygieneInv, HygieneShaped, EntrySeen, FactsKnown, CandsKnown, LooksKnown, BornKnown, StandsAsThen, IsNote
    <3> QED
      BY <3>2, <3>3 DEF HygieneInv
  <2> QED
    BY <2>1, <2>2
<1> QED
  BY <1>1, HygieneStart, PTL DEF HygieneSpec

(* However the vault is edited during the scan: what the scan says is missing was
   missing in the vault as it stood when the enumeration ended, and a complete
   scan inspected every note that existed all along. *)
THEOREM AbsenceIsProved == HygieneSpec => []AbsenceProved
<1>1. ASSUME HygieneInv, scan.at = "answered" PROVE AbsenceProved
  <2>1. \A p \in Spellings : <<"isolated", p, "">> \in scan.found =>
           IsNote(truth.then, p) /\ \A n \in NotesThen : ~LinksThen(n, p) /\ ~LinksThen(p, n)
    BY <1>1 DEF HygieneInv, ClaimsTrue, Judged, IsolatedThen
  <2>2. \A p \in Spellings : \A k : <<"colliding", p, k>> \in scan.found =>
           \E q \in Spellings \ {p} : IsNote(truth.then, q) /\ truth.then[q].body.key = k /\ truth.then[p].body.key = k
    BY <1>1 DEF HygieneInv, ClaimsTrue, Judged, CollidedThen
  <2>3. ASSUME scan.reasons = {}, NEW n \in Spellings, IsNote(truth.then, n), n \notin truth.born PROVE n \in scan.live
    <3>1. <<n, n>> \in truth.looked
      BY <1>1, <2>3 DEF HygieneInv, BornKnown
    <3> QED
      BY <1>1, <2>3, <3>1, NotesWereRead
  <2> QED
    BY <2>1, <2>2, <2>3 DEF AbsenceProved
<1>2. HygieneInv => AbsenceProved
  BY <1>1 DEF AbsenceProved
<1> QED
  BY <1>2, HygieneInvariance, PTL

-----------------------------------------------------------------------------
(* Sums over finite sets, by the least-number principle.                   *)

(* A set of numbers with 0 and every successor is Nat. *)
LEMMA EveryNat ==
    ASSUME NEW G, 0 \in G, \A n \in Nat : n \in G => n + 1 \in G
    PROVE  Nat \subseteq G
<1> SUFFICES ASSUME Nat \ G # {} PROVE FALSE
  OBVIOUS
<1>1. PICK m \in Nat \ G : \A k \in Nat \ G : m <= k
  BY LeastNat
<1>2. m # 0 /\ m - 1 \in Nat
  BY <1>1
<1>3. m - 1 \in G
  BY <1>1, <1>2
<1>4. (m - 1) + 1 \in G
  BY <1>2, <1>3
<1> QED
  BY <1>1, <1>2, <1>4

(* A family with every subset all of whose predecessors it has, has them all. *)
LEMMA EverySubset ==
    ASSUME NEW S, IsFiniteSet(S), NEW G,
           \A T \in SUBSET S : (\A x \in T : T \ {x} \in G) => T \in G
    PROVE  SUBSET S \subseteq G
<1> DEFINE sizes == {Cardinality(T) : T \in (SUBSET S) \ G}
<1> SUFFICES ASSUME (SUBSET S) \ G # {} PROVE FALSE
  OBVIOUS
<1>1. \A T \in SUBSET S : IsFiniteSet(T) /\ Cardinality(T) \in Nat
  BY FS_Subset, FS_CardinalityType
<1>2. sizes \subseteq Nat /\ sizes # {}
  BY <1>1
<1>3. PICK m \in sizes : \A k \in sizes : m <= k
  <2> HIDE DEF sizes
  <2> QED
    BY <1>2, LeastNat
<1>4. PICK T \in (SUBSET S) \ G : m = Cardinality(T)
  OBVIOUS
<1>5. ASSUME NEW x \in T PROVE T \ {x} \in G
  <2>1. Cardinality(T \ {x}) = Cardinality(T) - 1 /\ T \ {x} \in SUBSET S
    BY <1>1, FS_RemoveElement
  <2>2. ~(m <= Cardinality(T \ {x})) 
    BY <1>1, <1>4, <2>1
  <2>3. Cardinality(T \ {x}) \notin sizes
    <3> HIDE DEF sizes
    <3> QED
      BY <1>3, <2>2
  <2> QED
    BY <2>1, <2>3
<1> QED
  BY <1>4, <1>5

(* One step of a sum: one element, whichever it is, and the sum of the rest. *)
SumStep(f, g, T) == IF T = {} THEN 0 ELSE LET x == CHOOSE y \in T : TRUE IN f[x] + g[T \ {x}]

LEMMA SumExists ==
    ASSUME NEW f, NEW S, IsFiniteSet(S)
    PROVE  \E g : g = [T \in SUBSET S |-> SumStep(f, g, T)]
<1>1. \A T \in SUBSET S : IsFiniteSet(T) /\ Cardinality(T) \in Nat
  BY FS_Subset, FS_CardinalityType
<1> DEFINE Agrees(g, n) == \A T \in SUBSET S : Cardinality(T) <= n => g[T] = SumStep(f, g, T)
           G == {n \in Nat : \E g : Agrees(g, n)}
<1>2. 0 \in G
  <2> DEFINE g == [T \in SUBSET S |-> 0]
  <2>1. ASSUME NEW T \in SUBSET S, Cardinality(T) <= 0 PROVE g[T] = SumStep(f, g, T)
    <3>1. T = {}
      BY <1>1, <2>1, FS_EmptySet
    <3> QED
      BY <3>1 DEF SumStep
  <2>2. Agrees(g, 0)
    BY <2>1
  <2> HIDE DEF g
  <2> QED
    BY <2>2
<1>3. ASSUME NEW n \in Nat, n \in G PROVE n + 1 \in G
  <2>1. PICK g : Agrees(g, n)
    BY <1>3
  <2> DEFINE h == [T \in SUBSET S |-> SumStep(f, g, T)]
  <2>2. ASSUME NEW T \in SUBSET S, Cardinality(T) <= n + 1 PROVE h[T] = SumStep(f, h, T)
    <3>1. CASE T = {}
      BY <3>1 DEF SumStep
    <3>2. CASE T # {}
      <4> DEFINE x == CHOOSE y \in T : TRUE
      <4>1. x \in T
        BY <3>2
      <4>2. T \ {x} \in SUBSET S /\ Cardinality(T \ {x}) = Cardinality(T) - 1
        BY <1>1, <4>1, FS_RemoveElement
      <4>3. h[T \ {x}] = g[T \ {x}]
        BY <1>1, <2>1, <2>2, <4>2
      <4> QED
        BY <3>2, <4>3 DEF SumStep
    <3> QED
      BY <3>1, <3>2
  <2>3. Agrees(h, n + 1)
    BY <2>2
  <2> HIDE DEF h
  <2> QED
    BY <2>3
<1>4. Cardinality(S) \in G
  <2> HIDE DEF G
  <2> QED
    BY <1>1, <1>2, <1>3, EveryNat
<1>5. PICK g : Agrees(g, Cardinality(S))
  BY <1>4
<1>6. \A T \in SUBSET S : g[T] = SumStep(f, g, T)
  BY <1>1, <1>5, FS_Subset
<1> DEFINE h == [T \in SUBSET S |-> g[T]]
<1>7. ASSUME NEW T \in SUBSET S PROVE h[T] = SumStep(f, h, T)
  <2>1. CASE T = {}
    BY <1>6, <2>1 DEF SumStep
  <2>2. CASE T # {}
    <3>1. (CHOOSE y \in T : TRUE) \in T
      BY <2>2
    <3> QED
      BY <1>6, <2>2, <3>1 DEF SumStep
  <2> QED
    BY <2>1, <2>2
<1>8. h = [T \in SUBSET S |-> SumStep(f, h, T)]
  <2>1. \A T \in SUBSET S : h[T] = SumStep(f, h, T)
    BY <1>7
  <2>2. h = [T \in SUBSET S |-> h[T]]
    OBVIOUS
  <2> HIDE DEF h
  <2> QED
    BY <2>1, <2>2
<1> HIDE DEF h
<1> QED
  BY <1>8

(* What a sum of the library is: the value of such a function at the whole set. *)
LEMMA SumIs ==
    ASSUME NEW f, NEW S, IsFiniteSet(S)
    PROVE  \E g : /\ \A T \in SUBSET S : g[T] = SumStep(f, g, T)
                  /\ SumFunctionOnSet(f, S) = g[S]
<1> DEFINE g == CHOOSE h : h = [T \in SUBSET S |-> SumStep(f, h, T)]
<1>1. g = [T \in SUBSET S |-> SumStep(f, g, T)]
  BY SumExists
<1>2. SumFunctionOnSet(f, S) = g[S]
  BY DEF SumFunctionOnSet, FoldFunctionOnSet, MapThenFoldSet, SumStep
<1> HIDE DEF g
<1> QED
  BY <1>1, <1>2

(* The sums of the subsets depend on the summands alone. *)
LEMMA SumUnique ==
    ASSUME NEW f1, NEW f2, NEW S, IsFiniteSet(S), \A x \in S : f1[x] = f2[x],
           NEW g1, NEW g2, \A T \in SUBSET S : g1[T] = SumStep(f1, g1, T), \A T \in SUBSET S : g2[T] = SumStep(f2, g2, T)
    PROVE  \A T \in SUBSET S : g1[T] = g2[T]
<1> DEFINE G == {T \in SUBSET S : g1[T] = g2[T]}
<1>1. ASSUME NEW T \in SUBSET S, \A x \in T : T \ {x} \in G PROVE T \in G
  <2>1. CASE T = {}
    BY <2>1 DEF SumStep
  <2>2. CASE T # {}
    <3> DEFINE y == CHOOSE y \in T : TRUE
    <3>1. y \in T /\ y \in S /\ T \ {y} \in SUBSET S
      BY <2>2
    <3>2. g1[T \ {y}] = g2[T \ {y}] /\ f1[y] = f2[y]
      BY <1>1, <3>1
    <3>3. g1[T] = f1[y] + g1[T \ {y}] /\ g2[T] = f2[y] + g2[T \ {y}]
      BY <2>2 DEF SumStep
    <3> HIDE DEF y
    <3> QED
      BY <3>2, <3>3
  <2> QED
    BY <2>1, <2>2
<1>2. SUBSET S \subseteq G
  <2> HIDE DEF G
  <2> QED
    BY <1>1, EverySubset
<1> QED
  BY <1>2

LEMMA SumSame ==
    ASSUME NEW f1, NEW f2, NEW S, IsFiniteSet(S), \A x \in S : f1[x] = f2[x]
    PROVE  SumFunctionOnSet(f1, S) = SumFunctionOnSet(f2, S)
<1>1. PICK g1 : (\A T \in SUBSET S : g1[T] = SumStep(f1, g1, T)) /\ SumFunctionOnSet(f1, S) = g1[S]
  BY SumIs
<1>2. PICK g2 : (\A T \in SUBSET S : g2[T] = SumStep(f2, g2, T)) /\ SumFunctionOnSet(f2, S) = g2[S]
  BY SumIs
<1> QED
  BY <1>1, <1>2, SumUnique

(* The sum over nothing, and over something. *)
LEMMA SumUnfolds ==
    ASSUME NEW f, NEW S, IsFiniteSet(S)
    PROVE  /\ S = {} => SumFunctionOnSet(f, S) = 0
           /\ S # {} => LET x == CHOOSE y \in S : TRUE
                        IN SumFunctionOnSet(f, S) = f[x] + SumFunctionOnSet(f, S \ {x})
<1>1. PICK g : (\A T \in SUBSET S : g[T] = SumStep(f, g, T)) /\ SumFunctionOnSet(f, S) = g[S]
  BY SumIs
<1>2. CASE S = {}
  BY <1>1, <1>2 DEF SumStep
<1>3. CASE S # {}
  <2> DEFINE x == CHOOSE y \in S : TRUE
  <2>1. x \in S
    BY <1>3
  <2> HIDE DEF x
  <2>2. IsFiniteSet(S \ {x})
    BY FS_Subset
  <2> DEFINE rest == S \ {x}
  <2>3. PICK h : (\A T \in SUBSET rest : h[T] = SumStep(f, h, T)) /\ SumFunctionOnSet(f, rest) = h[rest]
    BY <2>2, SumIs
  <2>4. (\A T \in SUBSET rest : g[T] = SumStep(f, g, T)) /\ rest \in SUBSET rest /\ IsFiniteSet(rest)
    BY <1>1, <2>2
  <2>5. g[rest] = h[rest]
    <3>1. \A u \in rest : f[u] = f[u]
      OBVIOUS
    <3> HIDE DEF rest
    <3>2. \A T \in SUBSET rest : g[T] = h[T]
      BY <2>3, <2>4, <3>1, SumUnique
    <3> QED
      BY <2>4, <3>2
  <2>6. g[S] = f[x] + g[S \ {x}]
    BY <1>1, <1>3 DEF SumStep, x
  <2> QED
    BY <1>1, <1>3, <2>3, <2>5, <2>6 DEF x
<1> QED
  BY <1>2, <1>3

LEMMA SumType ==
    ASSUME NEW f, NEW S, IsFiniteSet(S), \A x \in S : f[x] \in Int
    PROVE  SumFunctionOnSet(f, S) \in Int
<1> DEFINE G == {T \in SUBSET S : SumFunctionOnSet(f, T) \in Int}
<1>1. ASSUME NEW T \in SUBSET S, \A x \in T : T \ {x} \in G PROVE T \in G
  <2>1. IsFiniteSet(T)
    BY FS_Subset
  <2>2. CASE T = {}
    <3>1. SumFunctionOnSet(f, T) = 0
      BY <2>1, <2>2, SumUnfolds
    <3> QED
      BY <3>1
  <2>3. CASE T # {}
    <3> DEFINE x == CHOOSE y \in T : TRUE
    <3>1. x \in T
      BY <2>3
    <3>2. SumFunctionOnSet(f, T) = f[x] + SumFunctionOnSet(f, T \ {x})
      BY <2>1, <2>3, SumUnfolds
    <3> HIDE DEF x
    <3> QED
      BY <1>1, <3>1, <3>2
  <2> QED
    BY <2>2, <2>3
<1>2. SUBSET S \subseteq G
  <2> HIDE DEF G
  <2> QED
    BY <1>1, EverySubset
<1> QED
  BY <1>2

(* Any summand may be taken out first. *)
LEMMA SumTakesOut ==
    ASSUME NEW f, NEW S, IsFiniteSet(S), \A x \in S : f[x] \in Int, NEW x \in S
    PROVE  SumFunctionOnSet(f, S) = f[x] + SumFunctionOnSet(f, S \ {x})
<1> DEFINE G == {T \in SUBSET S : \A y \in T : SumFunctionOnSet(f, T) = f[y] + SumFunctionOnSet(f, T \ {y})}
<1>0. \A T \in SUBSET S : IsFiniteSet(T) /\ SumFunctionOnSet(f, T) \in Int
  BY FS_Subset, SumType
<1>1. ASSUME NEW T \in SUBSET S, \A y \in T : T \ {y} \in G PROVE T \in G
  <2> SUFFICES ASSUME NEW y \in T PROVE SumFunctionOnSet(f, T) = f[y] + SumFunctionOnSet(f, T \ {y})
    OBVIOUS
  <2> DEFINE z == CHOOSE u \in T : TRUE
  <2>1. z \in T
    OBVIOUS
  <2>2. SumFunctionOnSet(f, T) = f[z] + SumFunctionOnSet(f, T \ {z})
    BY <1>0, SumUnfolds
  <2> HIDE DEF z
  <2>3. CASE z # y
    <3>1. y \in T \ {z} /\ z \in T \ {y} /\ (T \ {z}) \ {y} = (T \ {y}) \ {z}
      BY <2>1, <2>3
    <3>2. SumFunctionOnSet(f, T \ {z}) = f[y] + SumFunctionOnSet(f, (T \ {z}) \ {y})
      BY <1>1, <2>1, <3>1
    <3>3. SumFunctionOnSet(f, T \ {y}) = f[z] + SumFunctionOnSet(f, (T \ {y}) \ {z})
      BY <1>1, <3>1
    <3>4. SumFunctionOnSet(f, (T \ {y}) \ {z}) \in Int /\ f[y] \in Int /\ f[z] \in Int
      BY <1>0, <2>1
    <3>5. SumFunctionOnSet(f, T \ {z}) = f[y] + SumFunctionOnSet(f, (T \ {y}) \ {z})
      BY <3>1, <3>2
    <3> QED
      BY <2>2, <3>3, <3>4, <3>5
  <2> QED
    BY <2>2, <2>3
<1>2. SUBSET S \subseteq G
  <2> HIDE DEF G
  <2> QED
    BY <1>1, EverySubset
<1> QED
  BY <1>2

(* Changing one summand changes the sum by as much. *)
LEMMA SumChanges ==
    ASSUME NEW f, NEW g, NEW S, IsFiniteSet(S), \A y \in S : f[y] \in Int /\ g[y] \in Int,
           NEW x \in S, \A y \in S \ {x} : g[y] = f[y]
    PROVE  /\ SumFunctionOnSet(f, S) \in Int /\ SumFunctionOnSet(g, S) \in Int
           /\ SumFunctionOnSet(g, S) = SumFunctionOnSet(f, S) - f[x] + g[x]
<1>1. IsFiniteSet(S \ {x}) /\ SumFunctionOnSet(g, S) \in Int /\ SumFunctionOnSet(f, S) \in Int
  BY FS_Subset, SumType
<1>2. SumFunctionOnSet(f, S) = f[x] + SumFunctionOnSet(f, S \ {x})
  BY SumTakesOut
<1>3. SumFunctionOnSet(g, S) = g[x] + SumFunctionOnSet(g, S \ {x})
  BY SumTakesOut
<1>4. SumFunctionOnSet(g, S \ {x}) = SumFunctionOnSet(f, S \ {x})
  BY <1>1, SumSame
<1>5. SumFunctionOnSet(f, S \ {x}) \in Int
  BY <1>1, SumType
<1> QED
  BY <1>1, <1>2, <1>3, <1>4, <1>5

(* A sum of at most as much each is at most as much for each. *)
LEMMA SumBounded ==
    ASSUME NEW f, NEW S, IsFiniteSet(S), NEW b \in Int, \A x \in S : f[x] \in Int /\ f[x] <= b
    PROVE  SumFunctionOnSet(f, S) \in Int /\ SumFunctionOnSet(f, S) <= Cardinality(S) * b
<1> DEFINE G == {T \in SUBSET S : SumFunctionOnSet(f, T) <= Cardinality(T) * b}
<1>0. \A T \in SUBSET S : IsFiniteSet(T) /\ SumFunctionOnSet(f, T) \in Int /\ Cardinality(T) \in Nat
  BY FS_Subset, SumType, FS_CardinalityType
<1>1. ASSUME NEW T \in SUBSET S, \A y \in T : T \ {y} \in G PROVE T \in G
  <2>1. CASE T = {}
    <3>1. SumFunctionOnSet(f, T) = 0 /\ Cardinality(T) = 0
      BY <1>0, <2>1, SumUnfolds, FS_EmptySet
    <3> QED
      BY <3>1
  <2>2. CASE T # {}
    <3>1. PICK x \in T : TRUE
      BY <2>2
    <3>2. SumFunctionOnSet(f, T) = f[x] + SumFunctionOnSet(f, T \ {x})
      BY <1>0, SumTakesOut
    <3>3. Cardinality(T \ {x}) = Cardinality(T) - 1
      BY <1>0, FS_RemoveElement
    <3>4. SumFunctionOnSet(f, T \ {x}) <= (Cardinality(T) - 1) * b
      BY <1>1, <3>3
    <3>5. (Cardinality(T) - 1) * b = Cardinality(T) * b - b
      BY <1>0
    <3>6. SumFunctionOnSet(f, T \ {x}) \in Int /\ f[x] <= b /\ f[x] \in Int /\ Cardinality(T) * b \in Int
      BY <1>0
    <3> QED
      BY <3>2, <3>4, <3>5, <3>6
  <2> QED
    BY <2>1, <2>2
<1>2. SUBSET S \subseteq G
  <2> HIDE DEF G
  <2> QED
    BY <1>1, EverySubset
<1> QED
  BY <1>0, <1>2

LEMMA SumZero ==
    ASSUME NEW f, NEW S, IsFiniteSet(S), \A x \in S : f[x] = 0
    PROVE  SumFunctionOnSet(f, S) = 0
<1> DEFINE G == {T \in SUBSET S : SumFunctionOnSet(f, T) = 0}
<1>1. ASSUME NEW T \in SUBSET S, \A x \in T : T \ {x} \in G PROVE T \in G
  <2>1. IsFiniteSet(T)
    BY FS_Subset
  <2>2. CASE T = {}
    BY <2>1, <2>2, SumUnfolds
  <2>3. CASE T # {}
    <3> DEFINE x == CHOOSE y \in T : TRUE
    <3>1. x \in T
      BY <2>3
    <3>2. SumFunctionOnSet(f, T) = f[x] + SumFunctionOnSet(f, T \ {x})
      BY <2>1, <2>3, SumUnfolds
    <3> HIDE DEF x
    <3> QED
      BY <1>1, <3>1, <3>2
  <2> QED
    BY <2>2, <2>3
<1>2. SUBSET S \subseteq G
  <2> HIDE DEF G
  <2> QED
    BY <1>1, EverySubset
<1> QED
  BY <1>2

LEMMA SmallerOfTwo == \A a, b \in Int : Min({a, b}) = IF a <= b THEN a ELSE b
<1> SUFFICES ASSUME NEW a \in Int, NEW b \in Int PROVE Min({a, b}) = IF a <= b THEN a ELSE b
  OBVIOUS
<1>1. CASE a <= b
  <2>1. \A x \in {a, b} : (\A y \in {a, b} : x =< y) => x = a
    BY <1>1
  <2>2. a \in {a, b} /\ \A y \in {a, b} : a =< y
    BY <1>1
  <2> QED
    BY <1>1, <2>1, <2>2 DEF Min
<1>2. CASE ~(a <= b)
  <2>1. \A x \in {a, b} : (\A y \in {a, b} : x =< y) => x = b
    BY <1>2
  <2>2. b \in {a, b} /\ \A y \in {a, b} : b =< y
    BY <1>2
  <2> QED
    BY <1>2, <2>1, <2>2 DEF Min
<1> QED
  BY <1>1, <1>2

-----------------------------------------------------------------------------
(* ScopedBudget: what the spaces spend, and what is set aside.             *)

CreditSet == [sid : Ids, left : 0 .. CreditSize]

BudgetTyped ==
    /\ probes \in [Ids -> Nat] /\ charged \in Int /\ reserved \in [Ids -> Int]
    /\ credit \in [Credits -> CreditSet \cup {NoCredit}]
    /\ bytesRead \in [Ids -> SUBSET Sources] /\ derived \in [Ids -> SUBSET Sources]
    /\ \A sid \in Ids : IsFiniteSet(bytesRead[sid]) /\ IsFiniteSet(derived[sid])
    /\ parseLeft \in [Ids -> Nat] /\ parsed \in [Ids -> Nat]

(* What is charged and what is set aside fit together, for each space and for all. *)
WithinCeilings ==
    /\ \A sid \in Ids : probes[sid] + reserved[sid] <= Share
    /\ charged + SumFunction(reserved) <= ProbeCeiling

(* Parse probes, used or left, come from sources derived; those from sources read. *)
ParseKnown ==
    \A sid \in Ids :
       /\ parsed[sid] + parseLeft[sid] <= ParseFactor * SourceBytes * Cardinality(derived[sid])
       /\ Cardinality(derived[sid]) <= Cardinality(bytesRead[sid])

BudgetInv == BudgetTyped /\ WithinCeilings /\ CountersAgree /\ ParseKnown

LEMMA BudgetNumbers ==
    /\ Share \in Int /\ CreditSize \in Nat \ {0} /\ ProbeCeiling \in Nat
    /\ ParseFactor * SourceBytes \in Nat
    /\ IsFiniteSet(Ids) /\ IsFiniteSet(Credits)
<1>1. Cardinality(Ids) \in Nat /\ Cardinality(Ids) # 0
  BY BudgetAssumption, FS_CardinalityType, FS_EmptySet
<1>2. Share \in Int
  BY <1>1, BudgetAssumption DEF Share
<1>3. ParseFactor * SourceBytes \in Nat
  BY BudgetAssumption
<1> QED
  BY <1>2, <1>3, BudgetAssumption

LEMMA BudgetStart == BudgetInit => BudgetInv
<1> SUFFICES ASSUME BudgetInit PROVE BudgetInv
  OBVIOUS
<1>1. BudgetTyped
  BY FS_EmptySet DEF BudgetInit, BudgetTyped
<1>2. SumFunction(reserved) = 0 /\ SumFunction(probes) = 0
  BY BudgetNumbers, SumZero DEF BudgetInit, SumFunction
<1>3. ASSUME NEW sid \in Ids PROVE SumFunction(LeftOf(sid)) = 0
  <2>1. \A c \in Credits : LeftOf(sid)[c] = 0
    BY DEF LeftOf, BudgetInit, NoCredit
  <2>2. DOMAIN LeftOf(sid) = Credits
    BY DEF LeftOf
  <2> QED
    BY <2>1, <2>2, BudgetNumbers, SumZero DEF SumFunction
<1>4. Share >= 0
  <2>1. Cardinality(Ids) \in Nat /\ Cardinality(Ids) # 0
    BY BudgetAssumption, FS_CardinalityType, FS_EmptySet
  <2> QED
    BY <2>1, BudgetAssumption DEF Share
<1>5. WithinCeilings
  BY <1>2, <1>4, BudgetNumbers DEF WithinCeilings, BudgetInit
<1>6. CountersAgree
  BY <1>2, <1>3 DEF CountersAgree, BudgetInit
<1>7. ParseKnown
  BY BudgetNumbers, FS_EmptySet DEF ParseKnown, BudgetInit
<1> QED
  BY <1>1, <1>5, <1>6, <1>7 DEF BudgetInv

(* What remains is what its two counters leave. *)
LEMMA RemainingIs ==
    ASSUME BudgetTyped, NEW sid \in Ids
    PROVE  /\ SumFunction(reserved) \in Int
           /\ \A n \in Int : RemainingProbes(sid) >= n <=>
                 /\ charged + SumFunction(reserved) + n <= ProbeCeiling
                 /\ probes[sid] + reserved[sid] + n <= Share
<1>1. SumFunction(reserved) \in Int
  BY BudgetNumbers, SumType DEF BudgetTyped, SumFunction
<1>2. probes[sid] \in Int /\ reserved[sid] \in Int /\ charged \in Int
  BY DEF BudgetTyped
<1> DEFINE a == ProbeCeiling - charged - SumFunction(reserved)
           b == Share - probes[sid] - reserved[sid]
<1>3. a \in Int /\ b \in Int
  BY <1>1, <1>2, BudgetNumbers
<1>4. RemainingProbes(sid) = IF a <= b THEN a ELSE b
  <2>1. RemainingProbes(sid) = Min({a, b})
    BY DEF RemainingProbes
  <2> HIDE DEF a, b
  <2> QED
    BY <1>3, <2>1, SmallerOfTwo
<1> QED
  BY <1>1, <1>2, <1>4, BudgetNumbers

(* A credit and the reservation of its space change together. *)
LEMMA LedgerMoves ==
    ASSUME BudgetInv, NEW c \in Credits, NEW sid \in Ids, NEW k \in CreditSet \cup {NoCredit},
           credit[c].sid = sid \/ credit[c].left = 0, k.sid = sid \/ k.left = 0,
           credit' = [credit EXCEPT ![c] = k],
           reserved' = [reserved EXCEPT ![sid] = @ + (k.left - credit[c].left)]
    PROVE  /\ credit' \in [Credits -> CreditSet \cup {NoCredit}] /\ reserved' \in [Ids -> Int]
           /\ SumFunction(reserved)' = SumFunction(reserved) + (k.left - credit[c].left)
           /\ \A t \in Ids : reserved'[t] = SumFunction(LeftOf(t))'
<1>1. \A e \in CreditSet \cup {NoCredit} : e.left \in Int
  BY BudgetNumbers DEF CreditSet, NoCredit
<1>2. \A d \in Credits : credit[d] \in CreditSet \cup {NoCredit} /\ credit'[d] \in CreditSet \cup {NoCredit}
  BY DEF BudgetInv, BudgetTyped
<1>3. /\ credit' \in [Credits -> CreditSet \cup {NoCredit}] /\ reserved' \in [Ids -> Int]
      /\ reserved'[sid] = reserved[sid] + (k.left - credit[c].left)
      /\ \A t \in Ids \ {sid} : reserved'[t] = reserved[t]
  BY <1>1, <1>2 DEF BudgetInv, BudgetTyped
<1>4. SumFunction(reserved)' = SumFunction(reserved) + (k.left - credit[c].left)
  <2>1. DOMAIN reserved = Ids /\ DOMAIN reserved' = Ids /\ \A t \in Ids : reserved[t] \in Int /\ reserved'[t] \in Int
    BY <1>3 DEF BudgetInv, BudgetTyped
  <2>2. /\ SumFunctionOnSet(reserved, Ids) \in Int
        /\ SumFunctionOnSet(reserved', Ids) = SumFunctionOnSet(reserved, Ids) - reserved[sid] + reserved'[sid]
    <3> DEFINE f == reserved
               g == reserved'
    <3>1. (\A t \in Ids : f[t] \in Int /\ g[t] \in Int) /\ \A t \in Ids \ {sid} : g[t] = f[t]
      BY <1>3, <2>1
    <3> HIDE DEF f, g
    <3>2. SumFunctionOnSet(f, Ids) \in Int /\ SumFunctionOnSet(g, Ids) = SumFunctionOnSet(f, Ids) - f[sid] + g[sid]
      BY <3>1, BudgetNumbers, SumChanges
    <3> QED
      BY <3>2 DEF f, g
  <2>3. SumFunctionOnSet(reserved', Ids) = SumFunctionOnSet(reserved, Ids) + (k.left - credit[c].left)
    BY <1>1, <1>2, <1>3, <2>1, <2>2
  <2> QED
    BY <2>1, <2>3 DEF SumFunction
<1>5. ASSUME NEW t \in Ids PROVE reserved'[t] = SumFunction(LeftOf(t))'
  <2> DEFINE f == LeftOf(t)
             g == [d \in Credits |-> IF credit'[d].sid = t THEN credit'[d].left ELSE 0]
  <2>1. \A d \in Credits : f[d] \in Int /\ g[d] \in Int
    BY <1>1, <1>2 DEF LeftOf
  <2>2. \A d \in Credits \ {c} : g[d] = f[d]
    BY DEF LeftOf, BudgetInv, BudgetTyped
  <2>3. g[c] = (IF k.sid = t THEN k.left ELSE 0) /\ f[c] = (IF credit[c].sid = t THEN credit[c].left ELSE 0)
    BY DEF LeftOf, BudgetInv, BudgetTyped
  <2>4. LeftOf(t)' = g /\ DOMAIN f = Credits /\ DOMAIN g = Credits
    BY DEF LeftOf
  <2>5. reserved[t] = SumFunctionOnSet(f, Credits)
    BY <2>4 DEF BudgetInv, CountersAgree, SumFunction
  <2>6. SumFunction(LeftOf(t))' = SumFunctionOnSet(g, Credits)
    BY <2>4 DEF SumFunction
  <2>7. reserved'[t] = reserved[t] - f[c] + g[c]
    <3>1. CASE t = sid
      BY <1>1, <1>2, <1>3, <2>3, <3>1 DEF BudgetInv, BudgetTyped
    <3>2. CASE t # sid
      BY <1>3, <2>3, <3>2 DEF BudgetInv, BudgetTyped
    <3> QED
      BY <3>1, <3>2
  <2> HIDE DEF f, g
  <2>8. SumFunctionOnSet(g, Credits) = SumFunctionOnSet(f, Credits) - f[c] + g[c]
    BY <2>1, <2>2, BudgetNumbers, SumChanges
  <2> QED
    BY <2>5, <2>6, <2>7, <2>8
<1> QED
  BY <1>3, <1>4, <1>5

(* A probe charged to a space is charged to all of them. *)
LEMMA ChargeCounts ==
    ASSUME BudgetInv, NEW sid \in Ids, probes' = [probes EXCEPT ![sid] = @ + 1], charged' = charged + 1
    PROVE  probes' \in [Ids -> Nat] /\ charged' \in Int /\ (charged = SumFunction(probes))'
<1>1. /\ probes' \in [Ids -> Nat] /\ DOMAIN probes = Ids /\ DOMAIN probes' = Ids
      /\ probes'[sid] = probes[sid] + 1 /\ \A t \in Ids \ {sid} : probes'[t] = probes[t]
  BY DEF BudgetInv, BudgetTyped
<1>2. \A t \in Ids : probes[t] \in Int /\ probes'[t] \in Int
  BY <1>1 DEF BudgetInv, BudgetTyped
<1>3. /\ SumFunctionOnSet(probes, Ids) \in Int
      /\ SumFunctionOnSet(probes', Ids) = SumFunctionOnSet(probes, Ids) - probes[sid] + probes'[sid]
  <2> DEFINE f == probes
             g == probes'
  <2>1. (\A t \in Ids : f[t] \in Int /\ g[t] \in Int) /\ \A t \in Ids \ {sid} : g[t] = f[t]
    BY <1>1, <1>2
  <2> HIDE DEF f, g
  <2>2. SumFunctionOnSet(f, Ids) \in Int /\ SumFunctionOnSet(g, Ids) = SumFunctionOnSet(f, Ids) - f[sid] + g[sid]
    BY <2>1, BudgetNumbers, SumChanges
  <2> QED
    BY <2>2 DEF f, g
<1>4. charged \in Int /\ charged = SumFunctionOnSet(probes, Ids)
  BY <1>1 DEF BudgetInv, BudgetTyped, CountersAgree, SumFunction
<1>5. charged' = SumFunctionOnSet(probes', Ids)
  BY <1>1, <1>2, <1>3, <1>4
<1> QED
  BY <1>1, <1>4, <1>5 DEF SumFunction

LEMMA ReserveKeeps == ASSUME BudgetInv, NEW sid \in Ids, NEW c \in Credits, ReserveCleanup(sid, c) PROVE BudgetInv'
<1> DEFINE k == [sid |-> sid, left |-> CreditSize]
<1>1. /\ credit[c].left = 0 /\ CreditFits(sid) /\ credit' = [credit EXCEPT ![c] = k]
      /\ reserved' = [reserved EXCEPT ![sid] = @ + (k.left - credit[c].left)]
      /\ UNCHANGED <<probes, charged, bytesRead, derived, parseLeft, parsed>>
  <2>1. credit[c].left = 0 /\ k.left - credit[c].left = CreditSize
    BY BudgetNumbers DEF ReserveCleanup, NoCredit
  <2> QED
    BY <2>1 DEF ReserveCleanup
<1>2. k \in CreditSet /\ k.sid = sid /\ k.left = CreditSize
  BY BudgetNumbers DEF CreditSet
<1> HIDE DEF k
<1>3. /\ credit' \in [Credits -> CreditSet \cup {NoCredit}] /\ reserved' \in [Ids -> Int]
      /\ SumFunction(reserved)' = SumFunction(reserved) + CreditSize
      /\ \A t \in Ids : reserved'[t] = SumFunction(LeftOf(t))'
  <2>1. SumFunction(reserved)' = SumFunction(reserved) + (k.left - credit[c].left)
    BY <1>1, <1>2, LedgerMoves
  <2>2. k.left - credit[c].left = CreditSize
    BY <1>1, <1>2, BudgetNumbers
  <2>3. /\ credit' \in [Credits -> CreditSet \cup {NoCredit}] /\ reserved' \in [Ids -> Int]
        /\ \A t \in Ids : reserved'[t] = SumFunction(LeftOf(t))'
    BY <1>1, <1>2, LedgerMoves
  <2> QED
    BY <2>1, <2>2, <2>3
<1>4. BudgetTyped' /\ CountersAgree' /\ ParseKnown'
  BY <1>1, <1>3 DEF BudgetInv, BudgetTyped, CountersAgree, ParseKnown
<1>5. WithinCeilings'
  <2>1. /\ SumFunction(reserved) \in Int /\ charged + SumFunction(reserved) + CreditSize <= ProbeCeiling
        /\ probes[sid] + reserved[sid] + CreditSize <= Share
    BY <1>1, BudgetNumbers, RemainingIs DEF CreditFits, BudgetInv
  <2>2. reserved'[sid] = reserved[sid] + CreditSize /\ \A t \in Ids \ {sid} : reserved'[t] = reserved[t]
    BY <1>1, <1>2, BudgetNumbers DEF BudgetInv, BudgetTyped
  <2> QED
    BY <1>1, <1>3, <2>1, <2>2, BudgetNumbers DEF BudgetInv, BudgetTyped, WithinCeilings
<1> QED
  BY <1>4, <1>5 DEF BudgetInv

LEMMA ChargeKeeps == ASSUME BudgetInv, NEW sid \in Ids, ChargeProbe(sid) PROVE BudgetInv'
<1>1. /\ RemainingProbes(sid) >= 1 /\ probes' = [probes EXCEPT ![sid] = @ + 1] /\ charged' = charged + 1
      /\ UNCHANGED <<reserved, credit, bytesRead, derived, parseLeft, parsed>>
  BY DEF ChargeProbe
<1>2. probes' \in [Ids -> Nat] /\ charged' \in Int /\ (charged = SumFunction(probes))'
  BY <1>1, ChargeCounts
<1>3. BudgetTyped' /\ CountersAgree' /\ ParseKnown'
  BY <1>1, <1>2 DEF BudgetInv, BudgetTyped, CountersAgree, ParseKnown, LeftOf
<1>4. WithinCeilings'
  <2>1. /\ SumFunction(reserved) \in Int /\ charged + SumFunction(reserved) + 1 <= ProbeCeiling
        /\ probes[sid] + reserved[sid] + 1 <= Share
    BY <1>1, RemainingIs DEF BudgetInv
  <2>2. probes'[sid] = probes[sid] + 1 /\ \A t \in Ids \ {sid} : probes'[t] = probes[t]
    BY <1>1 DEF BudgetInv, BudgetTyped
  <2> QED
    BY <1>1, <2>1, <2>2, BudgetNumbers DEF BudgetInv, BudgetTyped, WithinCeilings
<1> QED
  BY <1>3, <1>4 DEF BudgetInv

LEMMA CleanupProbeKeeps == ASSUME BudgetInv, NEW c \in Credits, CleanupProbe(c) PROVE BudgetInv'
<1> DEFINE sid == credit[c].sid
           k == [credit[c] EXCEPT !.left = @ - 1]
<1>1. credit[c] \in CreditSet /\ credit[c].left \in Nat /\ credit[c].left > 0 /\ sid \in Ids
  BY BudgetNumbers DEF CleanupProbe, BudgetInv, BudgetTyped, NoCredit, CreditSet
<1>2. k \in CreditSet /\ k.sid = sid /\ k.left - credit[c].left = -1
  BY <1>1, BudgetNumbers DEF CreditSet
<1>3. /\ credit' = [credit EXCEPT ![c] = k] /\ reserved' = [reserved EXCEPT ![sid] = @ - 1]
      /\ probes' = [probes EXCEPT ![sid] = @ + 1] /\ charged' = charged + 1
      /\ UNCHANGED <<bytesRead, derived, parseLeft, parsed>>
  BY DEF CleanupProbe
<1> HIDE DEF k
<1>4. reserved' = [reserved EXCEPT ![sid] = @ + (k.left - credit[c].left)]
  BY <1>1, <1>2, <1>3 DEF BudgetInv, BudgetTyped
<1>5. /\ credit' \in [Credits -> CreditSet \cup {NoCredit}] /\ reserved' \in [Ids -> Int]
      /\ SumFunction(reserved)' = SumFunction(reserved) + (k.left - credit[c].left)
      /\ \A t \in Ids : reserved'[t] = SumFunction(LeftOf(t))'
  BY <1>1, <1>2, <1>3, <1>4, LedgerMoves
<1>6. probes' \in [Ids -> Nat] /\ charged' \in Int /\ (charged = SumFunction(probes))'
  BY <1>1, <1>3, ChargeCounts
<1>7. BudgetTyped' /\ CountersAgree' /\ ParseKnown'
  BY <1>3, <1>5, <1>6 DEF BudgetInv, BudgetTyped, CountersAgree, ParseKnown
<1>8. WithinCeilings'
  <2>1. SumFunction(reserved) \in Int /\ SumFunction(reserved)' = SumFunction(reserved) - 1
    <3>1. SumFunction(reserved) \in Int
      BY <1>1, RemainingIs DEF BudgetInv
    <3> QED
      BY <1>2, <1>5, <3>1
  <2>2. /\ probes'[sid] = probes[sid] + 1 /\ reserved'[sid] = reserved[sid] - 1
        /\ \A t \in Ids \ {sid} : probes'[t] = probes[t] /\ reserved'[t] = reserved[t]
    BY <1>1, <1>3 DEF BudgetInv, BudgetTyped
  <2> HIDE DEF sid
  <2> QED
    BY <1>1, <1>3, <2>1, <2>2, BudgetNumbers DEF BudgetInv, BudgetTyped, WithinCeilings
<1> QED
  BY <1>7, <1>8 DEF BudgetInv

LEMMA FinishKeeps == ASSUME BudgetInv, NEW c \in Credits, FinishCredit(c) PROVE BudgetInv'
<1> DEFINE sid == credit[c].sid
           left == credit[c].left
<1>1. credit[c] \in CreditSet /\ left \in Nat /\ sid \in Ids
  BY BudgetNumbers DEF FinishCredit, BudgetInv, BudgetTyped, CreditSet
<1>2. /\ credit' = [credit EXCEPT ![c] = NoCredit] /\ reserved' = [reserved EXCEPT ![sid] = @ - left]
      /\ UNCHANGED <<probes, charged, bytesRead, derived, parseLeft, parsed>>
  BY DEF FinishCredit
<1>3. NoCredit.left - credit[c].left = -left /\ NoCredit.left = 0
  BY <1>1 DEF NoCredit
<1>4. reserved' = [reserved EXCEPT ![sid] = @ + (NoCredit.left - credit[c].left)]
  BY <1>1, <1>2, <1>3 DEF BudgetInv, BudgetTyped
<1>5. /\ credit' \in [Credits -> CreditSet \cup {NoCredit}] /\ reserved' \in [Ids -> Int]
      /\ SumFunction(reserved)' = SumFunction(reserved) + (NoCredit.left - credit[c].left)
      /\ \A t \in Ids : reserved'[t] = SumFunction(LeftOf(t))'
  BY <1>1, <1>2, <1>3, <1>4, LedgerMoves
<1>6. BudgetTyped' /\ CountersAgree' /\ ParseKnown'
  BY <1>2, <1>5 DEF BudgetInv, BudgetTyped, CountersAgree, ParseKnown
<1>7. WithinCeilings'
  <2>1. SumFunction(reserved) \in Int /\ SumFunction(reserved)' = SumFunction(reserved) - left
    <3>1. SumFunction(reserved) \in Int
      BY <1>1, RemainingIs DEF BudgetInv
    <3> QED
      BY <1>1, <1>3, <1>5, <3>1
  <2>2. /\ reserved'[sid] = reserved[sid] - left
        /\ \A t \in Ids \ {sid} : reserved'[t] = reserved[t]
    BY <1>1, <1>2 DEF BudgetInv, BudgetTyped
  <2> HIDE DEF sid, left
  <2> QED
    BY <1>1, <1>2, <2>1, <2>2, BudgetNumbers DEF BudgetInv, BudgetTyped, WithinCeilings
<1> QED
  BY <1>6, <1>7 DEF BudgetInv

(* Sources are counted one by one. *)
LEMMA SourcesKeep ==
    ASSUME BudgetInv, NEW sid \in Ids,
           ParseProbe(sid) \/ \E source \in Sources : ReadSource(sid, source) \/ DeriveSource(sid, source)
    PROVE  BudgetInv'
<1> DEFINE K == ParseFactor * SourceBytes
<1>1. UNCHANGED <<probes, charged, reserved, credit>>
  BY DEF ParseProbe, ReadSource, DeriveSource
<1>2. WithinCeilings' /\ CountersAgree'
  BY <1>1 DEF BudgetInv, WithinCeilings, CountersAgree, LeftOf
<1>3. K \in Nat
  BY BudgetNumbers
<1>4. \A t \in Ids : Cardinality(derived[t]) \in Nat /\ Cardinality(bytesRead[t]) \in Nat
  BY FS_CardinalityType DEF BudgetInv, BudgetTyped
<1>5. \A t \in Ids : /\ parsed[t] + parseLeft[t] <= K * Cardinality(derived[t])
                     /\ Cardinality(derived[t]) <= Cardinality(bytesRead[t])
  BY DEF BudgetInv, ParseKnown
<1>6. CASE ParseProbe(sid)
  <2>1. BudgetTyped'
    BY <1>1, <1>6 DEF ParseProbe, BudgetInv, BudgetTyped
  <2>2. \A t \in Ids : parsed'[t] + parseLeft'[t] = parsed[t] + parseLeft[t]
    BY <1>6 DEF ParseProbe, BudgetInv, BudgetTyped
  <2>3. ParseKnown'
    BY <1>6, <2>2 DEF ParseProbe, BudgetInv, ParseKnown
  <2> QED
    BY <1>2, <2>1, <2>3 DEF BudgetInv
<1>7. ASSUME NEW source \in Sources, ReadSource(sid, source) PROVE BudgetInv'
  <2>1. /\ bytesRead' = [bytesRead EXCEPT ![sid] = @ \cup {source}]
        /\ UNCHANGED <<derived, parseLeft, parsed>> /\ source \notin bytesRead[sid]
    BY <1>7 DEF ReadSource
  <2>2. /\ IsFiniteSet(bytesRead[sid] \cup {source})
        /\ Cardinality(bytesRead[sid] \cup {source}) = Cardinality(bytesRead[sid]) + 1
    BY <2>1, FS_AddElement DEF BudgetInv, BudgetTyped
  <2>3. /\ bytesRead'[sid] = bytesRead[sid] \cup {source}
        /\ \A t \in Ids \ {sid} : bytesRead'[t] = bytesRead[t]
    BY <2>1 DEF BudgetInv, BudgetTyped
  <2>4. BudgetTyped'
    BY <1>1, <2>1, <2>2, <2>3 DEF BudgetInv, BudgetTyped
  <2>5. ASSUME NEW t \in Ids PROVE Cardinality(bytesRead[t]) <= Cardinality(bytesRead'[t])
    <3>1. CASE t = sid
      <4>1. Cardinality(bytesRead'[t]) = Cardinality(bytesRead[t]) + 1
        BY <2>2, <2>3, <3>1
      <4> QED
        BY <1>4, <4>1
    <3>2. CASE t # sid
      <4>1. bytesRead'[t] = bytesRead[t]
        BY <2>3, <3>2
      <4> QED
        BY <1>4, <4>1
    <3> QED
      BY <3>1, <3>2
  <2>6. \A t \in Ids : Cardinality(bytesRead'[t]) \in Nat
    BY <2>4, FS_CardinalityType DEF BudgetTyped
  <2>7. ParseKnown'
    <3>1. \A t \in Ids : Cardinality(derived[t]) <= Cardinality(bytesRead'[t])
      BY <1>4, <1>5, <2>5, <2>6
    <3> QED
      BY <1>5, <2>1, <3>1 DEF ParseKnown
  <2> QED
    BY <1>2, <2>4, <2>7 DEF BudgetInv
<1>8. ASSUME NEW source \in Sources, DeriveSource(sid, source) PROVE BudgetInv'
  <2>1. /\ derived' = [derived EXCEPT ![sid] = @ \cup {source}] /\ parseLeft' = [parseLeft EXCEPT ![sid] = K]
        /\ UNCHANGED <<bytesRead, parsed>> /\ source \notin derived[sid]
        /\ Cardinality(derived[sid]) < Cardinality(bytesRead[sid])
    BY <1>8 DEF DeriveSource
  <2>2. /\ IsFiniteSet(derived[sid] \cup {source})
        /\ Cardinality(derived[sid] \cup {source}) = Cardinality(derived[sid]) + 1
    BY <2>1, FS_AddElement DEF BudgetInv, BudgetTyped
  <2>3. /\ derived'[sid] = derived[sid] \cup {source} /\ parseLeft'[sid] = K
        /\ \A t \in Ids \ {sid} : derived'[t] = derived[t] /\ parseLeft'[t] = parseLeft[t]
    BY <2>1 DEF BudgetInv, BudgetTyped
  <2> HIDE DEF K
  <2>4. BudgetTyped'
    BY <1>1, <1>3, <2>1, <2>2, <2>3 DEF BudgetInv, BudgetTyped
  <2>5. K * (Cardinality(derived[sid]) + 1) = K * Cardinality(derived[sid]) + K
    BY <1>3, <1>4
  <2>6. parsed[sid] \in Nat /\ parseLeft[sid] \in Nat /\ K * Cardinality(derived[sid]) \in Nat
    BY <1>3, <1>4 DEF BudgetInv, BudgetTyped
  <2>7. parsed[sid] + K <= K * (Cardinality(derived[sid]) + 1)
    BY <1>3, <1>5, <2>5, <2>6
  <2>8. ASSUME NEW t \in Ids
        PROVE  /\ parsed'[t] + parseLeft'[t] <= K * Cardinality(derived'[t])
               /\ Cardinality(derived'[t]) <= Cardinality(bytesRead'[t])
    <3>1. CASE t = sid
      <4>1. Cardinality(derived'[t]) = Cardinality(derived[sid]) + 1 /\ parsed'[t] + parseLeft'[t] = parsed[sid] + K
        BY <2>1, <2>2, <2>3, <3>1
      <4>2. Cardinality(derived[sid]) + 1 <= Cardinality(bytesRead[sid])
        BY <1>4, <2>1
      <4> QED
        BY <2>1, <2>7, <3>1, <4>1, <4>2
    <3>2. CASE t # sid
      BY <1>5, <2>1, <2>3, <3>2
    <3> QED
      BY <3>1, <3>2
  <2>9. ParseKnown'
    BY <2>8 DEF ParseKnown, K
  <2> QED
    BY <1>2, <2>4, <2>9 DEF BudgetInv
<1> QED
  BY <1>6, <1>7, <1>8

(* The strengthened invariant holds of every request. *)
THEOREM BudgetInvariance == BudgetSpec => []BudgetInv
<1>1. BudgetInv /\ [BudgetNext]_budgetVars => BudgetInv'
  <2>1. ASSUME BudgetInv, BudgetNext PROVE BudgetInv'
    BY <2>1, ReserveKeeps, ChargeKeeps, CleanupProbeKeeps, FinishKeeps, SourcesKeep DEF BudgetNext
  <2>2. CASE UNCHANGED budgetVars
    BY <2>2 DEF budgetVars, BudgetInv, BudgetTyped, WithinCeilings, CountersAgree, LeftOf, ParseKnown
  <2> QED
    BY <2>1, <2>2
<1> QED
  BY <1>1, BudgetStart, PTL DEF BudgetSpec

(* For any spaces, credits and ceilings: the counters agree, every cleanup probe
   that was reserved can be paid, and parsing is paid by bytes that were read. *)
THEOREM CleanupIsPaid == BudgetSpec => []BudgetHolds
<1>1. ASSUME BudgetInv PROVE BudgetHolds
  <2>1. ASSUME NEW c \in Credits, credit[c].left > 0 PROVE RemainingProbes(credit[c].sid) >= 0
    <3>1. credit[c].sid \in Ids
      BY <1>1, <2>1 DEF BudgetInv, BudgetTyped, NoCredit, CreditSet
    <3>2. SumFunction(reserved) \in Int /\ \A sid \in Ids : probes[sid] \in Int /\ reserved[sid] \in Int
      BY <1>1, <3>1, RemainingIs DEF BudgetInv, BudgetTyped
    <3>3. charged + SumFunction(reserved) + 0 <= ProbeCeiling /\ probes[credit[c].sid] + reserved[credit[c].sid] + 0 <= Share
      BY <1>1, <3>1, <3>2, BudgetNumbers DEF BudgetInv, BudgetTyped, WithinCeilings
    <3> QED
      BY <1>1, <3>1, <3>3, RemainingIs DEF BudgetInv
  <2>2. ASSUME NEW sid \in Ids PROVE parsed[sid] <= ParseFactor * SourceBytes * Cardinality(bytesRead[sid])
    <3> DEFINE K == ParseFactor * SourceBytes
               d == Cardinality(derived[sid])
               b == Cardinality(bytesRead[sid])
    <3>1. K \in Nat /\ d \in Nat /\ b \in Nat /\ parsed[sid] \in Nat /\ parseLeft[sid] \in Nat
      BY <1>1, BudgetNumbers, FS_CardinalityType DEF BudgetInv, BudgetTyped
    <3>2. parsed[sid] + parseLeft[sid] <= K * d /\ d <= b
      BY <1>1 DEF BudgetInv, ParseKnown
    <3> HIDE DEF K, d, b
    <3>3. K * d <= K * b
      <4>1. b - d \in Nat /\ K * (b - d) \in Nat
        BY <3>1, <3>2
      <4>2. K * b = K * d + K * (b - d)
        BY <3>1, <4>1
      <4>3. K * d \in Nat /\ K * b \in Nat
        BY <3>1
      <4> QED
        BY <4>1, <4>2, <4>3
    <3>4. K * d \in Int /\ K * b \in Int
      BY <3>1
    <3>5. parsed[sid] <= K * b
      BY <3>1, <3>2, <3>3, <3>4
    <3> QED
      BY <3>5 DEF K, b
  <2> QED
    BY <1>1, <2>1, <2>2 DEF BudgetInv, BudgetHolds, CleanupCanPay, ParsingIsPaid
<1> QED
  BY <1>1, BudgetInvariance, PTL

-----------------------------------------------------------------------------
(* ScopedFederation: what a federated read says of each space.             *)

LEMMA ShareOf == \A n \in Nat, k \in Nat \ {0} : n \div k \in Nat /\ k * (n \div k) <= n
  OBVIOUS

LoopPhases == {"discover", "evaluate", "verify", "root"}
LaterPhases == {"prepare", "search", "confirm", "roots", "answer", "done"}
Amounts == [probes : Nat, bytes : Nat, paths : Nat]
Reasons == {"root_unavailable", "discovery_limit", "path_limit", "content_limit", "note_unavailable",
            "index_unavailable", "semantic_limit"}
RowSet == [facts : [SpaceNotes -> 0 .. 2], local : SUBSET SpaceNotes, reasons : SUBSET Reasons, available : BOOLEAN]

FederationTyped ==
    /\ limits \in Ceilings /\ matching \subseteq SpaceNotes
    /\ disk \in [Spaces -> [SpaceNotes -> 0 .. 2]]
    /\ intact \subseteq Spaces \X SpaceNotes /\ \A s \in Spaces, n \in SpaceNotes : <<s, n>> \in intact => disk[s][n] = 1
    /\ phase \in {"enter"} \cup LoopPhases \cup LaterPhases /\ cur \in Spaces
    /\ phase \in LoopPhases => todo \subseteq SpaceNotes
    /\ rows \in [Spaces -> RowSet] /\ used \in [Spaces -> Amounts]
    /\ reply = "items" => phase = "done"

(* A space uses no more than it was allotted. *)
WithinAllocation ==
    \A s \in Spaces : used[s].probes <= Allocation("probes") /\ used[s].bytes <= Allocation("bytes")

(* The first loop has not come to a space, or the read has been given up. *)
NotReached(s) == (phase = "enter" /\ s >= cur) \/ (phase \in LoopPhases /\ s > cur)
Abandoned == phase = "done" /\ reply # "items"
In(s, where) == phase = where /\ s = cur

(* What is known of a space that gives no reason: the notes that stood untouched
   have been found, and those that match are candidates, as far as the reader got. *)
RowKnown(s) ==
    /\ ~rows[s].available => rows[s].local = {}
    /\ NotReached(s) => rows[s] = NewRow
    /\ phase \in LoopPhases /\ s = cur => rows[s].available
    /\ rows[s].available /\ rows[s].reasons = {} /\ ~Abandoned /\ ~NotReached(s) =>
          /\ \A n \in SpaceNotes : <<s, n>> \in intact /\ (In(s, "discover") => n \notin todo) => rows[s].facts[n] = 1
          /\ ~In(s, "discover") =>
                \A n \in matching : <<s, n>> \in intact /\ (In(s, "evaluate") => n \notin todo) => n \in rows[s].local

FederationInv == FederationTyped /\ WithinAllocation /\ \A s \in Spaces : RowKnown(s)

LEMMA SpacesAre ==
    /\ SpaceCount \in Nat \ {0} /\ Spaces \subseteq Int /\ 1 \in Spaces
    /\ \A s \in Spaces : 1 <= s /\ s <= SpaceCount /\ (s < SpaceCount => s + 1 \in Spaces)
    /\ IsFiniteSet(Spaces) /\ Cardinality(Spaces) = SpaceCount
<1>1. IsFiniteSet(Spaces) /\ Cardinality(Spaces) = SpaceCount
  <2>1. /\ IsFiniteSet(1 .. SpaceCount)
        /\ Cardinality(1 .. SpaceCount) = IF 1 > SpaceCount THEN 0 ELSE SpaceCount - 1 + 1
    BY FederationAssumption, FS_Interval
  <2> QED
    BY <2>1, FederationAssumption DEF Spaces
<1> QED
  BY <1>1, FederationAssumption DEF Spaces

(* No space's use is taken from another's: the aggregate ceiling never bites
   before the space's own share does. *)
LEMMA RemainingIsOwn ==
    ASSUME FederationTyped, WithinAllocation, NEW s \in Spaces, NEW name \in {"probes", "bytes"}
    PROVE  Remaining(s, name) = Allocation(name) - used[s][name]
<1> DEFINE u == [t \in Spaces |-> used[t][name]]
           share == Allocation(name)
           L == limits[name]
<1>1. L \in Nat /\ share \in Nat /\ SpaceCount * share <= L
  <2>1. limits \in [probes : Nat, bytes : Nat, paths : Nat]
    BY FederationAssumption DEF FederationTyped
  <2>2. L \in Nat
    BY <2>1
  <2> QED
    BY <2>2, ShareOf, FederationAssumption DEF Allocation
<1>2. \A t \in Spaces : u[t] \in Nat /\ u[t] <= share
  BY DEF FederationTyped, WithinAllocation, Amounts
<1>3. TotalUsed(name) = SumFunctionOnSet(u, Spaces)
  BY DEF TotalUsed, SumFunction
<1> HIDE DEF u, share, L
<1>4. SumFunctionOnSet(u, Spaces) = u[s] + SumFunctionOnSet(u, Spaces \ {s})
  <2>1. \A t \in Spaces : u[t] \in Int
    BY <1>2
  <2>2. IsFiniteSet(Spaces)
    BY SpacesAre
  <2> QED
    BY <2>1, <2>2, SumTakesOut
<1>5. SumFunctionOnSet(u, Spaces \ {s}) \in Int /\ SumFunctionOnSet(u, Spaces \ {s}) <= (SpaceCount - 1) * share
  <2>1. IsFiniteSet(Spaces \ {s}) /\ Cardinality(Spaces \ {s}) = SpaceCount - 1
    BY SpacesAre, FS_RemoveElement
  <2>2. \A t \in Spaces \ {s} : u[t] \in Int /\ u[t] <= share
    BY <1>2
  <2> QED
    BY <1>1, <2>1, <2>2, SumBounded
<1>6. (SpaceCount - 1) * share = SpaceCount * share - share /\ SpaceCount * share \in Int
  BY <1>1, SpacesAre
<1>7. share - u[s] <= L - SumFunctionOnSet(u, Spaces) /\ L - SumFunctionOnSet(u, Spaces) \in Int /\ share - u[s] \in Int
  BY <1>1, <1>2, <1>4, <1>5, <1>6
<1>8. Remaining(s, name) = Min({L - SumFunctionOnSet(u, Spaces), share - u[s]})
  BY <1>3 DEF Remaining, L, share, u
<1>9. Remaining(s, name) = share - u[s]
  BY <1>7, <1>8, SmallerOfTwo
<1> QED
  BY <1>9 DEF share, u

(* What may be charged fits the allocation. *)
LEMMA ChargeFits ==
    ASSUME FederationInv, NEW s \in Spaces, Remaining(s, "probes") # 0, Charge(s, "probes"), UNCHANGED limits
    PROVE  used' \in [Spaces -> Amounts] /\ WithinAllocation'
<1>1. used[s] \in Amounts /\ used[s].probes + 1 <= Allocation("probes")
  <2>1. used[s].probes # Allocation("probes") /\ used[s].probes <= Allocation("probes") /\ used[s] \in Amounts
    BY RemainingIsOwn DEF FederationInv, FederationTyped, WithinAllocation, Amounts
  <2>2. Allocation("probes") \in Nat
    BY FederationAssumption, ShareOf DEF Allocation, FederationInv, FederationTyped
  <2> QED
    BY <2>1, <2>2 DEF Amounts
<1>2. used' = [used EXCEPT ![s] = [used[s] EXCEPT !["probes"] = used[s]["probes"] + 1]]
  BY DEF Charge
<1>3. used'[s] = [used[s] EXCEPT !.probes = used[s].probes + 1] /\ \A t \in Spaces \ {s} : used'[t] = used[t]
  BY <1>2 DEF FederationInv, FederationTyped
<1>4. /\ used'[s] \in Amounts /\ used'[s].probes = used[s].probes + 1 /\ used'[s].bytes = used[s].bytes
  BY <1>1, <1>3 DEF Amounts
<1>5. used' \in [Spaces -> Amounts]
  BY <1>2, <1>3, <1>4 DEF FederationInv, FederationTyped
<1> QED
  BY <1>1, <1>3, <1>4, <1>5 DEF FederationInv, WithinAllocation, Allocation

LEMMA FederationStart == FederationInit => FederationInv
<1> SUFFICES ASSUME FederationInit PROVE FederationInv
  OBVIOUS
<1>1. FederationTyped
  BY SpacesAre DEF FederationInit, FederationTyped, NewRow, NotRun, RowSet, Amounts, LoopPhases, LaterPhases
<1>2. WithinAllocation
  BY FederationAssumption, ShareOf DEF FederationInit, WithinAllocation, Allocation, NotRun
<1>3. \A s \in Spaces : RowKnown(s)
  BY SpacesAre DEF FederationInit, RowKnown, NotReached, NewRow, LoopPhases
<1> QED
  BY <1>1, <1>2, <1>3 DEF FederationInv

(* What changes in the vaults takes notes out of the history, and claims with it. *)
LEMMA ChangesKeep == ASSUME FederationInv, VaultChanges PROVE FederationInv'
<1>1. UNCHANGED <<mode, limits, matching, phase, cur, todo, rows, used, reply>>
  BY DEF VaultChanges
<1>2. intact' \subseteq intact /\ disk' \in [Spaces -> [SpaceNotes -> 0 .. 2]]
      /\ \A s \in Spaces, n \in SpaceNotes : <<s, n>> \in intact' => disk'[s][n] = 1
  <2>1. ASSUME NEW s \in Spaces, ChangeRoot(s)
        PROVE  intact' \subseteq intact /\ disk' = disk
    BY <2>1 DEF ChangeRoot
  <2>2. ASSUME NEW s \in Spaces, NEW n \in SpaceNotes, ChangeNote(s, n)
        PROVE  /\ intact' = intact \ {<<s, n>>} /\ disk' \in [Spaces -> [SpaceNotes -> 0 .. 2]]
               /\ \A t \in Spaces, m \in SpaceNotes : <<t, m>> # <<s, n>> => disk'[t][m] = disk[t][m]
    BY <2>2 DEF ChangeNote, FederationInv, FederationTyped
  <2> QED
    BY <2>1, <2>2 DEF VaultChanges, FederationInv, FederationTyped
<1>3. FederationTyped' /\ WithinAllocation'
  BY <1>1, <1>2 DEF FederationInv, FederationTyped, WithinAllocation, Allocation
<1>4. \A s \in Spaces : RowKnown(s)'
  BY <1>1, <1>2 DEF FederationInv, RowKnown, NotReached, Abandoned, In
<1> QED
  BY <1>3, <1>4 DEF FederationInv

(* A space that is given up contributes nothing, and the reader goes on. *)
LEMMA DropKeeps ==
    ASSUME FederationInv, phase \in {"enter"} \cup LoopPhases, NEW why \in Reasons,
           Drop(why), UNCHANGED <<world, request>>
    PROVE  FederationInv'
<1> DEFINE row == GivenUp(rows[cur], why)
<1>1. cur \in Spaces /\ rows[cur] \in RowSet
  BY DEF FederationInv, FederationTyped
<1>2. row \in RowSet /\ ~row.available /\ row.local = {}
  BY <1>1 DEF GivenUp, RowSet
<1>3. rows' = [rows EXCEPT ![cur] = row]
  BY DEF Drop
<1> HIDE DEF row
<1>4. rows' \in [Spaces -> RowSet] /\ rows'[cur] = row /\ \A s \in Spaces \ {cur} : rows'[s] = rows[s]
  BY <1>1, <1>2, <1>3 DEF FederationInv, FederationTyped
<1>5. \/ cur < SpaceCount /\ cur' = cur + 1 /\ phase' = "enter"
      \/ cur = SpaceCount /\ cur' = 1 /\ phase' \in {"prepare", "answer"}
  BY <1>1, SpacesAre DEF Drop, NextSpace
<1>6. todo' = {} /\ UNCHANGED <<used, reply, disk, intact, limits, matching>>
  BY DEF Drop, world, request
<1>7. FederationTyped' /\ WithinAllocation'
  BY <1>1, <1>4, <1>5, <1>6, SpacesAre
     DEF FederationInv, FederationTyped, WithinAllocation, Allocation, LoopPhases, LaterPhases
<1>8. ASSUME NEW s \in Spaces PROVE RowKnown(s)'
  <2>1. CASE s = cur
    BY <1>1, <1>2, <1>4, <1>5, <2>1, SpacesAre DEF RowKnown, NotReached, LoopPhases
  <2>2. CASE s # cur
    <3>1. RowKnown(s) /\ rows'[s] = rows[s]
      BY <1>4, <2>2 DEF FederationInv
    <3>2. NotReached(s)' => NotReached(s)
      BY <1>1, <1>5, <2>2, SpacesAre DEF NotReached, LoopPhases
    <3>3. NotReached(s) => NotReached(s)'
      BY <1>1, <1>5, <2>2, SpacesAre DEF NotReached, LoopPhases
    <3> QED
      BY <1>1, <1>5, <1>6, <2>2, <3>1, <3>2, <3>3 DEF RowKnown, Abandoned, In, LoopPhases
  <2> QED
    BY <2>1, <2>2
<1> QED
  BY <1>7, <1>8 DEF FederationInv

(* The spaces the reader is not at keep what is known of them. *)
LEMMA OthersKeep ==
    ASSUME FederationInv, phase \in {"enter"} \cup LoopPhases, phase' \in LoopPhases,
           UNCHANGED <<cur, intact, matching>>,
           NEW s \in Spaces, s # cur, rows'[s] = rows[s]
    PROVE  RowKnown(s)'
<1>1. RowKnown(s) /\ cur \in Spaces
  BY DEF FederationInv, FederationTyped
<1>2. NotReached(s)' <=> NotReached(s)
  BY <1>1, SpacesAre DEF NotReached, LoopPhases
<1> QED
  BY <1>1, <1>2 DEF RowKnown, Abandoned, In, LoopPhases

LEMMA EnterKeeps == ASSUME FederationInv, Enter PROVE FederationInv'
<1>1. phase = "enter" /\ UNCHANGED <<disk, intact, limits, matching, world, request>> /\ cur \in Spaces
  BY DEF Enter, world, request, FederationInv, FederationTyped
<1>2. CASE \E why \in Reasons : Drop(why)
  BY <1>1, <1>2, DropKeeps
<1>3. CASE Remaining(cur, "probes") # 0 /\ Charge(cur, "probes") /\ Go("discover", SpaceNotes) /\ UNCHANGED <<rows, reply>>
  <2>1. used' \in [Spaces -> Amounts] /\ WithinAllocation'
    BY <1>1, <1>3, ChargeFits
  <2>2. FederationTyped'
    BY <1>1, <1>3, <2>1 DEF Go, FederationInv, FederationTyped, LoopPhases, LaterPhases
  <2>3. ASSUME NEW s \in Spaces PROVE RowKnown(s)'
    <3>1. CASE s = cur
      <4>1. rows'[s] = NewRow
        BY <1>1, <1>3, <3>1, SpacesAre DEF FederationInv, RowKnown, NotReached
      <4>2. phase' = "discover" /\ todo' = SpaceNotes /\ cur' = cur
        BY <1>3 DEF Go
      <4> QED
        BY <3>1, <4>1, <4>2, SpacesAre DEF RowKnown, NotReached, NewRow, In, LoopPhases
    <3>2. CASE s # cur
      BY <1>1, <1>3, <3>2, OthersKeep DEF Go, LoopPhases
    <3> QED
      BY <3>1, <3>2
  <2> QED
    BY <2>1, <2>2, <2>3 DEF FederationInv
<1>4. Drop("root_unavailable") \/ Drop("discovery_limit")
      \/ (Remaining(cur, "probes") # 0 /\ Charge(cur, "probes") /\ Go("discover", SpaceNotes) /\ UNCHANGED <<rows, reply>>)
  BY DEF Enter
<1>5. "root_unavailable" \in Reasons /\ "discovery_limit" \in Reasons
  BY DEF Reasons
<1> QED
  BY <1>2, <1>3, <1>4, <1>5

LEMMA VanishedKeeps == ASSUME FederationInv, Vanished PROVE FederationInv'
<1>1. phase = "discover" /\ Drop("discovery_limit") /\ UNCHANGED <<world, request>>
  BY DEF Vanished
<1>2. "discovery_limit" \in Reasons /\ phase \in {"enter"} \cup LoopPhases
  BY <1>1 DEF LoopPhases, Reasons
<1> QED
  BY <1>1, <1>2, DropKeeps

(* A step of a loop at the current space: what must be shown of its row. *)
LEMMA LoopStepKeeps ==
    ASSUME FederationInv, phase \in LoopPhases, NEW next \in LoopPhases, NEW remaining, remaining \subseteq SpaceNotes,
           Go(next, remaining), UNCHANGED <<world, request, reply>>,
           used' \in [Spaces -> Amounts], WithinAllocation',
           NEW row \in RowSet, rows' = [rows EXCEPT ![cur] = row],
           NEW here \in Spaces, here = cur, RowKnown(here)'
    PROVE  FederationInv'
<1>1. cur \in Spaces /\ cur' = cur /\ phase' = next /\ todo' = remaining
      /\ UNCHANGED <<disk, intact, limits, matching, reply>>
  BY DEF Go, world, request, FederationInv, FederationTyped
<1>2. rows' \in [Spaces -> RowSet] /\ \A s \in Spaces \ {cur} : rows'[s] = rows[s]
  BY <1>1 DEF FederationInv, FederationTyped
<1>3. FederationTyped'
  BY <1>1, <1>2 DEF FederationInv, FederationTyped, LoopPhases, LaterPhases
<1>4. ASSUME NEW s \in Spaces PROVE RowKnown(s)'
  <2>1. CASE s = cur
    BY <2>1
  <2>2. CASE s # cur
    BY <1>1, <1>2, <2>2, OthersKeep
  <2> QED
    BY <2>1, <2>2
<1> QED
  BY <1>3, <1>4 DEF FederationInv

(* What is known of the row at hand, in a loop. *)
NoReasons(row) == row.reasons = {}
FoundAll(row) == \A n \in SpaceNotes : <<cur, n>> \in intact => row.facts[n] = 1
CandidatesBut(row, left) == \A n \in matching \ left : <<cur, n>> \in intact => n \in row.local

LEMMA HereKnown ==
    ASSUME FederationInv, phase \in LoopPhases
    PROVE  /\ cur \in Spaces /\ rows[cur] \in RowSet /\ rows[cur].available /\ todo \subseteq SpaceNotes
           /\ phase = "discover" /\ NoReasons(rows[cur]) =>
                 \A n \in SpaceNotes \ todo : <<cur, n>> \in intact => rows[cur].facts[n] = 1
           /\ phase # "discover" /\ NoReasons(rows[cur]) =>
                 FoundAll(rows[cur]) /\ CandidatesBut(rows[cur], IF phase = "evaluate" THEN todo ELSE {})
<1>1. cur \in Spaces /\ rows[cur] \in RowSet /\ todo \subseteq SpaceNotes /\ matching \subseteq SpaceNotes
  BY DEF FederationInv, FederationTyped
<1>2. RowKnown(cur) /\ ~NotReached(cur) /\ ~Abandoned
  BY <1>1, SpacesAre DEF FederationInv, NotReached, Abandoned, LoopPhases
<1> QED
  BY <1>1, <1>2 DEF RowKnown, In, NoReasons, FoundAll, CandidatesBut

LEMMA HereHolds ==
    ASSUME FederationInv, phase' \in LoopPhases, UNCHANGED <<cur, intact, matching>>,
           NEW here \in Spaces, here = cur, rows'[cur] \in RowSet, rows'[cur].available,
           phase' = "discover" /\ NoReasons(rows'[cur]) =>
                 \A n \in SpaceNotes \ todo' : <<cur, n>> \in intact => rows'[cur].facts[n] = 1,
           phase' # "discover" /\ NoReasons(rows'[cur]) =>
                 FoundAll(rows'[cur]) /\ CandidatesBut(rows'[cur], IF phase' = "evaluate" THEN todo' ELSE {})
    PROVE  RowKnown(here)'
<1>1. cur \in Spaces /\ ~NotReached(here)'
  BY SpacesAre DEF FederationInv, FederationTyped, NotReached, LoopPhases
<1>2. matching \subseteq SpaceNotes
  BY DEF FederationInv, FederationTyped
<1> QED
  BY <1>1, <1>2 DEF RowKnown, In, NoReasons, FoundAll, CandidatesBut

(* The walk: an entry found is recorded, or a reason is. *)
LEMMA DiscoverEntryKeeps == ASSUME FederationInv, DiscoverEntry PROVE FederationInv'
<1>1. phase = "discover" /\ phase \in LoopPhases /\ UNCHANGED <<world, request>>
      /\ UNCHANGED <<disk, intact, limits, matching>>
  BY DEF DiscoverEntry, world, request, LoopPhases
<1>2. /\ cur \in Spaces /\ rows[cur] \in RowSet /\ rows[cur].available /\ todo \subseteq SpaceNotes
      /\ NoReasons(rows[cur]) => \A n \in SpaceNotes \ todo : <<cur, n>> \in intact => rows[cur].facts[n] = 1
  BY <1>1, HereKnown
<1>3. disk \in [Spaces -> [SpaceNotes -> 0 .. 2]] /\ (\A n \in SpaceNotes : <<cur, n>> \in intact => disk[cur][n] = 1)
      /\ rows \in [Spaces -> RowSet] /\ matching \subseteq SpaceNotes
  BY <1>2 DEF FederationInv, FederationTyped
<1>4. CASE Drop("discovery_limit")
  BY <1>1, <1>4, DropKeeps DEF Reasons
<1>5. CASE todo = {} /\ Go("evaluate", {n \in SpaceNotes : rows[cur].facts[n] # 0}) /\ UNCHANGED <<rows, used, reply>>
  <2> DEFINE left == {n \in SpaceNotes : rows[cur].facts[n] # 0}
  <2>1. rows' = [rows EXCEPT ![cur] = rows[cur]] /\ rows'[cur] = rows[cur]
    BY <1>2, <1>3, <1>5
  <2>2. phase' = "evaluate" /\ todo' = left /\ cur' = cur /\ left \subseteq SpaceNotes
    BY <1>5 DEF Go
  <2>3. NoReasons(rows[cur]) => FoundAll(rows[cur]) /\ CandidatesBut(rows[cur], left)
    BY <1>2, <1>3, <1>5 DEF FoundAll, CandidatesBut
  <2> HIDE DEF left
  <2>5. used' \in [Spaces -> Amounts] /\ WithinAllocation'
    BY <1>1, <1>5 DEF FederationInv, FederationTyped, WithinAllocation, Allocation
  <2>6. \A here \in Spaces : here = cur => RowKnown(here)'
    BY <1>1, <1>2, <2>1, <2>2, <2>3, HereHolds DEF LoopPhases
  <2> QED
    BY <1>1, <1>2, <1>5, <2>1, <2>2, <2>5, <2>6, LoopStepKeeps DEF LoopPhases, left
<1>6. CASE \E n \in todo :
              /\ Remaining(cur, "probes") # 0 /\ Charge(cur, "probes")
              /\ IF disk[cur][n] = 0 THEN UNCHANGED rows
                 ELSE \E kept \in Kept(rows[cur], n) :
                      rows' = [rows EXCEPT
                         ![cur].facts = [m \in SpaceNotes |-> IF m \notin kept THEN 0
                                                         ELSE IF m = n THEN disk[cur][n] ELSE @[m]],
                         ![cur].reasons = @ \cup IF kept = FoundWith(rows[cur], n) THEN {} ELSE {"path_limit"}]
              /\ Go("discover", todo \ {n})
              /\ UNCHANGED reply
  <2>1. PICK n \in todo :
              /\ Remaining(cur, "probes") # 0 /\ Charge(cur, "probes")
              /\ IF disk[cur][n] = 0 THEN UNCHANGED rows
                 ELSE \E kept \in Kept(rows[cur], n) :
                      rows' = [rows EXCEPT
                         ![cur].facts = [m \in SpaceNotes |-> IF m \notin kept THEN 0
                                                         ELSE IF m = n THEN disk[cur][n] ELSE @[m]],
                         ![cur].reasons = @ \cup IF kept = FoundWith(rows[cur], n) THEN {} ELSE {"path_limit"}]
              /\ Go("discover", todo \ {n})
              /\ UNCHANGED reply
    BY <1>6
  <2>2. phase' = "discover" /\ todo' = todo \ {n} /\ cur' = cur /\ todo \ {n} \subseteq SpaceNotes
    BY <1>2, <2>1 DEF Go
  <2>3. used' \in [Spaces -> Amounts] /\ WithinAllocation'
    BY <1>1, <1>2, <2>1, ChargeFits
  <2>4. \E row \in RowSet :
           /\ rows' = [rows EXCEPT ![cur] = row] /\ row.available
           /\ NoReasons(row) => \A m \in SpaceNotes \ (todo \ {n}) : <<cur, m>> \in intact => row.facts[m] = 1
    <3>1. CASE disk[cur][n] = 0
      <4>1. rows' = [rows EXCEPT ![cur] = rows[cur]]
        BY <1>3, <2>1, <3>1
      <4>2. NoReasons(rows[cur]) => \A m \in SpaceNotes \ (todo \ {n}) : <<cur, m>> \in intact => rows[cur].facts[m] = 1
        <5>1. <<cur, n>> \notin intact
          BY <1>2, <1>3, <3>1
        <5> QED
          BY <1>2, <5>1
      <4> QED
        BY <1>2, <4>1, <4>2
    <3>2. CASE disk[cur][n] # 0
      <4>1. PICK kept \in Kept(rows[cur], n) :
                      rows' = [rows EXCEPT
                         ![cur].facts = [m \in SpaceNotes |-> IF m \notin kept THEN 0
                                                         ELSE IF m = n THEN disk[cur][n] ELSE @[m]],
                         ![cur].reasons = @ \cup IF kept = FoundWith(rows[cur], n) THEN {} ELSE {"path_limit"}]
        BY <2>1, <3>2
      <4> DEFINE facts == [m \in SpaceNotes |-> IF m \notin kept THEN 0
                                           ELSE IF m = n THEN disk[cur][n] ELSE rows[cur].facts[m]]
                 reasons == rows[cur].reasons \cup IF kept = FoundWith(rows[cur], n) THEN {} ELSE {"path_limit"}
                 row == [rows[cur] EXCEPT !.facts = facts, !.reasons = reasons]
      <4>2. rows' = [rows EXCEPT ![cur] = row]
        BY <1>2, <1>3, <4>1 DEF RowSet
      <4>3. facts \in [SpaceNotes -> 0 .. 2] /\ reasons \subseteq Reasons
        BY <1>2, <1>3 DEF RowSet, Reasons
      <4>4. reasons = {} => rows[cur].reasons = {} /\ kept = FoundWith(rows[cur], n)
        OBVIOUS
      <4>5. reasons = {} => \A m \in SpaceNotes \ (todo \ {n}) : <<cur, m>> \in intact => facts[m] = 1
        <5>1. SUFFICES ASSUME reasons = {}, NEW m \in SpaceNotes \ (todo \ {n}), <<cur, m>> \in intact
                       PROVE  facts[m] = 1
          OBVIOUS
        <5>2. disk[cur][m] = 1 /\ (m # n => rows[cur].facts[m] = 1)
          BY <1>2, <1>3, <4>4, <5>1 DEF NoReasons
        <5>3. m \in kept
          BY <4>4, <5>1, <5>2 DEF FoundWith
        <5> QED
          BY <5>2, <5>3
      <4> HIDE DEF facts, reasons
      <4>6. row \in RowSet /\ row.available /\ row.facts = facts /\ row.reasons = reasons
        BY <1>2, <4>3 DEF RowSet
      <4> QED
        BY <4>2, <4>5, <4>6 DEF NoReasons
    <3> QED
      BY <3>1, <3>2
  <2>5. PICK row \in RowSet :
           /\ rows' = [rows EXCEPT ![cur] = row] /\ row.available
           /\ NoReasons(row) => \A m \in SpaceNotes \ (todo \ {n}) : <<cur, m>> \in intact => row.facts[m] = 1
    BY <2>4
  <2>6. rows'[cur] = row
    BY <1>2, <1>3, <2>5
  <2>7. \A here \in Spaces : here = cur => RowKnown(here)'
    BY <1>1, <2>2, <2>5, <2>6, HereHolds DEF LoopPhases
  <2> QED
    BY <1>1, <1>2, <2>1, <2>2, <2>3, <2>5, <2>7, LoopStepKeeps DEF LoopPhases
<1> QED
  BY <1>1, <1>4, <1>5, <1>6 DEF DiscoverEntry

(* Content is read and matched, a note at a time: one that has changed, or that
   the bytes do not reach, leaves a reason. *)
LEMMA EvaluateKeeps == ASSUME FederationInv, Evaluate PROVE FederationInv'
<1>1. phase = "evaluate" /\ phase \in LoopPhases /\ UNCHANGED <<world, request>>
      /\ UNCHANGED <<disk, intact, limits, matching, mode>>
  BY DEF Evaluate, world, request, LoopPhases
<1>2. /\ cur \in Spaces /\ rows[cur] \in RowSet /\ rows[cur].available /\ todo \subseteq SpaceNotes
      /\ NoReasons(rows[cur]) => FoundAll(rows[cur]) /\ CandidatesBut(rows[cur], todo)
  BY <1>1, HereKnown
<1>3. /\ disk \in [Spaces -> [SpaceNotes -> 0 .. 2]] /\ (\A n \in SpaceNotes : <<cur, n>> \in intact => disk[cur][n] = 1)
      /\ rows \in [Spaces -> RowSet] /\ used \in [Spaces -> Amounts] /\ matching \subseteq SpaceNotes
  BY <1>2 DEF FederationInv, FederationTyped
<1>4. CASE Drop("discovery_limit")
  BY <1>1, <1>4, DropKeeps DEF Reasons
<1>5. CASE todo = {} /\ AfterEvaluation /\ UNCHANGED <<rows, used, reply>>
  <2>1. PICK next \in {"root", "verify"} : \E left : Go(next, left) /\ left \subseteq SpaceNotes
    BY <1>2, <1>5 DEF AfterEvaluation, RowSet
  <2>2. PICK left : Go(next, left) /\ left \subseteq SpaceNotes
    BY <2>1
  <2>3. rows' = [rows EXCEPT ![cur] = rows[cur]] /\ rows'[cur] = rows[cur]
    BY <1>2, <1>3, <1>5
  <2>4. phase' = next /\ cur' = cur
    BY <2>2 DEF Go
  <2>5. NoReasons(rows[cur]) => FoundAll(rows[cur]) /\ CandidatesBut(rows[cur], {})
    BY <1>2, <1>5
  <2>6. used' \in [Spaces -> Amounts] /\ WithinAllocation'
    BY <1>1, <1>5 DEF FederationInv, FederationTyped, WithinAllocation, Allocation
  <2>7. \A here \in Spaces : here = cur => RowKnown(here)'
    BY <1>1, <1>2, <2>3, <2>4, <2>5, HereHolds DEF LoopPhases
  <2> QED
    BY <1>1, <1>2, <1>5, <2>2, <2>3, <2>6, <2>7, LoopStepKeeps DEF LoopPhases
<1>6. CASE /\ rows' = [rows EXCEPT ![cur].reasons = @ \cup {"content_limit"}]
           /\ Go("evaluate", {})
           /\ UNCHANGED <<used, reply>>
  <2> DEFINE row == [rows[cur] EXCEPT !.reasons = @ \cup {"content_limit"}]
  <2>1. rows' = [rows EXCEPT ![cur] = row]
    BY <1>6
  <2>2. row \in RowSet /\ row.available /\ ~NoReasons(row)
    BY <1>2 DEF RowSet, Reasons, NoReasons
  <2> HIDE DEF row
  <2>3. rows'[cur] = row /\ phase' = "evaluate" /\ cur' = cur
    BY <1>2, <1>3, <1>6, <2>1 DEF Go
  <2>4. used' \in [Spaces -> Amounts] /\ WithinAllocation'
    BY <1>1, <1>6 DEF FederationInv, FederationTyped, WithinAllocation, Allocation
  <2>5. \A here \in Spaces : here = cur => RowKnown(here)'
    BY <1>1, <1>2, <2>2, <2>3, HereHolds DEF LoopPhases
  <2> QED
    BY <1>1, <1>2, <1>6, <2>1, <2>2, <2>4, <2>5, LoopStepKeeps DEF LoopPhases
<1>7. ASSUME NEW n \in todo, ~(mode # "list" /\ Remaining(cur, "bytes") = 0), Remaining(cur, "probes") # 0,
             used' = [used EXCEPT ![cur].probes = @ + 1, ![cur].bytes = @ + IF mode = "list" THEN 0 ELSE 1],
             rows' = [rows EXCEPT ![cur] = Evaluated(n)],
             Go("evaluate", todo \ {n}), UNCHANGED reply
      PROVE  FederationInv'
  <2> DEFINE row == Evaluated(n)
  <2>1. rows' = [rows EXCEPT ![cur] = row]
    BY <1>7
  <2>2. row \in RowSet /\ row.available
    BY <1>2, <1>7 DEF RowSet, Reasons, Evaluated
  <2>3. NoReasons(row) => FoundAll(row) /\ CandidatesBut(row, todo \ {n})
    <3>1. CASE ~Current(cur, n)
      BY <1>2, <3>1 DEF RowSet, NoReasons, Evaluated
    <3>2. CASE Current(cur, n)
      BY <1>2, <1>3, <1>7, <3>2 DEF RowSet, NoReasons, FoundAll, CandidatesBut, Evaluated
    <3> QED
      BY <3>1, <3>2
  <2> HIDE DEF row
  <2>4. rows'[cur] = row /\ phase' = "evaluate" /\ todo' = todo \ {n} /\ cur' = cur
    BY <1>2, <1>3, <1>7, <2>1 DEF Go
  <2>5. used' \in [Spaces -> Amounts] /\ WithinAllocation'
    <3> DEFINE more == IF mode = "list" THEN 0 ELSE 1
    <3>1. /\ used[cur].probes + 1 <= Allocation("probes") /\ used[cur].bytes + more <= Allocation("bytes")
          /\ used[cur] \in Amounts
      <4>1. used[cur] \in Amounts /\ used[cur].probes <= Allocation("probes") /\ used[cur].bytes <= Allocation("bytes")
        BY <1>2, <1>3 DEF FederationInv, WithinAllocation
      <4>2. Allocation("probes") \in Nat /\ Allocation("bytes") \in Nat
        BY FederationAssumption, ShareOf DEF Allocation, FederationInv, FederationTyped
      <4>3. used[cur].probes # Allocation("probes") /\ (mode # "list" => used[cur].bytes # Allocation("bytes"))
        BY <1>2, <1>7, <4>1, <4>2, RemainingIsOwn DEF FederationInv, Amounts
      <4> QED
        BY <4>1, <4>2, <4>3 DEF Amounts
    <3>2. /\ used' \in [Spaces -> Amounts] /\ used'[cur].probes = used[cur].probes + 1
          /\ used'[cur].bytes = used[cur].bytes + more /\ \A t \in Spaces \ {cur} : used'[t] = used[t]
      <4> DEFINE middle == [used EXCEPT ![cur].probes = @ + 1]
      <4>1. used' = [middle EXCEPT ![cur].bytes = @ + more]
        BY <1>7
      <4>2. /\ middle \in [Spaces -> Amounts] /\ middle[cur].probes = used[cur].probes + 1
            /\ middle[cur].bytes = used[cur].bytes /\ \A t \in Spaces \ {cur} : middle[t] = used[t]
        BY <1>2, <1>3 DEF Amounts
      <4>3. more \in Nat
        OBVIOUS
      <4> HIDE DEF middle, more
      <4> QED
        BY <1>2, <4>1, <4>2, <4>3 DEF Amounts
    <3> HIDE DEF more
    <3> QED
      BY <1>1, <3>1, <3>2 DEF FederationInv, WithinAllocation, Allocation
  <2>6. \A here \in Spaces : here = cur => RowKnown(here)'
    BY <1>1, <1>2, <2>2, <2>3, <2>4, HereHolds DEF LoopPhases
  <2> QED
    BY <1>1, <1>2, <1>7, <2>1, <2>2, <2>5, <2>6, LoopStepKeeps DEF LoopPhases
<1> QED
  BY <1>4, <1>5, <1>6, <1>7 DEF Evaluate

(* A verification drops only notes that changed, and says so. *)
LEMMA ReverifiedIs ==
    ASSUME FederationInv, NEW s \in Spaces, NEW n
    PROVE  /\ Reverified(s, n) \in RowSet /\ Reverified(s, n).available = rows[s].available
           /\ Reverified(s, n).facts = rows[s].facts /\ Reverified(s, n).local \subseteq rows[s].local
           /\ NoReasons(Reverified(s, n)) => Reverified(s, n) = rows[s]
<1>1. rows[s] \in RowSet
  BY DEF FederationInv, FederationTyped
<1> QED
  BY <1>1 DEF Reverified, RowSet, Reasons, NoReasons

LEMMA VerifyLocalKeeps == ASSUME FederationInv, VerifyLocal PROVE FederationInv'
<1>1. phase = "verify" /\ phase \in LoopPhases /\ UNCHANGED <<world, request>>
      /\ UNCHANGED <<disk, intact, limits, matching>>
  BY DEF VerifyLocal, world, request, LoopPhases
<1>2. /\ cur \in Spaces /\ rows[cur] \in RowSet /\ rows[cur].available /\ todo \subseteq SpaceNotes
      /\ NoReasons(rows[cur]) => FoundAll(rows[cur]) /\ CandidatesBut(rows[cur], {})
  BY <1>1, HereKnown
<1>3. rows \in [Spaces -> RowSet] /\ used \in [Spaces -> Amounts]
  BY DEF FederationInv, FederationTyped
<1>4. CASE Drop("discovery_limit")
  BY <1>1, <1>4, DropKeeps DEF Reasons
<1>5. CASE Go("root", {}) /\ UNCHANGED <<rows, used, reply>>
  <2>1. rows' = [rows EXCEPT ![cur] = rows[cur]] /\ rows'[cur] = rows[cur] /\ phase' = "root" /\ cur' = cur
    BY <1>2, <1>3, <1>5 DEF Go
  <2>2. used' \in [Spaces -> Amounts] /\ WithinAllocation'
    BY <1>1, <1>5 DEF FederationInv, FederationTyped, WithinAllocation, Allocation
  <2>3. \A here \in Spaces : here = cur => RowKnown(here)'
    BY <1>1, <1>2, <2>1, HereHolds DEF LoopPhases
  <2> QED
    <3>1. PICK left \in {{}} : left \subseteq SpaceNotes /\ "root" \in LoopPhases /\ Go("root", left) /\ UNCHANGED reply
      BY <1>5 DEF LoopPhases
    <3> QED
      BY <1>1, <1>2, <2>1, <2>2, <2>3, <3>1, LoopStepKeeps
<1>6. ASSUME NEW n \in todo, Remaining(cur, "probes") # 0, Charge(cur, "probes"),
             rows' = [rows EXCEPT ![cur] = Reverified(cur, n)], Go("verify", todo \ {n}), UNCHANGED reply
      PROVE  FederationInv'
  <2> DEFINE row == Reverified(cur, n)
  <2>1. row \in RowSet /\ row.available /\ (NoReasons(row) => FoundAll(row) /\ CandidatesBut(row, {}))
    BY <1>2, ReverifiedIs
  <2>2. rows' = [rows EXCEPT ![cur] = row]
    BY <1>6
  <2> HIDE DEF row
  <2>3. rows'[cur] = row /\ phase' = "verify" /\ cur' = cur
    BY <1>2, <1>3, <1>6, <2>2 DEF Go
  <2>4. used' \in [Spaces -> Amounts] /\ WithinAllocation'
    BY <1>1, <1>2, <1>6, ChargeFits
  <2>5. \A here \in Spaces : here = cur => RowKnown(here)'
    BY <1>1, <1>2, <2>1, <2>3, HereHolds DEF LoopPhases
  <2> QED
    BY <1>1, <1>2, <1>6, <2>1, <2>2, <2>4, <2>5, LoopStepKeeps DEF LoopPhases
<1> QED
  BY <1>4, <1>5, <1>6 DEF VerifyLocal

(* The reader leaves a space with all of its claims made good. *)
LEMMA VerifyRootKeeps == ASSUME FederationInv, VerifyRoot PROVE FederationInv'
<1>1. phase = "root" /\ phase \in LoopPhases /\ UNCHANGED <<world, request>>
      /\ UNCHANGED <<disk, intact, limits, matching>>
  BY DEF VerifyRoot, world, request, LoopPhases
<1>2. /\ cur \in Spaces /\ rows[cur] \in RowSet /\ rows[cur].available
      /\ NoReasons(rows[cur]) => FoundAll(rows[cur]) /\ CandidatesBut(rows[cur], {})
  BY <1>1, HereKnown
<1>3. CASE \E why \in Reasons : Drop(why)
  BY <1>1, <1>3, DropKeeps
<1>4. CASE Remaining(cur, "probes") # 0 /\ Charge(cur, "probes") /\ NextSpace /\ todo' = {} /\ UNCHANGED <<rows, reply>>
  <2>1. used' \in [Spaces -> Amounts] /\ WithinAllocation'
    BY <1>1, <1>2, <1>4, ChargeFits
  <2>2. \/ cur < SpaceCount /\ cur' = cur + 1 /\ phase' = "enter"
        \/ cur = SpaceCount /\ cur' = 1 /\ phase' \in {"prepare", "answer"}
    BY <1>2, <1>4, SpacesAre DEF NextSpace
  <2>3. FederationTyped'
    BY <1>1, <1>2, <1>4, <2>1, <2>2, SpacesAre DEF FederationInv, FederationTyped, LoopPhases, LaterPhases
  <2>4. ASSUME NEW s \in Spaces PROVE RowKnown(s)'
    <3>1. CASE s = cur
      <4>1. ~NotReached(s)'
        BY <1>2, <2>2, <3>1, SpacesAre DEF NotReached, LoopPhases
      <4> QED
        BY <1>1, <1>2, <1>4, <2>2, <3>1, <4>1
           DEF FederationInv, FederationTyped, RowKnown, In, LoopPhases, NoReasons, FoundAll, CandidatesBut
    <3>2. CASE s # cur
      <4>1. RowKnown(s) /\ rows'[s] = rows[s]
        BY <1>4 DEF FederationInv
      <4>2. NotReached(s)' <=> NotReached(s)
        BY <1>1, <1>2, <2>2, <3>2, SpacesAre DEF NotReached, LoopPhases
      <4> QED
        BY <1>1, <1>2, <1>4, <2>2, <3>2, <4>1, <4>2 DEF RowKnown, Abandoned, In, LoopPhases
    <3> QED
      BY <3>1, <3>2
  <2> QED
    BY <2>1, <2>3, <2>4 DEF FederationInv
<1>5. Drop("root_unavailable") \/ Drop("discovery_limit")
      \/ (Remaining(cur, "probes") # 0 /\ Charge(cur, "probes") /\ NextSpace /\ todo' = {} /\ UNCHANGED <<rows, reply>>)
  BY DEF VerifyRoot
<1>6. "root_unavailable" \in Reasons /\ "discovery_limit" \in Reasons
  BY DEF Reasons
<1> QED
  BY <1>3, <1>4, <1>5, <1>6

(* After the first loop a row stands for its space alone. *)
Settled(s, row) ==
    /\ ~row.available => row.local = {}
    /\ row.available /\ NoReasons(row) =>
          \A n \in SpaceNotes : <<s, n>> \in intact => row.facts[n] = 1 /\ (n \in matching => n \in row.local)

LEMMA SettledIs ==
    ASSUME FederationInv, NEW s \in Spaces
    PROVE  phase \in LaterPhases \ {"done"} => Settled(s, rows[s])
<1>1. RowKnown(s) /\ matching \subseteq SpaceNotes
  BY DEF FederationInv, FederationTyped
<1>2. phase \in LaterPhases \ {"done"} => ~NotReached(s) /\ ~Abandoned /\ ~In(s, "discover") /\ ~In(s, "evaluate")
  BY DEF LaterPhases, LoopPhases, NotReached, Abandoned, In
<1> QED
  BY <1>1, <1>2 DEF RowKnown, Settled, NoReasons

(* A step after the first loop: each row must be a row still, and settled. *)
LEMMA LaterStepKeeps ==
    ASSUME FederationInv, phase \in LaterPhases \ {"done"}, phase' \in LaterPhases, cur' \in Spaces,
           UNCHANGED <<world, request>>, reply' = "items" => phase' = "done",
           used' \in [Spaces -> Amounts], WithinAllocation',
           rows' \in [Spaces -> RowSet], \A s \in Spaces : Settled(s, rows'[s])
    PROVE  FederationInv'
<1>1. UNCHANGED <<disk, intact, limits, matching>>
  BY DEF world, request
<1>2. FederationTyped'
  BY <1>1 DEF FederationInv, FederationTyped, LaterPhases, LoopPhases
<1>3. ASSUME NEW s \in Spaces PROVE RowKnown(s)'
  <2>1. ~NotReached(s)' /\ ~In(s, "discover")' /\ ~In(s, "evaluate")' /\ phase' \notin LoopPhases
    BY DEF LaterPhases, LoopPhases, NotReached, In
  <2>2. Settled(s, rows'[s])
    OBVIOUS
  <2>3. matching \subseteq SpaceNotes
    BY DEF FederationInv, FederationTyped
  <2> QED
    BY <1>1, <2>1, <2>2, <2>3 DEF RowKnown, Settled, NoReasons
<1> QED
  BY <1>2, <1>3 DEF FederationInv

(* What the later steps do to a row leaves it settled. *)
LEMMA RowStaysSettled ==
    ASSUME FederationInv, NEW s \in Spaces, Settled(s, rows[s])
    PROVE  /\ rows[s] \in RowSet
           /\ \A why \in Reasons : GivenUp(rows[s], why) \in RowSet /\ Settled(s, GivenUp(rows[s], why))
           /\ \A n : Reverified(s, n) \in RowSet /\ Settled(s, Reverified(s, n))
           /\ [rows[s] EXCEPT !.local = @ \cap matching] \in RowSet
           /\ Settled(s, [rows[s] EXCEPT !.local = @ \cap matching])
<1>1. rows[s] \in RowSet
  BY DEF FederationInv, FederationTyped
<1>2. ASSUME NEW why \in Reasons PROVE GivenUp(rows[s], why) \in RowSet /\ Settled(s, GivenUp(rows[s], why))
  BY <1>1 DEF GivenUp, RowSet, Settled
<1>3. ASSUME NEW n PROVE Reverified(s, n) \in RowSet /\ Settled(s, Reverified(s, n))
  <2>1. Reverified(s, n).available = FALSE => Reverified(s, n).local = {}
    BY ReverifiedIs DEF Settled
  <2> QED
    BY <1>1, <2>1, ReverifiedIs DEF Settled, RowSet
<1>4. [rows[s] EXCEPT !.local = @ \cap matching] \in RowSet
      /\ Settled(s, [rows[s] EXCEPT !.local = @ \cap matching])
  BY <1>1 DEF RowSet, Settled, NoReasons
<1> QED
  BY <1>1, <1>2, <1>3, <1>4

(* One row replaced by a settled one, the others as they were. *)
LEMMA OneRowSettled ==
    ASSUME FederationInv, phase \in LaterPhases \ {"done"}, NEW t \in Spaces,
           NEW row \in RowSet, Settled(t, row), rows' = [rows EXCEPT ![t] = row]
    PROVE  rows' \in [Spaces -> RowSet] /\ \A s \in Spaces : Settled(s, rows'[s])
<1>1. rows \in [Spaces -> RowSet]
  BY DEF FederationInv, FederationTyped
<1>2. rows' \in [Spaces -> RowSet] /\ rows'[t] = row /\ \A s \in Spaces \ {t} : rows'[s] = rows[s]
  BY <1>1
<1> QED
  BY <1>2, SettledIs

LEMMA RowsStaySettled ==
    ASSUME FederationInv, phase \in LaterPhases \ {"done"}, UNCHANGED rows
    PROVE  rows' \in [Spaces -> RowSet] /\ \A s \in Spaces : Settled(s, rows'[s])
  BY SettledIs DEF FederationInv, FederationTyped

LEMMA PassIs ==
    ASSUME FederationInv, NEW next, Pass(next)
    PROVE  cur \in Spaces /\ cur' \in Spaces /\ phase' \in {phase, next}
<1>1. cur \in Spaces
  BY DEF FederationInv, FederationTyped
<1> QED
  BY <1>1, SpacesAre DEF Pass

LEMMA UnusedKeeps ==
    ASSUME FederationInv, UNCHANGED <<used, world, request>>
    PROVE  used' \in [Spaces -> Amounts] /\ WithinAllocation'
<1>1. UNCHANGED limits
  BY DEF request
<1> QED
  BY <1>1 DEF FederationInv, FederationTyped, WithinAllocation, Allocation

LEMMA PrepareSpaceKeeps == ASSUME FederationInv, Prepare PROVE FederationInv'
<1>1. phase = "prepare" /\ UNCHANGED <<world, request, used, reply>> /\ Pass("search")
  BY DEF Prepare
<1>2. phase \in LaterPhases \ {"done"} /\ phase' \in LaterPhases /\ cur \in Spaces /\ cur' \in Spaces
  BY <1>1, PassIs DEF LaterPhases
<1>3. rows' \in [Spaces -> RowSet] /\ \A s \in Spaces : Settled(s, rows'[s])
  <2>1. CASE UNCHANGED rows
    BY <1>2, <2>1, RowsStaySettled
  <2>2. CASE \E why \in SemanticFailures : rows' = [rows EXCEPT ![cur] = GivenUp(rows[cur], why)]
    <3>1. PICK why \in Reasons : rows' = [rows EXCEPT ![cur] = GivenUp(rows[cur], why)]
      BY <2>2 DEF SemanticFailures, Reasons
    <3> QED
      BY <1>2, <3>1, SettledIs, RowStaysSettled, OneRowSettled
  <2> QED
    BY <2>1, <2>2 DEF Prepare
<1>4. reply' = "items" => phase' = "done"
  BY <1>1 DEF FederationInv, FederationTyped
<1> QED
  BY <1>1, <1>2, <1>3, <1>4, UnusedKeeps, LaterStepKeeps

LEMMA SearchCandidatesKeeps == ASSUME FederationInv, SearchCandidates PROVE FederationInv'
<1>1. phase = "search" /\ UNCHANGED <<world, request, used, reply>> /\ Pass("confirm")
  BY DEF SearchCandidates
<1>2. phase \in LaterPhases \ {"done"} /\ phase' \in LaterPhases /\ cur \in Spaces /\ cur' \in Spaces
  BY <1>1, PassIs DEF LaterPhases
<1>3. rows' \in [Spaces -> RowSet] /\ \A s \in Spaces : Settled(s, rows'[s])
  <2>1. CASE rows' = [rows EXCEPT ![cur].local = @ \cap matching]
    <3>1. rows' = [rows EXCEPT ![cur] = [rows[cur] EXCEPT !.local = @ \cap matching]]
      BY <2>1
    <3> QED
      BY <1>2, <3>1, SettledIs, RowStaysSettled, OneRowSettled
  <2>2. CASE \E why \in SemanticFailures : rows' = [rows EXCEPT ![cur] = GivenUp(rows[cur], why)]
    <3>1. PICK why \in Reasons : rows' = [rows EXCEPT ![cur] = GivenUp(rows[cur], why)]
      BY <2>2 DEF SemanticFailures, Reasons
    <3> QED
      BY <1>2, <3>1, SettledIs, RowStaysSettled, OneRowSettled
  <2> QED
    BY <2>1, <2>2 DEF SearchCandidates
<1>4. reply' = "items" => phase' = "done"
  BY <1>1 DEF FederationInv, FederationTyped
<1> QED
  BY <1>1, <1>2, <1>3, <1>4, UnusedKeeps, LaterStepKeeps

LEMMA ConfirmItemKeeps == ASSUME FederationInv, ConfirmItem PROVE FederationInv'
<1>1. phase = "confirm" /\ UNCHANGED <<world, request, cur, reply>> /\ UNCHANGED limits
  BY DEF ConfirmItem, request
<1>2. phase \in LaterPhases \ {"done"} /\ phase' \in LaterPhases /\ cur' \in Spaces
  BY <1>1 DEF ConfirmItem, LaterPhases, FederationInv, FederationTyped
<1>3. reply' = "items" => phase' = "done"
  BY <1>1 DEF FederationInv, FederationTyped
<1>4. CASE UNCHANGED <<rows, used>>
  BY <1>1, <1>2, <1>3, <1>4, RowsStaySettled, UnusedKeeps, LaterStepKeeps
<1>5. ASSUME NEW s \in Spaces, NEW n, UNCHANGED used, rows' = [rows EXCEPT ![s] = GivenUp(rows[s], "discovery_limit")]
      PROVE  FederationInv'
  <2>1. rows' \in [Spaces -> RowSet] /\ \A t \in Spaces : Settled(t, rows'[t])
    <3>1. PICK why \in Reasons : rows' = [rows EXCEPT ![s] = GivenUp(rows[s], why)]
      BY <1>5 DEF Reasons
    <3> QED
      BY <1>2, <3>1, SettledIs, RowStaysSettled, OneRowSettled
  <2> QED
    BY <1>1, <1>2, <1>3, <1>5, <2>1, UnusedKeeps, LaterStepKeeps
<1>6. ASSUME NEW s \in Spaces, NEW n, Remaining(s, "probes") # 0, Charge(s, "probes"),
             rows' = [rows EXCEPT ![s] = Reverified(s, n)]
      PROVE  FederationInv'
  <2>1. rows' \in [Spaces -> RowSet] /\ \A t \in Spaces : Settled(t, rows'[t])
    BY <1>2, <1>6, SettledIs, RowStaysSettled, OneRowSettled
  <2>2. used' \in [Spaces -> Amounts] /\ WithinAllocation'
    BY <1>1, <1>6, ChargeFits
  <2> QED
    BY <1>1, <1>2, <1>3, <2>1, <2>2, LaterStepKeeps
<1>7. CASE \E item \in Candidates : \/ /\ UNCHANGED used
                                       /\ rows' = [rows EXCEPT ![item[1]] = GivenUp(rows[item[1]], "discovery_limit")]
                                    \/ /\ Remaining(item[1], "probes") # 0 /\ Charge(item[1], "probes")
                                       /\ rows' = [rows EXCEPT ![item[1]] = Reverified(item[1], item[2])]
  <2>1. \A item \in Candidates : item[1] \in Spaces
    BY DEF Candidates
  <2> QED
    BY <1>5, <1>6, <1>7, <2>1
<1> QED
  BY <1>4, <1>7 DEF ConfirmItem

LEMMA VerifyRootsKeeps == ASSUME FederationInv, VerifyRoots PROVE FederationInv'
<1>1. phase = "roots" /\ UNCHANGED <<world, request, reply>> /\ UNCHANGED limits /\ Pass("answer")
  BY DEF VerifyRoots, request
<1>2. phase \in LaterPhases \ {"done"} /\ phase' \in LaterPhases /\ cur \in Spaces /\ cur' \in Spaces
  BY <1>1, PassIs DEF LaterPhases
<1>3. reply' = "items" => phase' = "done"
  BY <1>1 DEF FederationInv, FederationTyped
<1>4. CASE UNCHANGED <<rows, used>>
  BY <1>1, <1>2, <1>3, <1>4, RowsStaySettled, UnusedKeeps, LaterStepKeeps
<1>5. CASE UNCHANGED used /\ \E why \in Reasons : rows' = [rows EXCEPT ![cur] = GivenUp(rows[cur], why)]
  <2>1. rows' \in [Spaces -> RowSet] /\ \A t \in Spaces : Settled(t, rows'[t])
    BY <1>2, <1>5, SettledIs, RowStaysSettled, OneRowSettled
  <2> QED
    BY <1>1, <1>2, <1>3, <1>5, <2>1, UnusedKeeps, LaterStepKeeps
<1>6. CASE Remaining(cur, "probes") # 0 /\ Charge(cur, "probes") /\ UNCHANGED rows
  <2>1. used' \in [Spaces -> Amounts] /\ WithinAllocation'
    BY <1>1, <1>2, <1>6, ChargeFits
  <2> QED
    BY <1>1, <1>2, <1>3, <1>6, <2>1, RowsStaySettled, LaterStepKeeps
<1>7. "root_unavailable" \in Reasons /\ "discovery_limit" \in Reasons
  BY DEF Reasons
<1> QED
  BY <1>4, <1>5, <1>6, <1>7 DEF VerifyRoots

LEMMA FederatedAnswerKeeps == ASSUME FederationInv, Answer PROVE FederationInv'
<1>1. phase = "answer" /\ phase' = "done" /\ UNCHANGED <<world, request, cur, rows, used>> /\ cur' \in Spaces
  BY DEF Answer, FederationInv, FederationTyped
<1>2. phase \in LaterPhases \ {"done"} /\ phase' \in LaterPhases
  BY <1>1 DEF LaterPhases
<1> QED
  BY <1>1, <1>2, RowsStaySettled, UnusedKeeps, LaterStepKeeps

(* A read that is given up claims nothing any more. *)
LEMMA AbandonedKeeps ==
    ASSUME FederationInv, phase' = "done", reply' = "error", UNCHANGED <<world, request, cur, rows, used>>
    PROVE  FederationInv'
<1>1. UNCHANGED <<disk, intact, limits, matching>>
  BY DEF world, request
<1>2. FederationTyped' /\ WithinAllocation'
  BY <1>1 DEF FederationInv, FederationTyped, WithinAllocation, Allocation, LoopPhases, LaterPhases
<1>3. \A s \in Spaces : RowKnown(s)'
  BY <1>1 DEF FederationInv, RowKnown, NotReached, Abandoned, LoopPhases
<1> QED
  BY <1>2, <1>3 DEF FederationInv

(* The ways of a federated read. *)
LEMMA FederationSteps == ASSUME FederationInv, [FederationNext]_federationVars PROVE FederationInv'
<1>1. CASE UNCHANGED federationVars
  <2>1. UNCHANGED <<world, request, cur, rows, used, phase, todo, reply, limits, matching, disk, intact>>
    BY <1>1 DEF federationVars, world, request
  <2>2. FederationTyped' /\ WithinAllocation'
    BY <2>1 DEF FederationInv, FederationTyped, WithinAllocation, Allocation
  <2>3. \A s \in Spaces : RowKnown(s)'
    BY <2>1 DEF FederationInv, RowKnown, NotReached, Abandoned, In
  <2> QED
    BY <2>2, <2>3 DEF FederationInv
<1>2. CASE Incompatible
  BY <1>2, AbandonedKeeps DEF Incompatible
<1>3. CASE ReadCancelled
  BY <1>3, AbandonedKeeps DEF ReadCancelled
<1> QED
  BY <1>1, <1>2, <1>3, ChangesKeep, EnterKeeps, VanishedKeeps, DiscoverEntryKeeps, EvaluateKeeps, VerifyLocalKeeps,
     VerifyRootKeeps, PrepareSpaceKeeps, SearchCandidatesKeeps, ConfirmItemKeeps, VerifyRootsKeeps, FederatedAnswerKeeps
     DEF FederationNext

(* Every federated read keeps what is known of its spaces and of their use of
   the budget: the inductive invariant behind its answer's honesty. *)
THEOREM FederationInvariance == FederationSpec => []FederationInv
<1>1. FederationInit => FederationInv
  BY FederationStart
<1>2. FederationInv /\ [FederationNext]_federationVars => FederationInv'
  BY FederationSteps
<1> QED
  BY <1>1, <1>2, PTL DEF FederationSpec

LEMMA FederationInvIsSound == FederationInv => FederationSound
<1> SUFFICES ASSUME FederationInv PROVE FederationSound
  OBVIOUS
<1>1. NoSpaceStarvesAnother
  BY RemainingIsOwn DEF NoSpaceStarvesAnother, FederationInv
<1>2. HonestCoverage
  <2> SUFFICES ASSUME reply = "items", NEW s \in Spaces
               PROVE  /\ CoverageState(s) = "unavailable" => \A n \in SpaceNotes : <<s, n>> \notin Candidates
                      /\ CoverageState(s) = "complete" =>
                            \A n \in matching : <<s, n>> \in intact => <<s, n>> \in Candidates
    BY DEF HonestCoverage
  <2>1. RowKnown(s) /\ phase = "done" /\ matching \subseteq SpaceNotes
    BY DEF FederationInv, FederationTyped
  <2>2. ~NotReached(s) /\ ~Abandoned /\ ~In(s, "discover") /\ ~In(s, "evaluate")
    BY <2>1 DEF NotReached, Abandoned, In, LoopPhases
  <2>3. CoverageState(s) = "unavailable" => ~rows[s].available
    BY DEF CoverageState
  <2>4. CoverageState(s) = "complete" => rows[s].available /\ rows[s].reasons = {}
    BY DEF CoverageState
  <2>5. \A n \in SpaceNotes : <<s, n>> \in Candidates <=> n \in rows[s].local
    BY DEF Candidates
  <2> QED
    BY <2>1, <2>2, <2>3, <2>4, <2>5 DEF RowKnown
<1> QED
  BY <1>1, <1>2 DEF FederationSound

(* An answer's coverage is true and no space pays for another's reading,
   whatever the number of spaces, the budgets and the changes to the vaults:
   _scoped_federation.py. *)
THEOREM CoverageIsHonest == FederationSpec => []FederationSound
<1>1. FederationInv => FederationSound
  BY FederationInvIsSound
<1> QED
  BY <1>1, FederationInvariance, PTL
=============================================================================

------------------------------- MODULE NoteAccess -------------------------------
(***************************************************************************)
(* Reading one note, and establishing that one is gone, in a tree that     *)
(* people rearrange meanwhile: the verified snapshot of services/vault.py, *)
(* with and without an owner-issued fact, and the targeted classification  *)
(* of services/semantic_search.py that authorizes the deletion of rows.    *)
(*                                                                         *)
(* The tree is one path "d/n" and a second directory slot "e" that an      *)
(* alias in d may point to.  Every directory has a change stamp; a file    *)
(* has a version, which its size and modification time tell apart.         *)
(***************************************************************************)
EXTENDS Integers, Sequences

CONSTANTS
    MaxTreeEdits,  \* bound: edits of the tree
    MaxAccesses    \* bound: reads and classifications begun

ASSUME AccessAssumption == MaxTreeEdits \in Nat /\ MaxAccesses \in Nat

Slots == {"d", "e"}
Directories == {"A", "B"}
LinkKinds == {"alias", "escape", "dangling"}
Files == 1..(MaxTreeEdits + 1)
Dangling == 0 - 1   \* a dead link in the note's place

VARIABLES
    slots,    \* what each slot of the root holds
    leaf,     \* what each directory holds as "n": 0, a file or Dangling
    version,  \* of each file
    stamp,    \* change stamps of the root, the directories and the link
    access,   \* the call in progress
    truly,    \* what was true of the tree during the call
    counts    \* [edits, accesses]

accessVars == <<slots, leaf, version, stamp, access, truly, counts>>

NoAccess == [at |-> "idle", kind |-> "read", path |-> "none", fact |-> <<>>, facts |-> <<>>,
             pin |-> "none", file |-> 0, first |-> 0, half |-> 0, rest |-> 0, answer |-> "none"]

AccessInit ==
    /\ slots \in {s \in [Slots -> Directories \cup LinkKinds \cup {"none"}] :
                    s["e"] \notin LinkKinds /\ (s["d"] = s["e"] => s["d"] = "none")}
    /\ leaf \in [Directories -> {0, 1}] /\ ~(leaf["A"] = 1 /\ leaf["B"] = 1)
    /\ version = [f \in Files |-> 0]
    /\ stamp = [x \in {"root", "link"} \cup Directories |-> 0]
    /\ access = NoAccess /\ truly = {}
    /\ counts = [edits |-> 0, accesses |-> 0]

-----------------------------------------------------------------------------
(* Looking at the tree.                                                    *)
ThroughAlias(s) == IF slots[s] = "alias" THEN slots["e"] ELSE slots[s]
IsDirectory(x) == x \in Directories
HasFile(x) == IsDirectory(x) /\ leaf[x] \in Files

(* An ordinary absence: nothing there, and no dead or escaping link above. *)
OrdinarilyAbsent ==
    \/ slots["d"] = "none"
    \/ IsDirectory(slots["d"]) /\ leaf[slots["d"]] = 0
    \/ slots["d"] = "alias" /\ IsDirectory(slots["e"]) /\ leaf[slots["e"]] = 0

(* resolve_path: the canonical slot; "none" if the path leaves the vault. *)
Resolved(s) == IF slots[s] = "alias" THEN "e" ELSE IF slots[s] = "escape" THEN "none" ELSE s

(* verify_existing_markdown_path_result with the exact spelling. *)
Verified(s) == HasFile(slots[s])

(* What lstat tells of the entries along a path. *)
EntryFact(s) == IF slots[s] \in Directories THEN <<slots[s], stamp[slots[s]]>>
                ELSE IF slots[s] = "none" THEN <<"none", 0>> ELSE <<slots[s], stamp["link"]>>
RootFact == <<"root", stamp["root"]>>
PathFact(s) == <<RootFact, EntryFact(s), leaf[slots[s]], version[leaf[slots[s]]]>>
FactStands(fact, s) == Verified(s) /\ PathFact(s) = fact

-----------------------------------------------------------------------------
(* People.                                                                 *)
Edits(s2, n2, v2, stamped) ==
    /\ counts.edits < MaxTreeEdits
    /\ slots' = s2 /\ leaf' = n2 /\ version' = v2
    /\ stamp' = [x \in DOMAIN stamp |-> IF x \in stamped THEN stamp[x] + 1 ELSE stamp[x]]
    /\ counts' = [counts EXCEPT !.edits = @ + 1]
    /\ UNCHANGED access

(* Entries of the root are created, moved, exchanged and removed. *)
EditSlot ==
    \E s2 \in [Slots -> Directories \cup LinkKinds \cup {"none"}] :
       /\ s2 # slots /\ s2["e"] \notin LinkKinds /\ (s2["d"] = s2["e"] => s2["d"] = "none")
       /\ Edits(s2, leaf, version,
                {"root"} \cup {x \in Directories : \E s \in Slots : s2[s] # slots[s] /\ x \in {s2[s], slots[s]}}
                         \cup (IF s2["d"] \in LinkKinds THEN {"link"} ELSE {}))

EditNote ==
    \E x \in Directories :
       /\ \E s \in Slots : slots[s] = x
       /\ \/ \E f \in {0, Dangling} \cup {g \in Files : \A y \in Directories : leaf[y] < g} :
                /\ f # leaf[x] /\ Edits(slots, [leaf EXCEPT ![x] = f], version, {x})
          \/ /\ leaf[x] \in Files
             /\ Edits(slots, leaf, [version EXCEPT ![leaf[x]] = @ + 1], {})

-----------------------------------------------------------------------------
Proceeds(next) == access' = next /\ UNCHANGED <<slots, leaf, version, stamp, counts>>
Goes(at) == Proceeds([access EXCEPT !.at = at])
Answers(a) == Proceeds([access EXCEPT !.at = "answered", !.answer = a])
Unavailable == Answers("unavailable")

Begins(next) ==
    /\ access.at = "idle" /\ counts.accesses < MaxAccesses
    /\ access' = next
    /\ counts' = [counts EXCEPT !.accesses = @ + 1]
    /\ UNCHANGED <<slots, leaf, version, stamp>>

(* _read_owned_note: resolve, existence, then the verified snapshot. *)
BeginOwnedRead == Begins([NoAccess EXCEPT !.at = "resolving", !.kind = "owned"])

ResolveNote ==
    /\ access.at = "resolving"
    /\ IF Resolved("d") = "none" THEN Unavailable
       ELSE Proceeds([access EXCEPT !.at = "verifying", !.path = Resolved("d")])

VerifyFirst ==
    /\ access.at = "verifying"
    /\ IF Verified(access.path) THEN Goes("pinning") ELSE Unavailable

(* The snapshot under a fact that discovery issued. *)
BeginFactRead ==
    \E s \in Slots :
       /\ Verified(s)
       /\ Begins([NoAccess EXCEPT !.at = "recalling", !.kind = "fact", !.path = s, !.fact = PathFact(s)])

RecallFact ==
    /\ access.at = "recalling"
    /\ IF FactStands(access.fact, access.path) THEN Goes("pinning") ELSE Unavailable

(* openat with O_DIRECTORY | O_NOFOLLOW; with a fact, fstat must repeat it. *)
Openable(s) == slots[s]
PinDirectory ==
    LET x == Openable(access.path)
    IN /\ access.at = "pinning"
       /\ IF ~IsDirectory(x) \/ (access.kind = "fact" /\ <<x, stamp[x]>> # access.fact[2])
          THEN Unavailable
          ELSE Proceeds([access EXCEPT !.at = "opening", !.pin = x])

OpenNote ==
    LET f == leaf[access.pin]
    IN /\ access.at = "opening"
       /\ IF f \notin Files \/ (access.kind = "fact" /\ <<f, version[f]>> # <<access.fact[3], access.fact[4]>>)
          THEN Unavailable
          ELSE Proceeds([access EXCEPT !.at = "reading", !.file = f, !.first = version[f]])

ReadBegins ==
    /\ access.at = "reading"
    /\ Proceeds([access EXCEPT !.at = "ending", !.half = version[access.file]])

(* The rest is read, then fstat again: nothing may have been written. *)
Untouched == version[access.file] = access.first
ReadEnds ==
    /\ access.at = "ending"
    /\ IF Untouched THEN Proceeds([access EXCEPT !.at = "confirming", !.rest = version[access.file]])
                    ELSE Unavailable

ConfirmRead ==
    /\ access.at = "confirming"
    /\ IF IF access.kind = "fact" THEN FactStands(access.fact, access.path) ELSE Verified(access.path)
       THEN Answers("text") ELSE Unavailable

-----------------------------------------------------------------------------
(* read_promotion_bytes: an exactly spelled path, its directories pinned without
   following links and compared with the path before and after the read. *)
BeginPromotionRead == Begins([NoAccess EXCEPT !.at = "entering", !.kind = "promotion", !.path = "d"])

PinExactly ==
    /\ access.at = "entering"
    /\ IF IsDirectory(slots["d"]) THEN Proceeds([access EXCEPT !.at = "listing", !.pin = slots["d"]])
       ELSE Unavailable

(* verify: the pinned directory is the one at the path. *)
PinStands == slots["d"] = access.pin
ListExactly ==
    /\ access.at \in {"listing", "relisting"}
    /\ IF PinStands /\ leaf[access.pin] # 0
       THEN Goes(IF access.at = "listing" THEN "relisting" ELSE "promoting") ELSE Unavailable

OpenPromoted ==
    LET f == leaf[access.pin]
    IN /\ access.at = "promoting"
       /\ IF f \in Files THEN Proceeds([access EXCEPT !.at = "streaming", !.file = f, !.first = version[f]])
          ELSE Unavailable

ReadPromoted ==
    /\ access.at = "streaming"
    /\ Proceeds([access EXCEPT !.at = "streamed", !.half = version[access.file]])

ConfirmPromoted ==
    /\ access.at = "streamed"
    /\ IF PinStands THEN Answers("text") ELSE Unavailable

-----------------------------------------------------------------------------
(* _target_files for "d/n": a strict resolution, and only when that finds no
   file the walk that tells an ordinary absence from an unusable path. *)
BeginTarget == Begins([NoAccess EXCEPT !.at = "target", !.kind = "target"])

ResolveTarget ==
    LET x == ThroughAlias("d")
    IN /\ access.at = "target"
       /\ IF slots["d"] = "escape" THEN Unavailable
          ELSE IF HasFile(x) THEN Answers("file")
          ELSE Goes("containing")

ContainTarget ==
    /\ access.at = "containing"
    /\ IF slots["d"] = "escape" THEN Unavailable ELSE Goes("root")

LookAtRoot ==
    /\ access.at = "root"
    /\ Proceeds([access EXCEPT !.at = "ancestor", !.facts = <<RootFact>>])

(* _verify_missing_target: a missing first component ends the walk. *)
LookAtAncestor ==
    /\ access.at = "ancestor"
    /\ Proceeds(IF slots["d"] = "none" THEN [access EXCEPT !.at = "rechecking"]
                ELSE [access EXCEPT !.at = IF slots["d"] \in LinkKinds THEN "following" ELSE "leaf",
                                    !.facts = Append(@, EntryFact("d"))])

FollowAlias ==
    /\ access.at = "following"
    /\ IF slots["d"] = "alias" /\ IsDirectory(slots["e"])
       THEN Proceeds([access EXCEPT !.at = "leaf", !.facts = Append(@, EntryFact("e"))])
       ELSE IF IsDirectory(slots["d"]) THEN Goes("leaf") ELSE Unavailable

(* lstat of the note; a directory outside the vault holds no such note. *)
LeafExists == IsDirectory(ThroughAlias("d")) /\ leaf[ThroughAlias("d")] # 0
LookAtLeaf ==
    /\ access.at = "leaf"
    /\ IF LeafExists THEN Unavailable ELSE Goes("rechecking")

(* A plausible bug: what the walk recorded is not compared again. *)
FactRemembered(i) == access.facts[i]

(* Every ancestor is looked at again, one by one, then the missing component. *)
FactNow(i) == CASE i = 1 -> RootFact [] i = 2 -> EntryFact("d") [] OTHER -> EntryFact("e")
RecheckAncestor ==
    LET i == access.half + 1
    IN /\ access.at = "rechecking"
       /\ IF access.facts[i] # FactNow(i) THEN Unavailable
          ELSE Proceeds([access EXCEPT !.half = i, !.at = IF i = Len(access.facts) THEN "last" ELSE @])

LastLook ==
    /\ access.at = "last"
    /\ IF IF Len(access.facts) = 1 THEN slots["d"] # "none" ELSE LeafExists
       THEN Unavailable ELSE Answers("missing")

EndAccess == access.at = "answered" /\ Proceeds(NoAccess)

AccessStep ==
    \/ EditSlot \/ EditNote
    \/ BeginOwnedRead \/ ResolveNote \/ VerifyFirst \/ BeginFactRead \/ RecallFact
    \/ PinDirectory \/ OpenNote \/ ReadBegins \/ ReadEnds \/ ConfirmRead
    \/ BeginPromotionRead \/ PinExactly \/ ListExactly \/ OpenPromoted \/ ReadPromoted \/ ConfirmPromoted
    \/ BeginTarget \/ ResolveTarget \/ ContainTarget \/ LookAtRoot \/ LookAtAncestor
    \/ FollowAlias \/ LookAtLeaf \/ RecheckAncestor \/ LastLook \/ EndAccess

(* The directories at each slot, the notes at each path and an ordinary absence. *)
Truth ==
    {<<"held", s, slots[s]>> : s \in {t \in Slots : IsDirectory(slots[t])}}
    \cup {<<"note", s, leaf[slots[s]], version[leaf[slots[s]]]>> : s \in {t \in Slots : Verified(t)}}
    \cup (IF OrdinarilyAbsent THEN {<<"absent">>} ELSE {})

AccessNext ==
    /\ AccessStep
    /\ truly' = IF access'.at = "idle" THEN {}
                ELSE IF access.at = "idle" THEN Truth' ELSE truly \cup Truth'

AccessSpec == AccessInit /\ [][AccessNext]_accessVars

-----------------------------------------------------------------------------
(* However the tree is rearranged during the call: a text is one version of one
   note, read from a directory that was at the canonical path, and under a fact
   the text that path had during the call; what a promotion reads came from
   the directory at its exact path, though an edit in place may be half in it;
   and a path is reported missing only if it was ordinarily absent at some
   moment, never because a dead or escaping link stood above it. *)
AccessTruthful ==
    /\ access.answer = "text" =>
          /\ <<"held", access.path, access.pin>> \in truly
          /\ access.kind # "promotion" => {access.half, access.rest} = {access.first}
          /\ access.kind = "fact" => <<"note", access.path, access.file, access.first>> \in truly
    /\ access.answer = "missing" => <<"absent">> \in truly
=============================================================================

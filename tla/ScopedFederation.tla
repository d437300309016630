-------------------------- MODULE ScopedFederation ---------------------------
(***************************************************************************)
(* One federated read over several knowledge spaces: _scoped_federation.py *)
(* over the accounted sessions of _scoped_vault.py and the request's       *)
(* ScopedBudget.  The reader is one thread; the vaults change under it.    *)
(*                                                                         *)
(* A note is its current identity: 1 as first found, 2 edited, 0 gone.  An *)
(* identity never comes back.  The Markdown modes finish one space at a    *)
(* time; the semantic mode gathers, prepares, searches and confirms all of *)
(* them in separate passes with every session kept open.                   *)
(***************************************************************************)
EXTENDS Integers, FiniteSets, FiniteSetsExt, Functions

CONSTANTS SpaceCount,    \* selected spaces, 1..SpaceCount in canonical order
          SpaceNotes,    \* notes of each vault
          Ceilings,      \* the budgets tried: [probes, bytes, paths], aggregate
          MaxChanges     \* bound: changes made to the vaults during the read

ASSUME FederationAssumption ==
    SpaceCount \in Nat \ {0} /\ Ceilings \subseteq [probes : Nat, bytes : Nat, paths : Nat]

Spaces == 1 .. SpaceCount

VARIABLES
    mode,        \* "list", "literal" or "semantic"
    limits,      \* the request's aggregate ceilings
    matching,    \* notes the text matches
    disk,        \* identity of each note of each space
    rooted,      \* the configured root directory is where it was authorized
    changes,     \* bound's counter
    intact,      \* history: notes untouched since the read began
    phase, cur,  \* where the reader is
    todo,        \* notes left in the present loop
    rows,        \* per space: facts, local candidates, reasons, availability
    used,        \* ScopedBudget.used
    reply        \* "none", "error", or the items returned

federationVars == <<mode, limits, matching, disk, rooted, changes, intact,
                    phase, cur, todo, rows, used, reply>>
world == <<disk, rooted, changes, intact>>
request == <<mode, limits, matching>>

NewRow == [facts |-> [n \in SpaceNotes |-> 0], local |-> {}, reasons |-> {}, available |-> TRUE]
NotRun == [probes |-> 0, bytes |-> 0, paths |-> 0]

FederationInit ==
    /\ mode \in {"list", "literal", "semantic"}
    /\ limits \in Ceilings
    /\ matching \in IF mode = "list" THEN {SpaceNotes} ELSE SUBSET SpaceNotes
    /\ disk = [s \in Spaces |-> [n \in SpaceNotes |-> 1]]
    /\ rooted = [s \in Spaces |-> TRUE]
    /\ changes = 0 /\ intact = Spaces \X SpaceNotes
    /\ phase = "enter" /\ cur = 1 /\ todo = {}
    /\ rows = [s \in Spaces |-> NewRow]
    /\ used = [s \in Spaces |-> NotRun]
    /\ reply = "none"

----------------------------------------------------------------------------
(* The vaults change: a note is edited or removed, a root is lost or back. *)

ChangeNote(s, n) ==
    /\ disk[s][n] = 1
    /\ \E identity \in {0, 2} : disk' = [disk EXCEPT ![s][n] = identity]
    /\ intact' = intact \ {<<s, n>>}
    /\ UNCHANGED rooted

ChangeRoot(s) ==
    /\ rooted' = [rooted EXCEPT ![s] = ~@]
    /\ intact' = intact \ ({s} \X SpaceNotes)
    /\ UNCHANGED disk

VaultChanges ==
    /\ reply = "none" /\ changes < MaxChanges
    /\ \E s \in Spaces : ChangeRoot(s) \/ \E n \in SpaceNotes : ChangeNote(s, n)
    /\ changes' = changes + 1
    /\ UNCHANGED <<mode, limits, matching, phase, cur, todo, rows, used, reply>>

----------------------------------------------------------------------------
(* ScopedBudget: each space may use its equal share and no more. *)

Allocation(name) == limits[name] \div SpaceCount
TotalUsed(name) == SumFunction([s \in Spaces |-> used[s][name]])
Remaining(s, name) ==
    Min({limits[name] - TotalUsed(name), Allocation(name) - used[s][name]})

Charge(s, name) == used' = [used EXCEPT ![s][name] = @ + 1]

(* How a space is left: unavailable spaces contribute nothing. *)
GivenUp(row, why) ==
    [row EXCEPT !.available = FALSE, !.local = {}, !.reasons = @ \cup {why}]

NextSpace ==
    IF cur < SpaceCount THEN cur' = cur + 1 /\ phase' = "enter"
    ELSE cur' = 1 /\ phase' = IF mode = "semantic" THEN "prepare" ELSE "answer"

Drop(why) ==
    /\ rows' = [rows EXCEPT ![cur] = GivenUp(rows[cur], why)]
    /\ NextSpace
    /\ todo' = {}
    /\ UNCHANGED <<used, reply>>

Go(next, remaining) == phase' = next /\ todo' = remaining /\ cur' = cur

(* ScopedVaultSession.__enter__: the root is pinned and compared with the
   identity that was authorized. *)
Enter ==
    /\ phase = "enter"
    /\ IF ~rooted[cur] THEN Drop("root_unavailable")
       ELSE IF Remaining(cur, "probes") = 0 THEN Drop("discovery_limit")
       ELSE /\ Charge(cur, "probes")
            /\ Go("discover", SpaceNotes)
            /\ UNCHANGED <<rows, reply>>
    /\ UNCHANGED <<world, request>>

(* ScopedVaultSession.discover, an entry at a time.  At the path quota the
   canonically smaller paths are kept; when the budget ends, or an entry has
   gone between its listing and its stat, the whole snapshot is given up and
   so is the space.  The walk stays under the pinned root handle. *)
FoundWith(row, n) == {m \in SpaceNotes : row.facts[m] # 0} \cup {n}
Kept(row, n) ==
    IF Cardinality(FoundWith(row, n)) <= Allocation("paths") THEN {FoundWith(row, n)}
    ELSE {FoundWith(row, n) \ {m} : m \in FoundWith(row, n)}

Vanished ==
    /\ phase = "discover"
    /\ \E n \in todo : disk[cur][n] = 0
    /\ Drop("discovery_limit")
    /\ UNCHANGED <<world, request>>

DiscoverEntry ==
    /\ phase = "discover"
    /\ IF todo = {} THEN /\ Go("evaluate", {n \in SpaceNotes : rows[cur].facts[n] # 0})
                         /\ UNCHANGED <<rows, used, reply>>
       ELSE IF Remaining(cur, "probes") = 0 THEN Drop("discovery_limit")
       ELSE \E n \in todo :
            /\ Charge(cur, "probes")
            /\ IF disk[cur][n] = 0 THEN UNCHANGED rows
               ELSE \E kept \in Kept(rows[cur], n) :
                    rows' = [rows EXCEPT
                       ![cur].facts = [m \in SpaceNotes |-> IF m \notin kept THEN 0
                                                       ELSE IF m = n THEN disk[cur][n] ELSE @[m]],
                       ![cur].reasons = @ \cup IF kept = FoundWith(rows[cur], n) THEN {} ELSE {"path_limit"}]
            /\ Go("discover", todo \ {n})
            /\ UNCHANGED reply
    /\ UNCHANGED <<world, request>>

(* session.verify and session.read compare the note's identity with the one
   discovered, on a path pinned afresh under the root handle. *)
Current(s, n) == disk[s][n] = rows[s].facts[n]

AfterEvaluation == IF mode = "semantic" THEN Go("root", {}) ELSE Go("verify", rows[cur].local)

(* One note of the current space, read and matched.  The semantic mode keeps
   every note that can be read for its later search. *)
Evaluated(n) ==
    IF ~Current(cur, n) THEN [rows[cur] EXCEPT !.reasons = @ \cup {"note_unavailable"}]
    ELSE IF mode # "semantic" /\ n \notin matching THEN rows[cur]
    ELSE [rows[cur] EXCEPT !.local = @ \cup {n}]

(* A space whose content bytes end keeps what it has: that is a partial
   answer.  A space whose probes end is given up. *)
Evaluate ==
    /\ phase = "evaluate"
    /\ IF todo = {} THEN AfterEvaluation /\ UNCHANGED <<rows, used, reply>>
       ELSE \E n \in todo :
            IF mode # "list" /\ Remaining(cur, "bytes") = 0
            THEN /\ rows' = [rows EXCEPT ![cur].reasons = @ \cup {"content_limit"}]
                 /\ Go("evaluate", {})
                 /\ UNCHANGED <<used, reply>>
            ELSE IF Remaining(cur, "probes") = 0 THEN Drop("discovery_limit")
            ELSE /\ used' = [used EXCEPT ![cur].probes = @ + 1,
                                         ![cur].bytes = @ + IF mode = "list" THEN 0 ELSE 1]
                 /\ rows' = [rows EXCEPT ![cur] = Evaluated(n)]
                 /\ Go("evaluate", todo \ {n})
                 /\ UNCHANGED reply
    /\ UNCHANGED <<world, request>>

(* One verification of a candidate buffered for space s. *)
Reverified(s, n) ==
    IF Current(s, n) THEN rows[s]
    ELSE [rows[s] EXCEPT !.local = @ \ {n}, !.reasons = @ \cup {"note_unavailable"}]

(* The Markdown modes' last pass over the space's candidates. *)
VerifyLocal ==
    /\ phase = "verify"
    /\ IF todo = {} THEN Go("root", {}) /\ UNCHANGED <<rows, used, reply>>
       ELSE IF Remaining(cur, "probes") = 0 THEN Drop("discovery_limit")
       ELSE \E n \in todo :
            /\ Charge(cur, "probes")
            /\ rows' = [rows EXCEPT ![cur] = Reverified(cur, n)]
            /\ Go("verify", todo \ {n})
            /\ UNCHANGED reply
    /\ UNCHANGED <<world, request>>

VerifyRoot ==
    /\ phase = "root"
    /\ IF ~rooted[cur] THEN Drop("root_unavailable")
       ELSE IF Remaining(cur, "probes") = 0 THEN Drop("discovery_limit")
       ELSE /\ Charge(cur, "probes")
            /\ NextSpace /\ todo' = {}
            /\ UNCHANGED <<rows, reply>>
    /\ UNCHANGED <<world, request>>

----------------------------------------------------------------------------
(* The semantic passes over all spaces, in order.  The index is the semantic
   owner's: current here, or unavailable, or too large for the budget. *)

Pass(next) ==
    /\ IF cur < SpaceCount THEN cur' = cur + 1 /\ phase' = phase ELSE cur' = 1 /\ phase' = next
    /\ todo' = {}

SemanticFailures == {"index_unavailable", "semantic_limit"}

(* prepare_federation_candidates of every space comes before any inference. *)
Prepare ==
    /\ phase = "prepare"
    /\ \/ UNCHANGED rows
       \/ /\ rows[cur].available
          /\ \E why \in SemanticFailures : rows' = [rows EXCEPT ![cur] = GivenUp(rows[cur], why)]
    /\ Pass("search")
    /\ UNCHANGED <<world, request, used, reply>>

(* Two prepared indexes of different configurations cannot be ranked together. *)
Incompatible ==
    /\ phase = "search" /\ cur = 1
    /\ Cardinality({s \in Spaces : rows[s].available}) > 1
    /\ phase' = "done" /\ reply' = "error"
    /\ UNCHANGED <<world, request, cur, todo, rows, used>>

SearchCandidates ==
    /\ phase = "search"
    /\ \/ rows' = [rows EXCEPT ![cur].local = @ \cap matching]
       \/ /\ rows[cur].available
          /\ \E why \in SemanticFailures : rows' = [rows EXCEPT ![cur] = GivenUp(rows[cur], why)]
    /\ Pass("confirm")
    /\ UNCHANGED <<world, request, used, reply>>

(* The merged candidates are verified on the disk (todo: those done), then
   every root again. *)
Candidates == {item \in Spaces \X SpaceNotes : item[2] \in rows[item[1]].local}

ConfirmItem ==
    /\ phase = "confirm"
    /\ \/ Candidates \subseteq todo /\ phase' = "roots" /\ todo' = {} /\ UNCHANGED <<rows, used>>
       \/ \E item \in Candidates \ todo :
             LET s == item[1] IN
             /\ phase' = phase /\ todo' = todo \cup {item}
             /\ IF Remaining(s, "probes") = 0
                THEN rows' = [rows EXCEPT ![s] = GivenUp(rows[s], "discovery_limit")] /\ UNCHANGED used
                ELSE rows' = [rows EXCEPT ![s] = Reverified(s, item[2])] /\ Charge(s, "probes")
    /\ UNCHANGED <<world, request, cur, reply>>

VerifyRoots ==
    /\ phase = "roots"
    /\ IF ~rows[cur].available THEN UNCHANGED <<rows, used>>
       ELSE IF ~rooted[cur]
       THEN rows' = [rows EXCEPT ![cur] = GivenUp(rows[cur], "root_unavailable")] /\ UNCHANGED used
       ELSE IF Remaining(cur, "probes") = 0
       THEN rows' = [rows EXCEPT ![cur] = GivenUp(rows[cur], "discovery_limit")] /\ UNCHANGED used
       ELSE Charge(cur, "probes") /\ UNCHANGED rows
    /\ Pass("answer")
    /\ UNCHANGED <<world, request, reply>>

----------------------------------------------------------------------------
(* The coverage of each space, and the answer assembled from all of them. *)

(* A plausible bug: paths beyond the ceiling do not make an answer partial. *)
CoverageStateOfPaths(s) ==
    IF ~rows[s].available THEN "unavailable"
    ELSE IF rows[s].reasons \ {"path_limit"} # {} THEN "partial" ELSE "complete"

CoverageState(s) ==
    IF ~rows[s].available THEN "unavailable"
    ELSE IF rows[s].reasons # {} THEN "partial" ELSE "complete"

Answer ==
    /\ phase = "answer"
    /\ phase' = "done"
    /\ reply' = IF \A s \in Spaces : CoverageState(s) = "unavailable" THEN "error" ELSE "items"
    /\ UNCHANGED <<world, request, cur, todo, rows, used>>

(* Every loop checks the caller's token. *)
ReadCancelled ==
    /\ phase # "done"
    /\ phase' = "done" /\ reply' = "error"
    /\ UNCHANGED <<world, request, cur, todo, rows, used>>

FederationNext ==
    \/ VaultChanges
    \/ Enter \/ Vanished \/ DiscoverEntry \/ Evaluate \/ VerifyLocal \/ VerifyRoot
    \/ Prepare \/ Incompatible \/ SearchCandidates \/ ConfirmItem \/ VerifyRoots
    \/ Answer \/ ReadCancelled

FederationSpec == FederationInit /\ [][FederationNext]_federationVars

----------------------------------------------------------------------------
(* An answer is honest whatever changes under the reader and whichever budget
   ends: an unavailable space contributes no item, and a space called
   complete contributes every matching note that stood untouched since the
   read began.  What is left out is always admitted in the coverage. *)
HonestCoverage ==
    reply = "items" =>
        \A s \in Spaces :
            /\ CoverageState(s) = "unavailable" => \A n \in SpaceNotes : <<s, n>> \notin Candidates
            /\ CoverageState(s) = "complete" =>
                  \A n \in matching : <<s, n>> \in intact => <<s, n>> \in Candidates

(* No space's reading can use up what another was allotted: what remains to a
   space depends on its own use alone. *)
NoSpaceStarvesAnother ==
    \A s \in Spaces, name \in {"probes", "bytes"} :
        Remaining(s, name) = Allocation(name) - used[s][name]

(* What a scoped read says of each space's coverage is true, and no space pays
   for another's reading. *)
FederationSound == HonestCoverage /\ NoSpaceStarvesAnother
=============================================================================

------------------------------ MODULE HygieneScan ------------------------------
(***************************************************************************)
(* One knowledge hygiene scan (services/knowledge_hygiene.py) over a vault *)
(* that editors change meanwhile: the bounded enumeration and its facts    *)
(* (services/vault.py), verified reads, the resolution of links against    *)
(* the enumerated spellings (services/wikilinks.py, markdown_links.py,     *)
(* relationships.py), the final verification and the batch of title        *)
(* duplicates (services/duplicate_candidates.py).                          *)
(*                                                                         *)
(* A spelling is a path below the vault; a note has one canonical spelling,*)
(* an alias is a symbolic link.  Stamps stand for inode, size and times.   *)
(***************************************************************************)
EXTENDS Naturals, FiniteSets, Functions

CONSTANTS
    Spellings,    \* paths that may hold an entry
    NameOf,       \* NameOf[s]: the file name of spelling s
    DirOf,        \* DirOf[s]: its directory, "" for the root
    PlaceOf,      \* PlaceOf[s]: position in canonical order
    Bodies,       \* note contents: [links, key, curated]; a link is <<"name", n>> or <<"path", s>>
    PathCeiling,  \* limit of the enumeration
    SourceLimit,  \* duplicate_source_limit of the request
    MaxVaultEdits \* bound: changes of the vault during the scan

ASSUME HygieneAssumption == PlaceOf \in [Spellings -> Nat] /\ "none" \notin Spellings

VARIABLES
    vault,  \* [Spellings -> entry]
    dirs,   \* [directory -> stamp of its last creation or removal]
    scan,   \* the scan's local variables
    truth   \* history: [edits, then, looked, born]

hygieneVars == <<vault, dirs, scan, truth>>

Nothing == [kind |-> "absent", to |-> "nowhere", body |-> CHOOSE b \in Bodies : TRUE, stamp |-> 0]
Entry(kind, to, body, stamp) == [kind |-> kind, to |-> to, body |-> body, stamp |-> stamp]
Entries(stamp) ==
    {Nothing} \cup {Entry("note", "nowhere", b, stamp) : b \in Bodies}
    \cup {Entry("alias", to, Nothing.body, stamp) : to \in Spellings \cup {"outside"}}

HygieneInit ==
    /\ vault \in [Spellings -> Entries(0)]
    /\ \A s \in Spellings : vault[s].kind = "alias" => DirOf[s] = "" /\ vault[s].to # s
    /\ dirs = [d \in {""} \cup {DirOf[s] : s \in Spellings} |-> 0]
    /\ scan = [at |-> "enumerating", todo |-> Spellings, facts |-> <<>>, cands |-> {}, unsafe |-> {},
               reasons |-> {}, note |-> "none", live |-> {}, read |-> <<>>,
               edges |-> {}, found |-> {}, pairs |-> {}, lost |-> {}, late |-> {}]
    /\ truth = [edits |-> 0, then |-> vault, looked |-> {}, born |-> {}]

-----------------------------------------------------------------------------
(* Editors: create, rewrite, remove or redirect one entry.                 *)
EditVault(s) ==
    /\ truth.edits < MaxVaultEdits /\ scan.at # "answered"
    /\ \E e \in Entries(truth.edits + 1) \ {vault[s]} :
          /\ e.kind = "alias" => DirOf[s] = "" /\ e.to # s
          /\ vault' = [vault EXCEPT ![s] = e]
          /\ dirs' = IF e.kind = "note" /\ vault[s].kind = "note" THEN dirs
                     ELSE [dirs EXCEPT ![DirOf[s]] = truth.edits + 1]
          /\ truth' = [truth EXCEPT !.edits = @ + 1,
                                    !.born = IF e.kind = "note" /\ vault[s].kind = "note" THEN @ ELSE @ \cup {s}]
    /\ UNCHANGED scan

-----------------------------------------------------------------------------
(* Facts: an entry's own identity and that of every directory above it.    *)
FactOf(s) == [stamp |-> vault[s].stamp, kind |-> vault[s].kind, above |-> {<<d, dirs[d]>> : d \in {"", DirOf[s]}}]
StillThere(p, fact) == vault[p].kind = fact.kind
FactHolds(p, fact) == FactOf(p) = fact

IsNote(v, s) == v[s].kind = "note"
(* The note that a spelling denotes, as verify_existing_markdown_path_result finds it. *)
CanonicalIn(v, s) ==
    IF IsNote(v, s) THEN s
    ELSE IF v[s].kind = "alias" /\ v[s].to # "outside" /\ IsNote(v, v[s].to) THEN v[s].to
    ELSE "none"

(* record_identity: the smallest canonical paths, up to the ceiling. *)
Largest(S) == CHOOSE s \in S : \A t \in S : PlaceOf[t] <= PlaceOf[s]
Smallest(S) == CHOOSE s \in S : \A t \in S : PlaceOf[s] <= PlaceOf[t]

Recorded(s, canonical) ==
    LET known == DOMAIN scan.facts
        full == canonical \notin known /\ Cardinality(known) = PathCeiling
        kept == IF canonical \in known THEN known
                ELSE IF full THEN (known \cup {canonical}) \ {Largest(known \cup {canonical})}
                ELSE known \cup {canonical}
        spelled == [spelling |-> s, canonical |-> canonical, fact |-> FactOf(s)]
    IN [scan EXCEPT !.todo = @ \ {s},
                    !.facts = [p \in kept |-> IF p \in known THEN @[p] ELSE FactOf(p)],
                    !.cands = {c \in @ \cup {spelled} : c.canonical \in kept},
                    !.reasons = IF full THEN @ \cup {"path_ceiling"} ELSE @]

(* One directory entry of the walk; a failed inspection interrupts it. *)
Discover(s) ==
    /\ scan.at = "enumerating" /\ s \in scan.todo
    /\ \/ scan' = IF vault[s].kind = "absent" THEN [scan EXCEPT !.todo = @ \ {s}]
                  ELSE IF CanonicalIn(vault, s) # "none" THEN Recorded(s, CanonicalIn(vault, s))
                  ELSE [scan EXCEPT !.todo = @ \ {s}, !.unsafe = @ \cup {NameOf[s]}]
       \/ /\ vault[s].kind # "absent"
          /\ scan' = [scan EXCEPT !.todo = @ \ {s}, !.reasons = @ \cup {"enumeration_unavailable"}]
    /\ truth' = IF vault[s].kind = "absent" THEN truth ELSE [truth EXCEPT !.looked = @ \cup {<<s, CanonicalIn(vault, s)>>}]
    /\ UNCHANGED <<vault, dirs>>

Enumerated ==
    /\ scan.at = "enumerating" /\ scan.todo = {}
    /\ scan' = [scan EXCEPT !.at = "reading", !.todo = DOMAIN scan.facts]
    /\ truth' = [truth EXCEPT !.then = vault]
    /\ UNCHANGED <<vault, dirs>>

Raced(p, s) == [s EXCEPT !.lost = @ \cup {p}, !.reasons = @ \cup {"note_unavailable"}]

(* read_verified_markdown_snapshot: the facts hold before and after the bytes. *)
Inspect ==
    /\ scan.at = "reading" /\ scan.todo # {}
    /\ LET p == Smallest(scan.todo)
           next == [scan EXCEPT !.todo = @ \ {p}]
       IN scan' \in {Raced(p, next)}
                    \cup (IF FactHolds(p, scan.facts[p])
                          THEN {[next EXCEPT !.at = "deriving", !.note = p, !.live = @ \cup {p},
                                             !.read = [q \in DOMAIN @ \cup {p} |->
                                                          IF q = p THEN vault[p].body ELSE @[q]]]}
                          ELSE {})
    /\ UNCHANGED <<vault, dirs, truth>>

-----------------------------------------------------------------------------
(* Resolution of one link against the enumerated spellings: a set of at most
   one canonical path, or "unavailable" when a spelling no longer stands as it
   was enumerated. *)
CandidateHolds(c) == FactHolds(c.spelling, c.fact) /\ CanonicalIn(vault, c.spelling) = c.canonical

ByName(n) ==
    LET matches == {c \in scan.cands : NameOf[c.spelling] = n}
        paths == {c.canonical : c \in matches}
    IN IF \E c \in matches : ~CandidateHolds(c) THEN "unavailable"
       ELSE IF Cardinality(paths) = 1 THEN "resolved" ELSE IF paths # {} THEN "ambiguous"
       ELSE IF n \in scan.unsafe THEN "unsafe" ELSE "missing"

ByPath(s) ==
    LET known == {c \in scan.cands : c.spelling = s}
    IN IF known # {}
       THEN IF \A c \in known : CandidateHolds(c) THEN "resolved" ELSE "unavailable"
       ELSE IF vault[s].kind = "absent" THEN "missing"
       ELSE IF DirOf[s] # "" THEN "unavailable"
       ELSE IF CanonicalIn(vault, s) = "none" THEN "unsafe" ELSE "missing"

OutcomeOf(link) == IF link[1] = "name" THEN ByName(link[2]) ELSE ByPath(link[2])
Target(link) ==
    (CHOOSE c \in scan.cands : IF link[1] = "name" THEN NameOf[c.spelling] = link[2] ELSE c.spelling = link[2]).canonical

(* Relationships exist only over a complete enumeration. *)
Derive ==
    /\ scan.at = "deriving"
    /\ LET p == scan.note
           links == scan.read[p].links
       IN scan' = [scan EXCEPT
            !.at = "reading",
            !.reasons = IF @ \cap {"path_ceiling", "enumeration_unavailable"} = {}
                           /\ \E l \in links : OutcomeOf(l) = "unavailable"
                        THEN @ \cup {"relationship_unavailable"} ELSE @,
            !.edges = IF scan.reasons \cap {"path_ceiling", "enumeration_unavailable"} # {}
                         \/ \E l \in links : OutcomeOf(l) = "unavailable" THEN @
                      ELSE @ \cup {<<p, Target(l)>> : l \in {k \in links : OutcomeOf(k) = "resolved"}},
            !.found = IF scan.reasons \cap {"path_ceiling", "enumeration_unavailable"} # {}
                         \/ \E l \in links : OutcomeOf(l) = "unavailable" THEN @
                      ELSE @ \cup {<<OutcomeOf(l), p, l[2]>> : l \in {k \in links : OutcomeOf(k) # "resolved"}}]
    /\ UNCHANGED <<vault, dirs, truth>>

AllRead ==
    /\ scan.at = "reading" /\ scan.todo = {}
    /\ scan' = [scan EXCEPT !.at = "verifying", !.todo = scan.live]
    /\ UNCHANGED <<vault, dirs, truth>>

(* A final owner verification removes paths that visibly raced after their read. *)
VerifyAgain ==
    /\ scan.at = "verifying" /\ scan.todo # {}
    /\ LET p == Smallest(scan.todo)
           next == [scan EXCEPT !.todo = @ \ {p}]
       IN scan' = IF FactHolds(p, scan.facts[p]) THEN next ELSE [Raced(p, next) EXCEPT !.live = @ \ {p}]
    /\ UNCHANGED <<vault, dirs, truth>>

(* Findings about absence, and about several notes at once, need a complete scan. *)
Complete == scan.reasons = {}
Isolated(p) == \A e \in scan.edges : e[1] # p /\ e[2] # p
DuplicateSources == {p \in scan.live : Cardinality({q \in DOMAIN scan.read : PlaceOf[q] < PlaceOf[p]}) < SourceLimit}
BodyKey(p) == scan.read[p].key

Judge ==
    /\ scan.at = "verifying" /\ scan.todo = {}
    /\ scan' = [scan EXCEPT
         !.at = "duplicates", !.todo = DuplicateSources,
         !.found = {f \in @ : f[2] \notin scan.lost}
                   \cup (IF Complete
                         THEN {<<"isolated", p, "">> : p \in {q \in scan.live : scan.read[q].curated /\ Isolated(q)}}
                              \cup {<<"colliding", p, BodyKey(p)>> : p \in {q \in scan.live :
                                       BodyKey(q) # "none" /\ \E r \in scan.live \ {q} : BodyKey(r) = BodyKey(q)}}
                         ELSE {})]
    /\ UNCHANGED <<vault, dirs, truth>>

-----------------------------------------------------------------------------
(* find_bounded_batch: equal titles among the enumerated paths.            *)
Standing(S) == {p \in S : FactHolds(p, scan.facts[p])}
FindDuplicates ==
    /\ scan.at = "duplicates" /\ scan.todo # {}
    /\ LET p == Smallest(scan.todo)
           same == {q \in DOMAIN scan.facts \ {p} : NameOf[q] = NameOf[p]}
           next == [scan EXCEPT !.todo = @ \ {p}]
       IN scan' = IF Standing({p}) = {} THEN [next EXCEPT !.late = @ \cup {p}]
                  ELSE [next EXCEPT !.late = @ \cup (same \ Standing(same)),
                                    !.pairs = @ \cup {<<p, q>> : q \in Standing(same)}]
    /\ UNCHANGED <<vault, dirs, truth>>

(* Both notes of a pair are verified once more before it is added, once. *)
ConfirmPair ==
    /\ scan.at = "duplicates" /\ scan.todo = {} /\ scan.pairs # {}
    /\ \E pair \in scan.pairs :
          LET next == [scan EXCEPT !.pairs = @ \ {pair}]
          IN scan' = IF Standing({pair[1]}) = {} THEN [next EXCEPT !.late = @ \cup {pair[1]}]
                     ELSE IF Standing({pair[2]}) = {} THEN [next EXCEPT !.late = @ \cup {pair[2]}]
                     ELSE IF <<"duplicate", pair[2], pair[1]>> \in scan.found THEN next
                     ELSE [next EXCEPT !.found = @ \cup {<<"duplicate", pair[1], pair[2]>>}]
    /\ UNCHANGED <<vault, dirs, truth>>

(* What raced late takes with it every finding that names it, and every
   finding about absence. *)
Report ==
    /\ scan.at = "duplicates" /\ scan.todo = {} /\ scan.pairs = {}
    /\ LET raced == scan.lost \cup scan.late
       IN scan' = IF scan.late = {} THEN [scan EXCEPT !.at = "answered"]
                  ELSE [scan EXCEPT
                          !.at = "answered", !.reasons = @ \cup {"note_unavailable"}, !.lost = raced,
                          !.found = {f \in @ : f[2] \notin raced /\ f[1] \notin {"isolated", "colliding"}
                                                /\ (f[1] = "duplicate" => f[3] \notin raced)}]
    /\ UNCHANGED <<vault, dirs, truth>>

HygieneNext ==
    \/ \E s \in Spellings : EditVault(s) \/ Discover(s)
    \/ Enumerated \/ Inspect \/ Derive \/ AllRead \/ VerifyAgain \/ Judge
    \/ FindDuplicates \/ ConfirmPair \/ Report

HygieneSpec == HygieneInit /\ [][HygieneNext]_hygieneVars

-----------------------------------------------------------------------------
(* What the links of a note meant when the enumeration ended, among the
   spellings that denoted then what the walk had found. *)
Known == {s \in Spellings : <<s, CanonicalIn(truth.then, s)>> \in truth.looked}
LinksThen(n, p) ==
    \E l \in truth.then[n].body.links :
        IF l[1] = "name"
        THEN {CanonicalIn(truth.then, s) : s \in {x \in Known : NameOf[x] = l[2]}} \ {"none"} = {p}
        ELSE l[2] \in Known /\ CanonicalIn(truth.then, l[2]) = p
NotesThen == {n \in Known : IsNote(truth.then, n)}

(* However editors race with the scan: a note is called isolated, or an alias
   colliding, only if that was so for the vault as it stood when the
   enumeration ended; and a scan called complete inspected every note that
   existed all along. *)
AbsenceProved ==
    scan.at = "answered" =>
        /\ \A p \in Spellings : <<"isolated", p, "">> \in scan.found =>
              /\ IsNote(truth.then, p)
              /\ \A n \in NotesThen : ~LinksThen(n, p) /\ ~LinksThen(p, n)
        /\ \A p \in Spellings : \A k \in {b.key : b \in Bodies} : <<"colliding", p, k>> \in scan.found =>
              \E q \in Spellings \ {p} : IsNote(truth.then, q) /\ truth.then[q].body.key = k /\ truth.then[p].body.key = k
        /\ scan.reasons = {} =>
              \A n \in Spellings : IsNote(truth.then, n) /\ n \notin truth.born => n \in scan.live
=============================================================================

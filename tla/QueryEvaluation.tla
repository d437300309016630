-------------------------- MODULE QueryEvaluation --------------------------
(***************************************************************************)
(* app/services/knowledge_query.py: the two evaluators of one structured   *)
(* query over the live notes of a space.  "live" is query(), which looks   *)
(* at the vault note by note; "scoped" is evaluate_supplied_eligibility,   *)
(* which works over an enumeration it is given, within a budget, and says  *)
(* when its answer may be incomplete.  Users edit, create and delete notes *)
(* between any two looks.                                                  *)
(*                                                                         *)
(* A text carries what the predicates can tell apart: whether it holds the *)
(* literal, its tags and its one metadata value, if its frontmatter is     *)
(* valid, and its links, each a target and a dialect.  Verifying all the   *)
(* paths a request names is one look.                                      *)
(***************************************************************************)
EXTENDS Integers, FiniteSets

CONSTANTS Notes,        \* the paths there may be notes at
          PositionOf,   \* PositionOf[p]: where p stands in canonical order
          InFolder,     \* the notes below the one folder there is
          Outside,      \* a path that leads out of the vault
          Gone,         \* no note, no value, no restriction
          Texts,        \* [literal, valid, tags, meta, links]; a link is <<target, dialect>>
          Requests,
          MaxNoteEdits  \* bound: edits during the evaluation

ASSUME QueryAssumption ==
    /\ IsFiniteSet(Notes) /\ Outside \notin Notes /\ PositionOf \in [Notes -> Nat]
    /\ \A q \in Requests :
          /\ q.limit \in Nat /\ q.semantic \in BOOLEAN
          /\ \A r \in q.relations :
                r.direction \in {"incoming", "outgoing"} /\ r.other \in Notes \cup {Outside}

VARIABLES
    files,     \* note -> text and the edit that made it, or Gone
    query,     \* the request
    eval,      \* the evaluation: its locals
    past,      \* history: every text each note has had since it began
    edited

queryVars == <<files, query, eval, past, edited>>

Exists(p) == p \in Notes /\ files[p] # Gone
Existing == {p \in Notes : Exists(p)}

(* states: what a note was when the evaluation looked at it. *)
Fresh(evaluator) ==
    [by |-> evaluator, at |-> "start", listed |-> {}, states |-> [p \in Notes |-> Gone], chosen |-> {},
     todo |-> {}, sources |-> {}, eligible |-> {}, looked |-> {}, edges |-> {}, matches |-> {},
     reasons |-> {}, missed |-> FALSE]

QueryInit ==
    /\ files \in [Notes -> [text : Texts, edit : {0}] \cup {Gone}]
    /\ query \in Requests
    /\ \E evaluator \in {"live", "scoped"} : eval = Fresh(evaluator) /\ (evaluator = "scoped" => ~query.semantic)
    /\ past = [p \in Notes |-> IF files[p] = Gone THEN {} ELSE {files[p].text}]
    /\ edited = 0
-----------------------------------------------------------------------------
\* The predicates on one text.
MatchesTags(t) == query.tags = {} \/ (t.valid /\ t.tags # Gone /\ query.tags \subseteq t.tags)

\* bool and int differ although Python finds them equal; a sequence never equals.
SameScalarType(a, b) == a.type = b.type

MatchesMetadata(t) ==
    LET wanted == query.metadata IN
    \/ wanted = Gone
    \/ /\ t.valid /\ t.meta # Gone
       /\ CASE wanted.operator = "exists" -> TRUE
            [] wanted.operator = "equals" ->
                 SameScalarType(t.meta, wanted.value) /\ t.meta.value = wanted.value.value
            [] wanted.operator = "not_equals" ->
                 SameScalarType(t.meta, wanted.value) /\ t.meta.value # wanted.value.value
            [] OTHER -> /\ t.meta.type = "sequence"
                        /\ \E m \in t.meta.value : SameScalarType(m, wanted.value)
                                                   /\ m.value = wanted.value.value

MatchesText(t) == (query.literal => t.literal) /\ MatchesTags(t) /\ MatchesMetadata(t)

InScope(p) ==
    /\ query.folder = Gone \/ (query.folder = "folder" /\ p \in InFolder)
    /\ query.paths = {} \/ p \in eval.chosen

Outgoing == {r \in query.relations : r.direction = "outgoing"}
Incoming == {r \in query.relations : r.direction = "incoming"}
LinkTargets == {r.other : r \in query.relations}

\* edges: <<source, link>> of the notes derived so far.
Matches(p, edges) ==
    \A r \in query.relations :
        LET source == IF r.direction = "outgoing" THEN p ELSE r.other
            target == IF r.direction = "outgoing" THEN r.other ELSE p
        IN \E e \in edges : e[1] = source /\ e[2][1] = target /\ (r.origin = Gone \/ e[2][2] = r.origin)

Refuse(verdict) == eval' = [eval EXCEPT !.at = verdict, !.matches = {}]
OthersKept == UNCHANGED <<files, query, past, edited>>
First(S) == CHOOSE p \in S : \A q \in S : PositionOf[p] <= PositionOf[q]
-----------------------------------------------------------------------------
(* query(): a look at the paths the request names, an enumeration, a read  *)
(* of each incoming source and candidate, and a last look at each match.   *)
Live(at) == eval.by = "live" /\ eval.at = at

Resolve ==
    /\ Live("start")
    /\ IF Outside \in query.paths \cup LinkTargets THEN Refuse("unsafe")
       ELSE eval' = [eval EXCEPT !.at = "listing",
                         !.chosen = {p \in query.paths : Exists(p)},
                         !.missed = \E p \in LinkTargets : ~Exists(p)]
    /\ OthersKept

\* A target that was missing leaves no candidate; links resolve among the listed.
List ==
    /\ Live("listing")
    /\ eval' = [eval EXCEPT !.at = "incoming", !.listed = Existing,
                   !.todo = IF eval.missed THEN {} ELSE {p \in Existing : InScope(p)},
                   !.sources = IF eval.missed THEN {} ELSE {r.other : r \in Incoming},
                   !.missed = FALSE]
    /\ OthersKept

EdgesOf(p, t) == {<<p, l>> : l \in {l \in t.links : l[1] \in eval.listed}}

\* read_once: a note that cannot be read any more is passed over in silence.
ReadIncoming(p) ==
    /\ Live("incoming") /\ p \in eval.sources
    /\ eval' = [eval EXCEPT !.sources = @ \ {p}, !.looked = @ \cup {p}, !.states[p] = files[p],
                   !.edges = IF Exists(p) THEN @ \cup EdgesOf(p, files[p].text) ELSE @]
    /\ OthersKept

StartCandidates ==
    /\ Live("incoming") /\ eval.sources = {}
    /\ eval' = [eval EXCEPT !.at = "reading"]
    /\ OthersKept

\* The text of a note is the one of its first read.
TextRead(p) == IF p \in eval.looked THEN eval.states[p] ELSE files[p]

ReadCandidate ==
    LET p == First(eval.todo)
        f == TextRead(p)
        edges == IF f = Gone \/ Outgoing = {} THEN eval.edges ELSE eval.edges \cup EdgesOf(p, f.text) IN
    /\ Live("reading") /\ eval.todo # {}
    /\ eval' = [eval EXCEPT !.todo = @ \ {p}, !.edges = edges,
                   !.eligible = IF f # Gone /\ MatchesText(f.text) /\ Matches(p, edges)
                                THEN @ \cup {p} ELSE @]
    /\ OthersKept

EndCandidates ==
    /\ Live("reading") /\ eval.todo = {}
    /\ eval' = [eval EXCEPT !.at = IF query.semantic THEN "ranking" ELSE "confirming",
                            !.todo = eval.eligible]
    /\ OthersKept

\* Semantic search: whatever it returns is held against the eligible notes.
Rank ==
    /\ Live("ranking")
    /\ \/ Refuse("unavailable")
       \/ \E found \in SUBSET Notes :
            eval' = [eval EXCEPT !.at = "confirming", !.todo = found \cap eval.eligible]
    /\ OthersKept

\* Ranked matches come in the order of their scores.
ConfirmMatch ==
    /\ Live("confirming")
    /\ IF eval.todo = {} \/ Cardinality(eval.matches) >= query.limit
       THEN eval' = [eval EXCEPT !.at = "answered"]
       ELSE \E p \in IF query.semantic THEN eval.todo ELSE {First(eval.todo)} :
               eval' = [eval EXCEPT !.todo = @ \ {p}, !.matches = IF Exists(p) THEN @ \cup {p} ELSE @]
    /\ OthersKept
-----------------------------------------------------------------------------
(* evaluate_supplied_eligibility over the enumeration `listed': per note    *)
(* the state it was in.  An incomplete one lacks notes and says so.         *)
Scoped(at) == eval.by = "scoped" /\ eval.at = at
Because(reason, e) == [e EXCEPT !.reasons = @ \cup {reason}]

Supply ==
    /\ Scoped("start")
    /\ \E subset \in SUBSET Existing :
         LET supplied == [eval EXCEPT !.at = "selecting", !.listed = subset,
                                      !.states = [p \in Notes |-> IF p \in subset THEN files[p] ELSE Gone]] IN
         eval' = IF subset = Existing THEN supplied
                 ELSE IF query.relations = {} THEN Because("discovery_limit", supplied)
                 ELSE Because("relationship_limit", [supplied EXCEPT !.at = "answered"])
    /\ OthersKept

Unchanged(p) == Exists(p) /\ files[p] = eval.states[p]

\* ScopedRelationshipSnapshot.exact
Exact(p) ==
    IF p = Outside THEN "unsafe"
    ELSE IF p \notin eval.listed THEN "missing"
    ELSE IF Unchanged(p) THEN "resolved"
    ELSE "unavailable"

SelectPaths ==
    LET chosen == {p \in query.paths : Exact(p) = "resolved"}
        changed == \E p \in query.paths : Exact(p) = "unavailable"
        selected == [eval EXCEPT !.at = IF query.paths # {} /\ chosen = {} THEN "answered" ELSE "targets",
                                 !.chosen = chosen] IN
    /\ Scoped("selecting")
    /\ IF \E p \in query.paths : Exact(p) = "unsafe" THEN Refuse("unsafe")
       ELSE eval' = IF changed THEN Because("note_unavailable", selected) ELSE selected
    /\ OthersKept

FindTargets ==
    /\ Scoped("targets")
    /\ IF \E p \in LinkTargets : Exact(p) = "unsafe" THEN Refuse("unsafe")
       ELSE IF \E p \in LinkTargets : Exact(p) = "unavailable" THEN Refuse("unavailable")
       ELSE IF \E p \in LinkTargets : Exact(p) = "missing" THEN eval' = [eval EXCEPT !.at = "answered"]
       ELSE eval' = [eval EXCEPT !.at = "inspecting", !.sources = {r.other : r \in Incoming},
                                 !.todo = {p \in eval.listed : InScope(p)}]
    /\ OthersKept

\* A plausible bug: links are derived of matching texts only, although the
\* source of an incoming link need not match anything itself.
DerivesMatching(p, t) == MatchesText(t) /\ (Outgoing # {} \/ p \in {r.other : r \in Incoming})

Derives(p, t) == Outgoing # {} \/ p \in {r.other : r \in Incoming}

\* inspect(): once per note.  A link to a listed note that changed or vanished,
\* like the note itself changing, makes the note unavailable.
Inspected(p) ==
    IF p \in eval.looked THEN eval
    ELSE IF ~Unchanged(p) THEN Because("note_unavailable", [eval EXCEPT !.looked = @ \cup {p}])
    ELSE LET t == files[p].text
             seen == [eval EXCEPT !.looked = @ \cup {p},
                                  !.eligible = IF MatchesText(t) THEN @ \cup {p} ELSE @] IN
         IF ~Derives(p, t) THEN seen
         ELSE IF \E l \in t.links : Exact(l[1]) = "unavailable"
         THEN Because("note_unavailable", [eval EXCEPT !.looked = @ \cup {p}])
         ELSE [seen EXCEPT !.edges = @ \cup {<<p, l>> : l \in {l \in t.links : Exact(l[1]) = "resolved"}}]

InspectSource(p) ==
    /\ Scoped("inspecting") /\ p \in eval.sources
    /\ eval' = [Inspected(p) EXCEPT !.sources = @ \ {p}]
    /\ OthersKept

InspectNext ==
    /\ Scoped("inspecting") /\ eval.sources = {} /\ eval.todo # {}
    /\ LET p == First(eval.todo)
           e == Inspected(p) IN
       eval' = [e EXCEPT !.todo = @ \ {p},
                         !.matches = IF p \in e.eligible /\ Matches(p, e.edges) THEN @ \cup {p} ELSE @]
    /\ OthersKept

\* A budget ends: without relationships the matches so far stand, with them none.
Exhaust ==
    /\ Scoped("inspecting") /\ (eval.sources # {} \/ eval.todo # {})
    /\ eval' = IF query.relations = {}
               THEN Because("content_limit", [eval EXCEPT !.at = "answered"])
               ELSE Because("relationship_limit", [eval EXCEPT !.at = "answered", !.matches = {}])
    /\ OthersKept

EndInspection ==
    /\ Scoped("inspecting") /\ eval.sources = {} /\ eval.todo = {}
    /\ eval' = [eval EXCEPT !.at = "answered"]
    /\ OthersKept
-----------------------------------------------------------------------------
EditText ==
    /\ edited < MaxNoteEdits
    /\ edited' = edited + 1
    /\ \E p \in Notes : \E f \in [text : Texts, edit : {edited + 1}] \cup {Gone} :
         /\ files' = [files EXCEPT ![p] = f]
         /\ past' = [past EXCEPT ![p] = @ \cup (IF f = Gone THEN {} ELSE {f.text})]
    /\ UNCHANGED <<query, eval>>

QueryNext ==
    \/ Resolve \/ List \/ StartCandidates \/ ReadCandidate \/ EndCandidates \/ Rank \/ ConfirmMatch
    \/ \E p \in Notes : ReadIncoming(p) \/ InspectSource(p)
    \/ Supply \/ SelectPaths \/ FindTargets \/ InspectNext \/ Exhaust \/ EndInspection
    \/ EditText

QuerySpec == QueryInit /\ [][QueryNext]_queryVars
-----------------------------------------------------------------------------
\* What a request means: over the texts `of' each note may be judged by.
LinksTo(t, target, origin) == \E l \in t.links : l[1] = target /\ (origin = Gone \/ l[2] = origin)

Satisfies(p, of) ==
    /\ query.folder = Gone \/ (query.folder = "folder" /\ p \in InFolder)
    /\ query.paths = {} \/ p \in query.paths
    /\ \E t \in of[p] :
         /\ MatchesText(t)
         /\ \A r \in Outgoing : of[r.other] # {} /\ LinksTo(t, r.other, r.origin)
    /\ \A r \in Incoming : \E t \in of[r.other] : LinksTo(t, p, r.origin)

(* Every match was right at some moment: one text the note had during the  *)
(* evaluation satisfies all predicates on it, and an incoming link stood   *)
(* in a text of its source.  Over notes nobody edited, both evaluators     *)
(* answer exactly the notes that satisfy the request, unless the answer is *)
(* cut at the limit, ranked, or carries a reason why it may be incomplete. *)
QueryAnswersTrue ==
    eval.at = "answered" =>
        /\ \A p \in eval.matches : Satisfies(p, past)
        /\ edited = 0 /\ eval.reasons = {} /\ ~query.semantic =>
             LET right == {p \in Existing : Satisfies(p, past)} IN
             IF eval.by = "scoped" THEN eval.matches = right
             ELSE eval.matches \subseteq right
                  /\ Cardinality(eval.matches) = IF Cardinality(right) > query.limit
                                                 THEN query.limit ELSE Cardinality(right)
=============================================================================

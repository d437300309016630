-------------------------------- MODULE MCReads --------------------------------
(***************************************************************************)
(* Model values and bounds for the components a request passes through.    *)
(* They share no state, so TLC explores them one after the other: "part"   *)
(* names the component explored from an initial state, and the others rest.*)
(* The instances find their variables under the names v1, v2, ...          *)
(***************************************************************************)
EXTENDS ScopedBudget, ConnectionLeases, DescriptorCleanup, ReadTransport, NativeReader, NoteAppend,
        NoteAccess, HygieneScan, ScopedFederation, QueryEvaluation, ChunkLines, TLC

VARIABLES part, v1, v2, v3, v4, v5, v6

from6 == <<v6>>
from5 == <<v5, from6>>
from4 == <<v4, from5>>
from3 == <<v3, from4>>
from2 == <<v2, from3>>
from1 == <<v1, from2>>
rest == from1
extendedVars == <<budgetVars, leaseVars, cleanupVars, transportVars, nativeVars, appendVars, accessVars, hygieneVars,
                  federationVars, queryVars>>

(* Scoped reads under several ceilings. *)
Ceiling(p, b, n) == [probes |-> p, bytes |-> b, paths |-> n]
ReadCeilings == {Ceiling(12, 4, 4), Ceiling(20, 2, 2)}

(* Hygiene: a note, one in a directory, and a link to the second. *)
SpellingName == [s \in {"a", "d/b", "s"} |-> IF s = "a" THEN "a" ELSE "b"]
SpellingDirectory == [s \in {"a", "d/b", "s"} |-> IF s = "d/b" THEN "d" ELSE ""]
SpellingPlace == [s \in {"a", "d/b", "s"} |-> CASE s = "a" -> 1 [] s = "d/b" -> 2 [] OTHER -> 3]
ScannedBodies ==
    {[links |-> {}, key |-> "k", curated |-> TRUE],
     [links |-> {<<"name", "b">>}, key |-> "none", curated |-> TRUE],
     [links |-> {<<"path", "a">>, <<"path", "d/b">>}, key |-> "k", curated |-> FALSE]}

(* Pieces of Markdown that open, close, break and hide links. *)
LinkPieces ==
    {<<"[", "[">>, <<"]", "]">>, <<"[">>, <<"]", "(">>, <<"x", "m", ")">>, <<"m", "#", "x", ")">>,
     <<"|">>, <<"tick">>, <<"tick", "tick", "tick">>, <<"n">>, <<"x">>, <<"<", "x", ":", "m">>,
     <<"!">>, <<" ">>, <<">", ")">>, <<"0">>, <<"/", "m", ")">>, <<"#">>,
     <<"[", "[", "x", "]", "]">>, <<"[", "x", "]", "(", "x", "m", ")">>, <<"x", "m", "#", "x", ")">>}

(* Queries that filter by text, folder, path, tag, metadata and link. *)
NotePosition == [p \in Notes |-> CASE p = "f/a" -> 1 [] p = "f/b" -> 2 [] OTHER -> 3]
IntegerOne == [type |-> "int", value |-> 1]
BooleanOne == [type |-> "bool", value |-> 1]
QueryText(literal, tags, meta, links) ==
    [literal |-> literal, valid |-> TRUE, tags |-> tags, meta |-> meta, links |-> links]
QueryTexts ==
    {QueryText(TRUE, {"t"}, IntegerOne, {<<"f/a", "wiki">>}),
     QueryText(FALSE, {"t"}, BooleanOne, {<<"f/b", "md">>, <<"f/a", "md">>}),
     QueryText(TRUE, Gone, [type |-> "sequence", value |-> {IntegerOne}], {<<"c", "wiki">>})}

AnyNote == [semantic |-> FALSE, literal |-> FALSE, folder |-> Gone, paths |-> {}, tags |-> {},
         metadata |-> Gone, relations |-> {}, limit |-> 3]
AnyText == [AnyNote EXCEPT !.literal = TRUE]
Linked(direction, other, origin) == [direction |-> direction, other |-> other, origin |-> origin]
Meta(operator, value) == [operator |-> operator, value |-> value]
QueryRequests ==
    {[AnyText EXCEPT !.limit = 1],
     [AnyNote EXCEPT !.tags = {"t"}, !.folder = "folder"],
     [AnyNote EXCEPT !.folder = "nowhere"],
     [AnyNote EXCEPT !.metadata = Meta("equals", IntegerOne)],
     [AnyNote EXCEPT !.metadata = Meta("not_equals", BooleanOne), !.semantic = TRUE],
     [AnyNote EXCEPT !.metadata = Meta("sequence_contains", IntegerOne), !.paths = {"f/a", Outside}],
     [AnyNote EXCEPT !.metadata = Meta("sequence_contains", IntegerOne), !.paths = {"f/a", "c"}],
     [AnyText EXCEPT !.relations = {Linked("incoming", "f/b", Gone)}],
     [AnyText EXCEPT !.relations = {Linked("outgoing", "c", "wiki"), Linked("incoming", "f/a", "wiki")}],
     [AnyNote EXCEPT !.relations = {Linked("outgoing", "f/b", "md")}, !.metadata = Meta("exists", IntegerOne)]}

Links == INSTANCE LinkRecognition WITH
    Pieces <- LinkPieces, MaxPieces <- 3, Allowance <- 2,
    text <- v1, at <- v2, cursor <- v3, line <- v4, found <- v5, verdict <- v6
Chunks == INSTANCE Chunking WITH
    Shapes <- ChunkShapes, Title <- ChunkTitle, MaxLines <- 4, ChunkChars <- 8, Overlap <- 2,
    TailFloor <- 1, TailCap <- 3, SectionFloor <- 3, RoomFloor <- 1,
    note <- v1, stage <- v2, sections <- v3, groups <- v4, chunks <- v5

-----------------------------------------------------------------------------
RestFrom(n) ==
    /\ IF n <= 1 THEN v1 = 0 ELSE TRUE
    /\ IF n <= 2 THEN v2 = 0 ELSE TRUE
    /\ IF n <= 3 THEN v3 = 0 ELSE TRUE
    /\ IF n <= 4 THEN v4 = 0 ELSE TRUE
    /\ IF n <= 5 THEN v5 = 0 ELSE TRUE
    /\ IF n <= 6 THEN v6 = 0 ELSE TRUE

(* Bound: descriptors of the reader whose release is in doubt, at a time. *)
MaxInDoubt == 2
FewInDoubt(state) == Cardinality({n \in Names : state[n] \in {"lost", "uncertain"}}) <= MaxInDoubt

(* The vaults scanned start with a note in the directory, with a note, an alias or
   nothing at "a", and with an alias or nothing at "s"; one alias at most. *)
ScannedVaults ==
    {entries \in [Spellings -> Entries(0)] :
       /\ entries["d/b"].kind = "note" /\ entries["s"].kind # "note"
       /\ entries["d/b"].body = CHOOSE body \in ScannedBodies : body.curated /\ body.key = "k"
       /\ Cardinality({s \in Spellings : entries[s].kind = "alias"}) <= 1}

(* Two directories are alike, so the first one is found first, and has the note. *)
FirstFound == slots["d"] # "B" /\ (slots["d"] = "A" \/ slots["e"] # "B") /\ leaf["B"] = 0

EmptyTree == slots = [s \in Slots |-> "none"] /\ leaf = [x \in Directories |-> 0]

(* A note of four lines to be chunked repeats none of them, but for front matter. *)
VariedNote(lines) == Len(lines) = 4 => IsInjective(lines) \/ Chunks!Rule(lines[1])

(* The note outside the folder links to both in it. *)
LastNoteLinked(last) == last # Gone /\ Cardinality(last.text.links) = 2

Extended == {"budget", "leases", "cleanup", "transport", "native", "appends", "access", "hygiene", "federation",
             "query"}
Components == Extended \cup {"links", "chunks"}

(* What the components' own initial states leave open is settled first, to one
   value where the component rests. *)
Init ==
    /\ part \in Components
    /\ adapter \in IF part = "cleanup" THEN {"descriptor", "handle"} ELSE {"descriptor"}
    /\ unsent \in IF part = "transport" THEN 1..BodyParts ELSE {1}
    /\ keyOf \in IF part = "appends" THEN [Calls -> Keys] ELSE {[c \in Calls |-> CHOOSE k \in Keys : TRUE]}
    /\ vault \in IF part = "hygiene" THEN ScannedVaults ELSE {[s \in Spellings |-> Nothing]}
    /\ QueryInit
    /\ part = "query" => LastNoteLinked(files["c"])
    /\ part # "query" => eval = Fresh("live") /\ files = [p \in Notes |-> Gone]
                         /\ query = CHOOSE q \in Requests : ~q.semantic
    /\ FederationInit
    /\ part # "federation" => mode = "list" /\ limits = CHOOSE ceiling \in ReadCeilings : TRUE
    /\ BudgetInit /\ LeasesInit /\ CleanupInit /\ TransportInit /\ NativeInit /\ AppendInit /\ HygieneInit
    /\ AccessInit /\ IF part = "access" THEN FirstFound ELSE EmptyTree
    /\ \/ part \in Extended /\ RestFrom(1)
       \/ part = "links" /\ Links!LinkInit
       \/ part = "chunks" /\ Chunks!ChunkInit /\ VariedNote(v1) /\ RestFrom(6)

Next ==
    \/ /\ part = "budget" /\ BudgetNext
       /\ UNCHANGED <<part, leaseVars, cleanupVars, transportVars, nativeVars, appendVars, accessVars,
                      hygieneVars, federationVars, queryVars, rest>>
    \/ /\ part = "leases" /\ LeasesNext
       /\ UNCHANGED <<part, budgetVars, cleanupVars, transportVars, nativeVars, appendVars, accessVars,
                      hygieneVars, federationVars, queryVars, rest>>
    \/ /\ part = "cleanup" /\ CleanupNext
       /\ UNCHANGED <<part, budgetVars, leaseVars, transportVars, nativeVars, appendVars, accessVars,
                      hygieneVars, federationVars, queryVars, rest>>
    \/ /\ part = "transport" /\ TransportNext
       /\ UNCHANGED <<part, budgetVars, leaseVars, cleanupVars, nativeVars, appendVars, accessVars,
                      hygieneVars, federationVars, queryVars, rest>>
    \/ /\ part = "native" /\ NativeNext /\ FewInDoubt(held')
       /\ UNCHANGED <<part, budgetVars, leaseVars, cleanupVars, transportVars, appendVars, accessVars,
                      hygieneVars, federationVars, queryVars, rest>>
    \/ /\ part = "appends" /\ AppendNext
       /\ UNCHANGED <<part, budgetVars, leaseVars, cleanupVars, transportVars, nativeVars, accessVars,
                      hygieneVars, federationVars, queryVars, rest>>
    \/ /\ part = "access" /\ AccessNext
       /\ UNCHANGED <<part, budgetVars, leaseVars, cleanupVars, transportVars, nativeVars, appendVars,
                      hygieneVars, federationVars, queryVars, rest>>
    \/ /\ part = "hygiene" /\ HygieneNext
       /\ UNCHANGED <<part, budgetVars, leaseVars, cleanupVars, transportVars, nativeVars, appendVars,
                      accessVars, federationVars, queryVars, rest>>
    \/ /\ part = "federation" /\ FederationNext
       /\ UNCHANGED <<part, budgetVars, leaseVars, cleanupVars, transportVars, nativeVars, appendVars,
                      accessVars, hygieneVars, queryVars, rest>>
    \/ /\ part = "query" /\ QueryNext
       /\ UNCHANGED <<part, budgetVars, leaseVars, cleanupVars, transportVars, nativeVars, appendVars,
                      accessVars, hygieneVars, federationVars, rest>>
    \/ part = "links" /\ Links!LinkNext /\ UNCHANGED <<part, extendedVars>>
    \/ part = "chunks" /\ Chunks!ChunkNext /\ UNCHANGED <<part, extendedVars, from6>>

Spec == Init /\ [][Next]_<<part, extendedVars, rest>>

-----------------------------------------------------------------------------

(* The bounded recognizer finds what the eager parsers find, in the order of
   the document: all of it when it says so, and otherwise a beginning of it. *)
SameLinks == part = "links" => Links!SameLinks

(* Every character of the body is in a chunk, in order: a chunk starts where
   the last one ended, or up to Overlap earlier and then inside a paragraph of
   one line; none goes further than one character past the limit; and no chunk
   ends between the two characters of a line ending. *)
NothingLost == part = "chunks" => Chunks!NothingLost

CallSymmetry == Permutations(Calls)
=============================================================================

-------------------------------- MODULE Chunking --------------------------------
(***************************************************************************)
(* How a note becomes the chunks that are embedded and stored              *)
(* (services/semantic_search.py, _chunk_markdown and what it calls).       *)
(*                                                                         *)
(* A note is a sequence of lines.  A line is a shape: what it starts with, *)
(* how many characters it holds, which of them are blanks, how it ends.    *)
(* The code cuts the text only into slices of itself, so that a slice is   *)
(* the pair of offsets [from, to), from included and to excluded, counted  *)
(* from the start of the body.  Heading labels are left out.               *)
(***************************************************************************)
EXTENDS SequencesExt, Naturals

CONSTANTS
    Shapes,       \* [kind, level, mark, plain, deep, size, gaps, end]
    Title,        \* the shape of the note's title
    MaxLines,     \* bound: lines of a note
    ChunkChars,   \* chunk_chars (600, at least 250)
    Overlap,      \* chunk_overlap, at most half of chunk_chars
    TailFloor, TailCap,   \* 20 and 80 of _choose_split_boundary
    SectionFloor,         \* 80 of _coalesce_sections
    RoomFloor             \* 20 of _chunk_section

VARIABLES
    note,      \* the lines of the body
    stage,     \* "read", "cut", "grouped", "done"
    sections,  \* slices of _heading_sections
    groups,    \* slices of _coalesce_sections still to be chunked
    chunks     \* slices of the text, in order

chunkVars == <<note, stage, sections, groups, chunks>>

Slice(from, to) == [from |-> from, to |-> to]
Length(slice) == slice.to - slice.from
Smaller(a, b) == IF a < b THEN a ELSE b
Larger(a, b) == IF a < b THEN b ELSE a
Highest(S) == CHOOSE x \in S : \A y \in S : y <= x

Ending(line) == CASE line.end = "n" -> <<"n">> [] line.end = "rn" -> <<"r", "n">>
                  [] line.end = "r" -> <<"r">> [] OTHER -> <<>>
Characters(lines) ==
    FlattenSeq([i \in DOMAIN lines |->
        [c \in 1..lines[i].size |-> IF c \in lines[i].gaps THEN " " ELSE "x"] \o Ending(lines[i])])
Width(line) == line.size + Len(Ending(line))
Offset(lines, i) == FoldLeft(LAMBDA sum, line : sum + Width(line), 0, SubSeq(lines, 1, i - 1))
Blank(line) == line.kind = "blank"

NotesToChunk == {lines \in UNION {[1..n -> Shapes] : n \in 1..MaxLines} :
             \A i \in 1..Len(lines) - 1 :
                lines[i].end # "none" /\ (lines[i].end = "r" => lines[i + 1].size > 0)}

ChunkInit ==
    /\ note \in NotesToChunk
    /\ stage = "read"
    /\ sections = <<>> /\ groups = <<>> /\ chunks = <<>>

-----------------------------------------------------------------------------
(* _strip_frontmatter: only "---\n" opens it, only "\n---\n" closes it.    *)
Rule(line) == line.kind = "rule" /\ line.end = "n"
Closings(lines) == {k \in 3..Len(lines) : Rule(lines[k]) /\ lines[k - 1].end \in {"n", "rn"}}
StripFrontmatter(lines) ==
    IF ~Rule(lines[1]) \/ Closings(lines) = {} THEN lines
    ELSE SubSeq(lines, 1 + CHOOSE k \in Closings(lines) : \A l \in Closings(lines) : k <= l, Len(lines))

(* A fence closes with the same mark, at least as many, and no more text. *)
NoFence == [mark |-> "none", level |-> 0]
FenceAfter(fence, line) ==
    IF fence = NoFence THEN [mark |-> line.mark, level |-> line.level]
    ELSE IF line.mark = fence.mark /\ line.level >= fence.level /\ line.plain THEN NoFence
    ELSE fence

(* _heading_sections.  A heading directly under bare parents joins them.   *)
IsHeading(line) == line.kind = "heading"
BareParents(lines, state, i) ==
    /\ state.from < i /\ state.level > 0 /\ lines[i].level > state.level
    /\ \A j \in state.from..i - 1 : Blank(lines[j]) \/ IsHeading(lines[j])
ReadLine(lines, state, i) ==
    CASE lines[i].kind = "fence" /\ ~lines[i].deep ->
            [state EXCEPT !.fence = FenceAfter(@, lines[i])]
      [] IsHeading(lines[i]) /\ state.fence = NoFence ->
            LET joins == BareParents(lines, state, i)
            IN [state EXCEPT !.level = lines[i].level,
                             !.from = IF joins THEN @ ELSE i,
                             !.out = IF joins \/ state.from = i THEN @
                                     ELSE Append(@, Slice(Offset(lines, state.from), Offset(lines, i)))]
      [] OTHER -> state
HeadingSections(lines) ==
    LET read == FoldLeft(LAMBDA state, i : ReadLine(lines, state, i),
                         [out |-> <<>>, from |-> 1, level |-> 0, fence |-> NoFence],
                         [i \in DOMAIN lines |-> i])
    IN Append(read.out, Slice(Offset(lines, read.from), Len(Characters(lines))))

(* _coalesce_sections *)
SectionTarget == Larger(SectionFloor, ChunkChars \div 3)
MayCombine(current, section) ==
    /\ Length(current) + Length(section) <= ChunkChars
    /\ Length(current) < SectionTarget \/ Length(section) < SectionTarget
AddSection(state, section) ==
    LET flushed == IF Length(state.current) > 0 THEN Append(state.out, state.current) ELSE state.out
    IN CASE Length(section) > ChunkChars ->
              [out |-> Append(flushed, section), current |-> Slice(section.to, section.to)]
         [] Length(state.current) > 0 /\ ~MayCombine(state.current, section) ->
              [out |-> flushed, current |-> section]
         [] OTHER -> [state EXCEPT !.current.to = section.to]
CoalesceSections(parts) ==
    LET last == FoldLeft(AddSection, [out |-> <<>>, current |-> Slice(0, 0)], parts)
    IN IF Length(last.current) > 0 THEN Append(last.out, last.current) ELSE last.out

-----------------------------------------------------------------------------
(* _markdown_blocks: a blank line outside a fence ends a block.            *)
LinesIn(lines, group) == {i \in DOMAIN lines : Offset(lines, i) \in group.from..group.to - 1}
AddLine(lines, state, i) ==
    LET next == Offset(lines, i + 1) IN
    IF lines[i].kind = "fence" THEN [state EXCEPT !.fence = FenceAfter(@, lines[i])]
    ELSE IF state.fence = NoFence /\ Blank(lines[i])
    THEN [state EXCEPT !.out = Append(@, Slice(state.from, next)), !.from = next]
    ELSE state
MarkdownBlocks(lines, group) ==
    LET inside == SetToSortSeq(LinesIn(lines, group), <)
        read == FoldLeft(LAMBDA state, i : AddLine(lines, state, i),
                         [out |-> <<>>, from |-> group.from, fence |-> NoFence], inside)
    IN IF read.from < group.to THEN Append(read.out, Slice(read.from, group.to)) ELSE read.out

(* _block_uses_overlap: one line of prose, however it ends. *)
UsesOverlap(lines, block) ==
    LET inside == LinesIn(lines, block) IN
    \E i \in inside : /\ \A j \in inside : j > i => lines[j].kind = "blank" /\ lines[j].size = 0
                      /\ \A j \in inside : j >= i
                      /\ lines[i].kind # "item"

(* _choose_split_boundary: text[p] of the code is text[p + 1] here. *)
MinimumTail(limit) == Smaller(TailCap, Larger(TailFloor, limit \div 4))
Target(start, limit, end) ==
    IF end - (start + limit) < MinimumTail(limit)
    THEN Larger(start + limit \div 2, start + (end - start) \div 2) ELSE start + limit
Found(text, window, kinds) == {p \in window : text[p + 1] \in kinds}
AfterBreakAlone(text, p, end) == p + 1
AfterBreak(text, p, end) == IF p + 1 < end /\ text[p + 1] = "r" /\ text[p + 2] = "n" THEN p + 2 ELSE p + 1
ChooseBoundary(text, start, limit, end) ==
    LET target == Target(start, limit, end)
        window == Larger(start + 1, start + (target - start) \div 2)..target - 1
        breaks == Found(text, window, {"r", "n"})
        spaces == Found(text, window, {" "})
    IN IF start + limit >= end THEN end
       ELSE IF breaks # {} THEN AfterBreak(text, Highest(breaks), end)
       ELSE IF spaces # {} THEN Highest(spaces) + 1
       ELSE target

(* _split_oversized_block *)
SplitBlock(text, block, firstLimit, overlap) ==
    LET pieces[start \in block.from..block.to, limit \in {firstLimit, ChunkChars}] ==
          IF block.to - start > limit
          THEN LET boundary == ChooseBoundary(text, start, limit, block.to)
                   next == IF overlap /\ Overlap > 0 THEN Larger(start + 1, boundary - Overlap) ELSE boundary
               IN <<Slice(start, boundary)>> \o pieces[next, ChunkChars]
          ELSE IF start < block.to THEN <<Slice(start, block.to)>> ELSE <<>>
    IN pieces[block.from, firstLimit]

(* _chunk_section: one block after another, the rest of the last is kept. *)
HasRoom(available) == available > Overlap + Larger(RoomFloor, ChunkChars \div 5)
AddBlock(lines, text, state, block) ==
    LET held == Length(state.current) > 0
        available == ChunkChars - Length(state.current)
        emitted == IF held THEN Append(state.out, state.current) ELSE state.out
    IN IF Length(block) <= ChunkChars
       THEN IF Length(block) <= available THEN [state EXCEPT !.current.to = block.to]
            ELSE [out |-> emitted, current |-> block]
       ELSE LET joins == held /\ HasRoom(available)
                cut == SplitBlock(text, block, IF joins THEN available ELSE ChunkChars, UsesOverlap(lines, block))
                pieces == IF joins THEN <<Slice(state.current.from, cut[1].to)>> \o Tail(cut) ELSE cut
                kept == ~joins \/ Len(cut) > 1
            IN [out |-> (IF joins THEN state.out ELSE emitted) \o (IF kept THEN Front(pieces) ELSE pieces),
                current |-> IF kept THEN Last(pieces) ELSE Slice(block.to, block.to)]
ChunkSection(lines, group) ==
    LET text == Characters(lines)
        last == FoldLeft(LAMBDA state, block : AddBlock(lines, text, state, block),
                         [out |-> <<>>, current |-> Slice(group.from, group.from)], MarkdownBlocks(lines, group))
    IN IF Length(last.current) > 0 THEN Append(last.out, last.current) ELSE last.out

-----------------------------------------------------------------------------
(* _chunk_markdown.  A note without a body is its title.                   *)
ReadBody ==
    /\ stage = "read"
    /\ LET body == StripFrontmatter(note)
           empty == \A i \in DOMAIN body : Blank(body[i])
           lines == IF empty THEN <<Title>> ELSE body
       IN /\ note' = lines
          /\ sections' = IF empty THEN <<Slice(0, Width(Title))>> ELSE HeadingSections(lines)
    /\ stage' = "cut"
    /\ UNCHANGED <<groups, chunks>>

Coalesce ==
    /\ stage = "cut"
    /\ groups' = CoalesceSections(sections)
    /\ stage' = "grouped"
    /\ UNCHANGED <<note, sections, chunks>>

ChunkGroup ==
    /\ stage = "grouped" /\ groups # <<>>
    /\ chunks' = chunks \o ChunkSection(note, Head(groups))
    /\ groups' = Tail(groups)
    /\ UNCHANGED <<note, stage, sections>>

Chunked ==
    /\ stage = "grouped" /\ groups = <<>>
    /\ stage' = "done"
    /\ UNCHANGED <<note, sections, groups, chunks>>

ChunkNext == ReadBody \/ Coalesce \/ ChunkGroup \/ Chunked
ChunkSpec == ChunkInit /\ [][ChunkNext]_chunkVars

-----------------------------------------------------------------------------
WholeText == Len(Characters(note))

(* Every character of the body is in a chunk, in order: a chunk starts where
   the last one ended, or up to Overlap earlier and then inside a paragraph of
   one line; none goes further than one character past the limit; and no chunk
   ends between the two characters of a line ending. *)
NothingLost ==
    stage = "done" =>
      LET text == Characters(note) IN
      /\ chunks # <<>> /\ chunks[1].from = 0 /\ chunks[Len(chunks)].to = WholeText
      /\ \A i \in DOMAIN chunks :
            /\ Length(chunks[i]) \in 1..ChunkChars + 1
            /\ chunks[i].to < WholeText => ~(text[chunks[i].to] = "r" /\ text[chunks[i].to + 1] = "n")
      /\ \A i \in 1..Len(chunks) - 1 :
            LET repeated == Slice(chunks[i + 1].from, chunks[i].to) IN
            /\ chunks[i].from < repeated.from /\ repeated.from <= repeated.to
            /\ Length(repeated) <= Overlap
            /\ \A p \in repeated.from..repeated.to - 2 : text[p + 1] \in {"r", "n"} => text[p + 2] \in {"r", "n"}

(* tests/test_semantic_search_service.py: no chunk is longer than chunk_chars. *)
WithinLimit == stage = "done" => \A i \in DOMAIN chunks : Length(chunks[i]) <= ChunkChars
=============================================================================

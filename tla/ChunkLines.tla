------------------------------- MODULE ChunkLines -------------------------------
(***************************************************************************)
(* Lines of every kind the chunker tells apart, as values for Chunking's   *)
(* Shapes, and a title longer than its limit.                              *)
(***************************************************************************)
EXTENDS Naturals

Line(kind, size, gaps, end) ==
    [kind |-> kind, level |-> 0, mark |-> "none", plain |-> TRUE, deep |-> FALSE,
     size |-> size, gaps |-> gaps, end |-> end]

HeadingLine(level, size) == [Line("heading", size, {level + 1}, "n") EXCEPT !.level = level]

FenceLine(mark, level, plain, deep) ==
    [Line("fence", level + (IF plain THEN 0 ELSE 2) + (IF deep THEN 4 ELSE 0), IF deep THEN 1..4 ELSE {}, "n")
        EXCEPT !.mark = mark, !.level = level, !.plain = plain, !.deep = deep]

ChunkShapes ==
    {Line("blank", 0, {}, "n"), Line("rule", 3, {}, "n"), Line("item", 12, {2}, "n"),
     Line("text", 7, {}, "rn"), Line("text", 20, {4, 9, 13}, "none"), Line("text", 14, {}, "r"),
     Line("text", 2, {}, "rn"), HeadingLine(1, 3), HeadingLine(2, 4),
     FenceLine("tick", 3, TRUE, FALSE), FenceLine("tick", 4, TRUE, FALSE),
     FenceLine("tick", 3, TRUE, TRUE), FenceLine("tilde", 3, FALSE, FALSE)}

ChunkTitle == Line("text", 11, {}, "none")
=============================================================================

---------------------------- MODULE LinkRecognition ----------------------------
(***************************************************************************)
(* Two recognizers of the links of a note that must agree.                 *)
(*                                                                         *)
(* The eager one parses line by line, once per dialect                     *)
(* (services/wikilinks.py, services/markdown_links.py), and sorts what     *)
(* both found (services/relationships.py).  The bounded one                *)
(* (services/_scoped_links.py) walks over the text once, keeps one skip    *)
(* cursor per dialect and stops when its budget is spent.                  *)
(*                                                                         *)
(* A text is a sequence of characters.  "x" is a letter, " " a blank, "n"  *)
(* a line break, "tick" a backtick, "0" NUL, and "m" stands for ".md".     *)
(***************************************************************************)
EXTENDS SequencesExt, Naturals

CONSTANTS
    Pieces,       \* the short texts a note is put together from
    MaxPieces,    \* bound: pieces of a note
    Allowance     \* relationships the budget admits

VARIABLES
    text,        \* the content of the note
    at,          \* index of recognize
    cursor,      \* [wiki, markdown, missing]: wiki_next, markdown_next, wiki_line_missing
    line,        \* [start, mark, length]: line_start, fence, fence_length
    found,       \* the occurrences derived so far
    verdict      \* "reading", "complete" or "limited"

linkVars == <<text, at, cursor, line, found, verdict>>

MarkdownTexts == {FlattenSeq(p) : p \in UNION {[1..n -> Pieces] : n \in 1..MaxPieces}}

(* What is common to both: a link, and blanks trimmed off an end. *)
NoLink == [position |-> 0]
Link(position, origin, target, fragment, label) ==
    [position |-> position, origin |-> origin, target |-> target, fragment |-> fragment, label |-> label]
Absent == <<"absent">>
Trimmed(s) ==
    LET solid == {i \in DOMAIN s : s[i] # " "}
    IN IF solid = {} THEN <<>>
       ELSE SubSeq(s, CHOOSE i \in solid : \A j \in solid : i <= j, CHOOSE i \in solid : \A j \in solid : j <= i)
LowestOf(S, otherwise) == IF S = {} THEN otherwise ELSE CHOOSE x \in S : \A y \in S : x <= y

-----------------------------------------------------------------------------
(* The eager recognizers.                                                  *)
Has(s, c) == c \in {s[i] : i \in DOMAIN s}
Before(s, c) == SubSeq(s, 1, LowestOf({i \in DOMAIN s : s[i] = c}, Len(s) + 1) - 1)
After(s, c) == SubSeq(s, LowestOf({i \in DOMAIN s : s[i] = c}, Len(s)) + 1, Len(s))

(* _parse_body *)
WikiBody(body, position) ==
    LET head == Before(body, "|")
        target == Trimmed(Before(head, "#"))
        heading == IF Has(head, "#") THEN Trimmed(After(head, "#")) ELSE Absent
        alias == IF Has(body, "|") THEN Trimmed(After(body, "|")) ELSE Absent
    IN IF \/ Has(body, "[") \/ Has(body, "]") \/ Has(body, "0") \/ Has(After(body, "|"), "|")
          \/ target = <<>> \/ heading = <<>> \/ alias = <<>>
       THEN NoLink
       ELSE Link(position, "wiki", target, heading, alias)

(* WikilinkResolver._parse_line *)
PairAt(s, i, c) == i + 1 \in DOMAIN s /\ s[i] = c /\ s[i + 1] = c
WikiLine(s, offset) ==
    LET links[c \in 1..Len(s) + 1] ==
          LET open == LowestOf({i \in c..Len(s) : PairAt(s, i, "[")}, 0)
              close == LowestOf({i \in open + 2..Len(s) : PairAt(s, i, "]")}, 0)
          IN IF open = 0 \/ close = 0 THEN <<>>
             ELSE <<WikiBody(SubSeq(s, open + 2, close - 1), offset + open)>> \o links[close + 2]
    IN links[1]

(* MarkdownLinkResolver._note_destination *)
Schemed(d) == \E k \in 2..Len(d) : d[k] = ":" /\ d[1] = "x" /\ \A j \in 2..k - 1 : d[j] \in {"x", "m"}
Drive(d) == Len(d) > 1 /\ d[1] # "m" /\ d[2] = ":"
NotePath(d) == d # <<>> /\ d[Len(d)] = "m" /\ ~Schemed(d) /\ d[1] # "/" /\ ~Drive(d)
Destination(raw, position, label) ==
    IF Has(raw, "0") \/ ~NotePath(Before(raw, "#")) THEN NoLink
    ELSE Link(position, "markdown", Before(raw, "#"), IF Has(raw, "#") THEN After(raw, "#") ELSE Absent, label)

(* MarkdownLinkResolver._parse_at: the link, if any, and where to go on. *)
IndexOf(s, from, c) == LowestOf({i \in from..Len(s) : s[i] = c}, 0)
MarkdownAt(s, start, offset) ==
    LET labelEnd == LowestOf({i \in start + 1..Len(s) : s[i] \in {"[", "]", "0"}}, Len(s) + 1)
        opens == labelEnd + 2
        angle == opens <= Len(s) /\ s[opens] = "<"
        close == IndexOf(s, IF angle THEN opens + 1 ELSE opens, IF angle THEN ">" ELSE ")")
        raw == SubSeq(s, IF angle THEN opens + 1 ELSE opens, close - 1)
        label == SubSeq(s, start + 1, labelEnd - 1)
    IN CASE labelEnd > Len(s) -> <<NoLink, Len(s) + 1>>
         [] s[labelEnd] = "[" -> <<NoLink, labelEnd>>
         [] s[labelEnd] = "0" \/ labelEnd + 1 > Len(s) \/ s[labelEnd + 1] # "(" -> <<NoLink, labelEnd + 1>>
         [] close = 0 -> <<NoLink, Len(s) + 1>>
         [] angle /\ (close + 1 > Len(s) \/ s[close + 1] # ")") -> <<NoLink, close + 1>>
         [] ~angle /\ Has(raw, " ") -> <<NoLink, close + 1>>
         [] OTHER -> <<Destination(raw, offset + start, label), IF angle THEN close + 2 ELSE close + 1>>

(* _find_code_span_close *)
RunEnd(s, i, c) == LowestOf({j \in i..Len(s) : s[j] # c}, Len(s) + 1)
SpanClose(s, length, from) ==
    LowestOf({j \in from..Len(s) - length + 1 :
                 /\ \A k \in j..j + length - 1 : s[k] = "tick"
                 /\ s[j - 1] # "tick"
                 /\ j + length > Len(s) \/ s[j + length] # "tick"}, 0)

(* MarkdownLinkResolver._parse_line *)
MarkdownLine(s, offset) ==
    LET links[c \in 1..Len(s) + 1] ==
          IF c > Len(s) THEN <<>>
          ELSE IF s[c] = "tick"
          THEN LET run == RunEnd(s, c, "tick")
                   close == SpanClose(s, run - c, run)
               IN links[IF close = 0 THEN run ELSE close + run - c]
          ELSE IF s[c] # "[" \/ (c > 1 /\ s[c - 1] = "!") THEN links[c + 1]
          ELSE LET parsed == MarkdownAt(s, c, offset) IN <<parsed[1]>> \o links[parsed[2]]
    IN links[1]

(* _FENCE_PATTERN, and the fence after a line that matches it. *)
NoFence == [mark |-> "none", length |-> 0]
FenceStart(s) == RunEnd(s, 1, " ")
IsFence(s) ==
    LET b == FenceStart(s)
    IN b <= Len(s) /\ b <= 4 /\ s[b] \in {"tick", "~"} /\ RunEnd(s, b, s[b]) - b >= 3
Fenced(fence, s) ==
    LET b == FenceStart(s)
        e == RunEnd(s, b, s[b])
    IN IF fence = NoFence THEN [mark |-> s[b], length |-> e - b]
       ELSE IF s[b] = fence.mark /\ e - b >= fence.length /\ Trimmed(SubSeq(s, e, Len(s))) = <<>> THEN NoFence
       ELSE fence

(* parse of both dialects, line by line; then _derive_normalized_relationships. *)
LineStarts(t) == {1} \cup {i + 1 : i \in {j \in DOMAIN t : t[j] = "n"}}
LineFrom(t, i) == SubSeq(t, i, LowestOf({j \in i..Len(t) : t[j] = "n"}, Len(t) + 1) - 1)
Eager(t) ==
    LET ReadLine(state, i) ==
            LET s == LineFrom(t, i) IN
            IF IsFence(s) THEN [state EXCEPT !.fence = Fenced(@, s)]
            ELSE IF state.fence # NoFence THEN state
            ELSE [state EXCEPT !.links = @ \o WikiLine(s, i - 1) \o MarkdownLine(s, i - 1)]
        read == FoldLeft(ReadLine, [fence |-> NoFence, links |-> <<>>], SetToSortSeq(LineStarts(t), <))
    IN SortSeq(SelectSeq(read.links, LAMBDA link : link # NoLink), LAMBDA a, b : a.position < b.position)

-----------------------------------------------------------------------------
(* The bounded recognizer: services/_scoped_links.py.                      *)
At(i) == IF i \in DOMAIN text THEN text[i] ELSE "end"
Breaks == {"n", "end"}
NextOf(i, kinds) == LowestOf({j \in i..Len(text) : text[j] \in kinds}, Len(text) + 1)
LineEnd(i) == NextOf(i, {"n"})
EndOfRun(i, c) == LowestOf({j \in i..Len(text) : text[j] # c}, Len(text) + 1)
Span(from, to) == SubSeq(text, from, to - 1)
SeekPair(i) == LowestOf({j \in i..LineEnd(i) - 1 : At(j) = "]" /\ At(j + 1) = "]"}, 0)

(* Cursor.wiki: <<link, next, missing>> *)
Wiki(i) ==
    LET close == SeekPair(i + 2)
        pipes == {j \in i + 2..close - 1 : At(j) = "|"}
        pipe == LowestOf(pipes, close)
        heading == LowestOf({j \in i + 2..pipe - 1 : At(j) = "#"}, pipe)
        target == Trimmed(Span(i + 2, heading))
        fragment == IF heading < pipe THEN Trimmed(Span(heading + 1, pipe)) ELSE Absent
        alias == IF pipe < close THEN Trimmed(Span(pipe + 1, close)) ELSE Absent
        broken == \/ \E j \in i + 2..close - 1 : At(j) \in {"[", "]", "0"} \/ (At(j) = "|" /\ j # pipe)
                  \/ target = <<>> \/ fragment = <<>> \/ alias = <<>>
    IN IF close = 0 THEN <<NoLink, i + 2, TRUE>>
       ELSE IF broken THEN <<NoLink, close + 2, FALSE>>
       ELSE <<Link(i, "wiki", target, fragment, alias), close + 2, FALSE>>

(* Cursor.note_destination scans for a scheme while it looks for "#". *)
DestinationEnd(from, to) == LowestOf({j \in from..to - 1 : At(j) = "#"}, to)
SchemeEnds(from, to) ==
    LET scheme[j \in from..to] ==    \* j is reached with only scheme characters so far
          IF j = from THEN At(from) = "x" ELSE scheme[j - 1] /\ (j = from + 1 \/ At(j - 1) \in {"x", "m"})
    IN \E j \in from + 1..DestinationEnd(from, to) - 1 : scheme[j] /\ At(j) = ":"
Admissible(from, to, angle) ==
    LET end == DestinationEnd(from, to) IN
    /\ \A j \in from..to - 1 : At(j) # "0" /\ (angle \/ At(j) # " ")
    /\ ~SchemeEnds(from, to)
    /\ end > from /\ At(end - 1) = "m"
    /\ At(from) # "/" /\ ~(end > from + 1 /\ At(from) # "m" /\ At(from + 1) = ":")

(* Cursor.markdown: <<link, next>> *)
Markdown(i) ==
    LET end == NextOf(i + 1, {"[", "]", "0", "n"})
        opens == end + 2
        angle == At(opens) = "<"
        from == IF angle THEN opens + 1 ELSE opens
        close == NextOf(from, {"n", IF angle THEN ">" ELSE ")"})
        next == IF angle THEN close + 2 ELSE close + 1
        hash == DestinationEnd(from, close)
    IN CASE At(end) \in Breaks \/ At(end) = "[" -> <<NoLink, end>>
         [] At(end) = "0" \/ At(end + 1) # "(" -> <<NoLink, end + 1>>
         [] At(close) \in Breaks -> <<NoLink, LineEnd(opens)>>
         [] angle /\ At(close + 1) # ")" -> <<NoLink, close + 1>>
         [] ~Admissible(from, close, angle) -> <<NoLink, next>>
         [] OTHER -> <<Link(i, "markdown", Span(from, hash), IF hash < close THEN Span(hash + 1, close) ELSE Absent,
                            Span(i + 1, end)), next>>

(* Cursor.code_end *)
CodeEnd(i) ==
    LET run == EndOfRun(i, "tick")
        runs == {j \in run..LineEnd(run) - 1 : At(j) = "tick" /\ At(j - 1) # "tick" /\ EndOfRun(j, "tick") - j = run - i}
    IN IF runs = {} THEN run ELSE EndOfRun(LowestOf(runs, 0), "tick")

LinkInit ==
    /\ text \in MarkdownTexts
    /\ at = 1 /\ cursor = [wiki |-> 1, markdown |-> 1, missing |-> FALSE]
    /\ line = [start |-> TRUE, mark |-> "none", length |-> 0]
    /\ found = <<>> /\ verdict = "reading"

Reading == verdict = "reading" /\ at <= Len(text)

(* A line that opens or closes a fence is passed over as a whole. *)
MarkFrom == LowestOf({j \in at..at + 3 : At(j) # " "}, at + 3)
FenceHere == line.start /\ At(MarkFrom) \in {"tick", "~"} /\ EndOfRun(MarkFrom, At(MarkFrom)) - MarkFrom >= 3
PassFence ==
    /\ Reading /\ FenceHere
    /\ LET mark == At(MarkFrom)
           end == EndOfRun(MarkFrom, mark)
           closes == mark = line.mark /\ end - MarkFrom >= line.length /\ Trimmed(Span(end, LineEnd(end))) = <<>>
       IN /\ line' = [start |-> FALSE, mark |-> IF line.mark = "none" THEN mark ELSE IF closes THEN "none" ELSE line.mark,
                      length |-> IF line.mark = "none" THEN end - MarkFrom ELSE line.length]
          /\ at' = LineEnd(end)
    /\ cursor' = [cursor EXCEPT !.missing = FALSE]
    /\ UNCHANGED <<text, found, verdict>>

PassBreak ==
    /\ Reading /\ ~FenceHere /\ At(at) = "n"
    /\ line' = [line EXCEPT !.start = TRUE]
    /\ cursor' = [cursor EXCEPT !.missing = @ /\ ~line.start]
    /\ at' = at + 1
    /\ UNCHANGED <<text, found, verdict>>

PassFenced ==
    /\ Reading /\ ~FenceHere /\ At(at) # "n" /\ line.mark # "none"
    /\ line' = [line EXCEPT !.start = FALSE]
    /\ cursor' = [cursor EXCEPT !.missing = @ /\ ~line.start]
    /\ at' = at + 1
    /\ UNCHANGED <<text, found, verdict>>

(* One character of prose: each dialect, unless its cursor is further on. *)
TriesWiki == cursor.wiki <= at /\ (line.start \/ ~cursor.missing) /\ At(at) = "[" /\ At(at + 1) = "["
TriesCode == cursor.markdown <= at /\ At(at) = "tick"
TriesMarkdownAnywhere == cursor.markdown <= at /\ At(at) = "["
TriesMarkdown == cursor.markdown <= at /\ At(at) = "[" /\ (at = 1 \/ At(at - 1) # "!")
Recognize ==
    /\ Reading /\ ~FenceHere /\ At(at) # "n" /\ line.mark = "none"
    /\ LET wiki == IF TriesWiki THEN Wiki(at) ELSE <<NoLink, cursor.wiki, cursor.missing /\ ~line.start>>
           markdown == IF TriesCode THEN <<NoLink, CodeEnd(at)>>
                       ELSE IF TriesMarkdown THEN Markdown(at) ELSE <<NoLink, cursor.markdown>>
           links == SelectSeq(<<wiki[1], markdown[1]>>, LAMBDA link : link # NoLink)
           all == found \o links
       IN /\ cursor' = [wiki |-> wiki[2], markdown |-> markdown[2], missing |-> wiki[3]]
          /\ found' = IF Len(all) > Allowance THEN SubSeq(all, 1, Allowance) ELSE all
          /\ verdict' = IF Len(all) >= Allowance THEN "limited" ELSE verdict
    /\ line' = [line EXCEPT !.start = FALSE]
    /\ at' = at + 1
    /\ UNCHANGED text

Finish ==
    /\ verdict = "reading" /\ at > Len(text)
    /\ verdict' = "complete"
    /\ UNCHANGED <<text, at, cursor, line, found>>

(* Sixteen probes for each byte may be too few; then what was found stands. *)
ParseCreditSpent ==
    /\ verdict = "reading"
    /\ verdict' = "limited"
    /\ UNCHANGED <<text, at, cursor, line, found>>

LinkNext == PassFence \/ PassBreak \/ PassFenced \/ Recognize \/ Finish \/ ParseCreditSpent
LinkSpec == LinkInit /\ [][LinkNext]_linkVars

-----------------------------------------------------------------------------
(* The bounded recognizer finds what the eager parsers find, in the order of
   the document: all of it when it says so, and otherwise a beginning of it. *)
SameLinks ==
    /\ verdict = "complete" => found = Eager(text)
    /\ verdict = "limited" => IsPrefix(found, Eager(text))
=============================================================================

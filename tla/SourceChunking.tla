--------------------------- MODULE SourceChunking ---------------------------
(***************************************************************************)
(* chunk_text: the heading, paragraph and code blocks of a normalised text *)
(* and the bounded chunks they are cut into.                               *)
(*                                                                         *)
(* A text is a sequence of lines [kind, level, title, chars]; chars holds  *)
(* "x" and " ", and every line but the last ends with a newline.  Offsets  *)
(* count characters from 0: character k of the text spans [k - 1, k).      *)
(* Kinds: "blank", "text", "heading" with its level, and "open" and        *)
(* "close", fence lines that begin and end a block of code ("open" has an  *)
(* info string, so it never closes one; a "close" outside code opens one). *)
(***************************************************************************)
EXTENDS Naturals, SequencesExt, FiniteSetsExt

Chars(lines) ==
    FlattenSeq([n \in DOMAIN lines |->
                   IF n < Len(lines) THEN Append(lines[n].chars, "\n") ELSE lines[n].chars])
LineStart(lines, n) == Len(Chars(SubSeq(lines, 1, n - 1))) + (IF n > 1 THEN 1 ELSE 0)
LineEnd(lines, n) == LineStart(lines, n) + Len(lines[n].chars)

isspace(c) == c # "x"

_trim_span(text, start, end) ==
    LET solid == {k \in start + 1 .. end : ~isspace(text[k])}
    IN IF solid = {} THEN <<start, start>> ELSE <<Min(solid) - 1, Max(solid)>>

\* Fault: a new heading closes the headings below it but not its own level.
NestTitle(headings, line) == Append(SubSeq(headings, 1, Min({line.level, Len(headings)})), line.title)

\* headings[level - 1 :] = [title].
OpenTitle(headings, line) ==
    Append(SubSeq(headings, 1, Min({line.level - 1, Len(headings)})), line.title)

\* The scan: pending is the span of the open paragraph, fence the start of the
\* open code block.
_blocks(lines) ==
    LET text == Chars(lines)
        Block(s, span, kind) ==
            IF span[1] < span[2]
            THEN Append(s.blocks, [start |-> span[1], end |-> span[2], path |-> s.headings, kind |-> kind])
            ELSE s.blocks
        finish_paragraph(s) ==
            IF s.pending = <<>> THEN s
            ELSE [s EXCEPT !.blocks = Block(s, _trim_span(text, s.pending[1], s.pending[2]), "paragraph"),
                           !.pending = <<>>]
        Scan(s, n) ==
            LET start == LineStart(lines, n)
                end == LineEnd(lines, n)
                done == finish_paragraph(s)
                titled == [done EXCEPT !.headings = OpenTitle(@, lines[n])]
            IN CASE s.fence # <<>> ->
                      IF lines[n].kind # "close" THEN s
                      ELSE [s EXCEPT !.blocks = Block(s, <<s.fence[1], end>>, "code_fence"),
                                     !.fence = <<>>]
                 [] s.fence = <<>> /\ lines[n].kind \in {"open", "close"} ->
                      [done EXCEPT !.fence = <<start>>]
                 [] s.fence = <<>> /\ lines[n].kind = "heading" ->
                      [titled EXCEPT !.blocks = Block(titled, _trim_span(text, start, end), "heading")]
                 [] s.fence = <<>> /\ lines[n].kind = "blank" -> done
                 [] OTHER -> [s EXCEPT !.pending = <<IF @ = <<>> THEN start ELSE @[1], end>>]
        last == finish_paragraph(FoldLeftDomain(Scan, [blocks |-> <<>>, headings |-> <<>>,
                                                       pending |-> <<>>, fence |-> <<>>], lines))
    IN IF last.fence = <<>> THEN last.blocks
       ELSE Block(last, _trim_span(text, last.fence[1], Len(text)), "code_fence")

\* Where the chunk that begins at cursor is cut: at the last space or newline
\* up to the limit, if there is one behind the cursor.
Split(text, cursor, end, max_characters) ==
    LET limit == Min({cursor + max_characters, end})
        spaces == {k \in cursor + 1 .. limit : isspace(text[k + 1])}
    IN IF limit < end /\ spaces # {} THEN Max(spaces) ELSE limit

_split_span(text, start, end, max_characters) ==
    LET Resume(k) == Min({j \in k .. end : j = end \/ ~isspace(text[j + 1])})
        From[cursor \in start .. end] ==
            IF cursor = end THEN <<>>
            ELSE LET split == Split(text, cursor, end, max_characters)
                     span == _trim_span(text, cursor, split)
                 IN (IF span[1] < span[2] THEN <<span>> ELSE <<>>) \o From[Resume(split)]
    IN From[start]

\* A text that yields no chunk is a ValueError.
chunk_text(lines, max_characters) ==
    LET text == Chars(lines)
        blocks == _blocks(lines)
        Cut(block) ==
            LET spans == _split_span(text, block.start, block.end, max_characters)
            IN [n \in DOMAIN spans |-> [start |-> spans[n][1], end |-> spans[n][2],
                                        path |-> block.path, kind |-> block.kind]]
        chunks == FlattenSeq([b \in DOMAIN blocks |-> Cut(blocks[b])])
    IN IF chunks = <<>> THEN [status |-> "error"] ELSE [status |-> "ok", chunks |-> chunks]

-----------------------------------------------------------------------------
(* The reference.                                                          *)

\* Line n lies in code: the fences before it leave a block open.
CodeLines(lines) ==
    LET open[n \in 0 .. Len(lines)] ==
            n > 0 /\ IF open[n - 1] THEN lines[n].kind # "close" ELSE lines[n].kind \in {"open", "close"}
    IN {n \in DOMAIN lines : open[n] \/ open[n - 1]}

Headings(lines) == {n \in DOMAIN lines \ CodeLines(lines) : lines[n].kind = "heading"}

\* The headings that enclose line n, outermost first.
EnclosingHeadings(lines, n) ==
    SetToSortSeq({h \in Headings(lines) : h <= n /\ \A g \in Headings(lines) :
                     h < g /\ g <= n => lines[g].level > lines[h].level}, <)

\* No heading is more than one level below the one it follows; the first is of
\* the top level.
LevelsAreConsecutive(lines) ==
    \A h \in Headings(lines) :
        LET before == {g \in Headings(lines) : g < h}
        IN lines[h].level <= 1 + (IF before = {} THEN 0 ELSE lines[Max(before)].level)

LineOf(lines, offset) == Max({n \in DOMAIN lines : LineStart(lines, n) <= offset})

\* chunk_text is exact: it refuses a text of white space only; otherwise its
\* chunks follow one another without overlap, hold every character that is not
\* white space, begin and end with one, keep to the limit and never join two
\* blocks; a chunk names the headings that enclose it, as long as the text skips
\* no heading level.
ChunksAreExact(lines, max_characters, answer) ==
    LET text == Chars(lines)
        solid == {k \in DOMAIN text : ~isspace(text[k])}
        chunks == IF answer.status = "ok" THEN answer.chunks ELSE <<>>
        Holds(c, k) == c.start < k /\ k <= c.end
    IN /\ answer.status = "error" <=> solid = {}
       /\ \A n \in DOMAIN chunks :
             /\ chunks[n].end - chunks[n].start \in 1 .. max_characters
             /\ {chunks[n].start + 1, chunks[n].end} \subseteq solid
             /\ n > 1 => chunks[n - 1].end <= chunks[n].start
       /\ \A k \in solid : \E n \in DOMAIN chunks : Holds(chunks[n], k)
       /\ \A n \in DOMAIN chunks :
             LET first == LineOf(lines, chunks[n].start)
                 last == LineOf(lines, chunks[n].end - 1)
             IN /\ first \in Headings(lines) => first = last
                /\ first \notin CodeLines(lines) =>
                      \A m \in first .. last : lines[m].kind # "blank" /\ m \notin CodeLines(lines)
                /\ chunks[n].kind = CASE first \in CodeLines(lines) -> "code_fence"
                                      [] first \in Headings(lines) -> "heading"
                                      [] OTHER -> "paragraph"
                /\ LevelsAreConsecutive(lines) =>
                      chunks[n].path = [m \in DOMAIN EnclosingHeadings(lines, first) |->
                                           lines[EnclosingHeadings(lines, first)[m]].title]
=============================================================================

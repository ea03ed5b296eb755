------------------------------ MODULE Unitizer ------------------------------
(***************************************************************************)
(* draft_units and unitize_drafts: the retrievable units of a revision -   *)
(* the document card, its sections and the passages that cover the text -  *)
(* with the parent links the evidence ladders climb.                       *)
(*                                                                         *)
(* Texts, trees and offsets are those of DocumentTree; a policy is         *)
(* [cap, window]: max_characters and fallback_window_characters, in lines. *)
(* A unit's identity hashes its kind, granularity, path and span.          *)
(***************************************************************************)
EXTENDS DocumentTree

Document == << <<"document">> >>

Draft(kind, granularity, path, span, flags) ==
    [kind |-> kind, granularity |-> granularity, path |-> path, start |-> span[1], end |-> span[2],
     flags |-> flags]

TreeChildren(tree, node) == SelectSeq(tree, LAMBDA n : n.parent = node.path)
IsBlank(text, span) == \A i \in span[1] + 1 .. span[2] : text[i].kind = "blank"

_fallback_windows(length, cap) ==
    [n \in 1 .. (length + cap - 1) \div cap |-> <<(n - 1) * cap, Min({n * cap, length})>>]

\* Fault: what follows the last child is not owned by anyone.
OwnedBetween(node, tree) ==
    LET Gap(s, child) == [ranges |-> IF child.start > s.cursor
                                     THEN Append(s.ranges, <<s.cursor, child.start>>) ELSE s.ranges,
                          cursor |-> Max({s.cursor, child.end})]
    IN FoldLeft(Gap, [ranges |-> <<>>, cursor |-> node.start], TreeChildren(tree, node)).ranges

_owned_ranges(node, tree) ==
    LET Gap(s, child) == [ranges |-> IF child.start > s.cursor
                                     THEN Append(s.ranges, <<s.cursor, child.start>>) ELSE s.ranges,
                          cursor |-> Max({s.cursor, child.end})]
        last == FoldLeft(Gap, [ranges |-> <<>>, cursor |-> node.start], TreeChildren(tree, node))
    IN IF last.cursor < node.end THEN Append(last.ranges, <<last.cursor, node.end>>) ELSE last.ranges

\* A blank line with a line of the range before it ends a paragraph; the next
\* one begins behind the blank lines.  One blank line at the very start of a
\* range is not recognised.
Boundaries(text, start, end) ==
    {start, end} \cup
    {i \in start + 2 .. end : /\ text[i].kind = "blank"
                              /\ i < end => text[i + 1].kind # "blank"}

\* Paragraphs are packed up to the cap; an oversized one stands alone.
_split_range(text, start, end, cap) ==
    LET cuts == SetToSortSeq(Boundaries(text, start, end), <)
        paragraphs == [n \in 1 .. Len(cuts) - 1 |-> <<cuts[n], cuts[n + 1]>>]
        Flush(s) == s.output \o s.current
        Pack(s, p) ==
            CASE p[2] - p[1] > cap -> [output |-> Append(Flush(s), p), current |-> <<>>]
              [] p[2] - p[1] <= cap /\ s.current # <<>> /\ p[2] - s.current[1][1] <= cap ->
                     [s EXCEPT !.current = << <<@[1][1], p[2]>> >>]
              [] OTHER -> [output |-> Flush(s), current |-> <<p>>]
    IN IF end - start <= cap THEN << <<start, end>> >>
       ELSE Flush(FoldLeft(Pack, [output |-> <<>>, current |-> <<>>], paragraphs))

\* The passages of the text a node owns itself, without its children.
OwnPassages(text, tree, node, path, cap) ==
    LET owned == SelectSeq(_owned_ranges(node, tree), LAMBDA r : ~IsBlank(text, r))
        Passages(r) == [n \in DOMAIN _split_range(text, r[1], r[2], cap) |->
                           Draft("passage", 3, path, _split_range(text, r[1], r[2], cap)[n], node.flags)]
    IN FlattenSeq([n \in DOMAIN owned |-> Passages(owned[n])])

\* A node within the cap is one passage, sections below it included; otherwise
\* its own text is split and its typed regions are passages as they are.
_passage_spans_for_node(text, tree, node, cap) ==
    LET regions == SelectSeq(TreeChildren(tree, node), LAMBDA c : c.kind # "body")
    IN IF node.end - node.start <= cap
       THEN <<Draft("passage", 3, node.path, <<node.start, node.end>>, node.flags)>>
       ELSE OwnPassages(text, tree, node, node.path, cap)
            \o [n \in DOMAIN regions |->
                   Draft("passage", 3, regions[n].path, <<regions[n].start, regions[n].end>>,
                         node.flags \cup regions[n].flags)]

AtDocument(drafts) == [n \in DOMAIN drafts |-> [drafts[n] EXCEPT !.path = Document]]

draft_units(text, tree, policy) ==
    LET root == tree[1]
        sections == SelectSeq(tree, LAMBDA n : n.kind = "body" /\ n.path # <<>>)
        card == Draft("document_card", 0, Document, <<root.start, root.end>>, root.flags)
        windows == _fallback_windows(Len(text), policy.window)
    IN <<card>>
       \o [n \in DOMAIN sections |->
              Draft("section", Min({2, Len(sections[n].path)}), sections[n].path,
                    <<sections[n].start, sections[n].end>>, sections[n].flags)]
       \o IF sections # <<>>
          THEN FlattenSeq([n \in DOMAIN sections |->
                              _passage_spans_for_node(text, tree, sections[n], policy.cap)])
               \o OwnPassages(text, tree, root, Document, policy.cap)
          ELSE IF TreeChildren(tree, root) = <<>>
          THEN [n \in DOMAIN windows |-> Draft("passage", 3, Document, windows[n], root.flags)]
          ELSE AtDocument(_passage_spans_for_node(text, tree, root, policy.cap))

\* The section with the longest path that is a prefix of the unit's (a proper
\* one for a section), the document card without one.
_parent_unit(units, unit) ==
    LET above == {n \in DOMAIN units :
                     /\ units[n].kind = "section" /\ IsPrefix(units[n].path, unit.path)
                     /\ unit.kind = "section" => units[n].path # unit.path}
        length == Max({Len(units[n].path) : n \in above})
    IN IF above = {} THEN 1 ELSE Min({n \in above : Len(units[n].path) = length})

unitize_drafts(drafts) ==
    [n \in DOMAIN drafts |->
        [unit |-> drafts[n], parent |-> IF n = 1 THEN 0 ELSE _parent_unit(drafts, drafts[n])]]

\* Same kind, granularity, path and span; nothing is guessed.  0: unmatched.
remap_citations(old, new) ==
    [n \in DOMAIN old |->
        LET exact == {m \in DOMAIN new :
                         [new[m].unit EXCEPT !.flags = {}] = [old[n].unit EXCEPT !.flags = {}]}
        IN IF Cardinality(exact) = 1 THEN CHOOSE m \in exact : TRUE ELSE 0]

-----------------------------------------------------------------------------
(* The reference.                                                          *)

Passages(units) == {n \in DOMAIN units : units[n].unit.kind = "passage"}

\* The typed regions before the first heading get no passage of their own: the
\* one place where text is in no passage.
LeftOut(tree, i) ==
    /\ \E n \in DOMAIN tree \ {1} : tree[n].kind = "body"
    /\ \E n \in DOMAIN tree : tree[n].kind # "body" /\ tree[n].parent = <<>> /\ Covers(tree[n], i)

\* A line that begins a paragraph is where a passage may begin inside a range.
Unsplit(text, tree, u) ==
    \/ \E n \in DOMAIN tree : tree[n].kind # "body" /\ tree[n].start = u.start /\ tree[n].end = u.end
    \/ \A i \in u.start + 2 .. u.end - 1 : text[i].kind = "blank" => text[i + 1].kind = "blank"

\* Every line that is not blank is found: it is in a passage, the named
\* exception apart.  Passages keep typed regions whole, and exceed the cap only
\* as a single region or paragraph.  Every unit can be told from the others by
\* its placement alone, so a citation moves to a new version exactly or not at
\* all.  A parent contains its children, unless a section is itself called
\* "document" and adopts the passages before the first heading.
UnitsAreExact(text, tree, units, policy) ==
    LET structured == Len(tree) > 1
        adopted(n) == units[n].unit.path = Document /\ units[n].unit.kind = "passage"
    IN /\ \A i \in DOMAIN text : text[i].kind # "blank" =>
             LeftOut(tree, i) \/ \E n \in Passages(units) : Covers(units[n].unit, i)
       /\ structured => \A n \in Passages(units), r \in DOMAIN tree :
             tree[r].kind # "body" =>
                LET u == units[n].unit IN
                \/ u.end <= tree[r].start \/ tree[r].end <= u.start
                \/ u.start <= tree[r].start /\ tree[r].end <= u.end
       /\ structured => \A n \in Passages(units) :
             units[n].unit.end - units[n].unit.start > policy.cap => Unsplit(text, tree, units[n].unit)
       /\ remap_citations(units, units) = [n \in DOMAIN units |-> n]
       /\ \A n \in DOMAIN units \ {1} :
             LET u == units[n].unit
                 p == units[units[n].parent].unit
             IN \/ p.start <= u.start /\ u.end <= p.end
                \/ adopted(n) /\ p.path = Document /\ p.kind = "section"
=============================================================================

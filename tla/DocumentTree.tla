---------------------------- MODULE DocumentTree ----------------------------
(***************************************************************************)
(* build_document_tree: the headings, fenced code and typed regions of a   *)
(* substrate as one tree of paths and spans.                               *)
(*                                                                         *)
(* A text is a sequence of lines, a line [kind, level, name, marked]: its  *)
(* kind ("blank", "text", "fence", "heading" or a region kind), the level  *)
(* and the slug (or anchor) of a heading, and whether it carries an        *)
(* uncertainty marker.  Every line is one unit wide, so that line i spans  *)
(* [i - 1, i).  A path segment is the sequence of its dashed parts, which  *)
(* lets "intro-2" be a title as well as a renamed "intro".  A node's       *)
(* identity is the hash of its path and is modelled by the path.           *)
(***************************************************************************)
EXTENDS Naturals, SequencesExt, FiniteSetsExt

CONSTANT NoParent   \* the parent_id of the root

Mergeable == {"table", "emphasis", "summary", "definition"}

Region(kind, start, end, flags) == [kind |-> kind, start |-> start, end |-> end, flags |-> flags]
ByStart(spans) == SetToSortSeq(spans, LAMBDA a, b : a.start < b.start)

\* Fences pair up in order; the last one of an odd number runs to the end.
_code_spans(text, profile) ==
    LET fences == SetToSortSeq({i \in DOMAIN text : text[i].kind = "fence"}, <)
        n == Len(fences)
    IN IF ~profile.fenced_code THEN {}
       ELSE {Region("code", fences[2 * k - 1] - 1, fences[2 * k], {}) : k \in 1 .. n \div 2}
            \cup (IF n % 2 = 0 THEN {}
                  ELSE {Region("code", fences[n] - 1, Len(text), {"malformed"})})

_inside(i, spans) == \E s \in spans : s.start < i /\ i <= s.end

_headings(text, code, profile) ==
    SetToSortSeq({i \in DOMAIN text : /\ profile.atx
                                      /\ ~_inside(i, code)
                                      /\ text[i].kind = "heading"
                                      /\ text[i].level \in 1 .. profile.max_heading_depth}, <)

\* The levels of the open sections grow, so the ones popped from the stack are
\* those at least as deep as the heading.
_nest(text, headings) ==
    LET Open(s, i) ==
            LET open == {k \in s.open : s.outline[k].level < text[i].level}
                closed == [k \in DOMAIN s.outline |->
                              IF k \in s.open \ open THEN [s.outline[k] EXCEPT !.end = i - 1]
                              ELSE s.outline[k]]
            IN [outline |-> Append(closed, [level |-> text[i].level, name |-> text[i].name,
                                            start |-> i - 1, end |-> Len(text), parent |-> Max(open)]),
                open |-> open \cup {Len(closed) + 1}]
        root == [level |-> 0, name |-> <<>>, start |-> 0, end |-> Len(text), parent |-> 0]
    IN FoldLeft(Open, [outline |-> <<root>>, open |-> {1}], headings).outline

_classify(line, profile) == IF line.kind \in profile.regions THEN line.kind ELSE "none"

\* The typed regions of a node's own lines.  An open merged region goes on
\* through its own kind and through plain lines.
_regions(text, start, end, code, profile) ==
    LET Close(s) == IF s.open = {} THEN s.done ELSE s.done \cup s.open
        Step(s, i) ==
            LET kind == _classify(text[i], profile)
                line == Region(kind, i - 1, i, {})
            IN CASE _inside(i, code) -> [done |-> Close(s), open |-> {}]
                 [] /\ ~_inside(i, code)
                    /\ \E r \in s.open : kind \in {r.kind} \/ (kind = "none" /\ text[i].kind # "blank") ->
                       [s EXCEPT !.open = {[r EXCEPT !.end = i] : r \in @}]
                 [] OTHER ->
                       [done |-> Close(s) \cup (IF kind \in Mergeable \cup {"none"} THEN {} ELSE {line}),
                        open |-> IF kind \in Mergeable THEN {line} ELSE {}]
        spans == {s \in code : start <= s.start /\ s.end <= end}
        lines == [n \in 1 .. end - start |-> start + n]
    IN ByStart(Close(FoldLeft(Step, [done |-> spans, open |-> {}], lines)))

\* Fault: a renamed segment is not compared with its siblings.
RenameOnce(proposed) ==
    [i \in DOMAIN proposed |->
        LET before == {j \in 1 .. i - 1 : proposed[j] = proposed[i]}
        IN IF before = {} THEN proposed[i] ELSE Append(proposed[i], Cardinality(before) + 1)]

_unique_segments(proposed) ==
    LET Assign(s, segment) ==
            LET last == IF segment \in DOMAIN s.used THEN s.used[segment] ELSE 1
                free == {n \in last + 1 .. last + Len(proposed) : Append(segment, n) \notin s.taken}
                chosen == IF segment \in s.taken THEN Append(segment, Min(free)) ELSE segment
                count == IF segment \in s.taken THEN Min(free) ELSE last
            IN [taken |-> s.taken \cup {chosen}, used |-> (segment :> count) @@ s.used,
                segments |-> Append(s.segments, chosen)]
    IN FoldLeft(Assign, [taken |-> {}, used |-> <<>>, segments |-> <<>>], proposed).segments

\* Regions are named by kind and count.
RegionSegments(regions) ==
    [n \in DOMAIN regions |->
        <<regions[n].kind, Cardinality({m \in 1 .. n : regions[m].kind = regions[n].kind})>>]

_markers_in(text, start, end) == {"doubt" : i \in {i \in start + 1 .. end : text[i].marked}}

Node(path, parent, kind, span, flags) ==
    [path |-> path, parent |-> parent, kind |-> kind, start |-> span.start, end |-> span.end,
     flags |-> flags]

\* The outline with the sections below each section and the typed regions of its
\* own lines, those before the first section below it.
Layout(text, profile, code, outline) ==
    [k \in DOMAIN outline |->
        LET kids == SetToSortSeq({c \in DOMAIN outline : outline[c].parent = k}, <)
            own_end == IF kids = <<>> THEN outline[k].end ELSE outline[kids[1]].start
        IN [span |-> outline[k], kids |-> kids, own_end |-> own_end,
            regions |-> _regions(text, outline[k].start, own_end, code, profile)]]

\* Nodes come out parent first, in the order of the document; the flags of a
\* section include those of what is below it.
_emit(text, layout) ==
    LET segments == [k \in DOMAIN layout |->
            _unique_segments(RegionSegments(layout[k].regions)
                             \o [n \in DOMAIN layout[k].kids |-> layout[layout[k].kids[n]].span.name])]
        path[k \in DOMAIN layout] ==
            IF k = 1 THEN <<>>
            ELSE LET p == layout[k].span.parent
                     n == CHOOSE n \in DOMAIN layout[p].kids : layout[p].kids[n] = k
                 IN Append(path[p], segments[p][Len(layout[p].regions) + n])
        marks(r) == r.flags \cup _markers_in(text, r.start, r.end)
        flags[k \in DOMAIN layout] ==
            _markers_in(text, layout[k].span.start, layout[k].own_end)
            \cup UNION {marks(layout[k].regions[n]) : n \in DOMAIN layout[k].regions}
            \cup UNION {flags[layout[k].kids[n]] : n \in DOMAIN layout[k].kids}
        Section(k) == Node(path[k], IF k = 1 THEN NoParent ELSE path[layout[k].span.parent], "body",
                           layout[k].span, flags[k])
        RegionNode(k, n) == LET r == layout[k].regions[n]
                            IN Node(Append(path[k], segments[k][n]), path[k], r.kind, r, marks(r))
    IN SetToSortSeq({Section(k) : k \in DOMAIN layout}
                    \cup UNION {{RegionNode(k, n) : n \in DOMAIN layout[k].regions} : k \in DOMAIN layout},
                    LAMBDA a, b : \/ a.start < b.start
                                  \/ a.start = b.start /\ Len(a.path) < Len(b.path))

build_document_tree(text, profile) ==
    LET code == _code_spans(text, profile)
    IN _emit(text, Layout(text, profile, code, _nest(text, _headings(text, code, profile))))

\* What DocumentTree and TreeNode check of the nodes they are given.
_validate_structure(nodes) ==
    /\ nodes # <<>> /\ nodes[1].parent = NoParent
    /\ \A n \in DOMAIN nodes :
          /\ nodes[n].start < nodes[n].end
          /\ \A m \in 1 .. n - 1 : nodes[m].path # nodes[n].path
          /\ n > 1 => \E m \in 1 .. n - 1 :
                /\ nodes[m].path = nodes[n].parent
                /\ nodes[m].start <= nodes[n].start /\ nodes[n].end <= nodes[m].end
                /\ Front(nodes[n].path) = nodes[m].path

_validate_sibling_order(nodes) ==
    \A m, n \in DOMAIN nodes :
        m < n /\ nodes[m].parent = nodes[n].parent => nodes[m].end <= nodes[n].start

-----------------------------------------------------------------------------
(* The reference: what the tree of a text is, line by line.                *)

\* An odd number of fences up to a line leaves it in code.
InCode(text, profile, i) ==
    /\ profile.fenced_code
    /\ \/ text[i].kind = "fence"
       \/ Cardinality({j \in 1 .. i : text[j].kind = "fence"}) % 2 = 1

Titles(text, profile) ==
    {i \in DOMAIN text : /\ profile.atx /\ text[i].kind = "heading"
                         /\ text[i].level <= profile.max_heading_depth
                         /\ ~InCode(text, profile, i)}

\* The section of a heading ends at the next one that is not below it, and is
\* listed under the closest earlier one that is above it.
SectionEnd(text, profile, i) ==
    Min({j - 1 : j \in {j \in Titles(text, profile) : j > i /\ text[j].level <= text[i].level}}
        \cup {Len(text)})
AboveStart(text, profile, i) ==
    LET above == {j \in Titles(text, profile) : j < i /\ text[j].level < text[i].level}
    IN IF above = {} THEN 0 ELSE Max(above) - 1

Covers(node, i) == node.start < i /\ i <= node.end

\* build_document_tree never trips over the checks of its own result, whatever
\* siblings are called; its sections are the headings outside code, each with
\* its span and its parent; every typed line and every line of code is in
\* exactly one region, of its own kind; and a node is flagged exactly when a
\* line in it is doubtful or an unclosed fence begins in it.
TreeIsExact(text, profile, nodes) ==
    /\ _validate_structure(nodes) /\ _validate_sibling_order(nodes)
    /\ \A i \in Titles(text, profile) :
          \E n \in DOMAIN nodes \ {1} :
             /\ nodes[n].kind = "body" /\ nodes[n].start = i - 1
             /\ nodes[n].end = SectionEnd(text, profile, i)
             /\ \E m \in DOMAIN nodes : /\ nodes[m].path = nodes[n].parent /\ nodes[m].kind = "body"
                                        /\ nodes[m].start = AboveStart(text, profile, i)
    /\ Cardinality({n \in DOMAIN nodes : nodes[n].kind = "body"}) = Cardinality(Titles(text, profile)) + 1
    /\ \A i \in DOMAIN text :
          LET around == {n \in DOMAIN nodes : nodes[n].kind # "body" /\ Covers(nodes[n], i)}
          IN /\ InCode(text, profile, i) => \E n \in around : around = {n} /\ nodes[n].kind = "code"
             /\ ~InCode(text, profile, i) /\ text[i].kind \in profile.regions =>
                   \E n \in around : around = {n} /\ nodes[n].kind = text[i].kind
    /\ \A n \in DOMAIN nodes :
          LET within == {i \in DOMAIN text : Covers(nodes[n], i)}
          IN /\ "doubt" \in nodes[n].flags <=> \E i \in within : text[i].marked
             /\ "malformed" \in nodes[n].flags <=>
                   /\ profile.fenced_code
                   /\ Cardinality({i \in DOMAIN text : text[i].kind = "fence"}) % 2 = 1
                   /\ Max({i \in DOMAIN text : text[i].kind = "fence"}) \in within
=============================================================================

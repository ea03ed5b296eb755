---------------------------- MODULE MCDocuments ----------------------------
(***************************************************************************)
(* The text algorithms of ingestion and of the knowledge substrate: every  *)
(* text over a small alphabet of lines is made into a tree and its units,  *)
(* or into chunks.  MCKnowledge runs them.                                  *)
(***************************************************************************)
EXTENDS Unitizer, SourceChunking

CONSTANT MaxLines  \* bound: lines of a text

VARIABLES
    use,      \* what is made of the text: "units", "chunks" or "none"
    sample,   \* the text: [lines, profile, policy], or [lines, max] for chunks
    built     \* its tree and units, or its chunks

textVars == <<use, sample, built>>

TextLine(kind) == [kind |-> kind, level |-> 0, name |-> <<>>, marked |-> FALSE]
Title(level, name) == [TextLine("heading") EXCEPT !.level = level, !.name = name]
Doubtful == [TextLine("text") EXCEPT !.marked = TRUE]
Dialect == [fenced_code |-> TRUE, atx |-> TRUE, max_heading_depth |-> 2,
            regions |-> {"table", "item", "figure_ref"}]
PlainText == [fenced_code |-> FALSE, atx |-> FALSE, max_heading_depth |-> 1, regions |-> {}]

\* Structure: headings of three levels, code, merged and single regions.
StructureLines == {TextLine(k) : k \in {"blank", "text", "fence", "table", "item"}}
                  \cup {Title(1, <<"a">>), Title(2, <<"a">>), Title(3, <<"a">>), Doubtful}
\* Names: titles that read like renamed titles, like regions, like the card.
NameLines == {TextLine(k) : k \in {"text", "item"}}
             \cup {Title(1, n) : n \in {<<"a">>, <<"a", 2>>, <<"item", 1>>, <<"document">>}}
             \cup {Title(2, <<"a">>)}
\* Paragraphs: what splitting tells apart.
ParagraphLines == {TextLine(k) : k \in {"blank", "text", "figure_ref"}} \cup {Title(1, <<"a">>)}

TextsOf(lines, n) == UNION {[1 .. m -> lines] : m \in 1 .. n}
Policy(cap, window) == [cap |-> cap, window |-> window]

UnitSamples ==
    {[lines |-> l, profile |-> Dialect, policy |-> Policy(1, 2)] :
        l \in TextsOf(StructureLines, MaxLines) \cup TextsOf(NameLines, MaxLines)}
    \cup {[lines |-> l, profile |-> Dialect, policy |-> Policy(cap, 2)] :
            cap \in {2, 3}, l \in TextsOf(ParagraphLines, MaxLines + 2)}
    \cup {[lines |-> l, profile |-> PlainText, policy |-> Policy(2, w)] :
            w \in {1, 2, 3}, l \in TextsOf(StructureLines, 2) \cup {[n \in 1 .. MaxLines |-> Doubtful]}}

\* Lines of chunked texts: words of one to three characters, headings of three
\* levels and the fences.
ChunkLine(kind, level, chars) ==
    [kind |-> kind, level |-> level, title |-> level, chars |-> chars]
ChunkLines ==
    {ChunkLine("text", 0, c) : c \in {<<"x">>, <<"x", "x", "x">>, <<"x", " ", "x">>, <<" ", "x", " ">>}}
    \cup {ChunkLine("heading", l, <<"x", " ", "x">>) : l \in {1, 2, 3}}
    \cup {ChunkLine("blank", 0, <<>>), ChunkLine("open", 0, <<"x", "x">>), ChunkLine("close", 0, <<"x">>)}

ChunkSamples == {[lines |-> l, max |-> m] : l \in TextsOf(ChunkLines, MaxLines - 1), m \in {1, 2, 4}}
                \cup {[lines |-> l, max |-> 3] :
                        l \in TextsOf({c \in ChunkLines : c.kind \in {"heading", "close"}}, MaxLines)}

Uncut == [status |-> "none"]
Unbuilt == [tree |-> <<>>, units |-> <<>>, chunks |-> Uncut]

TreeAndUnits(tree) ==
    [Unbuilt EXCEPT !.tree = tree,
                    !.units = unitize_drafts(draft_units(sample.lines, tree, sample.policy))]

Unitize ==
    /\ built = Unbuilt /\ use = "units"
    /\ built' = TreeAndUnits(build_document_tree(sample.lines, sample.profile))
    /\ UNCHANGED <<use, sample>>

Chunk ==
    /\ built = Unbuilt /\ use = "chunks"
    /\ built' = [Unbuilt EXCEPT !.chunks = chunk_text(sample.lines, sample.max)]
    /\ UNCHANGED <<use, sample>>

TextInit ==
    /\ built = Unbuilt
    /\ \/ use = "units" /\ sample \in UnitSamples
       \/ use = "chunks" /\ sample \in ChunkSamples

NoText == built = Unbuilt /\ use = "none" /\ sample = <<>>

TextNext == Unitize \/ Chunk

-----------------------------------------------------------------------------
\* Every text is made into a tree, and its tree into units, as the references
\* say: nothing is lost, misplaced or named twice.
DocumentsAreExact ==
    use = "units" /\ built # Unbuilt =>
        /\ TreeIsExact(sample.lines, sample.profile, built.tree)
        /\ UnitsAreExact(sample.lines, built.tree, built.units, sample.policy)

\* Every text is cut into chunks as the reference says.
ChunkingIsExact ==
    use = "chunks" /\ built # Unbuilt => ChunksAreExact(sample.lines, sample.max, built.chunks)
=============================================================================

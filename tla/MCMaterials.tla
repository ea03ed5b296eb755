---------------------------- MODULE MCMaterials ----------------------------
(* One or two sources, a text, the same text with other line ends and a     *)
(* text without content.                                                    *)
EXTENDS Materials

MCNormalOf == [t \in Texts |-> CASE t = "crlf" -> "lf" [] t = "blank" -> None [] OTHER -> t]
MCSizeOf == [t \in Texts |-> IF t = "lf" THEN 2 ELSE 1]
Rev(text) == [source |-> "s1", text |-> text, title |-> "t1"]
Start(ops, texts, events, stream) == [ops |-> ops, texts |-> texts, events |-> events,
                                      log |-> stream]
MCStarts ==
    {Start({"ingest"}, {"crlf", "lf", "blank"}, 5, <<>>),
     Start({"ingest", "produce"}, {"crlf", "lf"}, 4, <<Ingested(Rev("lf"))>>),
     Start({"declare"}, {}, 6, <<Ingested(Rev("crlf")), Ingested(Rev("lf")),
                                 Ingested(Rev("other"))>>),
     Start({"ingest", "rebuild", "search"}, {"crlf", "lf"}, 4, <<>>),
     Start({"capture", "file_ingest", "lookup"}, {"crlf", "lf"}, 1, <<>>)}
\* The answer of a finished call is not part of the state.
MCView == <<log, blobs, index, files, now, offered,
            [c \in Clients |-> IF client[c].pc = "idle" THEN Idle(None) ELSE client[c]]>>
MCSymmetry == Permutations(Clients)
============================================================================

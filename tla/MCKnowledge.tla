---------------------------- MODULE MCKnowledge ----------------------------
(***************************************************************************)
(* One instance of the knowledge modules.  A start fixes the part that     *)
(* moves: scopes with their indexers and services, the registry of gaps,   *)
(* the flashcard dispatcher, one fusion of a batch chosen from all small   *)
(* batches and catalogs, or one of the texts of MCDocuments.               *)
(***************************************************************************)
EXTENDS ScopedRetrieval, CapabilityGaps, FlashcardDispatcher, MCDocuments

CONSTANT MaxListed    \* bound: candidates of one retriever in a fusion input

VARIABLES
    part,     \* "scopes", "gaps", "dispatch", "fusion" or "texts"
    input,    \* the fusion input: [catalog, batch]
    fused     \* its result

pureVars == <<part, input, fused>>
allVars == <<scopeVars, gapVars, dispatchVars, pureVars, textVars>>

-----------------------------------------------------------------------------
(* Scopes: two sources, the first with two revisions. *)

MCIdOrder(a, b) == a < b
MCTermOrder(a, b) == a = "x" /\ b = "y"
Unit(source, revision, ordinal, parent, text, handle) ==
    [source |-> source, revision |-> revision, ordinal |-> ordinal, parent |-> parent,
     text |-> text, handle |-> handle, class |-> "notes", flagged |-> FALSE, top |-> 0,
     kind |-> IF parent = NoUnit THEN "card" ELSE "passage",
     granularity |-> IF parent = NoUnit THEN 0 ELSE 3]

MCRevisions ==
    [s \in {"s1", "s2"} |->
        IF s = "s1"
        THEN <<(1 :> Unit("s1", 1, 0, NoUnit, <<"x", "y">>, <<"x">>)),
               (3 :> Unit("s1", 2, 0, NoUnit, <<"x">>, <<"x", "y">>)
                   @@ 2 :> Unit("s1", 2, 1, 3, <<"y", "y">>, <<"y">>))>>
        ELSE <<(4 :> Unit("s2", 1, 0, NoUnit, <<"x">>, <<"x">>))>>]

MCPolicies == {[version |-> v, aliases |-> "y" :> {"x"}] : v \in {"v1", "v2"}}
             \cup {[version |-> "v3", aliases |-> "x" :> {}]}
PolicyOf(v) == CHOOSE q \in Policies : q.version = v

MCFusePolicy ==
    [weights |-> "lex" :> 1 @@ "vec" :> 1, rrf_k |-> 60, penalty |-> 10,
     priors |-> [k \in {"card", "section", "passage"} |-> IF k = "card" THEN 20 ELSE 0],
     max_results |-> 2, max_units_per_source |-> 2, max_units_per_section |-> 1,
     max_parents |-> 1, max_siblings |-> 1, max_window |-> 1, max_attachments |-> 2]
MCServicePolicy == [MCFusePolicy EXCEPT !.weights = "lex" :> 1]

Edit(kind, source, v) ==
    [op |-> "edit", kind |-> kind, scope |-> "k", source |-> source,
     policy |-> IF v = None THEN None ELSE PolicyOf(v)]
Index == [op |-> "index", scope |-> "k"]
Lookup(surface, term) == [op |-> "lookup", scope |-> "k", surface |-> surface, term |-> term]
Search(term) == [op |-> "search", scope |-> "k", surface |-> "projection", term |-> term]
Ingest == [op |-> "ingest", source |-> "s1"]

MCRequests ==
    {Edit("configure", None, v) : v \in {"v1", "v2", "v3"}}
    \cup {Edit(k, s, None) : k \in {"add", "remove"}, s \in {"s1", "s2"}}
    \cup {[Edit("remove", "s2", None) EXCEPT !.scope = "j"], Index, Ingest}
    \cup {Lookup(f, t) : f \in Surfaces, t \in {"x", "y"}} \cup {Search("x")}

ScopeRow(v, members) == [policy |-> PolicyOf(v), members |-> members]
CourseWith(row, r1, r2) ==
    [seq |-> 0, scopes |-> [s \in Scopes |-> IF s = "k" THEN row ELSE None], receipts |-> {},
     revision |-> [s \in Sources |-> IF s = "s1" THEN r1 ELSE r2]]
Asked(wanted) == [r \in Requests |-> IF r \in DOMAIN wanted THEN wanted[r] ELSE 0]

MCStarts ==
    {[course |-> CourseWith(None, 1, 1),
      asked |-> Asked([r \in {r \in Requests : r.op = "edit"} |-> 1])],
     [course |-> CourseWith(ScopeRow("v1", {"s1", "s2"}), 1, 1),
      asked |-> Asked(Index :> 2 @@ Search("x") :> 1 @@ Ingest :> 1
                      @@ Edit("remove", "s2", None) :> 1)],
     [course |-> CourseWith(ScopeRow("v1", {"s1"}), 2, 1),
      asked |-> Asked(Index :> 2 @@ Lookup("terms", "x") :> 1
                      @@ Edit("configure", None, "v3") :> 1 @@ Edit("add", "s2", None) :> 1)],
     [course |-> CourseWith(ScopeRow("v1", {"s1"}), 1, 1),
      asked |-> Asked(Index :> 1 @@ Lookup("canonical", "y") :> 1 @@ Ingest :> 1)],
     [course |-> [CourseWith(ScopeRow("v1", {}), 1, 1) EXCEPT
                     !.scopes["j"] = ScopeRow("v1", {"s2"})],
      asked |-> Asked(Index :> 1 @@ Search("x") :> 1 @@ Edit("add", "s1", None) :> 1
                      @@ [Edit("remove", "s2", None) EXCEPT !.scope = "j"] :> 1)]}

-----------------------------------------------------------------------------
(* Gaps. *)

MCObservations ==
    {[kind |-> "pdf", impact |-> i, receipt |-> NoGap, fingerprint |-> f, seen |-> t] :
        i \in {"blocked"}, f \in {"f1", "f2"}, t \in {1, 2}}
    \cup {[kind |-> "pdf", impact |-> "degraded", receipt |-> NoGap, fingerprint |-> "f1",
           seen |-> 2],
          [kind |-> "pdf", impact |-> "blocked", fingerprint |-> "f1", seen |-> 1,
           receipt |-> [limitation |-> "resource_limit", contract |-> "c"]]}

-----------------------------------------------------------------------------
(* The dispatcher: the default selection, an explicit one, another ceiling. *)

MCBindingOrder == <<"hybrid", "morphology">>
Selection(profile, mode) == [profile |-> profile, mode |-> mode]
MCPublicInputs ==
    {[ceiling |-> 1, receipt |-> Selection("hybrid", "default")],
     [ceiling |-> 2, receipt |-> Selection("hybrid", "default")],
     [ceiling |-> 1, receipt |-> Selection("morphology", "explicit")]}

-----------------------------------------------------------------------------
(* Fusion: every forest of four units whose parents come first, some of    *)
(* them sections, with identities in two orders, and two ranked lists.     *)

FusionUnits == {1, 2, 3, 4}
Parents == {f \in [FusionUnits -> 0 .. 3] : f[1] = 0 /\ \A u \in FusionUnits : f[u] < u}
Depth(f, u) == LET d[v \in FusionUnits] == IF f[v] = 0 THEN 0 ELSE 1 + d[f[v]] IN d[u]
Root(f, u) == LET r[v \in FusionUnits] == IF f[v] = 0 THEN v ELSE r[f[v]] IN r[u]
Rename(order, u) == IF u = 0 THEN NoUnit ELSE order[u]

\* draft_units: a document card at the root, sections whose granularity stops
\* at 2, passages below them.
FusionCatalog(f, sections, order) ==
    [n \in FusionUnits |->
        LET u == CHOOSE v \in FusionUnits : order[v] = n
        IN [parent |-> Rename(order, f[u]), source |-> Root(f, u), revision |-> 1,
            ordinal |-> u, top |-> 0, flagged |-> u = 3,
            kind |-> IF f[u] = 0 THEN "card" ELSE IF u \in sections THEN "section" ELSE "passage",
            granularity |-> IF f[u] = 0 THEN 0
                            ELSE IF u \in sections THEN Min({2, Depth(f, u)}) ELSE 3]]

Inner(f) == {u \in FusionUnits : f[u] # 0 /\ \E v \in FusionUnits : f[v] = u}
Orders == {<<1, 2, 3, 4>>, <<4, 3, 2, 1>>, <<3, 1, 4, 2>>}
Catalogs == {FusionCatalog(f, Inner(f) \cup extra, order) :
                f \in Parents, extra \in {{}, {4}}, order \in Orders}

Lists == {l \in UNION {[1 .. n -> FusionUnits] : n \in 0 .. MaxListed} :
             \A i, j \in DOMAIN l : l[i] = l[j] => i = j}
Batch(a, b) == <<[retriever |-> "lex", units |-> a], [retriever |-> "vec", units |-> b]>>

NoInput == [catalog |-> <<>>, batch |-> <<>>]
Unfused == [status |-> "none", groups |-> <<>>]

Fuse ==
    /\ fused = Unfused
    /\ fused' = fuse_candidates(input.batch, {"lex", "vec"}, input.catalog, MCFusePolicy)
    /\ UNCHANGED <<part, input>>

-----------------------------------------------------------------------------
Nothing == ScopesInit([course |-> CourseWith(None, 0, 0), asked |-> Asked(<<>>)])

Init ==
    /\ fused = Unfused
    /\ DispatchInit
    /\ GapInit
    /\ \/ /\ part = "scopes" /\ input = NoInput /\ NoText
          /\ \E start \in MCStarts : ScopesInit(start)
       \/ /\ part \in {"gaps", "dispatch"} /\ input = NoInput /\ NoText
          /\ Nothing
       \/ /\ part = "texts" /\ input = NoInput /\ Nothing
          /\ TextInit
       \/ /\ part = "fusion" /\ Nothing /\ NoText
          /\ \E c \in Catalogs, a, b \in Lists : input = [catalog |-> c, batch |-> Batch(a, b)]

Next ==
    \/ part = "scopes" /\ ScopesNext /\ UNCHANGED <<gapVars, dispatchVars, pureVars, textVars>>
    \/ part = "gaps" /\ GapNext /\ UNCHANGED <<scopeVars, dispatchVars, pureVars, textVars>>
    \/ part = "dispatch" /\ DispatchNext /\ UNCHANGED <<scopeVars, gapVars, pureVars, textVars>>
    \/ part = "fusion" /\ Fuse /\ UNCHANGED <<scopeVars, gapVars, dispatchVars, textVars>>
    \/ part = "texts" /\ TextNext /\ UNCHANGED <<scopeVars, gapVars, dispatchVars, pureVars>>

Spec == Init /\ [][Next]_allVars

\* The processes of the one part that moves are interchangeable.
MCSymmetry == Permutations(Procs) \cup Permutations(Reporters) \cup Permutations(Callers)

-----------------------------------------------------------------------------
\* Types, the bound of a course's scope receipts (_MAX_RECEIPTS), members that
\* are known sources, and aggregates whose seen range is in order.
TypeOK ==
    /\ part \in {"scopes", "gaps", "dispatch", "fusion", "texts"}
    /\ course.seq \in 0 .. MaxAppends
    /\ Cardinality(course.receipts) \in 0 .. MaxReceipts
    /\ \A s \in Scopes : course.scopes[s] # None =>
          course.scopes[s].policy \in Policies /\ course.scopes[s].members \subseteq Known(course)
    /\ \A p \in Procs : proc[p].at \in {"idle", "append", "resolving", "write", "check", "audit",
                                        "resolve", "confirm", "query", "verify", "recheck",
                                        "fuse", "answered"}
    /\ file \in {"absent", "empty", "ready"}
    /\ \A g \in GapKeys : gaps[g] # NoGap => gaps[g].last >= gaps[g].first
    /\ \A p \in Reporters : reporter[p].at \in {"closed", "create", "schema", "open", "write",
                                                "reply"}
    /\ \A r \in RunIds : runs[r] # NoRun =>
          runs[r].inputs \in PublicInputs /\ runs[r].candidates \in 0 .. MaxCandidates
    /\ \A c \in Callers : callOf[c].at \in {"idle", "probe", "inspect", "engine", "drive", "observe"}
    /\ fused.status \in {"none", "ready", "insufficient"}

\* _ladder_groups against its reference: before the caps, every matched unit
\* is a member of exactly one group, and that group holds the least matched
\* leaf at or below it, so that no matched leaf is ever folded into another.
GroupsPartitionLadders ==
    part = "fusion" /\ fused # Unfused =>
        LET catalog == input.catalog
            candidates == DOMAIN Contributions(input.batch, MCFusePolicy)
            groups == {g.members : g \in AllGroups(input.batch, catalog, MCFusePolicy)}
            leaves == MatchedLeaves(catalog, candidates)
        IN /\ UNION groups = candidates
           /\ \A g, h \in groups : g # h => g \cap h = {}
           /\ \A g \in groups : Cardinality(g \cap leaves) = 1
           /\ \A u \in candidates :
                 \E g \in groups : {u, LeastId({l \in leaves : IsBelow(catalog, l, u)})} \subseteq g

\* fuse_candidates: the caps hold, the groups are ranked, and a matched group
\* is missing only because better groups had already filled the result, its
\* source or its section.
SelectionIsJustified ==
    fused.status = "ready" =>
        LET catalog == input.catalog
            chosen == Range(fused.groups)
            Better(g) == {h \in chosen : Outranks(h, g)}
            Full(g) ==
                \/ Cardinality(Better(g)) >= MCFusePolicy.max_results
                \/ Cardinality({h \in Better(g) : catalog[h.primary].source
                                                    = catalog[g.primary].source})
                       >= MCFusePolicy.max_units_per_source
                \/ Cardinality({h \in Better(g) : _section_key(catalog, h.primary)
                                                    = _section_key(catalog, g.primary)})
                       >= MCFusePolicy.max_units_per_section
        IN \A g \in AllGroups(input.batch, catalog, MCFusePolicy) :
              Full(g) <=> \A h \in chosen : h.primary # g.primary

\* What retrieval is built on is what it says: an index that nobody disturbs
\* succeeds, the manifest counts the catalog, and fusion of ranked lists groups
\* and selects as its reference definitions say.
RetrievalIsFaithful ==
    /\ TypeOK
    /\ SoloIndexSucceeds /\ ManifestCountsCatalog
    /\ GroupsPartitionLadders /\ SelectionIsJustified
=============================================================================

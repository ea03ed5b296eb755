--------------------------- MODULE EvidenceFusion ---------------------------
(***************************************************************************)
(* retrieval/fusion.py: the ranked lists of a sealed batch become ordered  *)
(* evidence groups.  A catalog is a function from unit identities to       *)
(*   [parent, source, revision, kind, granularity, ordinal, top, flagged]  *)
(* (parent = NoUnit for a root), a batch is a sequence of                  *)
(*   [retriever, units]  with units in rank order,                         *)
(* and scores are integers: every contribution weight / (k + rank) is      *)
(* multiplied by ScoreScale, which the bounds make exact.                  *)
(***************************************************************************)
EXTENDS Integers, Sequences, SequencesExt, FiniteSetsExt, FiniteSets

CONSTANTS
    NoUnit,        \* no parent link, no matched leaf
    IdOrder(_, _), \* str(a) < str(b): the order of unit identities
    ScoreScale     \* one unit of score, divisible by every k + rank

\* FusionPolicy: what the constructor accepts.
PolicyIsValid(policy) ==
    /\ policy.rrf_k >= 1
    /\ \A r \in DOMAIN policy.weights : policy.weights[r] > 0
    /\ policy.max_results >= 1
    /\ policy.max_units_per_source >= 1
    /\ policy.max_units_per_section >= 1

FusionError == [status |-> "error", groups |-> <<>>]
Insufficient == [status |-> "insufficient", groups |-> <<>>]

LeastId(units) == CHOOSE u \in units : \A v \in units \ {u} : IdOrder(u, v)

\* Parent chains end: a set of units closed under parent would be a cycle.
AncestryIsValid(catalog) ==
    /\ \A u \in DOMAIN catalog : catalog[u].parent # NoUnit =>
          /\ catalog[u].parent \in DOMAIN catalog
          /\ catalog[catalog[u].parent].source = catalog[u].source
          /\ catalog[catalog[u].parent].revision = catalog[u].revision
    /\ \A S \in SUBSET DOMAIN catalog \ {{}} : \E u \in S : catalog[u].parent \notin S

Children(catalog, u) == {c \in DOMAIN catalog : catalog[c].parent = u}

_section_key(catalog, u) ==
    LET section[v \in DOMAIN catalog] ==
            IF catalog[v].kind = "section" THEN v
            ELSE IF catalog[v].parent = NoUnit THEN NoUnit ELSE section[catalog[v].parent]
    IN IF section[u] = NoUnit
       THEN <<catalog[u].source, catalog[u].revision, catalog[u].top>>
       ELSE <<catalog[u].source, catalog[u].revision, section[u]>>

\* Only matched children hand their leaf on.
SkippedAncestors(catalog, candidates) ==
    LET leaf[u \in DOMAIN catalog] ==
            LET below == {leaf[c] : c \in Children(catalog, u) \cap candidates} \ {NoUnit}
            IN IF below # {} THEN LeastId(below)
               ELSE IF u \in candidates THEN u ELSE NoUnit
    IN leaf

\* The postorder walk: every unit of the forest hands its parent the least
\* matched leaf of its subtree.
min_matched_leaf(catalog, candidates) ==
    LET leaf[u \in DOMAIN catalog] ==
            LET below == {leaf[c] : c \in Children(catalog, u)} \ {NoUnit}
            IN IF below # {} THEN LeastId(below)
               ELSE IF u \in candidates THEN u ELSE NoUnit
    IN leaf

\* Matched units with the same owner form a group, named by that owner.
_ladder_groups(catalog, candidates) ==
    LET leaf == min_matched_leaf(catalog, candidates)
        Owners == {leaf[u] : u \in candidates}
    IN [owner \in Owners |-> {u \in candidates : leaf[u] = owner}]

Contribution(policy, retriever, rank) ==
    (policy.weights[retriever] * ScoreScale) \div (policy.rrf_k + rank)

\* What each retriever of the batch adds to a unit (0: did not return it).
Contributions(batch, policy) ==
    LET Retrievers == {batch[i].retriever : i \in DOMAIN batch}
        Of(r) == batch[CHOOSE i \in DOMAIN batch : batch[i].retriever = r].units
        Matched == UNION {Range(batch[i].units) : i \in DOMAIN batch}
    IN [u \in Matched |-> [r \in Retrievers |->
            IF u \in Range(Of(r))
            THEN Contribution(policy, r, CHOOSE n \in DOMAIN Of(r) : Of(r)[n] = u)
            ELSE 0]]

Total(f) == FoldSet(LAMBDA r, n : f[r] + n, 0, DOMAIN f)

\* The finest member, then the best scored one, then the least identity.
_primary(catalog, contributions, members) ==
    LET Score(u) == Total(contributions[u])
        Before(u, v) ==
            \/ catalog[u].granularity > catalog[v].granularity
            \/ /\ catalog[u].granularity = catalog[v].granularity
               /\ \/ Score(u) > Score(v)
                  \/ Score(u) = Score(v) /\ IdOrder(u, v)
    IN CHOOSE u \in members : \A v \in members \ {u} : Before(u, v)

PriorTotal(catalog, policy, u) ==
    policy.priors[catalog[u].kind] - (IF catalog[u].flagged THEN policy.penalty ELSE 0)

\* One contribution per retriever: the best one of the whole ladder.
GroupAround(catalog, contributions, policy, members, primary) ==
    LET best == [r \in DOMAIN contributions[primary] |->
                    Max({contributions[u][r] : u \in members})]
    IN [primary |-> primary, members |-> members,
        retrievers |-> {r \in DOMAIN best : best[r] > 0},
        score |-> Total(best) + PriorTotal(catalog, policy, primary)]

FusedGroup(catalog, contributions, policy, members) ==
    GroupAround(catalog, contributions, policy, members,
                _primary(catalog, contributions, members))

Outranks(g, h) ==
    \/ g.score > h.score
    \/ /\ g.score = h.score
       /\ \/ Cardinality(g.retrievers) > Cardinality(h.retrievers)
          \/ /\ Cardinality(g.retrievers) = Cardinality(h.retrievers)
             /\ IdOrder(g.primary, h.primary)

Ordered(groups) == SetToSortSeq(groups, Outranks)

OfSource(catalog, groups, g) ==
    SelectSeq(groups, LAMBDA h : catalog[h.primary].source = catalog[g.primary].source)
OfSection(catalog, groups, g) ==
    SelectSeq(groups,
              LAMBDA h : _section_key(catalog, h.primary) = _section_key(catalog, g.primary))

\* The selection loop, with its two caps and its break.
Select(catalog, policy, ordered) ==
    LET Step(chosen, g) ==
            IF \/ Len(chosen) >= policy.max_results
               \/ Len(OfSource(catalog, chosen, g)) >= policy.max_units_per_source
               \/ Len(OfSection(catalog, chosen, g)) >= policy.max_units_per_section
            THEN chosen ELSE Append(chosen, g)
    IN FoldLeft(Step, <<>>, ordered)

\* The siblings of a root are every root of the catalog.
AnyParent(catalog, primary) ==
    {u \in DOMAIN catalog : catalog[u].parent = catalog[primary].parent}

SameParent(catalog, primary) ==
    {u \in DOMAIN catalog : /\ catalog[u].parent = catalog[primary].parent
                            /\ catalog[u].source = catalog[primary].source
                            /\ catalog[u].revision = catalog[primary].revision}

Distance(a, b) == IF a > b THEN a - b ELSE b - a

FirstOf(seq, limit) == SubSeq(seq, 1, Min({limit, Len(seq)}))

Nearest(catalog, primary, units, limit) ==
    LET Far(u) == Distance(catalog[u].ordinal, catalog[primary].ordinal)
        Nearer(u, v) ==
            \/ Far(u) < Far(v)
            \/ Far(u) = Far(v) /\ catalog[u].ordinal < catalog[v].ordinal
            \/ /\ Far(u) = Far(v)
               /\ catalog[u].ordinal = catalog[v].ordinal
               /\ IdOrder(u, v)
    IN FirstOf(SetToSortSeq(units, Nearer), limit)

\* Up to `depth` enclosing units, the nearest first.
Enclosing(catalog, u, depth) ==
    LET chain[n \in 0 .. depth] ==
            IF n = 0 THEN <<u>>
            ELSE LET last == chain[n - 1][Len(chain[n - 1])]
                 IN IF catalog[last].parent = NoUnit THEN chain[n - 1]
                    ELSE Append(chain[n - 1], catalog[last].parent)
    IN Tail(chain[depth])

Related(units, relation) ==
    [n \in 1 .. Len(units) |-> [unit |-> units[n], relation |-> relation]]

\* Siblings first, then the window around the primary from what is left.
Around(catalog, policy, g, parents) ==
    LET unseen == SameParent(catalog, g.primary) \ (g.members \cup Range(parents))
        siblings == IF catalog[g.primary].parent = NoUnit THEN <<>>
                    ELSE Nearest(catalog, g.primary, unseen, policy.max_siblings)
        window == Nearest(catalog, g.primary, unseen \ Range(siblings), policy.max_window)
    IN Related(parents, "parent") \o Related(siblings, "sibling") \o Related(window, "window")

_attachments(catalog, policy, g) ==
    LET parents == SelectSeq(Enclosing(catalog, g.primary, policy.max_parents),
                             LAMBDA u : u \notin g.members)
    IN Range(FirstOf(Around(catalog, policy, g, parents), policy.max_attachments))

WeightsAreKnown(batch, manifests, policy) ==
    /\ DOMAIN policy.weights \subseteq manifests
    /\ \A i \in DOMAIN batch : batch[i].retriever \in DOMAIN policy.weights

GroupsOf(catalog, contributions, policy, ladder) ==
    {FusedGroup(catalog, contributions, policy, ladder[o]) : o \in DOMAIN ladder}

AllGroups(batch, catalog, policy) ==
    LET contributions == Contributions(batch, policy)
    IN GroupsOf(catalog, contributions, policy, _ladder_groups(catalog, DOMAIN contributions))

\* The groups that were chosen, each with its attached context.
Expanded(catalog, policy, chosen) ==
    IF chosen = <<>> THEN Insufficient
    ELSE [status |-> "ready",
          groups |-> [n \in DOMAIN chosen |->
                         [primary |-> chosen[n].primary, score |-> chosen[n].score,
                          members |-> chosen[n].members, retrievers |-> chosen[n].retrievers,
                          attachments |-> _attachments(catalog, policy, chosen[n])]]]

fuse_candidates(batch, manifests, catalog, policy) ==
    LET Matched == UNION {Range(batch[i].units) : i \in DOMAIN batch}
    IN IF \/ ~AncestryIsValid(catalog)
          \/ ~WeightsAreKnown(batch, manifests, policy)
          \/ ~(Matched \subseteq DOMAIN catalog)
       THEN FusionError
       ELSE IF Matched = {} THEN Insufficient
       ELSE Expanded(catalog, policy,
                     Select(catalog, policy, Ordered(AllGroups(batch, catalog, policy))))

-----------------------------------------------------------------------------
(* Reference definitions. *)

\* u lies at or below v.
IsBelow(catalog, u, v) ==
    LET below[n \in 0 .. Cardinality(DOMAIN catalog)] ==
            IF n = 0 THEN {v}
            ELSE below[n - 1] \cup UNION {Children(catalog, w) : w \in below[n - 1]}
    IN u \in below[Cardinality(DOMAIN catalog)]

MatchedLeaves(catalog, candidates) ==
    {u \in candidates : \A v \in candidates \ {u} : ~IsBelow(catalog, v, u)}
=============================================================================

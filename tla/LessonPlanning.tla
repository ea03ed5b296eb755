--------------------------- MODULE LessonPlanning ---------------------------
(***************************************************************************)
(* FlashcardLessonPlanner: how the paragraphs of a lesson are packed into  *)
(* the pages (bundles) a generation worker gets.  A lesson unit is its     *)
(* topics in preorder, each with its parent's position and the eligibility *)
(* the host declared, and its paragraphs in topic order with their visible *)
(* sizes.  The planner is a pure function; it is written with folds, and   *)
(* what it promises is stated over the finished plan.                      *)
(***************************************************************************)
EXTENDS Naturals, Sequences, FiniteSets, SequencesExt

CONSTANTS Target,     \* DEFAULT_BUNDLE_VISIBLE_CHARACTER_TARGET
          MaxSlots    \* MAX_PLANNED_EVIDENCE_SLOTS

ASSUME PlanningAssumption == Target \in Nat \ {0} /\ MaxSlots \in Nat \ {0}

Undeclared == "undeclared"

\* PlanningEligibility, and what a topic may declare of it.
Eligibility == {"eligible", "context_only", "excluded"}

\* LessonTopic: parent 0 is a root topic.
Topic(parent, declared) == [parent |-> parent, declared |-> declared]

\* LessonParagraph: its key is its position in the unit.
Paragraph(topic, size) == [topic |-> topic, size |-> size]

\* LessonGenerationUnit: the paragraphs of each topic are given by their sizes.
Unit(parents, declared, sizes) ==
    [topics |-> [k \in DOMAIN parents |-> Topic(parents[k], declared[k])],
     paragraphs |-> FlattenSeq([k \in DOMAIN parents |->
                       [i \in DOMAIN sizes[k] |-> Paragraph(k, sizes[k][i])]])]

\* The keys of the topics above topic k (a parent comes before its children).
Ancestors(topics) ==
    LET above[k \in 0..Len(topics)] ==
          IF k = 0 \/ topics[k].parent \in {0} \union k..Len(topics) THEN {}
          ELSE {topics[k].parent} \union above[topics[k].parent]
    IN  above

\* _validate_lesson_structure: parents precede their children and a closed
\* subtree is never entered again; paragraphs follow the order of their topics.
_validate_lesson_structure(unit) ==
    LET topics == unit.topics
        paragraphs == unit.paragraphs
        above == Ancestors(topics)
    IN  /\ \A k \in DOMAIN topics :
              /\ topics[k].parent < k
              /\ topics[k].parent # 0 =>
                    topics[k].parent \in {k - 1} \union above[k - 1]
        /\ \A i \in DOMAIN paragraphs : paragraphs[i].topic \in DOMAIN topics
        /\ \A i, j \in DOMAIN paragraphs :
              i < j => paragraphs[i].topic <= paragraphs[j].topic

\* DefaultStructuralFlashcardPlanningPolicy.classify: what the host declared,
\* else a topic is eligible exactly when it owns paragraphs.
classify(unit) ==
    [k \in DOMAIN unit.topics |->
        IF unit.topics[k].declared # Undeclared THEN unit.topics[k].declared
        ELSE IF \E i \in DOMAIN unit.paragraphs : unit.paragraphs[i].topic = k
             THEN "eligible" ELSE "context_only"]

-----------------------------------------------------------------------------
Size(block) == FoldLeft(LAMBDA n, p : n + p.size, 0, block)

Fits(block) == Size(block) <= Target /\ Len(block) <= MaxSlots

\* The planner at work: the bundles it has issued and the paragraphs it holds.
Packing(bundles, pending) == [bundles |-> bundles, pending |-> pending]

\* PlannedFlashcardBundle; a paragraph is a slot of its own (_slot).
Bundle(kind, slots) == [kind |-> kind, slots |-> slots]

\* flush: issue what is pending as one bundle.
flush(pack, split) ==
    LET oversized == Len(pack.pending) = 1 /\ Size(pack.pending) > Target
        kind == IF oversized THEN "oversized_paragraph"
                ELSE IF split THEN "paragraph_split" ELSE "topic_group"
    IN  IF pack.pending = <<>> THEN pack
        ELSE Packing(Append(pack.bundles, Bundle(kind, pack.pending)), <<>>)

\* A block that fits a bundle joins what is pending, or the next bundle.
Join(pack, block, split) ==
    LET room == IF pack.pending = <<>> \/ Fits(pack.pending \o block)
                THEN pack ELSE flush(pack, split)
    IN  Packing(room.bundles, room.pending \o block)

\* A paragraph of a topic that does not fit one bundle.
JoinParagraph(pack, p) ==
    IF p.size > Target
    THEN flush(Packing(flush(pack, TRUE).bundles, <<p>>), TRUE)
    ELSE Join(pack, <<p>>, TRUE)

\* A topic of a subtree that does not fit one bundle.
JoinTopic(pack, block) ==
    IF Fits(block) THEN Join(pack, block, TRUE) ELSE FoldLeft(JoinParagraph, pack, block)

\* The paragraphs of one topic each, in the order of the topics.
Blocks(topics, group) ==
    SelectSeq([k \in DOMAIN topics |-> SelectSeq(group, LAMBDA p : p.topic = k)],
              LAMBDA block : block # <<>>)

\* Fault: a subtree that does not fit is split without issuing what is pending.
JoinGroupUnflushed(topics, pack, group) ==
    IF Fits(group) THEN Join(pack, group, FALSE)
    ELSE flush(FoldLeft(JoinTopic, pack, Blocks(topics, group)), TRUE)

\* One maximal eligible subtree.
JoinGroup(topics, pack, group) ==
    IF Fits(group) THEN Join(pack, group, FALSE)
    ELSE flush(FoldLeft(JoinTopic, flush(pack, FALSE), Blocks(topics, group)), TRUE)

\* Paragraphs with their keys, in order.
Keyed(unit) == [i \in DOMAIN unit.paragraphs |->
                   [key |-> i, topic |-> unit.paragraphs[i].topic, size |-> unit.paragraphs[i].size]]

Active(unit) ==
    LET class == classify(unit) IN SelectSeq(Keyed(unit), LAMBDA p : class[p.topic] = "eligible")

\* The eligible subtrees nobody above is eligible for, in preorder; a root that
\* owns nothing, not even below it, is an empty group.
Groups(unit) ==
    LET class == classify(unit)
        eligible == {k \in DOMAIN unit.topics : class[k] = "eligible"}
        above == Ancestors(unit.topics)
        roots == SetToSortSeq({k \in eligible : above[k] \intersect eligible = {}}, <)
        active == Active(unit)
    IN  [n \in DOMAIN roots |->
            SelectSeq(active, LAMBDA p : p.topic = roots[n] \/ roots[n] \in above[p.topic])]

\* _build_bundles, which plan issues and _validate_complete_plan derives again.
_build_bundles(unit) ==
    LET join(pack, group) == JoinGroup(unit.topics, pack, group)
    IN  flush(FoldLeft(join, Packing(<<>>, <<>>), Groups(unit)), FALSE).bundles

-----------------------------------------------------------------------------
(* What a plan is checked against when it is issued or read back.          *)

\* PlannedFlashcardBundle.__post_init__: 1..MaxSlots slots, and only a bundle of
\* one oversized paragraph says so.
ValidBundle(b) ==
    /\ Len(b.slots) \in 1..MaxSlots
    /\ b.kind = "oversized_paragraph" => Len(b.slots) = 1 /\ Size(b.slots) > Target

\* _validate_policy_result: a policy may not override what the host declared.
_validate_policy_result(unit, class) ==
    \A k \in DOMAIN unit.topics : unit.topics[k].declared \in {Undeclared, class[k]}

\* _validate_complete_plan: every eligible paragraph is on exactly one page, in
\* the lesson's order.
_validate_complete_plan(unit, plan) ==
    FlattenSeq([n \in DOMAIN plan |-> plan[n].slots]) = Active(unit)

\* FlashcardLessonPlan.issue: the planner's own result passes the same checks.
issue(unit) ==
    LET plan == _build_bundles(unit)
    IN  /\ _validate_policy_result(unit, classify(unit))
        /\ \A b \in ToSet(plan) : ValidBundle(b)
        /\ _validate_complete_plan(unit, plan)

-----------------------------------------------------------------------------
(* What a plan promises.                                                    *)

\* The planner never refuses a lesson it was given, and a page is larger than
\* the target only if it is one paragraph.
SoundPlan(unit) ==
    /\ issue(unit)
    /\ \A b \in ToSet(_build_bundles(unit)) : Size(b.slots) > Target => b.kind = "oversized_paragraph"

\* A subtree that fits one page is on one page, and no two neighbouring pages
\* of whole subtrees could have been one.
TightPlan(unit) ==
    LET plan == _build_bundles(unit)
    IN  /\ \A group \in ToSet(Groups(unit)) :
              group # <<>> /\ Fits(group) =>
                 \E b \in ToSet(plan) :
                    b.kind = "topic_group" /\ ToSet(group) \subseteq ToSet(b.slots)
        /\ \A n \in 1..(Len(plan) - 1) :
              plan[n].kind = "topic_group" /\ plan[n + 1].kind = "topic_group" =>
                 ~Fits(plan[n].slots \o plan[n + 1].slots)
=============================================================================

-------------------------- MODULE LifecyclePlanning --------------------------
(***************************************************************************)
(* The pure planner of the repository lifecycle (lifecycle/planner.py and  *)
(* the value objects of lifecycle/contracts.py): from the manifest, the    *)
(* captured source files and one observation of the repository it computes *)
(* the ordered actions that bring the repository to the manifest.          *)
(*                                                                         *)
(* A fingerprint is the value it identifies: the configuration, the course *)
(* profile or the source text.  An action's ordinal is its place in the    *)
(* plan.                                                                   *)
(***************************************************************************)
EXTENDS Integers, Sequences, SequencesExt, FiniteSets

CONSTANTS
    CourseOrder,      \* every course identifier, in sorted order
    SourceOrder,      \* every source identifier, in sorted order
    Manifest,         \* the desired courses, each with its set of desired sources
    ManifestConfig,   \* the configuration the manifest asks for
    Texts,            \* what a source file may hold
    None

\* The manifest names known courses and sources, each once and in sorted order.
ManifestIsSorted ==
    /\ IsInjective(CourseOrder) /\ IsInjective(SourceOrder)
    /\ DOMAIN Manifest \subseteq ToSet(CourseOrder)
    /\ \A c \in DOMAIN Manifest : Manifest[c] \subseteq ToSet(SourceOrder)
    /\ None \notin Texts

ASSUME ManifestAssumption == ManifestIsSorted

Courses == ToSet(CourseOrder)
Sources == ToSet(SourceOrder)
Desired == {d \in Courses \X Sources : d[1] \in DOMAIN Manifest /\ d[2] \in Manifest[d[1]]}
DesiredProfile == "desired"

\* RepositoryObservation: courses that exist, each with its stream position, its
\* profile and the current revision of its sources, and the state of the index.
Absent == [state |-> "absent", courses |-> <<>>, index |-> None]
Conflicting == [state |-> "conflict", courses |-> <<>>, index |-> None]
Compatible(courses, index) == [state |-> "compatible", courses |-> courses, index |-> index]

LifecycleActionV1(kind, owner, c, s, expected, want) ==
    [kind |-> kind, owner |-> owner, course |-> c, source |-> s,
     expected |-> expected, want |-> want]

RepositoryAction(kind) ==
    LifecycleActionV1(kind, "repository", None, None, None, ManifestConfig)

\* Course ownership is decided before any source action.
CourseAction(c, observed) ==
    LET current == observed.courses[c]
        act(kind, expected, want) == LifecycleActionV1(kind, "course", c, None, expected, want)
    IN CASE c \notin DOMAIN Manifest -> act("warning", current.hw, None)
         [] c \in DOMAIN Manifest /\ c \notin DOMAIN observed.courses ->
                act("create_course", 0, DesiredProfile)
         [] OTHER -> act(IF current.profile = DesiredProfile THEN "noop" ELSE "conflict",
                         current.hw, DesiredProfile)

CourseActions(observed) ==
    LET known(c) == c \in DOMAIN Manifest \cup DOMAIN observed.courses
        listed == SelectSeq(CourseOrder, known)
    IN [i \in DOMAIN listed |-> CourseAction(listed[i], observed)]

blocked_courses(observed) ==
    {c \in DOMAIN Manifest \cap DOMAIN observed.courses :
        observed.courses[c].profile # DesiredProfile}

\* Every planned revision moves the stream position the next action expects.
SourceActions(c, snapshots, observed) ==
    LET current == IF c \in DOMAIN observed.courses THEN observed.courses[c].sources ELSE <<>>
        known(s) == s \in Manifest[c] \cup DOMAIN current
        start == IF c \in DOMAIN observed.courses THEN observed.courses[c].hw ELSE 1
        kind(s) == CASE s \notin Manifest[c] -> "warning"
                     [] s \in Manifest[c] \cap DOMAIN current
                            /\ current[s] = snapshots[<<c, s>>] -> "noop"
                     [] OTHER -> "ingest_revision"
        add(acc, s) ==
            [hw |-> IF kind(s) = "ingest_revision" THEN acc.hw + 1 ELSE acc.hw,
             actions |-> Append(acc.actions,
                 LifecycleActionV1(kind(s), "source", c, s, acc.hw,
                     IF kind(s) = "warning" THEN None ELSE snapshots[<<c, s>>]))]
    IN FoldLeft(add, [hw |-> start, actions |-> <<>>], SelectSeq(SourceOrder, known)).actions

AllSourceActions(snapshots, observed) ==
    LET open(c) == c \in DOMAIN Manifest \ blocked_courses(observed)
        add(actions, c) == actions \o SourceActions(c, snapshots, observed)
    IN FoldLeft(add, <<>>, SelectSeq(CourseOrder, open))

\* Index work is discardable and therefore comes after all canonical work.
IndexActions(canonical, observed) ==
    LET changed == \E i \in DOMAIN canonical :
                        canonical[i].kind \in {"create_course", "ingest_revision"}
        kind == IF ~changed /\ observed.index = "healthy" THEN "noop" ELSE "rebuild_index"
    IN IF blocked_courses(observed) # {} THEN <<>>
       ELSE <<LifecycleActionV1(kind, "index", None, None, None, None)>>

plan_lifecycle(snapshots, observed) ==
    CASE observed.state = "absent" -> <<RepositoryAction("initialize")>>
      [] observed.state = "conflict" -> <<RepositoryAction("conflict")>>
      [] OTHER ->
            LET canonical == CourseActions(observed) \o AllSourceActions(snapshots, observed)
            IN <<RepositoryAction("noop")>> \o canonical \o IndexActions(canonical, observed)

\* LifecyclePlanV1 also carries the checksums and the observed stream positions,
\* so two plans are equal only when those agree as well.
LifecyclePlanV1(snapshots, observed) ==
    [snapshots |-> snapshots,
     hw |-> [c \in DOMAIN observed.courses |-> observed.courses[c].hw],
     actions |-> plan_lifecycle(snapshots, observed)]

Kinds(actions) == {actions[i].kind : i \in DOMAIN actions}
Conflicts(actions) == SelectSeq([i \in DOMAIN actions |-> i], LAMBDA i : actions[i].kind = "conflict")

status_for_plan(actions) ==
    LET kinds == Kinds(actions)
    IN CASE "conflict" \in kinds -> "canonical_conflict"
         [] "conflict" \notin kinds /\ kinds \cap {"initialize", "create_course"} # {} ->
                "canonical_drift"
         [] kinds \cap {"conflict", "initialize", "create_course"} = {}
                /\ "ingest_revision" \in kinds -> "source_drift"
         [] kinds \cap {"conflict", "initialize", "create_course", "ingest_revision"} = {}
                /\ "rebuild_index" \in kinds -> "operational_degradation"
         [] OTHER -> "converged"

MutableKinds == {"initialize", "create_course", "ingest_revision", "rebuild_index"}
mutable_actions(actions) ==
    SelectSeq([i \in DOMAIN actions |-> i], LAMBDA i : actions[i].kind \in MutableKinds)
passive_noops(actions) ==
    SelectSeq([i \in DOMAIN actions |-> i], LAMBDA i : actions[i].kind \in {"noop", "warning"})

\* The action of another plan for the same owner.
OwnedActions(actions, expected) ==
    {i \in DOMAIN actions : /\ actions[i].owner = expected.owner
                            /\ actions[i].course = expected.course
                            /\ actions[i].source = expected.source}

still_applicable(expected, current) ==
    \/ /\ current.kind = "noop"
       /\ current.want = expected.want \/ expected.kind = "rebuild_index"
    \/ /\ current.kind = expected.kind
       /\ \/ expected.kind = "rebuild_index"
          \/ current.want = expected.want /\ current.expected = expected.expected

-----------------------------------------------------------------------------
\* Receipts.  A receipt that breaks a rule of LifecycleApplyReceiptV1 cannot be
\* built: the constructor raises and the apply ends with that error instead.

Ordered(category) == \A i, j \in DOMAIN category : i < j => category[i] < category[j]

LifecycleApplyReceiptV1(status, completed, noops, degraded, remaining, conflicts) ==
    [status |-> status, completed |-> completed, noops |-> noops, degraded |-> degraded,
     remaining |-> remaining, conflicts |-> conflicts]

ReceiptCategories(r) == <<r.completed, r.noops, r.degraded, r.remaining, r.conflicts>>

ReceiptIsValid(r) ==
    LET categories == ReceiptCategories(r)
        outstanding == Len(r.remaining) + Len(r.conflicts)
    IN /\ \A k \in DOMAIN categories : Ordered(categories[k])
       /\ \A k, l \in DOMAIN categories :
              k # l => ToSet(categories[k]) \cap ToSet(categories[l]) = {}
       /\ CASE r.status = "converged" ->
                   outstanding = 0 /\ r.completed = <<>> /\ r.degraded = <<>>
            [] r.status = "applied" ->
                   outstanding = 0 /\ r.completed # <<>> /\ r.degraded = <<>>
            [] r.status = "applied_degraded" -> r.degraded # <<>> /\ r.conflicts = <<>>
            [] r.status = "conflict" -> outstanding > 0 /\ r.degraded = <<>>

-----------------------------------------------------------------------------
\* What carrying out one action does to an observation, for the property below.
Performed(action, observed) ==
    CASE action.kind = "create_course" ->
            [observed EXCEPT !.courses =
                [c \in DOMAIN @ \cup {action.course} |->
                    IF c = action.course
                    THEN [hw |-> 1, profile |-> DesiredProfile, sources |-> <<>>] ELSE @[c]],
                !.index = "stale"]
      [] action.kind = "ingest_revision" ->
            [observed EXCEPT !.courses[action.course] =
                [@ EXCEPT !.hw = @ + 1,
                          !.sources = [s \in DOMAIN @ \cup {action.source} |->
                              IF s = action.source THEN action.want ELSE @[s]]],
                !.index = "stale"]
      [] action.kind = "rebuild_index" -> [observed EXCEPT !.index = "healthy"]
      [] OTHER -> observed

\* The stream position an action is conditional on is the one it finds.
Conditional(action, observed) ==
    action.kind \in {"create_course", "ingest_revision"} =>
        action.expected = IF action.course \in DOMAIN observed.courses
                          THEN observed.courses[action.course].hw ELSE 0

\* Carrying out a conflict-free plan alone, action by action, finds every stream
\* at the position the action is conditional on and ends in an observation whose
\* own plan has nothing left to do; a plan with a conflict says so and plans
\* nothing for a blocked course or for the index.
PlanConverges(snapshots, observed) ==
    LET actions == plan_lifecycle(snapshots, observed)
        after == [k \in 0 .. Len(actions) |->
                     FoldLeft(LAMBDA o, a : Performed(a, o), observed, SubSeq(actions, 1, k))]
    IN IF "conflict" \in Kinds(actions)
       THEN /\ status_for_plan(actions) = "canonical_conflict"
            /\ \A i \in DOMAIN actions : /\ actions[i].kind # "rebuild_index"
                                         /\ actions[i].owner = "source" =>
                                            actions[i].course \notin blocked_courses(observed)
       ELSE /\ \A k \in 1 .. Len(actions) : Conditional(actions[k], after[k - 1])
            /\ status_for_plan(plan_lifecycle(snapshots, after[Len(actions)])) = "converged"
            /\ (status_for_plan(actions) = "converged") =
                   (\A k \in 1 .. Len(actions) : after[k] = observed)
=============================================================================

--------------------------- MODULE MCStudyRecords ---------------------------
(* A course with two sessions, one verified run of a parent and a child    *)
(* card, one free-response and one multiple-choice item.                   *)
EXTENDS StudyRecords

Content(label, kind, parent, format) ==
    [label |-> label, kind |-> kind, parent |-> parent, format |-> format,
     options |-> IF format = "multiple_choice" THEN {"a", "b"} ELSE {},
     expected |-> IF format = "multiple_choice" THEN {"a", "b"} ELSE {}, criteria |-> 1]

Card(label) == Content(label, "flashcard", None, "none")

MCInteractionOf == [i \in {"i1", "i2"} |-> [session |-> IF i = "i1" THEN "s1" ELSE "s2",
                                            kind |-> "human"]]
MCCandidatesOf ==
    [r \in {"r1", "r2"} |->
        IF r = "r1"
        THEN <<[key |-> "p", content |-> Card("parent"), parent_key |-> None,
                cites |-> {"chunk"}, media |-> FALSE],
               [key |-> "q", content |-> Card("child"), parent_key |-> "p",
                cites |-> {"chunk"}, media |-> FALSE]>>
        ELSE <<[key |-> "p", content |-> Card("stray"), parent_key |-> None,
                cites |-> {"elsewhere"}, media |-> FALSE]>>]
MCOwnerSession == [r \in {"r1", "r2"} |-> "s1"]
MCDraftOf == [g \in {"g1", "g2"} |->
                 <<[status |-> IF g = "g1" THEN "met" ELSE "uncertain",
                    handles |-> IF g = "g1" THEN {"chunk"} ELSE {}, insufficient |-> g = "g2"]>>]
MCHumanContents == {Card("edit"), Content("nested", "flashcard", 0, "none")}
MCResponses == {{}, {"a"}}
MCStatements == {[kind |-> "deadline", value |-> v] : v \in {1, 2}}
At1(session, key) == [session |-> session, key |-> key]

\* A command of session s1 applied to the course: what it builds, reduced.
After(P, drafts) == Reduce(P, CHOOSE e \in drafts : TRUE)
Cmd(key, args) == [ctx |-> At1("s1", key), fingerprint |-> key] @@ args
Revise(P, key, content, target, prior) ==
    record_human_revision(P.study_artifacts,
        Cmd(key, [interaction |-> "i1", proposal |->
            [content |-> content, cites |-> {}, target |-> target, prior |-> prior]]))

\* An item the learner wrote and accepted, and a second revision not decided;
\* then the first revision presented and answered.
Item(format) == Content("item", "assessment_item", None, format)
Written(format) ==
    LET P1  == After(EmptyCourse, Revise(EmptyCourse, "h1", Item(format), None, None))
        rev == CHOOSE r \in DOMAIN P1.study_artifacts.revisions : TRUE
        P2  == After(P1, _record_decision(P1.study_artifacts, Cmd("h1", [revision |-> rev]),
                                          "accept", None, None))
    IN After(P2, Revise(P2, "h2", [Item(format) EXCEPT !.label = "item2"],
                        P1.study_artifacts.revisions[rev].artifact_id, rev))
Answered(format, response) ==
    LET P1  == Written(format)
        rev == CHOOSE r \in DOMAIN P1.study_artifacts.revisions :
                  P1.study_artifacts.revisions[r].status = "accepted"
        P2  == After(P1, present_item(P1.study_artifacts, Cmd("h1", [revision |-> rev])))
        p   == CHOOSE x \in DOMAIN P2.assessments.presentations : TRUE
    IN After(P2, record_attempt(P2.assessments, Cmd("h1", [presentation |-> p,
                                                           response |-> response])))

TwoKeys == {At1("s1", "k1"), At1("s1", "k2")}
TwoSessions == {At1("s1", "k1"), At1("s2", "k1")}
MCStarts ==
    {[ops |-> {"record_generated", "record_human_revision"}, contexts |-> TwoKeys,
      course |-> EmptyCourse],
     [ops |-> {"record_human_decision", "apply_service_decision"}, contexts |-> TwoKeys,
      course |-> Written("multiple_choice")],
     [ops |-> {"record_human_revision", "record_human_decision"}, contexts |-> {At1("s1", "k1")},
      course |-> Written("free_response")],
     [ops |-> ContextOps, contexts |-> TwoSessions, course |-> EmptyCourse],
     [ops |-> {"present_item", "record_human_decision"}, contexts |-> TwoKeys,
      course |-> Written("multiple_choice")],
     [ops |-> {"present_item", "record_attempt"}, contexts |-> TwoKeys,
      course |-> Written("multiple_choice")],
     [ops |-> {"record_verified_grade", "contest_grade"}, contexts |-> TwoKeys,
      course |-> Answered("free_response", {})],
     [ops |-> {"grade_closed", "contest_grade"}, contexts |-> TwoKeys,
      course |-> Answered("multiple_choice", {"a"})]}

\* The answer a caller got is read by no later step.
MCView == <<course, owners, [c \in Clients |-> [client[c] EXCEPT !.out = "none"]], offered>>
Symmetry == Permutations(Clients)
=============================================================================

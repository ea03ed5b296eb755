-------------------------- MODULE StudyAssessments --------------------------
(***************************************************************************)
(* Assessments of one course: an accepted item is presented, the learner   *)
(* attempts it, a policy or a verified run grades the attempt, the learner *)
(* may contest the grade.  Pure operators: the events AssessmentService    *)
(* may append on a snapshot, the reducers, the two ways a grade is         *)
(* computed, and the learner evidence derived from the grades.             *)
(*                                                                         *)
(* A rubric is the number of its criteria; fingerprints of the immutable   *)
(* content and response are the content and the response themselves.       *)
(***************************************************************************)
EXTENDS StudyArtifacts

CONSTANTS GradeRuns,      \* completed grade_response runs with an owner
          DraftOf         \* DraftOf[g]: criteria drafted by the model in run g

PresentationRecord(session, revision, content) ==
    [session |-> session, revision |-> revision, content |-> content]

AttemptRecord(session, presentation, response) ==
    [session |-> session, presentation |-> presentation, response |-> response]

GradeRecord(session, attempt, result, supersedes, sequence) ==
    [session |-> session, attempt |-> attempt, result |-> result, lifecycle |-> "active",
     supersedes |-> supersedes, sequence |-> sequence]

GradeContestRecord(grade, sequence) == [grade |-> grade, sequence |-> sequence]

NoAssessments == [presentations |-> <<>>, attempts |-> <<>>, grades |-> <<>>,
                  contests |-> <<>>, commands |-> <<>>]

assessment_event_id_for(ctx, op) == <<ctx.session, ctx.key, op>>
presentation_id_for(ctx, revision) == <<"presentation", ctx.session, ctx.key, revision>>
attempt_id_for(ctx, presentation) == <<"attempt", ctx.session, ctx.key, presentation>>
grade_id_for(ctx, attempt) == <<"grade", ctx.session, ctx.key, attempt>>

MetCriteria(draft) == Cardinality({i \in DOMAIN draft : draft[i].status = "met"})

-----------------------------------------------------------------------------
(* Grading.                                                                *)

\* ExactClosedGradingPolicy.grade: exact, a proper subset, or wrong.
ExactClosed(content, response) ==
    LET expected == content.expected
        overlap  == response \cap expected
    IN IF response = expected
       THEN [status |-> "met", numerator |-> 1, denominator |-> 1]
       ELSE IF content.format = "single_choice"
       THEN [status |-> "not_met", numerator |-> 0, denominator |-> 1]
       ELSE IF overlap # {} /\ response \subseteq expected
       THEN [status |-> "uncertain", numerator |-> Cardinality(overlap),
             denominator |-> Cardinality(expected)]
       ELSE [status |-> "not_met", numerator |-> 0, denominator |-> Cardinality(expected)]

ClosedGrade(content, response) ==
    LET result == ExactClosed(content, response)
    IN [status |-> "graded", criteria |-> [i \in 1 .. content.criteria |-> result.status],
        numerator |-> result.numerator, denominator |-> result.denominator, run |-> None]

\* _draft: insufficiency means uncertain and no handles, anything else needs
\* evidence of the prepared scope.
ValidDraft(draft, rubric, evidence) ==
    /\ Len(draft) = rubric
    /\ \A i \in DOMAIN draft :
          /\ draft[i].handles \subseteq evidence
          /\ draft[i].insufficient = (draft[i].handles = {})
          /\ draft[i].insufficient => draft[i].status = "uncertain"

\* _final_grade, which _outcome derives again on recovery.
_final_grade(draft, run) ==
    [status |-> IF \A i \in DOMAIN draft : draft[i].insufficient THEN "ungradable"
                ELSE IF \E i \in DOMAIN draft : draft[i].status = "uncertain"
                THEN "needs_review" ELSE "graded",
     criteria |-> [i \in DOMAIN draft |-> draft[i].status],
     numerator |-> MetCriteria(draft),
     denominator |-> Len(draft), run |-> run]

\* VerifiedGradeOwnerWriter.publish: the owner of a run commits the attempt,
\* presentation, revision, content, response and rubric it was prepared for.
OwnerReceipt(G, run, attempt) ==
    LET a == G.attempts[attempt]
        p == G.presentations[a.presentation]
    IN [run |-> run, session |-> a.session, attempt |-> attempt,
        presentation |-> a.presentation, revision |-> p.revision, content |-> p.content,
        response |-> a.response]

\* GradeResponseIntegrityValidator lets the run complete only on a valid draft.
Gradable(G, run, attempt) ==
    LET p == G.presentations[G.attempts[attempt].presentation]
    IN /\ p.content.format = "free_response"
       /\ ValidDraft(DraftOf[run], p.content.criteria, Chunks)

\* VerifiedGradeAdapter.recover: the run's owner, in the session it binds.
recover_grade(owners, run, ctx) ==
    {[session |-> o.session, attempt |-> o.attempt, presentation |-> o.presentation,
      revision |-> o.revision, content |-> o.content, response |-> o.response,
      grade |-> _final_grade(DraftOf[run], run)] :
        o \in {x \in owners : x.run = run /\ x.session = ctx.session}}

-----------------------------------------------------------------------------
(* AssessmentService.                                                      *)

AssessmentEvent(cmd, op, actor, payload) ==
    [op |-> op, id |-> assessment_event_id_for(cmd.ctx, op), ctx |-> cmd.ctx,
     actor |-> actor, payload |-> payload, fingerprint |-> cmd.fingerprint]

present_item(A, cmd) ==
    {AssessmentEvent(cmd, "present", "service",
                     [presentation |-> presentation_id_for(cmd.ctx, r), revision |-> r,
                      content |-> A.revisions[r].content]) :
       r \in {x \in DOMAIN A.revisions \cap {cmd.revision} :
                /\ A.revisions[x].status = "accepted"
                /\ A.revisions[x].content.kind = "assessment_item"
                /\ A.batches[A.revisions[x].batch_id].session = cmd.ctx.session}}

record_attempt(G, cmd) ==
    {AssessmentEvent(cmd, "attempt", "human",
                     [attempt |-> attempt_id_for(cmd.ctx, p), presentation |-> p,
                      response |-> cmd.response]) :
       p \in {x \in DOMAIN G.presentations \cap {cmd.presentation} :
                /\ G.presentations[x].session = cmd.ctx.session
                /\ \A t \in DOMAIN G.attempts : G.attempts[t].presentation # x}}

\* The grades of an attempt that no later grade superseded.
ActiveGrades(G, attempt) ==
    {g \in DOMAIN G.grades : G.grades[g].attempt = attempt /\ G.grades[g].lifecycle = "active"}

\* The grade of an initial attempt names nothing, a later one the active grade.
NamesPredecessor(G, attempt, supersedes) ==
    ActiveGrades(G, attempt) = IF supersedes = None THEN {} ELSE {supersedes}

GradeEvent(cmd, attempt, grade) ==
    AssessmentEvent(cmd, "grade", "service",
                    [grade |-> grade_id_for(cmd.ctx, attempt), attempt |-> attempt,
                     result |-> grade, supersedes |-> cmd.supersedes])

grade_closed(G, cmd) ==
    {GradeEvent(cmd, t, ClosedGrade(G.presentations[G.attempts[t].presentation].content,
                                    G.attempts[t].response)) :
       t \in {x \in DOMAIN G.attempts \cap {cmd.attempt} :
                /\ G.attempts[x].session = cmd.ctx.session
                /\ G.presentations[G.attempts[x].presentation].content.format # "free_response"
                /\ NamesPredecessor(G, x, cmd.supersedes)}}

\* A verified regrade also requires a contest of the grade it supersedes, and
\* a run grades once.
record_verified_grade(G, owners, cmd) ==
    {GradeEvent(cmd, o.attempt, o.grade) :
       o \in {x \in recover_grade(owners, cmd.run, cmd.ctx) :
                /\ x.attempt \in DOMAIN G.attempts
                /\ LET t == G.attempts[x.attempt]
                       p == G.presentations[t.presentation]
                   IN /\ t.presentation = x.presentation /\ t.response = x.response
                      /\ p.revision = x.revision /\ p.content = x.content
                      /\ p.content.format = "free_response"
                      /\ Len(x.grade.criteria) = p.content.criteria
                /\ \A g \in DOMAIN G.grades : G.grades[g].result.run # cmd.run
                /\ NamesPredecessor(G, x.attempt, cmd.supersedes)
                /\ cmd.supersedes # None =>
                      \E i \in DOMAIN G.contests : G.contests[i].grade = cmd.supersedes}}

\* Any grade of the session may be contested once, superseded ones included.
contest_grade(G, cmd) ==
    {AssessmentEvent(cmd, "contest", "human", [grade |-> g]) :
       g \in {x \in DOMAIN G.grades \cap {cmd.grade} :
                /\ G.grades[x].session = cmd.ctx.session
                /\ \A i \in DOMAIN G.contests : G.contests[i].grade # x}}

-----------------------------------------------------------------------------
(* Decoders and reducers: none of the service's uniqueness rules for       *)
(* attempts, verified runs and contests is repeated here.                  *)

\* _envelope of every assessment event.
_envelope(e) ==
    /\ e.id = assessment_event_id_for(e.ctx, e.op)
    /\ e.actor = IF e.op \in {"present", "grade"} THEN "service" ELSE "human"

\* _validate_item_encoding: the expected answer is among the options.
_validate_item_encoding(content) ==
    content.format # "free_response" => content.expected # {} /\ content.expected \subseteq content.options

\* _validate_response: the shape of the response fits the item.
_validate_response(content, response) ==
    CASE content.format = "free_response"   -> response = {}
      [] content.format = "single_choice"   -> /\ Cardinality(response) = 1
                                               /\ response \subseteq content.options
      [] content.format = "multiple_choice" -> response \subseteq content.options

CanReducePresented(A, G, e) ==
    /\ e.payload.presentation = presentation_id_for(e.ctx, e.payload.revision)
    /\ e.payload.presentation \notin DOMAIN G.presentations
    /\ e.payload.revision \in DOMAIN A.revisions
    /\ LET r == A.revisions[e.payload.revision]
       IN /\ r.status = "accepted" /\ r.content.kind = "assessment_item"
          /\ A.batches[r.batch_id].session = e.ctx.session
          /\ r.content = e.payload.content
          /\ _validate_item_encoding(r.content)

CanReduceAttempt(G, e) ==
    /\ e.payload.attempt = attempt_id_for(e.ctx, e.payload.presentation)
    /\ e.payload.attempt \notin DOMAIN G.attempts
    /\ e.payload.presentation \in DOMAIN G.presentations
    /\ G.presentations[e.payload.presentation].session = e.ctx.session
    /\ _validate_response(G.presentations[e.payload.presentation].content, e.payload.response)

CanReduceGrade(G, e) ==
    /\ e.payload.grade = grade_id_for(e.ctx, e.payload.attempt)
    /\ e.payload.grade \notin DOMAIN G.grades
    /\ e.payload.attempt \in DOMAIN G.attempts
    /\ G.attempts[e.payload.attempt].session = e.ctx.session
    /\ Len(e.payload.result.criteria) =
          G.presentations[G.attempts[e.payload.attempt].presentation].content.criteria
    /\ NamesPredecessor(G, e.payload.attempt, e.payload.supersedes)

CanReduceContest(G, e) ==
    /\ e.payload.grade \in DOMAIN G.grades
    /\ G.grades[e.payload.grade].session = e.ctx.session

CanReduceAssessment(A, G, e) ==
    /\ _envelope(e)
    /\ e.id \notin DOMAIN G.commands
    /\ CASE e.op = "present" -> CanReducePresented(A, G, e)
         [] e.op = "attempt" -> CanReduceAttempt(G, e)
         [] e.op = "grade"   -> CanReduceGrade(G, e)
         [] e.op = "contest" -> CanReduceContest(G, e)

reduce_item_presented(G, e) ==
    [G EXCEPT !.presentations =
        With(@, e.payload.presentation,
             PresentationRecord(e.ctx.session, e.payload.revision, e.payload.content))]

reduce_attempt_recorded(G, e) ==
    [G EXCEPT !.attempts =
        With(@, e.payload.attempt,
             AttemptRecord(e.ctx.session, e.payload.presentation, e.payload.response))]

\* The predecessor becomes superseded in the same reduction.
reduce_grade_recorded(G, e, sequence) ==
    LET new == GradeRecord(e.ctx.session, e.payload.attempt, e.payload.result,
                           e.payload.supersedes, sequence)
    IN [G EXCEPT !.grades =
          With([g \in DOMAIN @ |-> IF g = e.payload.supersedes
                                   THEN [@[g] EXCEPT !.lifecycle = "superseded"] ELSE @[g]],
               e.payload.grade, new)]

reduce_grade_contested(G, e, sequence) ==
    [G EXCEPT !.contests = Append(@, GradeContestRecord(e.payload.grade, sequence))]

reduce_assessment(G, e, sequence) ==
    LET next == CASE e.op = "present" -> reduce_item_presented(G, e)
                  [] e.op = "attempt" -> reduce_attempt_recorded(G, e)
                  [] e.op = "grade"   -> reduce_grade_recorded(G, e, sequence)
                  [] e.op = "contest" -> reduce_grade_contested(G, e, sequence)
    IN [next EXCEPT !.commands = With(@, e.id, e.fingerprint)]

-----------------------------------------------------------------------------
(* _validate_existing and ProjectionAssessmentView.get.                    *)

ReadableAssessments(G) ==
    /\ \A t \in DOMAIN G.attempts : G.attempts[t].presentation \in DOMAIN G.presentations
    /\ \A g \in DOMAIN G.grades : /\ G.grades[g].attempt \in DOMAIN G.attempts
                                  /\ G.grades[g].lifecycle \in {"active", "superseded"}
                                  /\ G.grades[g].result.numerator <= G.grades[g].result.denominator
    /\ \A i \in DOMAIN G.contests : G.contests[i].grade \in DOMAIN G.grades

-----------------------------------------------------------------------------
(* learner_evidence_from: per format, one reference per grade in event     *)
(* order, each followed by the reference of its contest.                   *)

IsContested(G, g) == \E i \in DOMAIN G.contests : G.contests[i].grade = g

\* A grade counts while it is active and nobody contested it.
Effective(G, g) == G.grades[g].lifecycle = "active" /\ ~IsContested(G, g)

GradeReference(G, g) ==
    [sequence |-> G.grades[g].sequence,
     numerator |-> IF Effective(G, g) THEN G.grades[g].result.numerator ELSE 0,
     denominator |-> IF Effective(G, g) THEN G.grades[g].result.denominator ELSE 0]

ContestReferences(G, g) ==
    LET mine == SelectSeq(G.contests, LAMBDA c : c.grade = g)
    IN [i \in DOMAIN mine |-> [sequence |-> mine[i].sequence, numerator |-> 0, denominator |-> 0]]

FormatOf(G, g) == G.presentations[G.attempts[G.grades[g].attempt].presentation].content.format

FormatReferences(G, format) ==
    LET grades == {g \in DOMAIN G.grades : FormatOf(G, g) = format}
        ordered == SetToSortSeq(grades, LAMBDA f, g : G.grades[f].sequence < G.grades[g].sequence)
    IN FlattenSeq([i \in DOMAIN ordered |->
                      <<GradeReference(G, ordered[i])>> \o ContestReferences(G, ordered[i])])

\* LearnerEvidenceEstimate.__post_init__ raises unless the references are in
\* event order.
InEventOrder(references) ==
    \A i, j \in DOMAIN references : i < j => references[i].sequence <= references[j].sequence

-----------------------------------------------------------------------------
(* What holds of every projection of assessments made by the service's     *)
(* events, up to a sequence of the course.                                 *)

\* A superseded grade was superseded by a later one of its attempt, every
\* attempt with grades has an active one, and a verified regrade follows a
\* contest of the grade it supersedes.
GradeSound(G, g, sequence) ==
    LET grade == G.grades[g] IN
    /\ grade = [session |-> grade.session, attempt |-> grade.attempt, result |-> grade.result,
                lifecycle |-> grade.lifecycle, supersedes |-> grade.supersedes,
                sequence |-> grade.sequence]
    /\ grade.attempt \in DOMAIN G.attempts
    /\ grade.lifecycle \in {"active", "superseded"}
    /\ grade.result.numerator <= grade.result.denominator
    /\ grade.sequence \in 0 .. sequence
    /\ \E f \in ActiveGrades(G, grade.attempt) : ActiveGrades(G, grade.attempt) = {f}
    /\ grade.lifecycle = "superseded" =>
          \E f \in DOMAIN G.grades : /\ G.grades[f].attempt = grade.attempt
                                    /\ G.grades[f].supersedes = g
                                    /\ G.grades[f].sequence > grade.sequence
    /\ grade.result.run # None =>
          /\ \A f \in DOMAIN G.grades : G.grades[f].result.run = grade.result.run => f = g
          /\ grade.supersedes # None =>
                \E i \in DOMAIN G.contests : /\ G.contests[i].grade = grade.supersedes
                                            /\ G.contests[i].sequence < grade.sequence
    /\ g = <<"grade", g[2], g[3], g[4]>> /\ <<g[2], g[3], "grade">> \in DOMAIN G.commands

ContestsSound(G, sequence) ==
    /\ IsList(G.contests)
    /\ \A i \in DOMAIN G.contests :
          /\ G.contests[i].grade \in DOMAIN G.grades
          /\ G.contests[i].sequence \in 0 .. sequence
          /\ \A j \in DOMAIN G.contests : G.contests[j].grade = G.contests[i].grade => i = j

AttemptSound(G, t) ==
    /\ G.attempts[t].presentation \in DOMAIN G.presentations
    /\ \A s \in DOMAIN G.attempts :
          G.attempts[s].presentation = G.attempts[t].presentation => s = t

AssessmentsSound(G, sequence) ==
    /\ G = [presentations |-> G.presentations, attempts |-> G.attempts, grades |-> G.grades,
            contests |-> G.contests, commands |-> G.commands]
    /\ \A p \in DOMAIN G.presentations : ContentSound(G.presentations[p].content)
    /\ \A t \in DOMAIN G.attempts : AttemptSound(G, t)
    /\ \A g \in DOMAIN G.grades : GradeSound(G, g, sequence)
    /\ ContestsSound(G, sequence)
=============================================================================

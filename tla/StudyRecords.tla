---------------------------- MODULE StudyRecords ----------------------------
(***************************************************************************)
(* Artifacts, assessments and study context composed on the event stream   *)
(* of one course.  Several processes call the three services at the same   *)
(* time.  Every call is a sequence of separate reads of the store that     *)
(* ends in one compare-and-append: look the command identity up, compare   *)
(* the caller's sequence, read a snapshot and build the event, append.     *)
(* A process may die between any two of them and the caller may repeat the *)
(* command, the same or another, under the same key.                       *)
(***************************************************************************)
EXTENDS StudyAssessments

CONSTANTS Clients,
          HumanContents,  \* contents a learner writes
          Responses,      \* responses a learner gives
          Statements,     \* [kind, value] a learner states
          ScalarKinds,
          Starts          \* [ops, contexts, course]: the commands and [session, key]
                          \* pairs the callers use, and the course before

Ctx == INSTANCE StudyContext

VARIABLES course,         \* the projection, always level with the stream
          owners,         \* receipts in the verified grade owner store
          client,         \* client[c]: the call process c is in
          offered         \* which commands and contexts the callers of this behaviour use

vars == <<course, owners, client, offered>>

\* The order in which each command reads the store.
Steps == [record_generated      |-> <<"existing", "expect", "prepare", "append">>,
          record_human_revision |-> <<"existing", "prepare", "expect", "append">>,
          record_human_decision |-> <<"existing", "expect", "prepare", "append">>,
          apply_service_decision |-> <<"existing", "expect", "policy",
                                       "existing", "prepare", "append">>,
          present_item   |-> <<"existing", "prepare", "expect", "append">>,
          record_attempt |-> <<"existing", "prepare", "expect", "append">>,
          contest_grade  |-> <<"existing", "prepare", "expect", "append">>,
          grade_closed   |-> <<"prepare", "existing", "expect", "append">>,
          record_verified_grade |-> <<"prepare", "existing", "expect", "append">>,
          record  |-> <<"existing", "expect", "prepare", "append">>,
          retract |-> <<"existing", "expect", "prepare", "append">>,
          resolve |-> <<"existing", "expect", "prepare", "append">>]

ArtifactOps == {"record_generated", "record_human_revision", "record_human_decision",
                "apply_service_decision"}
AssessmentOps == {"present_item", "record_attempt", "grade_closed", "record_verified_grade",
                  "contest_grade"}
ContextOps == {"record", "retract", "resolve"}

Outcomes == {"none", "done", "retry", "conflict", "refused", "invalid"}

Idle(out) == [pc |-> 0, cmd |-> None, expected |-> 0, receipt |-> None, event |-> None,
              out |-> out]

-----------------------------------------------------------------------------
(* The projection as one value, and the store's append.                    *)

IsArtifactEvent(e) == e.op \in {"proposal", "decision"}
IsAssessmentEvent(e) == e.op \in {"present", "attempt", "grade", "contest"}

Reducible(P, e) ==
    IF IsArtifactEvent(e)
    THEN IF e.op = "proposal" THEN CanReduceProposals(P.study_artifacts, e)
         ELSE CanReduceDecision(P.study_artifacts, e)
    ELSE IF IsAssessmentEvent(e)
    THEN CanReduceAssessment(P.study_artifacts, P.assessments, e)
    ELSE Ctx!CanReduceContext(P.study_context, e)

Reduce(P, e) ==
    LET sequence == P.sequence + 1
    IN IF IsArtifactEvent(e)
       THEN [P EXCEPT !.sequence = sequence,
                      !.study_artifacts = IF e.op = "proposal"
                                          THEN reduce_proposal_batch_recorded(@, e)
                                          ELSE reduce_decision_recorded(@, e)]
       ELSE IF IsAssessmentEvent(e)
       THEN [P EXCEPT !.sequence = sequence,
                      !.assessments = reduce_assessment(@, e, sequence)]
       ELSE [P EXCEPT !.sequence = sequence,
                      !.study_context = Ctx!reduce_context(@, e)]

\* The course and its sessions are the first events of the stream.
EmptyCourse == [sequence |-> 1, study_artifacts |-> NoArtifacts,
                assessments |-> NoAssessments, study_context |-> Ctx!NoContext]

CourseSound(P) ==
    /\ P = [sequence |-> P.sequence, study_artifacts |-> P.study_artifacts,
            assessments |-> P.assessments, study_context |-> P.study_context]
    /\ P.sequence \in Nat \ {0}
    /\ ArtifactsSound(P.study_artifacts)
    /\ AssessmentsSound(P.assessments, P.sequence)
    /\ Ctx!ContextSound(P.study_context)

\* Contents carry the fields of their records.
ASSUME ContentsAssumption ==
    \A content \in HumanContents
                   \union UNION {{CandidatesOf[r][i].content : i \in DOMAIN CandidatesOf[r]} :
                                 r \in Runs} :
        {"parent", "expected", "criteria"} \subseteq DOMAIN content /\ ContentSound(content)

\* What a verified run produced is a list.
ASSUME OutputsAssumption ==
    /\ \A r \in Runs : IsList(CandidatesOf[r])
    /\ \A g \in GradeRuns : IsList(DraftOf[g])

\* A behaviour begins with a course as earlier commands left it.
ASSUME StartsAssumption == \A start \in Starts : CourseSound(start.course)

Init == \E start \in Starts :
    /\ offered = [ops |-> start.ops, contexts |-> start.contexts]
    /\ course = start.course
    /\ owners = {}
    /\ client = [c \in Clients |-> Idle("none")]

-----------------------------------------------------------------------------
(* Commands the callers may issue, with arguments they have seen.          *)

Command(op, ctx, args, fingerprint) ==
    Overlaid(args, [op |-> op, ctx |-> ctx, fingerprint |-> fingerprint])

ArtifactCommands(ctx) ==
    LET A == course.study_artifacts
        fresh == [content : HumanContents, cites : {{}}, target : {None}, prior : {None}]
        next(a) == [content : HumanContents, cites : {{}}, target : {a}, prior : history(A, a)]
        proposals == fresh \union UNION {next(a) : a \in DOMAIN A.artifacts}
    IN {Command("record_generated", ctx, x, <<"generated", x.run>>) : x \in [run : Runs]}
       \union {Command("record_human_revision", ctx, x,
                       <<"human_authored", x.interaction, x.proposal.target,
                         x.proposal.content.label, x.proposal.prior>>) :
                  x \in [proposal : proposals, interaction : Interactions]}

DecisionCommands(ctx) ==
    LET A == course.study_artifacts
        named(r) == {None} \union _current_accepted(A, A.revisions[r].artifact_id)
        decisions(r) == [revision : {r}, decision : {"accept", "reject"}, supersedes : named(r)]
    IN {Command("apply_service_decision", ctx, x, <<"service_policy", x.revision>>) :
           x \in [revision : DOMAIN A.revisions]}
       \union {Command("record_human_decision", ctx, x, <<x.revision, x.decision, x.supersedes>>) :
                  x \in UNION {decisions(r) : r \in DOMAIN A.revisions}}

AssessmentCommands(ctx) ==
    LET A == course.study_artifacts
        G == course.assessments
        named == {None} \union DOMAIN G.grades
    IN {Command("present_item", ctx, x, <<"present", x.revision>>) :
           x \in [revision : DOMAIN A.revisions]}
       \union {Command("record_attempt", ctx, x, <<"attempt", x.presentation, x.response>>) :
                  x \in [presentation : DOMAIN G.presentations, response : Responses]}
       \union {Command("grade_closed", ctx, x, <<"closed", x.attempt, x.supersedes>>) :
                  x \in [attempt : DOMAIN G.attempts, supersedes : named]}
       \union {Command("record_verified_grade", ctx, x, <<"verified", x.run, x.supersedes>>) :
                  x \in [run : {o.run : o \in owners}, supersedes : named]}
       \union {Command("contest_grade", ctx, x, <<"contest", x.grade>>) :
                  x \in [grade : DOMAIN G.grades]}

ContextCommands(ctx) ==
    LET known == DOMAIN course.study_context.statements
        stated(s) == [kind : {s.kind}, value : {s.value}, interaction : Interactions]
    IN {Command("record", ctx, x, <<"record", x.kind, x.value, x.interaction>>) :
           x \in UNION {stated(s) : s \in Statements}}
       \union {Command("retract", ctx, x, <<"retract", x.statement>>) : x \in [statement : known]}
       \union {Command("resolve", ctx, x, <<"resolve", x.kind, x.statement>>) :
                  x \in [kind : ScalarKinds, statement : known]}

Offered(ctx) ==
    {cmd \in ArtifactCommands(ctx) \union DecisionCommands(ctx)
             \union AssessmentCommands(ctx) \union ContextCommands(ctx) :
        cmd.op \in offered.ops}

\* A caller reads the sequence and calls; the authority checks have passed.
call(c) ==
    /\ client[c].pc = 0
    /\ \E ctx \in offered.contexts : \E cmd \in Offered(ctx) :
          client' = [client EXCEPT ![c] = [Idle("none") EXCEPT !.pc = 1, !.cmd = cmd,
                                                               !.expected = course.sequence]]
    /\ UNCHANGED <<course, owners, offered>>

-----------------------------------------------------------------------------
(* The steps of a call.                                                    *)

At(c, step) == /\ client[c].pc > 0
               /\ client[c].pc \in DOMAIN Steps[client[c].cmd.op]
               /\ Steps[client[c].cmd.op][client[c].pc] = step

Return(c, out) == client' = [client EXCEPT ![c] = Idle(out)]

Advance(c) == client' = [client EXCEPT ![c].pc = @ + 1]

EventIdOf(cmd) ==
    <<cmd.ctx.session, cmd.ctx.key,
      CASE cmd.op \in {"record_generated", "record_human_revision"} -> "proposal"
        [] cmd.op \in {"record_human_decision", "apply_service_decision"} -> "decision"
        [] cmd.op = "present_item"   -> "present"
        [] cmd.op = "record_attempt" -> "attempt"
        [] cmd.op \in {"grade_closed", "record_verified_grade"} -> "grade"
        [] cmd.op = "contest_grade"  -> "contest"
        [] cmd.op \in ContextOps     -> cmd.op>>

\* command_fingerprint of the views: what the command identity recorded.
RecordedCommands(P, op) ==
    CASE op \in ArtifactOps   -> P.study_artifacts.commands
      [] op \in AssessmentOps -> P.assessments.commands
      [] op \in ContextOps    -> P.study_context.commands

IsRecorded(P, cmd) == EventIdOf(cmd) \in DOMAIN RecordedCommands(P, cmd.op)
IsMyRecord(P, cmd) == /\ IsRecorded(P, cmd)
                      /\ RecordedCommands(P, cmd.op)[EventIdOf(cmd)] = cmd.fingerprint

\* Fault: any record under the identity answers the call.
ExistingUnchecked(c) ==
    LET cmd == client[c].cmd IN
    /\ At(c, "existing")
    /\ IF IsRecorded(course, cmd) THEN Return(c, "done") ELSE Advance(c)
    /\ UNCHANGED <<course, owners, offered>>

\* _existing and _exact_retry: the same command returns what it recorded,
\* another command under the same key is refused.
_existing(c) ==
    LET cmd == client[c].cmd IN
    /\ At(c, "existing")
    /\ IF IsRecorded(course, cmd)
       THEN Return(c, IF IsMyRecord(course, cmd) THEN "done" ELSE "conflict")
       ELSE IF client[c].pc > 1 /\ Steps[cmd.op][client[c].pc - 1] = "prepare"
               /\ client[c].event = None
       THEN Return(c, "refused")
       ELSE Advance(c)
    /\ UNCHANGED <<course, owners, offered>>

\* _expect_sequence, and the comparison at the head of AssessmentService._append.
_expect_sequence(c) ==
    /\ At(c, "expect")
    /\ IF course.sequence = client[c].expected THEN Advance(c) ELSE Return(c, "retry")
    /\ UNCHANGED <<course, owners, offered>>

\* The policy is asked with a snapshot of its own, before the event is built.
decide(c) ==
    LET receipts == PolicyReceipts(course.study_artifacts, client[c].cmd) IN
    /\ At(c, "policy")
    /\ \/ receipts = {} /\ Return(c, "refused")
       \/ \E r \in receipts :
             client' = [client EXCEPT ![c].pc = @ + 1, ![c].receipt = r]
    /\ UNCHANGED <<course, owners, offered>>

\* The events a command builds from the snapshot it reads.
Drafts(c) ==
    LET cmd == client[c].cmd
        A == course.study_artifacts
        G == course.assessments
        C == course.study_context
    IN CASE cmd.op = "record_generated"       -> record_generated(A, cmd)
         [] cmd.op = "record_human_revision"  -> record_human_revision(A, cmd)
         [] cmd.op = "record_human_decision"  -> record_human_decision(A, cmd)
         [] cmd.op = "apply_service_decision" -> apply_service_decision(A, cmd, client[c].receipt)
         [] cmd.op = "present_item"   -> present_item(A, cmd)
         [] cmd.op = "record_attempt" -> record_attempt(G, cmd)
         [] cmd.op = "grade_closed"   -> grade_closed(G, cmd)
         [] cmd.op = "record_verified_grade" -> record_verified_grade(G, owners, cmd)
         [] cmd.op = "contest_grade"  -> contest_grade(G, cmd)
         [] cmd.op = "record"  -> Ctx!record(C, cmd)
         [] cmd.op = "retract" -> Ctx!retract(C, cmd)
         [] cmd.op = "resolve" -> Ctx!resolve(C, cmd)

\* A grading command compares the predecessor only after the retry check, on
\* the snapshot it already holds.
GradeTargetFound(c) ==
    LET cmd == client[c].cmd
        G == course.assessments
    IN \/ /\ cmd.op = "grade_closed"
          /\ G.attempts[cmd.attempt].session = cmd.ctx.session
          /\ G.presentations[G.attempts[cmd.attempt].presentation].content.format
                # "free_response"
       \/ cmd.op = "record_verified_grade" /\ recover_grade(owners, cmd.run, cmd.ctx) # {}

prepare(c) ==
    /\ At(c, "prepare")
    /\ \/ \E e \in Drafts(c) : client' = [client EXCEPT ![c].pc = @ + 1, ![c].event = e]
       \/ Drafts(c) = {} /\ GradeTargetFound(c) /\ Advance(c)
       \/ Drafts(c) = {} /\ ~GradeTargetFound(c) /\ Return(c, "refused")
    /\ UNCHANGED <<course, owners, offered>>

\* Fault: the append does not compare the sequence the caller saw.
AppendAnywhere(c) ==
    LET e == client[c].event IN
    /\ At(c, "append")
    /\ IF ~Reducible(course, e) THEN Return(c, "invalid") /\ UNCHANGED course
       ELSE course' = Reduce(course, e) /\ Return(c, "done")
    /\ UNCHANGED <<owners, offered>>

\* _append: on a lost race the identity is looked up once more; a decoder or
\* reducer that raises rolls the transaction back.
_append(c) ==
    LET e == client[c].event
        cmd == client[c].cmd
    IN /\ At(c, "append")
       /\ \/ /\ course.sequence # client[c].expected
             /\ client' = [client EXCEPT ![c].pc = Len(Steps[cmd.op]) + 1]
             /\ UNCHANGED course
          \/ /\ course.sequence = client[c].expected /\ ~Reducible(course, e)
             /\ Return(c, "invalid")
             /\ UNCHANGED course
          \/ /\ course.sequence = client[c].expected /\ Reducible(course, e)
             /\ course' = Reduce(course, e)
             /\ Return(c, "done")
       /\ UNCHANGED <<owners, offered>>

\* The lookup after EventSequenceConflictError.
recheck(c) ==
    LET cmd == client[c].cmd IN
    /\ client[c].pc > 0 /\ client[c].pc = Len(Steps[cmd.op]) + 1
    /\ Return(c, IF IsMyRecord(course, cmd) THEN "done"
                 ELSE IF IsRecorded(course, cmd) THEN "conflict" ELSE "retry")
    /\ UNCHANGED <<course, owners, offered>>

\* A grade_response run completes and its owner is published once.
publish(run, attempt) ==
    /\ "record_verified_grade" \in offered.ops
    /\ attempt \in DOMAIN course.assessments.attempts
    /\ Gradable(course.assessments, run, attempt)
    /\ \A o \in owners : o.run # run
    /\ owners' = owners \union {OwnerReceipt(course.assessments, run, attempt)}
    /\ UNCHANGED <<course, client, offered>>

\* The process dies; what it appended stays.
crash(c) ==
    /\ client[c].pc > 0
    /\ Return(c, "none")
    /\ UNCHANGED <<course, owners, offered>>

Next == \/ \E c \in Clients : \/ call(c) \/ _existing(c) \/ _expect_sequence(c) \/ decide(c)
                              \/ prepare(c) \/ _append(c) \/ recheck(c) \/ crash(c)
        \/ \E run \in GradeRuns, t \in DOMAIN course.assessments.attempts : publish(run, t)

Spec == Init /\ [][Next]_vars
-----------------------------------------------------------------------------
(* Properties.                                                             *)

\* The projection passes the validation every reduction and every view makes
\* of it, and the clients have their types.
TypeOK ==
    /\ course.sequence \in Nat \ {0}
    /\ ReadableArtifacts(course.study_artifacts)
    /\ ReadableAssessments(course.assessments)
    /\ Ctx!ReadableContext(course.study_context)
    /\ \A c \in Clients : client[c].out \in Outcomes /\ client[c].pc \in 0 .. 7

\* The head the reducers keep per artifact is the one revision that snapshot
\* readers compute from the prior links, and the recorded history is the
\* chain of those links.
LineagesAgree ==
    LET A == course.study_artifacts IN
    \A a \in DOMAIN A.artifacts :
        LET ids == A.artifacts[a].revision_ids IN
        /\ current_head(A, a) = {A.artifacts[a].current}
        /\ ToSet(ids) = history(A, a) /\ IsInjective(ids)
        /\ A.revisions[ids[1]].prior = None
        /\ \A i \in 2 .. Len(ids) : A.revisions[ids[i]].prior = ids[i - 1]

\* At most one revision of an artifact is accepted, and the superseded ones
\* are exactly those an accept decision named, each named once.
OneAccepted ==
    LET A == course.study_artifacts
        naming(r) == {i \in DOMAIN A.decisions : A.decisions[i].supersedes = r}
    IN /\ \A a \in DOMAIN A.artifacts : Cardinality(_current_accepted(A, a)) <= 1
       /\ \A r \in DOMAIN A.revisions :
             Cardinality(naming(r)) = IF A.revisions[r].status = "superseded" THEN 1 ELSE 0

\* The rules only the assessment service enforces survive every race: one
\* attempt per presentation, one grade per verified run, one contest per
\* grade, and a verified regrade only of a grade contested before it.
AssessmentRules ==
    LET G == course.assessments IN
    /\ \A s, t \in DOMAIN G.attempts :
          G.attempts[s].presentation = G.attempts[t].presentation => s = t
    /\ \A f, g \in DOMAIN G.grades :
          G.grades[f].result.run = G.grades[g].result.run /\ G.grades[f].result.run # None => f = g
    /\ \A i, j \in DOMAIN G.contests : G.contests[i].grade = G.contests[j].grade => i = j
    /\ \A g \in DOMAIN G.grades :
          G.grades[g].result.run # None /\ G.grades[g].supersedes # None =>
             \E i \in DOMAIN G.contests : /\ G.contests[i].grade = G.grades[g].supersedes
                                          /\ G.contests[i].sequence < G.grades[g].sequence

\* Every attempt has at most one active grade, and its grades form one chain.
GradesChain ==
    LET G == course.assessments IN
    \A t \in DOMAIN G.attempts :
        LET mine == {g \in DOMAIN G.grades : G.grades[g].attempt = t} IN
        /\ mine # {} => Cardinality(ActiveGrades(G, t)) = 1
        /\ \A g \in mine : G.grades[g].lifecycle = "superseded" =>
              \E f \in mine : G.grades[f].supersedes = g /\ G.grades[f].sequence > G.grades[g].sequence

\* The study-context view can always be read (every resolution stays linked
\* to a known winner and to superseded losers), and a statement is superseded
\* only by a resolution that chose another value.
ContextReadable ==
    LET C == course.study_context IN
    /\ Ctx!LinkageIsSound(C)
    /\ \A s \in DOMAIN C.statements : C.statements[s].status = "superseded" =>
          \E i \in DOMAIN C.resolutions :
              /\ s \in C.resolutions[i].losers
              /\ C.statements[s].value # C.statements[C.resolutions[i].selected].value

\* Whatever services race, crash or retry, the three projections keep the rules
\* that no single reducer checks.
RecordsAreConsistent ==
    TypeOK /\ LineagesAgree /\ OneAccepted /\ AssessmentRules /\ GradesChain /\ ContextReadable

\* What a caller is told was done is recorded under its own command; a
\* conflict means another command owns the identity.
AnswersAreTrue ==
    [][\A c \in Clients :
         client[c].pc > 0 /\ client'[c].pc = 0 =>
            /\ client'[c].out = "done" => IsMyRecord(course', client[c].cmd)
            /\ client'[c].out = "conflict" => IsRecorded(course, client[c].cmd)
            /\ client'[c].out = "retry" => course.sequence # client[c].expected]_vars

\* Checks only the reducers make: shape of the response, encoding of the
\* item, canonical commitments of a generated batch, and a parent ordinal on
\* the revision of a card without a durable parent.
ReducerOnly(cmd) ==
    \/ cmd.op \in {"record_attempt", "present_item", "record_generated"}
    \/ cmd.op = "record_human_revision" /\ cmd.proposal.content.parent # None

\* An event a service built from a snapshot at the sequence it appends to is
\* refused by the reducers only for checks the services leave to them.
ReducersAgree ==
    [][\A c \in Clients :
         client[c].pc > 0 /\ client'[c].out = "invalid" => ReducerOnly(client[c].cmd)]_vars

\* Decided revisions, superseded grades and closed statements stay closed,
\* except that an accepted revision may be superseded.
ClosedStaysClosed ==
    [][/\ \A r \in DOMAIN course.study_artifacts.revisions :
             LET old == course.study_artifacts.revisions[r].status
                 new == course'.study_artifacts.revisions[r].status
             IN old # "proposed" /\ new # old => old = "accepted" /\ new = "superseded"
       /\ \A g \in DOMAIN course.assessments.grades :
             course.assessments.grades[g].lifecycle = "superseded" =>
                course'.assessments.grades[g] = course.assessments.grades[g]
       /\ \A s \in DOMAIN course.study_context.statements :
             course.study_context.statements[s].status # "active" =>
                course'.study_context.statements[s] = course.study_context.statements[s]]_vars

\* Service and reducers agree on what may be appended, and what an append has
\* closed no later one opens.
AppendsAreSound == ReducersAgree /\ ClosedStaysClosed

\* Learner evidence can be derived: the references of every estimate are in
\* event order, as LearnerEvidenceEstimate asserts.
EvidenceIsOrdered ==
    \A format \in {"single_choice", "multiple_choice", "free_response"} :
        InEventOrder(FormatReferences(course.assessments, format))
-----------------------------------------------------------------------------
(* What holds between the steps of the calls.                              *)

\* The call of process c has done a step of this kind.
Passed(c, step) == \E k \in 1 .. client[c].pc - 1 : Steps[client[c].cmd.op][k] = step

\* The arguments the callers choose.
ArgumentsSound(cmd) ==
    /\ cmd.op = "record_generated" => cmd.run \in Runs
    /\ cmd.op = "record_human_revision" => /\ cmd.interaction \in Interactions
                                           /\ cmd.proposal.content \in HumanContents
    /\ cmd.op = "record_human_decision" => cmd.decision \in {"accept", "reject"}

\* While nobody has appended, a call has read one and the same course: its
\* identity is free, its event and its receipt are those of that course.
ReadsAgree(c) ==
    LET this == client[c] IN
    /\ this.pc <= Len(Steps[this.cmd.op])
    /\ Passed(c, "existing") => ~IsRecorded(course, this.cmd)
    /\ Passed(c, "policy") => this.receipt \in PolicyReceipts(course.study_artifacts, this.cmd)
    /\ IF Passed(c, "prepare")
       THEN this.event \in Drafts(c) \/ (this.event = None /\ ~Passed(c, "existing"))
       ELSE this.event = None

CallSound(c) ==
    LET this == client[c] IN
    /\ this = [pc |-> this.pc, cmd |-> this.cmd, expected |-> this.expected,
                receipt |-> this.receipt, event |-> this.event, out |-> this.out]
    /\ this.out \in Outcomes /\ this.pc \in Nat
    /\ this.pc > 0 =>
          /\ this.out = "none"
          /\ this.cmd.op \in DOMAIN Steps
          /\ this.pc <= Len(Steps[this.cmd.op]) + 1
          /\ ArgumentsSound(this.cmd)
          /\ this.expected \in Nat /\ this.expected <= course.sequence
          /\ this.expected = course.sequence => ReadsAgree(c)

\* The owner of a grading run names an attempt of its session.
OwnerSound(o) ==
    /\ o.run \in GradeRuns
    /\ o.attempt \in DOMAIN course.assessments.attempts
    /\ o.session = course.assessments.attempts[o.attempt].session

\* The inductive invariant of the composition.
RecordsInv ==
    /\ CourseSound(course)
    /\ \A o \in owners : OwnerSound(o)
    /\ DOMAIN client = Clients /\ \A c \in Clients : CallSound(c)
=============================================================================

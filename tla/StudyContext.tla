---------------------------- MODULE StudyContext ----------------------------
(***************************************************************************)
(* What the learner stated about the course (deadline, weekly budget,      *)
(* goals): statements are recorded from a human interaction, retracted, or *)
(* superseded when a conflict between scalar statements is resolved.  Pure *)
(* operators: StudyContextService's events, the reducers, the view.        *)
(***************************************************************************)
EXTENDS StudyArtifacts

CONSTANTS ScalarKinds     \* statement kinds of which one value holds at a time

StudyContextStatement(session, kind, value) ==
    [session |-> session, kind |-> kind, value |-> value, status |-> "active"]

StudyContextResolution(kind, selected, losers) ==
    [kind |-> kind, selected |-> selected, losers |-> losers]

NoContext == [statements |-> <<>>, resolutions |-> <<>>, commands |-> <<>>]

study_context_event_id_for(ctx, op) == <<ctx.session, ctx.key, op>>
statement_id_for(event_id) == <<"statement", event_id>>

\* StudyContextSnapshot.active(kind).
active(C, kind) == {s \in DOMAIN C.statements : /\ C.statements[s].kind = kind
                                                /\ C.statements[s].status = "active"}

\* A scalar kind is in conflict when its active statements disagree.
InConflict(C, kind) ==
    kind \in ScalarKinds /\ Cardinality({C.statements[s].value : s \in active(C, kind)}) > 1

\* The active statements a resolution supersedes: those of another value.
Losers(C, kind, selected) ==
    {s \in active(C, kind) : C.statements[s].value # C.statements[selected].value}

ContextEvent(cmd, op, payload) ==
    [op |-> op, id |-> study_context_event_id_for(cmd.ctx, op), ctx |-> cmd.ctx,
     payload |-> payload, fingerprint |-> cmd.fingerprint]

record(C, cmd) ==
    {ContextEvent(cmd, "record",
                  [statement |-> statement_id_for(study_context_event_id_for(cmd.ctx, "record")),
                   origin |-> i, kind |-> cmd.kind, value |-> cmd.value]) :
       i \in {x \in {cmd.interaction} :
                InteractionOf[x] = [session |-> cmd.ctx.session, kind |-> "human"]}}

retract(C, cmd) ==
    {ContextEvent(cmd, "retract", [statement |-> s]) :
       s \in {x \in DOMAIN C.statements \cap {cmd.statement} : C.statements[x].status = "active"}}

resolve(C, cmd) ==
    {ContextEvent(cmd, "resolve", [kind |-> cmd.kind, selected |-> s,
                                   losers |-> Losers(C, cmd.kind, s)]) :
       s \in {x \in active(C, cmd.kind) \cap {cmd.statement} : InConflict(C, cmd.kind)}}

CanReduceContext(C, e) ==
    /\ e.id = study_context_event_id_for(e.ctx, e.op)
    /\ e.id \notin DOMAIN C.commands
    /\ CASE e.op = "record"  -> /\ e.payload.statement = statement_id_for(e.id)
                                /\ e.payload.statement \notin DOMAIN C.statements
                                /\ InteractionOf[e.payload.origin] =
                                      [session |-> e.ctx.session, kind |-> "human"]
         [] e.op = "retract" -> /\ e.payload.statement \in DOMAIN C.statements
                                /\ C.statements[e.payload.statement].status = "active"
         [] e.op = "resolve" -> /\ e.payload.selected \in active(C, e.payload.kind)
                                /\ InConflict(C, e.payload.kind)
                                /\ e.payload.losers = Losers(C, e.payload.kind, e.payload.selected)

reduce_statement_recorded(C, e) ==
    [C EXCEPT !.statements =
        With(@, e.payload.statement,
             StudyContextStatement(e.ctx.session, e.payload.kind, e.payload.value))]

reduce_statement_retracted(C, e) ==
    [C EXCEPT !.statements[e.payload.statement].status = "retracted"]

reduce_conflict_resolved(C, e) ==
    [C EXCEPT !.statements = [s \in DOMAIN @ |-> IF s \in e.payload.losers
                                                 THEN [@[s] EXCEPT !.status = "superseded"]
                                                 ELSE @[s]],
              !.resolutions = Append(@, StudyContextResolution(e.payload.kind, e.payload.selected,
                                                            e.payload.losers))]

reduce_context(C, e) ==
    LET next == CASE e.op = "record"  -> reduce_statement_recorded(C, e)
                  [] e.op = "retract" -> reduce_statement_retracted(C, e)
                  [] e.op = "resolve" -> reduce_conflict_resolved(C, e)
    IN [next EXCEPT !.commands = With(@, e.id, e.fingerprint)]

\* _validate_statements, _validate_resolutions.
ReadableContext(C) ==
    /\ \A s \in DOMAIN C.statements :
          C.statements[s].status \in {"active", "retracted", "superseded"}
    /\ \A i \in DOMAIN C.resolutions :
          LET r == C.resolutions[i] IN
          r.kind \in ScalarKinds /\ r.losers # {} /\ r.selected \notin r.losers

\* ProjectionStudyContextView.get raises on a resolution whose statements are
\* gone, of another kind, or whose losers are no longer superseded.
LinkageIsSound(C) ==
    \A i \in DOMAIN C.resolutions :
        LET r == C.resolutions[i] IN
        /\ r.selected \in DOMAIN C.statements /\ C.statements[r.selected].kind = r.kind
        /\ \A s \in r.losers : /\ s \in DOMAIN C.statements
                               /\ C.statements[s].kind = r.kind
                               /\ C.statements[s].status = "superseded"

-----------------------------------------------------------------------------
(* What holds of every projection of the study context.                    *)

StatementSound(C, s) ==
    LET statement == C.statements[s] IN
    /\ statement = [session |-> statement.session, kind |-> statement.kind,
                    value |-> statement.value, status |-> statement.status]
    /\ statement.status \in {"active", "retracted", "superseded"}
    /\ statement.status = "superseded" =>
          \E i \in DOMAIN C.resolutions :
              /\ s \in C.resolutions[i].losers
              /\ statement.value # C.statements[C.resolutions[i].selected].value
    /\ s = <<"statement", s[2]>> /\ s[2] \in DOMAIN C.commands

ContextSound(C) ==
    /\ C = [statements |-> C.statements, resolutions |-> C.resolutions, commands |-> C.commands]
    /\ \A s \in DOMAIN C.statements : StatementSound(C, s)
    /\ IsList(C.resolutions)
    /\ \A i \in DOMAIN C.resolutions :
          LET r == C.resolutions[i] IN
          r.kind \in ScalarKinds /\ r.losers # {} /\ r.selected \notin r.losers
    /\ LinkageIsSound(C)
=============================================================================

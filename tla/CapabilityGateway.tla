------------------------- MODULE CapabilityGateway -------------------------
(***************************************************************************)
(* StudyCapabilityGateway over PlaybookEngine.  The gateway keeps no state *)
(* of its own: a run identity is derived from the capability, the caller's *)
(* authority and its idempotency key, and a retry of start or resume finds *)
(* the run by inspecting the engine's row.  A suspended run is handed out  *)
(* as a continuation that names the exact suspended row.                   *)
(*                                                                         *)
(* Each driver of the engine is one gateway call.  Between the inspection, *)
(* the resolution of read dependencies, the engine's own statements and    *)
(* the final observation, calls of other processes take steps.             *)
(***************************************************************************)
EXTENDS PlaybookEngine

CONSTANTS Versions      \* the versions 1..Versions the read dependencies go through

ASSUME VersionsAssumption ==
    /\ Versions \in Nat \ {0}
    /\ \A b \in Bindings, i \in Installations, v \in 1..Versions :
          [pins |-> i, inputs |-> b.inputs, deps |-> v] \in Bindings

VARIABLES calls,     \* calls[d]: local state of one start or resume, or its reply
          current,   \* the version the dependency resolvers read now
          issued     \* history: the continuations handed to callers

gatewayVars == <<calls, current, issued>>

allVars == <<store, driver, installed, effects, results, lost, calls, current, issued>>

Inputs == {b.inputs : b \in Bindings}

\* start has no continuation.
NoToken == [run |-> "none"]

\* SuspendedCapabilityOutcome.continuation: what names a suspended generation.
CapabilityContinuation(r, row) ==
    [run |-> r, step |-> row.next, bound |-> row.bound,
     generation |-> _checkpoint_fingerprint(row)]

\* One request: the run identity of the caller's context, and what it asks for.
Request(r, inputs, token, answer) ==
    [run |-> r, inputs |-> inputs, token |-> token, answer |-> answer]

At(pc, request) == [pc |-> pc, request |-> request]

\* The same once the bindings of the engine call are known.
Bound(pc, request, bound) == [pc |-> pc, request |-> request, bound |-> bound]

\* A call that has ended: with nothing, with an error or an outcome that shows no
\* state of the run, or with an observed outcome.
Ended(kind) == [pc |-> "idle", reply |-> kind]

Reply(kind, request, row) ==
    [pc |-> "idle", reply |-> kind, request |-> request,
     outputs |-> IF row.status \in Terminal THEN row.outputs ELSE Empty]

InitGateway ==
    /\ Init
    /\ calls = [d \in Drivers |-> Ended("none")]
    /\ current = 1
    /\ issued = {}

-----------------------------------------------------------------------------
Move(d, next) == calls' = [calls EXCEPT ![d] = next]

\* A call that ends without touching the engine or handing out a continuation.
Refuse(d, kind) ==
    /\ Move(d, Ended(kind))
    /\ UNCHANGED <<vars, current, issued>>

\* Fault: a row that is still running counts as a success.
ObservedOptimistically(d, request, row) ==
    LET kind == IF row.status = "running" THEN "completed" ELSE row.status
    IN  /\ Move(d, Reply(kind, request, row))
        /\ issued' = IF row.status = "suspended"
                     THEN issued \union {CapabilityContinuation(request.run, row)} ELSE issued
        /\ UNCHANGED <<vars, current>>

\* _observed: the outcome a row that was just inspected stands for.  A
\* completed row is only a success when recover verifies it.
_observed(d, request, row) ==
    LET verified == IF _inspect_expected(row.bound, row)
                    THEN _recovered_termination(row) ELSE "refused"
        kind == CASE row.status = "running" -> "in_progress"
                  [] row.status = "completed" ->
                        IF verified = "refused" THEN "failed" ELSE verified
                  [] OTHER -> row.status
    IN  /\ Move(d, Reply(kind, request, row))
        /\ issued' = IF row.status = "suspended"
                     THEN issued \union {CapabilityContinuation(request.run, row)} ELSE issued
        /\ results' = IF row.status = "completed" /\ verified # "refused"
                      THEN results \union {Result(request.run, verified, row)} ELSE results
        /\ UNCHANGED <<store, driver, installed, effects, lost, current>>

\* _require_start_retry: an idempotency key stands for one request only.
_require_start_retry(request, row) ==
    row.bound.inputs = request.inputs /\ row.bound.pins = installed

\* _require_persisted_resume: this answer was recorded for this generation.
_require_persisted_resume(token, answer, row) ==
    /\ token.step \in DOMAIN row.outputs
    /\ row.outputs[token.step] = answer
    /\ Cardinality({t \in DOMAIN row.traces :
          /\ row.traces[t].step = token.step
          /\ row.traces[t].mark = "completed"
          /\ row.traces[t].generation = token.generation}) = 1

\* _require_continuation_bindings
_require_continuation_bindings(token, row) ==
    token.bound = row.bound /\ row.bound.pins = installed

\* start: inspect first; a run that exists is observed and never started again.
_start_bound(d, r, inputs) ==
    LET request == Request(r, inputs, NoToken, "none")
    IN  /\ calls[d].pc = "idle"
        /\ IF r \in DOMAIN store
           THEN IF _require_start_retry(request, store[r])
                THEN _observed(d, request, store[r])
                ELSE Refuse(d, "conflict")
           ELSE Move(d, At("resolving", request)) /\ UNCHANGED <<vars, current, issued>>

\* resume, up to the engine: the continuation must belong to the caller's run
\* and to its bindings; a generation that is not suspended any more is observed
\* if this answer is the one that was recorded for it.
_resume_bound(d, r, token, answer) ==
    LET request == Request(r, token.bound.inputs, token, answer)
        row == store[token.run]
        own == token.run = r /\ _require_continuation_bindings(token, row)
        open == row.status = "suspended" /\ _checkpoint_fingerprint(row) = token.generation
        answered == row.status # "suspended" /\ _require_persisted_resume(token, answer, row)
    IN  /\ calls[d].pc = "idle"
        /\ \/ own /\ open /\ Move(d, At("resolving", request)) /\ UNCHANGED <<vars, current, issued>>
           \/ own /\ answered /\ _observed(d, request, row)
           \/ ~(own /\ (open \/ answered)) /\ Refuse(d, "conflict")

\* The dependency resolver reads the current versions.
_dependencies(d) ==
    LET request == calls[d].request
        bound == [pins |-> installed, inputs |-> request.inputs, deps |-> current]
    IN  /\ calls[d].pc = "resolving"
        /\ Move(d, Bound(IF request.token = NoToken THEN "executing" ELSE "resuming", request, bound))
        /\ UNCHANGED <<vars, current, issued>>

-----------------------------------------------------------------------------
(* The engine call.                                                        *)

\* engine.execute: a duplicate is observed like a retry, unless this caller
\* resolved other dependencies than the run is bound to.
start_execute(d, ack) ==
    LET request == calls[d].request
        r == request.run
        duplicate == ack # "raised" /\ r \in DOMAIN store
        same == _require_start_retry(request, store[r])
        drifted == store[r].bound.deps # calls[d].bound.deps
    IN  /\ calls[d].pc = "executing"
        /\ \/ ack = "raised" /\ Refuse(d, "failed")
           \/ /\ execute(d, r, calls[d].bound, ack)
              /\ Move(d, IF ack = "ok" THEN Bound("driving", request, calls[d].bound)
                         ELSE Ended("failed"))
              /\ UNCHANGED <<current, issued>>
           \/ duplicate /\ ~same /\ Refuse(d, "conflict")
           \/ duplicate /\ same /\ drifted /\ Refuse(d, "stale")
           \/ duplicate /\ same /\ ~drifted /\ _observed(d, request, store[r])

\* engine.resume, up to its claim: it loads the row again, and answers whatever
\* dialogue that row is suspended at.
resume_load(d) ==
    LET request == calls[d].request
        row == store[request.run]
        loads == _validate_checkpoint_shape(row) /\ row.status = "suspended"
    IN  /\ calls[d].pc = "resuming"
        /\ \/ ~loads /\ Move(d, At("observing", request)) /\ UNCHANGED <<vars, current, issued>>
           \/ loads /\ row.bound.deps # calls[d].bound.deps /\ Refuse(d, "stale")
           \/ /\ resume(d, request.run, calls[d].bound, request.answer)
              /\ Move(d, Bound("driving", request, calls[d].bound))
              /\ UNCHANGED <<current, issued>>

\* What the gateway does when the engine statement ends the engine call: a
\* result or a lost claim is observed, a store error is a failed outcome.
EngineReturns(d, ack) ==
    /\ Move(d, IF driver'[d].pc # "idle" THEN calls[d]
               ELSE IF ack = "ok" THEN At("observing", calls[d].request)
               ELSE Ended("failed"))
    /\ UNCHANGED <<current, issued>>

\* The claim of engine.resume.
gateway_claim(d, ack) == calls[d].pc = "driving" /\ resume_claim(d, ack) /\ EngineReturns(d, ack)

\* The checkpoint of a step; a lost compare-and-set is a store error here.
gateway_advance(d, ack) ==
    LET won == store[driver[d].run] = driver[d].expected
    IN  /\ calls[d].pc = "driving"
        /\ advance(d, ack)
        /\ EngineReturns(d, IF won THEN ack ELSE "raised")

\* The effect of a step.
gateway_effect(d) ==
    /\ calls[d].pc = "driving"
    /\ \/ \E outcome \in Values \X Dispositions : _execute_step(d, outcome)
       \/ \E status \in {"failed", "cancelled"}, called \in BOOLEAN : step_fails(d, status, called)
       \/ _dialogue_should_suspend(d)
    /\ UNCHANGED gatewayVars

\* Fault: the winner's row is reported to a caller whose claim lost.
ObserveAnyResume(d) ==
    LET request == calls[d].request
    IN  /\ calls[d].pc = "observing"
        /\ _observed(d, request, store[request.run])

\* After the engine: inspect the row, check that a resume's own answer is the
\* recorded one, and return what the row stands for.
observe(d) ==
    LET request == calls[d].request
        row == store[request.run]
    IN  /\ calls[d].pc = "observing"
        /\ IF request.token = NoToken
              \/ _require_persisted_resume(request.token, request.answer, row)
           THEN _observed(d, request, row)
           ELSE Refuse(d, "conflict")

\* The process of a call dies, inside or outside the engine.
Die(d) ==
    /\ calls[d].pc # "idle"
    /\ IF driver[d].pc = "idle" THEN UNCHANGED vars ELSE Crash(d)
    /\ Move(d, Ended("none"))
    /\ UNCHANGED <<current, issued>>

\* The content the capability reads gets a new version.
Drift ==
    /\ current < Versions
    /\ current' = current + 1
    /\ UNCHANGED <<vars, calls, issued>>

\* Other versions are installed while no call is under way.
GatewayUpgrade ==
    /\ \A d \in Drivers : calls[d].pc = "idle"
    /\ Upgrade
    /\ UNCHANGED gatewayVars

CallStep(d) ==
    \/ _dependencies(d)
    \/ \E ack \in Acks : start_execute(d, ack) \/ gateway_claim(d, ack) \/ gateway_advance(d, ack)
    \/ resume_load(d)
    \/ gateway_effect(d)
    \/ observe(d)

NextGateway ==
    \/ \E d \in Drivers :
         \/ \E r \in Runs, inputs \in Inputs : _start_bound(d, r, inputs)
         \/ \E r \in Runs, token \in issued, answer \in Answers : _resume_bound(d, r, token, answer)
         \/ CallStep(d)
         \/ Die(d)
    \/ Drift
    \/ GatewayUpgrade

SpecGateway == InitGateway /\ [][NextGateway]_allVars

-----------------------------------------------------------------------------
\* The reply a caller holds, if it stands for an observed row.
Observed(d) == calls[d].pc = "idle" /\ "request" \in DOMAIN calls[d]

\* Where a gateway call and its engine call stand together.
GatewayTypeOK ==
    /\ current \in 1..Versions
    /\ \A k \in issued : k.run \in DOMAIN store /\ k.bound \in Bindings
    /\ \A d \in Drivers :
          /\ calls[d].pc \in {"idle", "resolving", "executing", "resuming", "driving", "observing"}
          /\ driver[d].pc # "idle" <=> calls[d].pc = "driving"
          /\ calls[d].pc = "driving" => driver[d].run = calls[d].request.run

\* A caller that is told a state of the run is told the state of its own
\* request: the run has its inputs, and a resume's own answer is the one
\* recorded, exactly once, for the generation its continuation names.
OutcomeBelongsToCaller ==
    \A d \in Drivers : Observed(d) =>
        LET request == calls[d].request
            row == store[request.run]
        IN  /\ request.run \in DOMAIN store
            /\ row.bound.inputs = request.inputs
            /\ request.token # NoToken =>
                 \E t \in DOMAIN row.traces :
                    /\ row.traces[t].generation = request.token.generation
                    /\ row.traces[t].value = request.answer
                    /\ \A u \in DOMAIN row.traces \ {t} :
                          row.traces[u].generation # request.token.generation

\* Callers of one run never hold contradictory verdicts: one run has at most
\* one of completed, terminated and cancelled, with the same outputs.
VerdictsAgree ==
    \A d, e \in Drivers :
        LET verdicts == {"completed", "terminated", "cancelled"}
        IN  Observed(d) /\ Observed(e)
            /\ calls[d].reply \in verdicts /\ calls[e].reply \in verdicts
            /\ calls[d].request.run = calls[e].request.run =>
                 calls[d].reply = calls[e].reply /\ calls[d].outputs = calls[e].outputs

\* A continuation stays good until it is answered: its generation is the one
\* the run is suspended at, or an answer is recorded for it.
ContinuationsResolve ==
    \A k \in issued :
        \/ _checkpoint_fingerprint(store[k.run]) = k.generation
        \/ \E t \in DOMAIN store[k.run].traces :
              store[k.run].traces[t].generation = k.generation

\* Every behaviour of the gateway is one of the engine: what holds of any
\* use of the engine holds of its use through the gateway.
ImplementsEngine == Spec

\* What callers were told stays true: their verdicts agree, and every
\* continuation handed out is still the one to answer or has its answer.
RepliesStayTrue == VerdictsAgree /\ ContinuationsResolve
=============================================================================

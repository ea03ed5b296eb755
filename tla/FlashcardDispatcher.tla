------------------------ MODULE FlashcardDispatcher ------------------------
(***************************************************************************)
(* capabilities/dispatch.py: one public capability, two profiled bindings. *)
(* A call probes both definitions for the run of its idempotency identity, *)
(* one after the other, and then hands the call to the gateway bound to    *)
(* the owner it found, or to the profile that was asked for.  Calls with   *)
(* the same identity and other selections run at the same time, and a      *)
(* process may die while it drives the run.                                *)
(*                                                                         *)
(* The gateway and the engine are cut down to what the dispatcher sees of  *)
(* a run: its definition, its inputs, its status and one dialogue          *)
(* (CapabilityGateway and PlaybookEngine have the rest).                   *)
(***************************************************************************)
EXTENDS Naturals, Sequences, FiniteSets

CONSTANTS
    Callers,
    RunIds,          \* the run identities of the callers' contexts
    BindingOrder,    \* the profiles of the two bindings, in probe order
    PublicInputs,    \* [ceiling, receipt], receipt = [profile, mode]
    Responses,       \* answers to the dialogue
    MaxCandidates,   \* bound: candidates of a batch
    MaxCalls,        \* bound: calls
    NoRun, NoAnswer

\* The dispatcher is built over two distinct bindings, and requests name them.
BindingsAreDistinct ==
    /\ Len(BindingOrder) = 2
    /\ BindingOrder[1] # BindingOrder[2]
    /\ \A i \in PublicInputs : i.receipt.profile \in {BindingOrder[1], BindingOrder[2]}

ASSUME BindingsAssumption == BindingsAreDistinct

\* Inputs are a ceiling with a receipt.
ASSUME InputsAssumption ==
    /\ \A i \in PublicInputs : i = [ceiling |-> i.ceiling, receipt |-> i.receipt]
                                /\ i.ceiling \in Nat
    /\ MaxCandidates \in Nat

RunRows == [profile : {BindingOrder[1], BindingOrder[2]}, inputs : PublicInputs,
            status : {"running", "suspended", "completed", "failed", "cancelled", "terminated"},
            answer : Responses \cup {NoAnswer}, candidates : 0 .. MaxCandidates]

\* The values that stand for nothing are no values of what they stand for.
ASSUME AbsenceAssumption ==
    /\ NoRun \notin RunRows
    /\ NoAnswer \notin Responses
    /\ {BindingOrder[1], BindingOrder[2]} \cap {"none", "incompatible"} = {}

VARIABLES
    runs,     \* run identity -> [profile, inputs, status, answer, candidates] or NoRun
    tokens,   \* the continuations handed out: [run, inputs]
    callOf,   \* the calls
    budget

dispatchVars == <<runs, tokens, callOf, budget>>

-----------------------------------------------------------------------------
Probe(profile, r) ==
    IF runs[r] = NoRun THEN "not_found"
    ELSE IF runs[r].profile = profile THEN "found" ELSE "incompatible"

\* The profile whose definition owns the run, "none" or "incompatible".
_locate_owner(probes) ==
    LET matches == {i \in DOMAIN probes : probes[i] = "found"}
    IN IF Cardinality(matches) > 1 THEN "incompatible"
       ELSE IF matches # {} THEN BindingOrder[CHOOSE i \in matches : TRUE]
       ELSE IF \A i \in DOMAIN probes : probes[i] = "not_found" THEN "none"
       ELSE "incompatible"

Goto(c, at) == callOf' = [callOf EXCEPT ![c].at = at]
\* profiled_execution_inputs: the public inputs with a selection receipt.
GotoBound(c, receipt) ==
    callOf' = [callOf EXCEPT ![c] = [at |-> "inspect", request |-> callOf[c].request,
                                     existed |-> callOf[c].existed, bound |-> receipt.profile,
                                     inputs |-> [callOf[c].request.inputs EXCEPT !.receipt = receipt]]]
Ends(c, kind, candidates) ==
    callOf' = [callOf EXCEPT ![c] = [at |-> "idle", kind |-> kind, request |-> callOf[c].request,
                                     existed |-> callOf[c].existed, candidates |-> candidates]]
EndsWith(c, kind) == Ends(c, kind, 0) /\ UNCHANGED tokens

\* _verified_candidate_outcome: a batch above the ceiling is a failure.
VerifiedKind(row) ==
    IF row.status = "completed" /\ row.candidates > row.inputs.ceiling THEN "failed"
    ELSE IF row.status = "running" THEN "in_progress"
    ELSE row.status

\* _observed
ObservedRun(c, row) ==
    /\ Ends(c, VerifiedKind(row), row.candidates)
    /\ tokens' = IF row.status = "suspended"
                 THEN tokens \cup {[run |-> callOf[c].request.run, inputs |-> row.inputs]}
                 ELSE tokens

Row(c) == runs[callOf[c].request.run]

\* _require_start_retry
ObservedStart(c) ==
    IF Row(c).inputs = callOf[c].inputs THEN ObservedRun(c, Row(c))
    ELSE EndsWith(c, "conflict")

\* _require_persisted_resume
ObservedResume(c) ==
    IF Row(c).answer = callOf[c].request.response THEN ObservedRun(c, Row(c))
    ELSE EndsWith(c, "conflict")

-----------------------------------------------------------------------------
DispatchInit ==
    /\ runs = [r \in RunIds |-> NoRun]
    /\ tokens = {}
    /\ callOf = [c \in Callers |-> [at |-> "idle", kind |-> "none"]]
    /\ budget = MaxCalls

Begin(c, request) ==
    /\ callOf[c].at = "idle"
    /\ budget > 0
    /\ budget' = budget - 1
    /\ callOf' = [callOf EXCEPT ![c] = [at |-> "probe", request |-> request, probes |-> <<>>,
                                      existed |-> runs[request.run] # NoRun]]
    /\ UNCHANGED <<runs, tokens>>

DispatchStart(c, r, inputs) ==
    Begin(c, [op |-> "start", run |-> r, inputs |-> inputs, response |-> NoAnswer])

DispatchResume(c, token, response) ==
    Begin(c, [op |-> "resume", run |-> token.run, inputs |-> token.inputs,
              response |-> response])

ProbeBound(c) ==
    /\ callOf[c].at = "probe"
    /\ Len(callOf[c].probes) < 2
    /\ callOf' = [callOf EXCEPT ![c].probes =
                     Append(@, Probe(BindingOrder[Len(@) + 1], callOf[c].request.run))]
    /\ UNCHANGED <<runs, tokens, budget>>

\* The owner is bound without comparing selections.
AnySelection(c, owner) == GotoBound(c, Row(c).inputs.receipt) /\ UNCHANGED tokens

\* start with an owner: its persisted receipt must be the one asked for.
PersistedSelection(c, owner) ==
    IF Row(c).inputs.receipt.profile # owner THEN EndsWith(c, "incompatible")
    ELSE IF callOf[c].request.op = "start" /\ Row(c).inputs.receipt # callOf[c].request.inputs.receipt
         THEN EndsWith(c, "conflict")
    ELSE GotoBound(c, Row(c).inputs.receipt) /\ UNCHANGED tokens

Route(c) ==
    /\ callOf[c].at = "probe"
    /\ Len(callOf[c].probes) = 2
    /\ LET owner == _locate_owner(callOf[c].probes)
       IN CASE owner = "incompatible" -> EndsWith(c, "incompatible")
            [] owner = "none" ->
                  IF callOf[c].request.op = "resume" THEN EndsWith(c, "not_found")
                  ELSE GotoBound(c, callOf[c].request.inputs.receipt) /\ UNCHANGED tokens
            [] OTHER -> PersistedSelection(c, owner)
    /\ UNCHANGED <<runs, budget>>

\* The inspection of _start_bound: a run that exists is observed.
StartInspected(c, probe) ==
    \/ probe = "incompatible" /\ EndsWith(c, "incompatible")
    \/ probe = "not_found" /\ Goto(c, "engine") /\ UNCHANGED tokens
    \/ probe = "found" /\ ObservedStart(c)

\* The inspection of _resume_bound: it must be the token's run and still suspended.
ResumeInspected(c, probe) ==
    \/ probe \in {"incompatible", "not_found"} /\ EndsWith(c, probe)
    \/ probe = "found" /\ IF Row(c).inputs # callOf[c].request.inputs THEN EndsWith(c, "conflict")
                          ELSE IF Row(c).status # "suspended" THEN ObservedResume(c)
                          ELSE Goto(c, "engine") /\ UNCHANGED tokens

InspectBound(c) ==
    /\ callOf[c].at = "inspect"
    /\ LET probe == Probe(callOf[c].bound, callOf[c].request.run)
       IN  IF callOf[c].request.op = "start" THEN StartInspected(c, probe)
           ELSE ResumeInspected(c, probe)
    /\ UNCHANGED <<runs, budget>>

\* execute creates the checkpoint, or finds that another call did.
Execute(c) ==
    /\ callOf[c].at = "engine" /\ callOf[c].request.op = "start"
    /\ IF Row(c) = NoRun
       THEN /\ runs' = [runs EXCEPT ![callOf[c].request.run] =
                           [profile |-> callOf[c].bound, inputs |-> callOf[c].inputs,
                            status |-> "running", answer |-> NoAnswer, candidates |-> 0]]
            /\ Goto(c, "drive")
            /\ UNCHANGED tokens
       ELSE /\ IF Row(c).profile # callOf[c].bound THEN EndsWith(c, "incompatible")
               ELSE ObservedStart(c) \/ EndsWith(c, "stale")
            /\ UNCHANGED runs
    /\ UNCHANGED budget

\* resume of the engine: the answer is claimed once.
EngineResume(c) ==
    /\ callOf[c].at = "engine" /\ callOf[c].request.op = "resume"
    /\ \/ /\ Row(c).status = "suspended"
          /\ runs' = [runs EXCEPT ![callOf[c].request.run].status = "running",
                                  ![callOf[c].request.run].answer = callOf[c].request.response]
          /\ Goto(c, "drive")
          /\ UNCHANGED tokens
       \/ EndsWith(c, "stale") /\ UNCHANGED runs
       \/ Row(c).status # "suspended" /\ ObservedResume(c) /\ UNCHANGED runs
    /\ UNCHANGED budget

\* The driven run reaches its dialogue or its end.
DriveOwn(c) ==
    /\ callOf[c].at = "drive"
    /\ \E status \in {"suspended", "completed", "failed", "cancelled",
                        "terminated"}, n \in 0 .. MaxCandidates :
          /\ status = "suspended" => Row(c).answer = NoAnswer
          /\ status # "completed" => n = 0
          /\ runs' = [runs EXCEPT ![callOf[c].request.run].status = status,
                                  ![callOf[c].request.run].candidates = n]
    /\ Goto(c, "observe")
    /\ UNCHANGED <<tokens, budget>>

ObserveOwn(c) ==
    /\ callOf[c].at = "observe"
    /\ IF callOf[c].request.op = "start" THEN ObservedRun(c, Row(c)) ELSE ObservedResume(c)
    /\ UNCHANGED <<runs, budget>>

CallerCrash(c) ==
    /\ callOf[c].at \notin {"idle", "probe"}
    /\ EndsWith(c, "crashed")
    /\ UNCHANGED <<runs, budget>>

DispatchNext ==
    \/ \E c \in Callers, r \in RunIds, i \in PublicInputs : DispatchStart(c, r, i)
    \/ \E c \in Callers, t \in tokens, a \in Responses : DispatchResume(c, t, a)
    \/ \E c \in Callers : ProbeBound(c)
    \/ \E c \in Callers : Route(c)
    \/ \E c \in Callers : InspectBound(c)
    \/ \E c \in Callers : Execute(c)
    \/ \E c \in Callers : EngineResume(c)
    \/ \E c \in Callers : DriveOwn(c)
    \/ \E c \in Callers : ObserveOwn(c)
    \/ \E c \in Callers : CallerCrash(c)

DispatchSpec == DispatchInit /\ [][DispatchNext]_dispatchVars

-----------------------------------------------------------------------------
Outcomes == {"in_progress", "suspended", "completed", "failed", "cancelled", "terminated"}

\* FlashcardCapabilityDispatcher.start and resume: an outcome a caller gets is
\* the outcome of a run with its own inputs, its own profile selection and, for
\* a resume, its own answer, whoever created and drove the run; and a completed
\* outcome keeps within the ceiling the caller set.
OutcomeIsRequested ==
    \A c \in Callers :
        callOf[c].at = "idle" /\ callOf[c].kind \in Outcomes =>
            LET request == callOf[c].request
                row == runs[request.run]
            IN /\ row # NoRun
               /\ row.inputs = request.inputs
               /\ row.profile = request.inputs.receipt.profile
               /\ request.op = "resume" => row.answer = request.response
               /\ callOf[c].kind = "completed" => callOf[c].candidates <= request.inputs.ceiling

\* _locate_owner reads the two definitions one after the other: a run it finds
\* half created is reported incompatible.  That happens to a call only when the
\* run was created while the call was running; a run that existed before is
\* found again under whichever definition owns it.
IncompatibleIsARace ==
    \A c \in Callers :
        callOf[c].at = "idle" /\ callOf[c].kind \in {"incompatible", "not_found"} =>
            ~callOf[c].existed

\* The flashcard dispatcher answers for the run it was asked for, and refuses a
\* known run only when another caller moved it.
DispatchIsTrue == OutcomeIsRequested /\ IncompatibleIsARace
=============================================================================

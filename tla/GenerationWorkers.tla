------------------------- MODULE GenerationWorkers -------------------------
(***************************************************************************)
(* GenerationWorkerService: one task is one capability run (its child) in  *)
(* an isolated context.  The row of a task is written by create and        *)
(* compare-and-set; any number of processes may start the task or answer   *)
(* its dialogue, and each may die between any two steps.  The child is     *)
(* reached through GatewayIsolatedCapabilityRunAdapter; it is kept here to *)
(* what the gateway shows of a run (CapabilityGateway): a run is created   *)
(* once, has at most one driver, records its answers, and never leaves a   *)
(* terminal status.                                                        *)
(***************************************************************************)
EXTENDS Naturals, Sequences, FiniteSets

CONSTANTS Procs,       \* processes that call the service
          Tasks,       \* task identities
          Responses,   \* what a learner may answer
          Outputs,     \* what a completed child may have produced
          Unverified,  \* the outputs of runs whose record lacks an expected receipt
          Failures,    \* how else a child may end
          Dialogues,   \* how many dialogues a child may ask, one after the other
          MaxCrashes,  \* bound on the number of processes that die
          None         \* no value

ASSUME WorkersAssumption ==
    /\ Dialogues \in Nat
    /\ Unverified \subseteq Outputs
    /\ Failures \subseteq {"terminated", "cancelled", "failed"}
    /\ MaxCrashes \in Nat
    /\ None \notin Responses \union Outputs

VARIABLES worker,    \* worker[t]: the row of task t
          child,     \* child[t]: its capability run
          proofs,    \* proofs[t]: the output the proof slot of the child vouches for
          call,      \* call[p]: the service call of a process, or its view
          claims,    \* history: claims[t][g] is the response claimed in generation g - 1
          crashes    \* processes that have died

workerVars == <<worker, child, proofs, call, claims, crashes>>

\* GenerationWorkerStatus.is_terminal
Terminal == {"completed", "terminated", "cancelled", "failed", "stale"}

\* How a child run may end (VerifiedRunRecord, ChildCapabilityObservation).
Endings == {"completed"} \union Failures

\* _StoredWorkerState: the continuation is the dialogue it names, 0 for none.
Row(status, generation, continuation, response, output) ==
    [status |-> status, generation |-> generation, continuation |-> continuation,
     response |-> response, output |-> output]

Absent == Row("absent", 0, 0, None, None)

\* What start writes for a new GenerationWorkerTask.
Pending == Row("pending", 0, 0, None, None)

\* ChildCapabilityObservation: what the adapter reports of the child.
Observation(status, dialogue, output) ==
    [status |-> status, dialogue |-> dialogue, output |-> output]

\* A call inside the service: the row it read last, and the child it observed.
Calling(pc, t, row, seen) == [pc |-> pc, task |-> t, row |-> row, seen |-> seen]

Unseen == Observation("running", 0, None)

\* _compact: a call that has returned, with the status it showed; "conflict"
\* is a GenerationWorkerConflictError.
Returned(t, view) == [pc |-> "returned", task |-> t, view |-> view]

Idle == [pc |-> "idle"]

Free(p) == call[p].pc \in {"idle", "returned"}

InitWorkers ==
    /\ worker = [t \in Tasks |-> Absent]
    /\ child = [t \in Tasks |-> [status |-> "absent", answers |-> <<>>, output |-> None]]
    /\ proofs = [t \in Tasks |-> None]
    /\ call = [p \in Procs |-> Idle]
    /\ claims = [t \in Tasks |-> <<>>]
    /\ crashes = 0

-----------------------------------------------------------------------------
Goto(p, next) == call' = [call EXCEPT ![p] = next]

\* The view or the next step a row leads to: a pending task starts its child, a
\* claimed response is delivered again, anything else is shown as it is.
Follow(p, t, row) ==
    Goto(p, CASE row.status = "pending" -> Calling("starting", t, row, Unseen)
              [] row.status = "resume_claimed" -> Calling("resuming", t, row, Unseen)
              [] OTHER -> Returned(t, row.status))

\* start: create the row, or load the one that is there.
start(p, t) ==
    /\ Free(p)
    /\ worker' = IF worker[t] = Absent THEN [worker EXCEPT ![t] = Pending] ELSE worker
    /\ Follow(p, t, worker'[t])
    /\ UNCHANGED <<child, proofs, claims, crashes>>

\* resume, up to its claim: the generation must be the stored one, and a
\* claimed generation belongs to its response.
resume(p, t, generation, response) ==
    LET row == worker[t]
        mine == row.generation = generation
    IN  /\ Free(p)
        /\ row # Absent
        /\ \/ mine /\ row.status \in Terminal /\ Goto(p, Returned(t, row.status))
           \/ /\ mine /\ row.status = "resume_claimed" /\ row.response = response
              /\ Goto(p, Calling("resuming", t, row, Unseen))
           \/ /\ mine /\ row.status = "suspended"
              /\ Goto(p, Calling("claiming", t, [row EXCEPT !.response = response], Unseen))
           \/ /\ \/ ~mine
                 \/ row.status = "pending"
                 \/ row.status = "resume_claimed" /\ row.response # response
              /\ Goto(p, Returned(t, "conflict"))
        /\ UNCHANGED <<worker, child, proofs, claims, crashes>>

\* Fault: whoever loses the claim delivers its own response all the same.
ClaimAnyway(p) ==
    LET t == call[p].task
        raw == [call[p].row EXCEPT !.response = None]
        claimed == [call[p].row EXCEPT !.status = "resume_claimed"]
    IN  /\ call[p].pc = "claiming"
        /\ IF worker[t] = raw
           THEN /\ worker' = [worker EXCEPT ![t] = claimed]
                /\ claims' = [claims EXCEPT ![t] = Append(@, claimed.response)]
           ELSE UNCHANGED <<worker, claims>>
        /\ Goto(p, Calling("resuming", t, claimed, Unseen))
        /\ UNCHANGED <<child, proofs, crashes>>

\* The claim of resume: compare-and-set the suspended row; when it lost, the
\* row that won is followed only if it claims the same response.
resume_claim(p) ==
    LET t == call[p].task
        wanted == call[p].row
        raw == [wanted EXCEPT !.response = None]
        claimed == [wanted EXCEPT !.status = "resume_claimed"]
    IN  /\ call[p].pc = "claiming"
        /\ \/ /\ worker[t] = raw
              /\ worker' = [worker EXCEPT ![t] = claimed]
              /\ claims' = [claims EXCEPT ![t] = Append(@, wanted.response)]
              /\ Goto(p, Calling("resuming", t, claimed, Unseen))
           \/ /\ worker[t] # raw
              /\ Goto(p, CASE worker[t].status \in Terminal -> Returned(t, worker[t].status)
                           [] worker[t] = claimed -> Calling("resuming", t, claimed, Unseen)
                           [] OTHER -> Returned(t, "conflict"))
              /\ UNCHANGED <<worker, claims>>
        /\ UNCHANGED <<child, proofs, crashes>>

-----------------------------------------------------------------------------
(* The adapter: one gateway call, from the request to its observation.      *)

\* _completed_observation: a completed run is reported as such only if its
\* traces hold the expected validations and one model and one prompt receipt.
_completed_observation(c) == c.status = "completed" /\ c.output \notin Unverified

\* _derive_run_provenance: the proof is derived from the record again.
_derive_run_provenance(output) == output \notin Unverified

\* _observation_binding_failure: the service checks the receipts once more.
_observation_binding_failure(seen) == seen.status = "completed" /\ seen.output \in Unverified

\* The call goes on with what it saw of its child.
Seen(p, pc, status, dialogue, output) ==
    Goto(p, Calling(pc, call[p].task, call[p].row, Observation(status, dialogue, output)))

\* Fault: a completed run is reported before its proof slot is written.
ObserveUnproved(p, c) ==
    \/ c.status = "running" /\ Goto(p, Returned(call[p].task, "running"))
    \/ c.status = "suspended" /\ Seen(p, "persisting", "suspended", Len(c.answers) + 1, None)
    \/ c.status \in Endings /\ Seen(p, "persisting", c.status, 0, c.output)

\* _observe: a run that is still running is shown as such and nothing is
\* stored; a completed one must get its proof first.
_observe(p, c) ==
    \/ c.status = "running" /\ Goto(p, Returned(call[p].task, "running"))
    \/ c.status = "suspended" /\ Seen(p, "persisting", "suspended", Len(c.answers) + 1, None)
    \/ _completed_observation(c) /\ Seen(p, "proving", "completed", 0, c.output)
    \/ /\ c.status = "completed" /\ ~_completed_observation(c)
       /\ Seen(p, "persisting", "failed", 0, None)
    \/ c.status \in Failures /\ Seen(p, "persisting", c.status, 0, None)

\* Adapter start: the gateway observes the run that is there.
child_start(p) ==
    LET c == child[call[p].task]
    IN  /\ call[p].pc = "starting"
        /\ IF c.status = "absent" THEN Goto(p, [call[p] EXCEPT !.pc = "creating"])
           ELSE _observe(p, c)
        /\ UNCHANGED <<worker, child, proofs, claims, crashes>>

\* engine.execute: it creates the run and drives it.  A run somebody else has
\* created meanwhile is observed, unless what it reads has changed since.
child_create(p) ==
    LET t == call[p].task
    IN  /\ call[p].pc = "creating"
        /\ \/ /\ child[t].status = "absent"
              /\ child' = [child EXCEPT ![t].status = "running"]
              /\ Goto(p, [call[p] EXCEPT !.pc = "driving"])
           \/ child[t].status # "absent" /\ _observe(p, child[t]) /\ UNCHANGED child
           \/ /\ child[t].status # "absent"
              /\ Seen(p, "persisting", "stale", 0, None)
              /\ UNCHANGED child
        /\ UNCHANGED <<worker, proofs, claims, crashes>>

\* The answer is recorded for the dialogue the continuation names.
Recorded(c, row) ==
    Len(c.answers) >= row.continuation /\ c.answers[row.continuation] = row.response

\* What the gateway does once the dialogue is not open: observe the run if
\* this answer is the recorded one, refuse otherwise.
ObserveAnswered(p, c) ==
    IF c.status # "suspended" /\ Recorded(c, call[p].row)
    THEN _observe(p, c) ELSE Seen(p, "persisting", "failed", 0, None)

\* Adapter resume: the gateway inspects the run.
child_resume(p) ==
    LET c == child[call[p].task]
        open == c.status = "suspended" /\ Len(c.answers) + 1 = call[p].row.continuation
    IN  /\ call[p].pc = "resuming"
        /\ IF open THEN Goto(p, [call[p] EXCEPT !.pc = "answering"]) ELSE ObserveAnswered(p, c)
        /\ UNCHANGED <<worker, child, proofs, claims, crashes>>

\* engine.resume: it loads the run again and answers the dialogue it is
\* suspended at, unless what the run reads has changed.
child_answer(p) ==
    LET t == call[p].task
        c == child[t]
    IN  /\ call[p].pc = "answering"
        /\ \/ /\ c.status = "suspended"
              /\ child' = [child EXCEPT ![t].status = "running",
                                        ![t].answers = Append(@, call[p].row.response)]
              /\ Goto(p, [call[p] EXCEPT !.pc = "driving"])
           \/ /\ c.status = "suspended"
              /\ Seen(p, "persisting", "stale", 0, None)
              /\ UNCHANGED child
           \/ c.status # "suspended" /\ ObserveAnswered(p, c) /\ UNCHANGED child
        /\ UNCHANGED <<worker, proofs, claims, crashes>>

\* The driven run reaches its next dialogue or its end.
child_drive(p) ==
    LET t == call[p].task
    IN  /\ call[p].pc = "driving"
        /\ \/ /\ Len(child[t].answers) < Dialogues
              /\ child' = [child EXCEPT ![t].status = "suspended"]
           \/ \E end \in Failures : child' = [child EXCEPT ![t].status = end]
           \/ \E output \in Outputs :
                child' = [child EXCEPT ![t].status = "completed", ![t].output = output]
        /\ Goto(p, [call[p] EXCEPT !.pc = "inspecting"])
        /\ UNCHANGED <<worker, proofs, claims, crashes>>

\* The gateway inspects the run it has driven and returns its outcome.
child_inspect(p) ==
    LET c == child[call[p].task]
        resumed == call[p].row.status = "resume_claimed"
    IN  /\ call[p].pc = "inspecting"
        /\ IF resumed /\ ~Recorded(c, call[p].row)
           THEN Seen(p, "persisting", "failed", 0, None) ELSE _observe(p, c)
        /\ UNCHANGED <<worker, child, proofs, claims, crashes>>

\* _gateway_failure: any gateway error but a retryable one becomes a failed
\* observation; the run itself stays as it is, or has just been created.
gateway_failure(p) ==
    LET t == call[p].task
    IN  /\ call[p].pc \in {"starting", "creating", "resuming", "answering", "driving",
                           "inspecting"}
        /\ \/ UNCHANGED child
           \/ /\ call[p].pc = "creating" /\ child[t].status = "absent"
              /\ child' = [child EXCEPT ![t].status = "running"]
        /\ Seen(p, "persisting", "failed", 0, None)
        /\ UNCHANGED <<worker, proofs, claims, crashes>>

\* VerifiedChildProofOwner.create: the slot of a child run is written once; an
\* equal proof is accepted, and any failure here is a failed observation.
proof_create(p) ==
    LET t == call[p].task
        output == call[p].seen.output
    IN  /\ call[p].pc = "proving"
        /\ \/ /\ _derive_run_provenance(output)
              /\ proofs[t] \in {None, output}
              /\ proofs' = [proofs EXCEPT ![t] = output]
              /\ Goto(p, [call[p] EXCEPT !.pc = "persisting"])
           \/ UNCHANGED proofs /\ Seen(p, "persisting", "failed", 0, None)
        /\ UNCHANGED <<worker, child, claims, crashes>>

\* VerifiedChildProofOwner.load: the slot is there and agrees with the run.
_verify(t) == proofs[t] # None /\ proofs[t] = child[t].output

-----------------------------------------------------------------------------
\* _terminal_state: the row keeps its generation and, if completed, its output.
_terminal_state(row, seen) == Row(seen.status, row.generation, 0, None, seen.output)

\* The row an observation turns the row it started from into.
Replacement(row, seen) ==
    IF seen.status = "suspended"
    THEN Row("suspended",
             IF row.status = "resume_claimed" THEN row.generation + 1 ELSE row.generation,
             seen.dialogue, None, None)
    ELSE _terminal_state(row, IF _observation_binding_failure(seen)
                              THEN Observation("failed", 0, None) ELSE seen)

\* _persist_observation: compare-and-set against the row the call started from;
\* a lost race is fine when the winner wrote the same, or a terminal row.
_persist_observation(p) ==
    LET t == call[p].task
        replacement == Replacement(call[p].row, call[p].seen)
    IN  /\ call[p].pc = "persisting"
        /\ worker' = IF worker[t] = call[p].row
                     THEN [worker EXCEPT ![t] = replacement] ELSE worker
        /\ Goto(p, Returned(t, IF worker'[t] = replacement \/ worker'[t].status \in Terminal
                               THEN worker'[t].status ELSE "conflict"))
        /\ UNCHANGED <<child, proofs, claims, crashes>>

\* A process dies, or a store raises in it, at any point of a call.
WorkerCrash(p) ==
    /\ call[p].pc \notin {"idle", "returned"}
    /\ crashes < MaxCrashes
    /\ crashes' = crashes + 1
    /\ Goto(p, Idle)
    /\ UNCHANGED <<worker, child, proofs, claims>>

WorkerStep(p) ==
    \/ resume_claim(p)
    \/ child_start(p)
    \/ child_create(p)
    \/ child_resume(p)
    \/ child_answer(p)
    \/ child_drive(p)
    \/ child_inspect(p)
    \/ proof_create(p)
    \/ _persist_observation(p)

NextWorkers ==
    \E p \in Procs :
       \/ \E t \in Tasks : start(p, t)
       \/ \E t \in Tasks, g \in 0..Dialogues, r \in Responses : resume(p, t, g, r)
       \/ WorkerStep(p)
       \/ gateway_failure(p)
       \/ WorkerCrash(p)

SpecWorkers == InitWorkers /\ [][NextWorkers]_workerVars

-----------------------------------------------------------------------------
WorkersTypeOK ==
    /\ \A t \in Tasks :
          /\ worker[t] \in [status : {"absent", "pending", "suspended", "resume_claimed"} \union Terminal,
                            generation : {n \in 0..Dialogues : n = 0 \/ n < Dialogues},
                            continuation : 0..Dialogues,
                            response : Responses \union {None}, output : Outputs \union {None}]
          /\ child[t].status \in {"absent", "running", "suspended"} \union Endings
          /\ proofs[t] \in Outputs \union {None}
    /\ \A p \in Procs :
          call[p].pc \in {"idle", "returned", "starting", "creating", "claiming", "resuming",
                          "answering", "driving", "inspecting", "proving", "persisting"}

\* What a task is said to have produced is what its child produced, and the
\* proof slot vouches for it: the owner of a completed row can always prove it, and
\* never has to for a run whose receipts are incomplete.
CompletedIsProved ==
    \A t \in Tasks : worker[t].status = "completed" =>
        /\ child[t].status = "completed"
        /\ worker[t].output = child[t].output
        /\ _verify(t)
        /\ worker[t].output \notin Unverified

\* The learner's answers reach the child as they were claimed: what the child
\* recorded for its n-th dialogue is the response claimed in generation n - 1,
\* and no generation is claimed twice.
AnswersAreClaimed ==
    \A t \in Tasks :
        /\ Len(claims[t]) <= worker[t].generation + 1
        /\ Len(child[t].answers) <= Len(claims[t])
        /\ \A n \in DOMAIN child[t].answers : child[t].answers[n] = claims[t][n]

\* A step never writes a terminal row again, and a suspended row with an
\* unanswered dialogue only by the claim of its generation: no slow observation
\* of an earlier generation can undo a later one.
RowsForward ==
    \A t \in Tasks : worker'[t] # worker[t] =>
        /\ worker[t].status \notin Terminal
        /\ worker[t].status = "suspended" =>
              /\ worker'[t].status = "resume_claimed"
              /\ worker'[t].generation = worker[t].generation
        /\ worker'[t].generation >= worker[t].generation

\* No answer and no result of a worker is lost or replaced, by retries, slow
\* observers or crashes between the child run and the worker's row.
WorkersKeepProgress == [][AnswersAreClaimed' /\ RowsForward]_workerVars
=============================================================================

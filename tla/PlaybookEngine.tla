--------------------------- MODULE PlaybookEngine ---------------------------
(***************************************************************************)
(* PlaybookEngine and the run store it checkpoints into.  A run is one row *)
(* of playbook_runs; execute() creates it, every step effect is followed   *)
(* by one compare-and-set of the whole row, a dialogue suspends it and     *)
(* resume() claims it again.  Any number of drivers (processes, retries,   *)
(* hosts) call the engine concurrently on the same runs; each await and    *)
(* each store statement is a step of its own.                              *)
(*                                                                         *)
(* A row keeps what the properties tell apart: what the run is bound to    *)
(* (pins, inputs, read dependencies), status, next step, outputs by step,  *)
(* and the step traces.  Wall-clock times are left out: the rows of one    *)
(* run are told apart by their traces, which never shrink.                 *)
(***************************************************************************)
EXTENDS Naturals, SequencesExt

CONSTANTS Drivers,      \* concurrent callers of the engine
          Runs,         \* run identities
          Steps,        \* the definition: the kind of every step, in order
          Gate,         \* Gate[i]: the validate step that gates dialogue i, or 0
          Bindings,     \* what a caller may bind: [pins, inputs, deps] records
          Installations,\* [core, runtime] versions a process can have installed
          Answers,      \* dialogue responses that match the response schema
          Gates         \* validator results a gate reads: yes, no, or not a boolean

N == Len(Steps)

ASSUME EngineAssumption ==
    /\ Steps \in Seq({"tool", "model", "validate", "dialogue"})
    /\ N > 0
    /\ Gate \in [1..N -> 0..N]
    /\ \A i \in 1..N : Gate[i] # 0 =>
          Steps[i] = "dialogue" /\ Gate[i] < i /\ Steps[Gate[i]] = "validate"
    /\ \A b \in Bindings : DOMAIN b = {"pins", "inputs", "deps"} /\ b.pins \in Installations
    /\ Gates \subseteq {"yes", "no", "notbool"}

VARIABLES store,      \* the rows of playbook_runs, by run identity
          driver,     \* driver[d]: local state of one execute or resume call
          installed,  \* the versions the processes run with
          effects,    \* history: awaited tool, model and validator calls per run
          results,    \* history: what execute, resume and recover returned
          lost        \* history: runs whose driver died or lost the store

vars == <<store, driver, installed, effects, results, lost>>

Terminal == {"completed", "failed", "cancelled"}

Values == {"value", "default"} \union Gates \union Answers

\* What a validator asks for: go on, stop with a passed outcome, or stop with a
\* failed one ("terminate" and "fail" are both ValidatorDisposition.TERMINATE).
Dispositions == {"none", "continue", "terminate", "fail"}

Idle == [pc |-> "idle"]

\* A mapping with one key set: an output under its step, a row under its run.
Put(f, key, value) == [k \in DOMAIN f \union {key} |-> IF k = key THEN value ELSE f[k]]

_trace(i, mark, value, disposition, generation) ==
    [step |-> i, mark |-> mark, value |-> value,
     disposition |-> disposition, generation |-> generation]

Mark(i, mark) == _trace(i, mark, "none", "none", <<>>)

\* _StoredRun with its checkpoint.
_checkpoint(bound, status, next, outputs, traces) ==
    [bound |-> bound, status |-> status, next |-> next,
     outputs |-> outputs, traces |-> traces]

\* SHA-256 of the canonical bytes: equal exactly when the rows are equal.
_checkpoint_fingerprint(row) == <<row.bound, row.status, row.next, row.outputs, row.traces>>

Empty == [j \in {} |-> "none"]

-----------------------------------------------------------------------------
(* What _load accepts: _validate_checkpoint_shape.                         *)

\* The gate of dialogue i, read from the outputs; Gate[i] = 0 always suspends.
_dialogue_gate_condition(i, outputs) ==
    IF Gate[i] = 0 THEN "yes" ELSE outputs[Gate[i]]

Completed(row) == IF row.status = "suspended" THEN row.next - 1 ELSE row.next

\* The marks a completed step i leaves in the trace.
StepMarks(row, i) ==
    IF Steps[i] = "dialogue" /\ _dialogue_gate_condition(i, row.outputs) = "yes"
    THEN <<<<i, "started">>, <<i, "suspended">>, <<i, "completed">>>>
    ELSE <<<<i, "started">>, <<i, "completed">>>>

\* The marks of the step the row stopped at, if it stopped inside one.
OpenMarks(row) ==
    CASE row.status = "suspended" -> <<<<row.next, "started">>, <<row.next, "suspended">>>>
      [] row.status \in {"failed", "cancelled"} ->
             <<<<row.next + 1, "started">>, <<row.next + 1, row.status>>>>
      [] OTHER -> <<>>

\* The suspended row a dialogue receipt was claimed from, rebuilt from the
\* current one: earlier outputs and earlier traces only.
SuspendedBefore(row, t) ==
    LET i == row.traces[t].step
    IN  _checkpoint(row.bound, "suspended", i,
                    [j \in 1..(i - 1) |-> row.outputs[j]], SubSeq(row.traces, 1, t - 1))

\* The receipt of a completed step against the output and the definition.
ReceiptHolds(row, t) ==
    LET trace == row.traces[t]
        i == trace.step
    IN  /\ i \in DOMAIN row.outputs
        /\ trace.value = row.outputs[i]
        /\ Steps[i] = "validate" => trace.disposition \in {"continue", "terminate", "fail"}
        /\ Steps[i] = "dialogue" =>
             IF _dialogue_gate_condition(i, row.outputs) = "yes"
             THEN trace.generation = _checkpoint_fingerprint(SuspendedBefore(row, t))
             ELSE trace.generation = <<>> /\ trace.value = "default"

_validate_checkpoint_shape(row) ==
    /\ row.next \in 0..N
    /\ row.status \in {"running", "suspended"} \union Terminal
    /\ row.status = "suspended" => row.next > 0 /\ Steps[row.next] = "dialogue"
    /\ row.status \in {"failed", "cancelled"} => row.next < N
    /\ DOMAIN row.outputs = 1..Completed(row)
    /\ \A i \in 1..row.next : Steps[i] = "dialogue" /\ i <= Completed(row) =>
          _dialogue_gate_condition(i, row.outputs) # "notbool"
    /\ row.status = "suspended" => _dialogue_gate_condition(row.next, row.outputs) = "yes"
    /\ [t \in DOMAIN row.traces |-> <<row.traces[t].step, row.traces[t].mark>>] =
          FlattenSeq([i \in 1..Completed(row) |-> StepMarks(row, i)]) \o OpenMarks(row)
    /\ \A t \in DOMAIN row.traces :
          row.traces[t].mark = "completed" => ReceiptHolds(row, t)

Init ==
    /\ store = Empty
    /\ driver = [d \in Drivers |-> Idle]
    /\ installed \in Installations
    /\ effects = [r \in Runs |-> <<>>]
    /\ results = {}
    /\ lost = {}

-----------------------------------------------------------------------------
(* The store statement: a write that applies, one whose acknowledgement is *)
(* lost, and one that raises before it applies.                            *)
Acks == {"ok", "lost", "raised"}

\* The running driver of run r: the row it last wrote and the one it writes next.
Stepping(r, row) == [pc |-> "stepping", run |-> r, expected |-> row]

Writing(r, row, replacement, return) ==
    [pc |-> "writing", run |-> r, expected |-> row, pending |-> replacement, return |-> return]

Result(r, status, row) == [run |-> r, status |-> status, outputs |-> row.outputs]

\* A process that ends with an exception instead of a result.
Raised(d) == driver' = [driver EXCEPT ![d] = Idle]

\* for index in range(next, N): the loop, or the result when nothing is left.
Drive(d, r, row) ==
    IF row.next < N
    THEN /\ driver' = [driver EXCEPT ![d] = Stepping(r, row)]
         /\ UNCHANGED results
    ELSE /\ driver' = [driver EXCEPT ![d] = Idle]
         /\ results' = results \union {Result(r, "completed", row)}

_preflight(bound) == bound.pins = installed

\* execute: preflight, then INSERT OR IGNORE of the initial row.  A refused
\* preflight and a duplicate run id change nothing.
execute(d, r, bound, ack) ==
    LET initial == _checkpoint(bound, "running", 0, Empty, <<>>)
    IN  /\ driver[d].pc = "idle"
        /\ _preflight(bound)
        /\ r \notin DOMAIN store
        /\ ack # "raised"
        /\ store' = Put(store, r, initial)
        /\ IF ack = "ok"
           THEN Drive(d, r, initial) /\ UNCHANGED lost
           ELSE Raised(d) /\ lost' = lost \union {r} /\ UNCHANGED results
        /\ UNCHANGED <<installed, effects>>

\* resume, up to the claim: preflight, load, and every comparison with the
\* stored row.  Other processes run before the claim is written.
resume(d, r, bound, answer) ==
    LET row == store[r]
        i == row.next
        answered == _trace(i, "completed", answer, "none", _checkpoint_fingerprint(row))
    IN  /\ driver[d].pc = "idle"
        /\ _preflight(bound)
        /\ r \in DOMAIN store
        /\ _validate_checkpoint_shape(row)
        /\ row.status = "suspended"
        /\ row.bound = bound
        /\ driver' = [driver EXCEPT ![d] =
                [pc |-> "claiming", run |-> r, expected |-> row,
                 pending |-> _checkpoint(bound, "running", row.next, Put(row.outputs, i, answer),
                                         Append(row.traces, answered))]]
        /\ UNCHANGED <<store, installed, effects, results, lost>>

\* UPDATE playbook_runs SET payload = ? WHERE run_id = ? AND payload = ?
compare_and_set(r, expected, replacement, ack) ==
    store' = IF ack # "raised" /\ store[r] = expected
             THEN Put(store, r, replacement) ELSE store

\* Fault: the claim is written and driven on without comparing the row.
ClaimBlindly(d, ack) ==
    LET call == driver[d]
    IN  /\ call.pc = "claiming"
        /\ ack = "ok"
        /\ store' = Put(store, call.run, call.pending)
        /\ Drive(d, call.run, call.pending)
        /\ UNCHANGED <<installed, effects, lost>>

\* The claim of resume: the winner drives on, the loser is refused.
resume_claim(d, ack) ==
    LET call == driver[d]
        won == store[call.run] = call.expected
    IN  /\ call.pc = "claiming"
        /\ compare_and_set(call.run, call.expected, call.pending, ack)
        /\ IF ack = "ok" /\ won
           THEN Drive(d, call.run, call.pending) /\ UNCHANGED lost
           ELSE /\ Raised(d)
                /\ lost' = IF ack = "lost" /\ won THEN lost \union {call.run} ELSE lost
                /\ UNCHANGED results
        /\ UNCHANGED <<installed, effects>>

-----------------------------------------------------------------------------
(* _run: one iteration per step, effect first, then the checkpoint CAS.    *)

\* Fault: the last row is written as RUNNING.
AdvancedStillRunning(row, value, disposition) ==
    LET i == row.next + 1
    IN  _checkpoint(row.bound, "running", i, Put(row.outputs, i, value),
                    row.traces \o <<Mark(i, "started"),
                                    _trace(i, "completed", value, disposition, <<>>)>>)

\* The step completed with a value: COMPLETED at the last step or when a
\* validator terminates, RUNNING otherwise.
Advanced(row, value, disposition) ==
    LET i == row.next + 1
        terminates == disposition \in {"terminate", "fail"}
    IN  _checkpoint(row.bound, IF i = N \/ terminates THEN "completed" ELSE "running", i,
                    Put(row.outputs, i, value),
                    row.traces \o <<Mark(i, "started"),
                                    _trace(i, "completed", value, disposition, <<>>)>>)

\* PlaybookEngineError inside the step: FAILED or CANCELLED at this index.
Stopped(row, status) ==
    LET i == row.next + 1
    IN  _checkpoint(row.bound, status, row.next, row.outputs,
                    row.traces \o <<Mark(i, "started"), Mark(i, status)>>)

\* Fault: a suspended row points at the dialogue instead of behind it.
SuspendedAt(row) ==
    LET i == row.next + 1
    IN  _checkpoint(row.bound, "suspended", row.next, row.outputs,
                    row.traces \o <<Mark(i, "started"), Mark(i, "suspended")>>)

Suspended(row) ==
    LET i == row.next + 1
    IN  _checkpoint(row.bound, "suspended", i, row.outputs,
                    row.traces \o <<Mark(i, "started"), Mark(i, "suspended")>>)

ReturnOf(row, disposition) ==
    IF disposition \in {"terminate", "fail"} THEN "terminated" ELSE row.status

Write(d, row, replacement, return) ==
    driver' = [driver EXCEPT ![d] = Writing(driver[d].run, row, replacement, return)]

\* The value a step of this kind can return, with a validator's disposition.
StepOutcomes(kind) ==
    IF kind = "validate" THEN Gates \X {"continue", "terminate", "fail"}
    ELSE {<<"value", "none">>}

\* An awaited tool, model or validator call that returns.
_execute_step(d, outcome) ==
    LET row == driver[d].expected
        i == row.next + 1
        replacement == Advanced(row, outcome[1], outcome[2])
    IN  /\ driver[d].pc = "stepping"
        /\ Steps[i] # "dialogue"
        /\ outcome \in StepOutcomes(Steps[i])
        /\ effects' = [effects EXCEPT ![driver[d].run] =
                          Append(@, [step |-> i, bound |-> row.bound])]
        /\ Write(d, row, replacement, ReturnOf(replacement, outcome[2]))
        /\ UNCHANGED <<store, installed, results, lost>>

\* The call raises, returns output its schema or a fallback validator refuses,
\* or (model only) reports cancellation; a binding may fail before the call.
step_fails(d, status, called) ==
    LET row == driver[d].expected
        i == row.next + 1
    IN  /\ driver[d].pc = "stepping"
        /\ Steps[i] # "dialogue"
        /\ status = "cancelled" => Steps[i] = "model" /\ called
        /\ effects' = IF called
                      THEN [effects EXCEPT ![driver[d].run] =
                               Append(@, [step |-> i, bound |-> row.bound])]
                      ELSE effects
        /\ Write(d, row, Stopped(row, status), status)
        /\ UNCHANGED <<store, installed, results, lost>>

\* A dialogue never calls out: it suspends, is skipped with the pinned default
\* response, or fails when the gate is not a boolean.
_dialogue_should_suspend(d) ==
    LET row == driver[d].expected
        i == row.next + 1
        gate == _dialogue_gate_condition(i, row.outputs)
    IN  /\ driver[d].pc = "stepping"
        /\ Steps[i] = "dialogue"
        /\ CASE gate = "yes" -> Write(d, row, Suspended(row), "suspended")
             [] gate = "no"  -> LET skipped == Advanced(row, "default", "none")
                                IN  Write(d, row, skipped, skipped.status)
             [] OTHER        -> Write(d, row, Stopped(row, "failed"), "failed")
        /\ UNCHANGED <<store, installed, effects, results, lost>>

\* The checkpoint CAS after a step: drive on, return, or raise RUN_STORE_ERROR.
advance(d, ack) ==
    LET call == driver[d]
        won == store[call.run] = call.expected
    IN  /\ call.pc = "writing"
        /\ compare_and_set(call.run, call.expected, call.pending, ack)
        /\ CASE ack = "ok" /\ won /\ call.return = "running" ->
                  Drive(d, call.run, call.pending) /\ UNCHANGED lost
             [] ack = "ok" /\ won /\ call.return # "running" ->
                  /\ driver' = [driver EXCEPT ![d] = Idle]
                  /\ results' = IF call.return = "suspended" THEN results
                                ELSE results \union {Result(call.run, call.return, call.pending)}
                  /\ UNCHANGED lost
             [] OTHER -> Raised(d) /\ lost' = lost \union {call.run} /\ UNCHANGED results
        /\ UNCHANGED <<installed, effects>>

\* The process dies, or an exception that is not a PlaybookEngineError (a task
\* cancelled by asyncio, SIGINT) unwinds execute or resume.
Crash(d) ==
    /\ driver[d].pc # "idle"
    /\ driver' = [driver EXCEPT ![d] = Idle]
    /\ lost' = IF driver[d].pc = "claiming" THEN lost ELSE lost \union {driver[d].run}
    /\ UNCHANGED <<store, installed, effects, results>>

\* _recovered_termination and the end of recover: what a stored success proves.
\* Any other row, and a failed termination, is refused.
_recovered_termination(row) ==
    LET disposition == Last(row.traces).disposition
    IN  IF row.status # "completed" \/ disposition = "fail" THEN "refused"
        ELSE IF disposition = "terminate" THEN "terminated"
        ELSE IF row.next = N THEN "completed" ELSE "refused"

\* _inspect_expected: only the versions it compares must be installed.
_inspect_expected(bound, row) ==
    /\ bound.pins.core = installed.core
    /\ _validate_checkpoint_shape(row)
    /\ row.bound = bound

\* recover: the stored success, verified without executing anything.
recover(d, r, bound) ==
    LET row == store[r]
    IN  /\ driver[d].pc = "idle"
        /\ r \in DOMAIN store
        /\ _inspect_expected(bound, row)
        /\ _recovered_termination(row) # "refused"
        /\ results' = results \union {Result(r, _recovered_termination(row), row)}
        /\ UNCHANGED <<store, driver, installed, effects, lost>>

\* The operator installs other versions; running processes are restarted.
Upgrade ==
    /\ \A d \in Drivers : driver[d].pc = "idle"
    /\ installed' \in Installations \ {installed}
    /\ UNCHANGED <<store, driver, effects, results, lost>>

Step(d) ==
    \/ \E outcome \in Values \X Dispositions : _execute_step(d, outcome)
    \/ \E status \in {"failed", "cancelled"}, called \in BOOLEAN : step_fails(d, status, called)
    \/ _dialogue_should_suspend(d)
    \/ \E ack \in Acks : advance(d, ack) \/ resume_claim(d, ack)

Next ==
    \/ \E d \in Drivers :
         \/ \E r \in Runs, bound \in Bindings :
              \/ \E ack \in Acks : execute(d, r, bound, ack)
              \/ \E answer \in Answers : resume(d, r, bound, answer)
              \/ recover(d, r, bound)
         \/ Step(d)
         \/ Crash(d)
    \/ Upgrade

Spec == Init /\ [][Next]_vars

\* A driver that is not killed is scheduled and its awaited calls return: tools
\* and models have transport timeouts, the store a busy timeout of 30 seconds.
FairSpec == Spec /\ \A d \in Drivers : WF_vars(Step(d))

-----------------------------------------------------------------------------
Driving(d, r) == driver[d].pc \in {"stepping", "writing"} /\ driver[d].run = r

TypeOK ==
    /\ installed \in Installations
    /\ lost \subseteq Runs
    /\ DOMAIN store \subseteq Runs
    /\ \A r \in DOMAIN store :
          /\ store[r].bound \in Bindings
          /\ store[r].status \in {"running", "suspended"} \union Terminal
          /\ store[r].next \in 0..N
    /\ \A d \in Drivers : driver[d].pc \in {"idle", "claiming", "stepping", "writing"}

\* Every row the engine writes is one its own _load accepts, after any
\* interleaving of drivers, crashes and lost acknowledgements.
StoredRunsLoad == \A r \in DOMAIN store : _validate_checkpoint_shape(store[r])

\* Awaited effects of a run happen in step order, each at most once, and all
\* under the pins, inputs and dependencies the run was created with.
EffectsOnceInOrder ==
    \A r \in Runs : \A k \in DOMAIN effects[r] :
        /\ r \in DOMAIN store
        /\ effects[r][k].bound = store[r].bound
        /\ \A l \in 1..(k - 1) : effects[r][l].step < effects[r][k].step

\* At most one driver drives a run, and the row it will compare against is the
\* stored one: a checkpoint advance never loses its compare-and-set.
OneDriverPerRun ==
    \A d \in Drivers, r \in Runs : Driving(d, r) =>
        /\ r \in DOMAIN store
        /\ driver[d].expected = store[r]
        /\ store[r].status = "running"
        /\ \A e \in Drivers : Driving(e, r) => e = d

\* A result handed to a caller is the durable state of the run: recover and
\* every later reader see the same status and outputs.
ResultsAreDurable ==
    \A x \in results :
        /\ x.run \in DOMAIN store
        /\ store[x.run].status = IF x.status = "terminated" THEN "completed" ELSE x.status
        /\ store[x.run].outputs = x.outputs

\* A run whose driver is not lost is eventually suspended or finished.
RunsSettle ==
    \A r \in Runs : r \in DOMAIN store ~>
        r \in lost \/ (r \in DOMAIN store /\ store[r].status # "running")
=============================================================================

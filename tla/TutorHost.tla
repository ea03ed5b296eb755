------------------------------ MODULE TutorHost ------------------------------
(***************************************************************************)
(* TutorHostRunner: one call of run is one bounded turn of an external     *)
(* tutor.  It loads the continuation the host selected, reads the study    *)
(* state, asks the tutor for a decision, and carries it out through the    *)
(* capability gateway.  Several processes may run turns of one session at  *)
(* once, retry a turn with the receipt they were given, and be interrupted *)
(* between any two effects.  The gateway is the one of CapabilityGateway,  *)
(* call by call and in the same phases; of a run it keeps the status, the  *)
(* answers in order and the version it read, and of the engine one step to *)
(* the next dialogue or the end.                                           *)
(***************************************************************************)
EXTENDS Naturals, Sequences, FiniteSets

CONSTANTS Hosts,         \* processes that run turns
          Turns,         \* host turn identities
          Actions,       \* capabilities the tutor may start
          Responses,     \* what it may answer to a dialogue
          Versions,      \* the study state goes through versions 1..Versions
          Dialogues,     \* how many dialogues a run may ask
          Limits,        \* Limits[h]: the TutorHostLimits of a process
          MaxRetries,    \* MAX_HOST_RETRY_ATTEMPTS
          MaxCalls,      \* MaxCalls[h]: bound on the calls of a process
          None           \* no value

ASSUME HostAssumption ==
    /\ {Versions, MaxRetries} \subseteq Nat \ {0}
    /\ \A h \in Hosts : {Limits[h].max_decisions, Limits[h].max_provider_attempts_per_decision,
                         Limits[h].max_stale_refreshes} \subseteq Nat \ {0}
    /\ Dialogues \in Nat
    /\ MaxCalls \in [Hosts -> Nat]

VARIABLES version,   \* the high-water sequence of the study state
          runs,      \* the gateway's runs, by the identity of their action
          records,   \* the continuation store: the owner of each stored continuation
          host,      \* host[h]: the call of a process
          results,   \* history: what calls have handed out
          dropped,   \* history: the continuations whose record was deleted
          slower,    \* history: the dialogues answered by a call that had selected another
          calls

hostVars == <<version, runs, records, host, results, dropped, slower, calls>>

Put(f, x, value) == [y \in DOMAIN f \union {x} |-> IF y = x THEN value ELSE f[y]]

Drop(f, x) == [y \in DOMAIN f \ {x} |-> f[y]]

\* TutorHostContext, up to its fingerprint: the sequence both views were read
\* through, and the pending continuation it shows.
TutorHostContext(sequence, pending) == [sequence |-> sequence, pending |-> pending]

\* The decisions a tutor may make; a message may be longer than allowed.
StartCapabilityDecision(a) == [kind |-> "start", what |-> a]
AnswerDialogueDecision(r) == [kind |-> "answer", what |-> r]
AskLearnerDecision(long) == [kind |-> "ask", what |-> long]
StopDecision(reason) == [kind |-> "stop", what |-> reason]

Decisions ==
    {StartCapabilityDecision(a) : a \in Actions}
    \union {AnswerDialogueDecision(r) : r \in Responses}
    \union {AskLearnerDecision(long) : long \in BOOLEAN}
    \union {StopDecision(reason) : reason \in {"completed", "stopped"}}

\* The identity port: equal exactly for equal arguments.
HostActionIdentity(turn, context, decision, generation) ==
    [turn |-> turn, context |-> context, decision |-> decision, generation |-> generation]

HostRetryReceipt(identity, attempt) == [identity |-> identity, attempt |-> attempt]

\* CapabilityContinuation: the n-th dialogue of a run.
CapabilityContinuation(run, n) == [run |-> run, dialogue |-> n]

\* TutorHostRunResult; an output is the run that produced it.
Result(status, receipt, output, pending) ==
    [status |-> status, receipt |-> receipt, output |-> output, pending |-> pending]

\* run, on entry: the receipt and the continuation the host passed.
Call(turn, receipt, pending) ==
    [pc |-> IF pending = None THEN "turning" ELSE "loading",
     turn |-> turn, receipt |-> receipt, selected |-> pending, owner |-> None,
     decisions |-> 0, attempts |-> 0, refreshes |-> 0, generation |-> 1,
     context |-> None, decision |-> None, action |-> None, read |-> 0, outcome |-> None]

Idle == [pc |-> "idle"]

Init ==
    /\ version = 1
    /\ runs = [x \in {} |-> None]
    /\ records = [x \in {} |-> None]
    /\ host = [h \in Hosts |-> Idle]
    /\ results = {} /\ dropped = {} /\ slower = {}
    /\ calls = [h \in Hosts |-> 0]

-----------------------------------------------------------------------------
Goto(h, next) == host' = [host EXCEPT ![h] = next]

\* A call returns.  Of a call that ends neither suspended nor completed only what
\* its caller can come back with is kept, the receipt and the continuation each
\* for itself, and only while calls are left.
Return(h, status, receipt, output, pending) ==
    LET handed ==
          CASE status \in {"suspended", "completed"} -> {Result(status, receipt, output, pending)}
            [] OTHER -> IF calls = MaxCalls THEN {}
                        ELSE {Result("unfinished", receipt, None, None),
                              Result("unfinished", None, None, pending)}
    IN  /\ Goto(h, Idle)
        /\ results' = results \union {r \in handed : {r.receipt, r.output, r.pending} # {None}}

_failed(h, receipt) == Return(h, "failed", receipt, None, None)

_budget(h) == Return(h, "budget_exhausted", None, None, None)

\* Interrupted, with what the call holds: the continuation it selected, and its
\* own receipt once it has issued one.
_interrupted_result(h) ==
    LET c == host[h]
        receipt == IF c.action # None THEN c.action ELSE c.receipt
    IN  IF c.pc = "loading" THEN Return(h, "interrupted", None, None, None)
        ELSE Return(h, "interrupted", receipt, None, c.selected)

\* run: a host may present any receipt and any continuation it was handed.
run(h, turn, receipt, pending) ==
    /\ host[h] = Idle
    /\ calls[h] < MaxCalls[h]
    /\ calls' = [calls EXCEPT ![h] = @ + 1]
    /\ Goto(h, Call(turn, receipt, pending))
    /\ UNCHANGED <<version, runs, records, results, dropped, slower>>

\* _load: the selected continuation must still be stored.
_load(h) ==
    LET c == host[h]
    IN  /\ c.pc = "loading"
        /\ IF c.selected \in DOMAIN records
           THEN Goto(h, [c EXCEPT !.pc = "turning", !.owner = records[c.selected]]) /\ UNCHANGED results
           ELSE _failed(h, None)
        /\ UNCHANGED <<version, runs, records, dropped, slower, calls>>

\* The top of the loop, and the first view of the study state.
loop(h) ==
    LET c == host[h]
    IN  /\ c.pc = "turning"
        /\ IF c.decisions >= Limits[h].max_decisions THEN _budget(h)
           ELSE Goto(h, [c EXCEPT !.pc = "assembling", !.read = version]) /\ UNCHANGED results
        /\ UNCHANGED <<version, runs, records, dropped, slower, calls>>

\* assemble, the second view: both must have been read through one sequence.
_assemble(h) ==
    LET c == host[h]
    IN  /\ c.pc = "assembling"
        /\ IF version = c.read
           THEN /\ Goto(h, [c EXCEPT !.pc = "deciding", !.read = 0, !.decision = None,
                                     !.context = TutorHostContext(version, c.selected)])
                /\ UNCHANGED results
           ELSE _failed(h, None)
        /\ UNCHANGED <<version, runs, records, dropped, slower, calls>>

\* Fault: the count of provider attempts starts over at the limit.
DecideForever(h) ==
    LET c == host[h]
    IN  /\ c.pc = "deciding"
        /\ Goto(h, [c EXCEPT !.attempts = (@ + 1) % Limits[h].max_provider_attempts_per_decision])
        /\ UNCHANGED <<version, runs, records, results, dropped, slower, calls>>

\* _decide: a retryable provider error is tried again within its budget.
_decide(h) ==
    LET c == host[h]
    IN  /\ c.pc = "deciding"
        /\ IF c.attempts + 1 >= Limits[h].max_provider_attempts_per_decision THEN _budget(h)
           ELSE Goto(h, [c EXCEPT !.attempts = @ + 1]) /\ UNCHANGED results
        /\ UNCHANGED <<version, runs, records, dropped, slower, calls>>

\* _issue_action: a receipt is good for the exact action it was issued for.
_issue_action(c, identity) ==
    c.receipt # None => c.receipt.identity = identity /\ c.receipt.attempt < MaxRetries

\* The effect of a start or answer decision: issue its action and receipt.
act(h, d) ==
    LET c == host[h]
        identity == HostActionIdentity(c.turn, c.context, d, c.generation)
        attempt == IF c.receipt = None THEN 1 ELSE c.receipt.attempt + 1
    IN  IF _issue_action(c, identity)
        THEN /\ Goto(h, [c EXCEPT !.pc = IF d.kind = "start" THEN "starting" ELSE "answering",
                                  !.decisions = @ + 1, !.decision = d, !.context = None, !.attempts = 0,
                                  !.action = HostRetryReceipt(identity, attempt)])
             /\ UNCHANGED results
        ELSE _failed(h, c.receipt)

\* validate_decision: an answer is only good for the pending continuation.
validate_decision(c, d) == d.kind = "answer" => c.context.pending # None

\* The tutor has decided.
decided(h, d) ==
    LET c == host[h]
    IN  /\ c.pc = "deciding"
        /\ CASE ~validate_decision(c, d) -> _failed(h, None)
             [] d.kind = "ask" /\ d.what -> _budget(h)
             [] d.kind = "ask" /\ ~d.what -> Return(h, "needs_learner_input", None, None, None)
             [] d.kind = "stop" -> Return(h, d.what, None, None, None)
             [] OTHER -> act(h, d)
        /\ UNCHANGED <<version, runs, records, dropped, slower, calls>>

-----------------------------------------------------------------------------
(* The gateway, as the runner uses it.  Between two of its phases calls of  *)
(* other processes take steps.                                              *)

Run(status, answers, base) == [status |-> status, answers |-> answers, base |-> base]

\* A call goes on with an outcome.
Settle(h, status, r, dialogue) ==
    /\ Goto(h, [host[h] EXCEPT !.pc = "settling",
                               !.outcome = [status |-> status, run |-> r, dialogue |-> dialogue]])
    /\ UNCHANGED results

\* The outcome a row stands for; a run somebody drives is reported as in
\* progress, with the receipt to come back with.
Outcome(h, r, row) ==
    IF row.status = "running" THEN Return(h, "in_progress", host[h].action, None, None)
    ELSE Settle(h, row.status, r, IF row.status = "suspended" THEN Len(row.answers) + 1 ELSE 0)

StaleOutcome(h, r) == Settle(h, "stale", r, 0)

\* start: observe the run of this action, or resolve what a new one will read.
gateway_start(h) ==
    LET c == host[h]
        r == c.action.identity
    IN  /\ c.pc = "starting"
        /\ IF r \in DOMAIN runs THEN Outcome(h, r, runs[r])
           ELSE Goto(h, [c EXCEPT !.pc = "creating", !.read = version]) /\ UNCHANGED results
        /\ UNCHANGED <<version, runs, records, dropped, slower, calls>>

\* The engine creates the run, unless another process just did.
gateway_create(h) ==
    LET c == host[h]
        r == c.action.identity
    IN  /\ c.pc = "creating"
        /\ CASE r \notin DOMAIN runs ->
                  /\ runs' = Put(runs, r, Run("running", <<>>, c.read))
                  /\ Goto(h, [c EXCEPT !.pc = "driving", !.read = 0])
                  /\ UNCHANGED results
             [] r \in DOMAIN runs /\ runs[r].base # c.read -> StaleOutcome(h, r) /\ UNCHANGED runs
             [] OTHER -> Outcome(h, r, runs[r]) /\ UNCHANGED runs
        /\ UNCHANGED <<version, records, dropped, slower, calls>>

\* _require_persisted_resume: the call's answer is the one recorded for the
\* dialogue it selected.
_require_persisted_resume(c) ==
    LET answers == runs[c.selected.run].answers
    IN  c.selected.dialogue <= Len(answers) /\ answers[c.selected.dialogue] = c.decision.what

\* resume: the dialogue must be the open one, or this answer the recorded one.
gateway_inspect(h) ==
    LET c == host[h]
        row == runs[c.selected.run]
        suspended == row.status = "suspended"
    IN  /\ c.pc = "answering"
        /\ CASE suspended /\ Len(row.answers) + 1 = c.selected.dialogue ->
                  Goto(h, [c EXCEPT !.pc = "resolving"]) /\ UNCHANGED results
             [] ~suspended /\ _require_persisted_resume(c) -> Outcome(h, c.selected.run, row)
             [] OTHER -> _failed(h, c.action)
        /\ UNCHANGED <<version, runs, records, dropped, slower, calls>>

\* _dependencies: what the answer would read now.
gateway_resolve(h) ==
    /\ host[h].pc = "resolving"
    /\ Goto(h, [host[h] EXCEPT !.pc = "resuming", !.read = version])
    /\ UNCHANGED <<version, runs, records, results, dropped, slower, calls>>

\* engine.resume loads the row again and is not told which dialogue was
\* selected: it will answer the one the row is suspended at, kept in read.
gateway_resume(h) ==
    LET c == host[h]
        row == runs[c.selected.run]
    IN  /\ c.pc = "resuming"
        /\ CASE row.status # "suspended" ->
                  Goto(h, [c EXCEPT !.pc = "observing", !.read = 0]) /\ UNCHANGED results
             [] row.status = "suspended" /\ row.base # c.read -> StaleOutcome(h, c.selected.run)
             [] OTHER ->
                  Goto(h, [c EXCEPT !.pc = "claiming", !.read = Len(row.answers) + 1]) /\ UNCHANGED results
        /\ UNCHANGED <<version, runs, records, dropped, slower, calls>>

\* The compare-and-set of engine.resume records the answer, if the row is still
\* the loaded one.
gateway_claim(h) ==
    LET c == host[h]
        k == c.selected
        row == runs[k.run]
        answered == CapabilityContinuation(k.run, c.read)
        won == row.status = "suspended" /\ Len(row.answers) + 1 = c.read
    IN  /\ c.pc = "claiming"
        /\ Goto(h, [c EXCEPT !.pc = IF won THEN "driving" ELSE "observing", !.read = 0])
        /\ runs' = IF won
                   THEN [runs EXCEPT ![k.run] = Run("running", Append(row.answers, c.decision.what), row.base)]
                   ELSE runs
        /\ slower' = IF won /\ answered # k THEN slower \union {answered} ELSE slower
        /\ UNCHANGED <<version, records, results, dropped, calls>>

\* The run a call drives.
Driven(c) == IF c.decision.kind = "start" THEN c.action.identity ELSE c.selected.run

\* The driven run reaches its next dialogue or its end.  A run that ended without
\* an output was terminated, failed or cancelled; the last two raise, and the row
\* is not observed again.
gateway_drive(h) ==
    LET c == host[h]
        r == Driven(c)
    IN  /\ c.pc = "driving"
        /\ \E status \in {"suspended", "completed", "ended"} :
              /\ status = "suspended" => Len(runs[r].answers) < Dialogues
              /\ runs' = [runs EXCEPT ![r].status = status]
              /\ \/ Goto(h, [c EXCEPT !.pc = "observing"]) /\ UNCHANGED results
                 \/ status = "ended" /\ Settle(h, "ended", r, 0)
        /\ UNCHANGED <<version, records, dropped, slower, calls>>

\* After the engine: an answer must be the recorded one, and the outcome is that
\* of the row as it is now.
gateway_observe(h) ==
    LET c == host[h]
        r == Driven(c)
    IN  /\ c.pc = "observing"
        /\ IF c.decision.kind = "answer" => _require_persisted_resume(c)
           THEN Outcome(h, r, runs[r])
           ELSE _failed(h, c.action)
        /\ UNCHANGED <<version, runs, records, dropped, slower, calls>>

\* _engine_error: a store or a schema the engine could not get past is an outcome
\* of its own, failed, and the run stays as it is.
engine_fails(h) ==
    /\ host[h].pc \in {"creating", "resuming", "claiming", "driving"}
    /\ Settle(h, "ended", Driven(host[h]), 0)
    /\ UNCHANGED <<version, runs, records, dropped, slower, calls>>

\* A gateway or authority error that is not in progress: the run stays as it is.
gateway_raises(h) ==
    /\ host[h].pc \in {"starting", "creating", "answering", "resolving", "observing"}
    /\ _failed(h, host[h].action)
    /\ UNCHANGED <<version, runs, records, dropped, slower, calls>>

-----------------------------------------------------------------------------
(* What a call does with an outcome.                                        *)

\* _delete: the record of the selected continuation, if the call has one.
_delete(c) ==
    /\ records' = IF c.selected = None THEN records ELSE Drop(records, c.selected)
    /\ dropped' = IF c.selected = None THEN dropped ELSE dropped \union {c.selected}

\* A stale outcome starts another generation, within its budget, without the
\* continuation and without the receipt.
refresh(h) ==
    LET c == host[h]
    IN  IF c.refreshes + 1 > Limits[h].max_stale_refreshes THEN _budget(h)
        ELSE /\ Goto(h, [c EXCEPT !.pc = "turning", !.refreshes = @ + 1, !.generation = @ + 1,
                                  !.receipt = None, !.selected = None, !.owner = None,
                                  !.action = None, !.outcome = None])
             /\ UNCHANGED results

stale_outcome(h) ==
    LET c == host[h]
    IN  /\ c.pc = "settling" /\ c.outcome.status = "stale"
        /\ _delete(c)
        /\ \/ c.selected # None /\ _interrupted_result(h)
           \/ refresh(h)
        /\ UNCHANGED <<version, runs, slower, calls>>

\* The execution context a new record keeps: the one the run was started with.
RecordOwner(c) == IF c.decision.kind = "start" THEN c.action.identity ELSE c.owner

\* Fault: a record that could not be stored is promised all the same.
StoreUnchecked(h) ==
    LET c == host[h]
        k == CapabilityContinuation(c.outcome.run, c.outcome.dialogue)
    IN  /\ c.pc = "settling" /\ c.outcome.status = "suspended"
        /\ Return(h, "suspended", c.action, None, k)
        /\ UNCHANGED <<version, runs, records, dropped, slower, calls>>

\* A suspended outcome: the record is stored before the dialogue is shown; an
\* equal record is accepted.  The record the call had selected stays.  An
\* interruption seen after the record was stored hands out the new one.
suspended_outcome(h) ==
    LET c == host[h]
        k == CapabilityContinuation(c.outcome.run, c.outcome.dialogue)
        owner == RecordOwner(c)
    IN  /\ c.pc = "settling" /\ c.outcome.status = "suspended"
        /\ records' = IF k \in DOMAIN records THEN records ELSE Put(records, k, owner)
        /\ \/ _interrupted_result(h)
           \/ records'[k] = owner /\ \E status \in {"suspended", "interrupted"} :
                 Return(h, status, c.action, None, k)
           \/ records'[k] # owner /\ _failed(h, c.action)
        /\ UNCHANGED <<version, runs, dropped, slower, calls>>

\* Fault: a run that ended without an output is reported as completed.
MapAllCompleted(h, c) == Return(h, "completed", None, c.outcome.run, None)

\* _map_terminal: only a completed run shows its output.
_map_terminal(h, c) ==
    IF c.outcome.status = "completed"
    THEN Return(h, "completed", None, c.outcome.run, None)
    ELSE Return(h, c.outcome.status, c.action, None, None)

terminal_outcome(h) ==
    LET c == host[h]
    IN  /\ c.pc = "settling" /\ c.outcome.status \notin {"stale", "suspended"}
        /\ _delete(c)
        /\ \/ c.selected # None /\ _interrupted_result(h)
           \/ _map_terminal(h, c)
        /\ UNCHANGED <<version, runs, slower, calls>>

\* The store raises: nothing is stored or deleted.
store_raises(h) ==
    /\ host[h].pc = "settling"
    /\ _failed(h, host[h].action)
    /\ UNCHANGED <<version, runs, records, dropped, slower, calls>>

\* The interruption token is seen at one of the checks between the effects, or
\* after the gateway raised.
interrupted(h) ==
    /\ host[h] # Idle
    /\ _interrupted_result(h)
    /\ UNCHANGED <<version, runs, records, dropped, slower, calls>>

\* The process dies, and its caller gets no result.
Crash(h) ==
    /\ host[h] # Idle
    /\ Goto(h, Idle)
    /\ UNCHANGED <<version, runs, records, results, dropped, slower, calls>>

\* Another owner appends to the study state.
StudyStateMoves ==
    /\ version < Versions
    /\ version' = version + 1
    /\ UNCHANGED <<runs, records, host, results, dropped, slower, calls>>

HostStep(h) ==
    \/ _load(h) \/ loop(h) \/ _assemble(h) \/ _decide(h)
    \/ \E d \in Decisions : decided(h, d)
    \/ gateway_start(h) \/ gateway_create(h)
    \/ gateway_inspect(h) \/ gateway_resolve(h) \/ gateway_resume(h) \/ gateway_claim(h)
    \/ gateway_drive(h) \/ gateway_observe(h)
    \/ stale_outcome(h) \/ suspended_outcome(h) \/ terminal_outcome(h)

Receipts == {r.receipt : r \in results} \ {None}

Pendings == {r.pending : r \in results} \ {None}

Next ==
    \/ \E h \in Hosts :
          \/ \E turn \in Turns, receipt \in Receipts \union {None}, pending \in Pendings \union {None} :
                run(h, turn, receipt, pending)
          \/ HostStep(h)
          \/ engine_fails(h) \/ gateway_raises(h) \/ store_raises(h) \/ interrupted(h)
          \/ Crash(h)
    \/ StudyStateMoves

\* A call that is under way keeps running.
Spec == Init /\ [][Next]_hostVars /\ \A h \in Hosts : WF_hostVars(HostStep(h))

-----------------------------------------------------------------------------
\* Types: every stale outcome a call met started one more generation.
TypeOK ==
    /\ version \in 1..Versions
    /\ \A h \in Hosts : host[h] # Idle => host[h].generation = host[h].refreshes + 1

\* Every stored continuation can be answered: it is a dialogue its run has
\* asked, and its record carries the authority that run was started with,
\* however many dialogues were answered in between and by whom.
RecordsAreResumable ==
    \A k \in DOMAIN records :
        /\ k.run \in DOMAIN runs
        /\ records[k] = k.run
        /\ k.dialogue <= Len(runs[k.run].answers) + 1

\* A dialogue a learner was shown is not lost: its record is stored until a
\* call that selected it has ended with another outcome.  A dialogue that was
\* never recorded is answered in one way only: by a slower call that had
\* inspected an earlier dialogue of the run, and never the first one.
SuspensionIsResumable ==
    /\ \A r \in results : r.status = "suspended" => r.pending \in DOMAIN records \union dropped
    /\ \A id \in DOMAIN runs : \A n \in DOMAIN runs[id].answers :
          CapabilityContinuation(id, n) \in DOMAIN records \union dropped \union slower
    /\ \A k \in slower : k.dialogue > 1

\* Dialogues survive the host: every stored record can be answered, and every
\* dialogue a learner was shown has one until it is over.
DialoguesSurvive == TypeOK /\ RecordsAreResumable /\ SuspensionIsResumable

\* The run an action starts or answers, by its identity.
RunOfAction(id) == IF id.decision.kind = "start" THEN id ELSE id.context.pending.run

\* What is reported as completed is completed, with the output of that run; and
\* every attempt of one action that ends in a dialogue is shown a dialogue of
\* the same run, the one of that action.
ReportedIsReal ==
    \A r \in results :
        /\ r.output # None =>
              r.status = "completed" /\ r.output \in DOMAIN runs /\ runs[r.output].status = "completed"
        /\ r.status = "suspended" => r.pending.run = RunOfAction(r.receipt.identity)

\* No call gets past the limits of its host: what it has decided, how often it
\* has asked the provider for one decision, and how often it has started over.
LimitsHold ==
    \A h \in Hosts : host[h] # Idle =>
        /\ host[h].decisions <= Limits[h].max_decisions
        /\ host[h].attempts < Limits[h].max_provider_attempts_per_decision
        /\ host[h].refreshes <= Limits[h].max_stale_refreshes

\* Every call ends, whatever the tutor and the gateway do, and within the limits
\* of its host.
CallsEnd ==
    /\ []LimitsHold
    /\ \A h \in Hosts : (host[h] # Idle) ~> (host[h] = Idle)
=============================================================================

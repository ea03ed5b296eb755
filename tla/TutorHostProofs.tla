--------------------------- MODULE TutorHostProofs ---------------------------
(***************************************************************************)
(* Machine-checked proofs about TutorHost for every number of hosts,       *)
(* turns, dialogues, budgets and moves of the study state.                 *)
(***************************************************************************)
EXTENDS TutorHost, SequenceTheorems, TLAPS

-----------------------------------------------------------------------------
(* Types.  Receipts, contexts and identities nest one another, so a call is *)
(* described by its components and not by a set it belongs to.              *)

Phases == {"loading", "turning", "assembling", "deciding", "starting", "creating", "answering",
           "resolving", "resuming", "claiming", "driving", "observing", "settling"}

(* The phases of an answer before it is recorded, and of any action.        *)
Answering == {"answering", "resolving", "resuming", "claiming"}

Acting == Answering \union {"starting", "creating", "driving", "observing", "settling"}

CallFields == {"pc", "turn", "receipt", "selected", "owner", "decisions", "attempts", "refreshes",
               "generation", "context", "decision", "action", "read", "outcome"}

CallForm(c) == c = [f \in CallFields |-> c[f]]

Runs == [status : {"running", "suspended", "completed", "ended"},
         answers : Seq(Responses), base : Nat]

(* The continuations that have been recorded.                               *)
Known == DOMAIN records \union dropped

(* A continuation is a dialogue its run has asked.                          *)
Asked(k, rs) ==
    /\ k = CapabilityContinuation(k.run, k.dialogue)
    /\ k.run \in DOMAIN rs
    /\ k.dialogue \in Nat \ {0}
    /\ k.dialogue <= Len(rs[k.run].answers) + 1

Completed(r, rs) == r \in DOMAIN rs /\ rs[r].status = "completed"

(* What a result hands out is recorded and of its action's run, or the      *)
(* output of a completed run.                                               *)
ResultHolds(r, rs, known) ==
    /\ r.pending # None \/ r.status = "suspended" => r.pending \in known
    /\ r.status = "suspended" => r.pending.run = RunOfAction(r.receipt.identity)
    /\ r.output # None => r.status = "completed" /\ Completed(r.output, rs)

-----------------------------------------------------------------------------
(* What a call under way relies on, phase by phase.                         *)

Budgeted(h, c) ==
    /\ c.decisions \in 0..Limits[h].max_decisions
    /\ c.pc \in {"assembling", "deciding"} => c.decisions < Limits[h].max_decisions
    /\ c.attempts \in 0..(Limits[h].max_provider_attempts_per_decision - 1)
    /\ c.refreshes \in 0..Limits[h].max_stale_refreshes
    /\ c.generation = c.refreshes + 1
    /\ c.read \in Nat

(* The continuation the call selected is recorded, and the authority it has *)
(* loaded is the one of that continuation's run.                            *)
Selects(c, known) ==
    c.selected # None => c.selected \in known /\ (c.pc # "loading" => c.owner = c.selected.run)

(* An answer is given to the continuation the tutor was shown, and the run  *)
(* a call acts on is the one its action identity names.                     *)
Acts(c) ==
    /\ c.pc = "deciding" => c.context.pending = c.selected
    /\ c.pc \in Acting => /\ c.decision \in Decisions
                          /\ c.decision.kind \in {"start", "answer"}
                          /\ c.decision.kind = "answer" => c.selected # None
                          /\ RunOfAction(c.action.identity) = Driven(c)
    /\ c.pc \in {"starting", "creating"} => c.decision.kind = "start"
    /\ c.pc \in Answering => c.decision.kind = "answer"

(* The dialogue a call is about to answer is not before the selected one.   *)
Claims(c) == c.pc = "claiming" => c.selected.dialogue <= c.read

Drives(c, rs) ==
    /\ c.pc \in {"driving", "observing"} => Driven(c) \in DOMAIN rs
    /\ c.pc = "driving" => rs[Driven(c)].status = "running"

(* The outcome a call settles is one its run has reached.                   *)
Settles(c, rs) ==
    c.pc = "settling" =>
        /\ c.outcome.status = "suspended" =>
              /\ c.outcome.run = Driven(c)
              /\ Asked(CapabilityContinuation(c.outcome.run, c.outcome.dialogue), rs)
        /\ c.outcome.status = "completed" => Completed(c.outcome.run, rs)

Fits(h, c, rs, known) ==
    /\ CallForm(c) /\ c.pc \in Phases
    /\ Budgeted(h, c) /\ Selects(c, known) /\ Acts(c) /\ Claims(c) /\ Drives(c, rs) /\ Settles(c, rs)

-----------------------------------------------------------------------------
(* The inductive invariant.                                                 *)

HostsTyped == DOMAIN host = Hosts /\ version \in 1..Versions

RunsTyped == \A r \in DOMAIN runs : runs[r] \in Runs

(* Every recorded continuation was asked, its record carries the authority  *)
(* of its run, and no dialogue was answered without one but by a slower     *)
(* call, which never answers the first.                                     *)
ContinuationsHold ==
    /\ \A k \in Known : Asked(k, runs)
    /\ \A k \in DOMAIN records : records[k] = k.run
    /\ \A id \in DOMAIN runs : \A n \in DOMAIN runs[id].answers :
          CapabilityContinuation(id, n) \in Known \union slower
    /\ \A k \in slower : k.dialogue > 1

ResultsHold == \A r \in results : ResultHolds(r, runs, Known)

CallsFit == \A h \in Hosts : host[h] = Idle \/ Fits(h, host[h], runs, Known)

(* A run is driven by one call.                                             *)
OneDriver ==
    \A g, h \in Hosts : host[g].pc = "driving" /\ host[h].pc = "driving"
                           /\ Driven(host[g]) = Driven(host[h]) => g = h

HostInv == HostsTyped /\ RunsTyped /\ ContinuationsHold /\ ResultsHold /\ CallsFit /\ OneDriver

(* Host h moves on to a call that fits what the step leaves behind.         *)
MovesOn(h) ==
    \E next :
        /\ Goto(h, next)
        /\ next = Idle \/ Fits(h, next, runs', Known')
        /\ next.pc = "driving" =>
              \A g \in Hosts \ {h} : host[g].pc = "driving" => Driven(host[g]) # Driven(next)

(* What a step of h may do to the runs and the records: runs are not lost,  *)
(* answers are added, a completed run stays, only its driver moves a        *)
(* running one, and what was recorded is remembered.                        *)
RunsAdvance(h) ==
    /\ RunsTyped'
    /\ \A r \in DOMAIN runs :
          /\ r \in DOMAIN runs'
          /\ Len(runs[r].answers) <= Len(runs'[r].answers)
          /\ runs[r].status = "completed" => runs'[r].status = "completed"
          /\ runs[r].status = "running" /\ runs'[r].status # "running" =>
                host[h].pc = "driving" /\ Driven(host[h]) = r
    /\ Known \subseteq Known'

ResultsGrow == \A r \in results' : r \in results \/ ResultHolds(r, runs', Known')

-----------------------------------------------------------------------------
(* A call that is not idle fits.                                            *)
LEMMA InsideCall ==
  ASSUME HostInv, NEW h \in Hosts, host[h].pc \in Phases
  PROVE  Fits(h, host[h], runs, Known)
  BY DEF HostInv, CallsFit, Idle, Phases

\* The limits of a host are positive.
LEMMA LimitsAreNat ==
  ASSUME NEW h \in Hosts
  PROVE  /\ Limits[h].max_decisions \in Nat \ {0}
         /\ Limits[h].max_provider_attempts_per_decision \in Nat \ {0}
         /\ Limits[h].max_stale_refreshes \in Nat \ {0}
  BY HostAssumption

\* Goto moves one host.
LEMMA GotoMoves ==
  ASSUME HostsTyped, NEW h \in Hosts, NEW next, Goto(h, next)
  PROVE  DOMAIN host' = Hosts /\ host'[h] = next /\ \A g \in Hosts \ {h} : host'[g] = host[g]
  BY DEF HostsTyped, Goto

\* The answers of a run are numbered.
LEMMA AnswersLength ==
  ASSUME NEW row \in Runs
  PROVE  Len(row.answers) \in Nat /\ DOMAIN row.answers = 1..Len(row.answers)
  BY LenProperties DEF Runs

(* A continuation that was asked stays asked.                               *)
LEMMA AskedStays ==
  ASSUME RunsTyped, NEW h, RunsAdvance(h), NEW k, Asked(k, runs)
  PROVE  Asked(k, runs')
  <1>1. k.run \in DOMAIN runs /\ k.run \in DOMAIN runs'
    BY DEF Asked, RunsAdvance
  <1>2. Len(runs[k.run].answers) \in Nat /\ Len(runs'[k.run].answers) \in Nat
    BY <1>1, AnswersLength DEF RunsTyped, RunsAdvance
  <1>3. Len(runs[k.run].answers) <= Len(runs'[k.run].answers)
    BY <1>1 DEF RunsAdvance
  <1> QED BY <1>1, <1>2, <1>3 DEF Asked

\* A completed run stays completed.
LEMMA CompletedStays ==
  ASSUME NEW h, RunsAdvance(h), NEW r, Completed(r, runs)
  PROVE  Completed(r, runs')
  BY DEF Completed, RunsAdvance

(* The generic step: h moves on, the runs advance, and the results grow.    *)
LEMMA StepKeepsCalls ==
  ASSUME HostInv, NEW h \in Hosts, MovesOn(h), RunsAdvance(h), ResultsGrow
  PROVE  DOMAIN host' = Hosts /\ CallsFit' /\ OneDriver' /\ ResultsHold'
  <1>1. PICK next :
           /\ Goto(h, next)
           /\ next = Idle \/ Fits(h, next, runs', Known')
           /\ next.pc = "driving" =>
                 \A g \in Hosts \ {h} : host[g].pc = "driving" => Driven(host[g]) # Driven(next)
    BY DEF MovesOn
  <1>2. DOMAIN host' = Hosts /\ host'[h] = next /\ \A g \in Hosts \ {h} : host'[g] = host[g]
    BY <1>1, GotoMoves DEF HostInv
  <1>3. ASSUME NEW g \in Hosts \ {h}, host[g] # Idle
        PROVE  Fits(g, host[g], runs', Known')
    <2>1. Fits(g, host[g], runs, Known)
      BY <1>3 DEF HostInv, CallsFit
    <2>2. Selects(host[g], Known')
      BY <2>1 DEF Fits, Selects, RunsAdvance
    <2>3. Drives(host[g], runs')
      <3>1. host[g].pc \in {"driving", "observing"} => Driven(host[g]) \in DOMAIN runs'
        BY <2>1 DEF Fits, Drives, RunsAdvance
      <3>2. ASSUME host[g].pc = "driving" PROVE runs'[Driven(host[g])].status = "running"
        <4>1. Driven(host[g]) \in DOMAIN runs /\ runs[Driven(host[g])].status = "running"
          BY <2>1, <3>2 DEF Fits, Drives
        <4>2. ~(host[h].pc = "driving" /\ Driven(host[h]) = Driven(host[g]))
          BY <1>3, <3>2 DEF HostInv, OneDriver
        <4> QED BY <4>1, <4>2 DEF RunsAdvance
      <3> QED BY <3>1, <3>2 DEF Drives
    <2>4. Settles(host[g], runs')
      BY <2>1, AskedStays, CompletedStays DEF Fits, Settles, HostInv
    <2> QED BY <2>1, <2>2, <2>3, <2>4 DEF Fits
  <1>4. CallsFit'
    BY <1>1, <1>2, <1>3 DEF HostInv, CallsFit
  <1>5. OneDriver'
    BY <1>1, <1>2 DEF HostInv, OneDriver
  <1>6. ResultsHold'
    <2>1. ASSUME NEW r \in results PROVE ResultHolds(r, runs', Known')
      BY <2>1, CompletedStays DEF HostInv, ResultsHold, ResultHolds, RunsAdvance
    <2> QED BY <2>1 DEF ResultsGrow, ResultsHold
  <1> QED BY <1>2, <1>4, <1>5, <1>6

(* A step that leaves runs and records alone.                               *)
LEMMA NothingMoved ==
  ASSUME HostInv, UNCHANGED <<runs, records, dropped, slower>>, NEW h \in Hosts
  PROVE  /\ RunsAdvance(h) /\ Known' = Known
         /\ RunsTyped' /\ ContinuationsHold'
  <1>1. \A r \in DOMAIN runs : Len(runs[r].answers) <= Len(runs[r].answers)
    BY AnswersLength DEF HostInv, RunsTyped
  <1>2. Known' = Known
    BY DEF Known
  <1>3. RunsTyped' /\ ContinuationsHold'
    BY <1>2 DEF HostInv, RunsTyped, ContinuationsHold
  <1> QED BY <1>1, <1>2, <1>3 DEF RunsAdvance

(* Such a step keeps the invariant when h moves on and the results grow.    *)
LEMMA QuietStep ==
  ASSUME HostInv, NEW h \in Hosts, UNCHANGED <<version, runs, records, dropped, slower>>,
         MovesOn(h), ResultsGrow
  PROVE  HostInv'
  <1>1. RunsAdvance(h) /\ RunsTyped' /\ ContinuationsHold'
    BY NothingMoved
  <1>2. DOMAIN host' = Hosts /\ CallsFit' /\ OneDriver' /\ ResultsHold'
    BY <1>1, StepKeepsCalls
  <1> QED BY <1>1, <1>2 DEF HostInv, HostsTyped

(* A call that returns moves on, and what it hands out must hold.           *)
LEMMA ReturnMoves ==
  ASSUME NEW h \in Hosts, NEW status, NEW receipt, NEW output, NEW pending,
         Return(h, status, receipt, output, pending),
         pending # None \/ status = "suspended" => pending \in Known',
         status = "suspended" => pending.run = RunOfAction(receipt.identity),
         output # None => status = "completed" /\ Completed(output, runs')
  PROVE  MovesOn(h) /\ ResultsGrow
  <1>1. MovesOn(h)
    BY DEF Return, MovesOn, Idle
  <1>2. CASE status \in {"suspended", "completed"}
    <2>1. ResultHolds(Result(status, receipt, output, pending), runs', Known')
      BY DEF ResultHolds, Result
    <2>2. \A r \in results' : r \in results \/ r = Result(status, receipt, output, pending)
      BY <1>2 DEF Return
    <2> QED BY <1>1, <2>1, <2>2 DEF ResultsGrow
  <1>3. CASE status \notin {"suspended", "completed"}
    <2>1. /\ ResultHolds(Result("unfinished", receipt, None, None), runs', Known')
          /\ ResultHolds(Result("unfinished", None, None, pending), runs', Known')
      BY DEF ResultHolds, Result
    <2>2. \A r \in results' : \/ r \in results
                              \/ r = Result("unfinished", receipt, None, None)
                              \/ r = Result("unfinished", None, None, pending)
      BY <1>3 DEF Return
    <2> QED BY <1>1, <2>1, <2>2 DEF ResultsGrow
  <1> QED BY <1>2, <1>3

(* In particular when it fails, exhausts a budget or is interrupted.        *)
LEMMA FailedMoves ==
  ASSUME NEW h \in Hosts, NEW receipt, _failed(h, receipt)
  PROVE  MovesOn(h) /\ ResultsGrow
  BY ReturnMoves DEF _failed

\* A call that ends on its budget reports nothing new.
LEMMA BudgetMoves ==
  ASSUME NEW h \in Hosts, _budget(h)
  PROVE  MovesOn(h) /\ ResultsGrow
  BY ReturnMoves DEF _budget

\* A call that is interrupted reports results it knows.
LEMMA InterruptedMoves ==
  ASSUME HostInv, NEW h \in Hosts, host[h].pc \in Phases, _interrupted_result(h),
         Known \subseteq Known'
  PROVE  MovesOn(h) /\ ResultsGrow
  <1>1. host[h].selected # None => host[h].selected \in Known'
    BY InsideCall DEF Fits, Selects
  <1>2. CASE host[h].pc = "loading"
    BY <1>2, ReturnMoves DEF _interrupted_result
  <1>3. CASE host[h].pc # "loading"
    BY <1>1, <1>3, ReturnMoves DEF _interrupted_result
  <1> QED BY <1>2, <1>3

-----------------------------------------------------------------------------
(* One lemma per action: the ones that leave runs and records alone.        *)

(* A host calls with the receipt and the continuation it was handed.        *)
LEMMA RunStep ==
  ASSUME HostInv, NEW h \in Hosts, NEW turn \in Turns, NEW receipt \in Receipts \union {None},
         NEW pending \in Pendings \union {None}, run(h, turn, receipt, pending)
  PROVE  HostInv'
  <1> DEFINE next == Call(turn, receipt, pending)
  <1>1. UNCHANGED <<version, runs, records, dropped, slower>> /\ results' = results /\ Goto(h, next)
    BY DEF run
  <1>2. Known' = Known /\ RunsAdvance(h)
    BY <1>1, NothingMoved
  <1>3. pending # None => pending \in Known
    BY DEF Pendings, HostInv, ResultsHold, ResultHolds
  <1>4. CallForm(next) /\ next.pc \in Phases
    BY DEF CallForm, CallFields, Call, Phases
  <1>5. Budgeted(h, next)
    BY LimitsAreNat, HostAssumption DEF Budgeted, Call
  <1>6. Selects(next, Known')
    BY <1>2, <1>3 DEF Selects, Call
  <1>7. Acts(next) /\ Claims(next) /\ Drives(next, runs') /\ Settles(next, runs')
    BY DEF Acts, Claims, Drives, Settles, Call, Acting, Answering
  <1>8. next.pc # "driving"
    BY DEF Call
  <1> HIDE DEF next
  <1>9. Fits(h, next, runs', Known')
    BY <1>4, <1>5, <1>6, <1>7 DEF Fits
  <1>10. MovesOn(h) /\ ResultsGrow
    BY <1>1, <1>8, <1>9 DEF MovesOn, ResultsGrow
  <1> QED BY <1>1, <1>10, QuietStep

(* A quiet step to a call that fits the same runs and records.              *)
LEMMA QuietMove ==
  ASSUME HostInv, NEW h \in Hosts, UNCHANGED <<version, runs, records, dropped, slower, results>>,
         NEW next, Goto(h, next), Fits(h, next, runs, Known), next.pc # "driving"
  PROVE  HostInv'
  <1>1. Known' = Known
    BY DEF Known
  <1>2. MovesOn(h)
    BY <1>1 DEF MovesOn
  <1>3. ResultsGrow
    BY DEF ResultsGrow
  <1> QED BY <1>2, <1>3, QuietStep

\* _load reads the continuation.
LEMMA LoadStep ==
  ASSUME HostInv, NEW h \in Hosts, _load(h)
  PROVE  HostInv'
  <1> DEFINE c == host[h]
             next == [c EXCEPT !.pc = "turning", !.owner = records[c.selected]]
  <1>1. Fits(h, c, runs, Known) /\ c.pc = "loading"
    BY InsideCall DEF _load, Phases
  <1>2. CASE c.selected \in DOMAIN records
    <2>1. Goto(h, next) /\ UNCHANGED results
      BY <1>2 DEF _load
    <2>2. CallForm(next) /\ next.pc = "turning"
      BY <1>1 DEF Fits, CallForm, CallFields
    <2>3. next.selected = c.selected /\ next.owner = c.selected.run
      BY <1>1, <1>2 DEF Fits, CallForm, CallFields, HostInv, ContinuationsHold
    <2>4. Budgeted(h, next)
      BY <1>1, <2>2 DEF Fits, CallForm, CallFields, Budgeted
    <2>5. Selects(next, Known)
      BY <1>2, <2>3 DEF Selects, Known
    <2>6. Fits(h, next, runs, Known)
      BY <2>2, <2>4, <2>5 DEF Fits, Phases, Acting, Answering, Acts, Claims, Drives, Settles
    <2> QED BY <2>1, <2>2, <2>6, QuietMove DEF _load
  <1>3. CASE c.selected \notin DOMAIN records
    BY <1>3, FailedMoves, QuietStep DEF _load
  <1> QED BY <1>2, <1>3

\* The loop goes on, or ends the call on its budget.
LEMMA LoopStep ==
  ASSUME HostInv, NEW h \in Hosts, loop(h)
  PROVE  HostInv'
  <1> DEFINE c == host[h]
             next == [c EXCEPT !.pc = "assembling", !.read = version]
  <1>1. Fits(h, c, runs, Known) /\ c.pc = "turning"
    BY InsideCall DEF loop, Phases
  <1>2. CASE c.decisions >= Limits[h].max_decisions
    BY <1>2, BudgetMoves, QuietStep DEF loop
  <1>3. CASE ~(c.decisions >= Limits[h].max_decisions)
    <2>1. Goto(h, next) /\ UNCHANGED results
      BY <1>3 DEF loop
    <2>2. CallForm(next) /\ next.pc = "assembling"
      BY <1>1 DEF Fits, CallForm, CallFields
    <2>3. Budgeted(h, next)
      BY <1>1, <1>3, <2>2, LimitsAreNat, HostAssumption DEF Fits, CallForm, CallFields, Budgeted, HostInv, HostsTyped
    <2>4. Selects(next, Known)
      BY <1>1, <2>2 DEF Fits, CallForm, CallFields, Selects
    <2>5. Fits(h, next, runs, Known)
      BY <2>2, <2>3, <2>4 DEF Fits, Phases, Acting, Answering, Acts, Claims, Drives, Settles
    <2> QED BY <2>1, <2>2, <2>5, QuietMove DEF loop
  <1> QED BY <1>2, <1>3

\* _assemble reads the two views.
LEMMA AssembleStep ==
  ASSUME HostInv, NEW h \in Hosts, _assemble(h)
  PROVE  HostInv'
  <1> DEFINE c == host[h]
             next == [c EXCEPT !.pc = "deciding", !.read = 0, !.decision = None,
                               !.context = TutorHostContext(version, c.selected)]
  <1>1. Fits(h, c, runs, Known) /\ c.pc = "assembling"
    BY InsideCall DEF _assemble, Phases
  <1>2. CASE version # c.read
    BY <1>2, FailedMoves, QuietStep DEF _assemble
  <1>3. CASE version = c.read
    <2>1. Goto(h, next) /\ UNCHANGED results
      BY <1>3 DEF _assemble
    <2>2. CallForm(next) /\ next.pc = "deciding"
      BY <1>1 DEF Fits, CallForm, CallFields
    <2>3. Budgeted(h, next)
      BY <1>1, <2>2 DEF Fits, CallForm, CallFields, Budgeted
    <2>4. Selects(next, Known)
      BY <1>1, <2>2 DEF Fits, CallForm, CallFields, Selects
    <2>5. Acts(next)
      BY <1>1 DEF Fits, CallForm, CallFields, Acts, Acting, Answering, TutorHostContext
    <2>6. Fits(h, next, runs, Known)
      BY <2>2, <2>3, <2>4, <2>5 DEF Fits, Phases, Claims, Drives, Settles
    <2> QED BY <2>1, <2>2, <2>6, QuietMove DEF _assemble
  <1> QED BY <1>2, <1>3

\* _decide chooses a tool.
LEMMA DecideStep ==
  ASSUME HostInv, NEW h \in Hosts, _decide(h)
  PROVE  HostInv'
  <1> DEFINE c == host[h]
             next == [c EXCEPT !.attempts = @ + 1]
  <1>1. Fits(h, c, runs, Known) /\ c.pc = "deciding"
    BY InsideCall DEF _decide, Phases
  <1>2. CASE c.attempts + 1 >= Limits[h].max_provider_attempts_per_decision
    BY <1>2, BudgetMoves, QuietStep DEF _decide
  <1>3. CASE ~(c.attempts + 1 >= Limits[h].max_provider_attempts_per_decision)
    <2>1. Goto(h, next) /\ UNCHANGED results
      BY <1>3 DEF _decide
    <2>2. CallForm(next) /\ next.pc = "deciding"
      BY <1>1 DEF Fits, CallForm, CallFields
    <2>3. Budgeted(h, next)
      BY <1>1, <1>3, <2>2, LimitsAreNat, HostAssumption DEF Fits, CallForm, CallFields, Budgeted
    <2>4. Selects(next, Known)
      BY <1>1, <2>2 DEF Fits, CallForm, CallFields, Selects
    <2>5. Acts(next)
      BY <1>1 DEF Fits, CallForm, CallFields, Acts, Acting, Answering
    <2>6. Fits(h, next, runs, Known)
      BY <2>2, <2>3, <2>4, <2>5 DEF Fits, Phases, Claims, Drives, Settles
    <2> QED BY <2>1, <2>2, <2>6, QuietMove DEF _decide
  <1> QED BY <1>2, <1>3

(* The decision the tutor made is acted on, or the call ends.               *)
LEMMA DecidedStep ==
  ASSUME HostInv, NEW h \in Hosts, NEW d \in Decisions, decided(h, d)
  PROVE  HostInv'
  <1> DEFINE c == host[h]
             identity == HostActionIdentity(c.turn, c.context, d, c.generation)
             attempt == IF c.receipt = None THEN 1 ELSE c.receipt.attempt + 1
             next == [c EXCEPT !.pc = IF d.kind = "start" THEN "starting" ELSE "answering",
                               !.decisions = @ + 1, !.decision = d, !.context = None, !.attempts = 0,
                               !.action = HostRetryReceipt(identity, attempt)]
  <1>1. Fits(h, c, runs, Known) /\ c.pc = "deciding"
    BY InsideCall DEF decided, Phases
  <1>2. UNCHANGED <<version, runs, records, dropped, slower>>
    BY DEF decided
  <1>3. d.kind \in {"start", "answer", "ask", "stop"}
    BY DEF Decisions, StartCapabilityDecision, AnswerDialogueDecision, AskLearnerDecision, StopDecision
  <1>4. ASSUME NEW status, Return(h, status, None, None, None), status # "suspended"
        PROVE  HostInv'
    BY <1>2, <1>4, ReturnMoves, QuietStep
  <1>5. CASE ~validate_decision(c, d)
    <2>1. d.kind = "answer"
      BY <1>5 DEF validate_decision
    <2>2. _failed(h, None)
      BY <1>5, <2>1 DEF decided
    <2> QED BY <1>2, <2>2, FailedMoves, QuietStep
  <1>6. CASE validate_decision(c, d) /\ d.kind = "ask"
    BY <1>2, <1>4, <1>6, BudgetMoves, QuietStep DEF decided
  <1>7. CASE validate_decision(c, d) /\ d.kind = "stop"
    <2>1. d.what \in {"completed", "stopped"}
      BY <1>7 DEF Decisions, StartCapabilityDecision, AnswerDialogueDecision, AskLearnerDecision, StopDecision
    <2> QED BY <1>4, <1>7, <2>1 DEF decided
  <1>8. CASE validate_decision(c, d) /\ d.kind \in {"start", "answer"}
    <2>1. act(h, d)
      BY <1>8 DEF decided
    <2>2. CASE ~_issue_action(c, identity)
      BY <1>2, <2>1, <2>2, FailedMoves, QuietStep DEF act
    <2>3. CASE _issue_action(c, identity)
      <3>1. Goto(h, next) /\ UNCHANGED results
        BY <2>1, <2>3 DEF act
      <3>2. CallForm(next) /\ next.pc \in {"starting", "answering"}
        BY <1>1 DEF Fits, CallForm, CallFields
      <3>3. Budgeted(h, next)
        BY <1>1, <3>2, LimitsAreNat, HostAssumption DEF Fits, CallForm, CallFields, Budgeted
      <3>4. Selects(next, Known)
        BY <1>1, <3>2 DEF Fits, CallForm, CallFields, Selects
      <3>5. d.kind = "answer" => c.selected # None
        BY <1>1, <1>8 DEF validate_decision, Fits, Acts
      <3>6. Acts(next)
        <4>1. /\ next.selected = c.selected /\ next.decision = d /\ next.action.identity = identity
              /\ next.pc = IF d.kind = "start" THEN "starting" ELSE "answering"
          BY <1>1 DEF Fits, CallForm, CallFields, HostRetryReceipt
        <4>2. identity.decision = d /\ identity.context = c.context
          BY DEF HostActionIdentity
        <4>3. c.context.pending = c.selected
          BY <1>1 DEF Fits, Acts
        <4> HIDE DEF next, identity
        <4>4. RunOfAction(next.action.identity) = Driven(next)
          BY <1>8, <4>1, <4>2, <4>3 DEF RunOfAction, Driven
        <4> QED BY <1>8, <3>5, <4>1, <4>4 DEF Acts, Acting, Answering
      <3>7. Fits(h, next, runs, Known)
        BY <3>2, <3>3, <3>4, <3>6 DEF Fits, Phases, Claims, Drives, Settles
      <3> QED BY <1>2, <3>1, <3>2, <3>7, QuietMove
    <2> QED BY <2>2, <2>3
  <1> QED BY <1>3, <1>5, <1>6, <1>7, <1>8

(* The steps at which a call gives up.                                      *)
LEMMA GivingUp ==
  ASSUME HostInv, NEW h \in Hosts, gateway_raises(h) \/ store_raises(h) \/ interrupted(h)
  PROVE  HostInv'
  <1>1. CASE gateway_raises(h)
    BY <1>1, FailedMoves, QuietStep DEF gateway_raises
  <1>2. CASE store_raises(h)
    BY <1>2, FailedMoves, QuietStep DEF store_raises
  <1>3. CASE interrupted(h)
    <2>1. host[h].pc \in Phases
      BY <1>3 DEF interrupted, HostInv, CallsFit, Fits
    <2> QED BY <1>3, <2>1, NothingMoved, InterruptedMoves, QuietStep DEF interrupted
  <1> QED BY <1>1, <1>2, <1>3

\* A host that dies leaves the runs and the records.
LEMMA CrashStep ==
  ASSUME HostInv, NEW h \in Hosts, Crash(h)
  PROVE  HostInv'
  <1>1. MovesOn(h)
    BY DEF Crash, MovesOn, Idle
  <1>2. ResultsGrow
    BY DEF Crash, ResultsGrow
  <1> QED BY <1>1, <1>2, QuietStep DEF Crash

(* The study state moves under every call.                                  *)
LEMMA StateMoves ==
  ASSUME HostInv, StudyStateMoves
  PROVE  HostInv'
  <1>1. UNCHANGED <<runs, records, host, results, dropped, slower>> /\ version' \in 1..Versions
    BY HostAssumption DEF StudyStateMoves, HostInv, HostsTyped
  <1>2. Known' = Known
    BY <1>1 DEF Known
  <1> QED BY <1>1, <1>2 DEF HostInv, HostsTyped, RunsTyped, ContinuationsHold, ResultsHold, CallsFit, OneDriver, Driven

-----------------------------------------------------------------------------
(* The gateway's steps and what a call does with an outcome.                *)

(* A step of h that advances the runs or the records.                       *)
LEMMA AdvancingStep ==
  ASSUME HostInv, NEW h \in Hosts, version' = version, RunsAdvance(h), ContinuationsHold',
         MovesOn(h), ResultsGrow
  PROVE  HostInv'
  <1>1. DOMAIN host' = Hosts /\ CallsFit' /\ OneDriver' /\ ResultsHold'
    BY StepKeepsCalls
  <1> QED BY <1>1 DEF HostInv, HostsTyped, RunsAdvance

(* A call goes on with an outcome that its run has reached.                 *)
LEMMA SettleMoves ==
  ASSUME HostInv, NEW h \in Hosts, host[h].pc \in Acting, RunsAdvance(h),
         NEW status, NEW r, NEW dialogue, Settle(h, status, r, dialogue),
         status = "suspended" =>
            r = Driven(host[h]) /\ Asked(CapabilityContinuation(r, dialogue), runs'),
         status = "completed" => Completed(r, runs')
  PROVE  MovesOn(h) /\ ResultsGrow
  <1> DEFINE c == host[h]
             outcome == [status |-> status, run |-> r, dialogue |-> dialogue]
             next == [c EXCEPT !.pc = "settling", !.outcome = outcome]
  <1>1. Fits(h, c, runs, Known)
    BY InsideCall DEF Phases, Acting, Answering
  <1>2. Goto(h, next) /\ UNCHANGED results
    BY DEF Settle
  <1>3. CallForm(next) /\ next.pc = "settling" /\ next.outcome = outcome
    BY <1>1 DEF Fits, CallForm, CallFields
  <1>4. Budgeted(h, next)
    BY <1>1, <1>3 DEF Fits, CallForm, CallFields, Budgeted
  <1>5. Selects(next, Known')
    BY <1>1, <1>3 DEF Fits, CallForm, CallFields, Selects, RunsAdvance, Acting, Answering
  <1>6. Driven(next) = Driven(c)
    BY <1>1 DEF Fits, CallForm, CallFields, Driven
  <1>7. Acts(next)
    BY <1>1, <1>3, <1>6 DEF Fits, CallForm, CallFields, Acts, Acting, Answering
  <1>8. Settles(next, runs')
    BY <1>3, <1>6 DEF Settles
  <1> HIDE DEF next
  <1>9. Fits(h, next, runs', Known')
    BY <1>3, <1>4, <1>5, <1>7, <1>8 DEF Fits, Phases, Claims, Drives
  <1> QED BY <1>2, <1>3, <1>9 DEF MovesOn, ResultsGrow

(* In particular with the outcome its row stands for.                       *)
LEMMA OutcomeMoves ==
  ASSUME HostInv, NEW h \in Hosts, host[h].pc \in Acting, RunsAdvance(h),
         NEW r \in DOMAIN runs', r = Driven(host[h]), Outcome(h, r, runs'[r])
  PROVE  MovesOn(h) /\ ResultsGrow
  <1> DEFINE row == runs'[r]
             dialogue == IF row.status = "suspended" THEN Len(row.answers) + 1 ELSE 0
  <1>1. CASE row.status = "running"
    BY <1>1, ReturnMoves DEF Outcome
  <1>2. CASE row.status # "running"
    <2>1. Settle(h, row.status, r, dialogue)
      BY <1>2 DEF Outcome
    <2>2. Len(row.answers) \in Nat
      BY AnswersLength DEF RunsAdvance, RunsTyped
    <2>3. row.status = "suspended" => Asked(CapabilityContinuation(r, dialogue), runs')
      BY <2>2 DEF Asked, CapabilityContinuation
    <2>4. row.status = "completed" => Completed(r, runs')
      BY DEF Completed
    <2> HIDE DEF dialogue
    <2> QED BY <2>1, <2>3, <2>4, SettleMoves
  <1> QED BY <1>1, <1>2

\* A call that lost its run reports no result of it.
LEMMA StaleMoves ==
  ASSUME HostInv, NEW h \in Hosts, host[h].pc \in Acting, RunsAdvance(h), NEW r, StaleOutcome(h, r)
  PROVE  MovesOn(h) /\ ResultsGrow
  BY SettleMoves DEF StaleOutcome

(* A call starts to drive a run that nobody else drives.                    *)
LEMMA DrivingMoves ==
  ASSUME HostInv, NEW h \in Hosts, host[h].pc \in {"creating", "claiming"},
         RunsAdvance(h), UNCHANGED results,
         NEW r, r = Driven(host[h]), r \in DOMAIN runs => runs[r].status # "running",
         r \in DOMAIN runs', runs'[r].status = "running",
         NEW read \in Nat, Goto(h, [host[h] EXCEPT !.pc = "driving", !.read = read])
  PROVE  MovesOn(h) /\ ResultsGrow
  <1> DEFINE c == host[h]
             next == [c EXCEPT !.pc = "driving", !.read = read]
  <1>1. Fits(h, c, runs, Known)
    BY InsideCall DEF Phases
  <1>2. CallForm(next) /\ next.pc = "driving"
    BY <1>1 DEF Fits, CallForm, CallFields
  <1>3. Budgeted(h, next)
    BY <1>1, <1>2 DEF Fits, CallForm, CallFields, Budgeted
  <1>4. Selects(next, Known')
    BY <1>1, <1>2 DEF Fits, CallForm, CallFields, Selects, RunsAdvance
  <1>5. Driven(next) = r
    BY <1>1 DEF Fits, CallForm, CallFields, Driven
  <1>6. Acts(next)
    BY <1>1, <1>2, <1>5 DEF Fits, CallForm, CallFields, Acts, Acting, Answering
  <1>7. Fits(h, next, runs', Known')
    BY <1>2, <1>3, <1>4, <1>5, <1>6 DEF Fits, Phases, Claims, Drives, Settles
  <1>8. ASSUME NEW g \in Hosts, host[g].pc = "driving" PROVE Driven(host[g]) # r
    <2>1. Drives(host[g], runs)
      BY <1>8, InsideCall DEF Phases, Fits
    <2> QED BY <1>8, <2>1 DEF Drives
  <1>9. MovesOn(h)
    BY <1>5, <1>7, <1>8 DEF MovesOn
  <1> QED BY <1>9 DEF ResultsGrow

(* The run a call starts or answers.                                        *)
LEMMA WhatIsDriven ==
  ASSUME HostInv, NEW h \in Hosts
  PROVE  /\ host[h].pc \in {"starting", "creating"} => Driven(host[h]) = host[h].action.identity
         /\ host[h].pc \in Answering =>
               /\ Driven(host[h]) = host[h].selected.run
               /\ Asked(host[h].selected, runs) /\ host[h].selected \in Known
               /\ host[h].decision.what \in Responses
  <1>1. CASE host[h].pc \in {"starting", "creating"}
    BY <1>1, InsideCall DEF Phases, Fits, Acts, Driven, Answering
  <1>2. CASE host[h].pc \in Answering
    <2>1. host[h].decision.kind = "answer" /\ host[h].decision \in Decisions
      BY <1>2, InsideCall DEF Phases, Acting, Answering, Fits, Acts
    <2>2. host[h].selected \in Known
      BY <1>2, <2>1, InsideCall DEF Phases, Acting, Answering, Fits, Acts, Selects
    <2>3. host[h].decision.what \in Responses
      BY <2>1 DEF Decisions, StartCapabilityDecision, AnswerDialogueDecision, AskLearnerDecision, StopDecision
    <2> QED BY <1>2, <2>1, <2>2, <2>3 DEF HostInv, ContinuationsHold, Driven, Answering
  <1> QED BY <1>1, <1>2

\* gateway_start observes the run of the action, or resolves what a new one
\* will read.
LEMMA StartStep ==
  ASSUME HostInv, NEW h \in Hosts, gateway_start(h)
  PROVE  HostInv'
  <1> DEFINE c == host[h]
             r == c.action.identity
             next == [c EXCEPT !.pc = "creating", !.read = version]
  <1>1. Fits(h, c, runs, Known) /\ c.pc = "starting"
    BY InsideCall DEF gateway_start, Phases
  <1>2. UNCHANGED <<version, runs, records, dropped, slower>>
    BY DEF gateway_start
  <1>3. CASE r \in DOMAIN runs
    <2>1. Outcome(h, r, runs'[r]) /\ r \in DOMAIN runs' /\ r = Driven(c)
      BY <1>1, <1>2, <1>3, WhatIsDriven DEF gateway_start
    <2> HIDE DEF r
    <2>2. MovesOn(h) /\ ResultsGrow
      BY <1>1, <1>2, <2>1, NothingMoved, OutcomeMoves DEF Acting
    <2> QED BY <1>2, <2>2, QuietStep
  <1>4. CASE r \notin DOMAIN runs
    <2>1. Goto(h, next) /\ UNCHANGED results
      BY <1>4 DEF gateway_start
    <2>2. CallForm(next) /\ next.pc = "creating"
      BY <1>1 DEF Fits, CallForm, CallFields
    <2>3. Budgeted(h, next)
      BY <1>1, <2>2, LimitsAreNat, HostAssumption DEF Fits, CallForm, CallFields, Budgeted, HostInv, HostsTyped
    <2>4. Selects(next, Known)
      BY <1>1, <2>2 DEF Fits, CallForm, CallFields, Selects
    <2>5. Driven(next) = Driven(c)
      BY <1>1 DEF Fits, CallForm, CallFields, Driven
    <2>6. Acts(next)
      BY <1>1, <2>2, <2>5 DEF Fits, CallForm, CallFields, Acts, Acting, Answering
    <2>7. Fits(h, next, runs, Known)
      BY <2>2, <2>3, <2>4, <2>6 DEF Fits, Phases, Claims, Drives, Settles
    <2> QED BY <1>2, <2>1, <2>2, <2>7, QuietMove
  <1> QED BY <1>3, <1>4

(* Of two calls that create the same run, one does and one reads it.        *)
LEMMA CreateStep ==
  ASSUME HostInv, NEW h \in Hosts, gateway_create(h)
  PROVE  HostInv'
  <1> DEFINE c == host[h]
             r == c.action.identity
  <1>1. Fits(h, c, runs, Known) /\ c.pc = "creating" /\ r = Driven(c)
    BY InsideCall, WhatIsDriven DEF gateway_create, Phases
  <1>2. UNCHANGED <<version, records, dropped, slower>> /\ Known' = Known
    BY DEF gateway_create, Known
  <1>3. CASE r \notin DOMAIN runs
    <2>1. /\ runs' = Put(runs, r, Run("running", <<>>, c.read))
          /\ Goto(h, [c EXCEPT !.pc = "driving", !.read = 0])
          /\ UNCHANGED results
      BY <1>3 DEF gateway_create
    <2> DEFINE row == Run("running", <<>>, c.read)
    <2>2. row \in Runs /\ Len(row.answers) = 0 /\ DOMAIN row.answers = {} /\ row.status = "running"
      BY <1>1 DEF Run, Runs, Fits, Budgeted
    <2>3. /\ DOMAIN runs' = DOMAIN runs \union {r} /\ runs'[r] = row
          /\ \A q \in DOMAIN runs : runs'[q] = runs[q]
      BY <1>3, <2>1 DEF Put
    <2> HIDE DEF row
    <2>4. RunsAdvance(h)
      <3>1. RunsTyped'
        BY <2>2, <2>3 DEF HostInv, RunsTyped
      <3>2. \A q \in DOMAIN runs : Len(runs[q].answers) <= Len(runs[q].answers)
        BY AnswersLength DEF HostInv, RunsTyped
      <3> QED BY <1>2, <2>3, <3>1, <3>2 DEF RunsAdvance
    <2>5. ContinuationsHold'
      <3>1. \A k \in Known' : Asked(k, runs')
        BY <1>2, <2>4, AskedStays DEF HostInv, ContinuationsHold
      <3>2. \A id \in DOMAIN runs' : \A n \in DOMAIN runs'[id].answers :
               CapabilityContinuation(id, n) \in Known' \union slower'
        BY <1>2, <2>2, <2>3 DEF HostInv, ContinuationsHold
      <3>3. \A k \in DOMAIN records' : records'[k] = k.run
        BY <1>2 DEF HostInv, ContinuationsHold
      <3> QED BY <1>2, <3>1, <3>2, <3>3 DEF HostInv, ContinuationsHold
    <2> HIDE DEF r
    <2>6. r \in DOMAIN runs' /\ runs'[r].status = "running"
      BY <2>2, <2>3
    <2>7. MovesOn(h) /\ ResultsGrow
      BY <1>1, <1>3, <2>1, <2>4, <2>6, DrivingMoves
    <2> QED BY <1>2, <2>4, <2>5, <2>7, AdvancingStep
  <1>4. CASE r \in DOMAIN runs
    <2>1. UNCHANGED runs
      BY <1>4 DEF gateway_create
    <2>2. StaleOutcome(h, r) \/ Outcome(h, r, runs[r])
      BY <1>4 DEF gateway_create
    <2>3. RunsAdvance(h)
      BY <1>2, <2>1, NothingMoved
    <2> HIDE DEF r
    <2>4. MovesOn(h) /\ ResultsGrow
      BY <1>1, <1>4, <2>1, <2>2, <2>3, OutcomeMoves, StaleMoves DEF Acting
    <2> QED BY <1>2, <2>1, <2>4, QuietStep
  <1> QED BY <1>3, <1>4

(* A run changes to a row that keeps its answers or adds the one just given.*)
LEMMA RowAdvances ==
  ASSUME HostInv, NEW h \in Hosts, NEW r \in DOMAIN runs, NEW row \in Runs,
         runs' = [runs EXCEPT ![r] = row], UNCHANGED <<records, dropped>>,
         Len(runs[r].answers) <= Len(row.answers), runs[r].status # "completed",
         slower \subseteq slower', \A k \in slower' : k.dialogue > 1,
         \A n \in DOMAIN row.answers : CapabilityContinuation(r, n) \in Known \union slower',
         runs[r].status = "running" => host[h].pc = "driving" /\ Driven(host[h]) = r
  PROVE  RunsAdvance(h) /\ ContinuationsHold'
  <1>1. /\ DOMAIN runs' = DOMAIN runs /\ runs'[r] = row
        /\ \A q \in DOMAIN runs : q # r => runs'[q] = runs[q]
    OBVIOUS
  <1>2. Known' = Known
    BY DEF Known
  <1>3. RunsTyped'
    BY <1>1 DEF HostInv, RunsTyped
  <1>4. \A q \in DOMAIN runs : Len(runs[q].answers) <= Len(runs[q].answers)
    BY AnswersLength DEF HostInv, RunsTyped
  <1>5. RunsAdvance(h)
    BY <1>1, <1>2, <1>3, <1>4 DEF RunsAdvance
  <1>6. \A k \in Known' : Asked(k, runs')
    BY <1>2, <1>5, AskedStays DEF HostInv, ContinuationsHold
  <1>7. \A id \in DOMAIN runs' : \A n \in DOMAIN runs'[id].answers :
           CapabilityContinuation(id, n) \in Known' \union slower'
    BY <1>1, <1>2 DEF HostInv, ContinuationsHold
  <1> QED BY <1>5, <1>6, <1>7 DEF HostInv, ContinuationsHold

(* A quiet gateway step: the call goes on in another phase of its answer.   *)
LEMMA PhaseMoves ==
  ASSUME HostInv, NEW h \in Hosts, UNCHANGED <<version, runs, records, dropped, slower, results>>,
         host[h].pc \in Answering,
         NEW pc \in {"resolving", "resuming", "claiming", "observing"}, NEW read \in Nat,
         pc = "claiming" => host[h].selected.dialogue <= read,
         Goto(h, [host[h] EXCEPT !.pc = pc, !.read = read])
  PROVE  HostInv'
  <1> DEFINE c == host[h]
             next == [c EXCEPT !.pc = pc, !.read = read]
  <1>1. /\ Fits(h, c, runs, Known) /\ c.pc \in Answering
        /\ Driven(c) = c.selected.run /\ Asked(c.selected, runs)
    BY InsideCall, WhatIsDriven DEF Phases, Answering
  <1>2. CallForm(next) /\ next.pc = pc /\ next.read = read /\ next.selected = c.selected
    BY <1>1 DEF Fits, CallForm, CallFields
  <1>3. Budgeted(h, next)
    BY <1>1, <1>2 DEF Fits, CallForm, CallFields, Budgeted
  <1>4. Selects(next, Known)
    BY <1>1, <1>2 DEF Fits, CallForm, CallFields, Selects, Answering
  <1>5. Driven(next) = Driven(c)
    BY <1>1 DEF Fits, CallForm, CallFields, Driven
  <1>6. Acts(next)
    BY <1>1, <1>2, <1>5 DEF Fits, CallForm, CallFields, Acts, Acting, Answering
  <1> HIDE DEF next
  <1>7. Claims(next)
    BY <1>2 DEF Claims
  <1>8. Drives(next, runs)
    BY <1>1, <1>2, <1>5 DEF Drives, Asked
  <1>9. Fits(h, next, runs, Known) /\ next.pc # "driving"
    BY <1>2, <1>3, <1>4, <1>6, <1>7, <1>8 DEF Fits, Phases, Settles
  <1>10. Goto(h, next)
    BY DEF next
  <1> QED BY <1>9, <1>10, QuietMove

(* A step of an answer that ends the gateway call on the row it has read.   *)
LEMMA RowTold ==
  ASSUME HostInv, NEW h \in Hosts, UNCHANGED <<version, runs, records, dropped, slower>>,
         host[h].pc \in Acting, NEW r, r = Driven(host[h]), r \in DOMAIN runs,
         StaleOutcome(h, r) \/ Outcome(h, r, runs[r]) \/ _failed(h, host[h].action)
  PROVE  HostInv'
  <1>1. RunsAdvance(h)
    BY NothingMoved
  <1>2. MovesOn(h) /\ ResultsGrow
    BY <1>1, OutcomeMoves, StaleMoves, FailedMoves
  <1> QED BY <1>2, QuietStep

(* The answer is for the open dialogue, or found to be given already.       *)
LEMMA InspectStep ==
  ASSUME HostInv, NEW h \in Hosts, gateway_inspect(h)
  PROVE  HostInv'
  <1> DEFINE c == host[h]
             r == c.selected.run
  <1>1. /\ Fits(h, c, runs, Known) /\ c.pc = "answering" /\ r = Driven(c) /\ r \in DOMAIN runs
        /\ UNCHANGED <<version, runs, records, dropped, slower>>
    BY InsideCall, WhatIsDriven DEF gateway_inspect, Phases, Answering, Asked
  <1>2. CASE Goto(h, [c EXCEPT !.pc = "resolving"]) /\ UNCHANGED results
    <2>1. [c EXCEPT !.pc = "resolving"] = [c EXCEPT !.pc = "resolving", !.read = c.read]
      BY <1>1 DEF Fits, CallForm, CallFields
    <2>2. c.read \in Nat
      BY <1>1 DEF Fits, Budgeted
    <2> QED BY <1>1, <1>2, <2>1, <2>2, PhaseMoves DEF Answering
  <1>3. CASE Outcome(h, r, runs[r]) \/ _failed(h, c.action)
    <2> HIDE DEF r
    <2> QED BY <1>1, <1>3, RowTold DEF Acting, Answering
  <1> QED BY <1>2, <1>3 DEF gateway_inspect

\* The dependencies are resolved.
LEMMA ResolveStep ==
  ASSUME HostInv, NEW h \in Hosts, gateway_resolve(h)
  PROVE  HostInv'
  <1>1. version \in Nat
    BY HostAssumption DEF HostInv, HostsTyped
  <1> QED BY <1>1, PhaseMoves DEF gateway_resolve, Answering

(* The engine finds the run suspended at the selected dialogue or past it.  *)
LEMMA ResumeStep ==
  ASSUME HostInv, NEW h \in Hosts, gateway_resume(h)
  PROVE  HostInv'
  <1> DEFINE c == host[h]
             r == c.selected.run
             n == Len(runs[r].answers) + 1
  <1>1. /\ c.pc = "resuming" /\ r = Driven(c) /\ Asked(c.selected, runs)
        /\ UNCHANGED <<version, runs, records, dropped, slower>>
    BY WhatIsDriven DEF gateway_resume, Answering
  <1>2. r \in DOMAIN runs /\ Len(runs[r].answers) \in Nat /\ c.selected.dialogue <= n
    BY <1>1, AnswersLength DEF Asked, HostInv, RunsTyped
  <1>3. CASE Goto(h, [c EXCEPT !.pc = "observing", !.read = 0]) /\ UNCHANGED results
    BY <1>1, <1>3, PhaseMoves DEF Answering
  <1>4. CASE Goto(h, [c EXCEPT !.pc = "claiming", !.read = n]) /\ UNCHANGED results
    <2>1. n \in Nat
      BY <1>2
    <2> HIDE DEF n
    <2> QED BY <1>1, <1>2, <1>4, <2>1, PhaseMoves DEF Answering
  <1>5. CASE StaleOutcome(h, r)
    <2> HIDE DEF r
    <2> QED BY <1>1, <1>2, <1>5, RowTold DEF Acting, Answering
  <1> QED BY <1>3, <1>4, <1>5 DEF gateway_resume

(* One call records its answer: for the dialogue it has selected, or, when  *)
(* that was answered meanwhile, for a later one.                            *)
LEMMA ClaimStep ==
  ASSUME HostInv, NEW h \in Hosts, gateway_claim(h)
  PROVE  HostInv'
  <1> DEFINE c == host[h]
             k == c.selected
             r == k.run
             row == runs[r]
             answered == Append(row.answers, c.decision.what)
             given == CapabilityContinuation(r, c.read)
             won == row.status = "suspended" /\ Len(row.answers) + 1 = c.read
  <1>1. /\ Fits(h, c, runs, Known) /\ c.pc = "claiming" /\ r = Driven(c)
        /\ Asked(k, runs) /\ k \in Known /\ c.decision.what \in Responses
    BY InsideCall, WhatIsDriven DEF gateway_claim, Phases, Answering
  <1>2. UNCHANGED <<version, records, dropped, results>> /\ r \in DOMAIN runs /\ row \in Runs
    BY <1>1 DEF gateway_claim, Asked, HostInv, RunsTyped
  <1>3. CASE ~won
    <2>1. Goto(h, [c EXCEPT !.pc = "observing", !.read = 0]) /\ UNCHANGED <<runs, slower>>
      BY <1>3 DEF gateway_claim
    <2> QED BY <1>1, <1>2, <2>1, PhaseMoves DEF Answering
  <1>4. CASE won
    <2> DEFINE next == Run("running", answered, row.base)
    <2>1. /\ runs' = [runs EXCEPT ![r] = next]
          /\ Goto(h, [c EXCEPT !.pc = "driving", !.read = 0])
          /\ slower' = IF given # k THEN slower \union {given} ELSE slower
      BY <1>4 DEF gateway_claim
    <2>2. /\ row.answers \in Seq(Responses) /\ Len(row.answers) \in Nat
          /\ DOMAIN row.answers = 1..Len(row.answers) /\ row.base \in Nat
      BY <1>2, AnswersLength DEF Runs
    <2>3. /\ answered \in Seq(Responses) /\ Len(answered) = Len(row.answers) + 1
          /\ DOMAIN answered = 1..(Len(row.answers) + 1)
      BY <1>1, <2>2, AppendProperties, LenProperties
    <2>4. next \in Runs /\ next.answers = answered /\ next.status = "running"
      BY <2>2, <2>3 DEF Run, Runs
    <2>5. given # k => given.dialogue > 1
      <3>1. /\ k = CapabilityContinuation(r, k.dialogue) /\ k.dialogue \in Nat \ {0}
            /\ k.dialogue <= c.read /\ c.read \in Nat
        BY <1>1 DEF Asked, Fits, Claims, Budgeted
      <3>2. given # k => k.dialogue # c.read
        BY <3>1 DEF CapabilityContinuation
      <3>3. given.dialogue = c.read
        BY DEF CapabilityContinuation
      <3> HIDE DEF given
      <3> QED BY <3>1, <3>2, <3>3
    <2>6. \A n \in DOMAIN answered : CapabilityContinuation(r, n) \in Known \union slower'
      <3>1. CapabilityContinuation(r, Len(row.answers) + 1) \in Known \union slower'
        BY <1>1, <1>4, <2>1
      <3>2. \A n \in DOMAIN row.answers : CapabilityContinuation(r, n) \in Known \union slower'
        BY <1>2, <2>1 DEF HostInv, ContinuationsHold
      <3> QED BY <2>2, <2>3, <3>1, <3>2
    <2>7. slower \subseteq slower' /\ \A j \in slower' : j.dialogue > 1
      BY <2>1, <2>5 DEF HostInv, ContinuationsHold
    <2>8. row.status # "completed" /\ row.status # "running"
      BY <1>4
    <2> HIDE DEF r, next, answered, given, won
    <2>9. Len(row.answers) <= Len(next.answers)
      BY <2>2, <2>3, <2>4
    <2>10. RunsAdvance(h) /\ ContinuationsHold'
      BY <1>2, <2>1, <2>4, <2>6, <2>7, <2>8, <2>9, RowAdvances
    <2>11. r \in DOMAIN runs' /\ runs'[r].status = "running"
      BY <1>2, <2>1, <2>4
    <2>12. MovesOn(h) /\ ResultsGrow
      BY <1>1, <1>2, <2>1, <2>8, <2>10, <2>11, DrivingMoves
    <2> QED BY <1>2, <2>10, <2>12, AdvancingStep
  <1> QED BY <1>3, <1>4

(* The driver takes its run to the next dialogue or to its end.             *)
LEMMA DriveStep ==
  ASSUME HostInv, NEW h \in Hosts, gateway_drive(h)
  PROVE  HostInv'
  <1> DEFINE c == host[h]
             r == Driven(c)
             observing == [c EXCEPT !.pc = "observing"]
  <1>1. /\ Fits(h, c, runs, Known) /\ c.pc = "driving" /\ r \in DOMAIN runs
        /\ runs[r].status = "running" /\ runs[r] \in Runs
    BY InsideCall DEF gateway_drive, Phases, Fits, Drives, HostInv, RunsTyped
  <1>2. PICK status \in {"suspended", "completed", "ended"} :
           /\ runs' = [runs EXCEPT ![r].status = status]
           /\ \/ Goto(h, observing) /\ UNCHANGED results
              \/ Settle(h, "ended", r, 0)
    BY DEF gateway_drive
  <1>3. UNCHANGED <<version, records, dropped, slower>>
    BY DEF gateway_drive
  <1> HIDE DEF r
  <1> DEFINE row == [runs[r] EXCEPT !.status = status]
  <1>4. row \in Runs /\ row.answers = runs[r].answers
    BY <1>1 DEF Runs
  <1>5. runs' = [runs EXCEPT ![r] = row]
    BY <1>2
  <1>6. Len(runs[r].answers) <= Len(row.answers)
    BY <1>1, <1>4, AnswersLength
  <1>7. /\ \A n \in DOMAIN row.answers : CapabilityContinuation(r, n) \in Known \union slower'
        /\ \A k \in slower' : k.dialogue > 1
    BY <1>1, <1>3, <1>4 DEF HostInv, ContinuationsHold
  <1> HIDE DEF row
  <1>8. RunsAdvance(h) /\ ContinuationsHold'
    BY <1>1, <1>3, <1>4, <1>5, <1>6, <1>7, RowAdvances DEF r
  <1>9. CASE Settle(h, "ended", r, 0)
    BY <1>1, <1>3, <1>8, <1>9, SettleMoves, AdvancingStep DEF Acting
  <1>10. CASE Goto(h, observing) /\ UNCHANGED results
    <2>1. CallForm(observing) /\ observing.pc = "observing"
      BY <1>1 DEF Fits, CallForm, CallFields
    <2>2. Budgeted(h, observing)
      BY <1>1, <2>1 DEF Fits, CallForm, CallFields, Budgeted
    <2>3. Selects(observing, Known')
      BY <1>1, <1>8, <2>1 DEF Fits, CallForm, CallFields, Selects, RunsAdvance
    <2>4. Driven(observing) = r
      BY <1>1 DEF Fits, CallForm, CallFields, Driven, r
    <2>5. Acts(observing)
      BY <1>1, <2>1, <2>4 DEF Fits, CallForm, CallFields, Acts, Acting, Answering, r
    <2> HIDE DEF observing
    <2>6. Drives(observing, runs')
      BY <1>1, <1>5, <2>1, <2>4 DEF Drives
    <2>7. Fits(h, observing, runs', Known')
      BY <2>1, <2>2, <2>3, <2>5, <2>6 DEF Fits, Phases, Claims, Settles
    <2>8. MovesOn(h) /\ ResultsGrow
      BY <1>10, <2>1, <2>7 DEF MovesOn, ResultsGrow
    <2> QED BY <1>3, <1>8, <2>8, AdvancingStep
  <1> QED BY <1>2, <1>9, <1>10

(* After the engine the row is read again.                                  *)
LEMMA ObserveStep ==
  ASSUME HostInv, NEW h \in Hosts, gateway_observe(h)
  PROVE  HostInv'
  <1> DEFINE r == Driven(host[h])
  <1>1. /\ host[h].pc = "observing" /\ r \in DOMAIN runs
        /\ UNCHANGED <<version, runs, records, dropped, slower>>
    BY InsideCall DEF gateway_observe, Phases, Fits, Drives
  <1>2. Outcome(h, r, runs[r]) \/ _failed(h, host[h].action)
    BY DEF gateway_observe
  <1> HIDE DEF r
  <1> QED BY <1>1, <1>2, RowTold DEF Acting, r

(* The engine fails, and the run stays as it is.                            *)
LEMMA EngineFails ==
  ASSUME HostInv, NEW h \in Hosts, engine_fails(h)
  PROVE  HostInv'
  <1>1. host[h].pc \in Acting /\ UNCHANGED <<version, runs, records, dropped, slower>>
    BY DEF engine_fails, Acting, Answering
  <1>2. RunsAdvance(h)
    BY <1>1, NothingMoved
  <1>3. MovesOn(h) /\ ResultsGrow
    BY <1>1, <1>2, SettleMoves DEF engine_fails
  <1> QED BY <1>1, <1>3, QuietStep

(* A step that changes only the records, and forgets none of them.          *)
LEMMA RecordsMove ==
  ASSUME HostInv, NEW h \in Hosts, UNCHANGED <<version, runs, slower>>,
         Known \subseteq Known', \A k \in Known' \ Known : Asked(k, runs),
         \A k \in DOMAIN records' : records'[k] = k.run
  PROVE  RunsAdvance(h) /\ ContinuationsHold'
  <1>1. \A r \in DOMAIN runs : Len(runs[r].answers) <= Len(runs[r].answers)
    BY AnswersLength DEF HostInv, RunsTyped
  <1>2. RunsAdvance(h)
    BY <1>1 DEF HostInv, RunsTyped, RunsAdvance
  <1>3. \A k \in Known' : Asked(k, runs')
    BY DEF HostInv, ContinuationsHold
  <1> QED BY <1>2, <1>3 DEF HostInv, ContinuationsHold

(* A deleted record is remembered as deleted.                               *)
LEMMA DeleteMoves ==
  ASSUME HostInv, NEW h \in Hosts, host[h].pc = "settling",
         UNCHANGED <<version, runs, slower>>, _delete(host[h])
  PROVE  RunsAdvance(h) /\ ContinuationsHold' /\ Known' = Known
  <1>1. host[h].selected # None => host[h].selected \in Known
    BY InsideCall DEF Phases, Fits, Selects
  <1>2. Known' = Known
    BY <1>1 DEF _delete, Drop, Known
  <1>3. \A k \in DOMAIN records' : records'[k] = k.run
    BY DEF HostInv, ContinuationsHold, _delete, Drop
  <1> QED BY <1>2, <1>3, RecordsMove

\* A stale outcome drops the record, and the call is interrupted or starts over
\* with fresh views.
LEMMA StaleStep ==
  ASSUME HostInv, NEW h \in Hosts, stale_outcome(h)
  PROVE  HostInv'
  <1> DEFINE c == host[h]
             next == [c EXCEPT !.pc = "turning", !.refreshes = @ + 1, !.generation = @ + 1,
                               !.receipt = None, !.selected = None, !.owner = None,
                               !.action = None, !.outcome = None]
  <1>1. Fits(h, c, runs, Known) /\ c.pc = "settling" /\ UNCHANGED <<version, runs, slower>> /\ _delete(c)
    BY InsideCall DEF stale_outcome, Phases
  <1>2. RunsAdvance(h) /\ ContinuationsHold' /\ Known' = Known
    BY <1>1, DeleteMoves
  <1>3. CASE _interrupted_result(h)
    BY <1>1, <1>2, <1>3, InterruptedMoves, AdvancingStep DEF Phases
  <1>4. CASE refresh(h) /\ c.refreshes + 1 > Limits[h].max_stale_refreshes
    BY <1>1, <1>2, <1>4, BudgetMoves, AdvancingStep DEF refresh
  <1>5. CASE refresh(h) /\ ~(c.refreshes + 1 > Limits[h].max_stale_refreshes)
    <2>1. Goto(h, next) /\ UNCHANGED results
      BY <1>5 DEF refresh
    <2>2. CallForm(next) /\ next.pc = "turning" /\ next.selected = None
      BY <1>1 DEF Fits, CallForm, CallFields
    <2>3. Budgeted(h, next)
      <3>1. /\ next.refreshes = c.refreshes + 1 /\ next.generation = c.generation + 1
            /\ next.decisions = c.decisions /\ next.attempts = c.attempts /\ next.read = c.read
        BY <1>1 DEF Fits, CallForm, CallFields
      <3> HIDE DEF next
      <3> QED BY <1>1, <1>5, <2>2, <3>1, LimitsAreNat, HostAssumption DEF Fits, Budgeted
    <2>4. Fits(h, next, runs', Known')
      BY <2>2, <2>3 DEF Fits, Phases, Acting, Answering, Selects, Acts, Claims, Drives, Settles
    <2>5. MovesOn(h) /\ ResultsGrow
      BY <2>1, <2>2, <2>4 DEF MovesOn, ResultsGrow
    <2> QED BY <1>1, <1>2, <2>5, AdvancingStep
  <1> QED BY <1>3, <1>4, <1>5 DEF stale_outcome

(* A dialogue is shown once its record is stored.                           *)
LEMMA SuspendedStep ==
  ASSUME HostInv, NEW h \in Hosts, suspended_outcome(h)
  PROVE  HostInv'
  <1> DEFINE c == host[h]
             k == CapabilityContinuation(c.outcome.run, c.outcome.dialogue)
             owner == RecordOwner(c)
  <1>1. Fits(h, c, runs, Known) /\ c.pc = "settling" /\ UNCHANGED <<version, runs, dropped, slower>>
    BY InsideCall DEF suspended_outcome, Phases
  <1>2. /\ c.outcome.status = "suspended"
        /\ records' = IF k \in DOMAIN records THEN records ELSE Put(records, k, owner)
    BY DEF suspended_outcome
  <1>3. k.run = Driven(c) /\ Asked(k, runs)
    BY <1>1, <1>2 DEF Fits, Settles, CapabilityContinuation
  <1>4. owner = k.run
    BY <1>1, <1>3 DEF Fits, Acts, Acting, Answering, Selects, RecordOwner, Driven
  <1> HIDE DEF k, owner
  <1>5. Known' = Known \union {k} /\ k \in DOMAIN records'
    BY <1>1, <1>2 DEF Known, Put
  <1>6. \A j \in DOMAIN records' : records'[j] = j.run
    BY <1>2, <1>4 DEF HostInv, ContinuationsHold, Put
  <1>7. RunsAdvance(h) /\ ContinuationsHold'
    BY <1>1, <1>3, <1>5, <1>6, RecordsMove
  <1>8. \/ _interrupted_result(h)
        \/ \E status \in {"suspended", "interrupted"} : Return(h, status, c.action, None, k)
        \/ _failed(h, c.action)
    BY DEF suspended_outcome, k, owner
  <1>9. MovesOn(h) /\ ResultsGrow
    <2>1. CASE _interrupted_result(h)
      BY <1>1, <1>5, <2>1, InterruptedMoves DEF Phases
    <2>2. k.run = RunOfAction(c.action.identity)
      BY <1>1, <1>3 DEF Fits, Acts, Acting
    <2>3. ASSUME NEW status \in {"suspended", "interrupted"}, Return(h, status, c.action, None, k)
          PROVE  MovesOn(h) /\ ResultsGrow
      BY <1>5, <2>2, <2>3, ReturnMoves
    <2>4. CASE _failed(h, c.action)
      BY <2>4, FailedMoves
    <2> QED BY <1>8, <2>1, <2>3, <2>4
  <1> QED BY <1>1, <1>7, <1>9, AdvancingStep

(* Only a completed run shows its output.                                   *)
LEMMA TerminalStep ==
  ASSUME HostInv, NEW h \in Hosts, terminal_outcome(h)
  PROVE  HostInv'
  <1> DEFINE c == host[h]
  <1>1. Fits(h, c, runs, Known) /\ c.pc = "settling" /\ UNCHANGED <<version, runs, slower>> /\ _delete(c)
    BY InsideCall DEF terminal_outcome, Phases
  <1>2. RunsAdvance(h) /\ ContinuationsHold' /\ Known' = Known
    BY <1>1, DeleteMoves
  <1>3. CASE _interrupted_result(h)
    BY <1>1, <1>2, <1>3, InterruptedMoves, AdvancingStep DEF Phases
  <1>4. CASE c.outcome.status = "completed" /\ _map_terminal(h, c)
    <2>1. Return(h, "completed", None, c.outcome.run, None)
      BY <1>4 DEF _map_terminal
    <2>2. Completed(c.outcome.run, runs')
      BY <1>1, <1>2, <1>4, CompletedStays DEF Fits, Settles
    <2>3. MovesOn(h) /\ ResultsGrow
      BY <2>1, <2>2, ReturnMoves
    <2> QED BY <1>1, <1>2, <2>3, AdvancingStep
  <1>5. CASE c.outcome.status # "completed" /\ _map_terminal(h, c)
    <2>1. Return(h, c.outcome.status, c.action, None, None) /\ c.outcome.status # "suspended"
      BY <1>5 DEF _map_terminal, terminal_outcome
    <2>2. MovesOn(h) /\ ResultsGrow
      BY <2>1, ReturnMoves
    <2> QED BY <1>1, <1>2, <2>2, AdvancingStep
  <1> QED BY <1>3, <1>4, <1>5 DEF terminal_outcome

-----------------------------------------------------------------------------
(* The invariant holds at first and is kept by every step.                  *)
LEMMA HostInit ==
  ASSUME Init
  PROVE  HostInv
  <1>1. HostsTyped /\ CallsFit /\ OneDriver
    BY HostAssumption DEF Init, HostsTyped, CallsFit, OneDriver, Idle
  <1>2. RunsTyped /\ ContinuationsHold /\ ResultsHold
    BY DEF Init, RunsTyped, ContinuationsHold, ResultsHold, Known
  <1> QED BY <1>1, <1>2 DEF HostInv

\* Every step keeps the invariant.
LEMMA HostNext ==
  ASSUME HostInv, [Next]_hostVars
  PROVE  HostInv'
  <1>1. CASE UNCHANGED hostVars
    BY <1>1 DEF hostVars, HostInv, HostsTyped, RunsTyped, ContinuationsHold, ResultsHold,
                CallsFit, OneDriver, Driven, Known
  <1>2. ASSUME NEW h \in Hosts, HostStep(h) PROVE HostInv'
    BY <1>2, LoadStep, LoopStep, AssembleStep, DecideStep, DecidedStep, StartStep, CreateStep,
       InspectStep, ResolveStep, ResumeStep, ClaimStep, DriveStep, ObserveStep,
       StaleStep, SuspendedStep, TerminalStep DEF HostStep
  <1> QED BY <1>1, <1>2, RunStep, EngineFails, GivingUp, CrashStep, StateMoves DEF Next

\* So it holds in every state.
LEMMA HostInvariant == Spec => []HostInv
  BY HostInit, HostNext, PTL DEF Spec

(* Every dialogue a learner was shown survives the host: its record is kept *)
(* until it is over, and a stored record can be answered with the authority *)
(* its run was started with.  A dialogue that was answered without a record *)
(* was answered by a call that had selected an earlier one, between the     *)
(* inspection (gateway.py:148) and the claim (engine.py:232) of its resume. *)
THEOREM DialoguesAreKept == Spec => []DialoguesSurvive
  <1>1. HostInv => DialoguesSurvive
    <2> SUFFICES ASSUME HostInv PROVE DialoguesSurvive
      OBVIOUS
    <2>1. TypeOK
      BY DEF HostInv, HostsTyped, CallsFit, Fits, Budgeted, TypeOK
    <2>2. RecordsAreResumable
      BY DEF HostInv, ContinuationsHold, Asked, Known, RecordsAreResumable
    <2>3. SuspensionIsResumable
      BY DEF HostInv, ContinuationsHold, ResultsHold, ResultHolds, Known, SuspensionIsResumable
    <2> QED BY <2>1, <2>2, <2>3 DEF DialoguesSurvive
  <1> QED BY <1>1, HostInvariant, PTL

(* What a host reports as completed is completed, the output it hands out   *)
(* is the output of that run, and every attempt of one action that ends in  *)
(* a dialogue shows one of that action's run.                               *)
THEOREM ReportsAreReal == Spec => []ReportedIsReal
  <1>1. HostInv => ReportedIsReal
    BY DEF HostInv, ResultsHold, ResultHolds, Completed, ReportedIsReal
  <1> QED BY <1>1, HostInvariant, PTL

(* No call decides, asks its provider or starts over more often than the    *)
(* limits of its host allow (hosts/runner.py:98-112), for all limits.       *)
THEOREM LimitsAreKept == Spec => []LimitsHold
  <1>1. HostInv => LimitsHold
    BY LimitsAreNat DEF HostInv, CallsFit, Fits, Budgeted, LimitsHold
  <1> QED BY <1>1, HostInvariant, PTL

=============================================================================

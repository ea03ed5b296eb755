--------------------------- MODULE WorkersProofs ---------------------------
(***************************************************************************)
(* Machine-checked proofs about the workers.  First GenerationWorkers, for *)
(* every number of processes, tasks, answers, outputs and dialogues; then, *)
(* on top of what is shown there of a worker row, LessonWorkers for every  *)
(* plan, every number of coordinators and places, and every set of         *)
(* children.                                                               *)
(***************************************************************************)
EXTENDS LessonWorkers, SequenceTheorems, FiniteSetTheorems, NaturalsInduction, TLAPS

-----------------------------------------------------------------------------
(* Types.  A call inside the service holds the row it read and what it saw. *)

RowStatuses == {"absent", "pending", "suspended", "resume_claimed", "running"} \union Terminal

Rows == [status : RowStatuses, generation : Nat, continuation : Nat,
         response : Responses \union {None}, output : Outputs \union {None}]

Children == [status : {"absent", "running", "suspended"} \union Endings,
             answers : Seq(Responses \union {None}), output : Outputs \union {None}]

Sights == [status : RowStatuses, dialogue : Nat, output : Outputs \union {None}]

Inside == {"starting", "creating", "claiming", "resuming", "answering",
           "driving", "inspecting", "proving", "persisting"}

Views == RowStatuses \union {"conflict"}

Calls == [pc : Inside, task : Tasks, row : Rows, seen : Sights]
             \union [pc : {"returned"}, task : Tasks, view : Views]
             \union {Idle}

Typed == /\ worker \in [Tasks -> Rows]
         /\ child \in [Tasks -> Children]
         /\ proofs \in [Tasks -> Outputs \union {None}]
         /\ call \in [Procs -> Calls]

(* What child t has produced, as a call or a row reports it.                *)
Produced(t, output, children) ==
    children[t].status = "completed" /\ children[t].output = output /\ output \notin Unverified

(* A call agrees with the children and the proof slots: it claims for a      *)
(* suspended row and otherwise works for one that is pending or claimed, it  *)
(* drives a running child, and a completion it reports is real, and proved   *)
(* before it is persisted.                                                   *)
Agrees(c, children, slots) ==
    c.pc \in Inside =>
        /\ c.pc = "claiming" => c.row.status = "suspended"
        /\ c.pc # "claiming" => c.row.status \in {"pending", "resume_claimed"}
        /\ c.pc = "driving" => children[c.task].status = "running"
        /\ c.pc = "proving" => c.seen.status = "completed"
        /\ c.pc \in {"proving", "persisting"} /\ c.seen.status = "completed" =>
              Produced(c.task, c.seen.output, children)
        /\ c.pc = "persisting" /\ c.seen.status = "completed" => slots[c.task] = c.seen.output

CallsFit == \A p \in Procs : Agrees(call[p], child, proofs)

(* A child is driven by one call (the engine's SingleDriver).                *)
OneDriver ==
    \A p, q \in Procs :
        call[p].pc = "driving" /\ call[q].pc = "driving" /\ call[p].task = call[q].task => p = q

ChildrenProduce == \A t \in Tasks : child[t].status = "completed" => child[t].output \in Outputs

RowsAreProved ==
    \A t \in Tasks : worker[t].status = "completed" =>
        Produced(t, worker[t].output, child) /\ proofs[t] = worker[t].output

WorkersInv == Typed /\ CallsFit /\ OneDriver /\ ChildrenProduce /\ RowsAreProved

(* Process p moves on to a call that fits what the step leaves behind.       *)
MovesOn(p) ==
    \E next \in Calls :
        /\ Goto(p, next)
        /\ Agrees(next, child', proofs')
        /\ next.pc = "driving" => child[next.task].status # "running"

(* What a step of p may do to the children and the proof slots: a completed  *)
(* child and a written slot stay, and only its driver moves a running child. *)
ChildrenAdvance(p) ==
    /\ child' \in [Tasks -> Children]
    /\ ChildrenProduce'
    /\ \A t \in Tasks : child[t].status = "completed" => child'[t] = child[t]
    /\ \A t \in Tasks : child[t].status = "running" /\ child'[t] # child[t] =>
                           call[p].pc = "driving" /\ call[p].task = t

SlotsStay ==
    /\ proofs' \in [Tasks -> Outputs \union {None}]
    /\ \A t \in Tasks : proofs[t] # None => proofs'[t] = proofs[t]

-----------------------------------------------------------------------------
(* The phase of a call inside the service determines its components.        *)
LEMMA InsideCall ==
  ASSUME Typed, NEW p \in Procs, call[p].pc \in Inside
  PROVE  /\ call[p].task \in Tasks /\ call[p].row \in Rows /\ call[p].seen \in Sights
         /\ call[p] \in [pc : Inside, task : Tasks, row : Rows, seen : Sights]
  BY DEF Typed, Calls, Inside, Idle

(* The forms a call may take are calls.                                     *)
LEMMA CallForms ==
  ASSUME NEW t \in Tasks
  PROVE  /\ Idle \in Calls
         /\ \A view \in Views : Returned(t, view) \in Calls
         /\ \A pc \in Inside, row \in Rows, seen \in Sights : Calling(pc, t, row, seen) \in Calls
  BY DEF Calls, Idle, Returned, Calling

(* A call that has returned fits everything.                                *)
LEMMA OutsideFits ==
  ASSUME NEW c, c.pc \notin Inside, NEW children, NEW slots
  PROVE  Agrees(c, children, slots)
  BY DEF Agrees

(* The generic step: p moves on, the children advance, the slots stay.      *)
LEMMA StepKeepsCalls ==
  ASSUME WorkersInv, NEW p \in Procs, MovesOn(p), ChildrenAdvance(p), SlotsStay
  PROVE  call' \in [Procs -> Calls] /\ CallsFit' /\ OneDriver'
  <1>1. PICK next \in Calls :
           /\ Goto(p, next)
           /\ Agrees(next, child', proofs')
           /\ next.pc = "driving" => child[next.task].status # "running"
    BY DEF MovesOn
  <1>2. /\ call' \in [Procs -> Calls]
        /\ call'[p] = next
        /\ \A q \in Procs : q # p => call'[q] = call[q]
    BY <1>1 DEF Goto, WorkersInv, Typed
  <1>3. \A q \in Procs : call[q].pc = "driving" =>
           call[q].task \in Tasks /\ child[call[q].task].status = "running"
    BY InsideCall DEF WorkersInv, CallsFit, Agrees, Inside
  <1>4. ASSUME NEW q \in Procs, q # p PROVE Agrees(call'[q], child', proofs')
    <2>1. call'[q] = call[q] /\ Agrees(call[q], child, proofs)
      BY <1>2, <1>4 DEF WorkersInv, CallsFit
    <2>2. SUFFICES ASSUME call[q].pc \in Inside PROVE Agrees(call[q], child', proofs')
      BY <2>1, OutsideFits
    <2>3. call[q].task \in Tasks
      BY <2>2, InsideCall DEF WorkersInv
    <2>4. call[q].pc = "driving" => child'[call[q].task].status = "running"
      BY <1>3, <1>4, <2>3 DEF ChildrenAdvance, WorkersInv, OneDriver
    <2>5. Produced(call[q].task, call[q].seen.output, child) =>
             Produced(call[q].task, call[q].seen.output, child')
      BY <2>3 DEF Produced, ChildrenAdvance
    <2>6. Produced(call[q].task, call[q].seen.output, child)
             /\ proofs[call[q].task] = call[q].seen.output =>
          proofs'[call[q].task] = call[q].seen.output
      BY <2>3, WorkersAssumption
         DEF SlotsStay, WorkersInv, ChildrenProduce, Produced
    <2> QED BY <2>1, <2>2, <2>4, <2>5, <2>6 DEF Agrees
  <1>5. CallsFit'
    BY <1>1, <1>2, <1>4 DEF CallsFit
  <1>6. OneDriver'
    BY <1>1, <1>2, <1>3 DEF OneDriver, WorkersInv
  <1> QED BY <1>2, <1>5, <1>6

(* A step that leaves the children and the slots alone.                     *)
LEMMA NothingMoved ==
  ASSUME WorkersInv, UNCHANGED <<child, proofs>>, NEW p \in Procs
  PROVE  ChildrenAdvance(p) /\ SlotsStay
  BY DEF ChildrenAdvance, SlotsStay, WorkersInv, Typed, ChildrenProduce

(* The rows that no step rewrites stay proved.                              *)
LEMMA RowsStayProved ==
  ASSUME WorkersInv, NEW p \in Procs, ChildrenAdvance(p), SlotsStay,
         NEW t \in Tasks, worker'[t] = worker[t], worker[t].status = "completed"
  PROVE  Produced(t, worker'[t].output, child') /\ proofs'[t] = worker'[t].output
  BY WorkersAssumption
     DEF WorkersInv, RowsAreProved, ChildrenProduce, ChildrenAdvance, SlotsStay, Produced

(* What the adapter makes of a child it observes fits that child.           *)
LEMMA ObserveFits ==
  ASSUME WorkersInv, NEW p \in Procs, call[p].pc \in Inside \ {"claiming"},
         _observe(p, child[call[p].task]), UNCHANGED <<child, proofs>>
  PROVE  MovesOn(p)
  <1> DEFINE t == call[p].task
             c == child[t]
             row == call[p].row
  <1>1. t \in Tasks /\ row \in Rows /\ row.status \in {"pending", "resume_claimed"}
    BY InsideCall DEF WorkersInv, CallsFit, Agrees
  <1>2. c \in Children /\ c.output \in Outputs \union {None} /\ Len(c.answers) \in Nat
    BY <1>1, LenProperties DEF WorkersInv, Typed, Children
  <1>3. ASSUME NEW seen \in Sights, seen.status # "completed",
               Goto(p, Calling("persisting", t, row, seen))
        PROVE  MovesOn(p)
    <2>1. Calling("persisting", t, row, seen) \in Calls
      BY <1>1, <1>3, CallForms DEF Inside
    <2> QED BY <1>1, <1>3, <2>1 DEF MovesOn, Agrees, Calling
  <1>4. CASE Goto(p, Returned(t, "running"))
    BY <1>1, <1>4, CallForms DEF MovesOn, Views, RowStatuses, Returned, Agrees, Inside
  <1>5. CASE Seen(p, "persisting", "suspended", Len(c.answers) + 1, None)
    <2>1. Observation("suspended", Len(c.answers) + 1, None) \in Sights
      BY <1>2 DEF Observation, Sights, RowStatuses
    <2> QED BY <1>3, <1>5, <2>1 DEF Observation, Seen
  <1>6. CASE _completed_observation(c) /\ Seen(p, "proving", "completed", 0, c.output)
    <2> DEFINE seen == Observation("completed", 0, c.output)
    <2>1. seen \in Sights
      BY <1>2 DEF Observation, Sights, RowStatuses, Terminal
    <2>2. Calling("proving", t, row, seen) \in Calls
      BY <1>1, <2>1, CallForms DEF Inside
    <2>3. Agrees(Calling("proving", t, row, seen), child', proofs')
      BY <1>1, <1>6 DEF Agrees, Calling, Observation, Produced, _completed_observation
    <2> QED BY <1>6, <2>2, <2>3 DEF MovesOn, Calling, Seen
  <1>7. ASSUME NEW status \in {"failed"} \union Failures, Seen(p, "persisting", status, 0, None)
        PROVE  MovesOn(p)
    <2>1. Observation(status, 0, None) \in Sights /\ status # "completed"
      BY WorkersAssumption DEF Observation, Sights, RowStatuses, Terminal
    <2> QED BY <1>3, <1>7, <2>1 DEF Observation, Seen
  <1> QED BY <1>4, <1>5, <1>6, <1>7 DEF _observe

(* A call that gives up on its child fits every child.                      *)
LEMMA FailedFits ==
  ASSUME WorkersInv, NEW p \in Procs, call[p].pc \in Inside \ {"claiming"},
         NEW status \in {"failed", "stale"}, Seen(p, "persisting", status, 0, None)
  PROVE  MovesOn(p)
  <1> DEFINE next == Calling("persisting", call[p].task, call[p].row, Observation(status, 0, None))
  <1>1. call[p].task \in Tasks /\ call[p].row \in Rows
        /\ call[p].row.status \in {"pending", "resume_claimed"}
    BY InsideCall DEF WorkersInv, CallsFit, Agrees
  <1>2. Observation(status, 0, None) \in Sights
    BY DEF Observation, Sights, RowStatuses, Terminal
  <1>3. next \in Calls
    BY <1>1, <1>2, CallForms DEF Inside
  <1>4. Agrees(next, child', proofs')
    BY <1>1 DEF Agrees, Calling, Observation
  <1> QED BY <1>3, <1>4 DEF MovesOn, Seen, Calling

(* A call that returns fits every child.                                    *)
LEMMA ReturnedFits ==
  ASSUME NEW p \in Procs, NEW t \in Tasks, NEW view \in Views, Goto(p, Returned(t, view))
  PROVE  MovesOn(p)
  BY CallForms DEF MovesOn, Returned, Agrees, Inside

(* So does one that works for a pending or claimed row and has seen nothing. *)
LEMMA ContinuesFits ==
  ASSUME NEW p \in Procs, NEW t \in Tasks, NEW row \in Rows,
         row.status \in {"pending", "resume_claimed"},
         NEW pc \in {"starting", "resuming"}, Goto(p, Calling(pc, t, row, Unseen))
  PROVE  MovesOn(p)
  <1>1. Unseen \in Sights
    BY DEF Unseen, Observation, Sights, RowStatuses
  <1>2. Calling(pc, t, row, Unseen) \in Calls
    BY <1>1, CallForms DEF Inside
  <1>3. Agrees(Calling(pc, t, row, Unseen), child', proofs')
    BY DEF Agrees, Calling
  <1> QED BY <1>2, <1>3 DEF MovesOn, Calling

-----------------------------------------------------------------------------
(* One lemma per action: where it leaves its process, the children and the  *)
(* proof slots, and what it does to the rows.                               *)

Steps(p) == MovesOn(p) /\ ChildrenAdvance(p) /\ SlotsStay

RowsAdvance == worker' \in [Tasks -> Rows] /\ RowsAreProved' /\ RowsForward

(* A step that leaves the rows alone keeps them proved.                     *)
LEMMA RowsStand ==
  ASSUME WorkersInv, NEW p \in Procs, Steps(p), UNCHANGED worker
  PROVE  RowsAdvance
  <1>1. RowsAreProved'
    BY RowsStayProved DEF RowsAreProved, Steps
  <1> QED BY <1>1 DEF RowsAdvance, RowsForward, WorkersInv, Typed

(* start creates a pending row or follows the one that is there.            *)
LEMMA StartSteps ==
  ASSUME WorkersInv, NEW p \in Procs, NEW t \in Tasks, start(p, t)
  PROVE  Steps(p) /\ RowsAdvance
  <1>1. worker' \in [Tasks -> Rows]
    BY WorkersAssumption DEF start, WorkersInv, Typed, Pending, Row, Rows, RowStatuses
  <1>2. MovesOn(p)
    <2> DEFINE row == worker'[t]
    <2>1. row \in Rows /\ row.status \in Views
      BY <1>1 DEF Rows, Views
    <2>2. \/ row.status = "pending" /\ Goto(p, Calling("starting", t, row, Unseen))
          \/ row.status = "resume_claimed" /\ Goto(p, Calling("resuming", t, row, Unseen))
          \/ Goto(p, Returned(t, row.status))
      BY DEF start, Follow
    <2> QED BY <2>1, <2>2, ReturnedFits, ContinuesFits
  <1>3. Steps(p)
    BY <1>2, NothingMoved DEF Steps, start
  <1>4. ASSUME NEW u \in Tasks, worker'[u] # worker[u]
        PROVE  u = t /\ worker[u] = Absent /\ worker'[u] = Pending
    BY <1>4 DEF start, WorkersInv, Typed
  <1>5. RowsAreProved'
    BY <1>3, <1>4, RowsStayProved DEF RowsAreProved, Steps, Pending, Row
  <1>6. RowsForward
    BY <1>4 DEF RowsForward, Absent, Pending, Row, Terminal
  <1> QED BY <1>1, <1>3, <1>5, <1>6 DEF RowsAdvance

(* resume returns, joins the claim of its response, or goes on to claim.     *)
LEMMA ResumeSteps ==
  ASSUME WorkersInv, NEW p \in Procs, NEW t \in Tasks, NEW g \in 0..Dialogues,
         NEW r \in Responses, resume(p, t, g, r)
  PROVE  Steps(p) /\ RowsAdvance
  <1> DEFINE row == worker[t]
             wanted == [row EXCEPT !.response = r]
  <1>1. row \in Rows /\ row.status \in Views /\ "conflict" \in Views
    BY DEF WorkersInv, Typed, Rows, Views
  <1>2. \/ Goto(p, Returned(t, row.status))
        \/ row.status = "resume_claimed" /\ Goto(p, Calling("resuming", t, row, Unseen))
        \/ row.status = "suspended" /\ Goto(p, Calling("claiming", t, wanted, Unseen))
        \/ Goto(p, Returned(t, "conflict"))
    BY DEF resume
  <1>3. ASSUME row.status = "suspended", Goto(p, Calling("claiming", t, wanted, Unseen))
        PROVE  MovesOn(p)
    <2>1. wanted \in Rows /\ wanted.status = "suspended"
      BY <1>1, <1>3 DEF Rows
    <2>2. Unseen \in Sights
      BY DEF Unseen, Observation, Sights, RowStatuses
    <2>3. Calling("claiming", t, wanted, Unseen) \in Calls
      BY <2>1, <2>2, CallForms DEF Inside
    <2>4. Agrees(Calling("claiming", t, wanted, Unseen), child', proofs')
      BY <2>1 DEF Agrees, Calling
    <2> QED BY <1>3, <2>3, <2>4 DEF MovesOn, Calling
  <1>4. MovesOn(p)
    BY <1>1, <1>2, <1>3, ReturnedFits, ContinuesFits
  <1> QED BY <1>4, NothingMoved, RowsStand DEF Steps, resume

(* The claim replaces the suspended row it read, or follows the winner's.    *)
LEMMA ClaimSteps ==
  ASSUME WorkersInv, NEW p \in Procs, resume_claim(p)
  PROVE  Steps(p) /\ RowsAdvance
  <1> DEFINE t == call[p].task
             wanted == call[p].row
             raw == [wanted EXCEPT !.response = None]
             claimed == [wanted EXCEPT !.status = "resume_claimed"]
  <1>1. t \in Tasks /\ wanted \in Rows /\ wanted.status = "suspended"
    BY InsideCall DEF WorkersInv, CallsFit, Agrees, resume_claim, Inside
  <1>2. /\ claimed \in Rows /\ claimed.status = "resume_claimed"
        /\ claimed.generation = wanted.generation /\ wanted.generation \in Nat
    BY <1>1 DEF Rows, RowStatuses
  <1>3. raw.status = "suspended" /\ raw.generation = wanted.generation
    BY <1>1 DEF Rows
  <1>4. worker[t] \in Rows /\ worker[t].status \in Views /\ "conflict" \in Views
    BY <1>1 DEF WorkersInv, Typed, Rows, Views
  <1>5. MovesOn(p)
    <2>1. \/ Goto(p, Calling("resuming", t, claimed, Unseen))
          \/ Goto(p, Returned(t, worker[t].status))
          \/ Goto(p, Returned(t, "conflict"))
      BY DEF resume_claim
    <2> QED BY <1>1, <1>2, <1>4, <2>1, ReturnedFits, ContinuesFits
  <1>6. Steps(p)
    BY <1>5, NothingMoved DEF Steps, resume_claim
  <1>7. CASE UNCHANGED worker
    BY <1>6, <1>7, RowsStand
  <1>8. CASE worker[t] = raw /\ worker' = [worker EXCEPT ![t] = claimed]
    <2>1. worker' \in [Tasks -> Rows]
      BY <1>2, <1>8 DEF WorkersInv, Typed
    <2>2. /\ worker'[t] = claimed
          /\ \A u \in Tasks : u # t => worker'[u] = worker[u]
      BY <1>1, <1>8 DEF WorkersInv, Typed
    <2>3. RowsAreProved'
      BY <1>2, <1>6, <2>2, RowsStayProved DEF RowsAreProved, Steps
    <2>4. /\ worker[t].status = "suspended" /\ worker'[t].status = "resume_claimed"
          /\ worker'[t].generation = worker[t].generation /\ worker[t].generation \in Nat
      BY <1>2, <1>3, <1>8, <2>2
    <2>5. ASSUME NEW u \in Tasks, worker'[u] # worker[u]
          PROVE  /\ worker[u].status = "suspended" /\ worker'[u].status = "resume_claimed"
                 /\ worker'[u].generation = worker[u].generation /\ worker[u].generation \in Nat
      BY <2>2, <2>4, <2>5
    <2>6. \A n \in Nat : n >= n
      OBVIOUS
    <2>7. RowsForward
      BY <2>5, <2>6 DEF RowsForward, Terminal
    <2> QED BY <1>6, <2>1, <2>3, <2>7 DEF RowsAdvance
  <1> QED BY <1>6, <1>7, <1>8 DEF resume_claim

-----------------------------------------------------------------------------
(* The calls of the adapter: the row stands.                                *)

(* The engine creates the child and drives it, observes it, or refuses it.   *)
LEMMA ChildCreateSteps ==
  ASSUME WorkersInv, NEW p \in Procs, child_create(p)
  PROVE  Steps(p) /\ RowsAdvance
  <1> DEFINE t == call[p].task
             next == [call[p] EXCEPT !.pc = "driving"]
  <1>1. /\ call[p] \in [pc : Inside, task : Tasks, row : Rows, seen : Sights]
        /\ t \in Tasks /\ call[p].row.status \in {"pending", "resume_claimed"}
    BY InsideCall DEF WorkersInv, CallsFit, Agrees, child_create, Inside
  <1>2. CASE /\ UNCHANGED child
             /\ _observe(p, child[t]) \/ Seen(p, "persisting", "stale", 0, None)
    <2>1. MovesOn(p)
      BY <1>2, ObserveFits, FailedFits DEF child_create, Inside
    <2> QED BY <1>2, <2>1, NothingMoved, RowsStand DEF Steps, child_create
  <1>3. CASE /\ child[t].status = "absent"
             /\ child' = [child EXCEPT ![t].status = "running"] /\ Goto(p, next)
    <2>1. child[t] \in Children /\ [child[t] EXCEPT !.status = "running"] \in Children
      BY <1>1 DEF WorkersInv, Typed, Children
    <2>2. /\ child' \in [Tasks -> Children]
          /\ child'[t].status = "running"
          /\ \A u \in Tasks : u # t => child'[u] = child[u]
      BY <1>1, <1>3, <2>1 DEF WorkersInv, Typed, Children
    <2>3. ChildrenAdvance(p)
      BY <1>1, <1>3, <2>2 DEF ChildrenAdvance, WorkersInv, ChildrenProduce
    <2>4. /\ next \in Calls /\ next.pc = "driving" /\ next.task = t /\ next.row = call[p].row
      BY <1>1 DEF Calls, Inside
    <2>5. Agrees(next, child', proofs')
      BY <1>1, <2>2, <2>4 DEF Agrees
    <2>6. MovesOn(p)
      BY <1>3, <2>4, <2>5 DEF MovesOn
    <2> QED BY <2>3, <2>6, NothingMoved, RowsStand
            DEF Steps, child_create, SlotsStay, WorkersInv, Typed
  <1> QED BY <1>2, <1>3 DEF child_create

(* A dialogue that is not open leads to an observation or a refusal.        *)
LEMMA ObserveAnsweredFits ==
  ASSUME WorkersInv, NEW p \in Procs, call[p].pc \in Inside \ {"claiming"},
         ObserveAnswered(p, child[call[p].task]), UNCHANGED <<child, proofs>>
  PROVE  MovesOn(p)
  BY ObserveFits, FailedFits DEF ObserveAnswered

(* A call that only changes its phase, to one that has seen nothing.        *)
LEMMA PhaseFits ==
  ASSUME WorkersInv, NEW p \in Procs, call[p].pc \in Inside \ {"claiming"},
         NEW pc \in {"creating", "answering", "inspecting"}, Goto(p, [call[p] EXCEPT !.pc = pc])
  PROVE  MovesOn(p)
  <1> DEFINE next == [call[p] EXCEPT !.pc = pc]
  <1>1. /\ call[p] \in [pc : Inside, task : Tasks, row : Rows, seen : Sights]
        /\ call[p].row.status \in {"pending", "resume_claimed"}
    BY InsideCall DEF WorkersInv, CallsFit, Agrees
  <1>2. next \in Calls /\ next.pc = pc /\ next.row = call[p].row
    BY <1>1 DEF Calls, Inside
  <1>3. Agrees(next, child', proofs')
    BY <1>1, <1>2 DEF Agrees
  <1> QED BY <1>2, <1>3 DEF MovesOn

(* The inspection of an adapter's start.                                    *)
LEMMA ChildStartSteps ==
  ASSUME WorkersInv, NEW p \in Procs, child_start(p)
  PROVE  Steps(p) /\ RowsAdvance
  <1>1. MovesOn(p)
    BY ObserveFits, PhaseFits DEF child_start, Inside
  <1> QED BY <1>1, NothingMoved, RowsStand DEF Steps, child_start

(* The inspection of an adapter's resume.                                   *)
LEMMA ChildResumeSteps ==
  ASSUME WorkersInv, NEW p \in Procs, child_resume(p)
  PROVE  Steps(p) /\ RowsAdvance
  <1>1. MovesOn(p)
    BY ObserveAnsweredFits, PhaseFits DEF child_resume, Inside
  <1> QED BY <1>1, NothingMoved, RowsStand DEF Steps, child_resume

(* The engine answers the open dialogue, or finds that it is not open.      *)
LEMMA ChildAnswerSteps ==
  ASSUME WorkersInv, NEW p \in Procs, child_answer(p)
  PROVE  Steps(p) /\ RowsAdvance
  <1> DEFINE t == call[p].task
             c == child[t]
             next == [call[p] EXCEPT !.pc = "driving"]
             driven == [c EXCEPT !.status = "running", !.answers = Append(@, call[p].row.response)]
  <1>1. /\ call[p] \in [pc : Inside, task : Tasks, row : Rows, seen : Sights]
        /\ t \in Tasks /\ call[p].row.status \in {"pending", "resume_claimed"}
        /\ call[p].pc \in Inside \ {"claiming"}
    BY InsideCall DEF WorkersInv, CallsFit, Agrees, child_answer, Inside
  <1>2. CASE UNCHANGED child
    <2>1. Seen(p, "persisting", "stale", 0, None) \/ ObserveAnswered(p, c)
             \/ (c.status = "suspended" /\ child' = [child EXCEPT ![t].status = "running",
                      ![t].answers = Append(@, call[p].row.response)])
      BY DEF child_answer
    <2>2. c.status = "suspended" => child' # [child EXCEPT ![t].status = "running",
                      ![t].answers = Append(@, call[p].row.response)]
      BY <1>1, <1>2 DEF WorkersInv, Typed, Children
    <2>3. MovesOn(p)
      BY <1>1, <1>2, <2>1, <2>2, FailedFits, ObserveAnsweredFits DEF child_answer
    <2> QED BY <1>2, <2>3, NothingMoved, RowsStand DEF Steps, child_answer
  <1>3. CASE /\ c.status = "suspended" /\ child' = [child EXCEPT ![t] = driven]
             /\ Goto(p, next)
    <2>0. c \in Children /\ Append(c.answers, call[p].row.response) \in Seq(Responses \union {None})
      BY <1>1, AppendProperties DEF WorkersInv, Typed, Children, Rows
    <2>1. driven \in Children /\ driven.status = "running"
      BY <2>0 DEF Children
    <2>2. /\ child' \in [Tasks -> Children]
          /\ child'[t].status = "running"
          /\ \A u \in Tasks : u # t => child'[u] = child[u]
      BY <1>1, <1>3, <2>1 DEF WorkersInv, Typed
    <2>3. ChildrenAdvance(p)
      BY <1>1, <1>3, <2>2 DEF ChildrenAdvance, WorkersInv, ChildrenProduce
    <2>4. /\ next \in Calls /\ next.pc = "driving" /\ next.task = t /\ next.row = call[p].row
      BY <1>1 DEF Calls, Inside
    <2>5. Agrees(next, child', proofs')
      BY <1>1, <2>2, <2>4 DEF Agrees
    <2>6. MovesOn(p)
      BY <1>3, <2>4, <2>5 DEF MovesOn
    <2> QED BY <2>3, <2>6, RowsStand DEF Steps, child_answer, SlotsStay, WorkersInv, Typed
  <1> QED BY <1>1, <1>2, <1>3 DEF child_answer, WorkersInv, Typed, Children

(* Only the driver moves a running child, to a dialogue or to its end.      *)
LEMMA ChildDriveSteps ==
  ASSUME WorkersInv, NEW p \in Procs, child_drive(p)
  PROVE  Steps(p) /\ RowsAdvance
  <1> DEFINE t == call[p].task
  <1>1. /\ t \in Tasks /\ child[t].status = "running" /\ call[p].pc = "driving"
    BY InsideCall DEF WorkersInv, CallsFit, Agrees, child_drive, Inside
  <1>2. PICK c \in Children : child' = [child EXCEPT ![t] = c]
                             /\ (c.status = "completed" => c.output \in Outputs)
    <2>1. child[t] \in Children
      BY <1>1 DEF WorkersInv, Typed
    <2>2. CASE child' = [child EXCEPT ![t].status = "suspended"]
      <3>1. [child[t] EXCEPT !.status = "suspended"] \in Children
        BY <2>1 DEF Children
      <3> QED BY <2>1, <2>2, <3>1 DEF Children
    <2>3. ASSUME NEW end \in Failures, child' = [child EXCEPT ![t].status = end]
          PROVE  \E c \in Children : child' = [child EXCEPT ![t] = c]
                             /\ (c.status = "completed" => c.output \in Outputs)
      <3>1. [child[t] EXCEPT !.status = end] \in Children /\ end # "completed"
        BY <2>1, WorkersAssumption DEF Children, Endings
      <3> QED BY <2>1, <2>3, <3>1 DEF Children
    <2>4. ASSUME NEW o \in Outputs,
                 child' = [child EXCEPT ![t].status = "completed", ![t].output = o]
          PROVE  \E c \in Children : child' = [child EXCEPT ![t] = c]
                             /\ (c.status = "completed" => c.output \in Outputs)
      <3> DEFINE c == [child[t] EXCEPT !.status = "completed", !.output = o]
      <3>1. c \in Children /\ c.output = o
        BY <2>1 DEF Children, Endings
      <3>2. child' = [child EXCEPT ![t] = c]
        BY <1>1, <2>1, <2>4 DEF WorkersInv, Typed
      <3> QED BY <3>1, <3>2
    <2> QED BY <2>2, <2>3, <2>4 DEF child_drive
  <1>3. /\ child' \in [Tasks -> Children] /\ child'[t] = c
        /\ \A u \in Tasks : u # t => child'[u] = child[u]
    BY <1>1, <1>2 DEF WorkersInv, Typed
  <1>4. ChildrenAdvance(p)
    BY <1>1, <1>2, <1>3 DEF ChildrenAdvance, WorkersInv, ChildrenProduce
  <1>5. MovesOn(p)
    BY PhaseFits DEF child_drive, Inside
  <1> QED BY <1>4, <1>5, RowsStand DEF Steps, child_drive, SlotsStay, WorkersInv, Typed

(* The inspection of the run that was driven.                               *)
LEMMA ChildInspectSteps ==
  ASSUME WorkersInv, NEW p \in Procs, child_inspect(p)
  PROVE  Steps(p) /\ RowsAdvance
  <1>1. MovesOn(p)
    BY ObserveFits, FailedFits DEF child_inspect, Inside
  <1> QED BY <1>1, NothingMoved, RowsStand DEF Steps, child_inspect

(* A gateway error is a failed observation; it may leave a new run behind.  *)
LEMMA GatewayFailureSteps ==
  ASSUME WorkersInv, NEW p \in Procs, gateway_failure(p)
  PROVE  Steps(p) /\ RowsAdvance
  <1> DEFINE t == call[p].task
  <1>1. t \in Tasks
    BY InsideCall DEF WorkersInv, gateway_failure, Inside
  <1>2. MovesOn(p)
    BY FailedFits DEF gateway_failure, Inside
  <1>3. CASE UNCHANGED child
    BY <1>2, <1>3, NothingMoved, RowsStand DEF Steps, gateway_failure
  <1>4. CASE child[t].status = "absent" /\ child' = [child EXCEPT ![t].status = "running"]
    <2>1. child[t] \in Children /\ [child[t] EXCEPT !.status = "running"] \in Children
      BY <1>1 DEF WorkersInv, Typed, Children
    <2>2. /\ child' \in [Tasks -> Children]
          /\ child'[t].status = "running"
          /\ \A u \in Tasks : u # t => child'[u] = child[u]
      BY <1>1, <1>4, <2>1 DEF WorkersInv, Typed, Children
    <2>3. ChildrenAdvance(p)
      BY <1>1, <1>4, <2>2 DEF ChildrenAdvance, WorkersInv, ChildrenProduce
    <2> QED BY <1>2, <2>3, RowsStand DEF Steps, gateway_failure, SlotsStay, WorkersInv, Typed
  <1> QED BY <1>3, <1>4 DEF gateway_failure

-----------------------------------------------------------------------------
(* The proof slot, the row, and a dying process.                            *)

(* The slot is written for a completion that was seen, or not at all.       *)
LEMMA ProofCreateSteps ==
  ASSUME WorkersInv, NEW p \in Procs, proof_create(p)
  PROVE  Steps(p) /\ RowsAdvance
  <1> DEFINE t == call[p].task
             output == call[p].seen.output
             next == [call[p] EXCEPT !.pc = "persisting"]
  <1>1. /\ call[p] \in [pc : Inside, task : Tasks, row : Rows, seen : Sights]
        /\ t \in Tasks /\ call[p].row.status \in {"pending", "resume_claimed"}
        /\ call[p].seen.status = "completed" /\ Produced(t, output, child)
    BY InsideCall DEF WorkersInv, CallsFit, Agrees, proof_create, Inside
  <1>2. CASE UNCHANGED proofs /\ Seen(p, "persisting", "failed", 0, None)
    <2>1. MovesOn(p)
      BY <1>2, FailedFits DEF proof_create, Inside
    <2> QED BY <1>2, <2>1, NothingMoved, RowsStand DEF Steps, proof_create
  <1>3. CASE /\ proofs[t] \in {None, output} /\ proofs' = [proofs EXCEPT ![t] = output]
             /\ Goto(p, next)
    <2>1. output \in Outputs \union {None}
      BY <1>1 DEF Sights
    <2>2. /\ proofs' \in [Tasks -> Outputs \union {None}] /\ proofs'[t] = output
          /\ \A u \in Tasks : u # t => proofs'[u] = proofs[u]
      BY <1>1, <1>3, <2>1 DEF WorkersInv, Typed
    <2>3. SlotsStay
      BY <1>3, <2>2 DEF SlotsStay
    <2>4. ChildrenAdvance(p)
      BY DEF proof_create, ChildrenAdvance, WorkersInv, Typed, ChildrenProduce
    <2>5. /\ next \in Calls /\ next.pc = "persisting" /\ next.task = t
          /\ next.row = call[p].row /\ next.seen = call[p].seen
      BY <1>1 DEF Calls, Inside
    <2>6. Agrees(next, child', proofs')
      BY <1>1, <2>2, <2>5 DEF Agrees, Produced, proof_create
    <2>7. MovesOn(p)
      BY <1>3, <2>5, <2>6 DEF MovesOn
    <2> QED BY <2>3, <2>4, <2>7, RowsStand DEF Steps, proof_create
  <1> QED BY <1>2, <1>3 DEF proof_create

(* What an observation makes of a row.                                      *)
LEMMA ReplacementForms ==
  ASSUME NEW row \in Rows, NEW seen \in Sights
  PROVE  /\ Replacement(row, seen) \in Rows
         /\ Replacement(row, seen).generation >= row.generation
         /\ Replacement(row, seen).status = "completed" =>
               /\ seen.status = "completed" /\ seen.output \notin Unverified
               /\ Replacement(row, seen).output = seen.output
  <1>1. CASE seen.status = "suspended"
    BY <1>1, WorkersAssumption DEF Replacement, Row, Rows, Sights, RowStatuses
  <1>2. CASE seen.status # "suspended" /\ _observation_binding_failure(seen)
    BY <1>2, WorkersAssumption
       DEF Replacement, _terminal_state, Observation, Row, Rows, Sights, RowStatuses, Terminal
  <1>3. CASE seen.status # "suspended" /\ ~_observation_binding_failure(seen)
    BY <1>3, WorkersAssumption
       DEF Replacement, _terminal_state, _observation_binding_failure, Row, Rows, Sights
  <1> QED BY <1>1, <1>2, <1>3

(* The row is replaced only if it is the one the call started from.         *)
LEMMA PersistSteps ==
  ASSUME WorkersInv, NEW p \in Procs, _persist_observation(p)
  PROVE  Steps(p) /\ RowsAdvance
  <1> DEFINE t == call[p].task
             row == call[p].row
             seen == call[p].seen
             replacement == Replacement(row, seen)
  <1>1. /\ t \in Tasks /\ row \in Rows /\ row.status \in {"pending", "resume_claimed"}
        /\ seen \in Sights
        /\ seen.status = "completed" => Produced(t, seen.output, child) /\ proofs[t] = seen.output
    BY InsideCall DEF WorkersInv, CallsFit, Agrees, _persist_observation, Inside
  <1>2. /\ replacement \in Rows /\ replacement.generation >= row.generation
        /\ replacement.status = "completed" =>
              /\ seen.status = "completed" /\ replacement.output = seen.output
    BY <1>1, ReplacementForms
  <1>3. worker' \in [Tasks -> Rows]
    BY <1>1, <1>2 DEF WorkersInv, Typed, _persist_observation
  <1>4. MovesOn(p)
    <2>1. worker'[t].status \in Views /\ "conflict" \in Views
      BY <1>1, <1>3 DEF Rows, Views
    <2>2. Goto(p, Returned(t, worker'[t].status)) \/ Goto(p, Returned(t, "conflict"))
      BY DEF _persist_observation
    <2> QED BY <1>1, <2>1, <2>2, ReturnedFits
  <1>5. Steps(p)
    BY <1>4, NothingMoved DEF Steps, _persist_observation
  <1>6. CASE UNCHANGED worker
    BY <1>5, <1>6, RowsStand
  <1>7. CASE worker[t] = row /\ worker' = [worker EXCEPT ![t] = replacement]
    <2>1. /\ worker'[t] = replacement
          /\ \A u \in Tasks : u # t => worker'[u] = worker[u]
      BY <1>1, <1>7 DEF WorkersInv, Typed
    <2>2. worker'[t].status = "completed" =>
             Produced(t, worker'[t].output, child) /\ proofs[t] = worker'[t].output
      BY <1>1, <1>2, <2>1
    <2>3. worker'[t].status = "completed" =>
             Produced(t, worker'[t].output, child') /\ proofs'[t] = worker'[t].output
      BY <2>2 DEF _persist_observation, Produced
    <2>4. RowsAreProved'
      BY <1>5, <2>1, <2>3, RowsStayProved DEF RowsAreProved, Steps
    <2>5. RowsForward
      BY <1>1, <1>2, <1>7, <2>1 DEF RowsForward, Terminal
    <2> QED BY <1>3, <1>5, <2>4, <2>5 DEF RowsAdvance
  <1> QED BY <1>5, <1>6, <1>7 DEF _persist_observation

(* A dying process leaves everything else as it is.                         *)
LEMMA CrashSteps ==
  ASSUME WorkersInv, NEW p \in Procs, WorkerCrash(p)
  PROVE  Steps(p) /\ RowsAdvance
  <1>1. MovesOn(p)
    BY DEF WorkerCrash, MovesOn, Calls, Idle, Agrees, Inside
  <1> QED BY <1>1, NothingMoved, RowsStand DEF Steps, WorkerCrash

-----------------------------------------------------------------------------
(* A step of a process as the lemmas above describe it keeps the invariant.  *)
LEMMA StepsKeep ==
  ASSUME WorkersInv, NEW p \in Procs, Steps(p), RowsAdvance
  PROVE  WorkersInv' /\ RowsForward
  <1>1. call' \in [Procs -> Calls] /\ CallsFit' /\ OneDriver'
    BY StepKeepsCalls DEF Steps
  <1>2. Typed' /\ ChildrenProduce' /\ RowsAreProved'
    BY <1>1 DEF Steps, RowsAdvance, ChildrenAdvance, SlotsStay, Typed
  <1> QED BY <1>1, <1>2 DEF WorkersInv, RowsAdvance

(* So does every step of a call inside the service.                         *)
LEMMA ServiceSteps ==
  ASSUME WorkersInv, NEW p \in Procs, WorkerStep(p)
  PROVE  Steps(p) /\ RowsAdvance
  BY ClaimSteps, ChildStartSteps, ChildCreateSteps, ChildResumeSteps, ChildAnswerSteps,
     ChildDriveSteps, ChildInspectSteps, ProofCreateSteps, PersistSteps DEF WorkerStep

(* Every step of the service keeps the invariant and moves the rows forward. *)
LEMMA EveryStep ==
  ASSUME WorkersInv, NextWorkers
  PROVE  WorkersInv' /\ RowsForward
  <1>1. PICK p \in Procs :
           \/ \E t \in Tasks : start(p, t)
           \/ \E t \in Tasks, g \in 0..Dialogues, r \in Responses : resume(p, t, g, r)
           \/ WorkerStep(p)
           \/ gateway_failure(p)
           \/ WorkerCrash(p)
    BY DEF NextWorkers
  <1>2. Steps(p) /\ RowsAdvance
    BY <1>1, StartSteps, ResumeSteps, ServiceSteps, GatewayFailureSteps, CrashSteps
  <1> QED BY <1>2, StepsKeep

(* WorkersInv holds of the initial states.                                  *)
LEMMA WorkersStart ==
  ASSUME InitWorkers PROVE WorkersInv
  <1>1. Typed
    BY DEF InitWorkers, Typed, Absent, Row, Rows, RowStatuses, Children, Calls
  <1>2. CallsFit /\ OneDriver
    BY DEF InitWorkers, CallsFit, OneDriver, Agrees, Idle, Inside
  <1>3. ChildrenProduce /\ RowsAreProved
    BY DEF InitWorkers, ChildrenProduce, RowsAreProved, Absent, Row
  <1> QED BY <1>1, <1>2, <1>3 DEF WorkersInv

(* WorkersInv holds of every state the service reaches.                     *)
LEMMA WorkersInvariant == SpecWorkers => []WorkersInv
  <1>1. InitWorkers => WorkersInv
    BY WorkersStart
  <1>2. WorkersInv /\ [NextWorkers]_workerVars => WorkersInv'
    <2>1. WorkersInv /\ UNCHANGED workerVars => WorkersInv'
      BY DEF WorkersInv, Typed, CallsFit, OneDriver, ChildrenProduce, RowsAreProved,
             Produced, Agrees, workerVars
    <2> QED BY <2>1, EveryStep
  <1> QED BY <1>1, <1>2, PTL DEF SpecWorkers

(* A completed row of any number of tasks names what its child produced, and *)
(* the proof slot vouches for it, whatever the processes that start, answer  *)
(* and observe the task do to each other and wherever they die.  The reason  *)
(* is Agrees: a call that reports a completion has seen it, a completed child  *)
(* never changes, the slot is written before the row, and a written slot     *)
(* stays.                                                                    *)
THEOREM CompletedRowsAreProved == SpecWorkers => []CompletedIsProved
  <1>1. WorkersInv => CompletedIsProved
    BY WorkersAssumption
       DEF WorkersInv, RowsAreProved, ChildrenProduce, CompletedIsProved, Produced, _verify
  <1> QED BY <1>1, WorkersInvariant, PTL

(* No terminal row is rewritten, a suspended row only by the claim of its    *)
(* generation, and no generation returns: a late observation compares its    *)
(* row, which is pending or claimed, with the one that is stored.            *)
THEOREM RowsOnlyMoveForward == SpecWorkers => [][RowsForward]_workerVars
  <1>1. WorkersInv /\ [NextWorkers]_workerVars => [RowsForward]_workerVars
    BY EveryStep
  <1> QED BY <1>1, WorkersInvariant, PTL DEF SpecWorkers

-----------------------------------------------------------------------------
(* The answers of a child with at most one dialogue, which is what every    *)
(* built-in flow asks.  A claim is then the only one of its task.           *)

(* The rows and the claims: before the dialogue is claimed there is none,   *)
(* and a claimed row carries the response of the only claim.                *)
RowClaims(row, claimed) ==
    /\ row.generation = 0
    /\ claimed = <<>> \/ \E r \in Responses \union {None} : claimed = <<r>>
    /\ row.status \in {"suspended", "resume_claimed"} => row.continuation >= 1
    /\ row.status \in {"absent", "pending", "suspended"} => claimed = <<>>
    /\ row.status = "resume_claimed" => claimed = <<row.response>>

RowsClaim == \A t \in Tasks : RowClaims(worker[t], claims[t])

(* A child has recorded nothing, or the claimed answer; one that waits for   *)
(* its dialogue has recorded nothing.                                       *)
ChildrenAnswer ==
    \A t \in Tasks :
        /\ child[t].answers \in {<<>>, claims[t]}
        /\ child[t].status = "suspended" => child[t].answers = <<>>

(* A call that delivers an answer delivers the claimed one, and does not see *)
(* its child suspended again.                                               *)
Delivers(c, claimed) ==
    c.pc \in Inside =>
        /\ c.pc \in {"starting", "creating"} => c.row.status = "pending"
        /\ c.pc \in {"resuming", "answering"} => c.row.status = "resume_claimed"
        /\ c.pc # "claiming" /\ c.row.status = "resume_claimed" =>
              claimed[c.task] = <<c.row.response>> /\ c.row.continuation >= 1
        /\ c.pc \in {"proving", "persisting"} =>
              /\ c.seen.status \in {"suspended"} \union Terminal
              /\ c.seen.status = "suspended" => c.row.status = "pending" /\ c.seen.dialogue >= 1

CallsDeliver == \A p \in Procs : Delivers(call[p], claims)

(* claims is a function on the tasks.                                        *)
ClaimsTyped == claims = [t \in Tasks |-> claims[t]]

AnswersInv == ClaimsTyped /\ RowsClaim /\ ChildrenAnswer /\ CallsDeliver

(* Process p goes on with a call that delivers what is claimed, and a claim  *)
(* that is made stays.                                                      *)
GoesOn(p) ==
    /\ \E next : Goto(p, next) /\ Delivers(next, claims')
    /\ \A t \in Tasks : claims[t] # <<>> => claims'[t] = claims[t]

(* The generic step: the other calls still deliver what is claimed.         *)
LEMMA GoingOnDelivers ==
  ASSUME WorkersInv, AnswersInv, NEW p \in Procs, GoesOn(p)
  PROVE  CallsDeliver'
  <1>1. PICK next : Goto(p, next) /\ Delivers(next, claims')
    BY DEF GoesOn
  <1>2. call'[p] = next /\ \A q \in Procs : q # p => call'[q] = call[q]
    BY <1>1 DEF Goto, WorkersInv, Typed
  <1>3. ASSUME NEW q \in Procs, q # p PROVE Delivers(call'[q], claims')
    <2>1. call'[q] = call[q] /\ Delivers(call[q], claims)
      BY <1>2, <1>3 DEF AnswersInv, CallsDeliver
    <2>2. SUFFICES ASSUME call[q].pc \in Inside PROVE Delivers(call[q], claims')
      BY <2>1 DEF Delivers
    <2>3. call[q].task \in Tasks
      BY <2>2, InsideCall DEF WorkersInv
    <2>4. claims[call[q].task] = <<call[q].row.response>> =>
             claims'[call[q].task] = <<call[q].row.response>>
      BY <2>3 DEF GoesOn
    <2> QED BY <2>1, <2>2, <2>4 DEF Delivers
  <1> QED BY <1>1, <1>2, <1>3 DEF CallsDeliver

(* A step that leaves the claims alone and goes on to a delivering call.     *)
LEMMA ClaimsStand ==
  ASSUME NEW p \in Procs, UNCHANGED claims, NEW next, Goto(p, next), Delivers(next, claims)
  PROVE  GoesOn(p)
  BY DEF GoesOn

(* A call that has returned delivers nothing.                               *)
LEMMA ReturnsDeliver ==
  ASSUME NEW p \in Procs, UNCHANGED claims,
         Goto(p, Idle) \/ \E t \in Tasks : \E view \in Views : Goto(p, Returned(t, view))
  PROVE  GoesOn(p)
  BY ClaimsStand DEF Delivers, Idle, Returned, Inside

(* What the inside of a call already delivers.                              *)
LEMMA InsideDelivers ==
  ASSUME WorkersInv, AnswersInv, NEW p \in Procs, call[p].pc \in Inside \ {"claiming"}
  PROVE  /\ call[p].task \in Tasks /\ call[p].row \in Rows
         /\ call[p].row.status \in {"pending", "resume_claimed"}
         /\ call[p].row.status = "resume_claimed" =>
               claims[call[p].task] = <<call[p].row.response>> /\ call[p].row.continuation >= 1
  BY InsideCall DEF WorkersInv, CallsFit, Agrees, AnswersInv, CallsDeliver, Delivers

(* A call that has seen an end of its child, or its refusal.                *)
LEMMA EndDelivers ==
  ASSUME WorkersInv, AnswersInv, NEW p \in Procs, call[p].pc \in Inside \ {"claiming"},
         NEW pc, pc \in {"proving", "persisting"}, NEW status, status \in Terminal, NEW output,
         Seen(p, pc, status, 0, output), UNCHANGED claims
  PROVE  GoesOn(p)
  <1> DEFINE next == Calling(pc, call[p].task, call[p].row, Observation(status, 0, output))
  <1>1. Delivers(next, claims)
    BY InsideDelivers DEF Delivers, Calling, Observation, Terminal
  <1> QED BY <1>1, ClaimsStand DEF Seen

(* An observation delivers, unless a claimed row saw its child suspended.    *)
LEMMA ObserveDelivers ==
  ASSUME WorkersInv, AnswersInv, NEW p \in Procs, call[p].pc \in Inside \ {"claiming"},
         _observe(p, child[call[p].task]), UNCHANGED claims,
         child[call[p].task].status = "suspended" => call[p].row.status = "pending"
  PROVE  GoesOn(p)
  <1> DEFINE t == call[p].task
             c == child[t]
  <1>1. t \in Tasks /\ c \in Children
    BY InsideDelivers DEF WorkersInv, Typed
  <1>2. CASE Goto(p, Returned(t, "running"))
    BY <1>1, <1>2, ReturnsDeliver DEF Views, RowStatuses
  <1>3. CASE c.status = "suspended" /\ Seen(p, "persisting", "suspended", Len(c.answers) + 1, None)
    <2> DEFINE next == Calling("persisting", t, call[p].row,
                               Observation("suspended", Len(c.answers) + 1, None))
    <2>1. Len(c.answers) + 1 >= 1
      BY <1>1, LenProperties DEF Children
    <2>2. Delivers(next, claims)
      BY <1>3, <2>1 DEF Delivers, Calling, Observation
    <2> QED BY <1>3, <2>2, ClaimsStand DEF Seen
  <1>4. CASE Seen(p, "proving", "completed", 0, c.output)
    BY <1>4, EndDelivers DEF Terminal
  <1>5. CASE Seen(p, "persisting", "failed", 0, None)
    BY <1>5, EndDelivers DEF Terminal
  <1>6. CASE c.status \in Failures /\ Seen(p, "persisting", c.status, 0, None)
    <2>1. c.status \in Terminal
      BY <1>6, WorkersAssumption DEF Terminal
    <2> QED BY <1>6, <2>1, EndDelivers
  <1> QED BY <1>2, <1>3, <1>4, <1>5, <1>6 DEF _observe

(* A recorded answer is the only one, so the child is not suspended.        *)
LEMMA RecordedIsLast ==
  ASSUME WorkersInv, AnswersInv, NEW p \in Procs, call[p].pc \in Inside \ {"claiming"},
         call[p].row.status = "resume_claimed",
         Recorded(child[call[p].task], call[p].row)
  PROVE  child[call[p].task].status # "suspended"
  <1>1. call[p].task \in Tasks /\ call[p].row.continuation >= 1 /\ call[p].row.continuation \in Nat
    BY InsideDelivers DEF Rows
  <1>2. Len(child[call[p].task].answers) >= call[p].row.continuation
    BY DEF Recorded
  <1>3. child[call[p].task].answers = <<>> => Len(child[call[p].task].answers) = 0
    BY EmptySeq
  <1> QED BY <1>1, <1>2, <1>3 DEF AnswersInv, ChildrenAnswer

(* A dialogue that is not open is observed, or refused.                     *)
LEMMA ObserveAnsweredDelivers ==
  ASSUME WorkersInv, AnswersInv, NEW p \in Procs, call[p].pc \in Inside \ {"claiming"},
         ObserveAnswered(p, child[call[p].task]), UNCHANGED claims
  PROVE  GoesOn(p)
  BY ObserveDelivers, EndDelivers DEF ObserveAnswered, Terminal

(* A call that only changes its phase.                                      *)
LEMMA PhaseDelivers ==
  ASSUME WorkersInv, AnswersInv, NEW p \in Procs, call[p].pc \in Inside \ {"claiming"},
         NEW pc, pc \in {"creating", "answering", "driving", "inspecting"},
         pc = "creating" => call[p].row.status = "pending",
         pc = "answering" => call[p].row.status = "resume_claimed",
         Goto(p, [call[p] EXCEPT !.pc = pc]), UNCHANGED claims
  PROVE  GoesOn(p)
  <1> DEFINE next == [call[p] EXCEPT !.pc = pc]
  <1>1. next.pc = pc /\ next.task = call[p].task /\ next.row = call[p].row
    BY InsideCall DEF WorkersInv, Inside
  <1>2. Delivers(next, claims)
    BY <1>1, InsideDelivers DEF Delivers
  <1> QED BY <1>2, ClaimsStand

-----------------------------------------------------------------------------
(* One lemma per action.                                                    *)

Delivered(p) == ClaimsTyped' /\ GoesOn(p) /\ RowsClaim' /\ ChildrenAnswer'

(* A step that leaves the rows, the claims and the children alone.          *)
LEMMA NothingAnswered ==
  ASSUME AnswersInv, NEW p \in Procs, GoesOn(p), UNCHANGED <<worker, claims, child>>
  PROVE  Delivered(p)
  BY DEF Delivered, AnswersInv, ClaimsTyped, RowsClaim, ChildrenAnswer

(* A call follows a row of the service.                                     *)
LEMMA FollowDelivers ==
  ASSUME NEW p \in Procs, NEW t \in Tasks, NEW row, UNCHANGED claims,
         RowClaims(row, claims[t]),
         NEW pc, pc \in {"starting", "resuming"},
         pc = "starting" => row.status = "pending",
         pc = "resuming" => row.status = "resume_claimed",
         Goto(p, Calling(pc, t, row, Unseen))
  PROVE  GoesOn(p)
  <1>1. Delivers(Calling(pc, t, row, Unseen), claims)
    BY DEF Delivers, Calling, RowClaims
  <1> QED BY <1>1, ClaimsStand

(* start writes a row without claims.                                       *)
LEMMA StartDelivers ==
  ASSUME WorkersInv, AnswersInv, NEW p \in Procs, NEW t \in Tasks, start(p, t)
  PROVE  Delivered(p)
  <1>1. ASSUME NEW u \in Tasks, worker'[u] # worker[u]
        PROVE  u = t /\ worker[u] = Absent /\ worker'[u] = Pending
    BY <1>1 DEF start, WorkersInv, Typed
  <1>2. ASSUME NEW u \in Tasks PROVE RowClaims(worker'[u], claims[u])
    <2>1. RowClaims(worker[u], claims[u])
      BY DEF AnswersInv, RowsClaim
    <2>2. CASE worker'[u] # worker[u]
      BY <1>1, <2>1, <2>2 DEF RowClaims, Absent, Pending, Row
    <2> QED BY <2>1, <2>2
  <1>3. GoesOn(p)
    <2>1. worker'[t] \in Rows
      BY StartSteps DEF RowsAdvance
    <2>2. worker'[t].status \in Views
      BY <2>1 DEF Rows, Views
    <2>3. \/ worker'[t].status = "pending" /\ Goto(p, Calling("starting", t, worker'[t], Unseen))
          \/ worker'[t].status = "resume_claimed"
                /\ Goto(p, Calling("resuming", t, worker'[t], Unseen))
          \/ Goto(p, Returned(t, worker'[t].status))
      BY DEF start, Follow
    <2>4. UNCHANGED claims
      BY DEF start
    <2> QED BY <1>2, <2>2, <2>3, <2>4, FollowDelivers, ReturnsDeliver
  <1> QED BY <1>2, <1>3 DEF Delivered, RowsClaim, ChildrenAnswer, AnswersInv, ClaimsTyped, start

(* resume joins the claim of its response or goes on to make one.           *)
LEMMA ResumeDelivers ==
  ASSUME WorkersInv, AnswersInv, NEW p \in Procs, NEW t \in Tasks, NEW g \in 0..Dialogues,
         NEW r \in Responses, resume(p, t, g, r)
  PROVE  Delivered(p)
  <1> DEFINE row == worker[t]
             wanted == [row EXCEPT !.response = r]
  <1>1. row \in Rows /\ row.status \in Views /\ "conflict" \in Views /\ RowClaims(row, claims[t])
    BY DEF WorkersInv, Typed, Rows, Views, AnswersInv, RowsClaim
  <1>2. UNCHANGED <<worker, claims, child>>
    BY DEF resume
  <1>3. CASE Goto(p, Calling("claiming", t, wanted, Unseen))
    <2>1. Delivers(Calling("claiming", t, wanted, Unseen), claims)
      BY DEF Delivers, Calling
    <2> QED BY <1>2, <1>3, <2>1, ClaimsStand, NothingAnswered
  <1>4. CASE row.status = "resume_claimed" /\ Goto(p, Calling("resuming", t, row, Unseen))
    BY <1>1, <1>2, <1>4, FollowDelivers, NothingAnswered
  <1>5. CASE Goto(p, Returned(t, row.status)) \/ Goto(p, Returned(t, "conflict"))
    BY <1>1, <1>2, <1>5, ReturnsDeliver, NothingAnswered
  <1> QED BY <1>3, <1>4, <1>5 DEF resume

(* The claim is the first of its task, and its response the delivered one.   *)
LEMMA ClaimDelivers ==
  ASSUME WorkersInv, AnswersInv, NEW p \in Procs, resume_claim(p)
  PROVE  Delivered(p)
  <1> DEFINE t == call[p].task
             wanted == call[p].row
             raw == [wanted EXCEPT !.response = None]
             claimed == [wanted EXCEPT !.status = "resume_claimed"]
  <1>1. t \in Tasks /\ wanted \in Rows /\ wanted.status = "suspended"
    BY InsideCall DEF WorkersInv, CallsFit, Agrees, resume_claim, Inside
  <1>2. /\ claimed.status = "resume_claimed" /\ claimed.response = wanted.response
        /\ claimed.generation = wanted.generation /\ claimed.continuation = wanted.continuation
        /\ raw.status = "suspended"
        /\ raw.generation = wanted.generation /\ raw.continuation = wanted.continuation
        /\ wanted.response \in Responses \union {None}
    BY <1>1 DEF Rows
  <1>3. worker[t] \in Rows /\ worker[t].status \in Views /\ "conflict" \in Views
    BY <1>1 DEF WorkersInv, Typed, Rows, Views
  <1>4. RowClaims(worker[t], claims[t])
    BY <1>1 DEF AnswersInv, RowsClaim
  <1>5. CASE UNCHANGED <<worker, claims>>
    <2>1. \/ worker[t] = claimed /\ Goto(p, Calling("resuming", t, claimed, Unseen))
          \/ worker[t] = raw /\ worker' = [worker EXCEPT ![t] = claimed]
          \/ Goto(p, Returned(t, worker[t].status))
          \/ Goto(p, Returned(t, "conflict"))
      BY <1>5 DEF resume_claim
    <2>2. ~(worker[t] = raw /\ worker' = [worker EXCEPT ![t] = claimed])
      BY <1>1, <1>2, <1>5 DEF WorkersInv, Typed
    <2>3. GoesOn(p)
      BY <1>1, <1>2, <1>3, <1>4, <1>5, <2>1, <2>2, FollowDelivers, ReturnsDeliver
    <2> QED BY <1>5, <2>3, NothingAnswered DEF resume_claim
  <1>6. CASE /\ worker[t] = raw
             /\ worker' = [worker EXCEPT ![t] = claimed]
             /\ claims' = [claims EXCEPT ![t] = Append(@, wanted.response)]
             /\ Goto(p, Calling("resuming", t, claimed, Unseen))
    <2>1. claims[t] = <<>> /\ wanted.generation = 0 /\ wanted.continuation >= 1
      BY <1>2, <1>4, <1>6 DEF RowClaims
    <2>2. claims'[t] = <<wanted.response>>
      <3>1. \A r : Append(<<>>, r) = <<r>>
        OBVIOUS
      <3>2. t \in DOMAIN claims => claims'[t] = Append(claims[t], wanted.response)
        BY <1>6
      <3> QED BY <1>1, <2>1, <3>1, <3>2 DEF AnswersInv, ClaimsTyped
    <2>3. \A u \in Tasks : u # t => claims'[u] = claims[u] /\ worker'[u] = worker[u]
      BY <1>6 DEF WorkersInv, Typed, AnswersInv, ClaimsTyped
    <2>4. worker'[t] = claimed
      BY <1>1, <1>6 DEF WorkersInv, Typed
    <2>5. RowClaims(worker'[t], claims'[t])
      BY <1>2, <2>1, <2>2, <2>4 DEF RowClaims
    <2>6. RowsClaim'
      BY <2>3, <2>5 DEF RowsClaim, AnswersInv
    <2>7. ChildrenAnswer'
      BY <2>1, <2>3 DEF ChildrenAnswer, AnswersInv, resume_claim
    <2>8. Delivers(Calling("resuming", t, claimed, Unseen), claims')
      BY <1>2, <2>1, <2>2 DEF Delivers, Calling
    <2>9. GoesOn(p)
      BY <1>6, <2>1, <2>3, <2>8 DEF GoesOn
    <2>10. ClaimsTyped'
      BY <1>6 DEF ClaimsTyped, AnswersInv
    <2> QED BY <2>6, <2>7, <2>9, <2>10 DEF Delivered
  <1> QED BY <1>5, <1>6 DEF resume_claim

(* A step that replaces one child by one that fits the claims.              *)
LEMMA ChildMoves ==
  ASSUME WorkersInv, AnswersInv, NEW p \in Procs, GoesOn(p), UNCHANGED <<worker, claims>>,
         NEW t \in Tasks, NEW c, child' = [child EXCEPT ![t] = c],
         c.answers \in {<<>>, claims[t]}, c.status = "suspended" => c.answers = <<>>
  PROVE  Delivered(p)
  <1>1. child'[t] = c /\ \A u \in Tasks : u # t => child'[u] = child[u]
    BY DEF WorkersInv, Typed
  <1>2. ChildrenAnswer'
    BY <1>1 DEF AnswersInv, ChildrenAnswer
  <1> QED BY <1>2 DEF Delivered, AnswersInv, RowsClaim, ClaimsTyped

(* A child that only changes its status away from suspended.                *)
LEMMA ChildRuns ==
  ASSUME WorkersInv, AnswersInv, NEW p \in Procs, GoesOn(p), UNCHANGED <<worker, claims>>,
         NEW t \in Tasks, NEW status, status # "suspended",
         child' = [child EXCEPT ![t].status = status]
  PROVE  Delivered(p)
  <1> DEFINE c == [child[t] EXCEPT !.status = status]
  <1>1. child[t] \in Children /\ child[t].answers \in {<<>>, claims[t]}
    BY DEF WorkersInv, Typed, AnswersInv, ChildrenAnswer
  <1>2. c.status = status /\ c.answers = child[t].answers
    BY <1>1 DEF Children
  <1>3. child' = [child EXCEPT ![t] = c]
    OBVIOUS
  <1> HIDE DEF c
  <1> QED BY <1>1, <1>2, <1>3, ChildMoves

(* The inspection of an adapter's start, for a pending row.                  *)
LEMMA ChildStartDelivers ==
  ASSUME WorkersInv, AnswersInv, NEW p \in Procs, child_start(p)
  PROVE  Delivered(p)
  <1>1. call[p].pc \in Inside \ {"claiming"} /\ call[p].row.status = "pending"
    BY DEF child_start, Inside, AnswersInv, CallsDeliver, Delivers
  <1>2. UNCHANGED <<worker, claims, child>>
    BY DEF child_start
  <1>3. \/ Goto(p, [call[p] EXCEPT !.pc = "creating"])
        \/ _observe(p, child[call[p].task])
    BY DEF child_start
  <1>4. GoesOn(p)
    BY <1>1, <1>2, <1>3, PhaseDelivers, ObserveDelivers
  <1> QED BY <1>2, <1>4, NothingAnswered

(* The engine creates the child, observes it or refuses it.                 *)
LEMMA ChildCreateDelivers ==
  ASSUME WorkersInv, AnswersInv, NEW p \in Procs, child_create(p)
  PROVE  Delivered(p)
  <1> DEFINE t == call[p].task
  <1>1. call[p].pc \in Inside \ {"claiming"} /\ call[p].row.status = "pending"
    BY DEF child_create, Inside, AnswersInv, CallsDeliver, Delivers
  <1>2. t \in Tasks
    BY <1>1, InsideDelivers
  <1>3. UNCHANGED <<worker, claims>>
    BY DEF child_create
  <1>4. CASE /\ UNCHANGED child
             /\ _observe(p, child[t]) \/ Seen(p, "persisting", "stale", 0, None)
    BY <1>1, <1>3, <1>4, ObserveDelivers, EndDelivers, NothingAnswered DEF Terminal
  <1>5. CASE child' = [child EXCEPT ![t].status = "running"]
             /\ Goto(p, [call[p] EXCEPT !.pc = "driving"])
    <2>1. GoesOn(p)
      BY <1>1, <1>3, <1>5, PhaseDelivers
    <2> QED BY <1>2, <1>3, <1>5, <2>1, ChildRuns
  <1> QED BY <1>4, <1>5 DEF child_create

(* The inspection of an adapter's resume.                                   *)
LEMMA ChildResumeDelivers ==
  ASSUME WorkersInv, AnswersInv, NEW p \in Procs, child_resume(p)
  PROVE  Delivered(p)
  <1>1. call[p].pc \in Inside \ {"claiming"} /\ call[p].row.status = "resume_claimed"
    BY DEF child_resume, Inside, AnswersInv, CallsDeliver, Delivers
  <1>2. UNCHANGED <<worker, claims, child>>
    BY DEF child_resume
  <1>3. \/ Goto(p, [call[p] EXCEPT !.pc = "answering"])
        \/ ObserveAnswered(p, child[call[p].task])
    BY DEF child_resume
  <1>4. GoesOn(p)
    BY <1>1, <1>2, <1>3, PhaseDelivers, ObserveAnsweredDelivers
  <1> QED BY <1>2, <1>4, NothingAnswered

(* The engine records the answer that was claimed.                          *)
LEMMA ChildAnswerDelivers ==
  ASSUME WorkersInv, AnswersInv, NEW p \in Procs, child_answer(p)
  PROVE  Delivered(p)
  <1> DEFINE t == call[p].task
             c == child[t]
             answers == Append(c.answers, call[p].row.response)
  <1>1. call[p].pc \in Inside \ {"claiming"} /\ call[p].row.status = "resume_claimed"
    BY DEF child_answer, Inside, AnswersInv, CallsDeliver, Delivers
  <1>2. t \in Tasks /\ claims[t] = <<call[p].row.response>>
    BY <1>1, InsideDelivers
  <1>3. UNCHANGED <<worker, claims>>
    BY DEF child_answer
  <1>4. CASE UNCHANGED child /\ (Seen(p, "persisting", "stale", 0, None) \/ ObserveAnswered(p, c))
    BY <1>1, <1>3, <1>4, EndDelivers, ObserveAnsweredDelivers, NothingAnswered DEF Terminal
  <1>5. CASE /\ c.status = "suspended"
             /\ child' = [child EXCEPT ![t].status = "running", ![t].answers = answers]
             /\ Goto(p, [call[p] EXCEPT !.pc = "driving"])
    <2> DEFINE next == [c EXCEPT !.status = "running", !.answers = answers]
    <2>1. c \in Children /\ c.answers = <<>>
      BY <1>2, <1>5 DEF WorkersInv, Typed, AnswersInv, ChildrenAnswer
    <2>2. answers = claims[t]
      <3>1. \A r : Append(<<>>, r) = <<r>>
        OBVIOUS
      <3> QED BY <1>2, <2>1, <3>1
    <2>3. next.status = "running" /\ next.answers = claims[t]
      BY <2>1, <2>2 DEF Children
    <2>4. child' = [child EXCEPT ![t] = next]
      BY <1>2, <1>5, <2>1 DEF WorkersInv, Typed
    <2>5. GoesOn(p)
      BY <1>1, <1>3, <1>5, PhaseDelivers
    <2> HIDE DEF next
    <2> QED BY <1>2, <1>3, <2>3, <2>4, <2>5, ChildMoves
  <1> QED BY <1>4, <1>5 DEF child_answer

(* A child asks its dialogue only before it has recorded the answer.         *)
LEMMA ChildDriveDelivers ==
  ASSUME Dialogues <= 1, WorkersInv, AnswersInv, NEW p \in Procs, child_drive(p)
  PROVE  Delivered(p)
  <1> DEFINE t == call[p].task
             c == child[t]
  <1>1. call[p].pc \in Inside \ {"claiming"}
    BY DEF child_drive, Inside
  <1>2. t \in Tasks /\ c \in Children /\ c.answers \in {<<>>, claims[t]}
    BY <1>1, InsideDelivers DEF WorkersInv, Typed, AnswersInv, ChildrenAnswer
  <1>3. UNCHANGED <<worker, claims>>
    BY DEF child_drive
  <1>4. GoesOn(p)
    BY <1>1, <1>3, PhaseDelivers DEF child_drive
  <1>5. CASE Len(c.answers) < Dialogues /\ child' = [child EXCEPT ![t].status = "suspended"]
    <2> DEFINE next == [c EXCEPT !.status = "suspended"]
    <2>1. c.answers = <<>>
      <3>1. Len(c.answers) = 0
        BY <1>2, <1>5, LenProperties, WorkersAssumption DEF Children
      <3> QED BY <1>2, <3>1, EmptySeq DEF Children
    <2>2. next.answers = c.answers
      BY <1>2 DEF Children
    <2>3. child' = [child EXCEPT ![t] = next]
      BY <1>2, <1>5 DEF WorkersInv, Typed
    <2> HIDE DEF next
    <2> QED BY <1>2, <1>3, <1>4, <2>1, <2>2, <2>3, ChildMoves
  <1>6. ASSUME NEW end \in Failures, child' = [child EXCEPT ![t].status = end]
        PROVE  Delivered(p)
    <2>1. end # "suspended"
      BY WorkersAssumption
    <2> QED BY <1>2, <1>3, <1>4, <1>6, <2>1, ChildRuns
  <1>7. ASSUME NEW o \in Outputs,
               child' = [child EXCEPT ![t].status = "completed", ![t].output = o]
        PROVE  Delivered(p)
    <2> DEFINE next == [c EXCEPT !.status = "completed", !.output = o]
    <2>1. next.status = "completed" /\ next.answers = c.answers
      BY <1>2 DEF Children
    <2>2. child' = [child EXCEPT ![t] = next]
      BY <1>2, <1>7 DEF WorkersInv, Typed
    <2> HIDE DEF next
    <2> QED BY <1>2, <1>3, <1>4, <2>1, <2>2, ChildMoves
  <1> QED BY <1>5, <1>6, <1>7 DEF child_drive

(* The inspection of the run that was driven: a claimed row finds its own    *)
(* answer recorded, and the child is past its dialogue.                     *)
LEMMA ChildInspectDelivers ==
  ASSUME WorkersInv, AnswersInv, NEW p \in Procs, child_inspect(p)
  PROVE  Delivered(p)
  <1> DEFINE c == child[call[p].task]
  <1>1. /\ call[p].pc \in Inside \ {"claiming"}
        /\ call[p].row.status \in {"pending", "resume_claimed"}
    BY InsideDelivers DEF child_inspect, Inside
  <1>2. UNCHANGED <<worker, claims, child>>
    BY DEF child_inspect
  <1>3. CASE Seen(p, "persisting", "failed", 0, None)
    BY <1>1, <1>2, <1>3, EndDelivers, NothingAnswered DEF Terminal
  <1>4. CASE /\ call[p].row.status = "resume_claimed" => Recorded(c, call[p].row)
             /\ _observe(p, c)
    BY <1>1, <1>2, <1>4, RecordedIsLast, ObserveDelivers, NothingAnswered
  <1> QED BY <1>3, <1>4 DEF child_inspect

(* A gateway error is a failed observation.                                 *)
LEMMA GatewayFailureDelivers ==
  ASSUME WorkersInv, AnswersInv, NEW p \in Procs, gateway_failure(p)
  PROVE  Delivered(p)
  <1> DEFINE t == call[p].task
  <1>1. call[p].pc \in Inside \ {"claiming"}
    BY DEF gateway_failure, Inside
  <1>2. t \in Tasks /\ UNCHANGED <<worker, claims>>
    BY <1>1, InsideDelivers DEF gateway_failure
  <1>3. GoesOn(p)
    BY <1>1, <1>2, EndDelivers DEF gateway_failure, Terminal
  <1> QED BY <1>2, <1>3, NothingAnswered, ChildRuns DEF gateway_failure

(* The proof slot has no part in the answers.                               *)
LEMMA ProofCreateDelivers ==
  ASSUME WorkersInv, AnswersInv, NEW p \in Procs, proof_create(p)
  PROVE  Delivered(p)
  <1> DEFINE next == [call[p] EXCEPT !.pc = "persisting"]
  <1>1. call[p].pc \in Inside \ {"claiming"} /\ Delivers(call[p], claims)
    BY DEF proof_create, Inside, AnswersInv, CallsDeliver
  <1>2. UNCHANGED <<worker, claims, child>>
    BY DEF proof_create
  <1>3. CASE Seen(p, "persisting", "failed", 0, None)
    BY <1>1, <1>2, <1>3, EndDelivers, NothingAnswered DEF Terminal
  <1>4. CASE Goto(p, next)
    <2>1. /\ next.pc = "persisting" /\ next.task = call[p].task
          /\ next.row = call[p].row /\ next.seen = call[p].seen
      BY <1>1, InsideCall DEF WorkersInv
    <2>2. Delivers(next, claims)
      BY <1>1, <2>1 DEF Delivers, proof_create, Inside
    <2> HIDE DEF next
    <2> QED BY <1>2, <1>4, <2>2, ClaimsStand, NothingAnswered
  <1> QED BY <1>3, <1>4 DEF proof_create

(* The row an observation writes keeps the claims of the row it replaces.   *)
LEMMA ReplacementClaims ==
  ASSUME NEW row, NEW seen, NEW claimed, RowClaims(row, claimed),
         row.status \in {"pending", "resume_claimed"},
         seen.status \in {"suspended"} \union Terminal,
         seen.status = "suspended" => row.status = "pending" /\ seen.dialogue >= 1
  PROVE  RowClaims(Replacement(row, seen), claimed)
  <1>1. CASE seen.status = "suspended"
    BY <1>1 DEF Replacement, Row, RowClaims
  <1>2. CASE seen.status \in Terminal
    <2>1. /\ Replacement(row, seen).generation = row.generation
          /\ Replacement(row, seen).status \in Terminal
      BY <1>2 DEF Replacement, _terminal_state, Observation, Row, Terminal
    <2>2. claimed = <<>> \/ \E r \in Responses \union {None} : claimed = <<r>>
      BY DEF RowClaims
    <2> QED BY <2>1, <2>2 DEF RowClaims, Terminal
  <1> QED BY <1>1, <1>2

(* The observation is stored in the row the call started from, or nowhere.  *)
LEMMA PersistDelivers ==
  ASSUME WorkersInv, AnswersInv, NEW p \in Procs, _persist_observation(p)
  PROVE  Delivered(p)
  <1> DEFINE t == call[p].task
             row == call[p].row
             seen == call[p].seen
  <1>1. /\ call[p].pc \in Inside \ {"claiming"} /\ call[p].pc = "persisting"
        /\ t \in Tasks /\ row.status \in {"pending", "resume_claimed"}
    BY InsideDelivers DEF _persist_observation, Inside
  <1>2. /\ seen.status \in {"suspended"} \union Terminal
        /\ seen.status = "suspended" => row.status = "pending" /\ seen.dialogue >= 1
    BY <1>1 DEF AnswersInv, CallsDeliver, Delivers
  <1>3. UNCHANGED <<claims, child>>
    BY DEF _persist_observation
  <1>4. worker' = IF worker[t] = row THEN [worker EXCEPT ![t] = Replacement(row, seen)] ELSE worker
    BY DEF _persist_observation
  <1>5. ASSUME NEW u \in Tasks PROVE RowClaims(worker'[u], claims[u])
    <2>1. RowClaims(worker[u], claims[u])
      BY DEF AnswersInv, RowsClaim
    <2>2. CASE u = t /\ worker[t] = row
      <3>1. worker'[u] = Replacement(row, seen)
        BY <1>4, <2>2 DEF WorkersInv, Typed
      <3>2. RowClaims(row, claims[u])
        BY <2>1, <2>2
      <3> QED BY <1>1, <1>2, <3>1, <3>2, ReplacementClaims
    <2>3. CASE ~(u = t /\ worker[t] = row)
      BY <1>4, <2>1, <2>3 DEF WorkersInv, Typed
    <2> QED BY <2>2, <2>3
  <1>6. GoesOn(p)
    <2>1. worker' \in [Tasks -> Rows]
      BY PersistSteps DEF RowsAdvance
    <2>2. worker'[t].status \in Views /\ "conflict" \in Views
      BY <1>1, <2>1 DEF Rows, Views
    <2>3. Goto(p, Returned(t, worker'[t].status)) \/ Goto(p, Returned(t, "conflict"))
      BY DEF _persist_observation
    <2> QED BY <1>1, <1>3, <2>2, <2>3, ReturnsDeliver
  <1> QED BY <1>3, <1>5, <1>6 DEF Delivered, RowsClaim, ChildrenAnswer, AnswersInv, ClaimsTyped

(* A dying process leaves everything else as it is.                         *)
LEMMA CrashDelivers ==
  ASSUME AnswersInv, NEW p \in Procs, WorkerCrash(p)
  PROVE  Delivered(p)
  BY ReturnsDeliver, NothingAnswered DEF WorkerCrash

(* Every step of the service keeps the answers the claimed ones.            *)
LEMMA EveryStepDelivers ==
  ASSUME Dialogues <= 1, WorkersInv, AnswersInv, NextWorkers
  PROVE  AnswersInv'
  <1>1. PICK p \in Procs : Delivered(p)
    <2>1. PICK p \in Procs :
             \/ \E t \in Tasks : start(p, t)
             \/ \E t \in Tasks, g \in 0..Dialogues, r \in Responses : resume(p, t, g, r)
             \/ WorkerStep(p)
             \/ gateway_failure(p)
             \/ WorkerCrash(p)
      BY DEF NextWorkers
    <2>2. ASSUME WorkerStep(p) PROVE Delivered(p)
      BY <2>2, ClaimDelivers, ChildStartDelivers, ChildCreateDelivers, ChildResumeDelivers,
         ChildAnswerDelivers, ChildDriveDelivers, ChildInspectDelivers, ProofCreateDelivers, PersistDelivers
         DEF WorkerStep
    <2> QED BY <2>1, <2>2, StartDelivers, ResumeDelivers, GatewayFailureDelivers, CrashDelivers
  <1> QED BY <1>1, GoingOnDelivers DEF Delivered, AnswersInv

(* The answers of the children are the claimed ones.                        *)
LEMMA AnswersSuffice ==
  ASSUME AnswersInv PROVE AnswersAreClaimed
  <1> SUFFICES ASSUME NEW t \in Tasks
               PROVE  /\ Len(claims[t]) <= worker[t].generation + 1
                      /\ Len(child[t].answers) <= Len(claims[t])
                      /\ \A n \in DOMAIN child[t].answers : child[t].answers[n] = claims[t][n]
    BY DEF AnswersAreClaimed
  <1>1. /\ worker[t].generation = 0
        /\ claims[t] = <<>> \/ \E r \in Responses \union {None} : claims[t] = <<r>>
        /\ child[t].answers \in {<<>>, claims[t]}
    BY DEF AnswersInv, RowsClaim, RowClaims, ChildrenAnswer
  <1>2. Len(claims[t]) \in {0, 1}
    BY <1>1
  <1>3. Len(claims[t]) <= worker[t].generation + 1
    <2>1. worker[t].generation = 0
      BY <1>1
    <2>2. \A n \in {0, 1} : n <= 0 + 1
      OBVIOUS
    <2> QED BY <1>2, <2>1, <2>2
  <1>4. Len(child[t].answers) <= Len(claims[t])
    <2>1. Len(child[t].answers) = 0 \/ Len(child[t].answers) = Len(claims[t])
      BY <1>1
    <2> QED BY <1>2, <2>1
  <1>5. \A n \in DOMAIN child[t].answers : child[t].answers[n] = claims[t][n]
    <2>1. DOMAIN <<>> = {}
      OBVIOUS
    <2>2. CASE child[t].answers = claims[t]
      BY <2>2, Zenon
    <2>3. CASE child[t].answers = <<>>
      <3>1. DOMAIN child[t].answers = {}
        BY <2>1, <2>3, Zenon
      <3> QED BY <3>1, Zenon
    <2> QED BY <1>1, <2>2, <2>3
  <1> QED BY <1>3, <1>4, <1>5, Zenon

(* For a flow with at most one dialogue, as every built-in flow is: the      *)
(* response the child records is the one the task's only claim carries, and  *)
(* no row is undone, whatever the processes that start, answer and observe   *)
(* the task do to each other and wherever they die.  The hypothesis is       *)
(* needed: engine.resume answers the dialogue at which it finds the run, so  *)
(* with two dialogues a second delivery of the first answer could reach the  *)
(* second.                                                                  *)
THEOREM ProgressIsKept ==
  ASSUME Dialogues <= 1
  PROVE  SpecWorkers => WorkersKeepProgress
  <1>1. InitWorkers => AnswersInv
    <2> SUFFICES ASSUME InitWorkers PROVE AnswersInv
      OBVIOUS
    <2>1. RowsClaim /\ ClaimsTyped
      BY DEF InitWorkers, RowsClaim, RowClaims, ClaimsTyped, Absent, Row
    <2>2. ChildrenAnswer /\ CallsDeliver
      BY DEF InitWorkers, ChildrenAnswer, CallsDeliver, Delivers, Idle, Inside
    <2> QED BY <2>1, <2>2 DEF AnswersInv
  <1>2. WorkersInv /\ AnswersInv /\ [NextWorkers]_workerVars => AnswersInv'
    <2>1. AnswersInv /\ UNCHANGED workerVars => AnswersInv'
      BY DEF AnswersInv, RowsClaim, ClaimsTyped, ChildrenAnswer, CallsDeliver, workerVars
    <2> QED BY <2>1, EveryStepDelivers
  <1>3. WorkersInv /\ AnswersInv /\ AnswersInv' /\ [NextWorkers]_workerVars =>
           [AnswersAreClaimed' /\ RowsForward]_workerVars
    <2>1. AnswersInv' => AnswersAreClaimed'
      BY AnswersSuffice, PTL
    <2> QED BY <2>1, EveryStep
  <1> QED BY <1>1, <1>2, <1>3, WorkersInvariant, PTL DEF SpecWorkers, WorkersKeepProgress

-----------------------------------------------------------------------------
(***************************************************************************)
(* The coordinators of a lesson.                                           *)
(***************************************************************************)

-----------------------------------------------------------------------------
(* The children.  No host answers a dialogue of a lesson's child, so a call  *)
(* of the service works for a pending row and no child records an answer.   *)

Serves(c, rows) ==
    /\ c.pc \in Inside =>
          /\ c.pc \in {"starting", "creating", "driving", "inspecting", "proving", "persisting"}
          /\ c.row = Pending
          /\ c.pc \in {"proving", "persisting"} =>
                /\ c.seen.status \in {"suspended"} \union Terminal
                /\ c.seen.status = "suspended" => c.seen.dialogue = 1 /\ 1 <= Dialogues
    /\ c.pc = "returned" /\ c.view = "completed" => rows[c.task].status = "completed"

CallsServe == \A p \in Procs : Serves(call[p], worker)

RowsUnanswered ==
    \A t \in Tasks :
        /\ worker[t].status \in {"absent", "pending", "suspended"} \union Terminal
        /\ worker[t].status = "pending" => worker[t] = Pending
        /\ worker[t].generation = 0
        /\ worker[t].continuation = 0 \/ (worker[t].continuation = 1 /\ 1 <= Dialogues)

ChildrenSilent ==
    \A t \in Tasks :
        child[t].answers = <<>> /\ (child[t].status = "suspended" => 1 <= Dialogues)

ServiceInv == CallsServe /\ RowsUnanswered /\ ChildrenSilent

-----------------------------------------------------------------------------
(* The checkpoint, the copies of the coordinators, and the owners.          *)

Ordered(cp) ==
    \A m, n \in DOMAIN cp :
        m < n /\ cp[n].status # "pending" => Rank(cp[m].status) >= Rank("claimed")

(* A checkpoint as it is stored: a page has a wrapper from the moment it is  *)
(* prepared, the pages are taken in order, and no more than Concurrency at a *)
(* time.                                                                    *)
Lawful(cp) ==
    /\ cp \in Checkpoints
    /\ \A n \in DOMAIN cp :
          IF cp[n].status \in {"pending", "resolving"}
          THEN cp[n].wrapper = None ELSE cp[n].wrapper \in Wrappers
    /\ Ordered(cp)
    /\ Cardinality(Claimed(cp)) <= Concurrency

(* Checkpoint b is a, or what became of it.                                 *)
Reaches(a, b) ==
    /\ DOMAIN b = DOMAIN a
    /\ \A n \in DOMAIN a : b[n] # a[n] =>
          /\ Rank(b[n].status) > Rank(a[n].status)
          /\ a[n].status \notin {"pending", "resolving"} => b[n].wrapper = a[n].wrapper

(* The positions a call has counted: its places and the claimed pages it has *)
(* gone past never exceed the setting.                                      *)
Counted(c, places) ==
    /\ \A n \in DOMAIN c.copy \ c.left : Rank(c.copy[n].status) >= Rank("claimed")
    /\ c.available + Cardinality(Claimed(c.copy) \ c.left) + places <= Concurrency

(* A coordinator's copy is an earlier checkpoint, or the stored one.        *)
ScanSound(c, stored) ==
    /\ c = [pc |-> c.pc, copy |-> c.copy, left |-> c.left, found |-> c.found,
            recovering |-> c.recovering, available |-> c.available]
    /\ stored # None
    /\ Lawful(c.copy) /\ Reaches(c.copy, stored)
    /\ c.left \in SUBSET DOMAIN c.copy /\ c.left # {}
    /\ c.recovering \in BOOLEAN /\ c.available \in Int
    /\ \A n \in c.found : n \in DOMAIN c.copy /\ Rank(c.copy[n].status) >= Rank("claimed")
    /\ c.recovering => \A n \in c.left : c.copy[n].status = "claimed"
    /\ c.pc = "working" /\ ~c.recovering => c.available > 0 /\ Counted(c, 0)

(* A coordinator that observes a child waits for a call of its own.         *)
ObservingSound(c, mine) ==
    /\ ~c.recovering => Counted(c, 1)
    /\ c.copy[Min(c.left)].status = "claimed"
    /\ mine.pc \in Inside \union {"returned"}
    /\ mine.task = child_task_id(Min(c.left), c.copy[Min(c.left)].wrapper)

(* A review publishes the owners of the stored lesson, which is over.       *)
PublishingSound(c, stored) ==
    /\ c = [pc |-> c.pc, copy |-> c.copy, left |-> c.left]
    /\ stored # None /\ c.copy = stored /\ Reviewable(stored)
    /\ c.left \in SUBSET DOMAIN stored /\ c.left # {}

CoordSound(c, stored, mine) ==
    /\ c.pc \in {"idle", "loading", "working", "observing", "publishing"}
    /\ c.pc \in {"working", "observing"} => ScanSound(c, stored)
    /\ c.pc = "observing" => ObservingSound(c, mine)
    /\ c.pc = "publishing" => PublishingSound(c, stored)

CoordsSound == /\ coord = [p \in Procs |-> coord[p]]
               /\ \A p \in Procs : CoordSound(coord[p], pages, call[p])

PagesSound == pages # None => Lawful(pages)

(* A child is the one its page has committed to, and a page reports what the *)
(* row of its child says.                                                   *)
Committed ==
    /\ \A t \in Tasks : worker[t] # Absent =>
          /\ pages # None /\ t[1] \in DOMAIN pages
          /\ pages[t[1]].wrapper = t[2]
          /\ Rank(pages[t[1]].status) >= Rank("claimed")
    /\ pages # None => \A n \in DOMAIN pages :
          pages[n].status = "terminal" /\ pages[n].receipt.ok =>
             LET t == child_task_id(n, pages[n].wrapper)
             IN  worker[t].status = "completed" /\ pages[n].receipt.cards = worker[t].output

OwnersSound ==
    /\ owners = [n \in Positions |-> owners[n]]
    /\ \A n \in Positions : owners[n] # None =>
          pages # None /\ n \in DOMAIN pages /\ owners[n].lesson = pages /\ Reviewable(pages)

LessonInv == /\ WorkersInv /\ ServiceInv
             /\ PagesSound /\ CoordsSound /\ Committed /\ OwnersSound

-----------------------------------------------------------------------------
(* Ranks, positions and the forms of a checkpoint.                          *)

(* The ranks of the statuses.                                               *)
LEMMA RankValues ==
  /\ Rank("pending") = 1 /\ Rank("resolving") = 2 /\ Rank("prepared") = 3
  /\ Rank("claimed") = 4 /\ Rank("terminal") = 5
  <1> DEFINE names == <<"pending", "resolving", "prepared", "claimed", "terminal">>
  <1>1. /\ names[1] = "pending" /\ names[2] = "resolving" /\ names[3] = "prepared"
        /\ names[4] = "claimed" /\ names[5] = "terminal"
    OBVIOUS
  <1>2. \A n \in 1..5 : n = 1 \/ n = 2 \/ n = 3 \/ n = 4 \/ n = 5
    OBVIOUS
  <1>3. 1 \in 1..5 /\ 2 \in 1..5 /\ 3 \in 1..5 /\ 4 \in 1..5 /\ 5 \in 1..5
    OBVIOUS
  <1> HIDE DEF names
  <1>4. \A status : Rank(status) = CHOOSE n \in 1..5 : names[n] = status
    BY DEF Rank, names
  <1>5. /\ (CHOOSE n \in 1..5 : names[n] = "pending") = 1
        /\ (CHOOSE n \in 1..5 : names[n] = "resolving") = 2
        /\ (CHOOSE n \in 1..5 : names[n] = "prepared") = 3
        /\ (CHOOSE n \in 1..5 : names[n] = "claimed") = 4
        /\ (CHOOSE n \in 1..5 : names[n] = "terminal") = 5
    BY <1>1, <1>2, <1>3
  <1> QED BY <1>4, <1>5

(* A status is as far as "claimed" exactly if its page has its child.        *)
LEMMA RankOrder ==
  ASSUME NEW s \in PageStatuses
  PROVE  /\ Rank(s) \in Nat /\ Rank(s) <= 5
         /\ Rank(s) >= Rank("claimed") <=> s \in {"claimed", "terminal"}
         /\ Rank(s) > Rank("claimed") <=> s = "terminal"
         /\ Rank(s) > Rank("prepared") <=> s \in {"claimed", "terminal"}
         /\ Rank(s) > Rank("resolving") <=> s \in {"prepared", "claimed", "terminal"}
         /\ ~(Rank(s) > Rank("terminal"))
  BY RankValues DEF PageStatuses

(* A set of positions that is not empty has a first one.                    *)
LEMMA FirstPosition ==
  ASSUME NEW S, S \in SUBSET Nat, S # {}
  PROVE  Min(S) \in S /\ \A n \in S : Min(S) <= n
  <1> DEFINE R == OpToRel(<, Nat)
  <1>1. IsWellFoundedOn(R, Nat)
    BY NatLessThanWellFounded
  <1>2. \A x, y \in Nat : y < x => <<y, x>> \in R
    BY DEF OpToRel
  <1> HIDE DEF R
  <1>3. PICK x \in S : \A y \in S : ~(<<y, x>> \in R)
    BY <1>1, WFMin
  <1>4. ASSUME NEW y \in S PROVE x <= y
    <2>1. x \in Nat /\ y \in Nat /\ ~(<<y, x>> \in R)
      BY <1>3
    <2>2. ~(y < x)
      BY <1>2, <2>1
    <2> QED BY <2>1, <2>2
  <1> QED BY <1>3, <1>4 DEF Min

(* A checkpoint is a function on its positions, to pages.                   *)
LEMMA CheckpointForm ==
  ASSUME NEW cp, cp \in Checkpoints
  PROVE  /\ \E k \in 0..MaxPages : DOMAIN cp = 1..k
         /\ DOMAIN cp \in SUBSET Positions
         /\ cp = [n \in DOMAIN cp |-> cp[n]]
         /\ \A n \in DOMAIN cp :
               cp[n] \in [status : PageStatuses, wrapper : Wrappers \union {None},
                          receipt : {None} \union [ok : BOOLEAN, cards : Outputs \union {{}}]]
  BY LessonAssumption DEF Checkpoints, Positions

(* The positions of a checkpoint are a finite set of numbers.               *)
LEMMA PositionsFinite ==
  ASSUME NEW cp, cp \in Checkpoints
  PROVE  /\ IsFiniteSet(DOMAIN cp) /\ DOMAIN cp \in SUBSET Nat
         /\ \A S \in SUBSET DOMAIN cp : IsFiniteSet(S) /\ Cardinality(S) \in Nat
  <1>1. PICK k \in 0..MaxPages : DOMAIN cp = 1..k
    BY CheckpointForm
  <1>2. k \in Nat
    BY LessonAssumption
  <1>3. IsFiniteSet(1..k)
    BY <1>2, FS_Interval
  <1> QED BY <1>1, <1>2, <1>3, FS_Subset, FS_CardinalityType

(* An element more counts at most one more.                                 *)
LEMMA OneMore ==
  ASSUME NEW S, IsFiniteSet(S), NEW x
  PROVE  /\ Cardinality(S \union {x}) <= Cardinality(S) + 1
         /\ Cardinality(S) \in Nat /\ Cardinality(S \union {x}) \in Nat
  <1>1. Cardinality(S \union {x}) = IF x \in S THEN Cardinality(S) ELSE Cardinality(S) + 1
    BY FS_AddElement
  <1> QED BY <1>1, FS_CardinalityType

(* A checkpoint reaches itself.                                             *)
LEMMA ReachesItself ==
  ASSUME NEW a PROVE Reaches(a, a)
  BY DEF Reaches

(* What is reached from a checkpoint is no less far on, page by page.       *)
LEMMA ReachesRank ==
  ASSUME NEW a, a \in Checkpoints, NEW b, b \in Checkpoints, Reaches(a, b),
         NEW n \in DOMAIN a
  PROVE  /\ n \in DOMAIN b
         /\ Rank(b[n].status) >= Rank(a[n].status)
         /\ Rank(a[n].status) \in Nat /\ Rank(b[n].status) \in Nat
         /\ a[n].status \notin {"pending", "resolving"} =>
               /\ b[n].wrapper = a[n].wrapper
               /\ b[n].status \notin {"pending", "resolving"}
         /\ a[n].status \in {"claimed", "terminal"} => b[n].status \in {"claimed", "terminal"}
         /\ a[n].status = "terminal" => b[n] = a[n]
         /\ a[n].status \in {"claimed", "terminal"} /\ b[n].status = "claimed" => b[n] = a[n]
  <1>1. n \in DOMAIN b /\ a[n].status \in PageStatuses /\ b[n].status \in PageStatuses
    BY CheckpointForm DEF Reaches
  <1>2. b[n] = a[n] \/ (Rank(b[n].status) > Rank(a[n].status)
           /\ (a[n].status \notin {"pending", "resolving"} => b[n].wrapper = a[n].wrapper))
    BY DEF Reaches
  <1> QED BY <1>1, <1>2, RankValues DEF PageStatuses

(* Reaching is transitive.                                                  *)
LEMMA ReachesOn ==
  ASSUME NEW a, a \in Checkpoints, NEW b, b \in Checkpoints, NEW c, c \in Checkpoints,
         Reaches(a, b), Reaches(b, c)
  PROVE  Reaches(a, c)
  <1>1. DOMAIN b = DOMAIN a /\ DOMAIN c = DOMAIN a
    BY DEF Reaches
  <1>2. ASSUME NEW n \in DOMAIN a, c[n] # a[n]
        PROVE  /\ Rank(c[n].status) > Rank(a[n].status)
               /\ a[n].status \notin {"pending", "resolving"} => c[n].wrapper = a[n].wrapper
    <2>1. /\ Rank(b[n].status) >= Rank(a[n].status) /\ Rank(c[n].status) >= Rank(b[n].status)
          /\ Rank(a[n].status) \in Nat /\ Rank(b[n].status) \in Nat /\ Rank(c[n].status) \in Nat
      BY <1>1, ReachesRank
    <2>2. \/ b[n] # a[n] /\ Rank(b[n].status) > Rank(a[n].status)
          \/ c[n] # b[n] /\ Rank(c[n].status) > Rank(b[n].status)
      BY <1>1, <1>2 DEF Reaches
    <2>3. a[n].status \notin {"pending", "resolving"} => c[n].wrapper = a[n].wrapper
      BY <1>1, ReachesRank
    <2> QED BY <2>1, <2>2, <2>3
  <1> QED BY <1>1, <1>2 DEF Reaches

(* A checkpoint whose pages are all terminal stays.                         *)
LEMMA OverIsOver ==
  ASSUME NEW a, a \in Checkpoints, NEW b, b \in Checkpoints, Reaches(a, b),
         \A n \in DOMAIN a : a[n].status = "terminal"
  PROVE  b = a
  <1>1. \A n \in DOMAIN a : b[n] = a[n]
    BY ReachesRank
  <1>2. DOMAIN b = DOMAIN a /\ a = [n \in DOMAIN a |-> a[n]] /\ b = [n \in DOMAIN b |-> b[n]]
    BY CheckpointForm DEF Reaches
  <1> QED BY <1>1, <1>2

-----------------------------------------------------------------------------
(* How a coordinator goes on.                                               *)

(* A call that has done with a page and looks for the next.                 *)
Ready(c, stored) ==
    /\ c = [pc |-> "working", copy |-> c.copy, left |-> c.left, found |-> c.found,
            recovering |-> c.recovering, available |-> c.available]
    /\ stored # None
    /\ Lawful(c.copy) /\ Reaches(c.copy, stored)
    /\ c.left \in SUBSET DOMAIN c.copy
    /\ c.recovering \in BOOLEAN /\ c.available \in Int
    /\ \A n \in c.found : n \in DOMAIN c.copy /\ Rank(c.copy[n].status) >= Rank("claimed")
    /\ ~c.recovering => Counted(c, 0)

(* A call that has observed the child of a page.                            *)
Saw(c, stored) ==
    /\ c = [pc |-> "observing", copy |-> c.copy, left |-> c.left, found |-> c.found,
            recovering |-> c.recovering, available |-> c.available]
    /\ stored # None
    /\ Lawful(c.copy) /\ Reaches(c.copy, stored)
    /\ c.left \in SUBSET DOMAIN c.copy /\ c.left # {}
    /\ c.recovering \in BOOLEAN /\ c.available \in Int
    /\ \A n \in c.found : n \in DOMAIN c.copy /\ Rank(c.copy[n].status) >= Rank("claimed")
    /\ c.copy[Min(c.left)].status \in {"claimed", "terminal"}
    /\ ~c.recovering => Counted(c, 1)

(* The parts of Proceed.                                                    *)
ClaimedLeft(c) == {n \in c.left : c.copy[n].status = "claimed"}

ScanOf(c) ==
    IF c.recovering
    THEN Working(c.copy, DOMAIN c.copy \ c.found, c.found, FALSE,
                 Concurrency - Cardinality(Claimed(c.copy)))
    ELSE c

OpenLeft(c) == {n \in c.left : c.copy[n].status # "terminal"}

(* The forms of Proceed.                                                    *)
LEMMA ProceedForms ==
  ASSUME NEW c
  PROVE  \/ /\ c.recovering /\ ClaimedLeft(c) # {}
            /\ Proceed(c) = [c EXCEPT !.left = ClaimedLeft(c)]
         \/ /\ ScanOf(c).available > 0 /\ OpenLeft(ScanOf(c)) # {}
            /\ Proceed(c) = [ScanOf(c) EXCEPT !.left = OpenLeft(ScanOf(c))]
         \/ Proceed(c) = Idle
  <1> DEFINE found == ClaimedLeft(c)
             scan == ScanOf(c)
             open == OpenLeft(scan)
  <1>1. found = {n \in c.left : c.copy[n].status = "claimed"}
    BY DEF ClaimedLeft
  <1>2. scan = IF c.recovering
               THEN Working(c.copy, DOMAIN c.copy \ c.found, c.found, FALSE,
                            Concurrency - Cardinality(Claimed(c.copy)))
               ELSE c
    BY DEF ScanOf
  <1>3. open = {n \in scan.left : c.copy[n].status # "terminal"}
    <2>1. scan.copy = c.copy
      BY DEF ScanOf, Working
    <2> QED BY <2>1 DEF OpenLeft
  <1> HIDE DEF found, scan, open
  <1>4. Proceed(c) = IF c.recovering /\ found # {} THEN [c EXCEPT !.left = found]
                     ELSE IF scan.available > 0 /\ open # {} THEN [scan EXCEPT !.left = open]
                     ELSE Idle
    BY <1>1, <1>2, <1>3, Zenon DEF Proceed
  <1>5. \/ c.recovering /\ found # {} /\ Proceed(c) = [c EXCEPT !.left = found]
        \/ scan.available > 0 /\ open # {} /\ Proceed(c) = [scan EXCEPT !.left = open]
        \/ Proceed(c) = Idle
    BY <1>4, Zenon
  <1> QED BY <1>5 DEF found, scan, open

(* A call that has ended is sound.                                          *)
LEMMA IdleSound ==
  ASSUME NEW stored, NEW mine PROVE CoordSound(Idle, stored, mine)
  BY DEF CoordSound, Idle

(* The claimed pages of a checkpoint, and those outside a set.              *)
LEMMA ClaimedFinite ==
  ASSUME NEW cp, cp \in Checkpoints, NEW S
  PROVE  /\ IsFiniteSet(Claimed(cp)) /\ IsFiniteSet(Claimed(cp) \ S)
         /\ Cardinality(Claimed(cp)) \in Nat /\ Cardinality(Claimed(cp) \ S) \in Nat
         /\ Cardinality(Claimed(cp) \ S) <= Cardinality(Claimed(cp))
  <1>1. Claimed(cp) \in SUBSET DOMAIN cp /\ (Claimed(cp) \ S) \in SUBSET DOMAIN cp
    BY DEF Claimed
  <1>2. IsFiniteSet(Claimed(cp)) /\ Cardinality(Claimed(cp)) \in Nat
    BY <1>1, PositionsFinite
  <1>3. (Claimed(cp) \ S) \subseteq Claimed(cp)
    OBVIOUS
  <1> QED BY <1>1, <1>2, <1>3, PositionsFinite, FS_Subset

(* The second scan counts its places when it starts.                        *)
LEMMA ScanStarts ==
  ASSUME NEW c, NEW stored, Ready(c, stored)
  PROVE  Ready(ScanOf(c), stored) /\ ~ScanOf(c).recovering
  <1>1. CASE ~c.recovering
    BY <1>1 DEF ScanOf
  <1>2. CASE c.recovering
    <2> DEFINE claimed == Claimed(c.copy)
               left == DOMAIN c.copy \ c.found
               places == Concurrency - Cardinality(claimed)
    <2>1. PICK d : d = ScanOf(c)
      OBVIOUS
    <2>2. d = [pc |-> "working", copy |-> c.copy, left |-> left, found |-> c.found,
               recovering |-> FALSE, available |-> places]
      BY <1>2, <2>1 DEF ScanOf, Working
    <2>3. /\ d.copy = c.copy /\ d.left = left /\ d.found = c.found
          /\ d.recovering = FALSE /\ d.available = places /\ d.pc = "working"
      BY <2>2
    <2>4. c.copy \in Checkpoints
      BY DEF Ready, Lawful
    <2>5. /\ Cardinality(claimed) \in Nat /\ Cardinality(claimed \ left) \in Nat
          /\ Cardinality(claimed \ left) <= Cardinality(claimed)
          /\ Concurrency \in Nat
      BY <2>4, ClaimedFinite, LessonAssumption
    <2>6. places \in Int /\ places + Cardinality(claimed \ left) + 0 <= Concurrency
      BY <2>5
    <2>7. \A n \in DOMAIN d.copy \ d.left : Rank(d.copy[n].status) >= Rank("claimed")
      BY <2>3 DEF Ready
    <2>8. Counted(d, 0)
      BY <2>3, <2>6, <2>7 DEF Counted
    <2> HIDE DEF left, places
    <2>9. left \in SUBSET DOMAIN c.copy
      BY DEF left
    <2> QED BY <2>1, <2>2, <2>3, <2>6, <2>8, <2>9 DEF Ready
  <1> QED BY <1>1, <1>2

(* The second scan goes on with the pages that are not terminal.            *)
LEMMA ScanGoesOn ==
  ASSUME NEW c, NEW stored, NEW mine, Ready(c, stored), ~c.recovering,
         c.available > 0, OpenLeft(c) # {}
  PROVE  CoordSound([c EXCEPT !.left = OpenLeft(c)], stored, mine)
  <1>1. PICK d : d = [c EXCEPT !.left = OpenLeft(c)]
    OBVIOUS
  <1>2. d = [pc |-> "working", copy |-> c.copy, left |-> OpenLeft(c), found |-> c.found,
             recovering |-> c.recovering, available |-> c.available]
    BY <1>1 DEF Ready
  <1>3. /\ d.copy = c.copy /\ d.left = OpenLeft(c) /\ d.found = c.found
        /\ d.recovering = c.recovering /\ d.available = c.available /\ d.pc = "working"
    BY <1>2
  <1>4. Claimed(c.copy) \ OpenLeft(c) = Claimed(c.copy) \ c.left
    BY DEF Claimed, OpenLeft
  <1>5. ASSUME NEW n \in DOMAIN c.copy \ OpenLeft(c)
        PROVE  Rank(c.copy[n].status) >= Rank("claimed")
    <2>1. n \notin c.left => Rank(c.copy[n].status) >= Rank("claimed")
      BY <1>5 DEF Ready, Counted
    <2>2. n \in c.left => c.copy[n].status = "terminal"
      BY <1>5 DEF OpenLeft
    <2> QED BY <2>1, <2>2, RankValues
  <1>6. Counted(d, 0)
    BY <1>3, <1>4, <1>5 DEF Ready, Counted
  <1>7. OpenLeft(c) \in SUBSET DOMAIN c.copy
    BY DEF OpenLeft, Ready
  <1>8. ScanSound(d, stored)
    BY <1>2, <1>3, <1>6, <1>7 DEF Ready, ScanSound
  <1> QED BY <1>1, <1>3, <1>8 DEF CoordSound

(* A call that goes on is sound.                                            *)
LEMMA ProceedSound ==
  ASSUME NEW c, NEW stored, NEW mine, Ready(c, stored)
  PROVE  CoordSound(Proceed(c), stored, mine)
  <1>1. CASE c.recovering /\ ClaimedLeft(c) # {} /\ Proceed(c) = [c EXCEPT !.left = ClaimedLeft(c)]
    <2>1. PICK d : d = [c EXCEPT !.left = ClaimedLeft(c)]
      OBVIOUS
    <2>2. d = [pc |-> "working", copy |-> c.copy, left |-> ClaimedLeft(c), found |-> c.found,
               recovering |-> c.recovering, available |-> c.available]
      BY <2>1 DEF Ready
    <2>3. /\ d.copy = c.copy /\ d.left = ClaimedLeft(c) /\ d.found = c.found
          /\ d.recovering = c.recovering /\ d.available = c.available /\ d.pc = "working"
      BY <2>2
    <2>4. ClaimedLeft(c) \in SUBSET DOMAIN c.copy
          /\ \A n \in ClaimedLeft(c) : c.copy[n].status = "claimed"
      BY DEF ClaimedLeft, Ready
    <2>5. ScanSound(d, stored)
      BY <1>1, <2>2, <2>3, <2>4 DEF Ready, ScanSound
    <2> QED BY <1>1, <2>1, <2>3, <2>5 DEF CoordSound
  <1>2. CASE /\ ScanOf(c).available > 0 /\ OpenLeft(ScanOf(c)) # {}
             /\ Proceed(c) = [ScanOf(c) EXCEPT !.left = OpenLeft(ScanOf(c))]
    BY <1>2, ScanStarts, ScanGoesOn
  <1> QED BY <1>1, <1>2, ProceedForms, IdleSound

(* So is one that has observed a child: its page has left the scan, and a    *)
(* terminal one has given its place back.                                   *)
LEMMA ObservedSound ==
  ASSUME NEW c, NEW stored, NEW mine, Saw(c, stored)
  PROVE  CoordSound(Observed(c), stored, mine)
  <1> DEFINE n == Min(c.left)
             given == IF ~c.recovering /\ c.copy[n].status = "terminal" THEN 1 ELSE 0
  <1>1. PICK d : d = [c EXCEPT !.pc = "working", !.left = @ \ {n}, !.available = @ + given]
    OBVIOUS
  <1>2. d = [pc |-> "working", copy |-> c.copy, left |-> c.left \ {n}, found |-> c.found,
             recovering |-> c.recovering, available |-> c.available + given]
    BY <1>1 DEF Saw
  <1>3. /\ d.copy = c.copy /\ d.left = c.left \ {n} /\ d.found = c.found
        /\ d.recovering = c.recovering /\ d.available = c.available + given /\ d.pc = "working"
    BY <1>2
  <1>4. Observed(c) = Proceed(d)
    BY <1>1 DEF Observed
  <1>5. c.copy \in Checkpoints /\ given \in {0, 1} /\ Concurrency \in Nat /\ c.available \in Int
    BY LessonAssumption DEF Saw, Lawful
  <1>6. ASSUME ~c.recovering PROVE Counted(d, 0)
    <2>0. Counted(c, 1)
      BY <1>6 DEF Saw
    <2>1. ASSUME NEW m \in DOMAIN c.copy \ (c.left \ {n})
          PROVE  Rank(c.copy[m].status) >= Rank("claimed")
      <3>1. m = n => Rank(c.copy[m].status) >= Rank("claimed")
        BY RankValues DEF Saw
      <3> QED BY <2>0, <2>1, <3>1 DEF Counted
    <2>2. PICK K : K = Cardinality(Claimed(c.copy) \ c.left)
      OBVIOUS
    <2>3. PICK L : L = Cardinality(Claimed(c.copy) \ (c.left \ {n}))
      OBVIOUS
    <2>4. K \in Nat /\ L \in Nat
      BY <1>5, <2>2, <2>3, ClaimedFinite
    <2>5. c.available + K + 1 <= Concurrency
      BY <2>0, <2>2 DEF Counted
    <2>6. L + given <= K + 1
      <3>1. CASE c.copy[n].status = "terminal"
        <4>1. Claimed(c.copy) \ (c.left \ {n}) = Claimed(c.copy) \ c.left
          BY <3>1 DEF Claimed
        <4> QED BY <1>5, <2>2, <2>3, <2>4, <4>1
      <3>2. CASE c.copy[n].status = "claimed"
        <4>1. (Claimed(c.copy) \ (c.left \ {n})) \subseteq ((Claimed(c.copy) \ c.left) \union {n})
          OBVIOUS
        <4>2. IsFiniteSet(Claimed(c.copy) \ c.left)
          BY <1>5, ClaimedFinite
        <4>3. /\ IsFiniteSet((Claimed(c.copy) \ c.left) \union {n})
              /\ Cardinality((Claimed(c.copy) \ c.left) \union {n}) <= K + 1
              /\ Cardinality((Claimed(c.copy) \ c.left) \union {n}) \in Nat
          BY <2>2, <4>2, OneMore, FS_AddElement
        <4>4. L <= Cardinality((Claimed(c.copy) \ c.left) \union {n})
          BY <2>3, <4>1, <4>3, FS_Subset
        <4>5. given = 0
          BY <3>2
        <4> HIDE DEF given
        <4> QED BY <2>4, <4>3, <4>4, <4>5
      <3> QED BY <3>1, <3>2 DEF Saw
    <2> HIDE DEF given
    <2>7. (c.available + given) + L + 0 <= Concurrency
      BY <1>5, <2>4, <2>5, <2>6
    <2> QED BY <1>3, <2>1, <2>3, <2>7 DEF Counted
  <1>7. d.left \in SUBSET DOMAIN d.copy /\ d.available \in Int
    BY <1>3, <1>5 DEF Saw
  <1>8. Ready(d, stored)
    BY <1>2, <1>3, <1>6, <1>7 DEF Saw, Ready
  <1> QED BY <1>4, <1>8, ProceedSound

-----------------------------------------------------------------------------
(* Writing a page.                                                          *)

(* What a coordinator makes of a page.                                      *)
NextPage(old, new) ==
    \/ old.status = "pending" /\ new = Page("resolving", None, None)
    \/ old.status = "resolving" /\ \E w \in Wrappers : new = PreparedPage(w)
    \/ old.status = "prepared" /\ new = [old EXCEPT !.status = "claimed"]
    \/ /\ old.status = "claimed"
       /\ \E r \in [ok : BOOLEAN, cards : Outputs \union {{}}] :
             new = [old EXCEPT !.status = "terminal", !.receipt = r]

(* The next page is one, further on, and keeps the wrapper it has.          *)
LEMMA NextPageForm ==
  ASSUME NEW old, NEW new, NextPage(old, new),
         old \in [status : PageStatuses, wrapper : Wrappers \union {None},
                  receipt : {None} \union [ok : BOOLEAN, cards : Outputs \union {{}}]],
         IF old.status \in {"pending", "resolving"}
         THEN old.wrapper = None ELSE old.wrapper \in Wrappers
  PROVE  /\ new \in [status : PageStatuses, wrapper : Wrappers \union {None},
                     receipt : {None} \union [ok : BOOLEAN, cards : Outputs \union {{}}]]
         /\ IF new.status \in {"pending", "resolving"}
            THEN new.wrapper = None ELSE new.wrapper \in Wrappers
         /\ Rank(new.status) > Rank(old.status)
         /\ old.status \notin {"pending", "resolving"} => new.wrapper = old.wrapper
         /\ new.status # "pending"
         /\ new.status = "claimed" => old.status = "prepared"
  <1> DEFINE P == [status : PageStatuses, wrapper : Wrappers \union {None},
                   receipt : {None} \union [ok : BOOLEAN, cards : Outputs \union {{}}]]
             Goal == /\ new \in P
                     /\ IF new.status \in {"pending", "resolving"}
                        THEN new.wrapper = None ELSE new.wrapper \in Wrappers
                     /\ Rank(new.status) > Rank(old.status)
                     /\ old.status \notin {"pending", "resolving"} => new.wrapper = old.wrapper
                     /\ new.status # "pending"
                     /\ new.status = "claimed" => old.status = "prepared"
  <1>1. CASE old.status = "pending" /\ new = Page("resolving", None, None)
    <2>1. new \in P /\ new.status = "resolving" /\ new.wrapper = None
      BY <1>1 DEF Page, PageStatuses
    <2> QED BY <1>1, <2>1, RankValues
  <1>2. ASSUME old.status = "resolving", NEW w \in Wrappers, new = PreparedPage(w) PROVE Goal
    <2>1. new \in P /\ new.status = "prepared" /\ new.wrapper = w
      BY <1>2 DEF Page, PreparedPage, PageStatuses
    <2> QED BY <1>2, <2>1, RankValues
  <1>3. CASE old.status = "prepared" /\ new = [old EXCEPT !.status = "claimed"]
    <2>1. new \in P /\ new.status = "claimed" /\ new.wrapper = old.wrapper
      BY <1>3 DEF PageStatuses
    <2>2. old.wrapper \in Wrappers
      BY <1>3
    <2> QED BY <1>3, <2>1, <2>2, RankValues
  <1>4. ASSUME old.status = "claimed", NEW r \in [ok : BOOLEAN, cards : Outputs \union {{}}],
               new = [old EXCEPT !.status = "terminal", !.receipt = r]
        PROVE  Goal
    <2>1. new \in P /\ new.status = "terminal" /\ new.wrapper = old.wrapper
      BY <1>4 DEF PageStatuses
    <2>2. old.wrapper \in Wrappers
      BY <1>4
    <2> QED BY <1>4, <2>1, <2>2, RankValues
  <1> QED BY <1>1, <1>2, <1>3, <1>4 DEF NextPage

(* The wanted checkpoint is lawful: the pages before the one that is written *)
(* have their children, and a page is claimed only while a place is free.    *)
LEMMA WantedLawful ==
  ASSUME NEW cp, Lawful(cp), NEW n \in DOMAIN cp, NEW page, NextPage(cp[n], page),
         \A m \in DOMAIN cp : m < n => Rank(cp[m].status) >= Rank("claimed"),
         cp[n].status = "prepared" => Cardinality(Claimed(cp)) + 1 <= Concurrency
  PROVE  Lawful([cp EXCEPT ![n] = page]) /\ Reaches(cp, [cp EXCEPT ![n] = page])
  <1>1. cp \in Checkpoints
    BY DEF Lawful
  <1>2. PICK b : b = [cp EXCEPT ![n] = page]
    OBVIOUS
  <1>3. /\ DOMAIN b = DOMAIN cp /\ b[n] = page
        /\ \A m \in DOMAIN cp : m # n => b[m] = cp[m]
    BY <1>2
  <1>4. /\ page \in [status : PageStatuses, wrapper : Wrappers \union {None},
                     receipt : {None} \union [ok : BOOLEAN, cards : Outputs \union {{}}]]
        /\ IF page.status \in {"pending", "resolving"}
           THEN page.wrapper = None ELSE page.wrapper \in Wrappers
        /\ Rank(page.status) > Rank(cp[n].status)
        /\ cp[n].status \notin {"pending", "resolving"} => page.wrapper = cp[n].wrapper
        /\ page.status # "pending"
        /\ page.status = "claimed" => cp[n].status = "prepared"
    <2>1. cp[n] \in [status : PageStatuses, wrapper : Wrappers \union {None},
                     receipt : {None} \union [ok : BOOLEAN, cards : Outputs \union {{}}]]
      BY <1>1, CheckpointForm
    <2>2. IF cp[n].status \in {"pending", "resolving"}
          THEN cp[n].wrapper = None ELSE cp[n].wrapper \in Wrappers
      BY DEF Lawful
    <2> QED BY <2>1, <2>2, NextPageForm
  <1>5. b \in Checkpoints
    <2> DEFINE P == [status : PageStatuses, wrapper : Wrappers \union {None},
                     receipt : {None} \union [ok : BOOLEAN, cards : Outputs \union {{}}]]
    <2>1. PICK k \in 0..MaxPages : cp \in [1..k -> P]
      BY <1>1 DEF Checkpoints
    <2>2. page \in P
      BY <1>4
    <2> HIDE DEF P
    <2>3. b \in [1..k -> P]
      BY <1>2, <2>1, <2>2
    <2> QED BY <2>3 DEF Checkpoints, P
  <1>6. Reaches(cp, b)
    BY <1>3, <1>4 DEF Reaches
  <1>7. \A m \in DOMAIN cp : Rank(b[m].status) >= Rank(cp[m].status)
                             /\ Rank(b[m].status) \in Nat /\ Rank(cp[m].status) \in Nat
    BY <1>1, <1>5, <1>6, ReachesRank
  <1>8. Ordered(b)
    <2> SUFFICES ASSUME NEW l \in DOMAIN b, NEW m \in DOMAIN b, l < m, b[m].status # "pending"
                 PROVE  Rank(b[l].status) >= Rank("claimed")
      BY DEF Ordered
    <2>1. Rank(cp[l].status) >= Rank("claimed")
      <3>1. CASE m = n
        BY <1>3, <3>1
      <3>2. CASE m # n
        BY <1>3, <3>2 DEF Lawful, Ordered
      <3> QED BY <3>1, <3>2
    <2>2. Rank("claimed") = 4
      BY RankValues
    <2> QED BY <1>3, <1>7, <2>1, <2>2
  <1>9. Cardinality(Claimed(b)) <= Concurrency
    <2>1. Claimed(b) \subseteq Claimed(cp) \union {n}
      BY <1>3 DEF Claimed
    <2>2. page.status # "claimed" => Claimed(b) \subseteq Claimed(cp)
      BY <1>3 DEF Claimed
    <2>3. /\ IsFiniteSet(Claimed(cp)) /\ Cardinality(Claimed(cp)) \in Nat
          /\ Cardinality(Claimed(b)) \in Nat /\ Concurrency \in Nat
      BY <1>1, <1>5, ClaimedFinite, LessonAssumption
    <2>4. /\ IsFiniteSet(Claimed(cp) \union {n})
          /\ Cardinality(Claimed(cp) \union {n}) <= Cardinality(Claimed(cp)) + 1
          /\ Cardinality(Claimed(cp) \union {n}) \in Nat
      BY <2>3, OneMore, FS_AddElement
    <2>5. Cardinality(Claimed(cp)) <= Concurrency
      BY DEF Lawful
    <2>6. CASE page.status = "claimed"
      <3>1. Cardinality(Claimed(b)) <= Cardinality(Claimed(cp) \union {n})
        BY <2>1, <2>4, FS_Subset
      <3>2. Cardinality(Claimed(cp)) + 1 <= Concurrency
        BY <1>4, <2>6
      <3> QED BY <2>3, <2>4, <3>1, <3>2
    <2>7. CASE page.status # "claimed"
      <3>1. Cardinality(Claimed(b)) <= Cardinality(Claimed(cp))
        BY <2>2, <2>3, <2>7, FS_Subset
      <3> QED BY <2>3, <2>5, <3>1
    <2> QED BY <2>6, <2>7
  <1>10. \A m \in DOMAIN b : IF b[m].status \in {"pending", "resolving"}
                             THEN b[m].wrapper = None ELSE b[m].wrapper \in Wrappers
    <2>1. \A m \in DOMAIN cp : IF cp[m].status \in {"pending", "resolving"}
                               THEN cp[m].wrapper = None ELSE cp[m].wrapper \in Wrappers
      BY DEF Lawful
    <2> QED BY <1>3, <1>4, <2>1
  <1> QED BY <1>2, <1>5, <1>6, <1>8, <1>9, <1>10 DEF Lawful

(* A call that takes a later checkpoint as its copy has counted it: beyond   *)
(* the pages it has left, no page can be claimed that was not before.        *)
LEMMA CountedStays ==
  ASSUME NEW c, NEW d, NEW places, Counted(c, places), places \in Nat, c.available \in Int,
         d.left = c.left, d.available = c.available,
         c.copy \in Checkpoints, d.copy \in Checkpoints, Reaches(c.copy, d.copy)
  PROVE  Counted(d, places)
  <1>1. DOMAIN d.copy = DOMAIN c.copy
    BY DEF Reaches
  <1>2. ASSUME NEW n \in DOMAIN c.copy \ c.left
        PROVE  /\ c.copy[n].status \in {"claimed", "terminal"}
               /\ Rank(d.copy[n].status) >= Rank("claimed")
               /\ d.copy[n].status = "claimed" => c.copy[n].status = "claimed"
    <2>1. Rank(c.copy[n].status) >= Rank("claimed")
      BY <1>2 DEF Counted
    <2>2. c.copy[n].status \in PageStatuses /\ d.copy[n].status \in PageStatuses
      BY <1>1, <1>2, CheckpointForm
    <2>3. c.copy[n].status \in {"claimed", "terminal"}
      BY <2>1, <2>2, RankOrder
    <2>4. /\ d.copy[n].status \in {"claimed", "terminal"}
          /\ d.copy[n].status = "claimed" => d.copy[n] = c.copy[n]
      BY <1>2, <2>3, ReachesRank
    <2> QED BY <2>2, <2>3, <2>4, RankOrder
  <1>3. (Claimed(d.copy) \ c.left) \subseteq (Claimed(c.copy) \ c.left)
    BY <1>1, <1>2 DEF Claimed
  <1>4. PICK K : K = Cardinality(Claimed(c.copy) \ c.left)
    OBVIOUS
  <1>5. PICK L : L = Cardinality(Claimed(d.copy) \ c.left)
    OBVIOUS
  <1>6. K \in Nat /\ L \in Nat /\ L <= K /\ Concurrency \in Nat
    BY <1>3, <1>4, <1>5, ClaimedFinite, FS_Subset, LessonAssumption
  <1>7. c.available + K + places <= Concurrency
    BY <1>4 DEF Counted
  <1>8. c.available + L + places <= Concurrency
    BY <1>6, <1>7
  <1> QED BY <1>1, <1>2, <1>5, <1>8 DEF Counted

(* A call that has the stored checkpoint as its copy goes on.               *)
LEMMA GoOnSound ==
  ASSUME NEW c, NEW stored, NEW b, NEW mine, NEW other,
         c.pc \in {"working", "observing"}, CoordSound(c, stored, mine),
         b # None, Lawful(b), Reaches(c.copy, b)
  PROVE  CoordSound(GoOn([c EXCEPT !.copy = b]), b, other)
  <1>1. PICK d : d = [c EXCEPT !.copy = b]
    OBVIOUS
  <1>2. ScanSound(c, stored)
    BY DEF CoordSound
  <1>3. d = [pc |-> c.pc, copy |-> b, left |-> c.left, found |-> c.found,
             recovering |-> c.recovering, available |-> c.available]
    BY <1>1, <1>2 DEF ScanSound
  <1>4. /\ d.pc = c.pc /\ d.copy = b /\ d.left = c.left /\ d.found = c.found
        /\ d.recovering = c.recovering /\ d.available = c.available
    BY <1>3
  <1>5. b \in Checkpoints /\ c.copy \in Checkpoints /\ DOMAIN b = DOMAIN c.copy
    BY <1>2 DEF ScanSound, Lawful, Reaches
  <1>6. ASSUME NEW n, n \in c.found
        PROVE  n \in DOMAIN b /\ Rank(b[n].status) >= Rank("claimed")
    <2>1. n \in DOMAIN c.copy /\ Rank(c.copy[n].status) >= Rank("claimed")
      BY <1>2, <1>6 DEF ScanSound
    <2>2. /\ n \in DOMAIN b /\ Rank(b[n].status) >= Rank(c.copy[n].status)
          /\ Rank(b[n].status) \in Nat /\ Rank(c.copy[n].status) \in Nat
      BY <1>5, <2>1, ReachesRank
    <2>3. Rank("claimed") = 4
      BY RankValues
    <2> QED BY <2>1, <2>2, <2>3
  <1>7. c.left \in SUBSET DOMAIN b /\ c.left # {} /\ c.recovering \in BOOLEAN /\ c.available \in Int
    BY <1>2, <1>5 DEF ScanSound
  <1>8. Reaches(b, b)
    BY ReachesItself
  <1>9. CASE c.pc = "working"
    <2>1. ~c.recovering => Counted(d, 0)
      BY <1>2, <1>4, <1>5, <1>7, <1>9, CountedStays DEF ScanSound
    <2>2. Ready(d, b)
      BY <1>3, <1>4, <1>6, <1>7, <1>8, <1>9, <2>1 DEF Ready
    <2>3. GoOn(d) = Proceed(d)
      BY <1>4, <1>9 DEF GoOn
    <2> QED BY <1>1, <2>2, <2>3, ProceedSound
  <1>10. CASE c.pc = "observing"
    <2>1. ObservingSound(c, mine)
      BY <1>10 DEF CoordSound
    <2>2. ~c.recovering => Counted(d, 1)
      BY <1>4, <1>5, <1>7, <2>1, CountedStays DEF ObservingSound
    <2>3. b[Min(c.left)].status \in {"claimed", "terminal"}
      <3>1. c.left \in SUBSET Nat
        BY <1>5, <1>7, PositionsFinite
      <3>2. Min(c.left) \in DOMAIN c.copy
        BY <1>5, <1>7, <3>1, FirstPosition
      <3>3. c.copy[Min(c.left)].status = "claimed"
        BY <2>1 DEF ObservingSound
      <3> QED BY <1>5, <3>2, <3>3, ReachesRank
    <2>4. Saw(d, b)
      BY <1>3, <1>4, <1>6, <1>7, <1>8, <1>10, <2>2, <2>3 DEF Saw
    <2>5. GoOn(d) = Observed(d)
      BY <1>4, <1>10 DEF GoOn
    <2> QED BY <1>1, <2>4, <2>5, ObservedSound
  <1> QED BY <1>9, <1>10

-----------------------------------------------------------------------------
(* The page of a call that scans is the first it has left, and every page    *)
(* before it has its child; a page is claimed only while a place is free.    *)
LEMMA FirstIsNext ==
  ASSUME NEW c, NEW stored, NEW mine, c.pc \in {"working", "observing"},
         CoordSound(c, stored, mine)
  PROVE  /\ Min(c.left) \in DOMAIN c.copy /\ Min(c.left) \in c.left
         /\ \A m \in DOMAIN c.copy : m < Min(c.left) => Rank(c.copy[m].status) >= Rank("claimed")
         /\ c.copy[Min(c.left)].status = "prepared" =>
               Cardinality(Claimed(c.copy)) + 1 <= Concurrency
         /\ c.pc = "observing" => c.copy[Min(c.left)].status = "claimed"
  <1> DEFINE n == Min(c.left)
             cp == c.copy
  <1>1. ScanSound(c, stored) /\ (c.pc = "observing" => ObservingSound(c, mine))
    BY DEF CoordSound
  <1>2. cp \in Checkpoints /\ Ordered(cp) /\ c.left \in SUBSET DOMAIN cp /\ c.left # {}
    BY <1>1 DEF ScanSound, Lawful
  <1>3. DOMAIN cp \in SUBSET Nat
    BY <1>2, PositionsFinite
  <1>4. n \in c.left /\ n \in DOMAIN cp /\ \A m \in c.left : n <= m
    BY <1>2, <1>3, FirstPosition
  <1>5. c.pc = "observing" => cp[n].status = "claimed"
    BY <1>1 DEF ObservingSound
  <1>6. c.recovering => cp[n].status = "claimed"
    BY <1>1, <1>4 DEF ScanSound
  <1>7. c.pc = "working" /\ ~c.recovering => c.available > 0 /\ Counted(c, 0)
    BY <1>1 DEF ScanSound
  <1>8. ASSUME NEW m \in DOMAIN cp, m < n PROVE Rank(cp[m].status) >= Rank("claimed")
    <2>1. CASE cp[n].status # "pending"
      BY <1>2, <1>4, <1>8, <2>1 DEF Ordered
    <2>2. CASE cp[n].status = "pending"
      <3>1. Counted(c, 0)
        BY <1>5, <1>6, <1>7, <2>2
      <3>2. m \notin c.left
        BY <1>3, <1>4, <1>8
      <3> QED BY <3>1, <3>2 DEF Counted
    <2> QED BY <2>1, <2>2
  <1>9. ASSUME cp[n].status = "prepared" PROVE Cardinality(Claimed(cp)) + 1 <= Concurrency
    <2>1. c.available > 0 /\ Counted(c, 0) /\ c.available \in Int
      BY <1>1, <1>5, <1>6, <1>7, <1>9 DEF ScanSound
    <2>2. ASSUME NEW m \in Claimed(cp) PROVE m \notin c.left
      <3>1. m \in DOMAIN cp /\ cp[m].status = "claimed"
        BY DEF Claimed
      <3>2. SUFFICES ASSUME m \in c.left PROVE FALSE
        OBVIOUS
      <3>3. n < m
        BY <1>3, <1>4, <1>9, <3>1, <3>2
      <3>4. Rank(cp[n].status) >= Rank("claimed")
        BY <1>2, <1>4, <3>1, <3>3 DEF Ordered
      <3> QED BY <1>9, <3>4, RankValues
    <2>3. Claimed(cp) \ c.left = Claimed(cp)
      BY <2>2
    <2>4. PICK K : K = Cardinality(Claimed(cp))
      OBVIOUS
    <2>5. K \in Nat /\ Concurrency \in Nat
      BY <1>2, <2>4, ClaimedFinite, LessonAssumption
    <2>6. c.available + K + 0 <= Concurrency
      BY <2>1, <2>3, <2>4 DEF Counted
    <2>7. K + 1 <= Concurrency
      BY <2>1, <2>5, <2>6
    <2> QED BY <2>4, <2>7
  <1> QED BY <1>4, <1>5, <1>8, <1>9

(* A page is written: the stored checkpoint moves on to a lawful one, or     *)
(* stays, and the call goes on with what is stored, or ends.                *)
LEMMA ReplaceSteps ==
  ASSUME PagesSound, CoordsSound, NEW p \in Procs, coord[p].pc \in {"working", "observing"},
         NEW page, NextPage(Current(p), page), _replace_page(p, page), NEW mine
  PROVE  /\ pages # None /\ pages' # None /\ Lawful(pages) /\ Lawful(pages')
         /\ Reaches(pages, pages')
         /\ \/ pages' = pages
            \/ /\ pages = coord[p].copy /\ Position(p) \in DOMAIN pages
               /\ pages' = [pages EXCEPT ![Position(p)] = page]
         /\ coord' = [q \in Procs |-> coord'[q]]
         /\ \A q \in Procs : q # p => coord'[q] = coord[q]
         /\ CoordSound(coord'[p], pages', mine)
  <1> DEFINE n == Position(p)
  <1>1. PICK c : c = coord[p]
    OBVIOUS
  <1>2. /\ CoordSound(c, pages, call[p]) /\ c.pc \in {"working", "observing"}
        /\ ScanSound(c, pages)
    BY <1>1 DEF CoordsSound, CoordSound
  <1>3. /\ n = Min(c.left) /\ n \in DOMAIN c.copy /\ Current(p) = c.copy[n]
        /\ \A m \in DOMAIN c.copy : m < n => Rank(c.copy[m].status) >= Rank("claimed")
        /\ c.copy[n].status = "prepared" => Cardinality(Claimed(c.copy)) + 1 <= Concurrency
    BY <1>1, <1>2, FirstIsNext DEF Position, Current
  <1>4. /\ pages # None /\ Lawful(pages) /\ Lawful(c.copy) /\ Reaches(c.copy, pages)
    BY <1>2 DEF ScanSound, PagesSound
  <1>5. PICK wanted : wanted = [c.copy EXCEPT ![n] = page]
    OBVIOUS
  <1>6. Lawful(wanted) /\ Reaches(c.copy, wanted)
    BY <1>3, <1>4, <1>5, WantedLawful
  <1>7. \/ pages = c.copy /\ pages' = wanted
        \/ pages' = pages
    BY <1>1, <1>5 DEF _replace_page
  <1>8. /\ Lawful(pages') /\ Reaches(pages, pages') /\ Reaches(c.copy, pages')
    BY <1>4, <1>6, <1>7, ReachesItself
  <1>9. pages' # None
    BY <1>8, LessonAssumption DEF Lawful
  <1>10. PICK x : /\ coord' = [coord EXCEPT ![p] = x]
                  /\ x = GoOn([c EXCEPT !.copy = pages']) \/ x = Idle
    BY <1>1 DEF _replace_page, CoordGoto
  <1>11. /\ coord' = [q \in Procs |-> coord'[q]] /\ coord'[p] = x
         /\ \A q \in Procs : q # p => coord'[q] = coord[q]
    BY <1>10 DEF CoordsSound
  <1>12. PICK b : b = pages'
    OBVIOUS
  <1>13. CoordSound(x, b, mine)
    <2>1. b # None /\ Lawful(b) /\ Reaches(c.copy, b)
      BY <1>8, <1>9, <1>12
    <2>2. x = GoOn([c EXCEPT !.copy = b]) \/ x = Idle
      BY <1>10, <1>12
    <2> QED BY <1>2, <2>1, <2>2, GoOnSound, IdleSound
  <1>14. \/ pages' = pages
         \/ pages = c.copy /\ n \in DOMAIN pages /\ pages' = [pages EXCEPT ![n] = page]
    BY <1>3, <1>5, <1>7
  <1> QED BY <1>1, <1>4, <1>8, <1>9, <1>11, <1>12, <1>13, <1>14

(* The checkpoint has moved on, or it has not started.                      *)
PagesMoved ==
    /\ pages # None => pages' # None /\ Reaches(pages, pages')
    /\ pages' # None => Lawful(pages')

(* A lesson under review is over, and its checkpoint stays.                 *)
LEMMA ReviewedIsOver ==
  ASSUME NEW a, Lawful(a), Reviewable(a), NEW b, Lawful(b), Reaches(a, b)
  PROVE  b = a
  BY OverIsOver DEF Reviewable, review_page, Lawful

(* The calls that do not step stay sound.                                   *)
LEMMA OthersStaySound ==
  ASSUME PagesSound, CoordsSound, PagesMoved, NEW q \in Procs,
         coord'[q] = coord[q], NEW mine, mine = call[q]
  PROVE  CoordSound(coord'[q], pages', mine)
  <1>1. PICK c : c = coord[q]
    OBVIOUS
  <1>2. CoordSound(c, pages, mine)
    BY <1>1 DEF CoordsSound
  <1>3. ASSUME ScanSound(c, pages) PROVE ScanSound(c, pages')
    <2>1. /\ pages # None /\ Lawful(pages) /\ Lawful(c.copy) /\ Reaches(c.copy, pages)
          /\ pages' # None /\ Lawful(pages') /\ Reaches(pages, pages')
      BY <1>3 DEF ScanSound, PagesSound, PagesMoved
    <2>2. Reaches(c.copy, pages')
      BY <2>1, ReachesOn DEF Lawful
    <2> QED BY <1>3, <2>1, <2>2 DEF ScanSound
  <1>4. ASSUME PublishingSound(c, pages) PROVE PublishingSound(c, pages')
    <2>1. pages' = pages
      BY <1>4, ReviewedIsOver DEF PublishingSound, PagesSound, PagesMoved
    <2> QED BY <1>4, <2>1 DEF PublishingSound
  <1>5. CoordSound(c, pages', mine)
    BY <1>2, <1>3, <1>4 DEF CoordSound
  <1> QED BY <1>1, <1>5

(* Published owners stay what they are.                                     *)
LEMMA OwnersStaySound ==
  ASSUME PagesSound, OwnersSound, PagesMoved, UNCHANGED owners
  PROVE  OwnersSound'
  <1>1. ASSUME NEW n \in Positions, owners[n] # None
        PROVE  /\ pages' # None /\ n \in DOMAIN pages' /\ owners[n].lesson = pages'
               /\ Reviewable(pages')
    <2>1. pages # None /\ n \in DOMAIN pages /\ owners[n].lesson = pages /\ Reviewable(pages)
      BY <1>1 DEF OwnersSound
    <2>2. pages' = pages
      BY <2>1, ReviewedIsOver DEF PagesSound, PagesMoved
    <2> QED BY <2>1, <2>2
  <1> QED BY <1>1 DEF OwnersSound

-----------------------------------------------------------------------------
(* The children: each action of the service that a lesson reaches.          *)

(* Process p goes on with a call for task t that serves a pending row.      *)
Serving(p, t) ==
    \E next : /\ Goto(p, next)
              /\ next.pc \in Inside \union {"returned"} /\ next.task = t
              /\ Serves(next, worker')

(* The call of p serves a pending row of its task.                          *)
LEMMA ServedRow ==
  ASSUME WorkersInv, ServiceInv, NEW p \in Procs, call[p].pc \in Inside
  PROVE  /\ call[p].task \in Tasks /\ call[p].row = Pending
         /\ call[p] \in [pc : Inside, task : Tasks, row : Rows, seen : Sights]
         /\ call[p].pc \in {"starting", "creating", "driving", "inspecting", "proving",
                           "persisting"}
         /\ call[p].pc \in {"proving", "persisting"} =>
               /\ call[p].seen.status \in {"suspended"} \union Terminal
               /\ call[p].seen.status = "suspended" =>
                     call[p].seen.dialogue = 1 /\ 1 <= Dialogues
  BY InsideCall DEF WorkersInv, ServiceInv, CallsServe, Serves

(* Every call still serves its row: a completed row stays completed.        *)
LEMMA CallsStillServe ==
  ASSUME WorkersInv, ServiceInv, RowsForward, NEW p \in Procs, NEW t, Serving(p, t)
  PROVE  /\ CallsServe' /\ \A q \in Procs : q # p => call'[q] = call[q]
         /\ call'[p].task = t /\ call'[p].pc \in Inside \union {"returned"}
  <1>1. PICK next : /\ Goto(p, next) /\ next.pc \in Inside \union {"returned"}
                    /\ next.task = t /\ Serves(next, worker')
    BY DEF Serving
  <1>2. call'[p] = next /\ \A q \in Procs : q # p => call'[q] = call[q]
    BY <1>1 DEF Goto, WorkersInv, Typed
  <1>3. ASSUME NEW q \in Procs, q # p PROVE Serves(call[q], worker')
    <2>1. Serves(call[q], worker)
      BY DEF ServiceInv, CallsServe
    <2>2. ASSUME call[q].pc = "returned", call[q].view = "completed"
          PROVE  worker'[call[q].task].status = "completed"
      <3>1. call[q].task \in Tasks
        BY <2>2 DEF WorkersInv, Typed, Calls, Inside, Idle
      <3>2. worker[call[q].task].status = "completed"
        BY <2>1, <2>2 DEF Serves
      <3> QED BY <3>1, <3>2 DEF RowsForward, Terminal
    <2> QED BY <2>1, <2>2 DEF Serves
  <1> QED BY <1>1, <1>2, <1>3 DEF CallsServe

(* A call that returns without a completion, or with a real one.            *)
LEMMA ReturnServes ==
  ASSUME NEW p \in Procs, NEW t, NEW view, Goto(p, Returned(t, view)),
         view = "completed" => worker'[t].status = "completed"
  PROVE  Serving(p, t)
  BY DEF Serving, Serves, Returned, Inside

(* A call that has seen an end of its child, or its dialogue.               *)
LEMMA SightServes ==
  ASSUME WorkersInv, ServiceInv, NEW p \in Procs, call[p].pc \in Inside,
         NEW pc, pc \in {"proving", "persisting"}, NEW status, NEW dialogue, NEW output,
         Seen(p, pc, status, dialogue, output), status \in {"suspended"} \union Terminal,
         status = "suspended" => dialogue = 1 /\ 1 <= Dialogues
  PROVE  Serving(p, call[p].task)
  <1> DEFINE next == Calling(pc, call[p].task, call[p].row, Observation(status, dialogue, output))
  <1>1. /\ next.pc = pc /\ next.task = call[p].task /\ next.row = Pending
        /\ next.seen.status = status /\ next.seen.dialogue = dialogue
    BY ServedRow DEF Calling, Observation
  <1>2. Goto(p, next)
    BY DEF Seen
  <1> HIDE DEF next
  <1> QED BY <1>1, <1>2 DEF Serving, Serves, Inside

(* A call that only changes its phase.                                      *)
LEMMA PhaseServes ==
  ASSUME WorkersInv, ServiceInv, NEW p \in Procs, call[p].pc \in Inside,
         NEW pc, pc \in {"creating", "driving", "inspecting"}, Goto(p, [call[p] EXCEPT !.pc = pc])
  PROVE  Serving(p, call[p].task)
  <1> DEFINE next == [call[p] EXCEPT !.pc = pc]
  <1>1. next.pc = pc /\ next.task = call[p].task /\ next.row = Pending
    BY ServedRow
  <1> HIDE DEF next
  <1>2. Goto(p, next)
    BY DEF next
  <1> QED BY <1>1, <1>2 DEF Serving, Serves, Inside

(* The adapter's observation.                                               *)
LEMMA ObservationServes ==
  ASSUME WorkersInv, ServiceInv, NEW p \in Procs, call[p].pc \in Inside,
         _observe(p, child[call[p].task])
  PROVE  Serving(p, call[p].task)
  <1> DEFINE t == call[p].task
             c == child[t]
  <1>1. t \in Tasks /\ c.answers = <<>> /\ (c.status = "suspended" => 1 <= Dialogues)
    BY ServedRow DEF ServiceInv, ChildrenSilent
  <1>2. CASE Goto(p, Returned(t, "running"))
    BY <1>2, ReturnServes
  <1>3. CASE c.status = "suspended" /\ Seen(p, "persisting", "suspended", Len(c.answers) + 1, None)
    <2>1. Len(c.answers) + 1 = 1
      BY <1>1, EmptySeq
    <2> QED BY <1>1, <1>3, <2>1, SightServes
  <1>4. CASE Seen(p, "proving", "completed", 0, c.output)
    BY <1>4, SightServes DEF Terminal
  <1>5. CASE Seen(p, "persisting", "failed", 0, None)
    BY <1>5, SightServes DEF Terminal
  <1>6. CASE c.status \in Failures /\ Seen(p, "persisting", c.status, 0, None)
    <2>1. c.status \in Terminal /\ c.status # "suspended"
      BY <1>6, WorkersAssumption DEF Terminal
    <2> QED BY <1>6, <2>1, SightServes
  <1> QED BY <1>2, <1>3, <1>4, <1>5, <1>6 DEF _observe

(* What a step of the service does besides: the rows and the children stay   *)
(* unanswered, and no row is created.                                       *)
Quiet == RowsUnanswered' /\ ChildrenSilent'
            /\ \A u \in Tasks : worker[u] = Absent => worker'[u] = Absent

Served(p) == Serving(p, call[p].task) /\ Quiet

(* Nothing but the call changes.                                            *)
LEMMA NothingServed ==
  ASSUME ServiceInv, UNCHANGED <<worker, child>> PROVE Quiet
  BY DEF Quiet, ServiceInv, RowsUnanswered, ChildrenSilent

(* A child changes, and its answers do not.                                 *)
LEMMA ChildStaysSilent ==
  ASSUME WorkersInv, ServiceInv, UNCHANGED worker, NEW t \in Tasks, NEW c,
         child' = [child EXCEPT ![t] = c], c.answers = <<>>,
         c.status = "suspended" => 1 <= Dialogues
  PROVE  Quiet
  <1>1. child'[t] = c /\ \A u \in Tasks : u # t => child'[u] = child[u]
    BY DEF WorkersInv, Typed
  <1> QED BY <1>1 DEF Quiet, ServiceInv, RowsUnanswered, ChildrenSilent

(* A child whose status changes, but not to a dialogue.                     *)
LEMMA ChildRunsSilent ==
  ASSUME WorkersInv, ServiceInv, UNCHANGED worker, NEW t \in Tasks, NEW status,
         child' = [child EXCEPT ![t].status = status], status = "suspended" => 1 <= Dialogues
  PROVE  Quiet
  <1> DEFINE c == [child[t] EXCEPT !.status = status]
  <1>1. child[t] \in Children /\ child[t].answers = <<>>
    BY DEF WorkersInv, Typed, ServiceInv, ChildrenSilent
  <1>2. c.status = status /\ c.answers = <<>>
    BY <1>1 DEF Children
  <1>3. child' = [child EXCEPT ![t] = c]
    OBVIOUS
  <1> HIDE DEF c
  <1> QED BY <1>2, <1>3, ChildStaysSilent

(* A child that starts to run.                                              *)
LEMMA ChildBeginsSilent ==
  ASSUME WorkersInv, ServiceInv, UNCHANGED worker, NEW t \in Tasks,
         child' = [child EXCEPT ![t].status = "running"]
  PROVE  Quiet
  <1> DEFINE c == [child[t] EXCEPT !.status = "running"]
  <1>1. child[t] \in Children /\ child[t].answers = <<>>
    BY DEF WorkersInv, Typed, ServiceInv, ChildrenSilent
  <1>2. c.status = "running" /\ c.answers = <<>>
    BY <1>1 DEF Children
  <1>3. child' = [child EXCEPT ![t] = c]
    OBVIOUS
  <1> HIDE DEF c
  <1>4. c.status # "suspended"
    BY <1>2
  <1> QED BY <1>2, <1>3, <1>4, ChildStaysSilent

(* The inspection of an adapter's start.                                    *)
LEMMA ChildStartServes ==
  ASSUME WorkersInv, ServiceInv, NEW p \in Procs, child_start(p)
  PROVE  Served(p)
  <1>1. call[p].pc \in Inside
    BY DEF child_start, Inside
  <1>2. \/ Goto(p, [call[p] EXCEPT !.pc = "creating"])
        \/ _observe(p, child[call[p].task])
    BY DEF child_start
  <1>3. Serving(p, call[p].task)
    BY <1>1, <1>2, PhaseServes, ObservationServes
  <1> QED BY <1>3, NothingServed DEF Served, child_start

(* The engine creates the child, observes it or refuses it.                 *)
LEMMA ChildCreateServes ==
  ASSUME WorkersInv, ServiceInv, NEW p \in Procs, child_create(p)
  PROVE  Served(p)
  <1> DEFINE t == call[p].task
  <1>1. call[p].pc \in Inside /\ UNCHANGED worker
    BY DEF child_create, Inside
  <1>2. t \in Tasks
    BY <1>1, ServedRow
  <1>3. CASE /\ UNCHANGED child
             /\ _observe(p, child[t]) \/ Seen(p, "persisting", "stale", 0, None)
    BY <1>1, <1>3, ObservationServes, SightServes, NothingServed DEF Served, Terminal
  <1>4. CASE child' = [child EXCEPT ![t].status = "running"]
             /\ Goto(p, [call[p] EXCEPT !.pc = "driving"])
    <2>1. UNCHANGED worker /\ child' = [child EXCEPT ![t].status = "running"]
      BY <1>1, <1>4
    <2>2. Quiet
      BY <1>2, <2>1, ChildBeginsSilent
    <2>3. Serving(p, t)
      BY <1>1, <1>4, PhaseServes
    <2> QED BY <2>2, <2>3 DEF Served
  <1> QED BY <1>3, <1>4 DEF child_create

(* The driven run reaches its dialogue or its end.                          *)
LEMMA ChildDriveServes ==
  ASSUME WorkersInv, ServiceInv, NEW p \in Procs, child_drive(p)
  PROVE  Served(p)
  <1> DEFINE t == call[p].task
             c == child[t]
  <1>1. call[p].pc \in Inside /\ UNCHANGED worker
    BY DEF child_drive, Inside
  <1>2. t \in Tasks /\ c \in Children /\ c.answers = <<>>
    BY <1>1, ServedRow DEF WorkersInv, Typed, ServiceInv, ChildrenSilent
  <1>3. Serving(p, t)
    BY <1>1, PhaseServes DEF child_drive
  <1>4. CASE Len(c.answers) < Dialogues /\ child' = [child EXCEPT ![t].status = "suspended"]
    <2>1. 1 <= Dialogues
      BY <1>2, <1>4, EmptySeq, WorkersAssumption
    <2> QED BY <1>1, <1>2, <1>3, <1>4, <2>1, ChildRunsSilent DEF Served
  <1>5. ASSUME NEW end \in Failures, child' = [child EXCEPT ![t].status = end]
        PROVE  Served(p)
    <2>1. end # "suspended"
      BY WorkersAssumption
    <2> QED BY <1>1, <1>2, <1>3, <1>5, <2>1, ChildRunsSilent DEF Served
  <1>6. ASSUME NEW o \in Outputs,
               child' = [child EXCEPT ![t].status = "completed", ![t].output = o]
        PROVE  Served(p)
    <2> DEFINE next == [c EXCEPT !.status = "completed", !.output = o]
    <2>1. next.status = "completed" /\ next.answers = <<>>
      BY <1>2 DEF Children
    <2>2. child' = [child EXCEPT ![t] = next]
      BY <1>2, <1>6 DEF WorkersInv, Typed
    <2> HIDE DEF next
    <2> QED BY <1>1, <1>2, <1>3, <2>1, <2>2, ChildStaysSilent DEF Served
  <1> QED BY <1>4, <1>5, <1>6 DEF child_drive

(* The inspection of the run that was driven.                               *)
LEMMA ChildInspectServes ==
  ASSUME WorkersInv, ServiceInv, NEW p \in Procs, child_inspect(p)
  PROVE  Served(p)
  <1>1. call[p].pc \in Inside
    BY DEF child_inspect, Inside
  <1>2. Seen(p, "persisting", "failed", 0, None) \/ _observe(p, child[call[p].task])
    BY DEF child_inspect
  <1>3. Serving(p, call[p].task)
    BY <1>1, <1>2, SightServes, ObservationServes DEF Terminal
  <1> QED BY <1>3, NothingServed DEF Served, child_inspect

(* A gateway error.                                                         *)
LEMMA GatewayFailureServes ==
  ASSUME WorkersInv, ServiceInv, NEW p \in Procs, gateway_failure(p)
  PROVE  Served(p)
  <1> DEFINE t == call[p].task
  <1>1. call[p].pc \in Inside /\ UNCHANGED worker
    BY DEF gateway_failure, Inside
  <1>2. t \in Tasks
    BY <1>1, ServedRow
  <1>3. Serving(p, t)
    BY <1>1, SightServes DEF gateway_failure, Terminal
  <1>4. CASE UNCHANGED child
    BY <1>1, <1>3, <1>4, NothingServed DEF Served
  <1>5. CASE child' = [child EXCEPT ![t].status = "running"]
    <2>1. UNCHANGED worker /\ child' = [child EXCEPT ![t].status = "running"]
      BY <1>1, <1>5
    <2>2. Quiet
      BY <1>2, <2>1, ChildBeginsSilent
    <2> QED BY <1>3, <2>2 DEF Served
  <1> QED BY <1>4, <1>5 DEF gateway_failure

(* The proof slot.                                                          *)
LEMMA ProofCreateServes ==
  ASSUME WorkersInv, ServiceInv, NEW p \in Procs, proof_create(p)
  PROVE  Served(p)
  <1>1. call[p].pc \in Inside /\ call[p].pc = "proving"
    BY DEF proof_create, Inside
  <1>2. CASE Seen(p, "persisting", "failed", 0, None)
    BY <1>1, <1>2, SightServes, NothingServed DEF Terminal, Served, proof_create
  <1>3. CASE Goto(p, [call[p] EXCEPT !.pc = "persisting"])
    <2> DEFINE next == [call[p] EXCEPT !.pc = "persisting"]
    <2>1. /\ next.pc = "persisting" /\ next.task = call[p].task /\ next.row = Pending
          /\ next.seen = call[p].seen
      BY <1>1, ServedRow
    <2>2. Goto(p, next)
      BY <1>3
    <2> HIDE DEF next
    <2>3. Serving(p, call[p].task)
      BY <1>1, <2>1, <2>2, ServedRow DEF Serving, Serves, Inside
    <2> QED BY <2>3, NothingServed DEF Served, proof_create
  <1> QED BY <1>2, <1>3 DEF proof_create

(* The row an observation makes of a pending one.                           *)
LEMMA UnansweredReplacement ==
  ASSUME NEW seen, seen.status \in {"suspended"} \union Terminal,
         seen.status = "suspended" => seen.dialogue = 1 /\ 1 <= Dialogues
  PROVE  LET row == Replacement(Pending, seen)
         IN  /\ row.status \in {"suspended"} \union Terminal
             /\ row.generation = 0
             /\ row.continuation = 0 \/ (row.continuation = 1 /\ 1 <= Dialogues)
  <1>1. CASE seen.status = "suspended"
    BY <1>1 DEF Replacement, Pending, Row, Terminal
  <1>2. CASE seen.status \in Terminal
    BY <1>2 DEF Replacement, _terminal_state, Observation, Pending, Row, Terminal
  <1> QED BY <1>1, <1>2

(* The observation is stored.                                               *)
LEMMA PersistServes ==
  ASSUME WorkersInv, ServiceInv, NEW p \in Procs, _persist_observation(p)
  PROVE  Served(p)
  <1> DEFINE t == call[p].task
             row == call[p].row
             replacement == Replacement(row, call[p].seen)
  <1>1. call[p].pc \in Inside /\ call[p].pc = "persisting" /\ UNCHANGED child
    BY DEF _persist_observation, Inside
  <1>2. /\ t \in Tasks /\ row = Pending
        /\ call[p].seen.status \in {"suspended"} \union Terminal
        /\ call[p].seen.status = "suspended" => call[p].seen.dialogue = 1 /\ 1 <= Dialogues
    BY <1>1, ServedRow
  <1>3. /\ replacement.status \in {"suspended"} \union Terminal
        /\ replacement.generation = 0
        /\ replacement.continuation = 0 \/ (replacement.continuation = 1 /\ 1 <= Dialogues)
    BY <1>2, UnansweredReplacement
  <1>4. ASSUME NEW u \in Tasks
        PROVE  worker'[u] = worker[u] \/ (u = t /\ worker[u] = Pending /\ worker'[u] = replacement)
    BY <1>2 DEF _persist_observation, WorkersInv, Typed
  <1>5. Serving(p, t)
    <2>1. Goto(p, Returned(t, worker'[t].status)) \/ Goto(p, Returned(t, "conflict"))
      BY DEF _persist_observation
    <2> QED BY <2>1, ReturnServes
  <1> HIDE DEF replacement
  <1>6. RowsUnanswered'
    BY <1>3, <1>4 DEF RowsUnanswered, ServiceInv, Terminal
  <1>7. \A u \in Tasks : worker[u] = Absent => worker'[u] = Absent
    BY <1>4 DEF Absent, Pending, Row
  <1> QED BY <1>1, <1>5, <1>6, <1>7 DEF Served, Quiet, ServiceInv, ChildrenSilent

(* Every step of a call inside the service.                                 *)
LEMMA ServiceServes ==
  ASSUME WorkersInv, ServiceInv, NEW p \in Procs, WorkerStep(p) \/ gateway_failure(p)
  PROVE  Served(p)
  <1>1. call[p].pc \notin {"claiming", "resuming", "answering"}
    BY ServedRow DEF Inside
  <1>2. ~resume_claim(p) /\ ~child_resume(p) /\ ~child_answer(p)
    BY <1>1 DEF resume_claim, child_resume, child_answer
  <1> QED BY <1>2, ChildStartServes, ChildCreateServes, ChildDriveServes, ChildInspectServes,
             ProofCreateServes, PersistServes, GatewayFailureServes DEF WorkerStep

(* start serves the pending row it creates or finds.                        *)
LEMMA StartServes ==
  ASSUME WorkersInv, ServiceInv, NEW p \in Procs, NEW t \in Tasks, start(p, t)
  PROVE  /\ Serving(p, t) /\ RowsUnanswered' /\ ChildrenSilent'
         /\ \A u \in Tasks : u # t => worker'[u] = worker[u]
  <1>1. ASSUME NEW u \in Tasks
        PROVE  worker'[u] = worker[u] \/ (u = t /\ worker'[u] = Pending)
    BY DEF start, WorkersInv, Typed
  <1>2. RowsUnanswered'
    BY <1>1 DEF RowsUnanswered, ServiceInv, Pending, Row
  <1>3. Serving(p, t)
    <2>1. /\ worker'[t].status \in {"absent", "pending", "suspended"} \union Terminal
          /\ worker'[t].status = "pending" => worker'[t] = Pending
      BY <1>2 DEF RowsUnanswered
    <2>2. \/ worker'[t].status = "pending" /\ Goto(p, Calling("starting", t, worker'[t], Unseen))
          \/ Goto(p, Returned(t, worker'[t].status))
      BY <2>1 DEF start, Follow, Terminal
    <2>3. CASE worker'[t].status = "pending" /\ Goto(p, Calling("starting", t, worker'[t], Unseen))
      <3>1. Goto(p, Calling("starting", t, Pending, Unseen))
        BY <2>1, <2>3
      <3> QED BY <3>1 DEF Serving, Serves, Calling, Inside
    <2>4. CASE Goto(p, Returned(t, worker'[t].status))
      BY <2>4, ReturnServes
    <2> QED BY <2>2, <2>3, <2>4
  <1> QED BY <1>1, <1>2, <1>3 DEF start, ServiceInv, ChildrenSilent

-----------------------------------------------------------------------------
(* What a step of one process leaves to be shown.                           *)

(* A child is created for a committed page, and only a page whose child has  *)
(* completed reports its cards.                                             *)
NewRowsCommitted ==
    \A t \in Tasks : worker[t] = Absent /\ worker'[t] # Absent =>
        /\ pages' # None /\ t[1] \in DOMAIN pages'
        /\ pages'[t[1]].wrapper = t[2]
        /\ Rank(pages'[t[1]].status) >= Rank("claimed")

NewReceiptsTrue ==
    pages' # None => \A n \in DOMAIN pages' :
        pages'[n].status = "terminal" /\ pages'[n].receipt.ok =>
           \/ pages # None /\ n \in DOMAIN pages /\ pages'[n] = pages[n]
           \/ LET t == child_task_id(n, pages'[n].wrapper)
              IN  worker'[t].status = "completed" /\ pages'[n].receipt.cards = worker'[t].output

(* The children stay those of their pages.                                  *)
LEMMA CommittedStays ==
  ASSUME WorkersInv, PagesSound, Committed, PagesMoved, RowsForward,
         NewRowsCommitted, NewReceiptsTrue
  PROVE  Committed'
  <1>1. ASSUME NEW t \in Tasks, worker'[t] # Absent
        PROVE  /\ pages' # None /\ t[1] \in DOMAIN pages'
               /\ pages'[t[1]].wrapper = t[2]
               /\ Rank(pages'[t[1]].status) >= Rank("claimed")
    <2>1. CASE worker[t] = Absent
      BY <1>1, <2>1 DEF NewRowsCommitted
    <2>2. CASE worker[t] # Absent
      <3> DEFINE n == t[1]
      <3>1. /\ pages # None /\ n \in DOMAIN pages
            /\ pages[n].wrapper = t[2] /\ Rank(pages[n].status) >= Rank("claimed")
        BY <2>2 DEF Committed
      <3>2. /\ pages \in Checkpoints /\ pages' \in Checkpoints /\ Reaches(pages, pages')
            /\ pages' # None
        BY <3>1 DEF PagesSound, PagesMoved, Lawful
      <3>3. pages[n].status \in PageStatuses
        BY <3>1, <3>2, CheckpointForm
      <3>4. pages[n].status \in {"claimed", "terminal"}
        BY <3>1, <3>3, RankOrder
      <3> HIDE DEF n
      <3>5. /\ n \in DOMAIN pages' /\ pages'[n].wrapper = pages[n].wrapper
            /\ pages'[n].status \in {"claimed", "terminal"}
        BY <3>1, <3>2, <3>4, ReachesRank
      <3>6. Rank(pages'[n].status) >= Rank("claimed")
        BY <3>5, RankValues
      <3> QED BY <3>1, <3>2, <3>5, <3>6 DEF n
    <2> QED BY <2>1, <2>2
  <1>2. ASSUME pages' # None, NEW n \in DOMAIN pages',
               pages'[n].status = "terminal", pages'[n].receipt.ok
        PROVE  LET t == child_task_id(n, pages'[n].wrapper)
               IN  worker'[t].status = "completed" /\ pages'[n].receipt.cards = worker'[t].output
    <2>1. CASE pages # None /\ n \in DOMAIN pages /\ pages'[n] = pages[n]
      <3> DEFINE t == child_task_id(n, pages[n].wrapper)
      <3>1. worker[t].status = "completed" /\ pages[n].receipt.cards = worker[t].output
        BY <1>2, <2>1 DEF Committed
      <3>2. t \in Tasks
        <4>1. Lawful(pages)
          BY <2>1 DEF PagesSound
        <4>2. n \in Positions /\ pages[n].wrapper \in Wrappers
          BY <1>2, <2>1, <4>1, CheckpointForm DEF Lawful
        <4> QED BY <4>2, LessonAssumption DEF child_task_id
      <3>3. worker'[t] = worker[t]
        BY <3>1, <3>2 DEF RowsForward, Terminal
      <3> QED BY <2>1, <3>1, <3>3
    <2> QED BY <1>2, <2>1 DEF NewReceiptsTrue
  <1> QED BY <1>1, <1>2 DEF Committed

(* A step of p keeps the invariant if it keeps these.                       *)
LEMMA LessonStepKeeps ==
  ASSUME LessonInv, NEW p \in Procs, WorkersInv', ServiceInv', RowsForward, PagesMoved,
         NewRowsCommitted, NewReceiptsTrue,
         coord' = [q \in Procs |-> coord'[q]],
         \A q \in Procs : q # p => coord'[q] = coord[q] /\ call'[q] = call[q],
         CoordSound(coord'[p], pages', call'[p]), OwnersSound'
  PROVE  LessonInv'
  <1>1. Committed'
    BY CommittedStays DEF LessonInv
  <1>2. ASSUME NEW q \in Procs PROVE CoordSound(coord'[q], pages', call'[q])
    <2>1. CASE q = p
      BY <2>1
    <2>2. CASE q # p
      <3>1. coord'[q] = coord[q] /\ call'[q] = call[q]
        BY <2>2
      <3> QED BY <3>1, OthersStaySound DEF LessonInv
    <2> QED BY <2>1, <2>2
  <1>3. CoordsSound'
    BY <1>2 DEF CoordsSound
  <1>4. PagesSound'
    BY DEF PagesSound, PagesMoved
  <1> QED BY <1>1, <1>3, <1>4 DEF LessonInv

(* The children are left alone.                                             *)
LEMMA ServiceStands ==
  ASSUME LessonInv, UNCHANGED workerVars
  PROVE  WorkersInv' /\ ServiceInv' /\ RowsForward /\ NewRowsCommitted
         /\ \A q \in Procs : call'[q] = call[q]
  <1>1. WorkersInv'
    BY DEF LessonInv, workerVars, WorkersInv, Typed, CallsFit, OneDriver, ChildrenProduce, RowsAreProved
  <1>2. ServiceInv'
    BY DEF LessonInv, workerVars, ServiceInv, CallsServe, RowsUnanswered, ChildrenSilent
  <1>3. RowsForward /\ NewRowsCommitted /\ \A q \in Procs : call'[q] = call[q]
    BY DEF workerVars, RowsForward, NewRowsCommitted
  <1> QED BY <1>1, <1>2, <1>3

(* A process forgets what the service showed it, or leaves its call.        *)
LEMMA ServiceDropped ==
  ASSUME LessonInv, NEW p \in Procs, Goto(p, Idle), UNCHANGED worker, UNCHANGED <<child, proofs>>
  PROVE  WorkersInv' /\ ServiceInv' /\ RowsForward /\ NewRowsCommitted
         /\ call'[p] = Idle /\ \A q \in Procs : q # p => call'[q] = call[q]
  <1>1. MovesOn(p)
    BY DEF MovesOn, Calls, Idle, Agrees, Inside
  <1>2. Steps(p)
    BY <1>1, NothingMoved DEF Steps, LessonInv
  <1>3. WorkersInv' /\ RowsForward
    BY <1>2, RowsStand, StepsKeep DEF LessonInv
  <1>4. call'[p] = Idle /\ \A q \in Procs : q # p => call'[q] = call[q]
    BY DEF LessonInv, WorkersInv, Typed, Goto
  <1>5. CallsServe'
    <2>1. Serves(Idle, worker')
      BY DEF Serves, Idle, Inside
    <2>2. \A q \in Procs : Serves(call[q], worker)
      BY DEF LessonInv, ServiceInv, CallsServe
    <2> QED BY <1>4, <2>1, <2>2 DEF CallsServe
  <1>6. ServiceInv' /\ NewRowsCommitted
    BY <1>5 DEF LessonInv, ServiceInv, RowsUnanswered, ChildrenSilent, NewRowsCommitted
  <1> QED BY <1>3, <1>4, <1>6

(* The checkpoint is left alone.                                            *)
LEMMA PagesStand ==
  ASSUME LessonInv, UNCHANGED pages
  PROVE  PagesMoved /\ NewReceiptsTrue
  BY ReachesItself DEF LessonInv, PagesSound, PagesMoved, NewReceiptsTrue

(* A step of p moves only p's coordinator call.                             *)
LEMMA CoordMoves ==
  ASSUME LessonInv, NEW p \in Procs, NEW x, CoordGoto(p, x)
  PROVE  /\ coord' = [q \in Procs |-> coord'[q]] /\ coord'[p] = x
         /\ \A q \in Procs : q # p => coord'[q] = coord[q]
  BY DEF LessonInv, CoordsSound, CoordGoto

-----------------------------------------------------------------------------
(* One lemma per action of the lesson.                                      *)

(* The first checkpoint: nothing is claimed, and no child exists.           *)
LEMMA FirstCheckpointLawful ==
  ASSUME NEW plan, Requestable(plan)
  PROVE  Lawful(Checkpoint(plan))
  <1>1. PICK k \in 0..MaxPages : DOMAIN plan = 1..k
    BY DEF Requestable
  <1>2. PICK cp : cp = Checkpoint(plan)
    OBVIOUS
  <1>3. cp = [n \in 1..k |-> PendingPage]
    BY <1>1, <1>2 DEF Checkpoint
  <1>4. cp \in Checkpoints
    <2> DEFINE P == [status : PageStatuses, wrapper : Wrappers \union {None},
                     receipt : {None} \union [ok : BOOLEAN, cards : Outputs \union {{}}]]
    <2>1. PendingPage \in P
      BY DEF PendingPage, Page, PageStatuses
    <2> HIDE DEF P
    <2>2. cp \in [1..k -> P]
      BY <1>3, <2>1
    <2> QED BY <2>2 DEF Checkpoints, P
  <1>5. DOMAIN cp = 1..k /\ \A n \in DOMAIN cp : cp[n].status = "pending" /\ cp[n].wrapper = None
    BY <1>3 DEF PendingPage, Page
  <1>6. Claimed(cp) = {}
    BY <1>5 DEF Claimed
  <1>7. Cardinality(Claimed(cp)) <= Concurrency
    <2>1. Cardinality({}) = 0 /\ Concurrency \in Nat
      BY FS_EmptySet, LessonAssumption
    <2> QED BY <1>6, <2>1
  <1>8. Ordered(cp)
    BY <1>5 DEF Ordered
  <1> QED BY <1>2, <1>4, <1>5, <1>7, <1>8 DEF Lawful

(* start creates the checkpoint.                                            *)
LEMMA LessonStartKeeps ==
  ASSUME LessonInv, NEW p \in Procs, lesson_start(p)
  PROVE  LessonInv' /\ PagesMoved
  <1>1. /\ pages = None /\ UNCHANGED owners /\ UNCHANGED workerVars
        /\ CoordGoto(p, [pc |-> "loading"])
    BY DEF lesson_start
  <1>2. Lawful(pages')
    BY FirstCheckpointLawful DEF lesson_start
  <1>3. PagesMoved
    BY <1>1, <1>2 DEF PagesMoved
  <1>4. NewReceiptsTrue
    <2>1. \A n \in DOMAIN pages' : pages'[n].status = "pending"
      BY DEF lesson_start, Checkpoint, PendingPage, Page
    <2> QED BY <2>1 DEF NewReceiptsTrue
  <1>5. CoordSound(coord'[p], pages', call'[p])
    BY <1>1, CoordMoves DEF CoordSound
  <1>6. OwnersSound'
    BY <1>1, <1>3, OwnersStaySound DEF LessonInv
  <1> QED BY <1>1, <1>3, <1>4, <1>5, <1>6, ServiceStands, CoordMoves, LessonStepKeeps

(* advance takes the stored checkpoint as its copy.                         *)
LEMMA AdvanceKeeps ==
  ASSUME LessonInv, NEW p \in Procs, advance(p)
  PROVE  LessonInv' /\ PagesMoved
  <1>1. /\ pages # None /\ UNCHANGED pages /\ UNCHANGED owners /\ UNCHANGED workerVars
        /\ CoordGoto(p, Proceed(Working(pages, Claimed(pages), Claimed(pages), TRUE, 0)))
    BY DEF advance
  <1>2. PICK c : c = Working(pages, Claimed(pages), Claimed(pages), TRUE, 0)
    OBVIOUS
  <1>3. c = [pc |-> "working", copy |-> pages, left |-> Claimed(pages), found |-> Claimed(pages),
             recovering |-> TRUE, available |-> 0]
    BY <1>2 DEF Working
  <1>4. /\ c.copy = pages /\ c.left = Claimed(pages) /\ c.found = Claimed(pages)
        /\ c.recovering = TRUE /\ c.available = 0 /\ c.pc = "working"
    BY <1>3
  <1>5. Claimed(pages) \in SUBSET DOMAIN pages
        /\ \A n \in Claimed(pages) : Rank(pages[n].status) >= Rank("claimed")
    BY RankValues DEF Claimed
  <1>6. Lawful(pages) /\ Reaches(pages, pages)
    BY <1>1, ReachesItself DEF LessonInv, PagesSound
  <1>7. Ready(c, pages)
    BY <1>1, <1>3, <1>4, <1>5, <1>6 DEF Ready
  <1>8. CoordSound(Proceed(c), pages, call'[p])
    BY <1>7, ProceedSound
  <1>9. CoordSound(coord'[p], pages', call'[p])
    BY <1>1, <1>2, <1>8, CoordMoves
  <1>10. PagesMoved /\ NewReceiptsTrue
    BY <1>1, PagesStand
  <1>11. OwnersSound'
    BY <1>1, <1>10, OwnersStaySound DEF LessonInv
  <1> QED BY <1>1, <1>9, <1>10, <1>11, ServiceStands, CoordMoves, LessonStepKeeps

(* A page is written while the children are left alone.                     *)
LEMMA WriteKeeps ==
  ASSUME LessonInv, NEW p \in Procs, coord[p].pc \in {"working", "observing"},
         NEW page, NextPage(Current(p), page), _replace_page(p, page),
         \/ UNCHANGED workerVars
         \/ Goto(p, Idle) /\ UNCHANGED worker /\ UNCHANGED <<child, proofs>>,
         page.status = "terminal" /\ page.receipt.ok =>
            LET t == child_task_id(Position(p), page.wrapper)
            IN  worker[t].status = "completed" /\ page.receipt.cards = worker[t].output
  PROVE  LessonInv' /\ PagesMoved
  <1> DEFINE n == Position(p)
  <1>1. /\ pages # None /\ pages' # None /\ Lawful(pages) /\ Lawful(pages')
        /\ Reaches(pages, pages')
        /\ \/ pages' = pages
           \/ n \in DOMAIN pages /\ pages' = [pages EXCEPT ![n] = page]
        /\ coord' = [q \in Procs |-> coord'[q]]
        /\ \A q \in Procs : q # p => coord'[q] = coord[q]
        /\ CoordSound(coord'[p], pages', call'[p])
    BY ReplaceSteps DEF LessonInv
  <1>2. PagesMoved
    BY <1>1 DEF PagesMoved
  <1>3. /\ WorkersInv' /\ ServiceInv' /\ RowsForward /\ NewRowsCommitted
        /\ \A q \in Procs : q # p => call'[q] = call[q]
    BY ServiceStands, ServiceDropped
  <1>4. UNCHANGED owners /\ UNCHANGED worker
    BY DEF _replace_page, workerVars
  <1>5. NewReceiptsTrue
    <2>1. CASE pages' = pages
      BY <2>1, PagesStand
    <2>2. CASE n \in DOMAIN pages /\ pages' = [pages EXCEPT ![n] = page]
      <3>1. /\ DOMAIN pages' = DOMAIN pages /\ pages'[n] = page
            /\ \A m \in DOMAIN pages : m # n => pages'[m] = pages[m]
        BY <2>2
      <3>2. worker' = worker
        BY <1>4
      <3>3. ASSUME page.status = "terminal", page.receipt.ok
            PROVE  LET t == child_task_id(n, pages'[n].wrapper)
                   IN  worker'[t].status = "completed" /\ pages'[n].receipt.cards = worker'[t].output
        BY <3>1, <3>2, <3>3
      <3> HIDE DEF n
      <3> QED BY <1>1, <3>1, <3>3 DEF NewReceiptsTrue
    <2> QED BY <1>1, <2>1, <2>2
  <1>6. OwnersSound'
    BY <1>2, <1>4, OwnersStaySound DEF LessonInv
  <1> QED BY <1>1, <1>2, <1>3, <1>5, <1>6, LessonStepKeeps

(* The page is marked before its evidence is resolved.                      *)
LEMMA ResolveKeeps ==
  ASSUME LessonInv, NEW p \in Procs, resolve_page(p)
  PROVE  LessonInv' /\ PagesMoved
  <1> DEFINE page == Page("resolving", None, None)
  <1>1. coord[p].pc \in {"working", "observing"} /\ NextPage(Current(p), page)
    BY DEF resolve_page, Scanning, NextPage
  <1>2. page.status # "terminal"
    BY DEF Page
  <1>3. _replace_page(p, page) /\ UNCHANGED workerVars
    BY DEF resolve_page
  <1> HIDE DEF page
  <1> QED BY <1>1, <1>2, <1>3, WriteKeeps

(* The evidence of the page is resolved.                                    *)
LEMMA PrepareKeeps ==
  ASSUME LessonInv, NEW p \in Procs, _prepare_page(p)
  PROVE  LessonInv' /\ PagesMoved
  <1>1. PICK w \in Wrappers : _replace_page(p, PreparedPage(w))
    BY DEF _prepare_page
  <1>2. PICK page : page = PreparedPage(w)
    OBVIOUS
  <1>3. coord[p].pc \in {"working", "observing"} /\ NextPage(Current(p), page)
    BY <1>2 DEF _prepare_page, Scanning, NextPage
  <1>4. page.status # "terminal"
    BY <1>2 DEF PreparedPage, Page
  <1>5. _replace_page(p, page) /\ UNCHANGED workerVars
    BY <1>1, <1>2 DEF _prepare_page
  <1> QED BY <1>3, <1>4, <1>5, WriteKeeps

(* The page a scan works on, as its copy has it.                            *)
LEMMA CurrentForm ==
  ASSUME LessonInv, NEW p \in Procs, coord[p].pc \in {"working", "observing"}
  PROVE  /\ ScanSound(coord[p], pages) /\ pages # None
         /\ coord[p].copy \in Checkpoints /\ pages \in Checkpoints
         /\ Reaches(coord[p].copy, pages)
         /\ Position(p) \in DOMAIN coord[p].copy /\ Position(p) \in coord[p].left
         /\ Position(p) = Min(coord[p].left) /\ Position(p) \in Positions
         /\ Current(p) = coord[p].copy[Position(p)]
         /\ Current(p) \in [status : PageStatuses, wrapper : Wrappers \union {None},
                            receipt : {None} \union [ok : BOOLEAN, cards : Outputs \union {{}}]]
         /\ Current(p).status \in {"claimed", "terminal"} => Current(p).wrapper \in Wrappers
  <1>1. PICK c : c = coord[p]
    OBVIOUS
  <1>2. CoordSound(c, pages, call[p]) /\ c.pc \in {"working", "observing"}
    BY <1>1 DEF LessonInv, CoordsSound
  <1>3. ScanSound(c, pages)
    BY <1>2 DEF CoordSound
  <1>4. /\ pages # None /\ Lawful(c.copy) /\ c.copy \in Checkpoints
        /\ Lawful(pages) /\ pages \in Checkpoints /\ Reaches(c.copy, pages)
    BY <1>3 DEF ScanSound, LessonInv, PagesSound, Lawful
  <1>5. Min(c.left) \in DOMAIN c.copy /\ Min(c.left) \in c.left
    BY <1>2, FirstIsNext
  <1>6. PICK n : n = Min(c.left)
    OBVIOUS
  <1>7. /\ n \in DOMAIN c.copy /\ n \in Positions
        /\ c.copy[n] \in [status : PageStatuses, wrapper : Wrappers \union {None},
                          receipt : {None} \union [ok : BOOLEAN, cards : Outputs \union {{}}]]
    BY <1>4, <1>5, <1>6, CheckpointForm
  <1>8. c.copy[n].status \in {"claimed", "terminal"} => c.copy[n].wrapper \in Wrappers
    BY <1>4, <1>7 DEF Lawful
  <1>9. Position(p) = n /\ Current(p) = c.copy[n]
    BY <1>1, <1>6 DEF Position, Current
  <1> QED BY <1>1, <1>3, <1>4, <1>5, <1>6, <1>7, <1>8, <1>9

(* The page commits its child, while a place is free.                       *)
LEMMA ClaimKeeps ==
  ASSUME LessonInv, NEW p \in Procs, _claim_child(p)
  PROVE  LessonInv' /\ PagesMoved
  <1>1. PICK page : page = [Current(p) EXCEPT !.status = "claimed"]
    OBVIOUS
  <1>2. coord[p].pc \in {"working", "observing"} /\ Current(p).status = "prepared"
    BY DEF _claim_child, Scanning
  <1>3. NextPage(Current(p), page)
    BY <1>1, <1>2 DEF NextPage
  <1>4. page.status # "terminal"
    BY <1>1, <1>2, CurrentForm
  <1>5. _replace_page(p, page) /\ UNCHANGED workerVars
    BY <1>1 DEF _claim_child
  <1> QED BY <1>2, <1>3, <1>4, <1>5, WriteKeeps

(* The child of a claimed page is started, or found.                        *)
LEMMA ObserveStartKeeps ==
  ASSUME LessonInv, NEW p \in Procs, observe_start(p)
  PROVE  LessonInv' /\ PagesMoved
  <1> DEFINE n == Position(p)
  <1>1. PICK c : c = coord[p]
    OBVIOUS
  <1>2. PICK t : t = child_task_id(n, Current(p).wrapper)
    OBVIOUS
  <1>3. PICK taken : taken = IF c.recovering THEN c.available ELSE c.available - 1
    OBVIOUS
  <1>4. PICK d : d = [c EXCEPT !.pc = "observing", !.available = taken]
    OBVIOUS
  <1>5. /\ c.pc = "working" /\ Current(p).status = "claimed" /\ start(p, t)
        /\ CoordGoto(p, d) /\ UNCHANGED pages /\ UNCHANGED owners
    BY <1>1, <1>2, <1>3, <1>4 DEF observe_start, Scanning
  <1>6. /\ ScanSound(c, pages) /\ pages # None /\ c.copy \in Checkpoints /\ pages \in Checkpoints
        /\ Reaches(c.copy, pages) /\ n \in DOMAIN c.copy /\ n \in Positions /\ n = Min(c.left)
        /\ c.copy[n].status = "claimed" /\ Current(p) = c.copy[n]
        /\ c.copy[n].wrapper \in Wrappers
    BY <1>1, <1>5, CurrentForm
  <1>7. t = <<n, c.copy[n].wrapper>>
    BY <1>2, <1>6 DEF child_task_id
  <1> HIDE DEF n
  <1>8. t \in Tasks /\ t[1] = n /\ t[2] = c.copy[n].wrapper
    BY <1>6, <1>7, LessonAssumption
  <1>9. WorkersInv' /\ RowsForward
    BY <1>5, <1>8, StartSteps, StepsKeep DEF LessonInv
  <1>10. /\ Serving(p, t) /\ RowsUnanswered' /\ ChildrenSilent'
         /\ \A u \in Tasks : u # t => worker'[u] = worker[u]
    BY <1>5, <1>8, StartServes DEF LessonInv
  <1>11. /\ CallsServe' /\ \A q \in Procs : q # p => call'[q] = call[q]
         /\ call'[p].task = t /\ call'[p].pc \in Inside \union {"returned"}
    BY <1>9, <1>10, CallsStillServe DEF LessonInv
  <1>12. ServiceInv'
    BY <1>10, <1>11 DEF ServiceInv
  <1>13. PagesMoved /\ NewReceiptsTrue
    BY <1>5, PagesStand
  <1>14. NewRowsCommitted
    <2>1. /\ n \in DOMAIN pages /\ pages[n].wrapper = c.copy[n].wrapper
          /\ pages[n].status \in {"claimed", "terminal"}
      BY <1>6, ReachesRank
    <2>2. Rank(pages[n].status) >= Rank("claimed")
      BY <2>1, RankValues
    <2>3. pages' # None /\ pages' = pages
      BY <1>5, <1>6
    <2>4. ASSUME NEW u \in Tasks, worker[u] = Absent, worker'[u] # Absent PROVE u = t
      BY <1>10, <2>4
    <2> QED BY <1>8, <2>1, <2>2, <2>3, <2>4 DEF NewRowsCommitted
  <1>15. d = [pc |-> "observing", copy |-> c.copy, left |-> c.left, found |-> c.found,
              recovering |-> c.recovering, available |-> taken]
    BY <1>4, <1>6 DEF ScanSound
  <1>16. /\ d.pc = "observing" /\ d.copy = c.copy /\ d.left = c.left /\ d.found = c.found
         /\ d.recovering = c.recovering /\ d.available = taken
    BY <1>15
  <1>17. c.available \in Int /\ c.recovering \in BOOLEAN /\ taken \in Int
    BY <1>3, <1>6 DEF ScanSound
  <1>18. ScanSound(d, pages)
    BY <1>6, <1>15, <1>16, <1>17 DEF ScanSound
  <1>19. ASSUME ~c.recovering PROVE Counted(d, 1)
    <2>1. Counted(c, 0) /\ taken = c.available - 1
      BY <1>3, <1>5, <1>6, <1>19 DEF ScanSound
    <2>2. PICK K : K = Cardinality(Claimed(c.copy) \ c.left)
      OBVIOUS
    <2>3. K \in Nat /\ Concurrency \in Nat
      BY <1>6, <2>2, ClaimedFinite, LessonAssumption
    <2>4. c.available + K + 0 <= Concurrency
      BY <2>1, <2>2 DEF Counted
    <2>5. taken + K + 1 <= Concurrency
      BY <1>17, <2>1, <2>3, <2>4
    <2> QED BY <1>16, <2>1, <2>2, <2>5 DEF Counted
  <1>20. ObservingSound(d, call'[p])
    BY <1>6, <1>7, <1>11, <1>16, <1>19 DEF ObservingSound, child_task_id
  <1>21. CoordSound(d, pages, call'[p])
    BY <1>16, <1>18, <1>20 DEF CoordSound
  <1>22. CoordSound(coord'[p], pages', call'[p])
    BY <1>5, <1>21, CoordMoves
  <1>23. OwnersSound'
    BY <1>5, <1>13, OwnersStaySound DEF LessonInv
  <1> QED BY <1>5, <1>9, <1>11, <1>12, <1>13, <1>14, <1>22, <1>23, CoordMoves, LessonStepKeeps

(* The outcome of a child whose page is claimed is the receipt of its page.  *)
LEMMA OutcomeIsTrue ==
  ASSUME LessonInv, NEW p \in Procs, coord[p].pc = "observing", call[p].pc = "returned"
  PROVE  /\ call[p].task = child_task_id(Position(p), Current(p).wrapper)
         /\ Current(p).status = "claimed" /\ call[p].task \in Tasks
         /\ call[p].view = "completed" =>
               worker[call[p].task].status = "completed" /\ detail(call[p].task) \in Outputs
  <1>1. PICK c : c = coord[p]
    OBVIOUS
  <1>2. CoordSound(c, pages, call[p])
    BY <1>1 DEF LessonInv, CoordsSound
  <1>3. ObservingSound(c, call[p])
    BY <1>1, <1>2 DEF CoordSound
  <1>4. Position(p) = Min(c.left) /\ Current(p) = c.copy[Position(p)]
    BY <1>1 DEF Position, Current
  <1>5. /\ call[p].task = child_task_id(Position(p), Current(p).wrapper)
        /\ Current(p).status = "claimed"
    BY <1>3, <1>4 DEF ObservingSound
  <1>6. call[p].task \in Tasks
    BY DEF LessonInv, WorkersInv, Typed, Calls, Inside, Idle
  <1>7. ASSUME call[p].view = "completed"
        PROVE  worker[call[p].task].status = "completed" /\ detail(call[p].task) \in Outputs
    <2>1. worker[call[p].task].status = "completed"
      BY <1>7 DEF LessonInv, ServiceInv, CallsServe, Serves
    <2>2. worker[call[p].task].output \in Outputs
      BY <1>6, <2>1 DEF LessonInv, WorkersInv, RowsAreProved, ChildrenProduce, Produced
    <2> QED BY <2>1, <2>2 DEF detail
  <1> QED BY <1>5, <1>6, <1>7

(* What the service returned is noted.                                      *)
LEMMA ObserveClaimedKeeps ==
  ASSUME LessonInv, NEW p \in Procs, _observe_claimed(p)
  PROVE  LessonInv' /\ PagesMoved
  <1>1. PICK t : t = call[p].task
    OBVIOUS
  <1>2. PICK view : view = call[p].view
    OBVIOUS
  <1>3. /\ coord[p].pc = "observing" /\ call[p].pc = "returned"
        /\ Goto(p, Idle) /\ UNCHANGED worker /\ UNCHANGED <<child, proofs>>
    BY DEF _observe_claimed
  <1>4. /\ t = child_task_id(Position(p), Current(p).wrapper)
        /\ Current(p).status = "claimed" /\ t \in Tasks
        /\ view = "completed" => worker[t].status = "completed" /\ detail(t) \in Outputs
    BY <1>1, <1>2, <1>3, OutcomeIsTrue
  <1>5. ASSUME NEW x, CoordGoto(p, x), UNCHANGED pages, UNCHANGED owners,
               CoordSound(x, pages, Idle)
        PROVE  LessonInv' /\ PagesMoved
    <2>1. PagesMoved /\ NewReceiptsTrue
      BY <1>5, PagesStand
    <2>2. OwnersSound'
      BY <1>5, <2>1, OwnersStaySound DEF LessonInv
    <2>3. call'[p] = Idle
      BY <1>3, ServiceDropped
    <2>4. CoordSound(coord'[p], pages', call'[p])
      BY <1>5, <2>3, CoordMoves
    <2> QED BY <1>3, <1>5, <2>1, <2>2, <2>4, ServiceDropped, CoordMoves, LessonStepKeeps
  <1>6. ASSUME CoordGoto(p, Idle), UNCHANGED pages, UNCHANGED owners
        PROVE  LessonInv' /\ PagesMoved
    BY <1>5, <1>6, IdleSound
  <1>7. ASSUME CoordGoto(p, Observed(coord[p])), UNCHANGED pages, UNCHANGED owners
        PROVE  LessonInv' /\ PagesMoved
    <2>1. PICK c : c = coord[p]
      OBVIOUS
    <2>2. CoordSound(c, pages, call[p]) /\ c.pc = "observing"
      BY <1>3, <2>1 DEF LessonInv, CoordsSound
    <2>3. ScanSound(c, pages) /\ ObservingSound(c, call[p])
      BY <2>2 DEF CoordSound
    <2>4. Saw(c, pages)
      BY <2>2, <2>3 DEF ScanSound, ObservingSound, Saw
    <2>5. CoordSound(Observed(c), pages, Idle)
      BY <2>4, ObservedSound
    <2> QED BY <1>5, <1>7, <2>1, <2>5
  <1>8. ASSUME _replace_page(p, [Current(p) EXCEPT !.status = "terminal", !.receipt = Outcome(view, t)])
        PROVE  LessonInv' /\ PagesMoved
    <2>1. PICK r : r = Outcome(view, t)
      OBVIOUS
    <2>2. PICK page : page = [Current(p) EXCEPT !.status = "terminal", !.receipt = r]
      OBVIOUS
    <2>3. \/ view = "completed" /\ r = [ok |-> TRUE, cards |-> detail(t)]
          \/ r = [ok |-> FALSE, cards |-> {}]
      BY <2>1 DEF Outcome, Receipt
    <2>4. r \in [ok : BOOLEAN, cards : Outputs \union {{}}]
      <3>1. CASE view = "completed" /\ r = [ok |-> TRUE, cards |-> detail(t)]
        <4>1. detail(t) \in Outputs
          BY <1>4, <3>1
        <4> QED BY <3>1, <4>1
      <3>2. CASE r = [ok |-> FALSE, cards |-> {}]
        BY <3>2
      <3> QED BY <2>3, <3>1, <3>2
    <2>5. NextPage(Current(p), page)
      BY <1>4, <2>2, <2>4 DEF NextPage
    <2>6. page.wrapper = Current(p).wrapper /\ page.receipt = r
      BY <1>3, <2>2, CurrentForm
    <2>7. ASSUME page.receipt.ok
          PROVE  LET u == child_task_id(Position(p), page.wrapper)
                 IN  worker[u].status = "completed" /\ page.receipt.cards = worker[u].output
      <3>1. view = "completed" /\ r.cards = detail(t)
        BY <2>3, <2>6, <2>7
      <3> QED BY <1>4, <2>6, <3>1 DEF detail
    <2>8. _replace_page(p, page)
      BY <1>8, <2>1, <2>2
    <2>9. coord[p].pc \in {"working", "observing"}
      BY <1>3
    <2> QED BY <1>3, <2>5, <2>7, <2>8, <2>9, WriteKeeps
  <1> QED BY <1>1, <1>2, <1>6, <1>7, <1>8 DEF _observe_claimed

(* A review copies the stored lesson, which is over.                        *)
LEMMA ReviewKeeps ==
  ASSUME LessonInv, NEW p \in Procs, review_completed(p)
  PROVE  LessonInv' /\ PagesMoved
  <1>1. PICK d : d = [pc |-> "publishing", copy |-> pages, left |-> DOMAIN pages]
    OBVIOUS
  <1>2. /\ pages # None /\ pages # <<>> /\ Reviewable(pages) /\ CoordGoto(p, d)
        /\ UNCHANGED pages /\ UNCHANGED owners /\ UNCHANGED workerVars
    BY <1>1 DEF review_completed
  <1>3. DOMAIN pages # {}
    <2>1. pages \in Checkpoints
      BY <1>2 DEF LessonInv, PagesSound, Lawful
    <2>2. PICK k \in 0..MaxPages : DOMAIN pages = 1..k
      BY <2>1, CheckpointForm
    <2>3. pages = [n \in 1..k |-> pages[n]]
      BY <2>1, <2>2, CheckpointForm
    <2>4. k = 0 => pages = <<>>
      BY <2>3, EmptySeq
    <2>5. 1 \in DOMAIN pages
      BY <1>2, <2>2, <2>4, LessonAssumption
    <2> QED BY <2>5
  <1>4. PublishingSound(d, pages)
    BY <1>1, <1>2, <1>3 DEF PublishingSound
  <1>5. CoordSound(d, pages, call'[p])
    BY <1>1, <1>4 DEF CoordSound
  <1>6. CoordSound(coord'[p], pages', call'[p])
    BY <1>2, <1>5, CoordMoves
  <1>7. PagesMoved /\ NewReceiptsTrue
    BY <1>2, PagesStand
  <1>8. OwnersSound'
    BY <1>2, <1>7, OwnersStaySound DEF LessonInv
  <1> QED BY <1>2, <1>6, <1>7, <1>8, ServiceStands, CoordMoves, LessonStepKeeps

(* The owner that is published names the stored lesson.                     *)
LEMMA PublishKeeps ==
  ASSUME LessonInv, NEW p \in Procs, publish_owner(p)
  PROVE  LessonInv' /\ PagesMoved
  <1>1. PICK c : c = coord[p]
    OBVIOUS
  <1>2. PICK n : n = Min(c.left)
    OBVIOUS
  <1>3. PICK receipt : receipt = OwnerReceipt(child_task_id(n, c.copy[n].wrapper), c.copy)
    OBVIOUS
  <1>4. PICK x : /\ CoordGoto(p, x)
                 /\ \/ x = [c EXCEPT !.left = @ \ {n}] /\ c.left # {n}
                    \/ x = Idle
    BY <1>1, <1>2 DEF publish_owner
  <1>5. /\ c.pc = "publishing" /\ registry_create(n, receipt)
        /\ UNCHANGED pages /\ UNCHANGED workerVars
    BY <1>1, <1>2, <1>3 DEF publish_owner
  <1>6. PublishingSound(c, pages)
    BY <1>1, <1>5 DEF LessonInv, CoordsSound, CoordSound
  <1>7. /\ pages # None /\ c.copy = pages /\ Reviewable(pages)
        /\ c.left \in SUBSET DOMAIN pages /\ c.left # {} /\ pages \in Checkpoints
    BY <1>6 DEF PublishingSound, LessonInv, PagesSound, Lawful
  <1>8. DOMAIN pages \in SUBSET Nat /\ DOMAIN pages \in SUBSET Positions
    BY <1>7, PositionsFinite, CheckpointForm
  <1>9. n \in c.left /\ n \in DOMAIN pages /\ n \in Positions
    BY <1>2, <1>7, <1>8, FirstPosition
  <1>10. CoordSound(x, pages, call'[p])
    <2>1. CASE x = Idle
      BY <2>1, IdleSound
    <2>2. CASE x = [c EXCEPT !.left = @ \ {n}] /\ c.left # {n}
      <3>1. x = [pc |-> "publishing", copy |-> c.copy, left |-> c.left \ {n}]
        BY <1>5, <1>6, <2>2 DEF PublishingSound
      <3>2. x.pc = "publishing" /\ x.copy = c.copy /\ x.left = c.left \ {n}
        BY <3>1
      <3>3. c.left \ {n} # {} /\ (c.left \ {n}) \in SUBSET DOMAIN pages
        BY <1>7, <2>2
      <3>4. PublishingSound(x, pages)
        BY <1>7, <3>1, <3>2, <3>3 DEF PublishingSound
      <3> QED BY <3>2, <3>4 DEF CoordSound
    <2> QED BY <1>4, <2>1, <2>2
  <1>11. CoordSound(coord'[p], pages', call'[p])
    BY <1>4, <1>5, <1>10, CoordMoves
  <1>12. PagesMoved /\ NewReceiptsTrue
    BY <1>5, PagesStand
  <1>13. OwnersSound'
    <2>1. owners = [m \in Positions |-> owners[m]]
          /\ \A m \in Positions : owners[m] # None =>
                pages # None /\ m \in DOMAIN pages /\ owners[m].lesson = pages
      BY DEF LessonInv, OwnersSound
    <2>2. receipt.lesson = pages
      BY <1>3, <1>7 DEF OwnerReceipt
    <2>3. /\ owners' = [m \in Positions |-> owners'[m]]
          /\ \A m \in Positions : owners'[m] = owners[m] \/ (m = n /\ owners'[m] = receipt)
      BY <1>5, <2>1 DEF registry_create
    <2>4. pages' = pages
      BY <1>5
    <2> QED BY <1>7, <1>9, <2>1, <2>2, <2>3, <2>4 DEF OwnersSound
  <1> QED BY <1>5, <1>4, <1>11, <1>12, <1>13, ServiceStands, CoordMoves, LessonStepKeeps

(* The service goes on under a coordinator.                                 *)
LEMMA ServiceKeeps ==
  ASSUME LessonInv, NEW p \in Procs, WorkerStep(p) \/ gateway_failure(p), UNCHANGED lessonVars
  PROVE  LessonInv' /\ PagesMoved
  <1>1. WorkersInv' /\ RowsForward
    BY ServiceSteps, GatewayFailureSteps, StepsKeep DEF LessonInv
  <1>2. Serving(p, call[p].task) /\ Quiet
    BY ServiceServes DEF Served, LessonInv
  <1>3. /\ CallsServe' /\ \A q \in Procs : q # p => call'[q] = call[q]
        /\ call'[p].task = call[p].task /\ call'[p].pc \in Inside \union {"returned"}
    BY <1>1, <1>2, CallsStillServe DEF LessonInv
  <1>4. ServiceInv' /\ NewRowsCommitted
    BY <1>2, <1>3 DEF ServiceInv, Quiet, NewRowsCommitted
  <1>5. UNCHANGED pages /\ UNCHANGED coord /\ UNCHANGED owners
    BY DEF lessonVars
  <1>6. PagesMoved /\ NewReceiptsTrue
    BY <1>5, PagesStand
  <1>7. OwnersSound'
    BY <1>5, <1>6, OwnersStaySound DEF LessonInv
  <1>8. PICK c : c = coord[p]
    OBVIOUS
  <1>9. CoordSound(c, pages, call[p])
    BY <1>8 DEF LessonInv, CoordsSound
  <1>10. c.pc = "observing" => ObservingSound(c, call'[p])
    BY <1>3, <1>9 DEF CoordSound, ObservingSound
  <1>11. CoordSound(c, pages, call'[p])
    BY <1>9, <1>10 DEF CoordSound
  <1>12. CoordSound(coord'[p], pages', call'[p])
    BY <1>5, <1>8, <1>11
  <1>13. coord' = [q \in Procs |-> coord'[q]] /\ \A q \in Procs : coord'[q] = coord[q]
    BY <1>5 DEF LessonInv, CoordsSound
  <1> QED BY <1>1, <1>3, <1>4, <1>6, <1>7, <1>12, <1>13, LessonStepKeeps

(* The process dies.                                                        *)
LEMMA LessonCrashKeeps ==
  ASSUME LessonInv, NEW p \in Procs, LessonCrash(p)
  PROVE  LessonInv' /\ PagesMoved
  <1>1. /\ CoordGoto(p, Idle) /\ Goto(p, Idle) /\ UNCHANGED pages /\ UNCHANGED owners
        /\ UNCHANGED worker /\ UNCHANGED <<child, proofs>>
    BY DEF LessonCrash
  <1>2. PagesMoved /\ NewReceiptsTrue
    BY <1>1, PagesStand
  <1>3. OwnersSound'
    BY <1>1, <1>2, OwnersStaySound DEF LessonInv
  <1>4. CoordSound(coord'[p], pages', call'[p])
    BY <1>1, CoordMoves, IdleSound
  <1> QED BY <1>1, <1>2, <1>3, <1>4, ServiceDropped, CoordMoves, LessonStepKeeps

-----------------------------------------------------------------------------
(* The invariant of the lesson.                                             *)

(* Every step of every process keeps it, and only moves the pages forward.  *)
LEMMA EveryLessonStep ==
  ASSUME LessonInv, Next PROVE LessonInv' /\ PagesMoved
  <1>1. PICK p \in Procs :
           \/ lesson_start(p)
           \/ advance(p)
           \/ review_completed(p)
           \/ LessonStep(p)
           \/ gateway_failure(p) /\ UNCHANGED lessonVars
           \/ LessonCrash(p)
    BY DEF Next
  <1>2. LessonStep(p) => LessonInv' /\ PagesMoved
    BY ResolveKeeps, PrepareKeeps, ClaimKeeps, ObserveStartKeeps, ObserveClaimedKeeps,
       PublishKeeps, ServiceKeeps DEF LessonStep
  <1> QED BY <1>1, <1>2, LessonStartKeeps, AdvanceKeeps, ReviewKeeps, ServiceKeeps, LessonCrashKeeps

(* Before the lesson starts there is nothing.                               *)
LEMMA LessonStarts ==
  ASSUME Init PROVE LessonInv
  <1>1. InitWorkers /\ pages = None /\ coord = [p \in Procs |-> Idle]
        /\ owners = [n \in Positions |-> None]
    BY DEF Init
  <1>2. WorkersInv
    BY <1>1, WorkersStart
  <1>3. ServiceInv
    BY <1>1 DEF InitWorkers, ServiceInv, CallsServe, Serves, RowsUnanswered, ChildrenSilent,
                Idle, Inside, Absent, Row
  <1>4. CoordsSound
    BY <1>1, IdleSound DEF CoordsSound
  <1>5. PagesSound /\ OwnersSound
    BY <1>1 DEF PagesSound, OwnersSound
  <1>6. Committed
    BY <1>1 DEF Committed, InitWorkers
  <1> QED BY <1>2, <1>3, <1>4, <1>5, <1>6 DEF LessonInv

(* A step that changes nothing.                                             *)
LEMMA LessonStutters ==
  ASSUME LessonInv, UNCHANGED <<workerVars, lessonVars>> PROVE LessonInv'
  <1>1. UNCHANGED workerVars /\ UNCHANGED lessonVars
    OBVIOUS
  <1>2. WorkersInv' /\ ServiceInv'
    BY <1>1, ServiceStands
  <1>3. UNCHANGED pages /\ UNCHANGED coord /\ UNCHANGED owners /\ UNCHANGED worker /\ UNCHANGED call
    BY <1>1 DEF lessonVars, workerVars
  <1>4. PagesSound' /\ OwnersSound' /\ Committed'
    BY <1>3 DEF LessonInv, PagesSound, OwnersSound, Committed
  <1>5. CoordsSound'
    BY <1>3 DEF LessonInv, CoordsSound
  <1> QED BY <1>2, <1>4, <1>5 DEF LessonInv

(* LessonInv holds of every state a lesson reaches.                         *)
LEMMA LessonInvariant == Spec => []LessonInv
  <1>1. Init => LessonInv
    BY LessonStarts
  <1>2. LessonInv /\ [Next]_<<workerVars, lessonVars>> => LessonInv'
    BY EveryLessonStep, LessonStutters
  <1> QED BY <1>1, <1>2, PTL DEF Spec

-----------------------------------------------------------------------------
(* What the invariant says of the lesson.                                   *)

(* Types.                                                                   *)
LEMMA LessonTypes ==
  ASSUME LessonInv PROVE TypeOK
  <1>1. ASSUME NEW t \in Tasks
        PROVE  worker[t] \in [status : {"absent", "pending", "suspended", "resume_claimed"} \union Terminal,
                              generation : {n \in 0..Dialogues : n = 0 \/ n < Dialogues},
                              continuation : 0..Dialogues,
                              response : Responses \union {None}, output : Outputs \union {None}]
    <2>1. worker[t] \in Rows
      BY DEF LessonInv, WorkersInv, Typed
    <2>2. /\ worker[t].status \in {"absent", "pending", "suspended"} \union Terminal
          /\ worker[t].generation = 0
          /\ worker[t].continuation = 0 \/ (worker[t].continuation = 1 /\ 1 <= Dialogues)
      BY DEF LessonInv, ServiceInv, RowsUnanswered
    <2>3. Dialogues \in Nat
      BY WorkersAssumption
    <2>4. 0 \in {n \in 0..Dialogues : n = 0 \/ n < Dialogues}
      BY <2>3
    <2>5. worker[t].continuation \in 0..Dialogues
      BY <2>2, <2>3
    <2> QED BY <2>1, <2>2, <2>4, <2>5 DEF Rows
  <1>2. ASSUME NEW t \in Tasks
        PROVE  /\ child[t].status \in {"absent", "running", "suspended"} \union Endings
               /\ proofs[t] \in Outputs \union {None}
    BY DEF LessonInv, WorkersInv, Typed, Children
  <1>3. ASSUME NEW p \in Procs
        PROVE  call[p].pc \in {"idle", "returned", "starting", "creating", "claiming", "resuming",
                               "answering", "driving", "inspecting", "proving", "persisting"}
    BY DEF LessonInv, WorkersInv, Typed, Calls, Inside, Idle
  <1>4. WorkersTypeOK
    BY <1>1, <1>2, <1>3 DEF WorkersTypeOK
  <1>5. pages # None => pages \in Checkpoints
    BY DEF LessonInv, PagesSound, Lawful
  <1>6. \A p \in Procs : coord[p].pc \in {"idle", "loading", "working", "observing", "publishing"}
    BY DEF LessonInv, CoordsSound, CoordSound
  <1> QED BY <1>4, <1>5, <1>6 DEF TypeOK

(* The children are those of their pages, and proved.                       *)
LEMMA LessonChildren ==
  ASSUME LessonInv PROVE ChildrenAreCommitted
  <1>1. ASSUME pages # None, NEW n \in DOMAIN pages,
               pages[n].status = "terminal", pages[n].receipt.ok
        PROVE  _verify(child_task_id(n, pages[n].wrapper))
    <2>1. PICK t : t = child_task_id(n, pages[n].wrapper)
      OBVIOUS
    <2>2. worker[t].status = "completed"
      BY <1>1, <2>1 DEF LessonInv, Committed
    <2>3. Lawful(pages)
      BY <1>1 DEF LessonInv, PagesSound
    <2>4. n \in Positions /\ pages[n].wrapper \in Wrappers
      BY <1>1, <2>3, CheckpointForm DEF Lawful
    <2>5. t \in Tasks
      BY <2>1, <2>4, LessonAssumption DEF child_task_id
    <2>6. CompletedIsProved
      BY WorkersAssumption
         DEF LessonInv, WorkersInv, RowsAreProved, ChildrenProduce, CompletedIsProved, Produced, _verify
    <2> QED BY <2>1, <2>2, <2>5, <2>6 DEF CompletedIsProved
  <1> QED BY <1>1 DEF LessonInv, Committed, ChildrenAreCommitted

(* The cap, the order of the plan, and the owners.                          *)
LEMMA LessonSuffices ==
  ASSUME LessonInv
  PROVE  TypeOK /\ InFlightWithinCap /\ PlanOrder /\ ChildrenAreCommitted /\ OwnersAreFinal
  <1>1. InFlightWithinCap /\ PlanOrder
    BY DEF LessonInv, PagesSound, Lawful, Ordered, InFlightWithinCap, PlanOrder
  <1>2. OwnersAreFinal
    BY DEF LessonInv, OwnersSound, Reviewable, OwnersAreFinal
  <1> QED BY <1>1, <1>2, LessonTypes, LessonChildren

(* A page never moves back, and keeps its wrapper.                          *)
LEMMA PagesGoForward ==
  ASSUME LessonInv, PagesMoved, pages # None, NEW n \in DOMAIN pages, pages'[n] # pages[n]
  PROVE  /\ Rank(pages'[n].status) > Rank(pages[n].status)
         /\ pages[n].wrapper \in {None, pages'[n].wrapper}
  <1>1. Lawful(pages) /\ Reaches(pages, pages')
    BY DEF LessonInv, PagesSound, PagesMoved
  <1>2. /\ Rank(pages'[n].status) > Rank(pages[n].status)
        /\ pages[n].status \notin {"pending", "resolving"} => pages'[n].wrapper = pages[n].wrapper
    BY <1>1 DEF Reaches
  <1>3. pages[n].status \in {"pending", "resolving"} => pages[n].wrapper = None
    BY <1>1 DEF Lawful
  <1> QED BY <1>2, <1>3

(* For every plan, setting and number of processes, and wherever they die:  *)
(* no more than Concurrency children of a lesson are claimed, the pages are  *)
(* taken in the order of the plan and never move back, a child exists only   *)
(* for the task its page has committed to, a page that reports cards reports *)
(* what its child produced and can prove, and a published owner belongs to a *)
(* lesson that is over.                                                     *)
THEOREM LessonHolds == Spec => LessonIsCoherent
  <1>1. LessonInv => TypeOK /\ InFlightWithinCap /\ PlanOrder /\ ChildrenAreCommitted /\ OwnersAreFinal
    BY LessonSuffices
  <1>2. LessonInv /\ [Next]_<<workerVars, lessonVars>> =>
           [pages # None => \A n \in DOMAIN pages : pages'[n] # pages[n] =>
               /\ Rank(pages'[n].status) > Rank(pages[n].status)
               /\ pages[n].wrapper \in {None, pages'[n].wrapper}]_pages
    <2>1. LessonInv /\ PagesMoved =>
             (pages # None => \A n \in DOMAIN pages : pages'[n] # pages[n] =>
                 /\ Rank(pages'[n].status) > Rank(pages[n].status)
                 /\ pages[n].wrapper \in {None, pages'[n].wrapper})
      BY PagesGoForward
    <2>2. UNCHANGED <<workerVars, lessonVars>> => UNCHANGED pages
      BY DEF lessonVars
    <2> QED BY <2>1, <2>2, EveryLessonStep
  <1> QED BY <1>1, <1>2, LessonInvariant, PTL DEF Spec, LessonIsCoherent, PagesMoveForward
=============================================================================

------------------------- MODULE StudySessionsProofs -------------------------
(***************************************************************************)
(* What the reducers guarantee whatever the commands read: the stream only *)
(* changes in `append`, which takes a batch the reducers accept, so one    *)
(* owner per run and the end of a session follow from the events alone,    *)
(* for any number of clients, sessions and requests and any interleaving   *)
(* of their reads.  What the commands read and are told is the second      *)
(* half: an invariant of the commands beside one of the stream.            *)
(***************************************************************************)
EXTENDS StudySessions, SequenceTheorems, FiniteSetTheorems, WellFoundedInduction, TLAPS

Fields == {"pc", "req", "run", "seen", "at", "built", "outcome"}

\* A record of a command; one in progress has a request of the model.
IsCommand(me) ==
    /\ me = [f \in Fields |-> me[f]]
    /\ me.pc # "idle" => me.req \in Requests

\* Commands are well formed.
CommandsOK ==
    /\ client = [c \in Clients |-> client[c]]
    /\ \A c \in Clients : IsCommand(client[c])

\* One that may take a step.
InProgress(me) == IsCommand(me) /\ me.req \in Requests

(* Whatever a command returns or raises, its record is well formed.        *)
LEMMA DoneIsCommand ==
    ASSUME NEW me, NEW o
    PROVE  IsCommand(Done(me, o)) /\ IsCommand(Idle)
  BY DEF IsCommand, Done, Idle, Fields

(* A command in progress stays so when it moves on and stores what it read.*)
LEMMA GotoInProgress ==
    ASSUME NEW me, InProgress(me), NEW pc PROVE InProgress(Goto(me, pc))
  BY DEF InProgress, IsCommand, Goto, Fields

(* Reading the length of the stream keeps the request.                     *)
LEMMA ReadInProgress ==
    ASSUME NEW me, InProgress(me), NEW pc PROVE InProgress(Read(me, pc))
  BY DEF InProgress, IsCommand, Read, Fields

(* So does building the batch.                                             *)
LEMMA PreparedInProgress ==
    ASSUME NEW me, InProgress(me), NEW n PROVE InProgress(Prepared(me, n))
  BY DEF InProgress, IsCommand, Prepared, Fields

(* So does naming the run of a question.                                   *)
LEMMA WithRunInProgress ==
    ASSUME NEW me, InProgress(me), NEW id PROVE InProgress(WithRun(me, id))
  BY DEF InProgress, IsCommand, WithRun, Fields

(* A new command is in progress.                                           *)
LEMMA CallInProgress ==
    ASSUME NEW r \in Requests
    PROVE  InProgress(Called(r))
  BY DEF InProgress, IsCommand, Called, Idle, Fields

(* Replacing one command by a well-formed one keeps all well formed.       *)
LEMMA BecomeKeeps ==
    ASSUME CommandsOK, NEW c \in Clients, NEW me, IsCommand(me), Become(c, me)
    PROVE  CommandsOK'
  BY DEF CommandsOK, Become

\* The steps of a command that is called, and of one in progress, lead to one of
\* the records above.
Follows(me, next) ==
    \/ \E o : next = Done(me, o)
    \/ \E pc : next = Goto(me, pc)
    \/ \E pc : next = Read(me, pc)
    \/ \E n : next = Prepared(me, n)
    \/ \E pc, n : next = Prepared(Read(me, pc), n)
    \/ \E pc, o : next = Done(Read(me, pc), o)
    \/ \E id : next = WithRun(me, id)

Advances(c) ==
    \E me, next : InProgress(me) /\ Follows(me, next) /\ Become(c, next)

(* Such a step keeps the commands well formed.                             *)
LEMMA AdvancesKeeps ==
    ASSUME CommandsOK, NEW c \in Clients, Advances(c)
    PROVE  CommandsOK'
  <1>1. PICK me, next : InProgress(me) /\ Follows(me, next) /\ Become(c, next)
    BY DEF Advances
  <1>2. IsCommand(next)
    BY <1>1, DoneIsCommand, GotoInProgress, ReadInProgress, PreparedInProgress,
       WithRunInProgress DEF Follows, InProgress
  <1> QED BY <1>1, <1>2, BecomeKeeps

(* Every step but a crash is of that form.                                 *)
LEMMA StepsAdvance ==
    ASSUME CommandsOK, NEW c \in Clients
    PROVE  /\ sequence_first(c) \/ create(c) \/ start(c) \/ _transition(c) => Advances(c)
           /\ _current_sequence(c) \/ record_view(c) \/ ask(c) \/ ask_view(c) => Advances(c)
           /\ _stored_status(c) \/ _execute(c) \/ _finalize(c) => Advances(c)
           /\ record_learner_turn(c) \/ record_assistant_turn(c) => Advances(c)
           /\ _expect_sequence(c) \/ append(c) \/ append_fails(c) \/ raced(c) => Advances(c)
  <1>0. client[c].pc # "idle" => InProgress(client[c])
    BY DEF CommandsOK, IsCommand, InProgress
  <1>1. sequence_first(c) => Advances(c)
    BY CallInProgress DEF sequence_first, Calls, Follows, Advances
  <1>2. create(c) => Advances(c)
    BY <1>0 DEF create, Steps, Follows, Advances
  <1>3. start(c) => Advances(c)
    BY CallInProgress DEF start, Calls, Follows, Advances
  <1>4. _transition(c) => Advances(c)
    BY CallInProgress DEF _transition, Calls, Follows, Advances
  <1>5. _current_sequence(c) => Advances(c)
    BY <1>0 DEF _current_sequence, Steps, Follows, Advances
  <1>6. record_view(c) => Advances(c)
    BY <1>0 DEF record_view, Steps, Follows, Advances
  <1>7. ask(c) => Advances(c)
    BY CallInProgress DEF ask, Calls, Follows, Advances
  <1>8. ask_view(c) => Advances(c)
    BY <1>0 DEF ask_view, Steps, Follows, Advances
  <1>9. _stored_status(c) => Advances(c)
    BY <1>0 DEF _stored_status, Follows, Advances
  <1>10. _execute(c) => Advances(c)
    BY <1>0 DEF _execute, Follows, Advances
  <1>11. _finalize(c) => Advances(c)
    BY <1>0 DEF _finalize, Steps, Follows, Advances
  <1>12. record_learner_turn(c) => Advances(c)
    BY CallInProgress DEF record_learner_turn, Turn, Calls, Follows, Advances
  <1>13. record_assistant_turn(c) => Advances(c)
    <2> SUFFICES ASSUME record_assistant_turn(c) PROVE Advances(c)
      OBVIOUS
    <2>1. PICK me : /\ InProgress(me)
                     /\ \/ \E o : Become(c, Done(me, o))
                        \/ \E o : Become(c, Done(Read(me, "expect"), o))
                        \/ Become(c, Read(me, "expect"))
      BY CallInProgress DEF record_assistant_turn, Turn, Calls
    <2> QED BY <2>1 DEF Follows, Advances
  <1>14. _expect_sequence(c) => Advances(c)
    BY <1>0 DEF _expect_sequence, Steps, Follows, Advances
  <1>15. append(c) => Advances(c)
    BY <1>0 DEF append, Follows, Advances
  <1>16. append_fails(c) => Advances(c)
    BY <1>0 DEF append_fails, Steps, Follows, Advances
  <1>17. raced(c) => Advances(c)
    BY <1>0 DEF raced, Steps, Follows, Advances
  <1> QED BY <1>1, <1>2, <1>3, <1>4, <1>5, <1>6, <1>7, <1>8, <1>9, <1>10, <1>11, <1>12,
             <1>13, <1>14, <1>15, <1>16, <1>17

-----------------------------------------------------------------------------
(* The stream and the batches.                                             *)

IsSeq(l) == \E S : l \in Seq(S)

\* The session of an event is absent exactly when the event creates the course.
Scoped(e) == (e.type = "created" /\ e.session = None) \/ (e.type # "created" /\ e.session \in Sessions)

\* A sequence of scoped events; only one that stands alone changes the status of
\* a session.
BatchOK(b) ==
    /\ IsSeq(b)
    /\ \A k \in 1..Len(b) :
        Scoped(b[k]) /\ (Len(b) # 1 => b[k].type \notin Transitions)

(* One scoped event is a batch of that form.                               *)
LEMMA OneEvent ==
    ASSUME NEW e, Scoped(e) PROVE BatchOK(<<e>>)
  <1>1. <<e>> \in Seq({e}) /\ Len(<<e>>) = 1 /\ <<e>>[1] = e
    OBVIOUS
  <1>2. \A k \in 1..Len(<<e>>) : k = 1
    BY <1>1
  <1> QED BY <1>1, <1>2 DEF BatchOK, IsSeq

(* So are several events that change no status.                            *)
LEMMA SeveralEvents ==
    ASSUME NEW S, NEW b \in Seq(S), \A e \in S : Scoped(e) /\ e.type \notin Transitions
    PROVE  BatchOK(b)
  <1>1. \A k \in 1..Len(b) : b[k] \in S
    OBVIOUS
  <1> QED BY <1>1 DEF BatchOK, IsSeq

(* Every batch is of that form.                                            *)
LEMMA BatchShape ==
    ASSUME NEW me, me.req \in Requests
    PROVE  BatchOK(Batch(me))
  <1> DEFINE r == me.req
             E(type, what) == Event(type, r, me.run, what, me.at)
  <1>1. r.op \in Operations /\ r.session \in (IF r.op \in Creating THEN {None} ELSE Sessions)
    BY RequestAssumption
  <1>2. \A type, what : E(type, what).type = type /\ E(type, what).session = r.session
    BY DEF Event
  <1> HIDE DEF E
  <1>3. CASE r.op \in Creating
    <2>1. Batch(me) = <<E("created", r.what)>>
      BY <1>3 DEF Batch, E, Creating, Lifecycle, Answering
    <2>2. Scoped(E("created", r.what))
      BY <1>1, <1>2, <1>3 DEF Scoped
    <2> QED BY <2>1, <2>2, OneEvent
  <1>4. CASE r.op \in Lifecycle \cup {"start", "learner", "assistant"}
    <2>1. PICK type, what :
                /\ type \in {"started", "suspended", "resumed", "ended", "human", "turn"}
                /\ Batch(me) = <<E(type, what)>>
      BY <1>4 DEF Batch, E, Creating, Lifecycle, Answering
    <2>2. type # "created"
      BY <2>1
    <2>3. r.session \in Sessions
      BY <1>1, <1>4 DEF Creating, Lifecycle
    <2>4. Scoped(E(type, what))
      BY <1>2, <2>2, <2>3 DEF Scoped
    <2> QED BY <2>1, <2>4, OneEvent
  <1>5. CASE r.op = "note"
    <2>1. Batch(me) = <<E("note", r.what), E("summary", me.built)>>
      BY <1>5 DEF Batch, E, Creating, Lifecycle, Answering
    <2>2. \A type \in {"note", "summary"} : \A what :
            Scoped(E(type, what)) /\ E(type, what).type \notin Transitions
      BY <1>1, <1>2, <1>5 DEF Scoped, Creating, Transitions
    <2>3. Batch(me) \in Seq({E("note", r.what), E("summary", me.built)})
      BY <2>1
    <2> QED BY <2>2, <2>3, SeveralEvents
  <1>6. CASE r.op \in Answering
    <2>1. Batch(me) = <<E("question", r.what), E("answer", r.what), E("summary", me.built)>>
      BY <1>6 DEF Batch, E, Creating, Lifecycle, Answering
    <2>2. \A type \in {"question", "answer", "summary"} : \A what :
            Scoped(E(type, what)) /\ E(type, what).type \notin Transitions
      BY <1>1, <1>2, <1>6 DEF Scoped, Creating, Transitions, Answering
    <2>3. Batch(me) \in Seq({E("question", r.what), E("answer", r.what), E("summary", me.built)})
      BY <2>1
    <2> QED BY <2>2, <2>3, SeveralEvents
  <1> QED BY <1>1, <1>3, <1>4, <1>5, <1>6 DEF Operations, Creating, Lifecycle, Answering

(* What an accepted batch adds to a stream: every new event has a fresh    *)
(* identity and was accepted by the reducers on the events before it.      *)
LEMMA AcceptedEvents ==
    ASSUME NEW l, IsSeq(l), NEW b, IsSeq(b), AcceptsAll(l, b), NEW j \in DOMAIN (l \o b)
    PROVE  \/ j \in DOMAIN l /\ (l \o b)[j] = l[j]
           \/ \E before :
                /\ IsSeq(before) /\ DOMAIN before = 1..(j - 1)
                /\ \A i \in 1..(j - 1) : before[i] = (l \o b)[i]
                /\ \A i \in 1..(j - 1) : event_id(before[i]) # event_id((l \o b)[j])
                /\ Reduces(before, (l \o b)[j])
  <1>1. PICK S : l \in Seq(S) BY DEF IsSeq
  <1>2. PICK T : b \in Seq(T) BY DEF IsSeq
  <1>3. l \in Seq(S \cup T) /\ b \in Seq(S \cup T)
    BY <1>1, <1>2
  <1>4. CASE j <= Len(l)
    BY <1>3, <1>4
  <1>5. CASE j > Len(l)
    <2> DEFINE k == j - Len(l)
               before == l \o SubSeq(b, 1, k - 1)
    <2>1. k \in 1..Len(b) /\ (l \o b)[j] = b[k]
      BY <1>3, <1>5
    <2>2. SubSeq(b, 1, k - 1) \in Seq(S \cup T) /\ Len(SubSeq(b, 1, k - 1)) = k - 1
          /\ \A i \in 1..(k - 1) : SubSeq(b, 1, k - 1)[i] = b[i]
      BY <2>1, <1>3
    <2>3. before \in Seq(S \cup T) /\ DOMAIN before = 1..(j - 1)
      <3>1. before \in Seq(S \cup T) /\ Len(before) = Len(l) + (k - 1)
        BY <2>2, <1>3, ConcatProperties
      <3>2. Len(l) + (k - 1) = j - 1 /\ DOMAIN before = 1..Len(before)
        BY <3>1, <2>1, <1>3
      <3> QED BY <3>1, <3>2
    <2>4. \A i \in 1..(j - 1) : before[i] = (l \o b)[i]
      BY <2>1, <2>2, <1>3, <1>5
    <2>5. Reduces(before, b[k]) /\ \A i \in DOMAIN before : event_id(before[i]) # event_id(b[k])
      BY <2>1, <1>3 DEF AcceptsAll, Accepts
    <2>6. IsSeq(before)
      BY <2>3 DEF IsSeq
    <2> HIDE DEF k, before
    <2> QED BY <2>1, <2>3, <2>4, <2>5, <2>6
  <1> QED BY <1>3, <1>4, <1>5

-----------------------------------------------------------------------------
(* The invariants.                                                         *)

\* Well-formed commands, and a stream of scoped events.
Wellformed ==
    /\ CommandsOK
    /\ IsSeq(log)
    /\ \A i \in DOMAIN log : Scoped(log[i])

(* Only append changes the stream, and it adds an accepted batch.          *)
LEMMA StreamStep ==
    ASSUME Wellformed, [Next]_vars
    PROVE  /\ CommandsOK'
           /\ \/ log' = log
              \/ \E b : BatchOK(b) /\ AcceptsAll(log, b) /\ log' = log \o b
  <1>1. CASE UNCHANGED vars
    BY <1>1 DEF vars, Wellformed, CommandsOK, IsCommand
  <1>2. ASSUME NEW c \in Clients, append(c)
        PROVE  \E b : BatchOK(b) /\ AcceptsAll(log, b) /\ log' = log \o b
    <2>1. client[c].req \in Requests
      BY <1>2 DEF append, Wellformed, CommandsOK, IsCommand
    <2> QED BY <1>2, <2>1, BatchShape DEF append
  <1>3. ASSUME NEW c \in Clients, crash(c)
        PROVE  CommandsOK' /\ log' = log
    BY <1>3, DoneIsCommand, BecomeKeeps DEF crash, Wellformed
  <1>4. ASSUME NEW c \in Clients,
               \/ sequence_first(c) \/ create(c) \/ start(c) \/ _transition(c)
               \/ _current_sequence(c) \/ record_view(c) \/ ask(c) \/ ask_view(c)
               \/ _finalize(c) \/ record_learner_turn(c) \/ record_assistant_turn(c)
               \/ _expect_sequence(c) \/ append_fails(c) \/ raced(c)
               \/ _stored_status(c) \/ _execute(c)
        PROVE  log' = log
    BY <1>4 DEF sequence_first, create, start, _transition, _current_sequence, record_view,
        ask, ask_view, _finalize, record_learner_turn, record_assistant_turn,
        _expect_sequence, append_fails, raced, Calls, Steps, _stored_status, _execute
  <1>5. CASE Next
    <2>1. PICK c \in Clients :
            \/ sequence_first(c) \/ create(c) \/ start(c) \/ _transition(c)
            \/ _current_sequence(c) \/ record_view(c) \/ ask(c) \/ ask_view(c)
            \/ _finalize(c) \/ record_learner_turn(c) \/ record_assistant_turn(c)
            \/ _expect_sequence(c) \/ append_fails(c) \/ raced(c)
            \/ _stored_status(c) \/ _execute(c) \/ append(c) \/ crash(c)
      BY <1>5 DEF Next
    <2>2. CommandsOK
      BY DEF Wellformed
    <2> QED BY <2>1, <2>2, <1>2, <1>3, <1>4, StepsAdvance, AdvancesKeeps
  <1> QED BY <1>1, <1>5

(* The stream stays well formed.                                           *)
LEMMA WellformedStep ==
    ASSUME Wellformed, [Next]_vars PROVE Wellformed'
  <1>1. CASE log' = log
    BY <1>1, StreamStep DEF Wellformed, IsSeq, Scoped
  <1>2. ASSUME NEW b, BatchOK(b), log' = log \o b
        PROVE  IsSeq(log') /\ \A i \in DOMAIN log' : Scoped(log'[i])
    <2>1. PICK S : log \in Seq(S)
      BY DEF Wellformed, IsSeq
    <2>2. PICK T : b \in Seq(T)
      BY <1>2 DEF BatchOK, IsSeq
    <2>3. log \in Seq(S \cup T) /\ b \in Seq(S \cup T)
      BY <2>1, <2>2
    <2>4. /\ log' \in Seq(S \cup T) /\ DOMAIN log' = 1..(Len(log) + Len(b))
          /\ Len(log) \in Nat /\ Len(b) \in Nat
          /\ \A i \in DOMAIN log' : log'[i] = IF i <= Len(log) THEN log[i] ELSE b[i - Len(log)]
      BY <2>3, <1>2
    <2>5. \A i \in 1..Len(log) : Scoped(log[i])
      BY <2>1 DEF Wellformed
    <2>6. \A i \in 1..Len(b) : Scoped(b[i])
      BY <1>2 DEF BatchOK
    <2>7. ASSUME NEW i \in DOMAIN log' PROVE Scoped(log'[i])
      BY <2>4, <2>5, <2>6
    <2> QED BY <2>4, <2>7 DEF IsSeq
  <1> QED BY <1>1, <1>2, StreamStep DEF Wellformed, IsSeq, Scoped

(* Every reachable stream consists of scoped events.                       *)
LEMMA WellformedAlways == Spec => []Wellformed
  <1>1. Init => Wellformed
    <2> SUFFICES ASSUME Init PROVE Wellformed
      OBVIOUS
    <2>1. IsSeq(log) /\ DOMAIN log = {}
      BY DEF Init, IsSeq
    <2>2. CommandsOK
      BY DoneIsCommand DEF Init, CommandsOK
    <2> QED BY <2>1, <2>2 DEF Wellformed
  <1>2. Wellformed /\ [Next]_vars => Wellformed'
    BY WellformedStep
  <1> QED BY <1>1, <1>2, PTL DEF Spec

(* A batch the reducers accept has no second owner of a run or key.        *)
LEMMA OwnersStep ==
    ASSUME Wellformed, OneOwnerPerRun, [Next]_vars PROVE OneOwnerPerRun'
  <1>1. CASE log' = log
    BY <1>1 DEF OneOwnerPerRun
  <1>2. ASSUME NEW b, BatchOK(b), AcceptsAll(log, b), log' = log \o b
        PROVE  OneOwnerPerRun'
    <2> DEFINE Owns(e) == e.type \in {"answer", "turn"}
               Apart(e, f) == e.run # f.run /\ (e.session = f.session => e.key # f.key)
    <2>1. \A i \in DOMAIN log' : i \in Nat /\ i >= 1
      BY <1>2, WellformedStep DEF Wellformed, IsSeq
    <2>2. ASSUME NEW i \in DOMAIN log', NEW j \in DOMAIN log', i < j,
                 Owns(log'[i]), Owns(log'[j])
          PROVE  Apart(log'[i], log'[j])
      <3>1. CASE j \in DOMAIN log /\ log'[j] = log[j]
        <4>1. i \in DOMAIN log /\ log'[i] = log[i]
          BY <3>1, <2>1, <2>2, <1>2 DEF BatchOK, Wellformed, IsSeq
        <4> QED BY <3>1, <4>1, <2>1, <2>2 DEF OneOwnerPerRun
      <3>2. ASSUME NEW before, DOMAIN before = 1..(j - 1),
                   \A k \in 1..(j - 1) : before[k] = log'[k],
                   Reduces(before, log'[j])
            PROVE  Apart(log'[i], log'[j])
        <4>1. Unowned(before, log'[j])
          BY <3>2, <2>2 DEF Reduces, reduce_answer_recorded, reduce_assistant_turn_recorded
        <4>2. i \in DOMAIN before /\ before[i] = log'[i]
          BY <3>2, <2>1, <2>2
        <4> QED BY <4>1, <4>2, <2>2 DEF Unowned
      <3> QED BY <3>1, <3>2, <1>2, AcceptedEvents DEF Wellformed, BatchOK
    <2> QED BY <2>1, <2>2 DEF OneOwnerPerRun
  <1> QED BY <1>1, <1>2, StreamStep

(* A run owns at most one answer or assistant turn of the course, and a    *)
(* retry key at most one of its session (reduce_answer_recorded and        *)
(* reduce_assistant_turn_recorded).                                        *)
THEOREM RunsHaveOneOwner == Spec => []OneOwnerPerRun
  <1>1. Init => OneOwnerPerRun
    BY DEF Init, OneOwnerPerRun
  <1>2. Wellformed /\ OneOwnerPerRun /\ [Next]_vars => OneOwnerPerRun'
    BY OwnersStep
  <1> QED BY <1>1, <1>2, WellformedAlways, PTL DEF Spec

(* The status of a session is what its last transition made it.            *)
LEMMA StatusOfLast ==
    ASSUME NEW l, IsSeq(l), NEW s, NEW t \in DOMAIN l, l[t].session = s, l[t].type = "ended",
           \A i \in DOMAIN l : i > t => l[i].session # s \/ l[i].type \notin Transitions
    PROVE  status(l, s) = "ended"
  <1> DEFINE T == Of(l, s, Transitions)
  <1>1. t \in T /\ T \subseteq Nat
    BY DEF Of, Transitions, IsSeq
  <1>2. \A i \in T : i <= t
    BY <1>1 DEF Of
  <1>3. Last(T) = t
    BY <1>1, <1>2 DEF Last
  <1> QED BY <1>1, <1>3 DEF status, StatusAfter

(* Nothing is recorded for an ended session: the reducers refuse it,       *)
(* whatever status a command read before the end.                          *)
THEOREM EndedSessionsAreFinal == Spec => []EndedIsFinal
  <1>1. Init => EndedIsFinal
    BY DEF Init, EndedIsFinal
  <1>2. Wellformed /\ Wellformed' /\ EndedIsFinal /\ [Next]_vars => EndedIsFinal'
    <2> SUFFICES ASSUME Wellformed, Wellformed', EndedIsFinal, [Next]_vars PROVE EndedIsFinal'
      OBVIOUS
    <2>1. CASE log' = log
      BY <2>1 DEF EndedIsFinal
    <2>2. ASSUME NEW b, BatchOK(b), AcceptsAll(log, b), log' = log \o b
          PROVE  EndedIsFinal'
      <3>1. PICK n \in Nat, m \in Nat :
                /\ DOMAIN log = 1..n /\ DOMAIN b = 1..m /\ Len(b) = m /\ DOMAIN log' = 1..(n + m)
                /\ \A i \in 1..(n + m) : log'[i] = IF i <= n THEN log[i] ELSE b[i - n]
        BY <2>2 DEF BatchOK, Wellformed, IsSeq
      <3>2. ASSUME NEW i \in DOMAIN log', NEW j \in DOMAIN log', i < j, log'[i].type = "ended"
            PROVE  log'[j].session # log'[i].session
        <4> DEFINE s == log'[i].session
        <4>1. i \in Nat /\ j \in Nat /\ i >= 1
          BY <3>1
        <4>2. i <= n
          \* An event that ends a session is the only one of its batch.
          <5> SUFFICES ASSUME i > n PROVE FALSE
            BY <3>1, <4>1
          <5>1. m # 1 /\ i - n \in 1..m /\ b[i - n].type = "ended"
            BY <3>1, <3>2, <4>1
          <5> QED BY <5>1, <3>1, <2>2 DEF BatchOK, Transitions
        <4>3. \A k \in 1..n : k > i => log[k].session # s
          BY <3>1, <3>2, <4>1, <4>2 DEF EndedIsFinal
        <4>4. CASE j <= n
          BY <4>3, <4>4, <4>1, <3>1, <3>2
        <4>5. CASE j > n
          <5>1. PICK before :
                    /\ IsSeq(before) /\ DOMAIN before = 1..(j - 1)
                    /\ \A k \in 1..(j - 1) : before[k] = log'[k]
                    /\ Reduces(before, log'[j])
            <6>1. j \notin DOMAIN log
              BY <4>5, <4>1, <3>1
            <6>2. IsSeq(log) /\ IsSeq(b) /\ j \in DOMAIN (log \o b)
              BY <2>2 DEF Wellformed, BatchOK
            <6>3. AcceptsAll(log, b)
              BY <2>2
            <6>4. \E before :
                    /\ IsSeq(before) /\ DOMAIN before = 1..(j - 1)
                    /\ \A k \in 1..(j - 1) : before[k] = (log \o b)[k]
                    /\ Reduces(before, (log \o b)[j])
              BY <6>1, <6>2, <6>3, AcceptedEvents
            <6> QED BY <6>4, <2>2
          <5>2. i \in DOMAIN before /\ before[i] = log'[i]
            BY <5>1, <4>1, <3>2
          <5>3. ASSUME NEW k \in DOMAIN before, k > i
                PROVE  before[k].session # s \/ before[k].type \notin Transitions
            <6>1. CASE k <= n
              BY <6>1, <5>1, <5>3, <4>1, <4>3, <3>1
            <6>2. CASE k > n
              <7>1. k - n \in 1..m /\ m # 1 /\ before[k] = b[k - n]
                BY <6>2, <5>1, <4>1, <3>1
              <7> QED BY <7>1, <3>1, <2>2 DEF BatchOK
            <6> QED BY <6>1, <6>2, <5>1, <4>1, <3>1
          <5>4. status(before, s) = "ended"
            BY <5>1, <5>2, <5>3, <3>2, StatusOfLast
          <5>5. s \in Sessions /\ Scoped(log'[j])
            BY <3>2 DEF Wellformed, Scoped
          <5>6. log'[j].session = s => FALSE
            BY <5>1, <5>4, <5>5, RequestAssumption
               DEF Reduces, reduce_resumed, reduce_ended, Scoped
          <5> QED BY <5>6
        <4> QED BY <4>4, <4>5, <4>1, <3>1
      <3> QED BY <3>2 DEF EndedIsFinal
    <2> QED BY <2>1, <2>2, StreamStep
  <1> QED BY <1>1, <1>2, WellformedAlways, PTL DEF Spec
-----------------------------------------------------------------------------
(***************************************************************************)
(* What commands read and what they are told.  A command that gets to its  *)
(* append with the length it read has read views of the very stream it     *)
(* appends to; what it is told refers to records that stay.                *)
(***************************************************************************)
\* A run is of the session of its answer or turn.
OfSession(run, s) ==
    \/ run \in RunIds /\ run.session = s
    \/ \E r \in Requests : run # None /\ r.run = run /\ r.session = s

\* Every batch is in the stream as a whole, under its own identities, stamped
\* before it.
StreamSound ==
    /\ OneOwnerPerRun
    /\ \A i, j \in DOMAIN log : event_id(log[i]) = event_id(log[j]) => i = j
    /\ \A i, j \in DOMAIN log : log[i].type = "created" /\ log[j].type = "created" => i = j
    /\ \A i \in DOMAIN log :
        LET e == log[i]
            Beside(type) == \E j \in DOMAIN log :
                log[j].type = type /\ log[j].session = e.session
                /\ log[j].key = e.key /\ log[j].run = e.run
        IN  /\ e.at \in 0..Len(log)
            /\ e.type \in {"question", "answer", "turn"} => OfSession(e.run, e.session)
            /\ e.type \in {"note", "human"} => e.run = None
            /\ e.type = "question" => Beside("answer")
            /\ e.type = "summary" =>
                /\ Beside("note") \/ Beside("answer")
                /\ e.what \in Nat /\ e.what <= Interactions(log, e.session)

\* What the append of a recording command relies on.
ReadHolds(me) ==
    LET r == me.req
    IN  /\ Candidates(me, log) = {}
        /\ r.op \notin Creating => status(log, r.session) = "active"
        /\ r.op = "note" => me.built = Interactions(log, r.session) + 1
        /\ r.op \in Answering => me.built = Interactions(log, r.session) + 2
        /\ r.op = "assistant" =>
            /\ Unowned(log, [session |-> r.session, key |-> r.key, run |-> r.run])
            /\ r.what # None => \E i \in Of(log, r.session, {"human"}) : log[i].key = r.what

Untracked == Lifecycle \cup {"start"}

\* The commands at each point.
At(pc) ==
    CASE pc = "create" -> Creating
      [] pc = "sequence" -> Untracked
      [] pc = "view" -> Answering \cup {"note"}
      [] pc \in {"ask", "run", "execute", "finalize"} -> {"ask"}
      [] pc = "expect" -> {"learner", "assistant"}
      [] pc = "raced" -> Operations \ (Lifecycle \cup {"create_at"})
      [] pc = "append" -> Operations

\* A question went on without finding an answer to it: those that are recorded now
\* are of a later session than the one its run was derived from.
LookedUp(run, r) ==
    /\ run.count <= Interactions(log, r.session)
    /\ \A i \in Of(log, r.session, {"answer"}) :
          log[i].key = r.key => run.count < Interactions(Prefix(i), r.session)

\* The run of a command: verified, derived from the question, or none.
RunFits(me) ==
    /\ me.req.op \in {"finalize", "assistant"} => me.run = me.req.run
    /\ me.req.op \notin Answering \cup {"assistant"} \/ me.pc = "ask" => me.run = None
    /\ me.req.op = "ask" /\ me.pc # "ask" =>
            me.run \in RunIds /\ me.run.session = me.req.session /\ LookedUp(me.run, me.req)

\* A command in progress.
ReadSound(me) ==
    /\ me.pc \in Points \ {"idle"} /\ me.req.op \in At(me.pc)
    /\ me.outcome = "none"
    /\ me.seen \in 0..Len(log)
    /\ RunFits(me)
    /\ me.pc = "ask" => \E i \in Of(log, me.req.session, Transitions) : i <= me.seen
    /\ me.pc = "expect" /\ Len(log) = me.seen => ReadHolds(me)
    /\ me.pc = "append" =>
        /\ me.at \in me.seen..Len(log)
        /\ me.req.op \notin Untracked /\ Len(log) = me.seen => ReadHolds(me)

\* A command that ended: its own record, or one that holds its identity.
Acked(me) ==
    \E i \in DOMAIN log :
        /\ i \in Identified(me.req)
        /\ log[i].what = me.req.what
        /\ me.req.run # None => log[i].run = me.req.run

Taken(me) ==
    \E i \in DOMAIN log :
        LET r == me.req
        IN  /\ log[i].type \in {Records(r.op), "answer", "turn", "created"}
            /\ log[i].session = r.session
            /\ r.op \notin Creating => log[i].key = r.key \/ log[i].run = me.run
            /\ Differs(r, log[i]) \/ Rederived(me, i)

AnswerSound(me) ==
    /\ me.outcome = "ok" => me.req \in Requests /\ me.req.op \notin Untracked /\ Acked(me)
    /\ me.outcome = "conflict" => Taken(me)

CommandSound(me) == IF me.pc = "idle" THEN AnswerSound(me) ELSE ReadSound(me)

CommandsSound == \A c \in Clients : CommandSound(client[c])

(* A stretch of the stream, such as a view's prefix.                       *)
Part(l) == DOMAIN l \subseteq DOMAIN log /\ \A i \in DOMAIN l : l[i] = log[i]

(* A prefix is one, and the longest is the stream.                         *)
LEMMA PrefixIsPart ==
  ASSUME IsSeq(log), NEW k \in 0..Len(log)
  PROVE  /\ Part(Prefix(k)) /\ IsSeq(Prefix(k)) /\ DOMAIN Prefix(k) = 1..k
         /\ k = Len(log) => Prefix(k) = log
  <1>1. PICK S : log \in Seq(S)
    BY DEF IsSeq
  <1>2. /\ Prefix(k) \in Seq(S) /\ DOMAIN Prefix(k) = 1..k
        /\ \A i \in 1..k : Prefix(k)[i] = log[i]
    BY <1>1 DEF Prefix
  <1>3. DOMAIN log = 1..Len(log) /\ Len(log) \in Nat
    BY <1>1
  <1>4. k = Len(log) => Prefix(k) = log
    BY <1>1 DEF Prefix
  <1>5. IsSeq(Prefix(k))
    BY <1>2 DEF IsSeq
  <1>6. 1..k \subseteq 1..Len(log)
    BY <1>3
  <1>7. Part(Prefix(k))
    BY <1>2, <1>3, <1>6 DEF Part
  <1> QED BY <1>2, <1>4, <1>5, <1>7

(* The stream is a stretch of itself.                                      *)
LEMMA StreamIsPart ==
  ASSUME IsSeq(log) PROVE Part(log) /\ DOMAIN log = 1..Len(log) /\ Len(log) \in Nat
  BY DEF Part, IsSeq

(* What each command records.                                              *)
LEMMA RecordsAre ==
  /\ \A op \in Creating : Records(op) = "created"
  /\ Records("note") = "note" /\ Records("learner") = "human" /\ Records("assistant") = "turn"
  /\ \A op \in Answering : Records(op) = "answer"
  BY DEF Records, Creating, Answering

(* What makes a record a candidate.                                        *)
LEMMA CandidateIs ==
  ASSUME NEW me, NEW r, me.req = r, r.op \in Operations, r.op \notin Untracked,
         NEW l, NEW i \in Candidates(me, l)
  PROVE  /\ i \in DOMAIN l /\ l[i].type = Records(r.op)
         /\ r.op \notin Creating => l[i].session = r.session
         /\ r.op \notin Creating =>
                l[i].key = r.key \/ (r.op \in Answering \cup {"assistant"} /\ l[i].run = me.run)
  <1>1. CASE r.op \in Creating
    <2>1. Candidates(me, l) = {j \in DOMAIN l : l[j].type = "created"}
      BY <1>1 DEF Candidates, Creating, Answering
    <2> QED BY <1>1, <2>1, RecordsAre
  <1>2. CASE r.op = "note"
    BY <1>2, RecordsAre DEF Candidates, Creating, Answering, Of
  <1>3. CASE r.op = "learner"
    BY <1>3, RecordsAre DEF Candidates, Creating, Answering, Of
  <1>4. CASE r.op = "assistant"
    BY <1>4, RecordsAre DEF Candidates, Creating, Answering, Of
  <1>5. CASE r.op \in Answering
    BY <1>5, RecordsAre DEF Candidates, Creating, Of, Answering
  <1> QED BY <1>1, <1>2, <1>3, <1>4, <1>5 DEF Operations, Untracked, Answering, Creating

(* The same record twice is one record.                                    *)
LEMMA OneRecord ==
  ASSUME Wellformed, StreamSound, NEW op \in Operations \ Untracked,
         NEW i \in DOMAIN log, NEW j \in DOMAIN log,
         log[i].type = Records(op), log[j].type = Records(op),
         log[i].session = log[j].session, op \in Creating \/ log[i].key = log[j].key
  PROVE  i = j
  <1>1. CASE op \in Creating
    <2>1. Records(op) = "created"
      BY <1>1, RecordsAre
    <2> QED BY <2>1 DEF StreamSound
  <1>2. CASE op \in {"note", "learner"}
    <2>1. Records(op) \in {"note", "human"}
      BY <1>2, RecordsAre
    <2>2. log[i].run = None /\ log[j].run = None
      BY <2>1 DEF StreamSound
    <2>3. event_id(log[i]) = event_id(log[j])
      BY <1>2, <2>1, <2>2 DEF event_id, Creating
    <2> QED BY <2>3 DEF StreamSound
  <1>3. CASE op \in Answering \cup {"assistant"}
    <2>1. Records(op) \in {"answer", "turn"}
      BY <1>3, RecordsAre
    <2>2. op \notin Creating
      BY <1>3 DEF Creating, Answering
    <2> QED BY <2>1, <2>2 DEF StreamSound, OneOwnerPerRun
  <1> QED BY <1>1, <1>2, <1>3 DEF Operations, Untracked, Answering, Creating

(* A command that finds its own record is answered by it.                  *)
LEMMA FoundOwn ==
  ASSUME Wellformed, NEW me, me.req \in Requests, me.req.op \notin Untracked, RunFits(me),
         NEW l, Part(l), Existing(me, l) = "ok"
  PROVE  Acked(me)
  <1> DEFINE r == me.req
             I == Candidates(me, l)
  <1>1. PICK i \in I : I = {i} /\ Same(me, l[i])
    BY DEF Existing
  <1>2. r.op \in Operations /\ r.session = IF r.op \in Creating THEN None ELSE r.session
    BY RequestAssumption
  <1>3. /\ i \in DOMAIN l /\ l[i].type = Records(r.op)
        /\ r.op \notin Creating => l[i].session = r.session
        /\ r.op \notin Creating =>
                l[i].key = r.key \/ (r.op \in Answering \cup {"assistant"} /\ l[i].run = me.run)
    BY <1>1, <1>2, CandidateIs
  <1>4. i \in DOMAIN log /\ l[i] = log[i]
    BY <1>3 DEF Part
  <1>5. log[i].what = r.what /\ (r.op \in Answering \cup {"assistant"} => log[i].run = me.run /\ log[i].key = r.key)
    BY <1>1, <1>4 DEF Same
  <1>6. r.op \in Creating => log[i].session = None /\ log[i].type = "created"
    BY <1>3, <1>4, RecordsAre DEF Wellformed, Scoped
  <1>7. r.op \notin Creating => log[i].type # "created"
    BY <1>2, <1>3, <1>4, RecordsAre DEF Operations, Answering, Creating, Lifecycle, Untracked
  <1>8. i \in Identified(r)
    BY <1>2, <1>3, <1>4, <1>5, <1>6, <1>7 DEF Identified
  <1>9. r.run # None => log[i].run = r.run
    BY <1>5, RunAssumption DEF RunFits, Answering
  <1> QED BY <1>4, <1>5, <1>8, <1>9 DEF Acked

(* One that finds another has lost its identity to it.                     *)
LEMMA FoundOther ==
  ASSUME Wellformed, StreamSound, NEW me, me.req \in Requests, me.req.op \notin Untracked,
         RunFits(me), me.pc # "ask", NEW l, Part(l), Existing(me, l) = "conflict"
  PROVE  Taken(me)
  <1> DEFINE r == me.req
             I == Candidates(me, l)
  <1>1. I # {} /\ ~ \E i \in I : I = {i} /\ Same(me, l[i])
    BY DEF Existing
  <1>2. r.op \in Operations /\ r.session = IF r.op \in Creating THEN None ELSE r.session
    BY RequestAssumption
  <1>3. ASSUME NEW i \in I
        PROVE  /\ i \in DOMAIN log /\ l[i] = log[i] /\ log[i].type = Records(r.op)
               /\ log[i].session = r.session
               /\ r.op \notin Creating => log[i].key = r.key \/ log[i].run = me.run
    <2>1. /\ i \in DOMAIN l /\ l[i].type = Records(r.op)
          /\ r.op \notin Creating => l[i].session = r.session
          /\ r.op \notin Creating => l[i].key = r.key \/ l[i].run = me.run
      BY <1>2, <1>3, CandidateIs
    <2>2. i \in DOMAIN log /\ l[i] = log[i]
      BY <2>1 DEF Part
    <2>3. r.op \in Creating => log[i].session = None
      BY <2>1, <2>2, RecordsAre DEF Wellformed, Scoped
    <2> QED BY <1>2, <2>1, <2>2, <2>3
  <1>4. PICK i \in I : ~ Same(me, log[i])
    <2> SUFFICES ASSUME \A i \in I : Same(me, log[i]) PROVE FALSE
      BY <1>1, <1>3
    <2>1. PICK i \in I : TRUE
      BY <1>1
    <2>2. ASSUME NEW j \in I PROVE j = i
      <3>1. r.op \in Creating \/ log[i].key = log[j].key
        <4>1. \A k \in I : r.op \in Creating \/ log[k].key = r.key
          <5> SUFFICES ASSUME NEW k \in I, r.op \notin Creating PROVE log[k].key = r.key
            OBVIOUS
          <5>1. r.op \in Answering \cup {"assistant"} => log[k].key = r.key
            BY DEF Same
          <5>2. r.op \notin Answering \cup {"assistant"} => log[k].key = r.key
            BY <1>2, <1>3, CandidateIs
          <5> QED BY <5>1, <5>2
        <4> QED BY <4>1, <2>1
      <3> QED BY <1>2, <1>3, <2>1, <3>1, OneRecord
    <2>3. I = {i}
      BY <2>1, <2>2
    <2> QED BY <1>1, <1>3, <2>1, <2>3
  <1>5. \/ log[i].what # r.what
        \/ r.op \in Answering \cup {"assistant"} /\ (log[i].run # me.run \/ log[i].key # r.key)
    BY <1>4 DEF Same
  <1>6. r.op \in {"finalize", "assistant"} => r.run # None /\ me.run = r.run
    BY RunAssumption DEF RunFits
  <1>7. CASE Differs(r, log[i])
    BY <1>3, <1>4, <1>7 DEF Taken
  <1>8. CASE ~ Differs(r, log[i])
    <2>1. r.op = "ask" /\ log[i].run # me.run /\ log[i].key = r.key
      BY <1>5, <1>6, <1>8 DEF Differs, Answering
    <2>2. log[i].type = "answer" /\ log[i].session = r.session /\ i \in DOMAIN log
      BY <1>3, <1>4, <2>1, RecordsAre DEF Answering
    <2>3. me.run \in RunIds /\ LookedUp(me.run, r)
      BY <2>1 DEF RunFits
    <2>4. me.run.count < Interactions(Prefix(i), r.session)
      BY <2>1, <2>2, <2>3 DEF LookedUp, Of
    <2>5. Rederived(me, i)
      BY <2>1, <2>3, <2>4, RunAssumption DEF Rederived
    <2> QED BY <1>3, <1>4, <2>5 DEF Taken
  <1> QED BY <1>7, <1>8

(* A lookup answers none exactly when there is no candidate.               *)
LEMMA ExistingIs ==
  ASSUME NEW me, NEW l
  PROVE  /\ Existing(me, l) \in {"none", "ok", "conflict"}
         /\ Existing(me, l) = "none" <=> Candidates(me, l) = {}
  BY DEF Existing

(* The records commands move on to.                                        *)
LEMMA GotoFields ==
  ASSUME NEW me, me = [f \in Fields |-> me[f]], NEW pc
  PROVE  /\ Goto(me, pc).pc = pc /\ Goto(me, pc).seen = me.seen /\ Goto(me, pc).req = me.req
         /\ Goto(me, pc).run = me.run /\ Goto(me, pc).outcome = me.outcome
  BY DEF Goto, Fields

(* Reading the length, building the batch and naming the run.              *)
LEMMA CommandFields ==
  ASSUME NEW me, me = [f \in Fields |-> me[f]], NEW pc, NEW n, NEW id
  PROVE  /\ Read(me, pc).pc = pc /\ Read(me, pc).seen = Len(log) /\ Read(me, pc).req = me.req
         /\ Read(me, pc).run = me.run /\ Read(me, pc).outcome = me.outcome
         /\ Prepared(me, n).pc = "append" /\ Prepared(me, n).at = Len(log)
         /\ Prepared(me, n).built = n /\ Prepared(me, n).seen = me.seen
         /\ Prepared(me, n).req = me.req /\ Prepared(me, n).run = me.run
         /\ Prepared(me, n).outcome = me.outcome
         /\ WithRun(me, id).pc = "run" /\ WithRun(me, id).run = id /\ WithRun(me, id).seen = 0
         /\ WithRun(me, id).req = me.req /\ WithRun(me, id).outcome = me.outcome
         /\ Read(me, pc) = [f \in Fields |-> Read(me, pc)[f]]
  BY DEF Read, Prepared, WithRun, Fields

(* A command that has just been called.                                     *)
LEMMA CalledFields ==
  ASSUME NEW r
  PROVE  /\ Called(r).pc = "idle" /\ Called(r).req = r /\ Called(r).run = r.run
         /\ Called(r).outcome = "none" /\ Called(r).seen = 0
         /\ Called(r) = [f \in Fields |-> Called(r)[f]]
  BY DEF Called, Idle, Fields

(* Before a question is asked only the finalizers have a run.              *)
LEMMA RunIsRequested ==
  ASSUME NEW me, me.req \in Requests, me.run = me.req.run,
         me.req.op = "ask" <=> me.pc = "ask"
  PROVE  RunFits(me)
  BY RunAssumption DEF RunFits, Answering

(* A command ends with an answer that holds.                               *)
LEMMA DoneSound ==
  ASSUME NEW me, me.req \in Requests, NEW o,
         o = "ok" /\ me.req.op \notin Untracked => Acked(me),
         o = "conflict" => Taken(me)
  PROVE  CommandSound(Done(me, o))
  <1> DEFINE x == [Idle EXCEPT !.req = me.req, !.run = me.run, !.outcome = o]
  <1>1. CASE o \in {"ok", "conflict", "refused"} /\ (o = "ok" => me.req.op \notin Lifecycle \cup {"start"})
    <2>1. Done(me, o) = x
      BY <1>1 DEF Done
    <2>2. x.pc = "idle" /\ x.req = me.req /\ x.run = me.run /\ x.outcome = o
      BY DEF Idle
    <2>3. PICK y : y = x
      OBVIOUS
    <2> HIDE DEF x
    <2>4. (Acked(me) => Acked(y)) /\ (Taken(me) => Taken(y))
      BY <2>2, <2>3 DEF Acked, Taken, Rederived
    <2>5. CommandSound(y)
      BY <1>1, <2>2, <2>3, <2>4 DEF CommandSound, AnswerSound, Untracked
    <2> QED BY <2>1, <2>3, <2>5
  <1>2. CASE ~ (o \in {"ok", "conflict", "refused"} /\ (o = "ok" => me.req.op \notin Lifecycle \cup {"start"}))
    <2>1. Done(me, o) = Idle
      BY <1>2 DEF Done
    <2>2. Idle.pc = "idle" /\ Idle.outcome = "none"
      BY DEF Idle
    <2> QED BY <2>1, <2>2 DEF CommandSound, AnswerSound
  <1> QED BY <1>1, <1>2

(* So does one that answers with what it found.                            *)
LEMMA DoneFound ==
  ASSUME Wellformed, StreamSound, NEW me, me.req \in Requests, me.req.op \notin Untracked,
         RunFits(me), me.pc # "ask", NEW l, Part(l)
  PROVE  CommandSound(Done(me, Existing(me, l)))
  <1>1. PICK o : o = Existing(me, l)
    OBVIOUS
  <1>2. CommandSound(Done(me, o))
    BY <1>1, FoundOwn, FoundOther, DoneSound
  <1> QED BY <1>1, <1>2

(* Other errors say nothing.                                               *)
LEMMA DoneSilent ==
  ASSUME NEW me, me.req \in Requests, NEW o \in {"missing", "inactive", "retryable", "corrupt",
            "running", "failed", "refused"}
  PROVE  CommandSound(Done(me, o))
  BY DoneSound

(* While the stream stays every command keeps what it holds.               *)
LEMMA CommandUnmoved ==
  ASSUME log' = log, NEW me, CommandSound(me)
  PROVE  CommandSound(me)'
  BY DEF CommandSound, AnswerSound, ReadSound, ReadHolds, RunFits, LookedUp,
               Acked, Taken, Rederived, Prefix, Identified

(* A step of one command, the stream unchanged, keeps all of them sound.   *)
LEMMA CommandMoved ==
  ASSUME CommandsOK, CommandsSound, log' = log, NEW c \in Clients, NEW next,
         CommandSound(next), Become(c, next)
  PROVE  CommandsSound'
  <1>1. ASSUME NEW d \in Clients PROVE CommandSound(client[d])'
    <2>1. PICK me : me = client'[d]
      OBVIOUS
    <2>2. CommandSound(me)
      BY <2>1 DEF Become, CommandsOK, CommandsSound
    <2>3. CommandSound(me)'
      BY <2>2, CommandUnmoved
    <2> QED BY <2>1, <2>3 DEF CommandSound, AnswerSound, ReadSound, ReadHolds, RunFits, LookedUp,
               Acked, Taken, Rederived, Prefix, Identified
  <1> QED BY <1>1 DEF CommandsSound

-----------------------------------------------------------------------------
(* The first steps of commands.                                            *)
LEMMA SequenceFirstSound ==
  ASSUME Wellformed, CommandsSound, NEW c \in Clients, sequence_first(c)
  PROVE  CommandsSound' /\ log' = log
  <1>1. PICK r \in Requests :
           /\ r.op \in Creating \cup {"note", "finalize"}
           /\ Become(c, Read(Called(r), IF r.op \in Creating THEN "create" ELSE "view"))
    BY CalledFields DEF sequence_first, Calls
  <1>2. log' = log
    BY DEF sequence_first, Calls
  <1>3. PICK pc : pc = IF r.op \in Creating THEN "create" ELSE "view"
    OBVIOUS
  <1>4. PICK me : me = Called(r)
    OBVIOUS
  <1>5. PICK next : next = Read(me, pc)
    OBVIOUS
  <1>6. /\ next.pc = pc /\ next.seen = Len(log) /\ next.req = r /\ next.run = r.run
        /\ next.outcome = "none"
    BY <1>4, <1>5, CalledFields, CommandFields
  <1>7. Len(log) \in 0..Len(log)
    BY StreamIsPart DEF Wellformed
  <1>8. RunFits(next)
    BY <1>1, <1>3, <1>6, RunIsRequested DEF Creating
  <1>9. CommandSound(next)
    BY <1>1, <1>3, <1>6, <1>7, <1>8 DEF CommandSound, ReadSound, At, Points, Answering
  <1> QED BY <1>1, <1>2, <1>3, <1>4, <1>5, <1>9, CommandMoved DEF Wellformed

(* Starting a session, or suspending, resuming or ending one.              *)
LEMMA UntrackedSound ==
  ASSUME Wellformed, CommandsSound, NEW c \in Clients, start(c) \/ _transition(c)
  PROVE  CommandsSound' /\ log' = log
  <1>1. log' = log
    <2>1. CASE start(c)
      BY <2>1 DEF start, Calls
    <2>2. CASE _transition(c)
      BY <2>2 DEF _transition, Calls
    <2> QED BY <2>1, <2>2
  <1>2. PICK r \in Requests :
           /\ r.op \in Untracked
           /\ \/ \E o \in {"ok", "missing", "inactive"} : Become(c, Done(Called(r), o))
              \/ Become(c, Goto(Called(r), "sequence"))
    <2>1. CASE start(c)
      BY <2>1, CalledFields DEF start, Calls, Untracked
    <2>2. CASE _transition(c)
      BY <2>2, CalledFields DEF _transition, Calls, Untracked
    <2> QED BY <2>1, <2>2
  <1>3. PICK me : me = Called(r)
    OBVIOUS
  <1>4. CASE \E o \in {"ok", "missing", "inactive"} : Become(c, Done(me, o))
    <2>1. PICK o \in {"ok", "missing", "inactive"} : Become(c, Done(me, o))
      BY <1>4
    <2>2. CommandSound(Done(me, o))
      BY <1>2, <1>3, CalledFields, DoneSound
    <2> QED BY <1>1, <2>1, <2>2, CommandMoved DEF Wellformed
  <1>5. CASE Become(c, Goto(me, "sequence"))
    <2>1. PICK next : next = Goto(me, "sequence")
      OBVIOUS
    <2>2. /\ next.pc = "sequence" /\ next.seen = 0 /\ next.req = r /\ next.run = r.run
          /\ next.outcome = "none"
      BY <1>3, <2>1, CalledFields, GotoFields
    <2>3. 0 \in 0..Len(log)
      BY StreamIsPart DEF Wellformed
    <2>4. RunFits(next)
      BY <1>2, <2>2, RunIsRequested DEF Untracked, Lifecycle
    <2>5. CommandSound(next)
      BY <1>2, <2>2, <2>3, <2>4 DEF CommandSound, ReadSound, At, Points
    <2> QED BY <1>1, <1>5, <2>1, <2>5, CommandMoved DEF Wellformed
  <1> QED BY <1>2, <1>3, <1>4, <1>5

-----------------------------------------------------------------------------
(* The later steps, up to the append.                                       *)
LEMMA InStep ==
  ASSUME Wellformed, CommandsSound, NEW c \in Clients, NEW me, me = client[c], me.pc # "idle"
  PROVE  /\ me.req \in Requests /\ me.req.op \in Operations /\ ReadSound(me)
         /\ me = [f \in Fields |-> me[f]]
         /\ me.seen \in 0..Len(log) /\ Len(log) \in Nat /\ IsSeq(log)
         /\ me.outcome = "none" /\ RunFits(me)
  <1>1. IsCommand(me) /\ CommandSound(me)
    BY DEF Wellformed, CommandsOK, CommandsSound
  <1>2. ReadSound(me) /\ me.req \in Requests /\ me = [f \in Fields |-> me[f]]
    BY <1>1 DEF CommandSound, IsCommand
  <1>3. me.seen \in 0..Len(log) /\ me.outcome = "none" /\ RunFits(me)
    BY <1>2 DEF ReadSound
  <1>4. Len(log) \in Nat /\ IsSeq(log)
    BY StreamIsPart DEF Wellformed
  <1>5. me.req.op \in Operations
    BY <1>2, RequestAssumption
  <1> QED BY <1>2, <1>3, <1>4, <1>5

(* A batch is built at a length at which the views still hold.             *)
LEMMA PreparedSound ==
  ASSUME NEW me, me.req.op \in Operations, me = [f \in Fields |-> me[f]],
         me.seen \in 0..Len(log), Len(log) \in Nat,
         me.outcome = "none", RunFits(me), me.pc # "ask",
         NEW n, NEW next, next = Prepared(me, n),
         me.req.op \notin Untracked /\ Len(log) = me.seen => ReadHolds(next)
  PROVE  CommandSound(next)
  <1>1. /\ next.pc = "append" /\ next.at = Len(log) /\ next.seen = me.seen
        /\ next.req = me.req /\ next.run = me.run /\ next.outcome = "none"
    BY CommandFields
  <1>2. RunFits(next)
    BY <1>1 DEF RunFits
  <1>3. next.at \in next.seen..Len(log)
    BY <1>1
  <1> QED BY <1>1, <1>2, <1>3 DEF CommandSound, ReadSound, At, Points

(* Creating a course: its lookup, and the comparison of create_at.         *)
LEMMA CreateSound ==
  ASSUME Wellformed, StreamSound, CommandsSound, NEW c \in Clients, create(c)
  PROVE  CommandsSound' /\ log' = log
  <1>1. PICK me : me = client[c]
    OBVIOUS
  <1>2. me.pc = "create" /\ log' = log
    BY <1>1 DEF create, Steps
  <1>3. PICK k \in me.seen..Len(log) :
           \/ Existing(me, Prefix(k)) = "none" /\ Become(c, Prepared(me, 0))
           \/ Become(c, Done(me, "retryable"))
           \/ Become(c, Done(me, Existing(me, Prefix(k))))
    BY <1>1 DEF create, Steps
  <1>4. /\ me.req \in Requests /\ me.req.op \in Operations /\ ReadSound(me)
        /\ me = [f \in Fields |-> me[f]]
        /\ me.seen \in 0..Len(log) /\ Len(log) \in Nat /\ IsSeq(log)
        /\ me.outcome = "none" /\ RunFits(me)
    BY <1>1, <1>2, InStep
  <1>5. me.req.op \in Creating /\ me.req.op \notin Untracked /\ me.req.op \notin {"note", "assistant"}
        /\ me.req.op \notin Answering
    BY <1>2, <1>4 DEF ReadSound, At, Creating, Untracked, Lifecycle, Answering
  <1>6. k \in 0..Len(log) /\ (me.seen = Len(log) => k = Len(log))
    BY <1>4
  <1>7. /\ Part(Prefix(k))
        /\ k = Len(log) => Prefix(k) = log
    BY <1>4, <1>6, PrefixIsPart
  <1>8. CASE Existing(me, Prefix(k)) = "none" /\ Become(c, Prepared(me, 0))
    <2>1. PICK next : next = Prepared(me, 0)
      OBVIOUS
    <2>2. next.req = me.req /\ next.run = me.run
      BY <1>4, <2>1, CommandFields
    <2>3. Len(log) = me.seen => ReadHolds(next)
      <3>1. Len(log) = me.seen => Candidates(me, log) = {}
        BY <1>6, <1>7, <1>8, ExistingIs
      <3> QED BY <1>5, <2>2, <3>1 DEF ReadHolds, Candidates
    <2>4. CommandSound(next)
      BY <1>2, <1>4, <2>1, <2>3, PreparedSound
    <2> QED BY <1>2, <1>8, <2>1, <2>4, CommandMoved DEF Wellformed
  <1>9. CASE Become(c, Done(me, "retryable"))
    BY <1>2, <1>4, <1>9, DoneSilent, CommandMoved DEF Wellformed
  <1>10. CASE Become(c, Done(me, Existing(me, Prefix(k))))
    <2>1. CommandSound(Done(me, Existing(me, Prefix(k))))
      BY <1>2, <1>4, <1>5, <1>7, DoneFound
    <2> QED BY <1>2, <1>10, <2>1, CommandMoved DEF Wellformed
  <1> QED BY <1>3, <1>8, <1>9, <1>10

(* Lifecycle commands read the length after their views.                   *)
LEMMA CurrentSequenceSound ==
  ASSUME Wellformed, CommandsSound, NEW c \in Clients, _current_sequence(c)
  PROVE  CommandsSound' /\ log' = log
  <1>1. PICK me : me = client[c]
    OBVIOUS
  <1>2. me.pc = "sequence" /\ log' = log /\ Become(c, Prepared(Read(me, "sequence"), 0))
    BY <1>1 DEF _current_sequence, Steps
  <1>3. /\ me.req \in Requests /\ me.req.op \in Operations /\ ReadSound(me)
        /\ me = [f \in Fields |-> me[f]]
        /\ Len(log) \in Nat /\ me.outcome = "none" /\ RunFits(me)
    BY <1>1, <1>2, InStep
  <1>4. PICK then : then = Read(me, "sequence")
    OBVIOUS
  <1>5. /\ then.pc = "sequence" /\ then.seen = Len(log) /\ then.req = me.req /\ then.run = me.run
        /\ then.outcome = "none" /\ then = [f \in Fields |-> then[f]]
    BY <1>3, <1>4, CommandFields
  <1>6. me.req.op \in Untracked
    BY <1>2, <1>3 DEF ReadSound, At
  <1>7. RunFits(then)
    BY <1>2, <1>3, <1>5 DEF RunFits
  <1>8. PICK next : next = Prepared(then, 0)
    OBVIOUS
  <1>9. then.seen \in 0..Len(log)
    BY <1>3, <1>5
  <1>10. CommandSound(next)
    BY <1>3, <1>5, <1>6, <1>7, <1>8, <1>9, PreparedSound
  <1> QED BY <1>2, <1>4, <1>8, <1>10, CommandMoved DEF Wellformed

(* The views of a note and of a finalizer, read after the length.          *)
LEMMA RecordViewSound ==
  ASSUME Wellformed, StreamSound, CommandsSound, NEW c \in Clients, record_view(c)
  PROVE  CommandsSound' /\ log' = log
  <1>1. PICK me : me = client[c]
    OBVIOUS
  <1> DEFINE s == me.req.session
             n == Interactions(log, s) + (IF me.req.op = "note" THEN 1 ELSE 2)
  <1>2. me.pc = "view" /\ log' = log
    BY <1>1 DEF record_view, Steps
  <1>3. /\ me.req \in Requests /\ me.req.op \in Operations /\ ReadSound(me)
        /\ me = [f \in Fields |-> me[f]]
        /\ me.seen \in 0..Len(log) /\ Len(log) \in Nat /\ IsSeq(log)
        /\ me.outcome = "none" /\ RunFits(me)
    BY <1>1, <1>2, InStep
  <1> DEFINE View(early, late) ==
                \/ \E o \in {"inactive", "corrupt"} : Become(c, Done(me, o))
                \/ Become(c, Done(me, Existing(me, Prefix(late))))
                \/ /\ status(Prefix(early), s) = "active"
                   /\ Existing(me, Prefix(late)) = "none" /\ Become(c, Prepared(me, n))
  <1>4. PICK early \in me.seen..Len(log) : \E late \in early..Len(log) : View(early, late)
    BY <1>1 DEF record_view, Steps
  <1>5. PICK late \in early..Len(log) : View(early, late)
    BY <1>4
  <1>6. me.req.op \in Answering \cup {"note"} /\ me.req.op \notin Untracked
        /\ me.req.op \notin Creating /\ me.req.op # "assistant"
    BY <1>2, <1>3 DEF ReadSound, At, Creating, Untracked, Lifecycle, Answering
  <1>7. /\ early \in 0..Len(log) /\ late \in 0..Len(log)
        /\ me.seen = Len(log) => early = Len(log) /\ late = Len(log)
    BY <1>3, <1>4, <1>5
  <1>8. /\ Part(Prefix(late))
        /\ late = Len(log) => Prefix(late) = log
        /\ early = Len(log) => Prefix(early) = log
    BY <1>3, <1>7, PrefixIsPart
  <1>9. CASE \E o \in {"inactive", "corrupt"} : Become(c, Done(me, o))
    BY <1>2, <1>3, <1>9, DoneSilent, CommandMoved DEF Wellformed
  <1>10. CASE Become(c, Done(me, Existing(me, Prefix(late))))
    <2>1. CommandSound(Done(me, Existing(me, Prefix(late))))
      BY <1>2, <1>3, <1>6, <1>8, DoneFound
    <2> QED BY <1>2, <1>10, <2>1, CommandMoved DEF Wellformed
  <1>11. CASE /\ status(Prefix(early), s) = "active"
              /\ Existing(me, Prefix(late)) = "none" /\ Become(c, Prepared(me, n))
    <2>1. PICK m : m = n
      OBVIOUS
    <2>2. PICK next : next = Prepared(me, m)
      OBVIOUS
    <2>3. next.req = me.req /\ next.run = me.run /\ next.built = m
      BY <1>3, <2>2, CommandFields
    <2>4. /\ me.req.op = "note" => m = Interactions(log, s) + 1
          /\ me.req.op \in Answering => m = Interactions(log, s) + 2
      BY <2>1 DEF Answering
    <2>5. Len(log) = me.seen => ReadHolds(next)
      <3>1. Len(log) = me.seen => Candidates(me, log) = {} /\ status(log, s) = "active"
        BY <1>7, <1>8, <1>11, ExistingIs
      <3> QED BY <1>6, <2>3, <2>4, <3>1 DEF ReadHolds, Candidates
    <2>6. CommandSound(next)
      BY <1>2, <1>3, <2>2, <2>5, PreparedSound
    <2> QED BY <1>2, <1>11, <2>1, <2>2, <2>6, CommandMoved DEF Wellformed
  <1> QED BY <1>5, <1>9, <1>10, <1>11

-----------------------------------------------------------------------------
(* The views behind a run's identity.                                       *)

(* The order of the naturals as a well-founded relation.                   *)
LEMMA NaturalOrder ==
  \E R : IsWellFoundedOn(R, Nat) /\ \A x, y \in Nat : y < x => <<y, x>> \in R
  <1> DEFINE R == OpToRel(<, Nat)
  <1>1. IsWellFoundedOn(R, Nat)
    BY NatLessThanWellFounded
  <1>2. \A x, y \in Nat : y < x => <<y, x>> \in R
    BY DEF OpToRel
  <1> HIDE DEF R
  <1> QED BY <1>1, <1>2

(* A set of positions that is not empty has a last one.                     *)
LEMMA LastIs ==
  ASSUME NEW n \in Nat, NEW I \in SUBSET (1..n), I # {}
  PROVE  Last(I) \in I /\ \A j \in I : j <= Last(I)
  <1> DEFINE T == {n - i : i \in I}
  <1>1. PICK R : IsWellFoundedOn(R, Nat) /\ \A x, y \in Nat : y < x => <<y, x>> \in R
    BY NaturalOrder
  <1>2. T \subseteq Nat /\ T # {}
    <2>1. \A i \in I : n - i \in Nat
      OBVIOUS
    <2>2. PICK i \in I : TRUE
      OBVIOUS
    <2>3. n - i \in T
      OBVIOUS
    <2> QED BY <2>1, <2>3
  <1>4. PICK x \in T : \A y \in T : ~ (<<y, x>> \in R)
    BY <1>1, <1>2, WFMin
  <1>5. PICK i \in I : x = n - i
    BY <1>4
  <1>6. \A j \in I : j <= i
    <2> SUFFICES ASSUME NEW j \in I, i < j PROVE FALSE
      OBVIOUS
    <2>1. n - j \in T /\ n - j < x /\ n - j \in Nat /\ x \in Nat
      BY <1>5
    <2> QED BY <1>1, <1>4, <2>1
  <1> QED BY <1>6 DEF Last

(* Interactions are counted.                                                *)
LEMMA InteractionsFinite ==
  ASSUME NEW l, IsSeq(l), NEW s, NEW types
  PROVE  IsFiniteSet(Of(l, s, types)) /\ Cardinality(Of(l, s, types)) \in Nat
  <1>1. DOMAIN l = 1..Len(l) /\ Len(l) \in Nat
    BY DEF IsSeq
  <1>2. IsFiniteSet(1..Len(l))
    BY <1>1, FS_Interval
  <1>3. Of(l, s, types) \subseteq 1..Len(l)
    BY <1>1 DEF Of
  <1>4. IsFiniteSet(Of(l, s, types))
    BY <1>2, <1>3, FS_Subset
  <1> QED BY <1>4, FS_CardinalityType

(* Interactions are never forgotten.                                        *)
LEMMA InteractionsGrow ==
  ASSUME NEW l, IsSeq(l), NEW before, IsSeq(before), DOMAIN before \subseteq DOMAIN l,
         \A i \in DOMAIN before : before[i] = l[i], NEW s
  PROVE  /\ Interactions(before, s) \in Nat /\ Interactions(l, s) \in Nat
         /\ Interactions(before, s) <= Interactions(l, s)
  <1> DEFINE T == {"note", "human", "question", "answer"}
             A == Of(before, s, T)
             B == Of(l, s, T)
  <1>1. A \subseteq B
    BY DEF Of
  <1>2. IsFiniteSet(B) /\ Cardinality(B) \in Nat /\ Cardinality(A) \in Nat
    BY InteractionsFinite
  <1>3. Cardinality(A) <= Cardinality(B)
    BY <1>1, <1>2, FS_Subset
  <1> QED BY <1>2, <1>3 DEF Interactions

(* The first events of a stream.                                            *)
LEMMA StretchIs ==
  ASSUME NEW l, IsSeq(l), NEW k \in 0..Len(l)
  PROVE  /\ IsSeq(SubSeq(l, 1, k)) /\ DOMAIN SubSeq(l, 1, k) = 1..k
         /\ \A i \in 1..k : SubSeq(l, 1, k)[i] = l[i]
  <1>1. PICK S : l \in Seq(S)
    BY DEF IsSeq
  <1>2. /\ SubSeq(l, 1, k) \in Seq(S) /\ DOMAIN SubSeq(l, 1, k) = 1..k
        /\ \A i \in 1..k : SubSeq(l, 1, k)[i] = l[i]
    BY <1>1
  <1>3. IsSeq(SubSeq(l, 1, k))
    BY <1>2 DEF IsSeq
  <1> QED BY <1>2, <1>3

(* Equal events are equally many interactions.                              *)
LEMMA EqualStretches ==
  ASSUME NEW a, NEW b, NEW s, DOMAIN a = DOMAIN b, \A i \in DOMAIN a : a[i] = b[i]
  PROVE  Interactions(a, s) = Interactions(b, s)
  <1>1. Of(a, s, {"note", "human", "question", "answer"}) = Of(b, s, {"note", "human", "question", "answer"})
    BY DEF Of
  <1> QED BY <1>1 DEF Interactions

(* An answer is an interaction more.                                        *)
LEMMA AnswerCounts ==
  ASSUME NEW l, IsSeq(l), NEW before, IsSeq(before), DOMAIN before \subseteq DOMAIN l,
         \A i \in DOMAIN before : before[i] = l[i], NEW s,
         NEW a \in DOMAIN l, a \notin DOMAIN before, l[a].session = s, l[a].type = "answer"
  PROVE  /\ Interactions(before, s) \in Nat /\ Interactions(l, s) \in Nat
         /\ Interactions(before, s) < Interactions(l, s)
  <1> DEFINE T == {"note", "human", "question", "answer"}
             A == Of(before, s, T)
             B == Of(l, s, T)
  <1>1. A \cup {a} \subseteq B /\ a \notin A
    BY DEF Of
  <1>2. /\ IsFiniteSet(A) /\ Cardinality(A) \in Nat
        /\ IsFiniteSet(B) /\ Cardinality(B) \in Nat
    BY InteractionsFinite
  <1> HIDE DEF A, B
  <1>3. Cardinality(A \cup {a}) = Cardinality(A) + 1
    BY <1>1, <1>2, FS_AddElement
  <1>4. Cardinality(A \cup {a}) <= Cardinality(B)
    BY <1>1, <1>2, FS_Subset
  <1> QED BY <1>2, <1>3, <1>4 DEF Interactions, A, B

(* A derived run is of the session of its question.                         *)
LEMMA RunIdIs ==
  ASSUME IsSeq(log), StreamSound, NEW r \in Requests, r.op = "ask",
         NEW early \in 0..Len(log), \E i \in Of(log, r.session, Transitions) : i <= early
  PROVE  /\ _run_id(r, early, Len(log)) \in RunIds
         /\ _run_id(r, early, Len(log)).session = r.session
  <1> DEFINE T == Of(Prefix(early), r.session, Transitions)
             S == Of(log, r.session, {"summary"})
  <1>1. /\ Part(Prefix(early)) /\ IsSeq(Prefix(early)) /\ DOMAIN Prefix(early) = 1..early
        /\ Prefix(Len(log)) = log /\ DOMAIN log = 1..Len(log) /\ Len(log) \in Nat
    <2>1. DOMAIN log = 1..Len(log) /\ Len(log) \in Nat
      BY StreamIsPart
    <2>2. Len(log) \in 0..Len(log)
      BY <2>1
    <2>3. Prefix(Len(log)) = log
      BY <2>2, PrefixIsPart
    <2> QED BY <2>1, <2>3, PrefixIsPart
  <1>2. T # {} /\ T \subseteq 1..early /\ early \in Nat
    BY <1>1 DEF Of, Part
  <1>3. Last(T) \in Nat
    <2> HIDE DEF T
    <2>1. Last(T) \in T
      BY <1>2, LastIs
    <2>2. \A k \in 1..early : k \in Nat
      BY <1>2
    <2> QED BY <1>2, <2>1, <2>2, Zenon
  <1>4. Interactions(Prefix(early), r.session) \in Nat
    BY <1>1, InteractionsFinite DEF Interactions
  <1>5. continuation_summary(log, r.session) \in Nat
    <2>1. CASE S = {}
      BY <2>1 DEF continuation_summary
    <2>2. CASE S # {}
      <3>1. S \subseteq 1..Len(log)
        BY <1>1 DEF Of
      <3>2. Last(S) \in S
        BY <1>1, <2>2, <3>1, LastIs
      <3>3. log[Last(S)].what \in Nat
        BY <3>2 DEF Of, StreamSound
      <3> QED BY <2>2, <3>3 DEF continuation_summary
    <2> QED BY <2>1, <2>2
  <1>6. r.session \in Sessions
    BY RequestAssumption DEF Creating
  <1> HIDE DEF T
  <1> QED BY <1>1, <1>3, <1>4, <1>5, <1>6 DEF _run_id, RunIds, T

(* What has ended or goes on: a question's lookups and its run.             *)
LEMMA AskSound ==
  ASSUME Wellformed, CommandsSound, NEW c \in Clients, ask(c)
  PROVE  CommandsSound' /\ log' = log
  <1>1. log' = log
    BY DEF ask, Calls
  <1>2. PICK r \in Requests :
           /\ r.op = "ask"
           /\ \/ Become(c, Done(Called(r), "inactive"))
              \/ status(log, r.session) = "active" /\ Become(c, Read(Called(r), "ask"))
    BY CalledFields DEF ask, Calls
  <1>3. PICK me : me = Called(r)
    OBVIOUS
  <1>4. me.pc = "idle" /\ me.req = r /\ me.run = r.run /\ me.outcome = "none"
        /\ me = [f \in Fields |-> me[f]]
    BY <1>3, CalledFields
  <1>5. CASE Become(c, Done(me, "inactive"))
    BY <1>1, <1>4, <1>5, DoneSilent, CommandMoved DEF Wellformed
  <1>6. CASE status(log, r.session) = "active" /\ Become(c, Read(me, "ask"))
    <2>1. PICK next : next = Read(me, "ask")
      OBVIOUS
    <2>2. /\ next.pc = "ask" /\ next.seen = Len(log) /\ next.req = r /\ next.run = r.run
          /\ next.outcome = "none"
      BY <1>4, <2>1, CommandFields
    <2>3. DOMAIN log = 1..Len(log) /\ Len(log) \in Nat
      BY StreamIsPart DEF Wellformed
    <2>4. \E i \in Of(log, r.session, Transitions) : i <= next.seen
      <3>1. Of(log, r.session, Transitions) # {}
        BY <1>6 DEF status
      <3> QED BY <2>2, <2>3, <3>1 DEF Of
    <2>5. RunFits(next)
      BY <1>2, <2>2, RunIsRequested
    <2>6. next.seen \in 0..Len(log)
      BY <2>2, <2>3
    <2>7. CommandSound(next)
      BY <1>2, <2>2, <2>4, <2>5, <2>6 DEF CommandSound, ReadSound, At, Points
    <2> QED BY <1>1, <1>6, <2>1, <2>7, CommandMoved DEF Wellformed
  <1> QED BY <1>2, <1>3, <1>5, <1>6

(* The lookup of an answer, and the identity of the run.                   *)
LEMMA AskViewSound ==
  ASSUME Wellformed, StreamSound, CommandsSound, NEW c \in Clients, ask_view(c)
  PROVE  CommandsSound' /\ log' = log
  <1>1. PICK me : me = client[c]
    OBVIOUS
  <1> DEFINE r == me.req
             Answers(late) == {i \in Of(Prefix(late), r.session, {"answer"}) : log[i].key = r.key}
  <1>2. me.pc = "ask" /\ log' = log
    BY <1>1 DEF ask_view, Steps
  <1>3. /\ r \in Requests /\ r.op \in Operations /\ ReadSound(me)
        /\ me = [f \in Fields |-> me[f]]
        /\ me.seen \in 0..Len(log) /\ Len(log) \in Nat /\ IsSeq(log)
        /\ me.outcome = "none" /\ RunFits(me)
    BY <1>1, <1>2, InStep
  <1>4. r.op = "ask" /\ r.op \notin Untracked /\ r.op \notin Creating /\ r.run = None /\ me.run = None
        /\ Records(r.op) = "answer"
    BY <1>2, <1>3, RunAssumption, RecordsAre
       DEF ReadSound, At, Untracked, Lifecycle, Creating, RunFits, Answering
  <1>5. PICK late \in me.seen..Len(log) :
           \/ Become(c, Done(me, "corrupt"))
           \/ Answers(late) = {} /\ Become(c, WithRun(me, _run_id(r, me.seen, Len(log))))
           \/ (\E i \in Answers(late) : log[i].what = r.what) /\ Become(c, Done(me, "ok"))
           \/ /\ Answers(late) # {} /\ ~ \E i \in Answers(late) : log[i].what = r.what
              /\ Become(c, Done(me, "conflict"))
    <2>1. \/ \E late \in me.seen..Len(log) :
                Become(c, IF Answers(late) = {}
                          THEN WithRun(me, _run_id(r, me.seen, Len(log)))
                          ELSE Done(me, IF \E i \in Answers(late) : log[i].what = r.what
                                        THEN "ok" ELSE "conflict"))
          \/ Become(c, Done(me, "corrupt"))
      BY <1>1 DEF ask_view, Steps
    <2>2. me.seen \in me.seen..Len(log)
      BY <1>3
    <2> HIDE DEF Answers
    <2> QED BY <2>1, <2>2
  <1>6. ASSUME NEW i \in Answers(late)
        PROVE  i \in DOMAIN log /\ log[i].type = "answer" /\ log[i].session = r.session
               /\ log[i].key = r.key
    BY <1>3, <1>5, PrefixIsPart DEF Of, Part
  <1>7. CASE Become(c, Done(me, "corrupt"))
    BY <1>2, <1>3, <1>7, DoneSilent, CommandMoved DEF Wellformed
  <1>8. CASE (\E i \in Answers(late) : log[i].what = r.what) /\ Become(c, Done(me, "ok"))
    <2>1. Acked(me)
      BY <1>4, <1>6, <1>8 DEF Acked, Identified
    <2>2. CommandSound(Done(me, "ok"))
      BY <1>3, <2>1, DoneSound
    <2> QED BY <1>2, <1>8, <2>2, CommandMoved DEF Wellformed
  <1>9. CASE /\ Answers(late) # {} /\ ~ \E i \in Answers(late) : log[i].what = r.what
             /\ Become(c, Done(me, "conflict"))
    <2>1. Taken(me)
      BY <1>6, <1>9 DEF Taken, Differs
    <2>2. CommandSound(Done(me, "conflict"))
      BY <1>3, <2>1, DoneSound
    <2> QED BY <1>2, <1>9, <2>2, CommandMoved DEF Wellformed
  <1>10. CASE Answers(late) = {} /\ Become(c, WithRun(me, _run_id(r, me.seen, Len(log))))
    <2>1. PICK id : id = _run_id(r, me.seen, Len(log))
      OBVIOUS
    <2>2. PICK next : next = WithRun(me, id)
      OBVIOUS
    <2>3. /\ next.pc = "run" /\ next.seen = 0 /\ next.req = r /\ next.run = id
          /\ next.outcome = "none"
      BY <1>3, <2>2, CommandFields
    <2>4. id \in RunIds /\ id.session = r.session
      <3>1. \E i \in Of(log, r.session, Transitions) : i <= me.seen
        BY <1>2, <1>3 DEF ReadSound
      <3> QED BY <1>3, <1>4, <2>1, <3>1, RunIdIs
    <2>5. LookedUp(id, r)
      <3>1. id.count = Interactions(Prefix(me.seen), r.session)
        BY <2>1 DEF _run_id
      <3>2. /\ IsSeq(Prefix(me.seen)) /\ DOMAIN Prefix(me.seen) = 1..me.seen
            /\ Part(Prefix(me.seen)) /\ DOMAIN log = 1..Len(log)
        BY <1>3, PrefixIsPart, StreamIsPart
      <3>3. id.count <= Interactions(log, r.session)
        BY <1>3, <3>1, <3>2, InteractionsGrow DEF Part
      <3>4. ASSUME NEW i \in Of(log, r.session, {"answer"}), log[i].key = r.key
            PROVE  id.count < Interactions(Prefix(i), r.session)
        <4>1. i \in 1..Len(log) /\ log[i].session = r.session /\ log[i].type = "answer"
          BY <3>2, <3>4 DEF Of
        <4>2. i \in 0..Len(log) /\ late \in 0..Len(log) /\ i \in 1..i
          BY <1>3, <1>5, <4>1
        <4>3. /\ IsSeq(Prefix(i)) /\ DOMAIN Prefix(i) = 1..i /\ Part(Prefix(i))
              /\ DOMAIN Prefix(late) = 1..late /\ Part(Prefix(late))
          BY <1>3, <4>2, PrefixIsPart
        <4>4. i \notin 1..late
          <5> SUFFICES ASSUME i \in 1..late PROVE FALSE
            OBVIOUS
          <5>1. i \in DOMAIN Prefix(late) /\ Prefix(late)[i] = log[i]
            BY <4>3 DEF Part
          <5>2. i \in Answers(late)
            BY <3>4, <4>1, <5>1 DEF Of
          <5> QED BY <1>10, <5>2
        <4>5. me.seen < i
          BY <1>3, <1>5, <4>1, <4>4
        <4>6. 1..me.seen \subseteq 1..i /\ i \notin 1..me.seen
          BY <1>3, <4>1, <4>5
        <4>7. \A j \in 1..me.seen : Prefix(me.seen)[j] = Prefix(i)[j]
          BY <3>2, <4>3, <4>6 DEF Part
        <4>8. Prefix(i)[i] = log[i]
          BY <4>2, <4>3 DEF Part
        <4> QED BY <3>1, <3>2, <4>1, <4>2, <4>3, <4>6, <4>7, <4>8, AnswerCounts
      <3> QED BY <3>3, <3>4 DEF LookedUp
    <2>6. RunFits(next)
      BY <1>4, <2>3, <2>4, <2>5 DEF RunFits, Answering
    <2>7. 0 \in 0..Len(log)
      BY <1>3
    <2>8. CommandSound(next)
      BY <1>4, <2>3, <2>6, <2>7 DEF CommandSound, ReadSound, At, Points
    <2> QED BY <1>2, <1>10, <2>1, <2>2, <2>8, CommandMoved DEF Wellformed
  <1> QED BY <1>5, <1>7, <1>8, <1>9, <1>10

(* The run of a question: stored, executed, finalized.                     *)
LEMMA ExecutionSound ==
  ASSUME Wellformed, CommandsSound, NEW c \in Clients,
         _stored_status(c) \/ _execute(c) \/ _finalize(c)
  PROVE  CommandsSound' /\ log' = log
  <1>1. PICK me : me = client[c]
    OBVIOUS
  <1>2. log' = log /\ me.pc \in {"run", "execute", "finalize"}
    BY <1>1 DEF _stored_status, _execute, _finalize, Steps
  <1>3. \/ \E o \in {"running", "failed"} : Become(c, Done(me, o))
        \/ \E pc \in {"execute", "finalize"} : Become(c, Goto(me, pc))
        \/ Become(c, Read(me, "view"))
    BY <1>1 DEF _stored_status, _execute, _finalize, Steps
  <1>4. /\ me.req \in Requests /\ me.req.op \in Operations /\ ReadSound(me)
        /\ me = [f \in Fields |-> me[f]]
        /\ me.seen \in 0..Len(log) /\ Len(log) \in Nat
        /\ me.outcome = "none" /\ RunFits(me)
    BY <1>1, <1>2, InStep
  <1>5. me.req.op = "ask" /\ me.pc # "ask"
    BY <1>2, <1>4 DEF ReadSound, At
  <1>6. CASE \E o \in {"running", "failed"} : Become(c, Done(me, o))
    BY <1>2, <1>4, <1>6, DoneSilent, CommandMoved DEF Wellformed
  <1>7. ASSUME NEW next, NEW pc, pc \in {"execute", "finalize", "view"},
               next = Goto(me, pc) \/ next = Read(me, pc), Become(c, next)
        PROVE  CommandsSound'
    <2>1. /\ next.pc = pc /\ next.seen \in 0..Len(log) /\ next.req = me.req /\ next.run = me.run
          /\ next.outcome = "none"
      <3>1. Len(log) \in 0..Len(log)
        BY <1>4
      <3>2. CASE next = Goto(me, pc)
        BY <1>4, <3>2, GotoFields
      <3>3. CASE next = Read(me, pc)
        BY <1>4, <3>1, <3>3, CommandFields
      <3> QED BY <1>7, <3>2, <3>3
    <2>2. RunFits(next)
      BY <1>4, <1>5, <1>7, <2>1 DEF RunFits
    <2>3. CommandSound(next)
      BY <1>5, <1>7, <2>1, <2>2 DEF CommandSound, ReadSound, At, Points, Answering
    <2> QED BY <1>2, <1>7, <2>3, CommandMoved DEF Wellformed
  <1> QED BY <1>2, <1>3, <1>6, <1>7

(* Equal runs are of one session.                                           *)
LEMMA OneSession ==
  ASSUME NEW r \in Requests, r.run # None, NEW s, OfSession(r.run, s)
  PROVE  s = r.session
  BY RunAssumption DEF OfSession

(* What an assistant turn finds owned is an answer of its session, or a     *)
(* turn that is found before.                                               *)
LEMMA OwnedIsTaken ==
  ASSUME Wellformed, StreamSound, NEW me, NEW r \in Requests, me.req = r, r.op = "assistant",
         me.run = r.run, Candidates(me, log) = {},
         ~ Unowned(log, [session |-> r.session, key |-> r.key, run |-> r.run])
  PROVE  Taken(me)
  <1>1. PICK i \in DOMAIN log :
           /\ log[i].type \in {"answer", "turn"}
           /\ log[i].run = r.run \/ (log[i].session = r.session /\ log[i].key = r.key)
    BY DEF Unowned
  <1>2. log[i].session = r.session
    <2>1. CASE log[i].run = r.run
      <3>1. OfSession(r.run, log[i].session)
        BY <1>1, <2>1 DEF StreamSound
      <3>2. r.run # None
        BY RunAssumption
      <3> QED BY <3>1, <3>2, OneSession
    <2> QED BY <1>1, <2>1
  <1>3. r.op \notin Creating /\ Records(r.op) = "turn"
    BY RecordsAre DEF Creating
  <1>4. log[i].type # "turn"
    <2> SUFFICES ASSUME log[i].type = "turn" PROVE FALSE
      OBVIOUS
    <2>1. i \in Candidates(me, log)
      BY <1>1, <1>2, <1>3 DEF Candidates, Of, Answering
    <2> QED BY <2>1
  <1> QED BY <1>1, <1>2, <1>3, <1>4 DEF Taken, Differs

(* Turns: found again, refused, or on to the comparison of the length.     *)
LEMMA TurnSound ==
  ASSUME Wellformed, StreamSound, CommandsSound, NEW c \in Clients,
         record_learner_turn(c) \/ record_assistant_turn(c)
  PROVE  CommandsSound' /\ log' = log
  <1>1. log' = log
    <2>1. CASE record_learner_turn(c)
      BY <2>1 DEF record_learner_turn, Calls
    <2>2. CASE record_assistant_turn(c)
      BY <2>2 DEF record_assistant_turn, Calls
    <2> QED BY <2>1, <2>2
  <1> DEFINE Who(r) == [session |-> r.session, key |-> r.key, run |-> r.run]
             Replies(r) == r.what # None => \E i \in Of(log, r.session, {"human"}) : log[i].key = r.what
  <1>2. PICK r \in Requests :
           /\ r.op \in {"learner", "assistant"}
           /\ \/ \E o \in {"missing", "inactive"} : Become(c, Done(Called(r), o))
              \/ Become(c, Done(Called(r), Existing(Called(r), log)))
              \/ /\ Existing(Called(r), log) = "none" /\ status(log, r.session) = "active"
                 /\ \/ /\ r.op = "assistant" /\ ~ Unowned(log, Who(r))
                       /\ Become(c, Done(Read(Called(r), "expect"), "conflict"))
                    \/ Become(c, Done(Read(Called(r), "expect"), "inactive"))
                    \/ /\ r.op = "assistant" => Unowned(log, Who(r)) /\ Replies(r)
                       /\ Become(c, Read(Called(r), "expect"))
    <2>1. CASE record_learner_turn(c)
      BY <2>1, CalledFields DEF record_learner_turn, Calls, Turn
    <2>2. CASE record_assistant_turn(c)
      <3>1. PICK r \in Requests :
               /\ r.op = "assistant"
               /\ LET x == Read(Called(r), "expect")
                      y == IF ~ Unowned(log, [session |-> x.req.session, key |-> x.req.key, run |-> x.req.run])
                           THEN Done(x, "conflict")
                           ELSE IF x.req.what # None
                                   /\ \A i \in Of(log, x.req.session, {"human"}) : log[i].key # x.req.what
                           THEN Done(x, "inactive") ELSE x
                  IN  Become(c, Turn(Called(r), y))
        BY <2>2 DEF record_assistant_turn, Calls
      <3>2. Read(Called(r), "expect").req = r /\ Called(r).req = r
        BY CalledFields, CommandFields
      <3> QED BY <3>1, <3>2 DEF Turn
    <2> QED BY <2>1, <2>2
  <1>3. PICK me : me = Called(r)
    OBVIOUS
  <1>4. /\ me.pc = "idle" /\ me.req = r /\ me.run = r.run /\ me.outcome = "none"
        /\ me = [f \in Fields |-> me[f]]
    BY <1>3, CalledFields
  <1>5. PICK next : next = Read(me, "expect")
    OBVIOUS
  <1>6. /\ next.pc = "expect" /\ next.seen = Len(log) /\ next.req = r /\ next.run = r.run
        /\ next.outcome = "none"
    BY <1>4, <1>5, CommandFields
  <1>7. r.op \notin Untracked /\ r.op \notin Creating /\ r.op \notin Answering /\ r.op \notin {"note", "ask"}
    BY <1>2 DEF Untracked, Lifecycle, Creating, Answering
  <1>8. RunFits(me) /\ RunFits(next)
    BY <1>4, <1>6, <1>7, RunIsRequested
  <1>9. CASE \E o \in {"missing", "inactive"} : Become(c, Done(me, o))
    BY <1>1, <1>4, <1>9, DoneSilent, CommandMoved DEF Wellformed
  <1>10. CASE Become(c, Done(me, Existing(me, log)))
    <2>1. Part(log)
      BY StreamIsPart DEF Wellformed
    <2>2. CommandSound(Done(me, Existing(me, log)))
      BY <1>4, <1>7, <1>8, <2>1, DoneFound
    <2> QED BY <1>1, <1>10, <2>2, CommandMoved DEF Wellformed
  <1>11. ASSUME Existing(me, log) = "none", r.op = "assistant", ~ Unowned(log, Who(r)),
                Become(c, Done(next, "conflict"))
         PROVE  CommandsSound'
    <2>1. Candidates(next, log) = {}
      BY <1>4, <1>6, <1>11, ExistingIs DEF Candidates
    <2>2. Taken(next)
      BY <1>6, <1>11, <2>1, OwnedIsTaken
    <2>3. CommandSound(Done(next, "conflict"))
      BY <1>6, <2>2, DoneSound
    <2> QED BY <1>1, <1>11, <2>3, CommandMoved DEF Wellformed
  <1>12. CASE Become(c, Done(next, "inactive"))
    BY <1>1, <1>6, <1>12, DoneSilent, CommandMoved DEF Wellformed
  <1>13. ASSUME Existing(me, log) = "none", status(log, r.session) = "active",
                r.op = "assistant" => Unowned(log, Who(r)) /\ Replies(r), Become(c, next)
         PROVE  CommandsSound'
    <2>0. Existing(me, log) = "none"
      BY <1>13
    <2>1. Candidates(next, log) = {}
      <3>1. CASE r.op = "learner"
        BY <1>4, <1>6, <2>0, <3>1, ExistingIs DEF Candidates
      <3>2. CASE r.op = "assistant"
        BY <1>4, <1>6, <2>0, <3>2, ExistingIs DEF Candidates
      <3> QED BY <1>2, <3>1, <3>2
    <2>2. ReadHolds(next)
      BY <1>6, <1>7, <1>13, <2>1 DEF ReadHolds
    <2>3. Len(log) \in 0..Len(log)
      BY StreamIsPart DEF Wellformed
    <2>4. CommandSound(next)
      BY <1>2, <1>6, <1>8, <2>2, <2>3 DEF CommandSound, ReadSound, At, Points
    <2> QED BY <1>1, <1>13, <2>4, CommandMoved DEF Wellformed
  <1> QED BY <1>1, <1>2, <1>3, <1>5, <1>9, <1>10, <1>11, <1>12, <1>13

(* The comparison of the length the caller named.                          *)
LEMMA ExpectSound ==
  ASSUME Wellformed, StreamSound, CommandsSound, NEW c \in Clients, _expect_sequence(c)
  PROVE  CommandsSound' /\ log' = log
  <1>1. PICK me : me = client[c]
    OBVIOUS
  <1>2. me.pc = "expect" /\ log' = log
    BY <1>1 DEF _expect_sequence, Steps
  <1>3. \/ Become(c, Done(me, "retryable"))
        \/ Len(log) = me.seen /\ Become(c, Prepared(me, 0))
    BY <1>1 DEF _expect_sequence, Steps
  <1>4. /\ me.req \in Requests /\ me.req.op \in Operations /\ ReadSound(me)
        /\ me = [f \in Fields |-> me[f]]
        /\ me.seen \in 0..Len(log) /\ Len(log) \in Nat
        /\ me.outcome = "none" /\ RunFits(me)
    BY <1>1, <1>2, InStep
  <1>5. CASE Become(c, Done(me, "retryable"))
    BY <1>2, <1>4, <1>5, DoneSilent, CommandMoved DEF Wellformed
  <1>6. CASE Len(log) = me.seen /\ Become(c, Prepared(me, 0))
    <2>1. PICK next : next = Prepared(me, 0)
      OBVIOUS
    <2>2. next.req = me.req /\ next.run = me.run
      BY <1>4, <2>1, CommandFields
    <2>3. me.req.op \notin Answering /\ me.req.op # "note"
      BY <1>2, <1>4 DEF ReadSound, At, Answering
    <2>4. ReadHolds(me)
      BY <1>2, <1>4, <1>6 DEF ReadSound
    <2>5. ReadHolds(next)
      BY <2>2, <2>3, <2>4 DEF ReadHolds, Candidates
    <2>6. CommandSound(next)
      BY <1>2, <1>4, <2>1, <2>5, PreparedSound
    <2> QED BY <1>2, <1>6, <2>1, <2>6, CommandMoved DEF Wellformed
  <1> QED BY <1>2, <1>3, <1>5, <1>6

(* What each command appends.                                               *)
LEMMA BatchIs ==
  ASSUME NEW me, NEW r, me.req = r, r.op \in Operations
  PROVE  LET E(type, what) == Event(type, r, me.run, what, me.at)
         IN  /\ r.op \in Creating => Batch(me) = <<E("created", r.what)>>
             /\ r.op \in Untracked =>
                  \E type \in Transitions : Batch(me) = <<E(type, None)>>
             /\ r.op = "note" => Batch(me) = <<E("note", r.what), E("summary", me.built)>>
             /\ r.op = "learner" => Batch(me) = <<E("human", r.what)>>
             /\ r.op = "assistant" => Batch(me) = <<E("turn", r.what)>>
             /\ r.op \in Answering =>
                  Batch(me) = <<E("question", r.what), E("answer", r.what), E("summary", me.built)>>
  <1> DEFINE E(type, what) == Event(type, r, me.run, what, me.at)
  <1>1. r.op \in Creating => Batch(me) = <<E("created", r.what)>>
    BY DEF Batch, Creating, Answering
  <1>2. r.op \in Untracked => \E type \in Transitions : Batch(me) = <<E(type, None)>>
    BY DEF Batch, Creating, Answering, Untracked, Lifecycle, Transitions
  <1>3. /\ r.op = "note" => Batch(me) = <<E("note", r.what), E("summary", me.built)>>
        /\ r.op = "learner" => Batch(me) = <<E("human", r.what)>>
        /\ r.op = "assistant" => Batch(me) = <<E("turn", r.what)>>
    BY DEF Batch, Creating, Answering
  <1>4. r.op \in Answering =>
            Batch(me) = <<E("question", r.what), E("answer", r.what), E("summary", me.built)>>
    BY DEF Batch, Creating, Answering
  <1> QED BY <1>1, <1>2, <1>3, <1>4

(* Only notes and answers come with a summary.                              *)
LEMMA SummariesIn ==
  ASSUME NEW me, me.req.op \in Operations, SummaryRefused(log, Batch(me))
  PROVE  me.req.op \in Answering \cup {"note"}
  <1>1. \A e, type, what : e = Event(type, me.req, me.run, what, me.at) => e.type = type
    BY DEF Event
  <1>2. \E k \in DOMAIN Batch(me) : Batch(me)[k].type = "summary"
    BY DEF SummaryRefused
  <1>3. ASSUME NEW e, e.type # "summary", Batch(me) = <<e>> PROVE FALSE
    BY <1>2, <1>3
  <1>4. me.req.op \notin Creating \cup Untracked \cup {"learner", "assistant"}
    <2>1. CASE me.req.op \in Creating
      BY <1>1, <1>3, <2>1, BatchIs
    <2>2. CASE me.req.op \in Untracked
      BY <1>1, <1>3, <2>2, BatchIs DEF Transitions
    <2>3. CASE me.req.op = "learner"
      BY <1>1, <1>3, <2>3, BatchIs
    <2>4. CASE me.req.op = "assistant"
      BY <1>1, <1>3, <2>4, BatchIs
    <2> QED BY <2>1, <2>2, <2>3, <2>4
  <1> QED BY <1>4 DEF Operations, Creating, Untracked, Lifecycle, Answering

(* A failed append raises, or looks again.                                 *)
LEMMA AppendFailsSound ==
  ASSUME Wellformed, StreamSound, CommandsSound, NEW c \in Clients, append_fails(c)
  PROVE  CommandsSound' /\ log' = log
  <1>1. PICK me : me = client[c]
    OBVIOUS
  <1>2. me.pc = "append" /\ log' = log
    BY <1>1 DEF append_fails, Steps
  <1>3. \/ \E o \in {"retryable", "refused"} : Become(c, Done(me, o))
        \/ /\ me.req.op \notin Lifecycle \cup {"create_at"} \/ SummaryRefused(log, Batch(me))
           /\ Become(c, Read(me, "raced"))
    BY <1>1 DEF append_fails, Steps
  <1>4. /\ me.req \in Requests /\ me.req.op \in Operations
        /\ me = [f \in Fields |-> me[f]]
        /\ Len(log) \in Nat /\ me.outcome = "none" /\ RunFits(me)
    BY <1>1, <1>2, InStep
  <1>5. CASE \E o \in {"retryable", "refused"} : Become(c, Done(me, o))
    BY <1>2, <1>4, <1>5, DoneSilent, CommandMoved DEF Wellformed
  <1>6. CASE /\ me.req.op \notin Lifecycle \cup {"create_at"} \/ SummaryRefused(log, Batch(me))
             /\ Become(c, Read(me, "raced"))
    <2>1. PICK next : next = Read(me, "raced")
      OBVIOUS
    <2>2. /\ next.pc = "raced" /\ next.seen = Len(log) /\ next.req = me.req /\ next.run = me.run
          /\ next.outcome = "none"
      BY <1>4, <2>1, CommandFields
    <2>3. me.req.op \in At("raced")
      BY <1>4, <1>6, SummariesIn DEF At, Answering, Lifecycle
    <2>4. RunFits(next)
      BY <1>2, <1>4, <2>2 DEF RunFits
    <2>5. next.seen \in 0..Len(log)
      BY <1>4, <2>2
    <2>6. CommandSound(next)
      BY <2>2, <2>3, <2>4, <2>5 DEF CommandSound, ReadSound, Points
    <2> QED BY <1>2, <1>6, <2>1, <2>6, CommandMoved DEF Wellformed
  <1> QED BY <1>2, <1>3, <1>5, <1>6

(* The lookup after a lost race.                                           *)
LEMMA RacedSound ==
  ASSUME Wellformed, StreamSound, CommandsSound, NEW c \in Clients, raced(c)
  PROVE  CommandsSound' /\ log' = log
  <1>1. PICK me : me = client[c]
    OBVIOUS
  <1>2. me.pc = "raced" /\ log' = log
    BY <1>1 DEF raced, Steps
  <1>3. \/ \E o \in {"retryable", "corrupt"} : Become(c, Done(me, o))
        \/ me.req.op = "start" /\ Become(c, Done(me, "ok"))
        \/ me.req.op # "start" /\ Become(c, Done(me, Existing(me, log)))
    BY <1>1 DEF raced, Steps
  <1>4. /\ me.req \in Requests /\ me.req.op \in Operations /\ ReadSound(me) /\ RunFits(me)
    BY <1>1, <1>2, InStep
  <1>5. CASE \E o \in {"retryable", "corrupt"} : Become(c, Done(me, o))
    BY <1>2, <1>4, <1>5, DoneSilent, CommandMoved DEF Wellformed
  <1>6. CASE me.req.op = "start" /\ Become(c, Done(me, "ok"))
    <2>1. CommandSound(Done(me, "ok"))
      BY <1>4, <1>6, DoneSound DEF Untracked
    <2> QED BY <1>2, <1>6, <2>1, CommandMoved DEF Wellformed
  <1>7. CASE me.req.op # "start" /\ Become(c, Done(me, Existing(me, log)))
    <2>1. me.req.op \notin Untracked
      BY <1>2, <1>4, <1>7 DEF ReadSound, At, Untracked
    <2>2. Part(log)
      BY StreamIsPart DEF Wellformed
    <2>3. CommandSound(Done(me, Existing(me, log)))
      BY <1>2, <1>4, <2>1, <2>2, DoneFound
    <2> QED BY <1>2, <1>7, <2>3, CommandMoved DEF Wellformed
  <1> QED BY <1>2, <1>3, <1>5, <1>6, <1>7

(* A crash leaves nothing to answer for.                                   *)
LEMMA CrashSound ==
  ASSUME Wellformed, CommandsSound, NEW c \in Clients, crash(c)
  PROVE  CommandsSound' /\ log' = log
  <1>1. log' = log /\ Become(c, Idle)
    BY DEF crash
  <1>2. CommandSound(Idle)
    BY DEF CommandSound, AnswerSound, Idle
  <1> QED BY <1>1, <1>2, CommandMoved DEF Wellformed

-----------------------------------------------------------------------------
(* The append: what it adds to the stream and to what the commands hold.    *)

(* Every event of a batch carries the identity of its command, and a        *)
(* question its answer, a summary its subject.                              *)
LEMMA BatchEvents ==
  ASSUME NEW me, NEW r, me.req = r, r.op \in Operations, NEW k \in DOMAIN Batch(me)
  PROVE  LET b == Batch(me)
             e == b[k]
         IN  /\ e.session = r.session /\ e.key = r.key /\ e.run = me.run /\ e.at = me.at
             /\ e.type \in {"question", "answer"} => r.op \in Answering
             /\ e.type = "turn" => r.op = "assistant"
             /\ e.type = "note" => r.op = "note"
             /\ e.type = "human" => r.op = "learner"
             /\ e.type = "question" => \E j \in DOMAIN b : b[j].type = "answer"
             /\ e.type = "summary" => \E j \in DOMAIN b : b[j].type \in {"note", "answer"}
  <1> DEFINE E(type, what) == Event(type, r, me.run, what, me.at)
             b == Batch(me)
             Types == {"created", "note", "human", "turn", "question", "answer", "summary"}
                      \cup Transitions
  <1>1. \A type, what :
            /\ E(type, what).type = type /\ E(type, what).what = what
            /\ E(type, what).session = r.session /\ E(type, what).key = r.key
            /\ E(type, what).run = me.run /\ E(type, what).at = me.at
    BY DEF Event
  <1> DEFINE Goal == LET e == b[k]
         IN  /\ e.session = r.session /\ e.key = r.key /\ e.run = me.run /\ e.at = me.at
             /\ e.type \in {"question", "answer"} => r.op \in Answering
             /\ e.type = "turn" => r.op = "assistant"
             /\ e.type = "note" => r.op = "note"
             /\ e.type = "human" => r.op = "learner"
             /\ e.type = "question" => \E j \in DOMAIN b : b[j].type = "answer"
             /\ e.type = "summary" => \E j \in DOMAIN b : b[j].type \in {"note", "answer"}
  <1>2. ASSUME NEW e, b = <<e>> PROVE k = 1 /\ b[k] = e
    BY <1>2
  <1>0. k \in DOMAIN b
    OBVIOUS
  <1>3. ASSUME r.op \in Creating PROVE Goal
    <2>1. b = <<E("created", r.what)>>
      BY <1>3, BatchIs
    <2> HIDE DEF E, b
    <2> QED BY <1>1, <1>2, <2>1
  <1>4. ASSUME r.op \in Untracked PROVE Goal
    <2>1. PICK type \in Transitions : b = <<E(type, None)>>
      BY <1>4, BatchIs
    <2> HIDE DEF E, b
    <2> QED BY <1>1, <1>2, <2>1 DEF Transitions
  <1>5. ASSUME r.op = "learner" PROVE Goal
    <2>1. b = <<E("human", r.what)>>
      BY <1>5, BatchIs
    <2> HIDE DEF E, b
    <2> QED BY <1>1, <1>2, <1>5, <2>1
  <1>6. ASSUME r.op = "assistant" PROVE Goal
    <2>1. b = <<E("turn", r.what)>>
      BY <1>6, BatchIs
    <2> HIDE DEF E, b
    <2> QED BY <1>1, <1>2, <1>6, <2>1
  <1>7. ASSUME r.op = "note" PROVE Goal
    <2>1. b = <<E("note", r.what), E("summary", me.built)>>
      BY <1>7, BatchIs
    <2> HIDE DEF E, b
    <2>2. k \in {1, 2} /\ DOMAIN b = {1, 2} /\ b[1] = E("note", r.what) /\ b[2] = E("summary", me.built)
      BY <1>0, <2>1
    <2> QED BY <1>1, <1>7, <2>2
  <1>8. ASSUME r.op \in Answering PROVE Goal
    <2>1. b = <<E("question", r.what), E("answer", r.what), E("summary", me.built)>>
      BY <1>8, BatchIs
    <2> HIDE DEF E, b
    <2>2. /\ k \in {1, 2, 3} /\ DOMAIN b = {1, 2, 3} /\ b[1] = E("question", r.what)
          /\ b[2] = E("answer", r.what) /\ b[3] = E("summary", me.built)
      BY <1>0, <2>1
    <2> QED BY <1>1, <1>8, <2>2
  <1> QED BY <1>3, <1>4, <1>5, <1>6, <1>7, <1>8 DEF Operations, Untracked, Creating, Lifecycle, Answering

(* A batch is not empty, and a recording command's holds its record.        *)
LEMMA BatchRecords ==
  ASSUME NEW me, NEW r, me.req = r, r.op \in Operations
  PROVE  /\ 1 \in DOMAIN Batch(me)
         /\ r.op \notin Untracked =>
                \E k \in DOMAIN Batch(me) :
                    Batch(me)[k].type = Records(r.op) /\ Batch(me)[k].what = r.what
  <1> DEFINE E(type, what) == Event(type, r, me.run, what, me.at)
             b == Batch(me)
  <1>1. \A type, what : E(type, what).type = type /\ E(type, what).what = what
    BY DEF Event
  <1> DEFINE Goal == 1 \in DOMAIN b
                     /\ (r.op \notin Untracked =>
                           \E k \in DOMAIN b : b[k].type = Records(r.op) /\ b[k].what = r.what)
  <1>2. ASSUME r.op \in Creating PROVE Goal
    <2>1. b = <<E("created", r.what)>> /\ Records(r.op) = "created"
      BY <1>2, BatchIs, RecordsAre
    <2> HIDE DEF E, b
    <2> QED BY <1>1, <2>1
  <1>3. ASSUME r.op \in Untracked PROVE Goal
    <2>1. PICK type \in Transitions : b = <<E(type, None)>>
      BY <1>3, BatchIs
    <2> HIDE DEF E, b
    <2> QED BY <1>3, <2>1
  <1>4. ASSUME r.op \in {"learner", "assistant"} PROVE Goal
    <2>1. b = <<E(Records(r.op), r.what)>>
      BY <1>4, BatchIs, RecordsAre
    <2> HIDE DEF E, b
    <2> QED BY <1>1, <2>1
  <1>5. ASSUME r.op = "note" PROVE Goal
    <2>1. b = <<E("note", r.what), E("summary", me.built)>> /\ Records(r.op) = "note"
      BY <1>5, BatchIs, RecordsAre
    <2> HIDE DEF E, b
    <2>2. DOMAIN b = {1, 2} /\ b[1] = E("note", r.what)
      BY <2>1
    <2> QED BY <1>1, <2>1, <2>2
  <1>6. ASSUME r.op \in Answering PROVE Goal
    <2>1. b = <<E("question", r.what), E("answer", r.what), E("summary", me.built)>>
          /\ Records(r.op) = "answer"
      BY <1>6, BatchIs, RecordsAre
    <2> HIDE DEF E, b
    <2>2. DOMAIN b = {1, 2, 3} /\ b[2] = E("answer", r.what)
      BY <2>1
    <2> QED BY <1>1, <2>1, <2>2
  <1> QED BY <1>2, <1>3, <1>4, <1>5, <1>6 DEF Operations, Untracked, Creating, Lifecycle, Answering

(* The stream after an append.                                              *)
LEMMA Appended ==
  ASSUME Wellformed, NEW b, BatchOK(b), log' = log \o b
  PROVE  \E n \in Nat, m \in Nat :
            /\ Len(log) = n /\ Len(log') = n + m /\ Len(b) = m
            /\ DOMAIN log = 1..n /\ DOMAIN b = 1..m /\ DOMAIN log' = 1..(n + m)
            /\ \A i \in 1..n : log'[i] = log[i]
            /\ \A k \in 1..m : n + k \in 1..(n + m) /\ log'[n + k] = b[k]
            /\ \A j \in (n + 1)..(n + m) : j - n \in 1..m /\ log'[j] = b[j - n]
  <1>1. PICK S : log \in Seq(S)
    BY DEF Wellformed, IsSeq
  <1>2. PICK T : b \in Seq(T)
    BY DEF BatchOK, IsSeq
  <1>3. log \in Seq(S \cup T) /\ b \in Seq(S \cup T)
    BY <1>1, <1>2
  <1>4. Len(log) \in Nat /\ Len(b) \in Nat /\ Len(log') = Len(log) + Len(b)
        /\ DOMAIN log = 1..Len(log) /\ DOMAIN b = 1..Len(b) /\ DOMAIN log' = 1..(Len(log) + Len(b))
    BY <1>3
  <1>5. \A i \in 1..Len(log) : log'[i] = log[i]
    BY <1>3
  <1>6. \A k \in 1..Len(b) : Len(log) + k \in 1..(Len(log) + Len(b)) /\ log'[Len(log) + k] = b[k]
    BY <1>3, <1>4
  <1>7. \A j \in (Len(log) + 1)..(Len(log) + Len(b)) : j - Len(log) \in 1..Len(b) /\ log'[j] = b[j - Len(log)]
    BY <1>3, <1>4
  <1> QED BY <1>4, <1>5, <1>6, <1>7

(* The batch of a command fits the stream and is in it as a whole.          *)
LEMMA AppendStream ==
  ASSUME Wellformed, StreamSound, CommandsSound, NEW c \in Clients, append(c), [Next]_vars
  PROVE  StreamSound'
  <1>1. PICK me : me = client[c]
    OBVIOUS
  <1>2. PICK r : r = me.req
    OBVIOUS
  <1>3. PICK b : b = Batch(me)
    OBVIOUS
  <1>4. me.pc = "append" /\ AcceptsAll(log, b) /\ log' = log \o b
    BY <1>1, <1>3 DEF append
  <1>5. /\ r \in Requests /\ r.op \in Operations /\ ReadSound(me) /\ RunFits(me)
    BY <1>1, <1>2, <1>4, InStep
  <1>6. BatchOK(b)
    BY <1>2, <1>3, <1>5, BatchShape
  <1>7. PICK n \in Nat, m \in Nat :
            /\ Len(log) = n /\ Len(log') = n + m /\ Len(b) = m
            /\ DOMAIN log = 1..n /\ DOMAIN b = 1..m /\ DOMAIN log' = 1..(n + m)
            /\ \A i \in 1..n : log'[i] = log[i]
            /\ \A k \in 1..m : n + k \in 1..(n + m) /\ log'[n + k] = b[k]
            /\ \A j \in (n + 1)..(n + m) : j - n \in 1..m /\ log'[j] = b[j - n]
    BY <1>4, <1>6, Appended
  <1>8. /\ \A i \in 1..n : i \in 1..(n + m)
        /\ \A i \in 1..(n + m) : i \in 1..n \/ i \in (n + 1)..(n + m)
        /\ \A i, j \in 1..(n + m) : i < j \/ j < i \/ i = j
        /\ \A j \in 1..n : \A i \in 1..(n + m) : i < j => i \in 1..n
        /\ \A j \in (n + 1)..(n + m) : j \notin 1..n /\ j \in 1..(n + m)
        /\ \A i, j \in 1..(n + m) : i < j => i \in 1..(j - 1)
    BY <1>7
  <1>9. ASSUME NEW j \in (n + 1)..(n + m)
        PROVE  \E before :
                  /\ IsSeq(before) /\ DOMAIN before = 1..(j - 1)
                  /\ \A i \in 1..(j - 1) : before[i] = log'[i]
                  /\ \A i \in 1..(j - 1) : event_id(before[i]) # event_id(log'[j])
                  /\ Reduces(before, log'[j])
    <2>1. j \in DOMAIN (log \o b) /\ j \notin DOMAIN log
      BY <1>4, <1>7, <1>8, <1>9
    <2>2. IsSeq(log) /\ IsSeq(b)
      BY <1>6 DEF Wellformed, BatchOK
    <2>3. \E before :
             /\ IsSeq(before) /\ DOMAIN before = 1..(j - 1)
             /\ \A i \in 1..(j - 1) : before[i] = (log \o b)[i]
             /\ \A i \in 1..(j - 1) : event_id(before[i]) # event_id((log \o b)[j])
             /\ Reduces(before, (log \o b)[j])
      BY <1>4, <2>1, <2>2, AcceptedEvents
    <2> QED BY <1>4, <2>3
  <1>10. OneOwnerPerRun'
    BY OwnersStep DEF StreamSound
  <1>11. ASSUME NEW i \in DOMAIN log', NEW j \in DOMAIN log', i < j
         PROVE  /\ event_id(log'[i]) # event_id(log'[j])
                /\ ~ (log'[i].type = "created" /\ log'[j].type = "created")
    <2>1. CASE j \in 1..n
      <3>1. i \in 1..n /\ i # j
        BY <1>7, <1>8, <1>11, <2>1
      <3>2. i \in DOMAIN log /\ j \in DOMAIN log /\ log'[i] = log[i] /\ log'[j] = log[j]
        BY <1>7, <2>1, <3>1
      <3>3. event_id(log[i]) # event_id(log[j])
        BY <3>1, <3>2 DEF StreamSound
      <3>4. ~ (log[i].type = "created" /\ log[j].type = "created")
        BY <3>1, <3>2 DEF StreamSound
      <3> QED BY <3>2, <3>3, <3>4
    <2>2. CASE j \in (n + 1)..(n + m)
      <3>1. PICK before :
               /\ DOMAIN before = 1..(j - 1)
               /\ \A k \in 1..(j - 1) : before[k] = log'[k]
               /\ \A k \in 1..(j - 1) : event_id(before[k]) # event_id(log'[j])
               /\ Reduces(before, log'[j])
        BY <1>9, <2>2
      <3>2. i \in 1..(j - 1)
        BY <1>7, <1>8, <1>11, <2>2
      <3>3. event_id(log'[i]) # event_id(log'[j])
        BY <3>1, <3>2
      <3>4. log'[j].type = "created" => log'[i].type # "created"
        BY <3>1, <3>2 DEF Reduces
      <3> QED BY <3>3, <3>4
    <2> QED BY <1>7, <1>8, <1>11, <2>1, <2>2
  <1> DEFINE Beside(l, i, type) == \E j \in DOMAIN l :
                l[j].type = type /\ l[j].session = l[i].session
                /\ l[j].key = l[i].key /\ l[j].run = l[i].run
             Sound(l, i) ==
                /\ l[i].at \in 0..Len(l)
                /\ l[i].type \in {"question", "answer", "turn"} => OfSession(l[i].run, l[i].session)
                /\ l[i].type \in {"note", "human"} => l[i].run = None
                /\ l[i].type = "question" => Beside(l, i, "answer")
                /\ l[i].type = "summary" =>
                    /\ Beside(l, i, "note") \/ Beside(l, i, "answer")
                    /\ l[i].what \in Nat /\ l[i].what <= Interactions(l, l[i].session)
  <1>12. IsSeq(log) /\ IsSeq(log')
    BY WellformedStep DEF Wellformed
  <1>13. ASSUME NEW i \in 1..n PROVE Sound(log', i)
    <2>1. Sound(log, i)
      BY <1>7 DEF StreamSound
    <2>2. log'[i] = log[i] /\ i \in 1..(n + m)
      BY <1>7, <1>8
    <2>3. \A type : Beside(log, i, type) => Beside(log', i, type)
      BY <1>7, <1>8, <2>2
    <2>4. PICK s : s = log[i].session
      OBVIOUS
    <2>5. Interactions(log, s) \in Nat /\ Interactions(log', s) \in Nat
          /\ Interactions(log, s) <= Interactions(log', s)
      BY <1>7, <1>8, <1>12, InteractionsGrow
    <2>6. log'[i].at \in 0..Len(log')
      BY <1>7, <2>1, <2>2
    <2>7. log'[i].type = "summary" =>
              log'[i].what \in Nat /\ log'[i].what <= Interactions(log', s)
      BY <2>1, <2>2, <2>4, <2>5
    <2> HIDE DEF Beside
    <2> QED BY <2>1, <2>2, <2>3, <2>4, <2>6, <2>7
  <1>14. ASSUME NEW i \in (n + 1)..(n + m) PROVE Sound(log', i)
    <2>1. PICK k \in 1..m : k = i - n /\ log'[i] = b[k]
      BY <1>7
    <2>2. PICK e : e = b[k]
      OBVIOUS
    <2>3. /\ e.session = r.session /\ e.key = r.key /\ e.run = me.run /\ e.at = me.at
          /\ e.type \in {"question", "answer"} => r.op \in Answering
          /\ e.type = "turn" => r.op = "assistant"
          /\ e.type = "note" => r.op = "note"
          /\ e.type = "human" => r.op = "learner"
          /\ e.type = "question" => \E j \in 1..m : b[j].type = "answer"
          /\ e.type = "summary" => \E j \in 1..m : b[j].type \in {"note", "answer"}
      BY <1>2, <1>3, <1>5, <1>7, <2>2, BatchEvents
    <2>4. ASSUME NEW j \in 1..m
          PROVE  /\ n + j \in DOMAIN log' /\ log'[n + j] = b[j]
                 /\ log'[n + j].session = r.session /\ log'[n + j].key = r.key
                 /\ log'[n + j].run = me.run
      <3>0. j \in DOMAIN Batch(me)
        BY <1>3, <1>7
      <3>1. PICK f : f = Batch(me)[j]
        OBVIOUS
      <3>2. f.session = r.session /\ f.key = r.key /\ f.run = me.run
        BY <1>2, <1>5, <3>0, <3>1, BatchEvents
      <3>3. n + j \in DOMAIN log' /\ log'[n + j] = f
        BY <1>3, <1>7, <3>1
      <3> QED BY <1>3, <3>1, <3>2, <3>3
    <2>5. \A type : (\E j \in 1..m : b[j].type = type) => Beside(log', i, type)
      BY <2>1, <2>2, <2>3, <2>4
    <2>6. e.at \in 0..Len(log')
      <3>1. me.at \in me.seen..Len(log) /\ me.seen \in 0..Len(log)
        BY <1>4, <1>5 DEF ReadSound
      <3> QED BY <1>7, <2>3, <3>1
    <2>7. e.type \in {"question", "answer", "turn"} => OfSession(e.run, e.session)
      <3>1. CASE r.op \in {"finalize", "assistant"}
        BY <1>2, <1>5, <2>3, <3>1, RunAssumption DEF RunFits, OfSession
      <3>2. CASE r.op = "ask"
        BY <1>2, <1>4, <1>5, <2>3, <3>2 DEF RunFits, OfSession
      <3> QED BY <2>3, <3>1, <3>2 DEF Answering
    <2>8. e.type \in {"note", "human"} => e.run = None
      BY <1>2, <1>5, <2>3 DEF RunFits, Answering
    <2>9. e.type = "summary" => e.what \in Nat /\ e.what <= Interactions(log', e.session)
      <3> SUFFICES ASSUME e.type = "summary"
                   PROVE  e.what \in Nat /\ e.what <= Interactions(log', e.session)
        OBVIOUS
      <3>1. PICK before :
               /\ IsSeq(before) /\ DOMAIN before = 1..(i - 1)
               /\ \A j \in 1..(i - 1) : before[j] = log'[j]
               /\ Reduces(before, e)
        BY <1>9, <2>1, <2>2
      <3>2. e.what = Interactions(before, e.session)
        BY <3>1 DEF Reduces, reduce_summary_updated
      <3>3. 1..(i - 1) \subseteq 1..(n + m)
        BY <1>7
      <3>4. /\ Interactions(before, e.session) \in Nat
            /\ Interactions(before, e.session) <= Interactions(log', e.session)
        BY <1>7, <1>12, <3>1, <3>3, InteractionsGrow
      <3> QED BY <3>2, <3>4
    <2> HIDE DEF Beside
    <2> QED BY <2>1, <2>2, <2>3, <2>5, <2>6, <2>7, <2>8, <2>9
  <1>15. \A i \in DOMAIN log' : Sound(log', i)
    BY <1>7, <1>8, <1>13, <1>14
  <1>16. \A i, j \in DOMAIN log' : event_id(log'[i]) = event_id(log'[j]) => i = j
    BY <1>7, <1>8, <1>11
  <1>17. \A i, j \in DOMAIN log' : log'[i].type = "created" /\ log'[j].type = "created" => i = j
    BY <1>7, <1>8, <1>11
  <1>18. \A i \in DOMAIN log' : \A type : Beside(log', i, type) <=>
            \E j \in DOMAIN log' :
                log'[j].type = type /\ log'[j].session = log'[i].session
                /\ log'[j].key = log'[i].key /\ log'[j].run = log'[i].run
    OBVIOUS
  <1>19. (\A i, j \in DOMAIN log : event_id(log[i]) = event_id(log[j]) => i = j)'
    BY <1>16 DEF event_id
  <1> QED BY <1>10, <1>15, <1>17, <1>19 DEF StreamSound

(* What a command holds survives the growth of the stream.                  *)
LEMMA CommandGrown ==
  ASSUME NEW n \in Nat, NEW m \in Nat, m # 0, Len(log) = n, Len(log') = n + m,
         DOMAIN log = 1..n, DOMAIN log' = 1..(n + m),
         \A i \in 1..n : log'[i] = log[i], IsSeq(log), IsSeq(log'),
         NEW me, CommandSound(me)
  PROVE  CommandSound(me)'
  <1>1. \A i \in DOMAIN log : i \in DOMAIN log' /\ log'[i] = log[i]
    OBVIOUS
  <1>2. ASSUME NEW i \in 1..(n + m)
        PROVE  /\ IsSeq(SubSeq(log', 1, i)) /\ DOMAIN SubSeq(log', 1, i) = 1..i
               /\ \A j \in 1..i : SubSeq(log', 1, i)[j] = log'[j]
    <2>1. i \in 0..Len(log')
      BY <1>2
    <2> QED BY <2>1, StretchIs
  <1>3. ASSUME NEW i \in DOMAIN log, NEW s
        PROVE  Interactions(SubSeq(log', 1, i), s) = Interactions(Prefix(i), s)
    <2>1. i \in 0..Len(log) /\ i \in 1..(n + m) /\ \A j \in 1..i : log'[j] = log[j]
      BY <1>3
    <2>2. /\ DOMAIN Prefix(i) = 1..i /\ Part(Prefix(i))
          /\ DOMAIN SubSeq(log', 1, i) = 1..i
          /\ \A j \in 1..i : SubSeq(log', 1, i)[j] = log'[j]
      BY <1>2, <2>1, PrefixIsPart
    <2>3. \A j \in 1..i : SubSeq(log', 1, i)[j] = Prefix(i)[j]
      BY <2>1, <2>2 DEF Part
    <2>4. PICK a, b : a = SubSeq(log', 1, i) /\ b = Prefix(i)
      OBVIOUS
    <2>5. DOMAIN a = DOMAIN b /\ \A j \in DOMAIN a : a[j] = b[j]
      BY <2>2, <2>3, <2>4
    <2>6. Interactions(a, s) = Interactions(b, s)
      BY <2>5, EqualStretches
    <2> QED BY <2>4, <2>6
  <1>4. ASSUME NEW i \in DOMAIN log', i \notin DOMAIN log, NEW s,
               log'[i].session = s, log'[i].type = "answer"
        PROVE  /\ Interactions(log, s) \in Nat /\ Interactions(SubSeq(log', 1, i), s) \in Nat
               /\ Interactions(log, s) < Interactions(SubSeq(log', 1, i), s)
    <2>1. i \in 1..(n + m) /\ i \in 1..i /\ 1..n \subseteq 1..i
      BY <1>4
    <2>2. \A j \in 1..n : log[j] = SubSeq(log', 1, i)[j]
      BY <1>2, <2>1
    <2>3. i \in DOMAIN SubSeq(log', 1, i) /\ SubSeq(log', 1, i)[i] = log'[i]
      BY <1>2, <2>1
    <2> QED BY <1>2, <1>4, <2>1, <2>2, <2>3, AnswerCounts
  <1>5. ASSUME NEW run \in RunIds, NEW r, LookedUp(run, r) PROVE LookedUp(run, r)'
    <2> DEFINE s == r.session
    <2>1. run.count \in Nat /\ run.count <= Interactions(log, s)
      BY <1>5 DEF RunIds, LookedUp
    <2>2. /\ Interactions(log, s) \in Nat /\ Interactions(log', s) \in Nat
          /\ Interactions(log, s) <= Interactions(log', s)
      <3>1. DOMAIN log \subseteq DOMAIN log' /\ \A i \in DOMAIN log : log[i] = log'[i]
        BY <1>1
      <3> QED BY <3>1, InteractionsGrow
    <2>3. ASSUME NEW i \in Of(log', s, {"answer"}), log'[i].key = r.key
          PROVE  run.count < Interactions(SubSeq(log', 1, i), s)
      <3>1. i \in DOMAIN log' /\ log'[i].session = s /\ log'[i].type = "answer"
        BY <2>3 DEF Of
      <3>2. CASE i \in DOMAIN log
        <4>1. i \in Of(log, s, {"answer"}) /\ log[i].key = r.key
          BY <1>1, <2>3, <3>1, <3>2 DEF Of
        <4>2. run.count < Interactions(Prefix(i), s)
          BY <1>5, <4>1 DEF LookedUp
        <4> QED BY <1>3, <3>2, <4>2
      <3>3. CASE i \notin DOMAIN log
        BY <1>4, <2>1, <3>1, <3>3
      <3> QED BY <3>2, <3>3
    <2>4. run.count <= Interactions(log', s)
      BY <2>1, <2>2
    <2> QED BY <2>3, <2>4 DEF LookedUp, Prefix
  <1>6. CASE me.pc = "idle"
    <2>1. Acked(me) => Acked(me)'
      BY <1>1 DEF Acked, Identified
    <2>2. ASSUME Taken(me) PROVE Taken(me)'
      <3>1. PICK i \in DOMAIN log :
               /\ log[i].type \in {Records(me.req.op), "answer", "turn", "created"}
               /\ log[i].session = me.req.session
               /\ me.req.op \notin Creating => log[i].key = me.req.key \/ log[i].run = me.run
               /\ Differs(me.req, log[i]) \/ Rederived(me, i)
        BY <2>2 DEF Taken
      <3>2. Rederived(me, i) => Rederived(me, i)'
        BY <1>1, <1>3 DEF Rederived, Prefix
      <3> QED BY <1>1, <3>1, <3>2 DEF Taken
    <2> QED BY <1>6, <2>1, <2>2 DEF CommandSound, AnswerSound
  <1>7. CASE me.pc # "idle"
    <2>1. /\ me.pc \in Points \ {"idle"} /\ me.req.op \in At(me.pc)
          /\ me.outcome = "none" /\ me.seen \in 0..Len(log) /\ RunFits(me)
          /\ me.pc = "ask" => \E i \in Of(log, me.req.session, Transitions) : i <= me.seen
          /\ me.pc = "append" => me.at \in me.seen..Len(log)
      BY <1>7 DEF CommandSound, ReadSound
    <2>2. me.seen \in 0..Len(log') /\ Len(log') # me.seen
      BY <2>1
    <2>3. me.pc = "append" => me.at \in me.seen..Len(log')
      BY <2>1
    <2>4. me.pc = "ask" => \E i \in Of(log', me.req.session, Transitions) : i <= me.seen
      BY <1>1, <2>1 DEF Of
    <2>5. RunFits(me)'
      <3>1. CASE me.req.op = "ask" /\ me.pc # "ask"
        <4>1. LookedUp(me.run, me.req)'
          BY <1>5, <2>1, <3>1 DEF RunFits
        <4> QED BY <2>1, <3>1, <4>1 DEF RunFits
      <3>2. CASE ~ (me.req.op = "ask" /\ me.pc # "ask")
        BY <2>1, <3>2 DEF RunFits
      <3> QED BY <3>1, <3>2
    <2>6. ReadSound(me)'
      BY <2>1, <2>2, <2>3, <2>4, <2>5 DEF ReadSound, Of
    <2> QED BY <1>7, <2>6 DEF CommandSound
  <1> QED BY <1>6, <1>7

(* The command that appended has left its record.                           *)
LEMMA AppendSound ==
  ASSUME Wellformed, CommandsSound, NEW c \in Clients, append(c)
  PROVE  CommandsSound'
  <1>1. PICK me : me = client[c]
    OBVIOUS
  <1>2. PICK r : r = me.req
    OBVIOUS
  <1>3. PICK b : b = Batch(me)
    OBVIOUS
  <1>4. me.pc = "append" /\ log' = log \o b /\ Become(c, Done(me, "ok"))
    BY <1>1, <1>3 DEF append
  <1>5. /\ r \in Requests /\ r.op \in Operations /\ ReadSound(me) /\ RunFits(me)
    BY <1>1, <1>2, <1>4, InStep
  <1>6. BatchOK(b)
    BY <1>2, <1>3, <1>5, BatchShape
  <1>7. PICK n \in Nat, m \in Nat :
            /\ Len(log) = n /\ Len(log') = n + m /\ Len(b) = m
            /\ DOMAIN log = 1..n /\ DOMAIN b = 1..m /\ DOMAIN log' = 1..(n + m)
            /\ \A i \in 1..n : log'[i] = log[i]
            /\ \A k \in 1..m : n + k \in 1..(n + m) /\ log'[n + k] = b[k]
            /\ \A j \in (n + 1)..(n + m) : j - n \in 1..m /\ log'[j] = b[j - n]
    BY <1>4, <1>6, Appended
  <1>8. m # 0
    <2>1. 1 \in DOMAIN b
      BY <1>2, <1>3, <1>5, BatchRecords
    <2> QED BY <1>7, <2>1
  <1>9. ASSUME NEW d \in Clients, d # c PROVE CommandSound(client[d])'
    <2>1. PICK x : x = client[d]
      OBVIOUS
    <2>2. client'[d] = x
      BY <1>4, <1>9, <2>1 DEF Become, Wellformed, CommandsOK
    <2>3. CommandSound(x)
      BY <2>1 DEF CommandsSound
    <2>4. IsSeq(log) /\ IsSeq(log')
      <3>1. PICK S : log \in Seq(S)
        BY DEF Wellformed, IsSeq
      <3>2. PICK T : b \in Seq(T)
        BY <1>6 DEF BatchOK, IsSeq
      <3>3. log \in Seq(S \cup T) /\ b \in Seq(S \cup T)
        BY <3>1, <3>2
      <3>4. log' \in Seq(S \cup T)
        BY <1>4, <3>3
      <3> QED BY <3>3, <3>4 DEF IsSeq
    <2>5. CommandSound(x)'
      BY <1>7, <1>8, <2>3, <2>4, CommandGrown
    <2> QED BY <2>2, <2>5 DEF CommandSound, AnswerSound, ReadSound, ReadHolds, RunFits, LookedUp,
               Acked, Taken, Rederived, Prefix, Identified
  <1>10. PICK y : y = Done(me, "ok")
    OBVIOUS
  <1>11. client'[c] = y
    BY <1>4, <1>10 DEF Become, Wellformed, CommandsOK
  <1>12. CASE r.op \in Untracked
    <2>1. y = Idle
      BY <1>2, <1>10, <1>12 DEF Done, Untracked
    <2>2. CommandSound(y)'
      BY <2>1 DEF CommandSound, AnswerSound, Idle
    <2>3. CommandSound(client[c])'
      BY <1>11, <2>2 DEF CommandSound, AnswerSound, ReadSound, ReadHolds, RunFits, LookedUp,
               Acked, Taken, Rederived, Prefix, Identified
    <2> QED BY <1>9, <2>3 DEF CommandsSound
  <1>13. CASE r.op \notin Untracked
    <2>1. y.pc = "idle" /\ y.req = r /\ y.outcome = "ok"
      BY <1>2, <1>10, <1>13 DEF Done, Idle, Untracked
    <2>2. PICK k \in 1..m : b[k].type = Records(r.op) /\ b[k].what = r.what
      <3>1. \E k \in DOMAIN Batch(me) :
                Batch(me)[k].type = Records(r.op) /\ Batch(me)[k].what = r.what
        BY <1>2, <1>5, <1>13, BatchRecords
      <3> QED BY <1>3, <1>7, <3>1
    <2>3. b[k].session = r.session /\ b[k].key = r.key /\ b[k].run = me.run
      <3>0. k \in DOMAIN Batch(me)
        BY <1>3, <1>7
      <3>1. PICK f : f = Batch(me)[k]
        OBVIOUS
      <3>2. f.session = r.session /\ f.key = r.key /\ f.run = me.run
        BY <1>2, <1>5, <3>0, <3>1, BatchEvents
      <3> QED BY <1>3, <3>1, <3>2
    <2>4. n + k \in DOMAIN log' /\ log'[n + k] = b[k]
      BY <1>7
    <2>5. r.run # None => me.run = r.run
      BY <1>2, <1>5, RunAssumption DEF RunFits
    <2>6. Acked(y)'
      BY <2>1, <2>2, <2>3, <2>4, <2>5 DEF Acked, Identified
    <2>7. CommandSound(y)'
      BY <1>5, <1>13, <2>1, <2>6 DEF CommandSound, AnswerSound
    <2>8. CommandSound(client[c])'
      BY <1>11, <2>7 DEF CommandSound, AnswerSound, ReadSound, ReadHolds, RunFits, LookedUp,
               Acked, Taken, Rederived, Prefix, Identified
    <2> QED BY <1>9, <2>8 DEF CommandsSound
  <1> QED BY <1>12, <1>13

-----------------------------------------------------------------------------
(* The invariant, and the answers.                                          *)

SessionsInv == Wellformed /\ StreamSound /\ CommandsSound

(* It holds of an empty stream and idle clients.                            *)
LEMMA SessionsInit == Init => SessionsInv
  <1> SUFFICES ASSUME Init PROVE SessionsInv
    OBVIOUS
  <1>1. IsSeq(log) /\ DOMAIN log = {} /\ log = <<>>
    BY DEF Init, IsSeq
  <1>2. Wellformed
    BY <1>1, DoneIsCommand DEF Init, Wellformed, CommandsOK
  <1>3. StreamSound
    BY <1>1 DEF StreamSound, OneOwnerPerRun
  <1>4. CommandSound(Idle)
    BY DEF CommandSound, AnswerSound, Idle
  <1>5. CommandsSound
    BY <1>4 DEF Init, CommandsSound
  <1> QED BY <1>2, <1>3, <1>5 DEF SessionsInv

(* Every step keeps it: only append changes the stream.                     *)
LEMMA SessionsStep ==
  ASSUME SessionsInv, [Next]_vars PROVE SessionsInv'
  <1>1. Wellformed /\ StreamSound /\ CommandsSound
    BY DEF SessionsInv
  <1>2. Wellformed'
    BY <1>1, WellformedStep
  <1>3. ASSUME log' = log PROVE StreamSound'
    BY <1>1, <1>3 DEF StreamSound, OneOwnerPerRun
  <1>4. CASE UNCHANGED vars
    <2>1. log' = log /\ client' = client
      BY <1>4 DEF vars
    <2>2. ASSUME NEW c \in Clients PROVE CommandSound(client[c])'
      <3>1. PICK me : me = client[c]
        OBVIOUS
      <3>2. CommandSound(me)'
        BY <1>1, <2>1, <3>1, CommandUnmoved DEF CommandsSound
      <3> QED BY <2>1, <3>1, <3>2
            DEF CommandSound, AnswerSound, ReadSound, ReadHolds, RunFits, LookedUp,
               Acked, Taken, Rederived, Prefix, Identified
    <2> QED BY <1>2, <1>3, <2>1, <2>2 DEF SessionsInv, CommandsSound
  <1>5. ASSUME NEW c \in Clients, append(c) PROVE StreamSound' /\ CommandsSound'
    BY <1>1, <1>5, AppendStream, AppendSound
  <1>6. ASSUME NEW c \in Clients,
               \/ sequence_first(c) \/ create(c) \/ start(c) \/ _transition(c)
               \/ _current_sequence(c) \/ record_view(c) \/ ask(c) \/ ask_view(c)
               \/ _stored_status(c) \/ _execute(c) \/ _finalize(c)
               \/ record_learner_turn(c) \/ record_assistant_turn(c)
               \/ _expect_sequence(c) \/ append_fails(c) \/ raced(c) \/ crash(c)
        PROVE  CommandsSound' /\ log' = log
    BY <1>1, <1>6, SequenceFirstSound, CreateSound, UntrackedSound, CurrentSequenceSound,
       RecordViewSound, AskSound, AskViewSound, ExecutionSound, TurnSound, ExpectSound,
       AppendFailsSound, RacedSound, CrashSound
  <1>7. CASE Next
    BY <1>2, <1>3, <1>5, <1>6, <1>7 DEF Next, SessionsInv
  <1> QED BY <1>4, <1>7

(* Every reachable state satisfies it.                                      *)
LEMMA SessionsAlways == Spec => []SessionsInv
  <1>1. Init => SessionsInv
    BY SessionsInit
  <1>2. SessionsInv /\ [Next]_vars => SessionsInv'
    BY SessionsStep
  <1> QED BY <1>1, <1>2, PTL DEF Spec

(* A recording command that succeeds has one record, its own, under its     *)
(* identity, and one whose identity is refused has lost it to another one,  *)
(* however its reads and its append interleave with other commands.         *)
THEOREM AnswersHold == Spec => []AnswersAreTrue
  <1>1. SessionsInv => AnswersAreTrue
    <2> SUFFICES ASSUME SessionsInv PROVE AnswersAreTrue
      OBVIOUS
    <2>1. Wellformed /\ StreamSound /\ CommandsSound
      BY DEF SessionsInv
    <2>2. ASSUME NEW c \in Clients, client[c].outcome \in {"ok", "conflict"}
          PROVE  AnswerSound(client[c])
      <3>1. CommandSound(client[c])
        BY <2>1 DEF CommandsSound
      <3> QED BY <2>2, <3>1 DEF CommandSound, ReadSound
    <2>3. ASSUME NEW c \in Clients, client[c].outcome = "ok"
          PROVE  \E i \in DOMAIN log :
                    /\ Identified(client[c].req) = {i}
                    /\ log[i].what = client[c].req.what
                    /\ client[c].req.run # None => log[i].run = client[c].req.run
      <3>1. PICK r : r = client[c].req
        OBVIOUS
      <3>2. r \in Requests /\ r.op \notin Untracked /\ Acked(client[c])
        BY <2>2, <2>3, <3>1 DEF AnswerSound
      <3>3. r.op \in Operations
        BY <3>2, RequestAssumption
      <3>4. PICK i \in Identified(r) :
                /\ i \in DOMAIN log
                /\ log[i].what = r.what /\ (r.run # None => log[i].run = r.run)
        BY <3>1, <3>2 DEF Acked
      <3>5. ASSUME NEW j \in Identified(r) PROVE j = i
        <4>1. r.op \in Creating \/ Records(r.op) # "created"
          BY <3>2, <3>3, RecordsAre DEF Operations, Untracked, Answering, Creating
        <4>2. /\ i \in DOMAIN log /\ j \in DOMAIN log
              /\ log[i].type = Records(r.op) /\ log[j].type = Records(r.op)
              /\ log[i].session = log[j].session
              /\ r.op \in Creating \/ log[i].key = log[j].key
          BY <3>4, <4>1 DEF Identified
        <4> QED BY <2>1, <3>2, <3>3, <4>2, OneRecord
      <3>6. Identified(r) = {i}
        BY <3>4, <3>5
      <3> QED BY <3>1, <3>4, <3>6
    <2>4. ConflictIsReal
      BY <2>2 DEF ConflictIsReal, AnswerSound, Taken
    <2> QED BY <2>3, <2>4 DEF AnswersAreTrue, AcknowledgedOnce
  <1> QED BY <1>1, SessionsAlways, PTL

-----------------------------------------------------------------------------
(* What the sequence check guards.  A batch grows a stream by interactions  *)
(* before its summary; they change nothing the reducers look at.            *)
Talk == {"note", "human", "question", "answer"}

(* The stream that a batch's event meets: the log and p interactions.       *)
Longer(before, p, s) ==
    /\ IsSeq(before) /\ DOMAIN before = 1..(Len(log) + p)
    /\ \A i \in 1..Len(log) : before[i] = log[i]
    /\ \A i \in (Len(log) + 1)..(Len(log) + p) :
        before[i].type \in Talk /\ before[i].session = s /\ before[i].at = Len(log)

(* Its status, stamps and summary are those of the log.                     *)
LEMMA LongerIs ==
  ASSUME Wellformed, StreamSound, NEW s, NEW p \in Nat, NEW before, Longer(before, p, s),
         status(log, s) = "active"
  PROVE  /\ status(before, s) = "active" /\ last_event_at(before, s) <= Len(log)
         /\ continuation_summary(before, s) <= Interactions(log, s)
         /\ Interactions(log, s) \in Nat /\ Interactions(before, s) = Interactions(log, s) + p
         /\ continuation_summary(before, s) \in Nat
  <1>1. PICK n \in Nat : n = Len(log) /\ DOMAIN log = 1..n
    BY StreamIsPart DEF Wellformed
  <1>2. /\ IsSeq(before) /\ DOMAIN before = 1..(n + p) /\ IsSeq(log)
        /\ \A i \in 1..n : i \in 1..(n + p) /\ before[i] = log[i]
        /\ \A i \in 1..(n + p) : i \in 1..n \/ i \in (n + 1)..(n + p)
        /\ \A i \in (n + 1)..(n + p) :
                i \in 1..(n + p) /\ i \notin 1..n
                /\ before[i].type \in Talk /\ before[i].session = s /\ before[i].at = n
    BY <1>1 DEF Longer, Wellformed
  <1>3. ASSUME NEW types, types \cap Talk = {} PROVE Of(before, s, types) = Of(log, s, types)
    <2>1. \A i \in 1..(n + p) : before[i].type \in types => i \in 1..n
      BY <1>2, <1>3
    <2> QED BY <1>1, <1>2, <2>1 DEF Of
  <1>4. status(before, s) = "active"
    <2>1. PICK T : T = Of(log, s, Transitions)
      OBVIOUS
    <2>2. Of(before, s, Transitions) = T
      BY <1>3, <2>1 DEF Transitions, Talk
    <2>3. T # {} /\ T \in SUBSET (1..n) /\ StatusAfter(log[Last(T)].type) = "active"
      BY <1>1, <2>1 DEF status, Of
    <2>4. before[Last(T)] = log[Last(T)]
      BY <1>1, <1>2, <2>3, LastIs
    <2> QED BY <2>2, <2>3, <2>4 DEF status
  <1>5. last_event_at(before, s) <= n
    <2>1. PICK I : I = {i \in DOMAIN before : before[i].session = s /\ before[i].type # "created"}
      OBVIOUS
    <2>2. I \in SUBSET (1..(n + p)) /\ n + p \in Nat
      BY <1>2, <2>1
    <2>3. I # {}
      <3>1. Of(before, s, Transitions) # {}
        BY <1>4 DEF status
      <3> QED BY <2>1, <3>1 DEF Of, Transitions
    <2>4. Last(I) \in 1..(n + p)
      BY <2>2, <2>3, LastIs
    <2>5. \A i \in 1..n : log[i].at \in 0..n
      BY <1>1 DEF StreamSound
    <2>6. \A i \in 1..(n + p) : before[i].at <= n
      BY <1>2, <2>5
    <2>7. last_event_at(before, s) = before[Last(I)].at
      BY <2>1 DEF last_event_at
    <2> QED BY <2>4, <2>6, <2>7
  <1>6. Interactions(log, s) \in Nat
    BY <1>2, InteractionsFinite DEF Interactions
  <1>7. continuation_summary(before, s) <= Interactions(log, s) /\ continuation_summary(before, s) \in Nat
    <2>1. PICK S : S = Of(log, s, {"summary"})
      OBVIOUS
    <2>2. Of(before, s, {"summary"}) = S
      BY <1>3, <2>1 DEF Talk
    <2>3. CASE S = {}
      BY <1>6, <2>2, <2>3 DEF continuation_summary
    <2>4. CASE S # {}
      <3>1. S \in SUBSET (1..n)
        BY <1>1, <2>1 DEF Of
      <3>2. Last(S) \in S
        BY <2>4, <3>1, LastIs
      <3>3. before[Last(S)] = log[Last(S)] /\ Last(S) \in DOMAIN log
        BY <1>1, <1>2, <3>1, <3>2
      <3>4. log[Last(S)].what \in Nat /\ log[Last(S)].what <= Interactions(log, s)
        BY <2>1, <3>2, <3>3 DEF StreamSound, Of
      <3> QED BY <2>2, <2>4, <3>3, <3>4 DEF continuation_summary
    <2> QED BY <2>3, <2>4
  <1>8. Interactions(before, s) = Interactions(log, s) + p
    <2>1. PICK A, N : A = Of(log, s, Talk) /\ N = (n + 1)..(n + p)
      OBVIOUS
    <2>2. Of(before, s, Talk) = A \cup N
      BY <1>1, <1>2, <2>1 DEF Of
    <2>3. A \cap N = {}
      BY <1>1, <1>2, <2>1 DEF Of
    <2>4. IsFiniteSet(A) /\ Cardinality(A) \in Nat
      BY <1>2, <2>1, InteractionsFinite
    <2>5. IsFiniteSet(N) /\ Cardinality(N) = p
      BY <2>1, FS_Interval
    <2>6. Cardinality(A \cup N) = Cardinality(A) + Cardinality(N) - Cardinality(A \cap N)
      BY <2>4, <2>5, FS_Union
    <2>7. Cardinality(A \cap N) = 0
      BY <2>3, FS_EmptySet
    <2>8. Cardinality(A \cup N) = Cardinality(A) + p
      BY <2>4, <2>5, <2>6, <2>7
    <2> QED BY <2>1, <2>2, <2>8 DEF Interactions, Talk
  <1> QED BY <1>1, <1>4, <1>5, <1>6, <1>7, <1>8

(* Identities agree only on events of one kind, session and key.            *)
LEMMA IdentityIs ==
  ASSUME NEW e, NEW f, event_id(e) = event_id(f)
  PROVE  /\ e.type = f.type
         /\ e.type # "created" => e.session = f.session /\ e.key = f.key
         /\ e.type \notin {"created", "turn"} => e.run = f.run
  <1>1. event_id(e)[1] = e.type /\ event_id(f)[1] = f.type
    BY DEF event_id
  <1>2. e.type = f.type
    BY <1>1
  <1>3. CASE e.type = "created"
    BY <1>2, <1>3
  <1>4. CASE e.type = "turn"
    <2>1. <<e.type, e.session, e.key>> = <<f.type, f.session, f.key>>
      BY <1>2, <1>4 DEF event_id
    <2> QED BY <1>2, <1>4, <2>1
  <1>5. CASE e.type \notin {"created", "turn"}
    <2>1. <<e.type, e.session, e.key, e.run>> = <<f.type, f.session, f.key, f.run>>
      BY <1>2, <1>5 DEF event_id
    <2> QED BY <1>2, <1>5, <2>1
  <1> QED BY <1>3, <1>4, <1>5

(* When nothing carries a command's identity, none of its events does.      *)
LEMMA FreshEvent ==
  ASSUME Wellformed, StreamSound, NEW me, NEW r, me.req = r, r \in Requests,
         r.op \in Operations \ Untracked, RunFits(me), me.pc # "ask", Candidates(me, log) = {},
         NEW e, e.session = r.session, e.key = r.key, e.run = me.run,
         \/ e.type = Records(r.op)
         \/ r.op = "note" /\ e.type = "summary"
         \/ r.op \in Answering /\ e.type \in {"question", "summary"},
         NEW i \in DOMAIN log
  PROVE  event_id(log[i]) # event_id(e)
  <1> SUFFICES ASSUME event_id(log[i]) = event_id(e) PROVE FALSE
    OBVIOUS
  <1>1. /\ log[i].type = e.type
        /\ e.type # "created" => log[i].session = e.session /\ log[i].key = e.key
        /\ e.type \notin {"created", "turn"} => log[i].run = e.run
    BY IdentityIs
  <1>2. CASE r.op \in Creating
    <2>1. e.type = "created"
      BY <1>2, RecordsAre DEF Creating, Answering
    <2>2. i \in Candidates(me, log)
      BY <1>1, <1>2, <2>1 DEF Candidates, Creating, Answering
    <2> QED BY <2>2
  <1>3. CASE r.op = "learner"
    <2>1. e.type = "human"
      BY <1>3, RecordsAre DEF Answering
    <2>2. i \in Candidates(me, log)
      BY <1>1, <1>3, <2>1 DEF Candidates, Creating, Answering, Of
    <2> QED BY <2>2
  <1>4. CASE r.op = "assistant"
    <2>1. e.type = "turn"
      BY <1>4, RecordsAre DEF Answering
    <2>2. i \in Candidates(me, log)
      BY <1>1, <1>4, <2>1 DEF Candidates, Creating, Answering, Of
    <2> QED BY <2>2
  <1>5. CASE r.op = "note"
    <2>1. e.type \in {"note", "summary"} /\ me.run = None
      BY <1>5, RecordsAre DEF Answering, RunFits
    <2>2. ASSUME NEW j \in DOMAIN log, log[j].type = "note", log[j].session = r.session,
                 log[j].key = r.key
          PROVE  FALSE
      <3>1. j \in Candidates(me, log)
        BY <1>5, <2>2 DEF Candidates, Creating, Answering, Of
      <3> QED BY <3>1
    <2>3. ASSUME NEW j \in DOMAIN log, log[j].type = "answer" PROVE log[j].run # None
      BY <2>3, RunAssumption DEF StreamSound, OfSession
    <2>4. CASE e.type = "note"
      BY <1>1, <2>2, <2>4
    <2>5. CASE e.type = "summary"
      <3>1. \E j \in DOMAIN log :
                log[j].type \in {"note", "answer"} /\ log[j].session = log[i].session
                /\ log[j].key = log[i].key /\ log[j].run = log[i].run
        BY <1>1, <2>5 DEF StreamSound
      <3> QED BY <1>1, <2>1, <2>2, <2>3, <2>5, <3>1
    <2> QED BY <2>1, <2>4, <2>5
  <1>6. CASE r.op \in Answering
    <2>1. e.type \in {"question", "answer", "summary"} /\ me.run # None
      BY <1>6, RecordsAre, RunAssumption DEF Answering, RunFits
    <2>2. ASSUME NEW j \in DOMAIN log, log[j].type = "answer", log[j].session = r.session,
                 log[j].key = r.key
          PROVE  FALSE
      <3>1. j \in Candidates(me, log)
        BY <1>6, <2>2 DEF Candidates, Creating, Answering, Of
      <3> QED BY <3>1
    <2>3. CASE e.type = "answer"
      BY <1>1, <2>2, <2>3
    <2>4. CASE e.type \in {"question", "summary"}
      <3>1. \E j \in DOMAIN log :
                log[j].type \in {"note", "answer"} /\ log[j].session = log[i].session
                /\ log[j].key = log[i].key /\ log[j].run = log[i].run
        BY <1>1, <2>4 DEF StreamSound
      <3>2. \A j \in DOMAIN log : log[j].type = "note" => log[j].run = None
        BY DEF StreamSound
      <3> QED BY <1>1, <2>1, <2>2, <2>4, <3>1, <3>2
    <2> QED BY <2>1, <2>3, <2>4
  <1> QED BY <1>2, <1>3, <1>4, <1>5, <1>6 DEF Operations, Untracked, Creating, Lifecycle, Answering

(* What an event of a batch meets, and when it is accepted.                 *)
LEMMA BeforeIs ==
  ASSUME Wellformed, StreamSound, NEW me, NEW r, me.req = r, r \in Requests,
         r.op \in Operations \ Untracked, RunFits(me), me.pc # "ask", Candidates(me, log) = {},
         NEW b, b = Batch(me), NEW k \in DOMAIN b,
         \/ b[k].type = Records(r.op)
         \/ r.op = "note" /\ b[k].type = "summary"
         \/ r.op \in Answering /\ b[k].type \in {"question", "summary"},
         \A j \in 1..(k - 1) : b[j].type \in Talk \ {b[k].type},
         me.at = Len(log),
         \A before : Longer(before, k - 1, r.session)
                     /\ (\A j \in 1..(k - 1) : Len(log) + j \in DOMAIN before
                                               /\ before[Len(log) + j] = b[j])
                     /\ (\A i \in DOMAIN before :
                           \/ i \in DOMAIN log /\ before[i] = log[i]
                           \/ \E j \in 1..(k - 1) : before[i] = b[j])
            => Reduces(before, b[k])
  PROVE  Accepts(log, b, k)
  <1>1. PICK n \in Nat : n = Len(log) /\ DOMAIN log = 1..n
    BY StreamIsPart DEF Wellformed
  <1>2. BatchOK(b)
    BY BatchShape
  <1>3. PICK S : log \in Seq(S)
    BY DEF Wellformed, IsSeq
  <1>4. PICK T : b \in Seq(T)
    BY <1>2 DEF BatchOK, IsSeq
  <1>5. log \in Seq(S \cup T) /\ b \in Seq(S \cup T)
    BY <1>3, <1>4
  <1>6. k \in 1..Len(b)
    BY <1>4
  <1>7. PICK w : w = SubSeq(b, 1, k - 1)
    OBVIOUS
  <1>8. /\ w \in Seq(S \cup T) /\ Len(w) = k - 1 /\ \A j \in 1..(k - 1) : w[j] = b[j]
    BY <1>5, <1>6, <1>7
  <1>9. PICK before : before = log \o w
    OBVIOUS
  <1>10. before \in Seq(S \cup T) /\ Len(before) = n + (k - 1)
    BY <1>1, <1>5, <1>8, <1>9, ConcatProperties
  <1>11. /\ DOMAIN before = 1..(n + (k - 1))
         /\ \A i \in 1..n : before[i] = log[i]
         /\ \A j \in 1..(k - 1) : n + j \in 1..(n + (k - 1)) /\ before[n + j] = b[j]
         /\ \A i \in (n + 1)..(n + (k - 1)) : i - n \in 1..(k - 1) /\ before[i] = b[i - n]
         /\ \A i \in 1..(n + (k - 1)) : i \in 1..n \/ i \in (n + 1)..(n + (k - 1))
         /\ k - 1 \in Nat
    BY <1>1, <1>5, <1>6, <1>8, <1>9, <1>10
  <1>12. ASSUME NEW j \in DOMAIN b
         PROVE  b[j].session = r.session /\ b[j].key = r.key /\ b[j].run = me.run /\ b[j].at = n
    BY <1>1, BatchEvents
  <1>13. \A j \in 1..(k - 1) : j \in DOMAIN b
    BY <1>4, <1>6
  <1>14. Longer(before, k - 1, r.session)
    <2>1. IsSeq(before)
      BY <1>10 DEF IsSeq
    <2> QED BY <1>1, <1>11, <1>12, <1>13, <2>1 DEF Longer
  <1>15. \A i \in DOMAIN before : \/ i \in DOMAIN log /\ before[i] = log[i]
                                  \/ \E j \in 1..(k - 1) : before[i] = b[j]
    BY <1>1, <1>11
  <1>16. Reduces(before, b[k])
    BY <1>1, <1>11, <1>14, <1>15
  <1>17. ASSUME NEW i \in DOMAIN before PROVE event_id(before[i]) # event_id(b[k])
    <2>1. CASE i \in DOMAIN log /\ before[i] = log[i]
      <3>1. PICK e : e = b[k]
        OBVIOUS
      <3>2. event_id(log[i]) # event_id(e)
        BY <1>12, <2>1, <3>1, FreshEvent
      <3> QED BY <2>1, <3>1, <3>2
    <2>2. CASE \E j \in 1..(k - 1) : before[i] = b[j]
      BY <2>2, IdentityIs
    <2> QED BY <1>15, <2>1, <2>2
  <1> QED BY <1>7, <1>9, <1>16, <1>17 DEF Accepts

(* A command that reads what it appends to is taken, unless an assistant    *)
(* turn owns its run or key.                                                *)
LEMMA OneAccepted ==
  ASSUME Wellformed, StreamSound, NEW me, NEW r, me.req = r, r \in Requests,
         r.op \in Operations \ Untracked, r.op \notin Answering \cup {"note"},
         RunFits(me), me.pc # "ask", ReadHolds(me), me.at = Len(log)
  PROVE  AcceptsAll(log, Batch(me))
  <1>1. PICK b : b = Batch(me)
    OBVIOUS
  <1>2. PICK e : e = Event(Records(r.op), r, me.run, r.what, me.at) /\ b = <<e>>
    BY <1>1, BatchIs, RecordsAre DEF Operations, Untracked, Creating, Lifecycle, Answering
  <1>3. /\ e.type = Records(r.op) /\ e.what = r.what /\ e.session = r.session /\ e.key = r.key
        /\ e.run = me.run /\ e.at = me.at
    BY <1>2 DEF Event
  <1>4. DOMAIN b = {1} /\ b[1] = e /\ Len(b) = 1
    BY <1>2
  <1>5. Candidates(me, log) = {}
    BY DEF ReadHolds
  <1>6. ASSUME NEW before, Longer(before, 0, r.session) PROVE Reduces(before, e)
    <2>1. DOMAIN before = DOMAIN log /\ \A i \in DOMAIN log : before[i] = log[i]
      <3>1. DOMAIN log = 1..Len(log) /\ Len(log) \in Nat
        BY StreamIsPart DEF Wellformed
      <3> QED BY <1>6, <3>1 DEF Longer
    <2>2. CASE r.op \in Creating
      <3>1. e.type = "created"
        BY <1>3, <2>2, RecordsAre
      <3>2. \A i \in DOMAIN log : log[i].type # "created"
        BY <1>5, <2>2 DEF Candidates, Creating, Answering
      <3> QED BY <2>1, <3>1, <3>2 DEF Reduces
    <2>3. CASE r.op \in {"learner", "assistant"}
      <3>1. e.type = IF r.op = "learner" THEN "human" ELSE "turn"
        BY <1>3, <2>3, RecordsAre DEF Answering
      <3>2. status(log, r.session) = "active"
        BY <2>3 DEF ReadHolds, Creating
      <3>3. status(before, e.session) = "active" /\ last_event_at(before, e.session) <= e.at
        BY <1>3, <1>6, <3>2, LongerIs
      <3>4. last_event_at(before, e.session) <= e.at => e.at >= last_event_at(before, e.session)
        OBVIOUS
      <3>5. r.op = "assistant" => reduce_assistant_turn_recorded(before, e)
        <4> SUFFICES ASSUME r.op = "assistant" PROVE reduce_assistant_turn_recorded(before, e)
          OBVIOUS
        <4>1. Unowned(log, [session |-> r.session, key |-> r.key, run |-> r.run])
              /\ (r.what # None => \E i \in Of(log, r.session, {"human"}) : log[i].key = r.what)
          BY DEF ReadHolds
        <4>2. me.run = r.run
          BY DEF RunFits
        <4>3. Unowned(before, e)
          BY <1>3, <2>1, <4>1, <4>2 DEF Unowned
        <4> QED BY <1>3, <2>1, <4>1, <4>3 DEF reduce_assistant_turn_recorded, Of
      <3> QED BY <2>3, <3>1, <3>3, <3>5 DEF Reduces
    <2> QED BY <2>2, <2>3 DEF Operations, Untracked, Creating, Lifecycle, Answering
  <1>7. Accepts(log, b, 1)
    <2>1. 1 \in DOMAIN b /\ b[1].type = Records(r.op) /\ 1 - 1 = 0 /\ 1..0 = {}
      BY <1>3, <1>4
    <2>2. \A before : Longer(before, 1 - 1, r.session) => Reduces(before, b[1])
      BY <1>4, <1>6, <2>1
    <2> QED BY <1>1, <1>5, <2>1, <2>2, BeforeIs
  <1> QED BY <1>1, <1>4, <1>7 DEF AcceptsAll

(* A summary of what the stream holds is further than the stored one.       *)
LEMMA SummaryReduces ==
  ASSUME Wellformed, StreamSound, NEW s, status(log, s) = "active",
         NEW p \in Nat, p # 0, NEW before, Longer(before, p, s),
         NEW e, e.type = "summary", e.session = s, e.at = Len(log),
         e.what = Interactions(log, s) + p
  PROVE  Reduces(before, e)
  <1>1. /\ status(before, s) = "active" /\ last_event_at(before, s) <= Len(log)
        /\ continuation_summary(before, s) <= Interactions(log, s)
        /\ Interactions(log, s) \in Nat /\ Interactions(before, s) = Interactions(log, s) + p
        /\ continuation_summary(before, s) \in Nat
    BY LongerIs
  <1>2. e.what = Interactions(before, s) /\ e.what > continuation_summary(before, s)
    BY <1>1
  <1>3. reduce_summary_updated(before, e)
    BY <1>2 DEF reduce_summary_updated
  <1>4. e.at >= last_event_at(before, s)
    BY <1>1
  <1> QED BY <1>1, <1>3, <1>4 DEF Reduces

(* So is the interaction it follows.                                        *)
LEMMA TalkReduces ==
  ASSUME Wellformed, StreamSound, NEW s, status(log, s) = "active",
         NEW p \in Nat, NEW before, Longer(before, p, s),
         NEW e, e.type \in Talk, e.session = s, e.at = Len(log),
         e.type = "answer" => reduce_answer_recorded(before, e)
  PROVE  Reduces(before, e)
  <1>1. status(before, s) = "active" /\ last_event_at(before, s) <= Len(log)
    BY LongerIs
  <1>2. e.at >= last_event_at(before, s)
    BY <1>1
  <1> QED BY <1>1, <1>2 DEF Reduces, Talk

(* A note and its summary are taken.                                        *)
LEMMA NoteAccepted ==
  ASSUME Wellformed, StreamSound, NEW me, NEW r, me.req = r, r \in Requests, r.op = "note",
         RunFits(me), me.pc # "ask", ReadHolds(me), me.at = Len(log)
  PROVE  AcceptsAll(log, Batch(me))
  <1>1. PICK b : b = Batch(me)
    OBVIOUS
  <1>2. PICK e, f : /\ e = Event("note", r, me.run, r.what, me.at)
                    /\ f = Event("summary", r, me.run, me.built, me.at)
                    /\ b = <<e, f>>
    BY <1>1, BatchIs DEF Operations
  <1>3. /\ e.type = "note" /\ e.session = r.session /\ e.at = me.at
        /\ f.type = "summary" /\ f.session = r.session /\ f.at = me.at /\ f.what = me.built
    BY <1>2 DEF Event
  <1>4. DOMAIN b = {1, 2} /\ b[1] = e /\ b[2] = f
    BY <1>2
  <1>5. /\ Candidates(me, log) = {} /\ status(log, r.session) = "active"
        /\ me.built = Interactions(log, r.session) + 1
    BY DEF ReadHolds, Creating
  <1>6. r.op \in Operations \ Untracked /\ r.op \notin Answering
    BY DEF Operations, Untracked, Lifecycle, Answering
  <1>7. Accepts(log, b, 1)
    <2>1. 1 \in DOMAIN b /\ b[1].type = Records(r.op) /\ 1 - 1 = 0 /\ 1..0 = {}
      BY <1>3, <1>4, RecordsAre
    <2>2. \A before : Longer(before, 1 - 1, r.session) => Reduces(before, b[1])
      <3> SUFFICES ASSUME NEW before, Longer(before, 0, r.session) PROVE Reduces(before, e)
        BY <1>4, <2>1
      <3> QED BY <1>3, <1>5, TalkReduces DEF Talk
    <2> QED BY <1>1, <1>5, <1>6, <2>1, <2>2, BeforeIs
  <1>8. Accepts(log, b, 2)
    <2>1. 2 \in DOMAIN b /\ b[2].type = "summary" /\ 2 - 1 = 1 /\ 1..1 = {1}
          /\ b[1].type \in Talk \ {b[2].type}
      BY <1>3, <1>4 DEF Talk
    <2>2. \A before : Longer(before, 2 - 1, r.session) => Reduces(before, b[2])
      <3> SUFFICES ASSUME NEW before, Longer(before, 1, r.session) PROVE Reduces(before, f)
        BY <1>4, <2>1
      <3> QED BY <1>3, <1>5, SummaryReduces
    <2> QED BY <1>1, <1>5, <1>6, <2>1, <2>2, BeforeIs
  <1> QED BY <1>1, <1>4, <1>7, <1>8 DEF AcceptsAll

(* A verified or derived run is of the session of the question.             *)
LEMMA RunOfSession ==
  ASSUME NEW me, NEW r, me.req = r, r \in Requests, r.op \in Answering, RunFits(me),
         me.pc # "ask", NEW s, OfSession(me.run, s)
  PROVE  s = r.session
  <1>1. CASE r.op = "finalize"
    <2>1. me.run = r.run /\ r.run # None
      BY <1>1, RunAssumption DEF RunFits
    <2> QED BY <2>1, OneSession
  <1>2. CASE r.op = "ask"
    <2>1. me.run \in RunIds /\ me.run.session = r.session
      BY <1>2 DEF RunFits
    <2> QED BY <2>1, RunAssumption DEF OfSession
  <1> QED BY <1>1, <1>2 DEF Answering

(* Nor does an answer of the course own a run, or one of the session a key, *)
(* that no candidate has.                                                   *)
LEMMA NoAnswerOwns ==
  ASSUME Wellformed, StreamSound, NEW me, NEW r, me.req = r, r \in Requests, r.op \in Answering,
         RunFits(me), me.pc # "ask", Candidates(me, log) = {},
         NEW i \in DOMAIN log, log[i].type = "answer"
  PROVE  log[i].run # me.run /\ (log[i].session = r.session => log[i].key # r.key)
  <1>1. log[i].session = r.session /\ (log[i].run = me.run \/ log[i].key = r.key) => FALSE
    <2> SUFFICES ASSUME log[i].session = r.session, log[i].run = me.run \/ log[i].key = r.key
                 PROVE  FALSE
      OBVIOUS
    <2>1. i \in Candidates(me, log)
      BY DEF Candidates, Of, Answering, Creating
    <2> QED BY <2>1
  <1>2. log[i].run = me.run => log[i].session = r.session
    <2> SUFFICES ASSUME log[i].run = me.run PROVE log[i].session = r.session
      OBVIOUS
    <2>1. PICK s : s = log[i].session
      OBVIOUS
    <2>2. OfSession(me.run, s)
      BY <2>1 DEF StreamSound
    <2> QED BY <2>1, <2>2, RunOfSession
  <1> QED BY <1>1, <1>2

(* An answer is taken with its question and summary, unless an assistant    *)
(* turn owns its run or key.                                                *)
LEMMA AnswerAccepted ==
  ASSUME Wellformed, StreamSound, NEW me, NEW r, me.req = r, r \in Requests, r.op \in Answering,
         RunFits(me), me.pc # "ask", ReadHolds(me), me.at = Len(log),
         \A i \in DOMAIN log :
            log[i].type = "turn" =>
                log[i].run # me.run /\ (log[i].session = r.session => log[i].key # r.key)
  PROVE  AcceptsAll(log, Batch(me))
  <1>1. PICK b : b = Batch(me)
    OBVIOUS
  <1>2. PICK q, e, f : /\ q = Event("question", r, me.run, r.what, me.at)
                       /\ e = Event("answer", r, me.run, r.what, me.at)
                       /\ f = Event("summary", r, me.run, me.built, me.at)
                       /\ b = <<q, e, f>>
    BY <1>1, BatchIs, RequestAssumption
  <1>3. /\ q.type = "question" /\ q.session = r.session /\ q.at = me.at /\ q.key = r.key /\ q.run = me.run
        /\ e.type = "answer" /\ e.session = r.session /\ e.at = me.at /\ e.key = r.key /\ e.run = me.run
        /\ f.type = "summary" /\ f.session = r.session /\ f.at = me.at /\ f.what = me.built
    BY <1>2 DEF Event
  <1>4. DOMAIN b = {1, 2, 3} /\ b[1] = q /\ b[2] = e /\ b[3] = f
    BY <1>2
  <1>5. /\ Candidates(me, log) = {} /\ status(log, r.session) = "active"
        /\ me.built = Interactions(log, r.session) + 2
    BY DEF ReadHolds, Creating, Answering
  <1>6. r.op \in Operations \ Untracked /\ Records(r.op) = "answer"
    BY RecordsAre DEF Operations, Untracked, Lifecycle, Answering
  <1>7. Accepts(log, b, 1)
    <2>1. 1 \in DOMAIN b /\ b[1].type = "question" /\ 1 - 1 = 0 /\ 1..0 = {}
      BY <1>3, <1>4
    <2>2. \A before : Longer(before, 1 - 1, r.session) => Reduces(before, b[1])
      <3> SUFFICES ASSUME NEW before, Longer(before, 0, r.session) PROVE Reduces(before, q)
        BY <1>4, <2>1
      <3> QED BY <1>3, <1>5, TalkReduces DEF Talk
    <2> QED BY <1>1, <1>5, <1>6, <2>1, <2>2, BeforeIs
  <1>8. Accepts(log, b, 2)
    <2>1. 2 \in DOMAIN b /\ b[2].type = Records(r.op) /\ 2 - 1 = 1 /\ 1..1 = {1}
          /\ b[1].type \in Talk \ {b[2].type}
      BY <1>3, <1>4, <1>6 DEF Talk
    <2>2. ASSUME NEW before, Longer(before, 1, r.session),
                 Len(log) + 1 \in DOMAIN before /\ before[Len(log) + 1] = q,
                 \A i \in DOMAIN before : (i \in DOMAIN log /\ before[i] = log[i]) \/ before[i] = q
          PROVE  Reduces(before, e)
      <3>1. \E i \in Of(before, e.session, {"question"}) : before[i].run = e.run /\ before[i].key = e.key
        BY <1>3, <2>2 DEF Of
      <3>2. Unowned(before, e)
        <4> SUFFICES ASSUME NEW i \in DOMAIN before, before[i].type \in {"answer", "turn"}
                     PROVE  before[i].run # e.run
                            /\ (before[i].session = e.session => before[i].key # e.key)
          BY DEF Unowned
        <4>1. i \in DOMAIN log /\ before[i] = log[i]
          BY <1>3, <2>2
        <4>2. log[i].run # me.run /\ (log[i].session = r.session => log[i].key # r.key)
          BY <1>5, <4>1, NoAnswerOwns
        <4> QED BY <1>3, <4>1, <4>2
      <3>3. reduce_answer_recorded(before, e)
        BY <3>1, <3>2 DEF reduce_answer_recorded
      <3> QED BY <1>3, <1>5, <2>2, <3>3, TalkReduces DEF Talk
    <2>3. \A before : Longer(before, 2 - 1, r.session)
                     /\ (\A j \in 1..(2 - 1) : Len(log) + j \in DOMAIN before
                                               /\ before[Len(log) + j] = b[j])
                     /\ (\A i \in DOMAIN before :
                           \/ i \in DOMAIN log /\ before[i] = log[i]
                           \/ \E j \in 1..(2 - 1) : before[i] = b[j])
            => Reduces(before, b[2])
      BY <1>4, <2>1, <2>2
    <2> QED BY <1>1, <1>5, <1>6, <2>1, <2>3, BeforeIs
  <1>9. Accepts(log, b, 3)
    <2>1. 3 \in DOMAIN b /\ b[3].type = "summary" /\ 3 - 1 = 2 /\ 1..2 = {1, 2}
          /\ b[1].type \in Talk \ {b[3].type} /\ b[2].type \in Talk \ {b[3].type}
      BY <1>3, <1>4 DEF Talk
    <2>2. \A before : Longer(before, 3 - 1, r.session) => Reduces(before, b[3])
      <3> SUFFICES ASSUME NEW before, Longer(before, 2, r.session) PROVE Reduces(before, f)
        BY <1>4, <2>1
      <3> QED BY <1>3, <1>5, SummaryReduces
    <2> QED BY <1>1, <1>5, <1>6, <2>1, <2>2, BeforeIs
  <1> QED BY <1>1, <1>4, <1>7, <1>8, <1>9 DEF AcceptsAll

(* When the sequence check passes, what the command read still holds: the   *)
(* reducers take its batch, unless an assistant turn owns the run or the    *)
(* key of an answer, which the finalizer does not look for.                 *)
THEOREM SequenceIsGuarded == Spec => []SequenceGuardsTheRead
  <1>1. SessionsInv => SequenceGuardsTheRead
    <2> SUFFICES ASSUME SessionsInv, NEW c \in Clients, client[c].pc = "append",
                        Len(log) = client[c].seen,
                        client[c].req.op \notin Lifecycle \cup {"start"},
                        ~ AcceptsAll(log, Batch(client[c]))
                 PROVE  /\ client[c].req.op \in Answering
                        /\ \E i \in DOMAIN log :
                            /\ log[i].type = "turn"
                            /\ \/ log[i].run = client[c].run
                               \/ /\ log[i].session = client[c].req.session
                                  /\ log[i].key = client[c].req.key
      BY DEF SequenceGuardsTheRead
    <2>1. Wellformed /\ StreamSound /\ CommandsSound
      BY DEF SessionsInv
    <2>2. PICK me : me = client[c]
      OBVIOUS
    <2>3. PICK r : r = me.req
      OBVIOUS
    <2>4. /\ r \in Requests /\ r.op \in Operations /\ ReadSound(me) /\ RunFits(me)
          /\ me.pc # "ask" /\ r.op \notin Untracked
      BY <2>1, <2>2, <2>3, InStep DEF Untracked
    <2>5. me.at = Len(log) /\ ReadHolds(me)
      <3>1. Len(log) \in Nat
        BY <2>1, StreamIsPart DEF Wellformed
      <3>2. me.at \in me.seen..Len(log) /\ me.seen = Len(log) /\ ReadHolds(me)
        BY <2>2, <2>3, <2>4 DEF ReadSound
      <3> QED BY <3>1, <3>2
    <2>6. ~ AcceptsAll(log, Batch(me))
      BY <2>2
    <2>7. r.op \in Answering
      BY <2>1, <2>3, <2>4, <2>5, <2>6, OneAccepted, NoteAccepted
    <2>8. ~ \A i \in DOMAIN log :
                log[i].type = "turn" =>
                    log[i].run # me.run /\ (log[i].session = r.session => log[i].key # r.key)
      BY <2>1, <2>3, <2>4, <2>5, <2>6, <2>7, AnswerAccepted
    <2> QED BY <2>2, <2>3, <2>7, <2>8
  <1> QED BY <1>1, SessionsAlways, PTL
=============================================================================

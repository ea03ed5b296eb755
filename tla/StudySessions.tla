---------------------------- MODULE StudySessions ----------------------------
(***************************************************************************)
(* Courses, study sessions, turns and grounded questions: the commands of  *)
(* courses/service.py, sessions/service.py, sessions/turn_service.py and   *)
(* application/grounding_ask.py as clients of one course's event stream.   *)
(*                                                                         *)
(* A command reads the stream's length and some views, builds a batch, and *)
(* appends it at the length it read.  The store (module EventStore) makes  *)
(* the append atomic and every view a replay of a prefix of the stream, so *)
(* here `log` is the stream and every view is an operator on a prefix.     *)
(***************************************************************************)
EXTENDS Integers, Sequences, FiniteSets

CONSTANTS Clients,    \* processes issuing commands
          Sessions,   \* session identities of the course
          Requests,   \* the commands they may issue
          MaxEvents,  \* bound on the length of the stream
          MaxRuns,    \* bound on the rows of the run store
          None

\* The commands.  A request names its session, its retry key (a correlation id
\* for lifecycle commands), its content (a profile, a text, a question, the key
\* of the learner turn that is replied to) and, for the last two, a verified run.
Lifecycle == {"suspend", "resume", "end"}

Creating == {"create", "create_at"}

Operations == {"start", "note", "ask", "learner", "finalize", "assistant"}
              \cup Lifecycle \cup Creating

ASSUME RequestAssumption ==
    /\ \A r \in Requests :
        /\ r.op \in Operations
        /\ r.session \in IF r.op \in Creating THEN {None} ELSE Sessions
    /\ None \notin Sessions
    /\ MaxEvents \in Nat /\ MaxRuns \in Nat

\* What identifies the run of a question: its session, key and content, and the
\* state of the session it was asked in.
RunIds == [session : Sessions, key : {r.key : r \in Requests}, what : {r.what : r \in Requests},
           since : Nat, count : Nat, summary : Nat]

\* A verified run is of the session it is recorded in: both finalizers compare
\* the session among its inputs with the one of their context.
ASSUME RunAssumption ==
    /\ None \notin RunIds
    /\ \A r \in Requests :
        /\ r.run # None <=> r.op \in {"finalize", "assistant"}
        /\ r.run \in RunIds => r.run.session = r.session
        /\ \A q \in Requests : r.run # None /\ q.run = r.run => q.session = r.session

VARIABLES log,        \* the course's events
          running,    \* runs whose row says running (or failed): never finalized
          completed,  \* runs whose row says completed
          client      \* client[c]: the command process c executes

vars == <<log, running, completed, client>>

Prefix(k) == SubSeq(log, 1, k)

-----------------------------------------------------------------------------
(* Events and the views that reducers derive from them.                     *)

\* `at` is the clock when the event was built; the clock is the stream's length,
\* which orders any two stamps a commit separates.
Event(type, r, run, what, at) ==
    [type |-> type, session |-> r.session, key |-> r.key, run |-> run,
     what |-> what, at |-> at]

\* Event identities: hashes of session, purpose and retry identity.
event_id(e) ==
    CASE e.type = "created" -> <<e.type, e.what>>
      [] e.type = "turn"    -> <<e.type, e.session, e.key>>
      [] OTHER              -> <<e.type, e.session, e.key, e.run>>

Of(l, s, types) == {i \in DOMAIN l : l[i].session = s /\ l[i].type \in types}

Last(I) == CHOOSE i \in I : \A j \in I : j <= i

StatusAfter(type) ==
    CASE type \in {"started", "resumed"} -> "active"
      [] type = "suspended"              -> "suspended"
      [] type = "ended"                  -> "ended"

Transitions == {"started", "suspended", "resumed", "ended"}

status(l, s) ==
    LET T == Of(l, s, Transitions)
    IN  IF T = {} THEN "none" ELSE StatusAfter(l[Last(T)].type)

\* Stamp of the session's latest event.
last_event_at(l, s) ==
    LET I == {i \in DOMAIN l : l[i].session = s /\ l[i].type # "created"}
    IN  l[Last(I)].at

\* Number of interactions: notes, learner turns, questions and answers.
Interactions(l, s) == Cardinality(Of(l, s, {"note", "human", "question", "answer"}))

\* How many interactions the stored continuation summary covers.
continuation_summary(l, s) ==
    LET I == Of(l, s, {"summary"}) IN IF I = {} THEN 0 ELSE l[Last(I)].what

\* Neither an answer nor an assistant turn of the course has the run, and none of
\* the session has the key.
Unowned(l, e) ==
    \A i \in DOMAIN l :
        l[i].type \in {"answer", "turn"} =>
            /\ l[i].run # e.run
            /\ l[i].session = e.session => l[i].key # e.key

\* Fault: assistant turns are not searched for the run or the key.
AnswersChecked(l, e) ==
    /\ \E i \in Of(l, e.session, {"question"}) :
            l[i].run = e.run /\ l[i].key = e.key
    /\ Unowned(SelectSeq(l, LAMBDA x : x.type # "turn"), e)

reduce_answer_recorded(l, e) ==
    /\ \E i \in Of(l, e.session, {"question"}) :
            l[i].run = e.run /\ l[i].key = e.key
    /\ Unowned(l, e)

reduce_assistant_turn_recorded(l, e) ==
    /\ \/ e.what = None
       \/ \E i \in Of(l, e.session, {"human"}) : l[i].key = e.what
    /\ Unowned(l, e)

\* The summary must be the one the canonical history yields and go further than
\* the stored one.  It names the number of interactions it was built from, which
\* in an append-only history identifies it.
reduce_summary_updated(l, e) ==
    /\ e.what = Interactions(l, e.session)
    /\ e.what > continuation_summary(l, e.session)

\* Fault: any session that is not active can resume.
ResumeUnlessActive(l, e) == status(l, e.session) # "active"

reduce_resumed(l, e) == status(l, e.session) = "suspended"

reduce_ended(l, e) == status(l, e.session) \in {"active", "suspended"}

\* The reducers: whether the projection of l takes the event.
Reduces(l, e) ==
    CASE e.type = "created" -> \A i \in DOMAIN l : l[i].type # "created"
      [] e.type = "started" -> status(l, e.session) = "none"
      [] OTHER ->
            /\ status(l, e.session) # "none"
            /\ e.at >= last_event_at(l, e.session)
            /\ e.type \notin {"resumed", "ended"} => status(l, e.session) = "active"
            /\ e.type = "answer" => reduce_answer_recorded(l, e)
            /\ e.type = "turn" => reduce_assistant_turn_recorded(l, e)
            /\ e.type = "summary" => reduce_summary_updated(l, e)
            /\ e.type = "resumed" => reduce_resumed(l, e)
            /\ e.type = "ended" => reduce_ended(l, e)

\* The store takes event number k of a batch: a fresh identity, and the reducers.
Accepts(l, batch, k) ==
    LET before == l \o SubSeq(batch, 1, k - 1)
    IN  /\ \A i \in DOMAIN before : event_id(before[i]) # event_id(batch[k])
        /\ Reduces(before, batch[k])

AcceptsAll(l, batch) == \A k \in DOMAIN batch : Accepts(l, batch, k)

\* The first event the store refuses is a continuation summary.
SummaryRefused(l, batch) ==
    \E k \in DOMAIN batch :
        /\ batch[k].type = "summary"
        /\ ~ Accepts(l, batch, k)
        /\ \A j \in 1..(k - 1) : Accepts(l, batch, j)

-----------------------------------------------------------------------------
(* Commands.  `me` is the record of a command in progress: its request, its *)
(* run, the stream length it last read, its clock and its summary.          *)

Idle == [pc |-> "idle", req |-> None, run |-> None, seen |-> 0, at |-> 0,
         built |-> 0, outcome |-> "none"]

\* The command returns a record, or raises: "conflict" (IdempotencyConflictError,
\* CourseConflictError), "refused" (an error of the store), or another error, after
\* which nothing is left of it.  A transition returns nothing to compare later.
Done(me, outcome) ==
    IF outcome \in {"ok", "conflict", "refused"}
       /\ (outcome = "ok" => me.req.op \notin Lifecycle \cup {"start"})
    THEN [Idle EXCEPT !.req = me.req, !.run = me.run, !.outcome = outcome]
    ELSE Idle

Goto(me, pc) == [me EXCEPT !.pc = pc]

\* The command reads the length of the stream.
Read(me, pc) == [me EXCEPT !.pc = pc, !.seen = Len(log)]

\* Fault: the length is read again once the batch is built.
PreparedLate(me, built) ==
    [me EXCEPT !.pc = "append", !.at = Len(log), !.built = built, !.seen = Len(log)]

\* The batch is stamped and built, to be appended at the length read before.
Prepared(me, built) == [me EXCEPT !.pc = "append", !.at = Len(log), !.built = built]

WithRun(me, id) == [me EXCEPT !.pc = "run", !.run = id, !.seen = 0]

Become(c, me) == client' = [client EXCEPT ![c] = me]

Answering == {"ask", "finalize"}

\* The stored records that carry the identity of the command.
Candidates(me, l) ==
    LET r == me.req
        Named(type) == {i \in Of(l, r.session, {type}) : l[i].key = r.key}
        OfRun(type) == {i \in Of(l, r.session, {type}) : l[i].run = me.run}
    IN  CASE r.op \in Creating  -> {i \in DOMAIN l : l[i].type = "created"}
          [] r.op = "note"      -> Named("note")
          [] r.op = "learner"   -> Named("human")
          [] r.op = "assistant" -> Named("turn") \cup OfRun("turn")
          [] r.op \in Answering -> Named("answer") \cup OfRun("answer")

\* Fault: the content is not compared.
SameIdentity(me, e) ==
    me.req.op \in Answering \cup {"assistant"} => e.run = me.run /\ e.key = me.req.key

\* The stored record is what the command would have stored.
Same(me, e) ==
    /\ e.what = me.req.what
    /\ me.req.op \in Answering \cup {"assistant"} => e.run = me.run /\ e.key = me.req.key

\* _existing and _same_or_conflict: none stored, the same one, or another one.
Existing(me, l) ==
    LET I == Candidates(me, l)
    IN  IF I = {} THEN "none"
        ELSE IF \E i \in I : I = {i} /\ Same(me, l[i]) THEN "ok" ELSE "conflict"

\* The events the command appends.
Batch(me) ==
    LET r == me.req
        E(type, what) == Event(type, r, me.run, what, me.at)
    IN  CASE r.op \in Creating  -> <<E("created", r.what)>>
          [] r.op = "start"     -> <<E("started", None)>>
          [] r.op = "suspend"   -> <<E("suspended", None)>>
          [] r.op = "resume"    -> <<E("resumed", None)>>
          [] r.op = "end"       -> <<E("ended", None)>>
          [] r.op = "note"      -> <<E("note", r.what), E("summary", me.built)>>
          [] r.op = "learner"   -> <<E("human", r.what)>>
          [] r.op = "assistant" -> <<E("turn", r.what)>>
          [] r.op \in Answering ->
                <<E("question", r.what), E("answer", r.what), E("summary", me.built)>>

Called(r) == [Idle EXCEPT !.req = r, !.run = r.run]

\* A client issues a command and takes its first step.
Calls(c, ops, First(_)) ==
    /\ client[c].pc = "idle"
    /\ \E r \in Requests :
        r.op \in ops /\ Become(c, First(Called(r)))
    /\ UNCHANGED <<log, running, completed>>

\* A later step of the command that c executes.
Steps(c, pc, Outcomes(_)) ==
    /\ client[c].pc = pc
    /\ \E me \in Outcomes(client[c]) : Become(c, me)
    /\ UNCHANGED <<log, running, completed>>

\* The length is read first.  create_at and the turns name a length their caller
\* saw; one that is no longer current never is again.
sequence_first(c) ==
    Calls(c, Creating \cup {"note", "finalize"},
          LAMBDA me : Read(me, IF me.req.op \in Creating THEN "create" ELSE "view"))

\* CourseService.create looks the course up; create_at (with an expected sequence)
\* compares the length again before it returns the course it found.
create(c) ==
    Steps(c, "create", LAMBDA me :
        LET Found(found) ==
                IF found = "none" THEN Prepared(me, 0)
                ELSE IF me.req.op = "create_at" /\ Len(log) # me.seen THEN Done(me, "retryable")
                ELSE Done(me, found)
        IN  {Found(Existing(me, Prefix(k))) : k \in me.seen..Len(log)})

\* SessionService.start looks up the course and the session before it reads the
\* length.
start(c) ==
    Calls(c, {"start"}, LAMBDA me :
        IF \A i \in DOMAIN log : log[i].type # "created" THEN Done(me, "missing")
        ELSE IF status(log, me.req.session) # "none" THEN Done(me, "ok")
        ELSE Goto(me, "sequence"))

\* suspend, resume and end read the status before the length.
_transition(c) ==
    LET Target == [suspend |-> "suspended", resume |-> "active", end |-> "ended"]
        Expected == [suspend |-> {"active"}, resume |-> {"suspended"},
                     end |-> {"active", "suspended"}]
    IN  Calls(c, Lifecycle, LAMBDA me :
            LET now == status(log, me.req.session)
            IN  IF now = "none" THEN Done(me, "missing")
                ELSE IF now = Target[me.req.op] THEN Done(me, "ok")
                ELSE IF now \notin Expected[me.req.op] THEN Done(me, "inactive")
                ELSE Goto(me, "sequence"))

\* _current_sequence, then the clock.
_current_sequence(c) ==
    Steps(c, "sequence", LAMBDA me : {Prepared(Read(me, "sequence"), 0)})

\* SessionView.answers loads the projection twice: an answer recorded between the
\* two loads is reported as corrupt linkage.
Torn(me, k) == \E i \in Of(log, me.req.session, {"answer"}) : i > k

\* The views of record_note and finalize_grounded_run.  The session is loaded when
\* the stream had `early` events, the existing records when it had `late`.
record_view(c) ==
    Steps(c, "view", LAMBDA me :
        LET s == me.req.session
            note == me.req.op = "note"
            View(early, late) ==
                LET then == status(Prefix(early), s)
                    found == Existing(me, Prefix(late))
                    torn == IF note THEN found = "none" /\ Torn(me, late) ELSE Torn(me, early)
                IN  IF then # "active" THEN {Done(me, "inactive")}
                    ELSE {IF found # "none" THEN Done(me, found)
                          ELSE Prepared(me, Interactions(log, s) + (IF note THEN 1 ELSE 2))}
                         \cup {Done(me, "corrupt") : x \in {y \in {1} : torn}}
        IN  UNION {UNION {View(early, late) : late \in early..Len(log)} :
                        early \in me.seen..Len(log)})

\* GroundingAskService.ask: the session is loaded; then the answers under the key
\* and, last, the continuation summary.  The run's identity hashes the session as
\* it was loaded and that summary.
_run_id(r, early, late) ==
    [session |-> r.session, key |-> r.key, what |-> r.what,
     since |-> Last(Of(Prefix(early), r.session, Transitions)),
     count |-> Interactions(Prefix(early), r.session),
     summary |-> continuation_summary(Prefix(late), r.session)]

ask(c) ==
    Calls(c, {"ask"}, LAMBDA me :
        IF status(log, me.req.session) # "active" THEN Done(me, "inactive")
        ELSE Read(me, "ask"))

ask_view(c) ==
    Steps(c, "ask", LAMBDA me :
        LET r == me.req
            Answers(late) == {i \in Of(Prefix(late), r.session, {"answer"}) : log[i].key = r.key}
            View(found) ==
                IF found = {}
                THEN WithRun(me, _run_id(r, me.seen, Len(log)))
                ELSE Done(me, IF \E i \in found : log[i].what = r.what THEN "ok" ELSE "conflict")
        IN  {View(Answers(late)) : late \in me.seen..Len(log)}
            \cup {Done(me, "corrupt") : k \in {i \in {me.seen} : Torn(me, i)}})

\* A stored run is reused when completed and reported when not; else its row is
\* inserted and the model is called.  An insert that loses a race (DUPLICATE_RUN)
\* reads the status again, so the lookup and the insert are one step.
_stored_status(c) ==
    /\ client[c].pc = "run"
    /\ \/ /\ client[c].run \in completed
          /\ Become(c, Goto(client[c], "finalize"))
          /\ UNCHANGED running
       \/ /\ client[c].run \in running
          /\ Become(c, Done(client[c], "running"))
          /\ UNCHANGED running
       \/ /\ client[c].run \notin completed \cup running
          /\ Cardinality(running \cup completed) < MaxRuns
          /\ running' = running \cup {client[c].run}
          /\ Become(c, Goto(client[c], "execute"))
    /\ UNCHANGED <<log, completed>>

\* The engine's execution ends in a completed or a failed row.
_execute(c) ==
    /\ client[c].pc = "execute"
    /\ \/ /\ running' = running \ {client[c].run}
          /\ completed' = completed \cup {client[c].run}
          /\ Become(c, Goto(client[c], "finalize"))
       \/ /\ Become(c, Done(client[c], "failed"))
          /\ UNCHANGED <<running, completed>>
    /\ UNCHANGED log

\* ask finalizes as finalize_grounded_run does: the length is read first.
_finalize(c) ==
    Steps(c, "finalize", LAMBDA me : {Read(me, "view")})

\* Turns come with a length the caller saw; exact retries are found before it is
\* compared.  A length that is stale already fails that comparison as one that
\* goes stale on the way does.
Turn(me, next) ==
    LET now == status(log, me.req.session)
        found == Existing(me, log)
    IN  IF now = "none" THEN Done(me, "missing")
        ELSE IF found # "none" THEN Done(me, found)
        ELSE IF now # "active" THEN Done(me, "inactive")
        ELSE next

record_learner_turn(c) == Calls(c, {"learner"}, LAMBDA me : Turn(me, Read(me, "expect")))

\* An assistant turn's run and key must own nothing, and it replies to a turn.
record_assistant_turn(c) ==
    LET Allowed(next) ==
            LET r == next.req
            IN  IF ~ Unowned(log, [session |-> r.session, key |-> r.key, run |-> r.run])
                THEN Done(next, "conflict")
                ELSE IF r.what # None /\ \A i \in Of(log, r.session, {"human"}) : log[i].key # r.what
                THEN Done(next, "inactive")
                ELSE next
    IN  Calls(c, {"assistant"}, LAMBDA me : Turn(me, Allowed(Read(me, "expect"))))

\* (An answer recorded inside the assistant turn's double load is torn, too; the
\* length has moved then, and either error ends the command.)
_expect_sequence(c) ==
    Steps(c, "expect", LAMBDA me :
        {IF Len(log) # me.seen THEN Done(me, "retryable") ELSE Prepared(me, 0)})

\* EventStore.append at the length the command read.
append(c) ==
    LET me == client[c]
    IN  /\ me.pc = "append"
        /\ Len(log) = me.seen
        /\ Len(log) + Len(Batch(me)) <= MaxEvents
        /\ AcceptsAll(log, Batch(me))
        /\ log' = log \o Batch(me)
        /\ Become(c, Done(me, "ok"))
        /\ UNCHANGED <<running, completed>>

\* The stream moved: lifecycle commands and create_at fail, the others look again.
\* A refused summary counts as a move, any other refusal is raised.
append_fails(c) ==
    Steps(c, "append", LAMBDA me :
        LET op == me.req.op
            again == Read(me, "raced")
        IN  IF Len(log) # me.seen
            THEN {IF op \in Lifecycle \cup {"create_at"} THEN Done(me, "retryable") ELSE again}
            ELSE IF AcceptsAll(log, Batch(me)) THEN {}
            ELSE {IF ~ SummaryRefused(log, Batch(me)) THEN Done(me, "refused")
                  ELSE IF op = "note" THEN Done(me, "retryable")
                  ELSE again})

\* The lookup after a race.
raced(c) ==
    Steps(c, "raced", LAMBDA me :
        LET s == me.req.session
            found == IF me.req.op = "start"
                     THEN IF status(log, s) # "none" THEN "ok" ELSE "none"
                     ELSE Existing(me, log)
        IN  {IF found = "none" THEN Done(me, "retryable") ELSE Done(me, found)}
            \cup {Done(me, "corrupt") :
                    k \in {i \in {me.seen} : me.req.op \in Answering /\ Torn(me, i)}})

\* The process dies, or its reply is lost.
crash(c) ==
    /\ client[c] # Idle
    /\ Become(c, Idle)
    /\ UNCHANGED <<log, running, completed>>

Init ==
    /\ log = <<>>
    /\ running = {} /\ completed = {}
    /\ client = [c \in Clients |-> Idle]

Next ==
    \E c \in Clients :
        \/ sequence_first(c) \/ create(c) \/ start(c) \/ _transition(c) \/ _current_sequence(c)
        \/ record_view(c) \/ ask(c) \/ ask_view(c) \/ _stored_status(c) \/ _execute(c)
        \/ _finalize(c) \/ record_learner_turn(c) \/ record_assistant_turn(c)
        \/ _expect_sequence(c) \/ append(c) \/ append_fails(c) \/ raced(c) \/ crash(c)

Spec == Init /\ [][Next]_vars

-----------------------------------------------------------------------------
(* Properties.                                                              *)

\* Kinds of values; a run is given by the request or derived by ask.
EventTypes == Transitions \cup {"created", "note", "human", "question", "answer",
                                "turn", "summary"}

Points == {"idle", "create", "sequence", "view", "ask", "run", "execute", "finalize",
           "expect", "append", "raced"}

\* Type correctness of the stream and of every command in progress.
TypeOK ==
    /\ DOMAIN log = 1..Len(log) /\ Len(log) <= MaxEvents
    /\ \A i \in DOMAIN log :
        /\ log[i].type \in EventTypes
        /\ log[i].session \in Sessions \cup {None}
        /\ log[i].at \in 0..(i - 1)
    /\ \A c \in Clients :
        /\ client[c].pc \in Points
        /\ client[c].outcome \in {"none", "ok", "conflict", "refused"}
        /\ client[c].req \in Requests \cup {None}
        /\ client[c].seen \in 0..Len(log) /\ client[c].at \in 0..Len(log)
    /\ running \cap completed = {}

\* A run owns at most one assistant turn or grounded answer in the course, and a
\* retry key at most one in its session (the finalizer looks only at answers: the
\* reducers have to stop it from answering with the run of a recorded turn).
OneOwnerPerRun ==
    \A i, j \in DOMAIN log :
        i # j /\ {log[i].type, log[j].type} \subseteq {"answer", "turn"} =>
            /\ log[i].run # log[j].run
            /\ log[i].session = log[j].session => log[i].key # log[j].key

\* Nothing is recorded for a session that has ended, whatever a command read
\* before the end.
EndedIsFinal ==
    \A i, j \in DOMAIN log :
        i < j /\ log[i].type = "ended" => log[j].session # log[i].session

Records(op) ==
    CASE op \in Creating -> "created" [] op = "note" -> "note"
      [] op = "learner" -> "human" [] op = "assistant" -> "turn" [] op \in Answering -> "answer"

Identified(r) ==
    {i \in DOMAIN log : log[i].type = Records(r.op) /\ log[i].session = r.session
                        /\ (log[i].type # "created" => log[i].key = r.key)}

\* A recording command that succeeds - first, retried, or the loser of a race -
\* left exactly one record under its identity, and that record is its own.
AcknowledgedOnce ==
    \A c \in Clients :
        LET r == client[c].req
        IN  client[c].outcome = "ok" =>
                \E i \in DOMAIN log :
                    /\ Identified(r) = {i}
                    /\ log[i].what = r.what
                    /\ r.run # None => log[i].run = r.run

\* A record that a command would not have made: of another content, key or kind,
\* or of another verified run than the command names.
Differs(r, e) ==
    \/ e.what # r.what \/ e.key # r.key \/ e.type # Records(r.op)
    \/ r.run # None /\ e.run # r.run

\* The answer to the very question of an ask that was given another run, because
\* the session had moved when it was asked again, and that was recorded after
\* this ask had loaded the session.
Rederived(me, i) ==
    /\ me.req.op = "ask" /\ me.run # None
    /\ log[i].run # me.run
    /\ me.run.count < Interactions(Prefix(i), me.req.session)

\* A command is told that its identity is taken only when a different command took
\* it, with one exception: a question whose run identity was derived anew is
\* refused when the answer of the first run is recorded while it is under way
\* (_same_or_conflict).  A retry that begins after the answer is never refused.
ConflictIsReal ==
    \A c \in Clients :
        LET r == client[c].req
        IN  client[c].outcome = "conflict" =>
                \E i \in DOMAIN log :
                    /\ log[i].type \in {Records(r.op), "answer", "turn", "created"}
                    /\ log[i].session = r.session
                    /\ r.op \notin Creating =>
                            log[i].key = r.key \/ log[i].run = client[c].run
                    /\ Differs(r, log[i]) \/ Rederived(client[c], i)

\* When the sequence check passes, what the command read still holds: the reducers
\* never refuse its status, its time stamp, its summary or its identities.  Only
\* the finalizer may be refused, for a run or key of an assistant turn.
SequenceGuardsTheRead ==
    \A c \in Clients :
        LET r == client[c].req
        IN  /\ client[c].pc = "append" /\ Len(log) = client[c].seen
            /\ r.op \notin Lifecycle \cup {"start"}
            /\ ~ AcceptsAll(log, Batch(client[c]))
            =>  /\ r.op \in Answering
                /\ \E i \in DOMAIN log :
                        /\ log[i].type = "turn"
                        /\ \/ log[i].run = client[c].run
                           \/ (log[i].session = r.session /\ log[i].key = r.key)

\* What a recording command is told is true of the stream, whether it accepts
\* the command or refuses its identity, but for the exception named above.
AnswersAreTrue == AcknowledgedOnce /\ ConflictIsReal
=============================================================================

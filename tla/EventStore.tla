----------------------------- MODULE EventStore -----------------------------
(***************************************************************************)
(* SQLiteEventStore: the canonical per-course event table, the derived     *)
(* projection row written in the same transaction, and the clients (CLI    *)
(* processes, services, doctor) that share the database file.              *)
(*                                                                         *)
(* Every write runs inside BEGIN IMMEDIATE ... COMMIT and is one action.   *)
(* projection() and verify_projection() run in autocommit mode, so each of *)
(* their statements is a step of its own and other clients move between.   *)
(*                                                                         *)
(* An event is its identity; a projection state is the sequence of events  *)
(* it reduces plus whether the bytes still have the shape written by v0.1  *)
(* ("legacy"), which migrate_projection rewrites when the row is opened.   *)
(***************************************************************************)
EXTENDS Naturals, SequencesExt

CONSTANTS Clients,        \* processes holding a store on the database
          Courses,
          EventIds,
          Rejected,       \* events a decoder or a reducer raises on
          LegacyCourses,  \* courses whose stored projection was written by v0.1
          MaxEvents,      \* bound: longest stream
          MaxBatch,       \* bound: events of one append
          NoRow           \* no row in the projections table

ASSUME StoreAssumption ==
    /\ Rejected \subseteq EventIds
    /\ LegacyCourses \subseteq Courses
    /\ MaxEvents \in Nat
    /\ MaxBatch \in Nat
    /\ NoRow \notin [seq : Nat, reduced : Seq(EventIds), legacy : BOOLEAN]

VARIABLES events,      \* events[c]: table events, ordered by course_sequence
          projection,  \* projections[c]: row of table projections, or NoRow
          client,      \* client[p]: where process p stands in its operation
          acked        \* history: receipts of the appends that returned

vars == <<events, projection, client, acked>>

UsedIds == UNION {ToSet(events[c]) : c \in Courses}

Row == [seq : Nat, reduced : Seq(EventIds), legacy : BOOLEAN]

Receipt == [course : Courses, at : Nat, batch : Seq(EventIds)]

Phases == {"idle", "observed", "sequenced", "migrating", "projected"}

Outcomes == {"none", "committed", "conflict", "inconsistent", "refused",
             "rebuilt", "verified", "mismatch"}

Client == [pc : Phases, course : Courses, seq : Nat,
           held : Row \union {NoRow}, out : Outcomes]

Batches == BoundedSeq(EventIds, MaxBatch)

\* Pure reduction of a whole stream by the current reducers.
replay(stream) == [seq |-> Len(stream), reduced |-> stream, legacy |-> FALSE]

\* registry.migrate_projection: idempotent, rewrites legacy bytes only.
migrate_projection(row) == [row EXCEPT !.legacy = FALSE]

EmptyProjection == [seq |-> 0, reduced |-> <<>>, legacy |-> FALSE]

\* Fault: a course without events is expected to have a projection row.
RowRequired(row, sequence) == row # NoRow /\ row.seq = sequence

\* _load_projection: the row is usable when it is level with the stream, or
\* absent for an empty stream.
Consistent(row, sequence) ==
    \/ row = NoRow /\ sequence = 0
    \/ row # NoRow /\ row.seq = sequence

Loaded(row) == IF row = NoRow THEN EmptyProjection ELSE migrate_projection(row)

\* registry.decode and registry.reduce_decoded accept the whole batch.
Accepted(batch) == ToSet(batch) \cap Rejected = {}

\* Fault: only the first event of the batch reaches the reducers.
ReducedFirst(row, batch) == [seq     |-> row.seq + Len(batch),
                             reduced |-> row.reduced \o SubSeq(batch, 1, 1),
                             legacy  |-> row.legacy]

\* The reducer applied to every event of the batch, sequence by sequence.
Reduced(row, batch) == [seq     |-> row.seq + Len(batch),
                        reduced |-> row.reduced \o batch,
                        legacy  |-> row.legacy]

\* The operation of p ends with an outcome and drops what it had read.
Finish(p, out) == [client EXCEPT ![p] = [pc |-> "idle", course |-> @.course, seq |-> 0,
                                         held |-> NoRow, out |-> out]]

LegacyLogs == {s \in Batches : Len(s) > 0 /\ IsInjective(s) /\ Accepted(s)}

\* A database in which v0.1 wrote the projections of the courses in legacy.
InitWith(legacy) ==
    /\ events \in [Courses -> {<<>>} \union LegacyLogs]
    /\ \A c \in Courses : (events[c] # <<>>) = (c \in legacy)
    /\ \A c, d \in Courses : c # d => ToSet(events[c]) \cap ToSet(events[d]) = {}
    /\ projection = [c \in Courses |->
                        IF c \in legacy
                        THEN [replay(events[c]) EXCEPT !.legacy = TRUE]
                        ELSE NoRow]
    /\ client \in [Clients -> [pc : {"idle"}, course : Courses, seq : {0},
                               held : {NoRow}, out : {"none"}]]
    /\ acked = {}

Init == InitWith(LegacyCourses)

-----------------------------------------------------------------------------
(* Appending: a service reads the stream, then offers a batch.             *)

read(p, c) ==
    /\ client[p].pc = "idle"
    /\ client' = [client EXCEPT ![p] = [pc |-> "observed", course |-> c,
                                        seq |-> Len(events[c]), held |-> NoRow,
                                        out |-> "none"]]
    /\ UNCHANGED <<events, projection, acked>>

\* Fault: the expected sequence is not compared with the stream.
CanAppendStale(c, expected, batch) ==
    /\ Accepted(batch)
    /\ Consistent(projection[c], Len(events[c]))
    /\ IsInjective(batch)
    /\ ToSet(batch) \cap UsedIds = {}

\* Fault: event_id is not UNIQUE.
CanAppendAgain(c, expected, batch) ==
    /\ Len(events[c]) = expected
    /\ Accepted(batch)
    /\ Consistent(projection[c], Len(events[c]))

\* The transaction of append: expected sequence, decoding, projection level,
\* the UNIQUE event_id column, and the reducers all hold.
CanAppend(c, expected, batch) ==
    /\ Len(events[c]) = expected
    /\ Accepted(batch)
    /\ Consistent(projection[c], Len(events[c]))
    /\ IsInjective(batch)
    /\ ToSet(batch) \cap UsedIds = {}

\* Rows go in at expected+1, expected+2, ... ; the projection row is replaced
\* only for a non-empty batch, but opening it has already migrated it.
append(p, batch) ==
    LET c == client[p].course
        expected == client[p].seq
    IN  /\ client[p].pc = "observed"
        /\ Len(events[c]) + Len(batch) <= MaxEvents
        /\ CanAppend(c, expected, batch)
        /\ events' = [events EXCEPT ![c] = SubSeq(@, 1, expected) \o batch]
        /\ projection' = [projection EXCEPT ![c] =
                             IF batch = <<>> /\ @ = NoRow THEN NoRow
                             ELSE Reduced(Loaded(@), batch)]
        /\ acked' = acked \union {[course |-> c, at |-> expected, batch |-> batch]}
        /\ client' = Finish(p, "committed")

\* Any failing check raises inside the transaction: everything rolls back.
append_refused(p, batch) ==
    LET c == client[p].course
    IN  /\ client[p].pc = "observed"
        /\ ~CanAppend(c, client[p].seq, batch)
        /\ client' = Finish(p,
                          IF Len(events[c]) # client[p].seq THEN "conflict"
                          ELSE IF Accepted(batch) /\ ~Consistent(projection[c], Len(events[c]))
                          THEN "inconsistent" ELSE "refused")
        /\ UNCHANGED <<events, projection, acked>>

-----------------------------------------------------------------------------
(* Discarding and replaying the projection, in one transaction.            *)

rebuild_projection(p, c) ==
    /\ client[p].pc = "idle"
    /\ projection' = [projection EXCEPT ![c] =
                         IF events[c] = <<>> THEN NoRow ELSE replay(events[c])]
    /\ client' = [client EXCEPT ![p] = [@ EXCEPT !.course = c, !.out = "rebuilt"]]
    /\ UNCHANGED <<events, acked>>

-----------------------------------------------------------------------------
(* verify_projection: projection() statement by statement, then read().    *)

\* SELECT COALESCE(MAX(course_sequence), 0) FROM events
current_sequence(p, c) ==
    /\ client[p].pc = "idle"
    /\ client' = [client EXCEPT ![p] = [pc |-> "sequenced", course |-> c,
                                        seq |-> Len(events[c]), held |-> NoRow,
                                        out |-> "none"]]
    /\ UNCHANGED <<events, projection, acked>>

\* SELECT course_sequence, state FROM projections, compared with the sequence
\* of the previous statement; a legacy row is migrated in memory first.
load_projection(p) ==
    LET row == projection[client[p].course]
    IN  /\ client[p].pc = "sequenced"
        /\ client' =
             IF ~Consistent(row, client[p].seq) THEN Finish(p, "inconsistent")
             ELSE [client EXCEPT ![p].held = Loaded(row),
                                 ![p].pc = IF row # NoRow /\ row.legacy
                                           THEN "migrating" ELSE "projected"]
        /\ UNCHANGED <<events, projection, acked>>

\* UPDATE projections SET state = ? WHERE course_id = ?  The statement does not
\* name the sequence the state was read at.
migrate_row(p) ==
    LET c == client[p].course
        held == client[p].held
    IN  /\ client[p].pc = "migrating"
        /\ projection' = [projection EXCEPT ![c] =
                             IF @ = NoRow THEN NoRow
                             ELSE [@ EXCEPT !.reduced = held.reduced,
                                            !.legacy = held.legacy]]
        /\ client' = [client EXCEPT ![p].pc = "projected"]
        /\ UNCHANGED <<events, acked>>

\* The persisted bytes against a replay of the stream as it is read now.
verify_projection(p) ==
    /\ client[p].pc = "projected"
    /\ client' = Finish(p,
                      IF client[p].held = replay(events[client[p].course])
                      THEN "verified" ELSE "mismatch")
    /\ UNCHANGED <<events, projection, acked>>

\* The process dies between two statements; SQLite rolls an open transaction
\* back, so only the in-memory position is lost.
Crash(p) ==
    /\ client[p].pc # "idle"
    /\ client' = Finish(p, "none")
    /\ UNCHANGED <<events, projection, acked>>

Next == \E p \in Clients :
    \/ \E c \in Courses : read(p, c) \/ rebuild_projection(p, c) \/ current_sequence(p, c)
    \/ \E batch \in Batches : append(p, batch) \/ append_refused(p, batch)
    \/ load_projection(p)
    \/ migrate_row(p)
    \/ verify_projection(p)
    \/ Crash(p)

Spec == Init /\ [][Next]_vars

-----------------------------------------------------------------------------
TypeOK ==
    /\ events \in [Courses -> Seq(EventIds)]
    /\ projection \in [Courses -> Row \union {NoRow}]
    /\ client \in [Clients -> Client]
    /\ acked \in SUBSET Receipt
    /\ \A p \in Clients : client[p].pc \in {"migrating", "projected"} => client[p].held # NoRow

\* A stored projection is exactly the replay of its stream: same sequence and
\* every event reduced, once, in order (events and projection share one
\* transaction, ADR-0002).
ProjectionIsReplay ==
    \A c \in Courses :
        IF projection[c] = NoRow THEN events[c] = <<>>
        ELSE /\ projection[c].seq = Len(events[c])
             /\ projection[c].reduced = events[c]

\* An acknowledged append stays where its writer placed it, whatever other
\* processes, conflicts, rebuilds and crashes do afterwards.
AcknowledgedAppendsSurvive ==
    \A r \in acked :
        /\ r.at + Len(r.batch) <= Len(events[r.course])
        /\ \A i \in 1..Len(r.batch) : events[r.course][r.at + i] = r.batch[i]

\* No event identity is recorded twice, in one course or across courses.
EventIdsRecordedOnce ==
    /\ \A c \in Courses : IsInjective(events[c])
    /\ \A c, d \in Courses : c # d => ToSet(events[c]) \cap ToSet(events[d]) = {}

\* No step of any process rewrites or removes a recorded event (the triggers
\* events_are_append_only_update and events_are_append_only_delete).
StreamsOnlyGrow ==
    [][\A c \in Courses : IsPrefix(events[c], events'[c])]_vars

\* Nobody is turned away without a race: whoever is told that the stream has
\* moved, that the projection is absent or behind (_load_projection), or that
\* replay and projection differ (doctor's verify_projection) holds a sequence
\* that another process has moved on from since it was read. A process that has
\* the database for itself is never refused, the migration of a v0.1 projection
\* between its reads included.
FailuresAreRaces ==
    [][\A p \in Clients :
          client[p].pc # "idle" /\ client'[p].out \in {"conflict", "inconsistent", "mismatch"} =>
              Len(events[client[p].course]) > client[p].seq]_vars

Log == INSTANCE EventLog WITH log <- events

\* The store implements the abstract compare-and-append log.
ImplementsEventLog == Log!LogInit /\ [][Log!LogNext]_(Log!logVars)
=============================================================================

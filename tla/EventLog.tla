------------------------------ MODULE EventLog ------------------------------
(***************************************************************************)
(* What the event store promises its callers: one append-only stream of    *)
(* events per course, extended by whole batches, each batch exactly where  *)
(* its writer said it would be (compare-and-append on the stream length),  *)
(* and no event identity ever used twice.  SQLite tables, projections,     *)
(* transactions and connections are invisible at this level.               *)
(***************************************************************************)
EXTENDS Naturals, SequencesExt

CONSTANTS Courses,      \* course identities
          EventIds,     \* event identities (content digests in the code)
          MaxBatch      \* bound: events of one append

VARIABLES log,          \* log[c] is the stream of course c
          acked         \* receipts of acknowledged appends

logVars == <<log, acked>>

\* The events ids recorded in any course of a family of streams.
UsedIds(streams) == UNION {ToSet(streams[c]) : c \in Courses}

LogInit == /\ log \in [Courses -> Seq(EventIds)]
           /\ acked = {}

LogAppend(c, batch) ==
    /\ ToSet(batch) \cap UsedIds(log) = {}
    /\ IsInjective(batch)
    /\ log' = [log EXCEPT ![c] = @ \o batch]
    /\ acked' = acked \union {[course |-> c, at |-> Len(log[c]), batch |-> batch]}

LogNext == \E c \in Courses, batch \in BoundedSeq(EventIds, MaxBatch) : LogAppend(c, batch)

LogSpec == LogInit /\ [][LogNext]_logVars
=============================================================================

--------------------------- MODULE CapabilityGaps ---------------------------
(***************************************************************************)
(* The registry of capability gaps: feedback/host_tool.py and service.py   *)
(* turn an observation into a report, adapters/sqlite/                     *)
(* capability_gap_store.py counts each report once in the aggregate of its *)
(* gap.  Reporters create the database together, crash after a commit they *)
(* never heard of, and report again with the same idempotency fingerprint, *)
(* possibly with another clock.                                            *)
(***************************************************************************)
EXTENDS Integers, FiniteSets, FiniteSetsExt

CONSTANTS
    Reporters,
    Observations,  \* [kind, impact, receipt, fingerprint, seen]
    MaxReports,    \* bound: calls of report
    MaxFaults,     \* bound: crashes and lock timeouts
    NoGap

\* The fields of an aggregate that its rows are read and written with.
Aggregates ==
    [verification : {"verified", "unverified"}, impact : {o.impact : o \in Observations},
     first : Int, last : Int, count : Nat]

ASSUME ObservationsAssumption == \A o \in Observations : o.seen \in Int
ASSUME NoGapAssumption == NoGap \notin Aggregates

VARIABLES
    file,      \* "absent", "empty" or "ready": the database file and its schema
    gaps,      \* capability_gap_aggregates: gap key -> aggregate
    reports,   \* capability_gap_reports: [id, gap], with the time it was counted under
    reporter,  \* the calls
    told,      \* ghost: how often the store returned RECORDED for an occurrence
    calls, faults

gapVars == <<file, gaps, reports, reporter, told, calls, faults>>

\* proposal_for: without a trusted receipt the limitation is the missing
\* capability of the unverified contract.
Unverified == [limitation |-> "missing_capability", contract |-> "unverified"]
Dimensions(o) ==
    [kind |-> o.kind, limit |-> IF o.receipt = NoGap THEN Unverified ELSE o.receipt]
GapKeys == {Dimensions(o) : o \in Observations}
Verification(o) == IF o.receipt = NoGap THEN "unverified" ELSE "verified"

\* The time of the observation is part of the identity.
TimedReportId(o) == <<Dimensions(o), o.fingerprint, o.seen>>

report_id_for(o) == <<Dimensions(o), o.fingerprint>>

\* What a retry repeats: the gap and the caller's idempotency fingerprint.
Occurrence(o) == <<Dimensions(o), o.fingerprint>>

Proposal(o) ==
    [verification |-> Verification(o), impact |-> o.impact,
     first |-> o.seen, last |-> o.seen, count |-> 1]

_assert_aggregate_matches_proposal(current, proposal) ==
    /\ current.verification = proposal.verification
    /\ current.impact = proposal.impact

\* A later occurrence keeps first_seen and takes the proposal's last_seen.
Incremented(current, proposal) ==
    [current EXCEPT !.last = proposal.last, !.count = @ + 1]
AggregateIsValid(a) == a.last >= a.first /\ a.count >= 1

Result(status, count) == [status |-> status, count |-> count]
Refused == Result("refused", 0)

\* create_or_increment, the body of its transaction: the answer and the new
\* rows; an exception rolls everything back.
create_or_increment(o) ==
    LET g == Dimensions(o)
        current == gaps[g]
        Same == [answer |-> Refused, gaps |-> gaps, reports |-> reports]
        Counted(aggregate) ==
            [answer |-> Result("recorded", aggregate.count),
             gaps |-> [gaps EXCEPT ![g] = aggregate],
             reports |-> reports \cup {[id |-> report_id_for(o), gap |-> g, seen |-> o.seen]}]
    IN IF \E r \in reports : r.id = report_id_for(o)
       THEN IF _assert_aggregate_matches_proposal(current, Proposal(o))
            THEN [Same EXCEPT !.answer = Result("deduplicated", current.count)]
            ELSE Same
       ELSE IF current = NoGap THEN Counted(Proposal(o))
       ELSE IF /\ _assert_aggregate_matches_proposal(current, Proposal(o))
               /\ AggregateIsValid(Incremented(current, Proposal(o)))
            THEN Counted(Incremented(current, Proposal(o)))
            ELSE Same

-----------------------------------------------------------------------------
Moves(p, record) == reporter' = [reporter EXCEPT ![p] = record]
Closed == [at |-> "closed"]

GapInit ==
    /\ file = "absent"
    /\ gaps = [g \in GapKeys |-> NoGap]
    /\ reports = {}
    /\ reporter = [p \in Reporters |-> Closed]
    /\ told = [f \in {Occurrence(o) : o \in Observations} |-> 0]
    /\ calls = MaxReports
    /\ faults = MaxFaults

\* _guard_for_database opens the file, or creates it exclusively when it was
\* not there: a second creator fails.
OpenDatabase(p) ==
    /\ reporter[p].at = "closed"
    /\ calls > 0
    /\ Moves(p, [at |-> IF file = "absent" THEN "create" ELSE "schema"])
    /\ UNCHANGED <<file, gaps, reports, told, calls, faults>>

CreateDatabase(p) ==
    /\ reporter[p].at = "create"
    /\ IF file = "absent"
       THEN /\ file' = "empty"
            /\ Moves(p, [at |-> "schema"])
       ELSE /\ Moves(p, Closed)
            /\ UNCHANGED file
    /\ UNCHANGED <<gaps, reports, told, calls, faults>>

\* executescript(_SCHEMA), every statement IF NOT EXISTS, then its validation.
CreateSchema(p) ==
    /\ reporter[p].at = "schema"
    /\ file' = "ready"
    /\ Moves(p, [at |-> "open"])
    /\ UNCHANGED <<gaps, reports, told, calls, faults>>

\* CapabilityGapHostTool.report and CapabilityGapService.record.
ReportGap(p, o) ==
    /\ reporter[p].at = "open"
    /\ calls > 0
    /\ calls' = calls - 1
    /\ Moves(p, [at |-> "write", observation |-> o])
    /\ UNCHANGED <<file, gaps, reports, told, faults>>

\* BEGIN IMMEDIATE .. COMMIT.
WriteReport(p) ==
    /\ reporter[p].at = "write"
    /\ LET o == reporter[p].observation
           done == create_or_increment(o)
       IN /\ gaps' = done.gaps
          /\ reports' = done.reports
          /\ told' = IF done.answer.status = "recorded"
                     THEN [told EXCEPT ![Occurrence(o)] = @ + 1] ELSE told
          /\ Moves(p, [at |-> "reply", observation |-> o, answer |-> done.answer])
    /\ UNCHANGED <<file, calls, faults>>

\* The write lock was not free for 30 seconds; SQLite's OperationalError is
\* a DatabaseError and is reported as corruption.
LockTimeout(p) ==
    /\ reporter[p].at = "write"
    /\ faults > 0
    /\ faults' = faults - 1
    /\ Moves(p, [at |-> "reply", observation |-> reporter[p].observation,
                 answer |-> Result("corrupt", 0)])
    /\ UNCHANGED <<file, gaps, reports, told, calls>>

\* The host tool hides every failure behind one error.
Reply(p) ==
    /\ reporter[p].at = "reply"
    /\ Moves(p, [at |-> "open"])
    /\ UNCHANGED <<file, gaps, reports, told, calls, faults>>

ReporterCrash(p) ==
    /\ reporter[p].at \in {"create", "schema", "write", "reply"}
    /\ faults > 0
    /\ faults' = faults - 1
    /\ Moves(p, Closed)
    /\ UNCHANGED <<file, gaps, reports, told, calls>>

GapNext ==
    \/ \E p \in Reporters : OpenDatabase(p)
    \/ \E p \in Reporters : CreateDatabase(p)
    \/ \E p \in Reporters : CreateSchema(p)
    \/ \E p \in Reporters, o \in Observations : ReportGap(p, o)
    \/ \E p \in Reporters : WriteReport(p)
    \/ \E p \in Reporters : LockTimeout(p)
    \/ \E p \in Reporters : Reply(p)
    \/ \E p \in Reporters : ReporterCrash(p)

GapSpec == GapInit /\ [][GapNext]_gapVars

-----------------------------------------------------------------------------
\* The aggregate of a gap accounts for its reports: it counts each of them
\* once however often it was retried, exists only with one, and its seen range
\* starts at the earliest of them (create_or_increment).
GapsCountReports ==
    \A g \in GapKeys :
        LET mine == {r \in reports : r.gap = g}
        IN IF gaps[g] = NoGap THEN mine = {}
           ELSE /\ gaps[g].count = Cardinality(mine)
                /\ gaps[g].first = Min({r.seen : r \in mine})
                /\ gaps[g].last \in {r.seen : r \in mine}

\* An occurrence is RECORDED to its reporters at most once, also when a retry
\* carries another clock; a call that was
\* answered RECORDED or DEDUPLICATED left its report in the table, and what it
\* was told of the count never exceeds the count (record, retries, crashes).
ReportsAreRecordedOnce ==
    /\ \A f \in DOMAIN told : told[f] <= 1
    /\ \A p \in Reporters :
          reporter[p].at = "reply" /\ reporter[p].answer.status \in {"recorded", "deduplicated"} =>
              LET o == reporter[p].observation
              IN /\ \E r \in reports : r.id = report_id_for(o)
                 /\ reporter[p].answer.count <= gaps[Dimensions(o)].count

\* What the registry counts is what was reported, each report once, and what a
\* reporter was told of it stays true (CapabilityGapService.record).
CountsAreTrue == GapsCountReports /\ ReportsAreRecordedOnce
=============================================================================

---------------------------- MODULE StoreProofs ----------------------------
(***************************************************************************)
(* Machine-checked proofs about the three SQLite stores: the event store,  *)
(* for every number of clients, courses and events; the lexical index with *)
(* the scopes it is derived from, for every number of processes, requests  *)
(* and revisions; and the registry of capability gaps, for every number of *)
(* reporters and observations.                                             *)
(***************************************************************************)
EXTENDS EventStore, ScopedRetrieval, CapabilityGaps, SequenceTheorems,
        FiniteSetTheorems, TLAPS

(* Batches offered to append are sequences of event identities.            *)
LEMMA BatchIsSeq == \A b \in Batches : b \in Seq(EventIds) /\ Len(b) \in 0..MaxBatch
  BY StoreAssumption DEF Batches, BoundedSeq, SeqOf

(* Writing at the expected position of a stream that has exactly the       *)
(* expected length is concatenation.                                       *)
LEMMA WriteAtEnd ==
  ASSUME NEW s \in Seq(EventIds), NEW b \in Seq(EventIds), NEW n, Len(s) = n
  PROVE  /\ SubSeq(s, 1, n) \o b = s \o b
         /\ s \o b \in Seq(EventIds)
         /\ Len(s \o b) = Len(s) + Len(b)
  BY SubSeqFull, ConcatProperties

(* A finished operation leaves a well-typed client that holds no row.      *)
LEMMA FinishType ==
  ASSUME TypeOK, NEW p \in Clients, NEW out \in Outcomes,
         client' = Finish(p, out)
  PROVE  /\ client' \in [Clients -> Client]
         /\ \A q \in Clients : client'[q].pc \in {"migrating", "projected"}
                                   => client'[q].held # NoRow
  BY DEF Finish, TypeOK, Client, Phases

(* Opening a row, absent or legacy, gives a current row.                   *)
LEMMA LoadedType ==
  ASSUME NEW row \in Row \union {NoRow}
  PROVE  Loaded(row) \in Row /\ Loaded(row).legacy = FALSE
  <1>1. <<>> \in Seq(EventIds)
    BY EmptySeq
  <1>2. CASE row = NoRow
    BY <1>1, <1>2 DEF Loaded, EmptyProjection, Row
  <1>3. CASE row # NoRow
    BY <1>3 DEF Loaded, migrate_projection, Row
  <1> QED BY <1>2, <1>3

(* TypeOK is inductive: every statement of every process keeps tables,     *)
(* process positions and receipts well typed.                              *)
THEOREM TypeCorrect == Spec => []TypeOK
  <1> USE StoreAssumption
  <1>1. Init => TypeOK
    <2> SUFFICES ASSUME Init PROVE TypeOK
      OBVIOUS
    <2>1. events \in [Courses -> Seq(EventIds)]
      BY EmptySeq, BatchIsSeq DEF Init, InitWith, LegacyLogs
    <2>2. projection \in [Courses -> Row \union {NoRow}]
      BY <2>1, LenProperties DEF Init, InitWith, replay, Row
    <2>3. client \in [Clients -> Client]
      BY DEF Init, InitWith, Client, Phases, Outcomes
    <2> QED BY <2>1, <2>2, <2>3 DEF TypeOK, Init, InitWith
  <1>2. TypeOK /\ [Next]_vars => TypeOK'
    <2> SUFFICES ASSUME TypeOK, [Next]_vars PROVE TypeOK'
      OBVIOUS
    <2>0. \A c \in Courses : events[c] \in Seq(EventIds) /\ Len(events[c]) \in Nat
      BY LenProperties DEF TypeOK
    <2> DEFINE Held(f) == \A q \in Clients :
                 f[q].pc \in {"migrating", "projected"} => f[q].held # NoRow
    <2>1. CASE UNCHANGED vars
      BY <2>1 DEF TypeOK, vars
    <2>2. ASSUME NEW p \in Clients, NEW c \in Courses, read(p, c) PROVE TypeOK'
      BY <2>0, <2>2 DEF read, TypeOK, Client, Phases, Outcomes
    <2>3. ASSUME NEW p \in Clients, NEW c \in Courses, rebuild_projection(p, c)
          PROVE TypeOK'
      <3>1. replay(events[c]) \in Row
        BY <2>0 DEF replay, Row
      <3>2. projection' \in [Courses -> Row \union {NoRow}]
        BY <3>1, <2>3 DEF rebuild_projection, TypeOK
      <3>3. [client[p] EXCEPT !.course = c, !.out = "rebuilt"] \in Client
        BY DEF TypeOK, Client, Outcomes
      <3>4. client' \in [Clients -> Client] /\ Held(client')
        BY <3>3, <2>3 DEF rebuild_projection, TypeOK, Client
      <3> QED BY <3>2, <3>4, <2>3 DEF rebuild_projection, TypeOK
    <2>4. ASSUME NEW p \in Clients, NEW c \in Courses, current_sequence(p, c)
          PROVE TypeOK'
      BY <2>0, <2>4 DEF current_sequence, TypeOK, Client, Phases, Outcomes
    <2>5. ASSUME NEW p \in Clients, NEW b \in Batches, append(p, b) PROVE TypeOK'
      <3> DEFINE c == client[p].course
                 n == client[p].seq
      <3>1. c \in Courses /\ n \in Nat /\ b \in Seq(EventIds) /\ Len(b) \in Nat
        BY BatchIsSeq DEF TypeOK, Client
      <3>2. Len(events[c]) = n
        BY <2>5 DEF append, CanAppend
      <3>3. events' \in [Courses -> Seq(EventIds)]
        BY <3>1, <3>2, <2>0, <2>5, WriteAtEnd DEF append, TypeOK
      <3>4. Loaded(projection[c]) \in Row
        BY <3>1, LoadedType DEF TypeOK
      <3>5. Reduced(Loaded(projection[c]), b) \in Row
        BY <3>1, <3>4, ConcatProperties DEF Reduced, Row
      <3>6. projection' \in [Courses -> Row \union {NoRow}]
        BY <3>1, <3>5, <2>5 DEF append, TypeOK
      <3>7. acked' \in SUBSET Receipt
        BY <3>1, <2>5 DEF append, TypeOK, Receipt
      <3>8. client' \in [Clients -> Client] /\ Held(client')
        BY <2>5, FinishType DEF append, Outcomes
      <3> QED BY <3>3, <3>6, <3>7, <3>8 DEF TypeOK
    <2>6. ASSUME NEW p \in Clients, NEW b \in Batches, append_refused(p, b)
          PROVE TypeOK'
      <3>1. client' \in [Clients -> Client] /\ Held(client')
        BY <2>6, FinishType DEF append_refused, Outcomes
      <3> QED BY <3>1, <2>6 DEF append_refused, TypeOK
    <2>7. ASSUME NEW p \in Clients, load_projection(p) PROVE TypeOK'
      <3> DEFINE row == projection[client[p].course]
      <3>1. row \in Row \union {NoRow}
        BY DEF TypeOK, Client
      <3>2. Loaded(row) \in Row /\ Loaded(row) # NoRow
        BY <3>1, LoadedType DEF Row
      <3>3. client' \in [Clients -> Client] /\ Held(client')
        <4>1. CASE ~Consistent(row, client[p].seq)
          BY <4>1, <2>7, FinishType DEF load_projection, Outcomes
        <4>2. CASE Consistent(row, client[p].seq)
          BY <3>2, <4>2, <2>7 DEF load_projection, TypeOK, Client, Phases
        <4> QED BY <4>1, <4>2
      <3> QED BY <3>3, <2>7 DEF load_projection, TypeOK
    <2>8. ASSUME NEW p \in Clients, migrate_row(p) PROVE TypeOK'
      <3>1. client[p].course \in Courses /\ client[p].held \in Row
        BY <2>8 DEF migrate_row, TypeOK, Client
      <3>2. client' \in [Clients -> Client] /\ Held(client')
        BY <2>8 DEF migrate_row, TypeOK, Client, Phases
      <3>3. projection' \in [Courses -> Row \union {NoRow}]
        BY <3>1, <2>8 DEF migrate_row, TypeOK, Row
      <3> QED BY <3>2, <3>3, <2>8 DEF migrate_row, TypeOK
    <2>9. ASSUME NEW p \in Clients, verify_projection(p) PROVE TypeOK'
      <3>1. client' \in [Clients -> Client] /\ Held(client')
        BY <2>9, FinishType DEF verify_projection, Outcomes
      <3> QED BY <3>1, <2>9 DEF verify_projection, TypeOK
    <2>10. ASSUME NEW p \in Clients, Crash(p) PROVE TypeOK'
      <3>1. client' \in [Clients -> Client] /\ Held(client')
        BY <2>10, FinishType DEF Crash, Outcomes
      <3> QED BY <3>1, <2>10 DEF Crash, TypeOK
    <2> QED
      BY <2>1, <2>2, <2>3, <2>4, <2>5, <2>6, <2>7, <2>8, <2>9, <2>10 DEF Next
  <1> QED BY <1>1, <1>2, PTL DEF Spec
-----------------------------------------------------------------------------
(* Every step either leaves the event table and the receipts alone or      *)
(* appends one fresh batch at the end of one stream.                       *)
LEMMA OnlyAppendWrites ==
  ASSUME TypeOK, [Next]_vars
  PROVE  \/ UNCHANGED <<events, acked>>
         \/ \E c \in Courses, b \in Batches :
               /\ b \in Seq(EventIds)
               /\ IsInjective(b)
               /\ ToSet(b) \cap UsedIds = {}
               /\ events' = [events EXCEPT ![c] = @ \o b]
               /\ acked' = acked \union
                     {[course |-> c, at |-> Len(events[c]), batch |-> b]}
  <1>1. ASSUME NEW p \in Clients, NEW b \in Batches, append(p, b)
        PROVE  \E c \in Courses :
               /\ b \in Seq(EventIds)
               /\ IsInjective(b)
               /\ ToSet(b) \cap UsedIds = {}
               /\ events' = [events EXCEPT ![c] = @ \o b]
               /\ acked' = acked \union
                     {[course |-> c, at |-> Len(events[c]), batch |-> b]}
    <2> DEFINE c == client[p].course
    <2>1. c \in Courses /\ events[c] \in Seq(EventIds) /\ b \in Seq(EventIds)
      BY BatchIsSeq DEF TypeOK, Client
    <2>2. /\ Len(events[c]) = client[p].seq
          /\ IsInjective(b)
          /\ ToSet(b) \cap UsedIds = {}
      BY <1>1 DEF append, CanAppend
    <2>3. SubSeq(events[c], 1, client[p].seq) = events[c]
      BY <2>1, <2>2, SubSeqFull
    <2>4. events' = [events EXCEPT ![c] = SubSeq(@, 1, client[p].seq) \o b]
      BY <1>1 DEF append
    <2>5. acked' = acked \union {[course |-> c, at |-> Len(events[c]), batch |-> b]}
      BY <1>1, <2>2 DEF append
    <2> QED BY <2>1, <2>2, <2>3, <2>4, <2>5
  <1>2. CASE UNCHANGED vars
    BY <1>2 DEF vars
  <1>3. ASSUME NEW p \in Clients, NEW c \in Courses,
               read(p, c) \/ rebuild_projection(p, c) \/ current_sequence(p, c)
        PROVE  UNCHANGED <<events, acked>>
    BY <1>3 DEF read, rebuild_projection, current_sequence
  <1>4. ASSUME NEW p \in Clients, NEW b \in Batches, append_refused(p, b)
        PROVE  UNCHANGED <<events, acked>>
    BY <1>4 DEF append_refused
  <1>5. ASSUME NEW p \in Clients,
               load_projection(p) \/ migrate_row(p) \/ verify_projection(p) \/ Crash(p)
        PROVE  UNCHANGED <<events, acked>>
    BY <1>5 DEF load_projection, migrate_row, verify_projection, Crash
  <1> QED BY <1>1, <1>2, <1>3, <1>4, <1>5 DEF Next

(* No step rewrites or removes a recorded event, whoever takes it.         *)
THEOREM StreamsNeverRewritten == Spec => StreamsOnlyGrow
  <1>1. TypeOK /\ [Next]_vars
           => [\A c \in Courses : IsPrefix(events[c], events'[c])]_vars
    <2> SUFFICES ASSUME TypeOK, [Next]_vars, NEW c \in Courses
                 PROVE  IsPrefix(events[c], events'[c])
      OBVIOUS
    <2>1. events[c] \in Seq(EventIds)
      BY DEF TypeOK
    <2>2. CASE UNCHANGED <<events, acked>>
      BY <2>1, <2>2, LenProperties DEF IsPrefix
    <2>3. CASE \E d \in Courses, b \in Batches :
                  b \in Seq(EventIds) /\ events' = [events EXCEPT ![d] = @ \o b]
      <3>1. PICK d \in Courses, b \in Batches :
                  b \in Seq(EventIds) /\ events' = [events EXCEPT ![d] = @ \o b]
        BY <2>3
      <3>2. CASE c # d
        BY <2>1, <3>1, <3>2, LenProperties DEF IsPrefix, TypeOK
      <3>3. CASE c = d
        <4>1. events'[c] = events[c] \o b
          BY <3>1, <3>3 DEF TypeOK
        <4>2. /\ Len(events[c]) \in Nat /\ Len(b) \in Nat
              /\ Len(events'[c]) = Len(events[c]) + Len(b)
          BY <2>1, <3>1, <4>1, ConcatProperties, LenProperties
        <4>3. SubSeq(events[c] \o b, 1, Len(events[c])) = SubSeq(events[c], 1, Len(events[c]))
          <5>1. CASE Len(events[c]) = 0
            BY <5>1, SubSeqEmpty
          <5>2. CASE Len(events[c]) > 0
            BY <5>2, <2>1, <3>1, <4>2, SubSeqOfConcat1
          <5> QED BY <4>2, <5>1, <5>2
        <4> QED BY <4>1, <4>2, <4>3 DEF IsPrefix
      <3> QED BY <3>2, <3>3
    <2> QED BY <2>2, <2>3, OnlyAppendWrites
  <1> QED BY <1>1, TypeCorrect, PTL DEF Spec, StreamsOnlyGrow

(* What an acknowledged append wrote stays exactly where it was written.   *)
THEOREM AcknowledgedSurvive == Spec => []AcknowledgedAppendsSurvive
  <1>1. Init => AcknowledgedAppendsSurvive
    BY DEF Init, InitWith, AcknowledgedAppendsSurvive
  <1>2. TypeOK /\ AcknowledgedAppendsSurvive /\ [Next]_vars => AcknowledgedAppendsSurvive'
    <2> SUFFICES ASSUME TypeOK, AcknowledgedAppendsSurvive, [Next]_vars
                 PROVE  AcknowledgedAppendsSurvive'
      OBVIOUS
    <2>1. CASE UNCHANGED <<events, acked>>
      BY <2>1 DEF AcknowledgedAppendsSurvive
    <2>2. ASSUME NEW c \in Courses, NEW b \in Seq(EventIds),
                 events' = [events EXCEPT ![c] = @ \o b],
                 acked' = acked \union
                     {[course |-> c, at |-> Len(events[c]), batch |-> b]}
          PROVE  AcknowledgedAppendsSurvive'
      <3> SUFFICES ASSUME NEW r \in acked'
                   PROVE  /\ r.at + Len(r.batch) <= Len(events'[r.course])
                          /\ \A i \in 1..Len(r.batch) :
                                events'[r.course][r.at + i] = r.batch[i]
        BY DEF AcknowledgedAppendsSurvive
      <3>0. /\ events[c] \in Seq(EventIds) /\ events'[c] = events[c] \o b
            /\ Len(events[c]) \in Nat /\ Len(b) \in Nat
            /\ Len(events'[c]) = Len(events[c]) + Len(b)
            /\ \A i \in 1 .. Len(events[c]) + Len(b) : events'[c][i] =
                  IF i <= Len(events[c]) THEN events[c][i] ELSE b[i - Len(events[c])]
        BY <2>2, ConcatProperties, LenProperties DEF TypeOK
      <3>1. CASE r \in acked
        <4>1. /\ r.course \in Courses /\ r.at \in Nat /\ Len(r.batch) \in Nat
              /\ r.at + Len(r.batch) <= Len(events[r.course])
              /\ \A i \in 1..Len(r.batch) : events[r.course][r.at + i] = r.batch[i]
          BY <3>1, LenProperties DEF TypeOK, Receipt, AcknowledgedAppendsSurvive
        <4>2. CASE r.course # c
          BY <4>1, <4>2, <2>2 DEF TypeOK
        <4>3. CASE r.course = c
          <5>1. r.at + Len(r.batch) <= Len(events'[c])
            BY <3>0, <4>1, <4>3
          <5>2. ASSUME NEW i \in 1..Len(r.batch)
                PROVE  events'[c][r.at + i] = r.batch[i]
            <6>1. r.at + i \in 1..Len(events[c])
              BY <4>1, <4>3, <5>2, <3>0
            <6> QED BY <6>1, <3>0, <4>1, <4>3
          <5> QED BY <4>3, <5>1, <5>2
        <4> QED BY <4>2, <4>3
      <3>2. CASE r = [course |-> c, at |-> Len(events[c]), batch |-> b]
        <4>1. r.course = c /\ r.at = Len(events[c]) /\ r.batch = b
          BY <3>2
        <4>2. ASSUME NEW i \in 1..Len(b) PROVE events'[c][Len(events[c]) + i] = b[i]
          <5>1. /\ Len(events[c]) + i \in 1..(Len(events[c]) + Len(b))
                /\ ~(Len(events[c]) + i <= Len(events[c]))
                /\ (Len(events[c]) + i) - Len(events[c]) = i
            BY <3>0, <4>2
          <5> QED BY <5>1, <3>0
        <4> QED BY <3>0, <4>1, <4>2
      <3> QED BY <2>2, <3>1, <3>2
    <2> QED BY <2>1, <2>2, OnlyAppendWrites
  <1> QED BY <1>1, <1>2, TypeCorrect, PTL DEF Spec
(* Appending a fresh injective batch to an injective stream keeps it so,   *)
(* and adds exactly the identities of the batch.                           *)
LEMMA FreshConcat ==
  ASSUME NEW s \in Seq(EventIds), NEW b \in Seq(EventIds)
  PROVE  /\ ToSet(s \o b) \subseteq ToSet(s) \union ToSet(b)
         /\ IsInjective(s) /\ IsInjective(b) /\ ToSet(s) \cap ToSet(b) = {}
               => IsInjective(s \o b)
  <1>1. /\ Len(s) \in Nat /\ Len(b) \in Nat
        /\ DOMAIN s = 1..Len(s) /\ DOMAIN b = 1..Len(b)
        /\ DOMAIN (s \o b) = 1..(Len(s) + Len(b))
    BY ConcatProperties, LenProperties
  <1>2. \A i \in DOMAIN (s \o b) :
           \/ i \in DOMAIN s /\ (s \o b)[i] = s[i]
           \/ i - Len(s) \in DOMAIN b /\ (s \o b)[i] = b[i - Len(s)]
    BY <1>1, ConcatProperties
  <1>3. ToSet(s \o b) \subseteq ToSet(s) \union ToSet(b)
    BY <1>2 DEF ToSet
  <1>4. ASSUME IsInjective(s), IsInjective(b), ToSet(s) \cap ToSet(b) = {},
               NEW i \in DOMAIN (s \o b), NEW j \in DOMAIN (s \o b),
               (s \o b)[i] = (s \o b)[j]
        PROVE  i = j
    <2>1. \A k \in DOMAIN s, l \in DOMAIN b : s[k] # b[l]
      BY <1>4 DEF ToSet
    <2>2. i \in Int /\ j \in Int /\ Len(s) \in Int
      BY <1>1
    <2> QED BY <1>2, <1>4, <2>1, <2>2 DEF IsInjective
  <1> QED BY <1>3, <1>4 DEF IsInjective

(* No event identity is ever recorded twice, in one course or in two.      *)
THEOREM IdsRecordedOnce == Spec => []EventIdsRecordedOnce
  <1>1. Init => EventIdsRecordedOnce
    <2> SUFFICES ASSUME Init PROVE EventIdsRecordedOnce
      OBVIOUS
    <2>1. \A c \in Courses : IsInjective(events[c])
      BY DEF Init, InitWith, LegacyLogs, IsInjective
    <2> QED BY <2>1 DEF Init, InitWith, EventIdsRecordedOnce
  <1>2. TypeOK /\ EventIdsRecordedOnce /\ [Next]_vars => EventIdsRecordedOnce'
    <2> SUFFICES ASSUME TypeOK, EventIdsRecordedOnce, [Next]_vars
                 PROVE  EventIdsRecordedOnce'
      OBVIOUS
    <2>1. CASE UNCHANGED <<events, acked>>
      BY <2>1 DEF EventIdsRecordedOnce
    <2>2. ASSUME NEW c \in Courses, NEW b \in Seq(EventIds),
                 IsInjective(b), ToSet(b) \cap UsedIds = {},
                 events' = [events EXCEPT ![c] = @ \o b]
          PROVE  EventIdsRecordedOnce'
      <3>1. \A d \in Courses : ToSet(b) \cap ToSet(events[d]) = {}
        BY <2>2 DEF UsedIds
      <3>2. /\ ToSet(events[c] \o b) \subseteq ToSet(events[c]) \union ToSet(b)
            /\ IsInjective(events[c] \o b)
        BY <2>2, <3>1, FreshConcat DEF TypeOK, EventIdsRecordedOnce
      <3>3. \A d \in Courses : events'[d] = IF d = c THEN events[c] \o b ELSE events[d]
        BY <2>2 DEF TypeOK
      <3>4. \A d \in Courses : IsInjective(events'[d])
        BY <3>2, <3>3 DEF EventIdsRecordedOnce
      <3>5. \A d, e \in Courses : d # e => ToSet(events'[d]) \cap ToSet(events'[e]) = {}
        BY <3>1, <3>2, <3>3 DEF EventIdsRecordedOnce
      <3> QED BY <3>4, <3>5 DEF EventIdsRecordedOnce
    <2> QED BY <2>1, <2>2, OnlyAppendWrites
  <1> QED BY <1>1, <1>2, TypeCorrect, PTL DEF Spec

-----------------------------------------------------------------------------
(* The store implements the abstract compare-and-append log: every         *)
(* statement of every process is one append of a fresh batch or a stutter. *)
THEOREM ImplementsLog == Spec => ImplementsEventLog
  <1>1. Init => Log!LogInit
    <2> SUFFICES ASSUME Init PROVE Log!LogInit
      OBVIOUS
    <2>1. events \in [Courses -> Seq(EventIds)]
      BY EmptySeq, BatchIsSeq DEF Init, InitWith, LegacyLogs
    <2> QED BY <2>1 DEF Init, InitWith, Log!LogInit
  <1>2. TypeOK /\ [Next]_vars => [Log!LogNext]_(Log!logVars)
    <2> SUFFICES ASSUME TypeOK, [Next]_vars PROVE [Log!LogNext]_(Log!logVars)
      OBVIOUS
    <2>1. CASE UNCHANGED <<events, acked>>
      BY <2>1 DEF Log!logVars
    <2>2. ASSUME NEW c \in Courses, NEW b \in Batches,
                 IsInjective(b),
                 ToSet(b) \cap UsedIds = {},
                 events' = [events EXCEPT ![c] = @ \o b],
                 acked' = acked \union
                     {[course |-> c, at |-> Len(events[c]), batch |-> b]}
          PROVE  Log!LogNext
      <3>1. UsedIds = Log!UsedIds(events)
        BY DEF UsedIds, Log!UsedIds, ToSet, Log!ToSet
      <3>2. Log!LogAppend(c, b)
        BY <2>2, <3>1 DEF Log!LogAppend, ToSet, Log!ToSet, IsInjective, Log!IsInjective
      <3> QED BY <3>2 DEF Log!LogNext, Batches, BoundedSeq, Log!BoundedSeq, SeqOf, Log!SeqOf
    <2> QED BY <2>1, <2>2, OnlyAppendWrites
  <1> QED BY <1>1, <1>2, TypeCorrect, PTL DEF Spec, ImplementsEventLog

(***************************************************************************)
(* Without v0.1 rows nobody ever migrates, so the only statement that      *)
(* writes a projection outside a transaction is never reached.  That is    *)
(* the strengthening ProjectionIsReplay needs: it is not inductive when a  *)
(* legacy row exists and another process appends while one migrates it.    *)
(***************************************************************************)
NobodyMigrates ==
    /\ \A c \in Courses : projection[c] # NoRow => projection[c].legacy = FALSE
    /\ \A p \in Clients : client[p].pc # "migrating"

\* Without a legacy course nobody is ever between the statements of a
\* migration.
LEMMA NothingIsLegacy ==
  ASSUME LegacyCourses = {}
  PROVE  Spec => [](TypeOK /\ ProjectionIsReplay /\ NobodyMigrates)
  <1> DEFINE Inv == ProjectionIsReplay /\ NobodyMigrates
  <1>1. Init => Inv
    BY DEF Init, InitWith, ProjectionIsReplay, NobodyMigrates
  <1>2. TypeOK /\ Inv /\ [Next]_vars => Inv'
    <2> SUFFICES ASSUME TypeOK, Inv, [Next]_vars PROVE Inv'
      OBVIOUS
    <2> USE StoreAssumption
    <2>0. \A c \in Courses : events[c] \in Seq(EventIds) /\ Len(events[c]) \in Nat
      BY LenProperties DEF TypeOK
    <2>1. CASE UNCHANGED vars
      BY <2>1 DEF vars, ProjectionIsReplay, NobodyMigrates
    <2>2. ASSUME NEW p \in Clients, NEW c \in Courses,
                 read(p, c) \/ current_sequence(p, c)
          PROVE  Inv'
      <3>1. UNCHANGED <<events, projection>>
        BY <2>2 DEF read, current_sequence
      <3>2. PICK at \in {"observed", "sequenced"} :
               client' = [client EXCEPT ![p] = [pc |-> at, course |-> c,
                            seq |-> Len(events[c]), held |-> NoRow, out |-> "none"]]
        BY <2>2 DEF read, current_sequence
      <3>3. \A q \in Clients : client'[q].pc # "migrating"
        BY <3>2 DEF NobodyMigrates, TypeOK
      <3> QED BY <3>1, <3>3 DEF ProjectionIsReplay, NobodyMigrates
    <2>3. ASSUME NEW p \in Clients, NEW c \in Courses, rebuild_projection(p, c)
          PROVE  Inv'
      <3>1. /\ UNCHANGED events
            /\ projection' = [projection EXCEPT ![c] =
                                IF events[c] = <<>> THEN NoRow ELSE replay(events[c])]
        BY <2>3 DEF rebuild_projection
      <3>2. ProjectionIsReplay'
        <4>1. /\ replay(events[c]) \in Row
              /\ replay(events[c]).seq = Len(events[c])
              /\ replay(events[c]).reduced = events[c]
          BY <2>0 DEF replay, Row
        <4>2. replay(events[c]) # NoRow
          BY <4>1 DEF Row
        <4> QED BY <3>1, <4>1, <4>2 DEF ProjectionIsReplay, TypeOK
      <3>3. NobodyMigrates'
        BY <2>3, <3>1 DEF rebuild_projection, NobodyMigrates, TypeOK, replay, Client
      <3> QED BY <3>2, <3>3
    <2>4. ASSUME NEW p \in Clients, NEW b \in Batches, append(p, b) PROVE Inv'
      <3> DEFINE c == client[p].course
                 row == Reduced(Loaded(projection[c]), b)
      <3>1. c \in Courses /\ b \in Seq(EventIds) /\ Len(b) \in Nat
        BY BatchIsSeq DEF TypeOK, Client
      <3>2. events' = [events EXCEPT ![c] = @ \o b] /\ Len(events[c]) = client[p].seq
        BY <2>4, <2>0, <3>1, WriteAtEnd DEF append, CanAppend
      <3>3. /\ row.seq = Len(events[c] \o b)
            /\ row.reduced = events[c] \o b
            /\ row.legacy = FALSE
            /\ row # NoRow
        <4>1. CASE projection[c] = NoRow
          <5>1. events[c] = <<>>
            BY <3>1, <4>1 DEF ProjectionIsReplay
          <5>2. row = [seq |-> 0 + Len(b), reduced |-> <<>> \o b, legacy |-> FALSE]
            BY <4>1 DEF Loaded, EmptyProjection, Reduced
          <5>3. <<>> \o b = b /\ Len(b) = 0 + Len(b)
            BY <3>1, ConcatEmptySeq
          <5> HIDE DEF row
          <5>4. row \in Row
            BY <3>1, <5>2, <5>3 DEF Row
          <5>5. row # NoRow
            BY <5>4 DEF Row
          <5> QED BY <3>1, <5>1, <5>2, <5>3, <5>5
        <4>2. CASE projection[c] # NoRow
          <5>1. /\ projection[c] \in Row
                /\ projection[c].seq = Len(events[c])
                /\ projection[c].reduced = events[c]
                /\ projection[c].legacy = FALSE
            BY <3>1, <4>2 DEF ProjectionIsReplay, NobodyMigrates, TypeOK
          <5>2. row = [seq |-> Len(events[c]) + Len(b), reduced |-> events[c] \o b,
                       legacy |-> FALSE]
            BY <4>2, <5>1 DEF Loaded, migrate_projection, Reduced, Row
          <5>3. events[c] \o b \in Seq(EventIds)
                /\ Len(events[c] \o b) = Len(events[c]) + Len(b)
            BY <2>0, <3>1, ConcatProperties
          <5> HIDE DEF row
          <5>4. row \in Row
            BY <2>0, <3>1, <5>2, <5>3 DEF Row
          <5>5. row # NoRow
            BY <5>4 DEF Row
          <5> QED BY <5>2, <5>3, <5>5
        <4> QED BY <4>1, <4>2
      <3>4. CASE b = <<>> /\ projection[c] = NoRow
        <4>1. events[c] = <<>> /\ events[c] \o b = <<>>
          BY <3>1, <3>4, ConcatEmptySeq DEF ProjectionIsReplay
        <4>2. projection' = [projection EXCEPT ![c] = NoRow]
          BY <2>4, <3>4 DEF append
        <4> QED BY <2>4, <3>1, <3>2, <4>1, <4>2
                DEF append, Finish, ProjectionIsReplay, NobodyMigrates, TypeOK, Client
      <3>5. CASE ~(b = <<>> /\ projection[c] = NoRow)
        <4>1. projection' = [projection EXCEPT ![c] = row]
          BY <2>4, <3>5 DEF append
        <4>2. ProjectionIsReplay'
          <5> HIDE DEF row
          <5> QED BY <3>1, <3>2, <3>3, <4>1 DEF ProjectionIsReplay, TypeOK
        <4>3. NobodyMigrates'
          <5>1. \A q \in Clients : client'[q].pc # "migrating"
            BY <2>4 DEF append, Finish, NobodyMigrates, TypeOK, Client
          <5> HIDE DEF row
          <5> QED BY <5>1, <3>1, <3>3, <4>1 DEF NobodyMigrates, TypeOK
        <4> QED BY <4>2, <4>3
      <3> QED BY <3>4, <3>5
    <2>5. ASSUME NEW p \in Clients, NEW b \in Batches, append_refused(p, b) PROVE Inv'
      BY <2>5 DEF append_refused, Finish, ProjectionIsReplay, NobodyMigrates, TypeOK, Client
    <2>6. ASSUME NEW p \in Clients, load_projection(p) PROVE Inv'
      <3>1. UNCHANGED <<events, projection>>
        BY <2>6 DEF load_projection
      <3>2. client[p].course \in Courses
        BY DEF TypeOK, Client
      <3>3. client'[p].pc # "migrating"
        BY <2>6, <3>2 DEF load_projection, Finish, NobodyMigrates, TypeOK, Client
      <3>4. \A q \in Clients : q # p => client'[q].pc = client[q].pc
        BY <2>6 DEF load_projection, Finish, TypeOK, Client
      <3> QED BY <3>1, <3>3, <3>4 DEF ProjectionIsReplay, NobodyMigrates
    <2>7. ASSUME NEW p \in Clients, migrate_row(p) PROVE Inv'
      BY <2>7 DEF migrate_row, NobodyMigrates
    <2>8. ASSUME NEW p \in Clients, verify_projection(p) \/ Crash(p) PROVE Inv'
      <3>1. UNCHANGED <<events, projection>>
        BY <2>8 DEF verify_projection, Crash
      <3>2. PICK out : client' = Finish(p, out)
        BY <2>8 DEF verify_projection, Crash
      <3>3. \A q \in Clients : client'[q].pc # "migrating"
        BY <3>2 DEF Finish, NobodyMigrates, TypeOK
      <3> QED BY <3>1, <3>3 DEF ProjectionIsReplay, NobodyMigrates
    <2> QED BY <2>1, <2>2, <2>3, <2>4, <2>5, <2>6, <2>7, <2>8 DEF Next
  <1> QED BY <1>1, <1>2, TypeCorrect, PTL DEF Spec

(* In a repository without v0.1 rows every stored projection is the replay *)
(* of its stream after every statement of every process.                   *)
THEOREM ProjectionFaithful ==
  ASSUME LegacyCourses = {}
  PROVE  Spec => []ProjectionIsReplay
  BY NothingIsLegacy, PTL

(***************************************************************************)
(* What a process between two statements knows: the length it read is not  *)
(* ahead of the stream, and while the stream still has that length the     *)
(* projection it holds is the replay of the stream.                        *)
(***************************************************************************)
ReadsAreReal ==
    \A p \in Clients : client[p].pc # "idle" =>
        LET stream == events[client[p].course] IN
        /\ client[p].out = "none"
        /\ client[p].seq <= Len(stream)
        /\ client[p].pc = "projected" /\ Len(stream) = client[p].seq =>
              client[p].held = replay(stream)

(* Streams only grow, and one that keeps its length is the same stream.    *)
LEMMA StreamsGrow ==
  ASSUME TypeOK, [Next]_vars, NEW c \in Courses
  PROVE  /\ Len(events[c]) \in Nat /\ Len(events'[c]) \in Nat
         /\ Len(events[c]) <= Len(events'[c])
         /\ Len(events'[c]) = Len(events[c]) => events'[c] = events[c]
  <1> USE StoreAssumption
  <1>0. events[c] \in Seq(EventIds) /\ Len(events[c]) \in Nat
    BY LenProperties DEF TypeOK
  <1>1. CASE UNCHANGED events
    BY <1>0, <1>1
  <1>2. ASSUME NEW p \in Clients, NEW b \in Batches, append(p, b)
        PROVE  /\ Len(events'[c]) \in Nat
               /\ Len(events[c]) <= Len(events'[c])
               /\ Len(events'[c]) = Len(events[c]) => events'[c] = events[c]
    <2> DEFINE d == client[p].course
    <2>1. d \in Courses /\ b \in Seq(EventIds) /\ Len(b) \in Nat
      BY BatchIsSeq DEF TypeOK, Client
    <2>2. events[d] \in Seq(EventIds) /\ Len(events[d]) = client[p].seq
      BY <1>2, <2>1 DEF append, CanAppend, TypeOK
    <2>3. events' = [events EXCEPT ![d] = @ \o b]
      BY <1>2, <2>1, <2>2, WriteAtEnd DEF append
    <2>4. /\ events[d] \o b \in Seq(EventIds)
          /\ Len(events[d] \o b) = Len(events[d]) + Len(b)
      BY <2>1, <2>2, ConcatProperties
    <2>5. Len(b) = 0 => events[d] \o b = events[d]
      BY <2>1, <2>2, EmptySeq, ConcatEmptySeq
    <2>6. CASE c = d
      <3>1. events'[c] = events[c] \o b
        BY <2>1, <2>3, <2>6 DEF TypeOK
      <3>2. Len(events'[c]) = Len(events[c]) + Len(b)
        BY <2>4, <2>6, <3>1
      <3>3. Len(b) = 0 => events'[c] = events[c]
        BY <2>5, <2>6, <3>1
      <3> QED BY <1>0, <2>1, <3>2, <3>3
    <2>7. CASE c # d
      BY <1>0, <2>1, <2>3, <2>7 DEF TypeOK
    <2> QED BY <2>6, <2>7
  <1>3. UNCHANGED events \/ \E p \in Clients, b \in Batches : append(p, b)
    <2>1. CASE UNCHANGED vars
      BY <2>1 DEF vars
    <2>2. ASSUME NEW p \in Clients, NEW d \in Courses,
                 read(p, d) \/ rebuild_projection(p, d) \/ current_sequence(p, d)
          PROVE  UNCHANGED events
      BY <2>2 DEF read, rebuild_projection, current_sequence
    <2>3. ASSUME NEW p \in Clients, NEW b \in Batches, append_refused(p, b)
          PROVE  UNCHANGED events
      BY <2>3 DEF append_refused
    <2>4. ASSUME NEW p \in Clients,
                 load_projection(p) \/ migrate_row(p) \/ verify_projection(p) \/ Crash(p)
          PROVE  UNCHANGED events
      BY <2>4 DEF load_projection, migrate_row, verify_projection, Crash
    <2> QED BY <2>1, <2>2, <2>3, <2>4 DEF Next
  <1> QED BY <1>0, <1>1, <1>2, <1>3

(* A process that another one's step leaves alone still knows what it knew.*)
LEMMA OthersKnow ==
  ASSUME TypeOK, [Next]_vars, ReadsAreReal,
         NEW p \in Clients, client'[p] = client[p], client[p].pc # "idle"
  PROVE  LET stream == events'[client'[p].course] IN
         /\ client'[p].out = "none"
         /\ client'[p].seq <= Len(stream)
         /\ client'[p].pc = "projected" /\ Len(stream) = client'[p].seq =>
               client'[p].held = replay(stream)
  <1> DEFINE c == client[p].course
  <1>1. c \in Courses /\ client[p].seq \in Nat
    BY DEF TypeOK, Client
  <1>2. /\ Len(events[c]) \in Nat /\ Len(events'[c]) \in Nat
        /\ Len(events[c]) <= Len(events'[c])
        /\ Len(events'[c]) = Len(events[c]) => events'[c] = events[c]
    BY <1>1, StreamsGrow
  <1>3. /\ client[p].out = "none"
        /\ client[p].seq <= Len(events[c])
        /\ client[p].pc = "projected" /\ Len(events[c]) = client[p].seq =>
              client[p].held = replay(events[c])
    BY DEF ReadsAreReal
  <1>4. client[p].seq <= Len(events'[c])
    <2>1. \A i, j, k \in Nat : i <= j /\ j <= k => i <= k
      OBVIOUS
    <2> HIDE DEF c
    <2>2. client[p].seq <= Len(events[c])
      BY <1>3 DEF c
    <2>3. Len(events[c]) <= Len(events'[c])
      BY <1>2
    <2> QED BY <1>1, <1>2, <2>1, <2>2, <2>3
  <1>5. Len(events'[c]) = client[p].seq => events'[c] = events[c] /\ Len(events[c]) = client[p].seq
    BY <1>1, <1>2, <1>3
  <1>6. client[p].pc = "projected" /\ Len(events'[c]) = client[p].seq =>
           client[p].held = replay(events'[c])
    BY <1>3, <1>5
  <1> HIDE DEF c
  <1>7. client'[p].course = c
    BY DEF c
  <1> QED BY <1>3, <1>4, <1>6, <1>7

(* A row that is level with its stream is loaded as the stream's replay.   *)
LEMMA LoadedIsReplay ==
  ASSUME TypeOK, ProjectionIsReplay, NobodyMigrates, NEW c \in Courses
  PROVE  /\ Consistent(projection[c], Len(events[c]))
         /\ Loaded(projection[c]) = replay(events[c])
         /\ \A n \in Nat : Consistent(projection[c], n) => n = Len(events[c])
  <1>0. events[c] \in Seq(EventIds) /\ Len(events[c]) \in Nat
    BY LenProperties DEF TypeOK
  <1>1. CASE projection[c] = NoRow
    <2>1. events[c] = <<>> /\ Len(events[c]) = 0
      BY <1>1, EmptySeq DEF ProjectionIsReplay
    <2> QED BY <1>1, <2>1 DEF Consistent, Loaded, EmptyProjection, replay
  <1>2. CASE projection[c] # NoRow
    <2>1. /\ projection[c] \in Row
          /\ projection[c].seq = Len(events[c])
          /\ projection[c].reduced = events[c]
          /\ projection[c].legacy = FALSE
      BY <1>2 DEF ProjectionIsReplay, NobodyMigrates, TypeOK
    <2>2. Loaded(projection[c]) = replay(events[c])
      BY <1>2, <2>1 DEF Loaded, migrate_projection, replay, Row
    <2> QED BY <1>2, <2>1, <2>2 DEF Consistent
  <1> QED BY <1>1, <1>2

(* What a process knows stays true while it and the others move.           *)
LEMMA ReadsStayReal ==
  ASSUME TypeOK, TypeOK', ProjectionIsReplay, NobodyMigrates, ReadsAreReal, [Next]_vars
  PROVE  ReadsAreReal'
  <1> DEFINE Learnt(q) == LET stream == events'[client'[q].course] IN
               /\ client'[q].out = "none"
               /\ client'[q].seq <= Len(stream)
               /\ client'[q].pc = "projected" /\ Len(stream) = client'[q].seq =>
                     client'[q].held = replay(stream)
  <1> SUFFICES ASSUME NEW q \in Clients, client'[q].pc # "idle"
               PROVE  Learnt(q)
    BY DEF ReadsAreReal
  <1>0. \A c \in Courses : Len(events[c]) \in Nat
    BY LenProperties DEF TypeOK
  <1>1. CASE client'[q] = client[q]
    BY <1>1, OthersKnow
  <1>2. ASSUME NEW c \in Courses, read(q, c) \/ current_sequence(q, c)
        PROVE  Learnt(q)
    <2>1. /\ UNCHANGED events
          /\ client'[q].course = c /\ client'[q].seq = Len(events[c])
          /\ client'[q].out = "none" /\ client'[q].pc # "projected"
      BY <1>2 DEF read, current_sequence, TypeOK
    <2> QED BY <1>0, <2>1
  <1>3. ASSUME load_projection(q) PROVE Learnt(q)
    <2> DEFINE c == client[q].course
    <2>1. c \in Courses /\ client[q].seq \in Nat /\ client[q].pc = "sequenced"
      BY <1>3 DEF load_projection, TypeOK, Client
    <2>2. Consistent(projection[c], client[q].seq) /\ UNCHANGED events
      BY <1>3 DEF load_projection, Finish, TypeOK
    <2>3. /\ client'[q].course = c /\ client'[q].seq = client[q].seq
          /\ client'[q].out = client[q].out
          /\ client'[q].held = Loaded(projection[c])
      BY <1>3, <2>2 DEF load_projection, TypeOK, Client
    <2>4. client[q].seq = Len(events[c]) /\ Loaded(projection[c]) = replay(events[c])
      BY <2>1, <2>2, LoadedIsReplay
    <2>5. client[q].out = "none"
      BY <2>1 DEF ReadsAreReal
    <2> QED BY <1>0, <2>1, <2>2, <2>3, <2>4, <2>5
  <1>4. \/ client'[q] = client[q]
        \/ \E c \in Courses : read(q, c) \/ current_sequence(q, c)
        \/ load_projection(q)
    <2>1. CASE UNCHANGED vars
      BY <2>1 DEF vars
    <2>2. ASSUME NEW p \in Clients, NEW c \in Courses, read(p, c) \/ current_sequence(p, c)
          PROVE  client'[q] = client[q] \/ p = q
      BY <2>2 DEF read, current_sequence, TypeOK
    <2>3. ASSUME NEW p \in Clients, NEW c \in Courses, rebuild_projection(p, c)
          PROVE  client'[q] = client[q]
      BY <2>3 DEF rebuild_projection, TypeOK, Client
    <2>4. ASSUME NEW p \in Clients,
                 \/ \E b \in Batches : append(p, b) \/ append_refused(p, b)
                 \/ verify_projection(p) \/ Crash(p)
          PROVE  client'[q] = client[q]
      <3>1. PICK out : client' = Finish(p, out)
        BY <2>4 DEF append, append_refused, verify_projection, Crash
      <3> QED BY <3>1 DEF Finish, TypeOK
    <2>5. ASSUME NEW p \in Clients, load_projection(p)
          PROVE  client'[q] = client[q] \/ p = q
      BY <2>5 DEF load_projection, Finish, TypeOK
    <2>6. \A p \in Clients : ~migrate_row(p)
      BY DEF migrate_row, NobodyMigrates
    <2> QED BY <2>1, <2>2, <2>3, <2>4, <2>5, <2>6 DEF Next
  <1> QED BY <1>1, <1>2, <1>3, <1>4

(* Whoever is refused holds a length that the stream has left behind.      *)
LEMMA RefusedWasRaced ==
  ASSUME TypeOK, ProjectionIsReplay, NobodyMigrates, ReadsAreReal, [Next]_vars,
         NEW p \in Clients, client[p].pc # "idle",
         client'[p].out \in {"conflict", "inconsistent", "mismatch"}
  PROVE  Len(events[client[p].course]) > client[p].seq
  <1> DEFINE c == client[p].course
  <1>1. /\ c \in Courses /\ client[p].seq \in Nat /\ Len(events[c]) \in Nat
        /\ client[p].out = "none" /\ client[p].seq <= Len(events[c])
    BY LenProperties DEF TypeOK, Client, ReadsAreReal
  <1>2. SUFFICES Len(events[c]) # client[p].seq
    BY <1>1
  <1>3. client'[p] # client[p]
    BY <1>1
  <1>4. ASSUME NEW b \in Batches, append_refused(p, b)
        PROVE  Len(events[c]) # client[p].seq
    <2>1. Consistent(projection[c], Len(events[c]))
      BY <1>1, LoadedIsReplay
    <2> QED BY <1>4, <2>1 DEF append_refused, Finish, TypeOK
  <1>5. ASSUME load_projection(p) PROVE Len(events[c]) # client[p].seq
    <2>1. ~Consistent(projection[c], client[p].seq)
      <3>1. CASE Consistent(projection[c], client[p].seq)
        <4>1. client'[p].out = client[p].out
          BY <1>5, <3>1 DEF load_projection, TypeOK, Client
        <4> QED BY <1>1, <4>1
      <3> QED BY <3>1
    <2> QED BY <1>1, <2>1, LoadedIsReplay
  <1>6. ASSUME verify_projection(p) PROVE Len(events[c]) # client[p].seq
    BY <1>6 DEF verify_projection, Finish, TypeOK, ReadsAreReal
  <1>7. \/ \E b \in Batches : append_refused(p, b)
        \/ load_projection(p) \/ verify_projection(p)
    <2>1. ~UNCHANGED vars
      BY <1>3 DEF vars
    <2>2. ASSUME NEW q \in Clients, NEW d \in Courses,
                 read(q, d) \/ rebuild_projection(q, d) \/ current_sequence(q, d)
          PROVE  client'[p] = client[p]
      <3>1. q # p
        BY <2>2 DEF read, rebuild_projection, current_sequence
      <3> QED BY <2>2, <3>1 DEF read, rebuild_projection, current_sequence, TypeOK
    <2>3. ASSUME NEW q \in Clients, (\E b \in Batches : append(q, b)) \/ Crash(q)
          PROVE  FALSE
      <3>1. PICK out \in {"committed", "none"} : client' = Finish(q, out)
        BY <2>3 DEF append, Crash
      <3> QED BY <1>1, <3>1 DEF Finish, TypeOK
    <2>4. ASSUME NEW q \in Clients, NEW b \in Batches, append_refused(q, b)
          PROVE  q = p
      BY <1>3, <2>4 DEF append_refused, Finish, TypeOK
    <2>5. ASSUME NEW q \in Clients, load_projection(q) PROVE q = p
      BY <1>3, <2>5 DEF load_projection, Finish, TypeOK
    <2>6. ASSUME NEW q \in Clients, verify_projection(q) PROVE q = p
      BY <1>3, <2>6 DEF verify_projection, Finish, TypeOK
    <2>7. \A q \in Clients : ~migrate_row(q)
      BY DEF migrate_row, NobodyMigrates
    <2> QED BY <1>3, <2>1, <2>2, <2>3, <2>4, <2>5, <2>6, <2>7 DEF Next
  <1> QED BY <1>4, <1>5, <1>6, <1>7

(* In a repository without v0.1 rows nobody is turned away without a race: *)
(* a conflict, an inconsistent projection or a failed verification is only *)
(* reported to a process whose stream has grown since it read its length.  *)
THEOREM RefusalsAreRaces ==
  ASSUME LegacyCourses = {}
  PROVE  Spec => FailuresAreRaces
  <1> DEFINE Learnt == TypeOK /\ ProjectionIsReplay /\ NobodyMigrates
             Raced == \A p \in Clients :
                         client[p].pc # "idle"
                             /\ client'[p].out \in {"conflict", "inconsistent", "mismatch"} =>
                         Len(events[client[p].course]) > client[p].seq
  <1>1. Init => ReadsAreReal
    BY DEF Init, InitWith, ReadsAreReal
  <1>2. Learnt /\ Learnt' /\ ReadsAreReal /\ [Next]_vars => ReadsAreReal'
    BY ReadsStayReal
  <1>3. Learnt /\ ReadsAreReal /\ [Next]_vars => [Raced]_vars
    BY RefusedWasRaced
  <1>4. Spec => []Learnt
    BY NothingIsLegacy
  <1> QED BY <1>1, <1>2, <1>3, <1>4, PTL DEF Spec, FailuresAreRaces

-----------------------------------------------------------------------------
(***************************************************************************)
(* The scopes of a course, the lexical index and its callers.              *)
(***************************************************************************)

(* A scope of a course: absent, or its policy and its members.            *)
ScopeRows == [policy : Policies, members : SUBSET Sources] \cup {None}
CourseStates ==
    [seq : Nat, revision : [Sources -> Nat], scopes : [Scopes -> ScopeRows],
     receipts : SUBSET (Scopes \X EditKinds \X Nat)]

(* A course as the reducers build it: revisions that exist, and members    *)
(* that are known sources.                                                 *)
CourseSound(c) ==
    /\ c \in CourseStates
    /\ \A s \in Sources : c.revision[s] <= Len(Revisions[s])
    /\ \A k \in Scopes : c.scopes[k] # None => c.scopes[k].members \subseteq Known(c)

(* The phases of a call that another process can disturb: of an editor, of *)
(* an indexer and of a search.                                             *)
Running == {"append", "resolving", "write", "check", "audit", "resolve", "confirm", "query",
            "verify", "recheck", "fuse"}
Indexing == {"resolving", "write", "check", "audit"}
Searching == {"resolve", "confirm", "query", "verify", "recheck", "fuse"}

(* What a process carries, by phase: an editor the scope it read, and so   *)
(* the version its event names, a search the rows of the catalog it        *)
(* expected.                                                               *)
Carries(x) ==
    /\ x.at \in Running \cup {"idle", "answered"}
    /\ x.at \in Running => {"at", "request", "solo"} \subseteq DOMAIN x /\ x.request \in Requests
    /\ x.at = "append" =>
          /\ {"base", "event", "seq", "tries"} \subseteq DOMAIN x
          /\ x.request.op = "edit"
          /\ x.event.scope \in Scopes
          /\ x.event.kind \in EditKinds
          /\ x.event.kind = "configure" => x.event.policy \in Policies
          /\ x.base \in ScopeRows
          /\ x.event.previous = IF x.base = None THEN None ELSE x.base.policy.version
    /\ x.at \in Indexing => "batch" \in DOMAIN x /\ x.request.op = "index"
    /\ x.at \in Searching => x.request.op \in {"lookup", "search"} /\ "frozen" \in DOMAIN x
    /\ x.at \in {"confirm", "query", "verify", "recheck"} => "expected" \in DOMAIN x
    /\ x.at = "recheck" => "after" \in DOMAIN x
    /\ x.at = "fuse" => {"found", "looked"} \subseteq DOMAIN x
    /\ x.at \in {"verify", "recheck"} =>
          /\ "found" \in DOMAIN x
          /\ x.found = Ranked(x.expected, x.request.surface, x.request.term,
                              FusePolicy.max_results)

(* An indexer nobody disturbed works on the catalog of the course as it    *)
(* is, and after its transaction the index is that catalog.                *)
Undisturbed(x, c, R, T) ==
    /\ x.at \in Indexing /\ x.solo => x.batch = Catalog(c, x.request.scope)
    /\ x.at \in {"check", "audit"} /\ x.solo =>
          R[x.request.scope] = x.batch /\ T[x.request.scope] = x.batch
    /\ x.at = "answered" /\ x.request.op = "index" /\ x.result.status = "error" => ~x.solo

(* The invariant of the scopes and their index.                            *)
ScopesInv ==
    /\ CourseSound(course)
    /\ rows = [k \in Scopes |-> rows[k]]
    /\ receipt = [k \in Scopes |-> receipt[k]]
    /\ proc = [p \in Procs |-> proc[p]]
    /\ \A p \in Procs : Carries(proc[p]) /\ Undisturbed(proc[p], course, rows, receipt)

(* What a disturbed call carries is what it carried before.                *)
LEMMA DisturbanceKeeps ==
  ASSUME NEW x, Carries(x), x.at \in Running, NEW y, y = [x EXCEPT !.solo = FALSE],
         NEW c, NEW R, NEW T
  PROVE  Carries(y) /\ Undisturbed(y, c, R, T)
  <1>1. {"at", "request", "solo"} \subseteq DOMAIN x
    BY DEF Carries
  <1>2. /\ DOMAIN y = DOMAIN x
        /\ y.solo = FALSE /\ y.at = x.at /\ y.request = x.request
        /\ \A f \in DOMAIN x : f # "solo" => y[f] = x[f]
    BY <1>1
  <1>3. Carries(y)
    <2>1. CASE x.at = "append"
      <3>1. y.base = x.base /\ y.event = x.event
        BY <1>2, <2>1 DEF Carries
      <3> QED
        BY <1>2, <2>1, <3>1 DEF Carries, Indexing, Searching
    <2>2. CASE x.at \in Indexing
      BY <1>2, <2>2 DEF Carries, Indexing, Searching
    <2>3. CASE x.at \in {"resolve", "confirm", "query", "fuse"}
      BY <1>2, <2>3 DEF Carries, Indexing, Searching
    <2>4. CASE x.at \in {"verify", "recheck"}
      <3>1. y.expected = x.expected /\ y.found = x.found
        BY <1>2, <2>4 DEF Carries
      <3> QED
        BY <1>2, <2>4, <3>1 DEF Carries, Indexing, Searching
    <2> QED
      BY <2>1, <2>2, <2>3, <2>4 DEF Running, Indexing
  <1>4. Undisturbed(y, c, R, T)
    BY <1>2 DEF Undisturbed, Running, Indexing
  <1> QED
    BY <1>3, <1>4

(* A step of one process that changes nothing it shares.                   *)
LEMMA QuietStep ==
  ASSUME ScopesInv, NEW p \in Procs, NEW x, Goes(p, x), UNCHANGED <<course, rows, receipt>>,
         Carries(x), Undisturbed(x, course, rows, receipt)
  PROVE  ScopesInv'
  <1>1. /\ proc' = [q \in Procs |-> proc'[q]]
        /\ proc'[p] = x
        /\ \A q \in Procs \ {p} : proc'[q] = proc[q]
    BY DEF Goes, ScopesInv
  <1>2. \A q \in Procs : Carries(proc'[q]) /\ Undisturbed(proc'[q], course, rows, receipt)
    BY <1>1 DEF ScopesInv
  <1> QED
    BY <1>1, <1>2 DEF ScopesInv

(* The others after a disturbance, whatever it made of the shared state.   *)
LEMMA OthersAfter ==
  ASSUME ScopesInv, NEW p, NEW q \in Procs, q # p, NEW c, NEW R, NEW T
  PROVE  LET y == Disturbed(p)[q] IN Carries(y) /\ Undisturbed(y, c, R, T)
  <1>1. Carries(proc[q]) /\ Undisturbed(proc[q], course, rows, receipt)
    BY DEF ScopesInv
  <1>2. CASE proc[q].at \in Running
    <2>1. Disturbed(p)[q] = [proc[q] EXCEPT !.solo = FALSE]
      BY <1>2 DEF Disturbed, Running
    <2> QED
      BY <1>1, <1>2, <2>1, DisturbanceKeeps
  <1>3. CASE proc[q].at \in {"idle", "answered"}
    <2>1. Disturbed(p)[q] = proc[q]
      BY <1>3 DEF Disturbed
    <2>2. Undisturbed(proc[q], c, R, T)
      BY <1>1, <1>3 DEF Undisturbed, Indexing
    <2> QED
      BY <1>1, <2>1, <2>2
  <1> QED
    BY <1>1, <1>2, <1>3 DEF Carries

(* A step of one process that changes what all share.                      *)
LEMMA LoudStep ==
  ASSUME ScopesInv, NEW p \in Procs, NEW x, GoesLoudly(p, x),
         Carries(x), Undisturbed(x, course', rows', receipt'),
         CourseSound(course'),
         rows' = [k \in Scopes |-> rows'[k]], receipt' = [k \in Scopes |-> receipt'[k]]
  PROVE  ScopesInv'
  <1>1. /\ proc' = [q \in Procs |-> proc'[q]]
        /\ proc'[p] = x
        /\ \A q \in Procs \ {p} : proc'[q] = Disturbed(p)[q]
    BY DEF GoesLoudly, Disturbed
  <1>2. \A q \in Procs : Carries(proc'[q]) /\ Undisturbed(proc'[q], course', rows', receipt')
    BY <1>1, OthersAfter
  <1> QED
    BY <1>1, <1>2 DEF ScopesInv

(* A reducer that accepts an event builds a course from a course.          *)
LEMMA ReceiptTaken ==
  ASSUME NEW c, CourseSound(c), NEW e, e.scope \in Scopes, e.kind \in EditKinds,
         NEW S \in [Scopes -> ScopeRows],
         \A k \in Scopes : S[k] # None => S[k].members \subseteq Known(c),
         _with_receipt(c, e, S) # None
  PROVE  /\ CourseSound(_with_receipt(c, e, S))
         /\ _with_receipt(c, e, S).scopes = S
  <1> DEFINE d == _with_receipt(c, e, S)
  <1>1. d = [c EXCEPT !.seq = @ + 1, !.scopes = S,
                      !.receipts = @ \cup {EventId(e, c.seq + 1)}]
    BY DEF _with_receipt
  <1>2. EventId(e, c.seq + 1) \in Scopes \X EditKinds \X Nat
    BY DEF EventId, CourseSound, CourseStates
  <1>3. d \in CourseStates /\ d.scopes = S /\ d.revision = c.revision
    <2>1. c.seq + 1 \in Nat
      BY DEF CourseSound, CourseStates
    <2>2. c.receipts \cup {EventId(e, c.seq + 1)} \in SUBSET (Scopes \X EditKinds \X Nat)
      BY <1>2 DEF CourseSound, CourseStates
    <2> HIDE DEF d
    <2> QED
      BY <1>1, <2>1, <2>2 DEF CourseSound, CourseStates
  <1> HIDE DEF d
  <1>4. Known(d) = Known(c)
    BY <1>3 DEF Known
  <1>5. CourseSound(d)
    BY <1>3, <1>4 DEF CourseSound
  <1> QED
    BY <1>3, <1>5 DEF d

(* What the reducers accept, and what they make of every scope.            *)
LEMMA ReduceSound ==
  ASSUME NEW c, CourseSound(c), NEW e, e.scope \in Scopes, e.kind \in EditKinds,
         e.kind = "configure" => e.policy \in Policies,
         Reduce(c, e) # None
  PROVE  /\ CourseSound(Reduce(c, e))
         /\ \A k \in Scopes \ {e.scope} : Reduce(c, e).scopes[k] = c.scopes[k]
         /\ LET was == c.scopes[e.scope]
                now == Reduce(c, e).scopes[e.scope]
            IN \/ /\ e.kind = "configure" /\ was = None /\ e.previous = None
                  /\ now = [policy |-> e.policy, members |-> {}]
               \/ /\ e.kind = "configure" /\ was # None
                  /\ e.previous # None /\ e.previous = was.policy.version
                  /\ now = [policy |-> e.policy, members |-> was.members]
               \/ /\ e.kind = "add" /\ was # None /\ e.source \notin was.members
                  /\ now = [policy |-> was.policy, members |-> was.members \cup {e.source}]
               \/ /\ e.kind = "remove" /\ was # None /\ e.source \in was.members
                  /\ now = [policy |-> was.policy, members |-> was.members \ {e.source}]
  <1> DEFINE k == e.scope
             row == c.scopes[k]
  <1>1. c.scopes \in [Scopes -> ScopeRows] /\ row \in ScopeRows
    BY DEF CourseSound, CourseStates
  <1>2. \A j \in Scopes : c.scopes[j] # None => c.scopes[j].members \subseteq Known(c)
    BY DEF CourseSound
  <1>3. ASSUME NEW r \in ScopeRows, r # None => r.members \subseteq Known(c),
               Reduce(c, e) = _with_receipt(c, e, [c.scopes EXCEPT ![k] = r])
        PROVE  /\ CourseSound(Reduce(c, e))
               /\ \A j \in Scopes \ {k} : Reduce(c, e).scopes[j] = c.scopes[j]
               /\ Reduce(c, e).scopes[k] = r
    <2> DEFINE S == [c.scopes EXCEPT ![k] = r]
    <2>1. /\ S \in [Scopes -> ScopeRows]
          /\ S[k] = r /\ \A j \in Scopes \ {k} : S[j] = c.scopes[j]
      BY <1>1, <1>3
    <2>2. \A j \in Scopes : S[j] # None => S[j].members \subseteq Known(c)
      BY <1>2, <1>3, <2>1
    <2> HIDE DEF S
    <2>3. CourseSound(_with_receipt(c, e, S)) /\ _with_receipt(c, e, S).scopes = S
      BY <1>3, <2>1, <2>2, ReceiptTaken DEF S
    <2> QED
      BY <1>3, <2>1, <2>3 DEF S
  <1>4. CASE e.kind = "configure"
    <2>1. Reduce(c, e) = reduce_scope_configured(c, e)
      BY <1>4 DEF Reduce
    <2>2. CASE row = None
      <3> DEFINE r == [policy |-> e.policy, members |-> {}]
      <3>1. /\ e.previous = None
            /\ Reduce(c, e) = _with_receipt(c, e, [c.scopes EXCEPT ![k] = r])
        BY <2>1, <2>2 DEF reduce_scope_configured
      <3>2. r \in ScopeRows /\ r.members \subseteq Known(c)
        BY <1>4 DEF ScopeRows
      <3>3. /\ CourseSound(Reduce(c, e))
            /\ \A j \in Scopes \ {k} : Reduce(c, e).scopes[j] = c.scopes[j]
            /\ Reduce(c, e).scopes[k] = r
        BY <1>3, <3>1, <3>2
      <3> QED
        BY <1>4, <2>2, <3>1, <3>3
    <2>3. CASE row # None
      <3> DEFINE r == [row EXCEPT !.policy = e.policy]
      <3>1. /\ e.previous # None /\ e.previous = row.policy.version
            /\ Reduce(c, e) = _with_receipt(c, e, [c.scopes EXCEPT ![k].policy = e.policy])
        BY <2>1, <2>3 DEF reduce_scope_configured
      <3>2. [c.scopes EXCEPT ![k].policy = e.policy] = [c.scopes EXCEPT ![k] = r]
        OBVIOUS
      <3>3. row \in [policy : Policies, members : SUBSET Sources]
        BY <1>1, <2>3 DEF ScopeRows
      <3>4. /\ r = [policy |-> e.policy, members |-> row.members]
            /\ r \in ScopeRows /\ r.members = row.members
        BY <1>4, <3>3 DEF ScopeRows
      <3>5. r.members \subseteq Known(c)
        BY <1>2, <2>3, <3>4
      <3> HIDE DEF r
      <3>6. /\ CourseSound(Reduce(c, e))
            /\ \A j \in Scopes \ {k} : Reduce(c, e).scopes[j] = c.scopes[j]
            /\ Reduce(c, e).scopes[k] = r
        BY <1>3, <3>1, <3>2, <3>4, <3>5
      <3> QED
        BY <1>4, <2>3, <3>1, <3>4, <3>6
    <2> QED
      BY <2>2, <2>3
  <1>5. CASE e.kind # "configure"
    <2> DEFINE M == IF e.kind = "add" THEN row.members \cup {e.source}
                    ELSE row.members \ {e.source}
               r == [row EXCEPT !.members = M]
    <2>1. Reduce(c, e) = reduce_scope_membership(c, e)
      BY <1>5 DEF Reduce
    <2>2. /\ row # None /\ e.source \in Known(c)
          /\ e.kind = "add" => e.source \notin row.members
          /\ e.kind = "remove" => e.source \in row.members
          /\ Reduce(c, e) = _with_receipt(c, e,
                [c.scopes EXCEPT ![k].members =
                    IF e.kind = "add" THEN @ \cup {e.source} ELSE @ \ {e.source}])
      BY <2>1 DEF reduce_scope_membership
    <2>3. [c.scopes EXCEPT ![k].members =
              IF e.kind = "add" THEN @ \cup {e.source} ELSE @ \ {e.source}]
            = [c.scopes EXCEPT ![k] = r]
      OBVIOUS
    <2>4. row \in [policy : Policies, members : SUBSET Sources]
      BY <1>1, <2>2 DEF ScopeRows
    <2>5. Known(c) \subseteq Sources /\ row.members \subseteq Known(c)
      BY <1>2, <2>2 DEF Known
    <2>6. M \subseteq Known(c) /\ M \in SUBSET Sources
      BY <2>2, <2>5
    <2>7. /\ e.kind \in {"add", "remove"}
          /\ e.kind = "add" => M = row.members \cup {e.source}
          /\ e.kind = "remove" => M = row.members \ {e.source}
      BY <1>5 DEF EditKinds
    <2> HIDE DEF M
    <2>8. r \in ScopeRows /\ r = [policy |-> row.policy, members |-> M]
      BY <2>4, <2>6 DEF ScopeRows
    <2> HIDE DEF r
    <2>9. /\ CourseSound(Reduce(c, e))
          /\ \A j \in Scopes \ {k} : Reduce(c, e).scopes[j] = c.scopes[j]
          /\ Reduce(c, e).scopes[k] = r
      BY <1>3, <2>2, <2>3, <2>6, <2>8
    <2> QED
      BY <2>2, <2>7, <2>8, <2>9
  <1> QED
    BY <1>4, <1>5

(* The answers of a call that was not an indexer's say nothing of solitude. *)
LEMMA AnswerStands ==
  ASSUME NEW p \in Procs, NEW result, Carries(proc[p]), proc[p].at \in Running,
         proc[p].request.op # "index" \/ result.status # "error" \/ ~proc[p].solo,
         NEW c, NEW R, NEW T
  PROVE  Carries(AnsweredWith(p, result)) /\ Undisturbed(AnsweredWith(p, result), c, R, T)
  BY DEF AnsweredWith, Carries, Undisturbed, Running, Indexing, Searching

(* An editor's decision.                                                   *)
LEMMA EditKeeps ==
  ASSUME ScopesInv, NEW p \in Procs, NEW r \in Requests, StartEdit(p, r)
  PROVE  ScopesInv'
  <1> DEFINE event == [kind |-> r.kind, scope |-> r.scope, source |-> r.source,
                       policy |-> r.policy,
                       previous |-> IF course.scopes[r.scope] = None THEN None
                                    ELSE course.scopes[r.scope].policy.version]
             x == [at |-> "append", request |-> r, seq |-> course.seq, tries |-> 0,
                   solo |-> TRUE, base |-> course.scopes[r.scope], event |-> event]
  <1>1. r.op = "edit" /\ Goes(p, x) /\ UNCHANGED <<course, rows, receipt>>
    BY DEF StartEdit, Call
  <1>2. /\ event.scope \in Scopes /\ event.kind \in EditKinds
        /\ event.kind = "configure" => event.policy \in Policies
    BY <1>1, RequestsAssumption
  <1>3. Carries(x)
    <2>1. /\ x.at = "append" /\ x.request = r /\ x.base = course.scopes[r.scope]
          /\ x.event = event
          /\ {"at", "request", "solo", "base", "event", "seq", "tries"} \subseteq DOMAIN x
      OBVIOUS
    <2>2. event.previous = IF x.base = None THEN None ELSE x.base.policy.version
      BY <2>1
    <2>3. x.base \in ScopeRows
      <3>1. course.scopes \in [Scopes -> ScopeRows]
        BY DEF ScopesInv, CourseSound, CourseStates
      <3>2. r.scope \in Scopes
        BY <1>1, RequestsAssumption
      <3> QED
        BY <2>1, <3>1, <3>2
    <2> HIDE DEF x, event
    <2> QED
      BY <1>1, <1>2, <2>1, <2>2, <2>3 DEF Carries, Running, Indexing, Searching
  <1>4. Undisturbed(x, course, rows, receipt)
    BY DEF Undisturbed, Indexing
  <1> HIDE DEF x
  <1> QED
    BY <1>1, <1>3, <1>4, QuietStep

(* A lost race for the sequence.                                           *)
LEMMA ConflictKeeps ==
  ASSUME ScopesInv, NEW p \in Procs, AppendConflict(p)
  PROVE  ScopesInv'
  <1>1. /\ proc[p].at = "append" /\ UNCHANGED <<course, rows, receipt>>
        /\ Carries(proc[p]) /\ Undisturbed(proc[p], course, rows, receipt)
    BY DEF AppendConflict, ScopesInv
  <1>2. CASE proc[p].tries < MaxRetries
    <2> DEFINE x == [proc[p] EXCEPT !.seq = course.seq, !.tries = @ + 1]
    <2>1. Goes(p, x)
      BY <1>2 DEF AppendConflict
    <2>2. /\ DOMAIN x = DOMAIN proc[p]
          /\ \A f \in DOMAIN x : f \notin {"seq", "tries"} => x[f] = proc[p][f]
      OBVIOUS
    <2>3. {"at", "request", "solo", "base", "event"} \subseteq DOMAIN x
      BY <1>1, <2>2 DEF Carries, Running
    <2>4. /\ x.at = "append" /\ x.request = proc[p].request /\ x.base = proc[p].base
          /\ x.event = proc[p].event
      BY <1>1, <2>2, <2>3
    <2> HIDE DEF x
    <2>5. Carries(x)
      BY <1>1, <2>2, <2>4 DEF Carries, Running, Indexing, Searching
    <2>6. Undisturbed(x, course, rows, receipt)
      BY <2>4 DEF Undisturbed, Indexing
    <2> QED
      BY <1>1, <2>1, <2>5, <2>6, QuietStep
  <1>3. CASE ~(proc[p].tries < MaxRetries)
    <2>1. Goes(p, AnsweredWith(p, [status |-> "conflict", groups |-> <<>>]))
      BY <1>3 DEF AppendConflict, Answered
    <2> QED
      BY <1>1, <2>1, QuietStep, AnswerStands DEF Running
  <1> QED
    BY <1>2, <1>3

(* The append of a scope event.                                            *)
LEMMA AppendKeeps ==
  ASSUME ScopesInv, NEW p \in Procs, AppendScopeEvent(p)
  PROVE  ScopesInv'
  <1> DEFINE next == Reduce(course, proc[p].event)
             done(status) == AnsweredWith(p, [status |-> status, groups |-> <<>>])
  <1>1. /\ proc[p].at = "append" /\ UNCHANGED <<rows, receipt>>
        /\ Carries(proc[p]) /\ CourseSound(course)
        /\ rows = [k \in Scopes |-> rows[k]] /\ receipt = [k \in Scopes |-> receipt[k]]
    BY DEF AppendScopeEvent, ScopesInv
  <1>2. \A status \in {"refused", "appended"} : \A c :
            Carries(done(status)) /\ Undisturbed(done(status), c, rows, receipt)
    BY <1>1, AnswerStands DEF Running
  <1>3. CASE next = None
    <2>1. Goes(p, done("refused")) /\ UNCHANGED course
      BY <1>3 DEF AppendScopeEvent, Answered
    <2> HIDE DEF done
    <2> QED
      BY <1>1, <1>2, <2>1, QuietStep
  <1>4. CASE next # None
    <2>1. GoesLoudly(p, done("appended")) /\ course' = next
      BY <1>4 DEF AppendScopeEvent, Answered
    <2>2. CourseSound(next)
      BY <1>1, <1>4, ReduceSound DEF Carries
    <2> HIDE DEF done, next
    <2> QED
      BY <1>1, <1>2, <2>1, <2>2, LoudStep
  <1> QED
    BY <1>3, <1>4

(* A new revision of a source.                                             *)
LEMMA RevisionKeeps ==
  ASSUME ScopesInv, NEW s \in Sources, NewRevision(s)
  PROVE  ScopesInv'
  <1>1. /\ course.revision[s] < Len(Revisions[s])
        /\ course' = [course EXCEPT !.seq = @ + 1, !.revision[s] = @ + 1]
        /\ proc' = Disturbed(None)
        /\ UNCHANGED <<rows, receipt>>
    BY DEF NewRevision
  <1>2. /\ course \in CourseStates
        /\ course.seq \in Nat /\ course.revision \in [Sources -> Nat]
    BY DEF ScopesInv, CourseSound, CourseStates
  <1> DEFINE revision == [course.revision EXCEPT ![s] = @ + 1]
  <1>3. course' = [course EXCEPT !.seq = @ + 1, !.revision = revision]
    BY <1>1
  <1>4. revision \in [Sources -> Nat] /\ revision[s] = course.revision[s] + 1
        /\ \A t \in Sources \ {s} : revision[t] = course.revision[t]
    BY <1>2
  <1> HIDE DEF revision
  <1>5. /\ course' \in CourseStates
        /\ course'.revision = revision /\ course'.scopes = course.scopes
    <2> DEFINE d == [course EXCEPT !.seq = @ + 1, !.revision = revision]
    <2>1. course.seq + 1 \in Nat
      BY <1>2
    <2>2. d \in CourseStates /\ d.revision = revision /\ d.scopes = course.scopes
      BY <1>2, <1>4, <2>1 DEF CourseStates
    <2> QED
      BY <1>3, <2>2
  <1>6. CourseSound(course')
    <2>1. \A t \in Sources : course'.revision[t] <= Len(Revisions[t])
      <3> SUFFICES ASSUME NEW t \in Sources PROVE revision[t] <= Len(Revisions[t])
        BY <1>5
      <3>1. Len(Revisions[t]) \in Nat /\ course.revision[t] \in Nat
            /\ course.revision[t] <= Len(Revisions[t])
        BY <1>2, RevisionsAssumption DEF ScopesInv, CourseSound
      <3> QED
        BY <1>1, <1>4, <3>1
    <2>2. Known(course) \subseteq Known(course')
      BY <1>2, <1>4, <1>5 DEF Known
    <2> QED
      BY <1>5, <2>1, <2>2 DEF CourseSound, ScopesInv
  <1>7. \A q \in Procs : Carries(proc'[q]) /\ Undisturbed(proc'[q], course', rows, receipt)
    BY <1>1, OthersAfter, NoneAssumption
  <1>8. proc' = [q \in Procs |-> proc'[q]]
    BY <1>1 DEF Disturbed
  <1> QED
    BY <1>1, <1>6, <1>7, <1>8 DEF ScopesInv

(* The steps of an indexer.                                                *)
LEMMA IndexKeeps ==
  ASSUME ScopesInv, NEW p \in Procs,
         \/ \E r \in Requests : StartIndex(p, r)
         \/ ConfirmBatch(p) \/ WriteIndex(p) \/ CheckBatch(p) \/ AuditIndex(p)
  PROVE  ScopesInv'
  <1>1. Carries(proc[p]) /\ Undisturbed(proc[p], course, rows, receipt)
    BY DEF ScopesInv
  <1>2. ASSUME NEW r \in Requests, StartIndex(p, r) PROVE ScopesInv'
    <2> DEFINE at == IF Catalog(course, r.scope) = {} THEN "write" ELSE "resolving"
               x == [at |-> at, request |-> r, solo |-> TRUE, batch |-> Catalog(course, r.scope)]
    <2>1. r.op = "index" /\ Goes(p, x) /\ UNCHANGED <<course, rows, receipt>>
      BY <1>2 DEF StartIndex, Call
    <2>2. Carries(x)
      BY <2>1 DEF Carries, Running, Indexing, Searching
    <2>3. Undisturbed(x, course, rows, receipt)
      BY DEF Undisturbed, Indexing
    <2> HIDE DEF x
    <2> QED
      BY <2>1, <2>2, <2>3, QuietStep
  <1>3. ASSUME WriteIndex(p) PROVE ScopesInv'
    <2> DEFINE x == [proc[p] EXCEPT !.at = "check"]
               k == proc[p].request.scope
    <2>1. /\ proc[p].at = "write"
          /\ rows' = [rows EXCEPT ![k] = proc[p].batch]
          /\ receipt' = [receipt EXCEPT ![k] = proc[p].batch]
          /\ GoesLoudly(p, x) /\ UNCHANGED course
      BY <1>3 DEF WriteIndex
    <2>2. {"at", "request", "solo", "batch"} \subseteq DOMAIN proc[p]
          /\ proc[p].request \in Requests /\ proc[p].request.op = "index"
      BY <1>1, <2>1 DEF Carries, Running, Indexing
    <2>3. k \in Scopes
      BY <2>2, RequestsAssumption
    <2>4. /\ DOMAIN x = DOMAIN proc[p]
          /\ x.at = "check" /\ x.request = proc[p].request /\ x.solo = proc[p].solo
          /\ x.batch = proc[p].batch
      BY <2>2
    <2> HIDE DEF x
    <2>5. Carries(x)
      BY <2>2, <2>4 DEF Carries, Running, Indexing, Searching
    <2>6. /\ rows' = [j \in Scopes |-> rows'[j]] /\ receipt' = [j \in Scopes |-> receipt'[j]]
          /\ rows'[k] = proc[p].batch /\ receipt'[k] = proc[p].batch
      <3>1. rows = [j \in Scopes |-> rows[j]] /\ receipt = [j \in Scopes |-> receipt[j]]
        BY DEF ScopesInv
      <3> QED
        BY <2>1, <2>3, <3>1
    <2>7. Undisturbed(x, course', rows', receipt')
      BY <1>1, <2>1, <2>4, <2>6 DEF Undisturbed, Indexing
    <2>8. CourseSound(course')
      BY <2>1 DEF ScopesInv
    <2> QED
      BY <2>1, <2>5, <2>6, <2>7, <2>8, LoudStep
  <1>4. ASSUME CheckBatch(p) PROVE ScopesInv'
    <2>1. proc[p].at = "check" /\ UNCHANGED <<course, rows, receipt>>
      BY <1>4 DEF CheckBatch
    <2>2. CASE proc[p].batch = {} \/ proc[p].batch = Catalog(course, proc[p].request.scope)
      <3> DEFINE x == [proc[p] EXCEPT !.at = "audit"]
      <3>1. Goes(p, x)
        BY <1>4, <2>2 DEF CheckBatch
      <3>2. {"at", "request", "solo", "batch"} \subseteq DOMAIN proc[p]
            /\ proc[p].request \in Requests /\ proc[p].request.op = "index"
        BY <1>1, <2>1 DEF Carries, Running, Indexing
      <3>3. /\ DOMAIN x = DOMAIN proc[p]
            /\ x.at = "audit" /\ x.request = proc[p].request /\ x.solo = proc[p].solo
            /\ x.batch = proc[p].batch
        BY <3>2
      <3> HIDE DEF x
      <3>4. Carries(x)
        BY <3>2, <3>3 DEF Carries, Running, Indexing, Searching
      <3>5. Undisturbed(x, course, rows, receipt)
        BY <1>1, <2>1, <3>3 DEF Undisturbed, Indexing
      <3> QED
        BY <2>1, <3>1, <3>4, <3>5, QuietStep
    <2>3. CASE ~(proc[p].batch = {} \/ proc[p].batch = Catalog(course, proc[p].request.scope))
      <3>1. Goes(p, AnsweredWith(p, [status |-> "error", groups |-> <<>>]))
        BY <1>4, <2>3 DEF CheckBatch, Answered
      <3>2. ~proc[p].solo
        BY <1>1, <2>1, <2>3 DEF Undisturbed, Indexing
      <3> QED
        BY <1>1, <2>1, <3>1, <3>2, QuietStep, AnswerStands DEF Running
    <2> QED
      BY <2>2, <2>3
  <1>5. ASSUME AuditIndex(p) PROVE ScopesInv'
    <2> DEFINE status == IF AuditPasses(proc[p].request.scope, proc[p].batch)
                         THEN "indexed" ELSE "error"
    <2>1. proc[p].at = "audit" /\ UNCHANGED <<course, rows, receipt>>
          /\ Goes(p, AnsweredWith(p, [status |-> status, groups |-> <<>>]))
      BY <1>5 DEF AuditIndex, Answered
    <2>2. status = "error" => ~proc[p].solo
      BY <1>1, <2>1 DEF Undisturbed, AuditPasses
    <2> HIDE DEF status
    <2> QED
      BY <1>1, <2>1, <2>2, QuietStep, AnswerStands DEF Running
  <1>6. ASSUME ConfirmBatch(p) PROVE ScopesInv'
    <2>1. proc[p].at = "resolving" /\ UNCHANGED <<course, rows, receipt>>
      BY <1>6 DEF ConfirmBatch
    <2>2. CASE proc[p].batch = Catalog(course, proc[p].request.scope)
      <3> DEFINE x == [proc[p] EXCEPT !.at = "write"]
      <3>1. Goes(p, x)
        BY <1>6, <2>2 DEF ConfirmBatch
      <3>2. {"at", "request", "solo", "batch"} \subseteq DOMAIN proc[p]
            /\ proc[p].request \in Requests /\ proc[p].request.op = "index"
        BY <1>1, <2>1 DEF Carries, Running, Indexing
      <3>3. /\ DOMAIN x = DOMAIN proc[p]
            /\ x.at = "write" /\ x.request = proc[p].request /\ x.solo = proc[p].solo
            /\ x.batch = proc[p].batch
        BY <3>2
      <3> HIDE DEF x
      <3>4. Carries(x)
        BY <3>2, <3>3 DEF Carries, Running, Indexing, Searching
      <3>5. Undisturbed(x, course, rows, receipt)
        BY <2>2, <3>3 DEF Undisturbed, Indexing
      <3> QED
        BY <2>1, <3>1, <3>4, <3>5, QuietStep
    <2>3. CASE proc[p].batch # Catalog(course, proc[p].request.scope)
      <3>1. Goes(p, AnsweredWith(p, [status |-> "error", groups |-> <<>>]))
        BY <1>6, <2>3 DEF ConfirmBatch, Answered
      <3>2. ~proc[p].solo
        BY <1>1, <2>1, <2>3 DEF Undisturbed, Indexing
      <3> QED
        BY <1>1, <2>1, <3>1, <3>2, QuietStep, AnswerStands DEF Running
    <2> QED
      BY <2>2, <2>3
  <1> QED
    BY <1>2, <1>3, <1>4, <1>5, <1>6

(* The statements of a search.                                             *)
LEMMA SearchKeeps ==
  ASSUME ScopesInv, NEW p \in Procs,
         \/ \E r \in Requests : StartLookup(p, r) \/ StartService(p, r)
         \/ ResolveExpected(p) \/ ConfirmExpected(p) \/ QueryIndex(p)
         \/ VerifyCatalog(p) \/ RecheckCatalog(p) \/ FuseFound(p)
  PROVE  ScopesInv'
  <1>1. Carries(proc[p]) /\ Undisturbed(proc[p], course, rows, receipt)
    BY DEF ScopesInv
  <1>2. ASSUME NEW r \in Requests, StartLookup(p, r) PROVE ScopesInv'
    <2> DEFINE x == [at |-> "resolve", request |-> r, solo |-> TRUE, frozen |-> <<>>]
    <2>1. r.op = "lookup" /\ Goes(p, x) /\ UNCHANGED <<course, rows, receipt>>
      BY <1>2 DEF StartLookup, Call
    <2>2. Carries(x)
      BY <2>1 DEF Carries, Running, Indexing, Searching
    <2>3. Undisturbed(x, course, rows, receipt)
      BY DEF Undisturbed, Indexing
    <2> HIDE DEF x
    <2> QED
      BY <2>1, <2>2, <2>3, QuietStep
  <1>3. ASSUME NEW r \in Requests, StartService(p, r) PROVE ScopesInv'
    <2> DEFINE x == [at |-> IF Corpus(course, r.scope) = <<>> THEN "answered" ELSE "resolve",
                     request |-> r, solo |-> TRUE, frozen |-> Corpus(course, r.scope),
                     result |-> IF \A s \in Scopes : Corpus(course, s) = <<>> THEN FusionError
                                ELSE Insufficient]
    <2>1. r.op = "search" /\ Goes(p, x) /\ UNCHANGED <<course, rows, receipt>>
      BY <1>3 DEF StartService, Call
    <2>2. Carries(x)
      BY <2>1 DEF Carries, Running, Indexing, Searching
    <2>3. Undisturbed(x, course, rows, receipt)
      BY <2>1 DEF Undisturbed, Indexing
    <2> HIDE DEF x
    <2> QED
      BY <2>1, <2>2, <2>3, QuietStep
  <1>4. ASSUME ResolveExpected(p) PROVE ScopesInv'
    <2> DEFINE at == IF Catalog(course, proc[p].request.scope) = {} THEN "query" ELSE "confirm"
               x == [at |-> at, request |-> proc[p].request, solo |-> proc[p].solo,
                     frozen |-> proc[p].frozen,
                     expected |-> Catalog(course, proc[p].request.scope)]
    <2>1. proc[p].at = "resolve" /\ Goes(p, x) /\ UNCHANGED <<course, rows, receipt>>
      BY <1>4 DEF ResolveExpected
    <2>2. Carries(x)
      BY <1>1, <2>1 DEF Carries, Running, Indexing, Searching
    <2>3. Undisturbed(x, course, rows, receipt)
      BY DEF Undisturbed, Indexing
    <2> HIDE DEF x
    <2> QED
      BY <2>1, <2>2, <2>3, QuietStep
  <1>5. ASSUME QueryIndex(p) PROVE ScopesInv'
    <2> DEFINE q == proc[p].request
               found == Ranked(rows[q.scope], q.surface, q.term, FusePolicy.max_results)
               x == [at |-> "verify", request |-> q, solo |-> proc[p].solo,
                     frozen |-> proc[p].frozen, expected |-> proc[p].expected,
                     found |-> found]
    <2>1. proc[p].at = "query" /\ UNCHANGED <<course, rows, receipt>>
      BY <1>5 DEF QueryIndex
    <2>2. q.op \in {"lookup", "search"} /\ q \in Requests
      BY <1>1, <2>1 DEF Carries, Running, Searching
    <2>3. CASE AuditPasses(q.scope, proc[p].expected)
      <3>1. Goes(p, x)
        BY <1>5, <2>3 DEF QueryIndex
      <3>2. found = Ranked(proc[p].expected, q.surface, q.term, FusePolicy.max_results)
        BY <2>3 DEF AuditPasses
      <3> HIDE DEF found, q
      <3>3. Carries(x)
        BY <2>2, <3>2 DEF Carries, Running, Indexing, Searching
      <3>4. Undisturbed(x, course, rows, receipt)
        BY DEF Undisturbed, Indexing
      <3> HIDE DEF x
      <3> QED
        BY <2>1, <3>1, <3>3, <3>4, QuietStep
    <2>4. CASE ~AuditPasses(q.scope, proc[p].expected)
      <3>1. Goes(p, AnsweredWith(p, [status |-> "error", groups |-> <<>>]))
        BY <1>5, <2>4 DEF QueryIndex, Answered
      <3> QED
        BY <1>1, <2>1, <2>2, <3>1, QuietStep, AnswerStands DEF Running
    <2> QED
      BY <2>3, <2>4
  <1>6. /\ proc[p].at \in Searching => proc[p].request.op # "index"
        /\ \A result : proc[p].at \in Searching /\ UNCHANGED <<course, rows, receipt>>
                       /\ Goes(p, AnsweredWith(p, result)) => ScopesInv'
    <2>1. proc[p].at \in Searching => proc[p].request.op # "index"
      BY <1>1 DEF Carries
    <2>2. proc[p].at \in Searching => proc[p].at \in Running
      BY DEF Searching, Running
    <2> QED
      BY <1>1, <2>1, <2>2, QuietStep, AnswerStands
  <1>7. ASSUME ConfirmExpected(p) PROVE ScopesInv'
    <2>1. proc[p].at = "confirm" /\ UNCHANGED <<course, rows, receipt>>
      BY <1>7 DEF ConfirmExpected
    <2>2. CASE proc[p].expected = Catalog(course, proc[p].request.scope)
      <3> DEFINE x == [proc[p] EXCEPT !.at = "query"]
      <3>1. Goes(p, x)
        BY <1>7, <2>2 DEF ConfirmExpected
      <3>2. {"at", "request", "solo", "frozen", "expected"} \subseteq DOMAIN proc[p]
            /\ proc[p].request \in Requests /\ proc[p].request.op \in {"lookup", "search"}
        BY <1>1, <2>1 DEF Carries, Running, Searching
      <3>3. DOMAIN x = DOMAIN proc[p] /\ x.at = "query" /\ x.request = proc[p].request
        BY <3>2
      <3> HIDE DEF x
      <3>4. Carries(x)
        BY <3>2, <3>3 DEF Carries, Running, Indexing, Searching
      <3>5. Undisturbed(x, course, rows, receipt)
        BY <3>3 DEF Undisturbed, Indexing
      <3> QED
        BY <2>1, <3>1, <3>4, <3>5, QuietStep
    <2>3. CASE proc[p].expected # Catalog(course, proc[p].request.scope)
      BY <1>6, <1>7, <2>1, <2>3 DEF ConfirmExpected, Answered, Searching
    <2> QED
      BY <2>2, <2>3
  <1>8. proc[p].at \in {"verify", "recheck"} /\ UNCHANGED <<course, rows, receipt>>
        /\ Goes(p, Found(p)) => ScopesInv'
    <2> SUFFICES ASSUME proc[p].at \in {"verify", "recheck"}, UNCHANGED <<course, rows, receipt>>,
                        Goes(p, Found(p))
                 PROVE  ScopesInv'
      OBVIOUS
    <2> DEFINE x == Found(p)
    <2>1. /\ proc[p].request \in Requests /\ proc[p].request.op \in {"lookup", "search"}
      BY <1>1 DEF Carries, Running, Searching
    <2>2. /\ DOMAIN x = {"at", "request", "solo", "frozen", "found", "looked"}
          /\ x.at = "fuse" /\ x.request = proc[p].request
      BY DEF Found
    <2> HIDE DEF x
    <2>3. Carries(x)
      BY <2>1, <2>2 DEF Carries, Running, Indexing, Searching
    <2>4. Undisturbed(x, course, rows, receipt)
      BY <2>2 DEF Undisturbed, Indexing
    <2> QED
      BY <2>3, <2>4, QuietStep DEF x
  <1>9. ASSUME VerifyCatalog(p) PROVE ScopesInv'
    <2> DEFINE after == Catalog(course, proc[p].request.scope)
               x == [at |-> "recheck", request |-> proc[p].request, solo |-> proc[p].solo,
                     frozen |-> proc[p].frozen, expected |-> proc[p].expected,
                     found |-> proc[p].found, after |-> after]
    <2>1. /\ proc[p].at = "verify" /\ UNCHANGED <<course, rows, receipt>>
          /\ \/ Goes(p, x) \/ Goes(p, Found(p))
             \/ Goes(p, AnsweredWith(p, [status |-> "error", groups |-> <<>>]))
      BY <1>9 DEF VerifyCatalog, Answered
    <2>2. CASE Goes(p, x)
      <3>1. /\ proc[p].request \in Requests /\ proc[p].request.op \in {"lookup", "search"}
            /\ proc[p].found = Ranked(proc[p].expected, proc[p].request.surface,
                                      proc[p].request.term, FusePolicy.max_results)
        BY <1>1, <2>1 DEF Carries, Running, Searching
      <3> HIDE DEF after
      <3>2. Carries(x)
        BY <3>1 DEF Carries, Running, Indexing, Searching
      <3>3. Undisturbed(x, course, rows, receipt)
        BY DEF Undisturbed, Indexing
      <3> HIDE DEF x
      <3> QED
        BY <2>1, <2>2, <3>2, <3>3, QuietStep
    <2> HIDE DEF x
    <2> QED
      BY <1>6, <1>8, <2>1, <2>2 DEF Searching
  <1>10. ASSUME RecheckCatalog(p) PROVE ScopesInv'
    <2>1. /\ proc[p].at = "recheck" /\ UNCHANGED <<course, rows, receipt>>
          /\ \/ Goes(p, Found(p))
             \/ Goes(p, AnsweredWith(p, [status |-> "error", groups |-> <<>>]))
      BY <1>10 DEF RecheckCatalog, Answered
    <2> QED
      BY <1>6, <1>8, <2>1 DEF Searching
  <1>11. ASSUME FuseFound(p) PROVE ScopesInv'
    <2>1. /\ proc[p].at = "fuse" /\ UNCHANGED <<course, rows, receipt>>
          /\ \E result : Goes(p, AnsweredWith(p, result))
      BY <1>11 DEF FuseFound
    <2> QED
      BY <1>6, <2>1 DEF Searching
  <1> QED
    BY <1>2, <1>3, <1>4, <1>5, <1>7, <1>9, <1>10, <1>11

(* The invariant holds in every behaviour from a sound course.             *)
LEMMA ScopesStart ==
  ASSUME NEW start, ScopesInit(start), CourseSound(start.course)
  PROVE  ScopesInv
  <1>1. \A p \in Procs : proc[p].at = "idle"
    BY DEF ScopesInit, Idle
  <1>2. \A p \in Procs : Carries(proc[p]) /\ Undisturbed(proc[p], course, rows, receipt)
    BY <1>1 DEF Carries, Undisturbed, Running, Indexing, Searching
  <1> QED
    BY <1>2 DEF ScopesInit, ScopesInv

(* Every step of every process keeps the invariant.                        *)
LEMMA ScopesKept == ScopesInv /\ [ScopesNext]_scopeVars => ScopesInv'
  <1>1. ASSUME ScopesInv, ScopesNext PROVE ScopesInv'
    BY <1>1, EditKeeps, ConflictKeeps, AppendKeeps, RevisionKeeps, IndexKeeps, SearchKeeps
       DEF ScopesNext
  <1>2. ASSUME ScopesInv, UNCHANGED scopeVars PROVE ScopesInv'
    BY <1>2 DEF scopeVars, ScopesInv
  <1> QED
    BY <1>1, <1>2

(* Nobody moves another process to another phase.                          *)
LEMMA PlacesKept ==
  ASSUME ScopesInv, NEW p \in Procs, NEW q, q # p,
         \/ \E x : Goes(q, x) \/ GoesLoudly(q, x)
         \/ proc' = Disturbed(q)
  PROVE  proc'[p].at = proc[p].at
  <1>1. Carries(proc[p])
    BY DEF ScopesInv
  <1>2. proc'[p] = proc[p] \/ proc'[p] = Disturbed(q)[p]
    BY DEF Goes, GoesLoudly, ScopesInv, Disturbed
  <1>3. Disturbed(q)[p].at = proc[p].at
    <2>1. CASE proc[p].at \in Running
      <3>1. Disturbed(q)[p] = [proc[p] EXCEPT !.solo = FALSE]
        BY <2>1 DEF Disturbed, Running
      <3>2. "at" \in DOMAIN proc[p]
        BY <1>1, <2>1 DEF Carries
      <3> QED
        BY <3>1, <3>2
    <2>2. CASE proc[p].at \in {"idle", "answered"}
      BY <2>2 DEF Disturbed
    <2> QED
      BY <1>1, <2>1, <2>2 DEF Carries
  <1> QED
    BY <1>2, <1>3

(* Which step settles what a search found, and which ends an edit.         *)
LEMMA StepsOf ==
  ASSUME ScopesInv, ScopesNext, NEW p \in Procs, proc'[p].at # proc[p].at
  PROVE  /\ proc'[p].at = "fuse" => VerifyCatalog(p) \/ RecheckCatalog(p)
         /\ proc[p].at = "append" =>
               AppendScopeEvent(p) \/ UNCHANGED course
  <1>1. ASSUME NEW q \in Procs, NEW r \in Requests,
               StartEdit(q, r) \/ StartIndex(q, r) \/ StartLookup(q, r) \/ StartService(q, r)
        PROVE  proc[p].at # "append" /\ proc'[p].at # "fuse"
    <2>1. \E x : Goes(q, x) /\ x.at # "fuse"
      BY <1>1 DEF StartEdit, StartIndex, StartLookup, StartService
    <2>2. q = p
      BY <2>1, PlacesKept
    <2>3. proc'[p].at # "fuse"
      BY <2>1, <2>2 DEF Goes, ScopesInv
    <2> QED
      BY <1>1, <2>2, <2>3 DEF StartEdit, StartIndex, StartLookup, StartService, Call
  <1>2. ASSUME NEW q \in Procs, AppendConflict(q)
        PROVE  UNCHANGED course /\ proc'[p].at # "fuse"
    <2>1. /\ UNCHANGED course
          /\ \/ Goes(q, [proc[q] EXCEPT !.seq = course.seq, !.tries = @ + 1])
             \/ Goes(q, Answered(q, "conflict"))
      BY <1>2 DEF AppendConflict
    <2>2. q = p
      BY <2>1, PlacesKept
    <2>3. Carries(proc[p]) /\ proc[p].at = "append"
      BY <1>2, <2>2 DEF AppendConflict, ScopesInv
    <2>4. [proc[p] EXCEPT !.seq = course.seq, !.tries = @ + 1].at # "fuse"
      BY <2>3 DEF Carries, Running
    <2>5. Answered(p, "conflict").at # "fuse"
      BY DEF Answered, AnsweredWith
    <2> QED
      BY <2>1, <2>2, <2>4, <2>5 DEF Goes, ScopesInv
  <1>3. ASSUME NEW q \in Procs, AppendScopeEvent(q)
        PROVE  q = p /\ proc'[p].at # "fuse"
    <2>1. \E x : (Goes(q, x) \/ GoesLoudly(q, x)) /\ x.at # "fuse"
      BY <1>3 DEF AppendScopeEvent, Answered, AnsweredWith
    <2>2. q = p
      BY <2>1, PlacesKept
    <2> QED
      BY <2>1, <2>2 DEF Goes, GoesLoudly, Disturbed, ScopesInv
  <1>4. ASSUME NEW s \in Sources, NewRevision(s) PROVE FALSE
    <2>1. proc' = Disturbed(None) /\ None # p
      BY <1>4, NoneAssumption DEF NewRevision
    <2> QED
      BY <2>1, PlacesKept
  <1>5. ASSUME NEW q \in Procs,
               ConfirmBatch(q) \/ WriteIndex(q) \/ CheckBatch(q) \/ AuditIndex(q)
        PROVE  proc[p].at \in Indexing /\ proc'[p].at # "fuse"
    <2>1. proc[q].at \in Indexing
      BY <1>5 DEF ConfirmBatch, WriteIndex, CheckBatch, AuditIndex, Indexing
    <2>2. Carries(proc[q])
      BY DEF ScopesInv
    <2>3. /\ [proc[q] EXCEPT !.at = "write"].at = "write"
          /\ [proc[q] EXCEPT !.at = "check"].at = "check"
          /\ [proc[q] EXCEPT !.at = "audit"].at = "audit"
      BY <2>1, <2>2 DEF Carries, Indexing, Running
    <2>4. \E x : (Goes(q, x) \/ GoesLoudly(q, x)) /\ x.at # "fuse"
      <3>1. \A status : Answered(q, status).at # "fuse"
        BY DEF Answered, AnsweredWith
      <3> DEFINE Out(x) == (Goes(q, x) \/ GoesLoudly(q, x)) /\ x.at # "fuse"
      <3>2. CASE ConfirmBatch(q)
        <4>1. Goes(q, [proc[q] EXCEPT !.at = "write"]) \/ Goes(q, Answered(q, "error"))
          BY <3>2 DEF ConfirmBatch
        <4>2. Out([proc[q] EXCEPT !.at = "write"]) \/ Out(Answered(q, "error"))
          BY <2>3, <3>1, <4>1
        <4> QED
          BY <4>2
      <3>3. CASE WriteIndex(q)
        <4>1. GoesLoudly(q, [proc[q] EXCEPT !.at = "check"])
          BY <3>3 DEF WriteIndex
        <4>2. Out([proc[q] EXCEPT !.at = "check"])
          BY <2>3, <4>1
        <4> QED
          BY <4>2
      <3>4. CASE CheckBatch(q)
        <4>1. Goes(q, [proc[q] EXCEPT !.at = "audit"]) \/ Goes(q, Answered(q, "error"))
          BY <3>4 DEF CheckBatch
        <4>2. Out([proc[q] EXCEPT !.at = "audit"]) \/ Out(Answered(q, "error"))
          BY <2>3, <3>1, <4>1
        <4> QED
          BY <4>2
      <3>5. CASE AuditIndex(q)
        <4>1. PICK status : Goes(q, Answered(q, status))
          BY <3>5 DEF AuditIndex
        <4>2. Out(Answered(q, status))
          BY <3>1, <4>1
        <4> QED
          BY <4>2
      <3> QED
        BY <1>5, <3>2, <3>3, <3>4, <3>5
    <2>5. q = p
      BY <2>4, PlacesKept
    <2> QED
      BY <2>1, <2>4, <2>5 DEF Goes, GoesLoudly, Disturbed, ScopesInv
  <1>6. ASSUME NEW q \in Procs,
               ResolveExpected(q) \/ ConfirmExpected(q) \/ QueryIndex(q) \/ FuseFound(q)
        PROVE  proc[p].at \in Searching /\ proc'[p].at # "fuse"
    <2>1. proc[q].at \in Searching
      BY <1>6 DEF ResolveExpected, ConfirmExpected, QueryIndex, FuseFound, Searching
    <2>2. Carries(proc[q])
      BY DEF ScopesInv
    <2>3. [proc[q] EXCEPT !.at = "query"].at = "query"
      BY <2>1, <2>2 DEF Carries, Searching, Running
    <2>4. \E x : Goes(q, x) /\ x.at # "fuse"
      <3>1. \A result : AnsweredWith(q, result).at # "fuse"
        BY DEF AnsweredWith
      <3> DEFINE Out(x) == Goes(q, x) /\ x.at # "fuse"
      <3>2. CASE ResolveExpected(q)
        BY <3>2 DEF ResolveExpected
      <3>3. CASE ConfirmExpected(q)
        <4>1. Goes(q, [proc[q] EXCEPT !.at = "query"]) \/ Goes(q, Answered(q, "error"))
          BY <3>3 DEF ConfirmExpected
        <4>2. Out([proc[q] EXCEPT !.at = "query"]) \/ Out(Answered(q, "error"))
          BY <2>3, <3>1, <4>1 DEF Answered
        <4> QED
          BY <4>2
      <3>4. CASE QueryIndex(q)
        BY <3>1, <3>4 DEF QueryIndex, Answered
      <3>5. CASE FuseFound(q)
        BY <3>1, <3>5 DEF FuseFound
      <3> QED
        BY <1>6, <3>2, <3>3, <3>4, <3>5
    <2>5. q = p
      BY <2>4, PlacesKept
    <2> QED
      BY <2>1, <2>4, <2>5 DEF Goes, ScopesInv
  <1>7. ASSUME NEW q \in Procs, VerifyCatalog(q) \/ RecheckCatalog(q)
        PROVE  q = p /\ proc[p].at # "append"
    <2>1. \E x : Goes(q, x)
      BY <1>7 DEF VerifyCatalog, RecheckCatalog
    <2> QED
      BY <1>7, <2>1, PlacesKept DEF VerifyCatalog, RecheckCatalog
  <1> QED
    BY <1>1, <1>2, <1>3, <1>4, <1>5, <1>6, <1>7 DEF ScopesNext, Indexing, Searching

(* A course without scopes, events or revisions is sound.                  *)
LEMMA FirstCourseSound ==
  CourseSound([seq |-> 0, revision |-> [s \in Sources |-> 0],
               scopes |-> [k \in Scopes |-> None], receipts |-> {}])
  BY RevisionsAssumption DEF CourseSound, CourseStates, ScopeRows, Known

(* What a search keeps is what the canonical catalog yields at its last    *)
(* look (SQLiteLexicalSurfaces.search).                                    *)
THEOREM SearchesHold ==
  ASSUME NEW CONSTANT start, CourseSound(start.course)
  PROVE  ScopesSpec(start) => SearchIsExact
  <1> DEFINE Exact(p) ==
             LET q == proc[p].request
             IN proc'[p].found = Ranked(Catalog(course, q.scope), q.surface, q.term,
                                        FusePolicy.max_results)
  <1>1. ASSUME ScopesInv, ScopesNext, NEW p \in Procs,
               proc[p].at # "fuse", proc'[p].at = "fuse"
        PROVE  Exact(p)
    <2>1. VerifyCatalog(p) \/ RecheckCatalog(p)
      BY <1>1, StepsOf
    <2>2. Answered(p, "error").at # "fuse"
      BY DEF Answered, AnsweredWith
    <2>3. \A x : Goes(p, x) => proc'[p] = x
      BY <1>1 DEF Goes, ScopesInv
    <2>4. /\ proc[p].at \in {"verify", "recheck"}
          /\ proc[p].expected = Catalog(course, proc[p].request.scope)
          /\ proc'[p] = Found(p)
      BY <1>1, <2>1, <2>2, <2>3 DEF VerifyCatalog, RecheckCatalog, StillCanonical
    <2>5. proc'[p].found = proc[p].found
      BY <2>4 DEF Found
    <2>6. proc[p].found = Ranked(proc[p].expected, proc[p].request.surface,
                                 proc[p].request.term, FusePolicy.max_results)
      BY <1>1, <2>4 DEF ScopesInv, Carries
    <2> QED
      BY <2>4, <2>5, <2>6
  <1>2. ScopesInv /\ [ScopesNext]_scopeVars =>
          [\A p \in Procs : proc[p].at # "fuse" /\ proc'[p].at = "fuse" => Exact(p)]_scopeVars
    BY <1>1
  <1>3. ScopesInit(start) => ScopesInv
    BY ScopesStart
  <1> QED
    BY <1>2, <1>3, ScopesKept, PTL DEF ScopesSpec, SearchIsExact

(* A scope changes by one editor's appended event only, and as that event  *)
(* says: the first configuration by an editor who saw none, a later one on *)
(* the version its editor had read, a membership event by one source       *)
(* (reduce_scope_configured, reduce_scope_membership, the append again     *)
(* after a conflict).                                                      *)
THEOREM EditsHold ==
  ASSUME NEW CONSTANT start, CourseSound(start.course)
  PROVE  ScopesSpec(start) => EditsCompose
  <1> DEFINE Composed(s) ==
             \E p \in Procs :
                /\ proc[p].at = "append" /\ proc'[p].at = "answered"
                /\ proc'[p].result.status = "appended"
                /\ proc[p].event.scope = s
                /\ Edits(proc[p], course.scopes[s], course'.scopes[s])
  <1>1. ASSUME ScopesInv, ScopesNext, NEW s \in Scopes, course'.scopes[s] # course.scopes[s]
        PROVE  Composed(s)
    <2>1. PICK p \in Procs : AppendScopeEvent(p)
      <3>1. ASSUME NEW t \in Sources, NewRevision(t) PROVE FALSE
        <4>1. course \in CourseStates
          BY <1>1 DEF ScopesInv, CourseSound
        <4>2. course'.scopes = course.scopes
          BY <3>1, <4>1 DEF NewRevision, CourseStates
        <4> QED
          BY <1>1, <4>2
      <3>2. course' # course
        BY <1>1
      <3> QED
        BY <1>1, <3>1, <3>2
           DEF ScopesNext, StartEdit, StartIndex, StartLookup, StartService, Call, AppendConflict,
               ConfirmBatch, WriteIndex, CheckBatch, AuditIndex, ResolveExpected, ConfirmExpected,
               QueryIndex, VerifyCatalog, RecheckCatalog, FuseFound
    <2> DEFINE event == proc[p].event
               next == Reduce(course, event)
    <2>2. /\ next # None /\ course' = next
          /\ proc[p].at = "append" /\ GoesLoudly(p, Answered(p, "appended"))
      BY <1>1, <2>1 DEF AppendScopeEvent
    <2>3. proc'[p].at = "answered" /\ proc'[p].result.status = "appended"
      <3>1. proc'[p] = Answered(p, "appended")
        BY <1>1, <2>2 DEF GoesLoudly, Disturbed
      <3> QED
        BY <3>1 DEF Answered, AnsweredWith
    <2>4. Carries(proc[p]) /\ CourseSound(course)
      BY <1>1 DEF ScopesInv
    <2>5. /\ event.scope \in Scopes /\ event.kind \in EditKinds
          /\ event.kind = "configure" => event.policy \in Policies
          /\ proc[p].base \in ScopeRows
          /\ event.previous = IF proc[p].base = None THEN None ELSE proc[p].base.policy.version
      BY <2>2, <2>4 DEF Carries
    <2>6. event.previous = None <=> proc[p].base = None
      <3> HIDE DEF event
      <3>1. CASE proc[p].base # None
        <4>1. proc[p].base.policy \in Policies
          BY <2>5, <3>1 DEF ScopeRows
        <4> QED
          BY <2>5, <3>1, <4>1, NoneAssumption
      <3>2. CASE proc[p].base = None
        BY <2>5, <3>2
      <3> QED
        BY <3>1, <3>2
    <2> HIDE DEF event
    <2>7. /\ \A k \in Scopes \ {event.scope} : next.scopes[k] = course.scopes[k]
          /\ LET was == course.scopes[event.scope]
                 now == next.scopes[event.scope]
             IN \/ /\ event.kind = "configure" /\ was = None /\ event.previous = None
                   /\ now = [policy |-> event.policy, members |-> {}]
                \/ /\ event.kind = "configure" /\ was # None
                   /\ event.previous # None /\ event.previous = was.policy.version
                   /\ now = [policy |-> event.policy, members |-> was.members]
                \/ /\ event.kind = "add" /\ was # None /\ event.source \notin was.members
                   /\ now = [policy |-> was.policy, members |-> was.members \cup {event.source}]
                \/ /\ event.kind = "remove" /\ was # None /\ event.source \in was.members
                   /\ now = [policy |-> was.policy, members |-> was.members \ {event.source}]
      BY <2>2, <2>4, <2>5, ReduceSound
    <2> HIDE DEF next
    <2>8. event.scope = s
      BY <1>1, <2>2, <2>7
    <2>9. Edits(proc[p], course.scopes[s], next.scopes[s])
      <3>1. event.previous # None => proc[p].base # None
                                     /\ proc[p].base.policy.version = event.previous
        BY <2>5, <2>6
      <3>2. event.previous = None => proc[p].base = None
        BY <2>6
      <3> DEFINE was == course.scopes[s]
                 now == next.scopes[s]
      <3>3. CASE event.kind = "configure" /\ was = None /\ event.previous = None
                 /\ now = [policy |-> event.policy, members |-> {}]
        BY <3>2, <3>3 DEF Edits, event
      <3>4. CASE /\ event.kind = "configure" /\ was # None
                 /\ event.previous # None /\ event.previous = was.policy.version
                 /\ now = [policy |-> event.policy, members |-> was.members]
        BY <3>1, <3>4 DEF Edits, event
      <3>5. CASE /\ event.kind = "add" /\ was # None /\ event.source \notin was.members
                 /\ now = [policy |-> was.policy, members |-> was.members \cup {event.source}]
        BY <3>5 DEF Edits, event
      <3>6. CASE /\ event.kind = "remove" /\ was # None /\ event.source \in was.members
                 /\ now = [policy |-> was.policy, members |-> was.members \ {event.source}]
        BY <3>6 DEF Edits, event
      <3> QED
        BY <2>7, <2>8, <3>3, <3>4, <3>5, <3>6
    <2> QED
      BY <2>2, <2>3, <2>8, <2>9 DEF event
  <1>2. ScopesInv /\ [ScopesNext]_scopeVars =>
          [\A s \in Scopes : course'.scopes[s] # course.scopes[s] => Composed(s)]_scopeVars
    BY <1>1
  <1>3. ScopesInit(start) => ScopesInv
    BY ScopesStart
  <1> QED
    BY <1>2, <1>3, ScopesKept, PTL DEF ScopesSpec, EditsCompose

(* Two sets in one-to-one correspondence have as many elements.            *)
LEMMA SameCount ==
  ASSUME NEW S, IsFiniteSet(S), NEW T, NEW f \in [S -> T],
         \A a, b \in S : f[a] = f[b] => a = b,
         \A t \in T : \E a \in S : f[a] = t
  PROVE  Cardinality(T) = Cardinality(S)
  <1>1. f \in Bijection(S, T)
    BY DEF Bijection, Injection, Surjection, IsInjective
  <1> QED
    BY <1>1, FS_Bijection DEF ExistsBijection

(* What the catalog of a scope holds of the units of one member.           *)
LEMMA CatalogCounts ==
  ASSUME CourseSound(course), NEW k \in Scopes, course.scopes[k] # None,
         NEW s \in course.scopes[k].members
  PROVE  Cardinality(DOMAIN UnitsOf(course, s))
           = Cardinality({b \in Catalog(course, k) :
                             b.unit \in DOMAIN Revisions[s][course.revision[s]]})
  <1> DEFINE corpus == Corpus(course, k)
             policy == course.scopes[k].policy
             D == DOMAIN UnitsOf(course, s)
             T == {b \in Catalog(course, k) : b.unit \in D}
             B(u) == LexicalProjectionBinding(corpus, policy, u)
             f == [u \in D |-> B(u)]
  <1>1. s \in Sources /\ course.revision[s] \in 1 .. Len(Revisions[s])
    BY RevisionsAssumption DEF CourseSound, CourseStates, Known
  <1>2. UnitsOf(course, s) = Revisions[s][course.revision[s]] /\ IsFiniteSet(D)
    BY <1>1, RevisionsAssumption DEF UnitsOf
  <1>3. DOMAIN corpus = UNION {DOMAIN UnitsOf(course, t) : t \in course.scopes[k].members}
    BY DEF Corpus
  <1>4. D \subseteq DOMAIN corpus
    BY <1>3
  <1>5. \A u : B(u).unit = u
    BY DEF LexicalProjectionBinding
  <1>6. Catalog(course, k) = {B(u) : u \in DOMAIN corpus}
    BY DEF Catalog
  <1> HIDE DEF corpus, D, B, policy
  <1>7. f \in [D -> T]
    BY <1>4, <1>5, <1>6
  <1>8. \A a, b \in D : f[a] = f[b] => a = b
    BY <1>5
  <1>9. \A t \in T : \E a \in D : f[a] = t
    BY <1>5, <1>6
  <1>10. Cardinality(T) = Cardinality(D)
    <2> HIDE DEF T, f
    <2> QED
      BY <1>2, <1>7, <1>8, <1>9, SameCount
  <1> QED
    BY <1>2, <1>10 DEF D

(* An indexer that nobody disturbed succeeds (SQLiteLexicalSurfaces.index), *)
(* and the manifest counts what the catalog holds (build_corpus_manifest). *)
THEOREM CatalogsHold ==
  ASSUME NEW CONSTANT start, CourseSound(start.course)
  PROVE  ScopesSpec(start) => [](SoloIndexSucceeds /\ ManifestCountsCatalog)
  <1>1. ScopesInv => SoloIndexSucceeds
    BY DEF ScopesInv, Undisturbed, SoloIndexSucceeds
  <1>2. ASSUME ScopesInv PROVE ManifestCountsCatalog
    <2> DEFINE whole == build_corpus_manifest(course, WholeCorpus)
               manifest(k) == build_corpus_manifest(course, k)
               counts(S) == [s \in S |-> Cardinality(DOMAIN UnitsOf(course, s))]
    <2> SUFFICES ASSUME NEW k \in Scopes, manifest(k).status = "ok",
                        NEW s \in DOMAIN manifest(k).counts
                 PROVE  /\ manifest(k).counts[s] =
                             Cardinality({b \in Catalog(course, k) :
                                             b.unit \in DOMAIN Revisions[s][course.revision[s]]})
                        /\ whole.status = "ok" /\ whole.counts[s] = manifest(k).counts[s]
      BY DEF ManifestCountsCatalog
    <2>1. k # WholeCorpus
      BY NoneAssumption DEF WholeCorpus
    <2>2. /\ SelectedSources(course, k) # {}
          /\ manifest(k).counts = counts(SelectedSources(course, k))
      BY <2>1 DEF build_corpus_manifest
    <2>3. course.scopes[k] # None /\ SelectedSources(course, k) = course.scopes[k].members
      BY <2>1, <2>2 DEF SelectedSources
    <2>4. course.scopes[k].members \subseteq Known(course) /\ CourseSound(course)
      BY <1>2, <2>3 DEF ScopesInv, CourseSound
    <2>5. s \in course.scopes[k].members
          /\ manifest(k).counts[s] = Cardinality(DOMAIN UnitsOf(course, s))
      BY <2>2, <2>3
    <2>6. whole.status = "ok" /\ whole.counts = counts(Known(course))
      <3>1. SelectedSources(course, WholeCorpus) = Known(course)
        BY DEF SelectedSources
      <3>2. ASSUME NEW t \in Known(course)
            PROVE  ~(Cardinality({UnitsOf(course, t)[u].class : u \in DOMAIN UnitsOf(course, t)}) > 1)
        <4> DEFINE units == UnitsOf(course, t)
                   C == {units[u].class : u \in DOMAIN units}
        <4>1. t \in Sources /\ course.revision[t] \in 1 .. Len(Revisions[t])
          BY <2>4, RevisionsAssumption DEF CourseSound, CourseStates, Known
        <4>2. units = Revisions[t][course.revision[t]]
          BY <4>1 DEF UnitsOf
        <4>3. \A u, v \in DOMAIN units : units[u].class = units[v].class
          BY <4>1, <4>2, RevisionsAssumption
        <4>4. C = {} \/ \E c : C = {c}
          BY <4>3
        <4> HIDE DEF C
        <4>5. Cardinality(C) = 0 \/ Cardinality(C) = 1
          BY <4>4, FS_EmptySet, FS_Singleton
        <4> QED
          BY <4>5 DEF C
      <3> QED
        BY <3>1, <3>2 DEF build_corpus_manifest
    <2>7. whole.counts[s] = Cardinality(DOMAIN UnitsOf(course, s))
      BY <2>4, <2>5, <2>6
    <2> QED
      BY <2>3, <2>4, <2>5, <2>6, <2>7, CatalogCounts
  <1>3. ScopesInit(start) => ScopesInv
    BY ScopesStart
  <1> QED
    BY <1>1, <1>2, <1>3, ScopesKept, PTL DEF ScopesSpec

-----------------------------------------------------------------------------
(***************************************************************************)
(* The registry of capability gaps.                                        *)
(***************************************************************************)

(* The reports of a gap among R.                                           *)
ReportsOf(R, g) == {r \in R : r.gap = g}

(* What the aggregates G say is what the reports R say.  The earliest time *)
(* is stated by its bounds, which is how a step keeps it.                  *)
Tallies(G, R) ==
    \A g \in GapKeys :
        IF G[g] = NoGap THEN ReportsOf(R, g) = {}
        ELSE /\ G[g].count = Cardinality(ReportsOf(R, g))
             /\ \E r \in ReportsOf(R, g) : r.seen = G[g].first
             /\ \A r \in ReportsOf(R, g) : G[g].first <= r.seen
             /\ \E r \in ReportsOf(R, g) : r.seen = G[g].last

(* The two tables: typed rows, and reports filed under the gap of their    *)
(* identity.                                                               *)
TablesTyped(G, R) ==
    /\ G \in [GapKeys -> Aggregates \cup {NoGap}]
    /\ IsFiniteSet(R)
    /\ \A r \in R : r.gap \in GapKeys /\ r.gap = r.id[1] /\ r.seen \in Int

(* An occurrence was announced as recorded only if it is in the table.     *)
ToldOnce(T, R) ==
    /\ T \in [{Occurrence(o) : o \in Observations} -> {0, 1}]
    /\ \A f \in DOMAIN T : T[f] = 1 => \E r \in R : r.id = f

(* An answer that was given is true of the tables.                         *)
AnswerFits(G, R, o, answer) ==
    answer.status \in {"recorded", "deduplicated"} =>
        /\ \E r \in R : r.id = report_id_for(o)
        /\ G[Dimensions(o)] # NoGap
        /\ answer.count \in Nat
        /\ answer.count <= G[Dimensions(o)].count

(* What a call carries: the observation, and an answer that is true.       *)
ReportersFit ==
    /\ reporter = [p \in Reporters |-> reporter[p]]
    /\ \A p \in Reporters :
          reporter[p].at \in {"write", "reply"} => reporter[p].observation \in Observations
    /\ \A p \in Reporters :
          reporter[p].at = "reply" =>
              AnswerFits(gaps, reports, reporter[p].observation, reporter[p].answer)

(* The invariant of the registry.                                          *)
GapInv ==
    /\ TablesTyped(gaps, reports)
    /\ Tallies(gaps, reports)
    /\ ToldOnce(told, reports)
    /\ ReportersFit

(* Tables only grow: reports stay, and counts never fall.                  *)
TablesGrow(G, R, H, S) ==
    /\ R \subseteq S
    /\ \A g \in GapKeys : G[g] # NoGap => H[g] # NoGap /\ G[g].count <= H[g].count

(* A proposal is an aggregate of one report, seen when it was made.        *)
LEMMA ProposalTyped ==
  ASSUME NEW o \in Observations
  PROVE  /\ Proposal(o) \in Aggregates
         /\ Proposal(o) # NoGap
         /\ Proposal(o).count = 1 /\ Proposal(o).first = o.seen /\ Proposal(o).last = o.seen
         /\ Dimensions(o) \in GapKeys
  BY ObservationsAssumption, NoGapAssumption
     DEF Proposal, Aggregates, Verification, GapKeys

(* Counting one more report: what the transaction inserts, with the        *)
(* aggregate it writes, is what the tables then say.                       *)
LEMMA CountOne ==
  ASSUME NEW G, NEW R, TablesTyped(G, R), Tallies(G, R),
         NEW o \in Observations,
         ~ \E r \in R : r.id = report_id_for(o),
         NEW a \in Aggregates,
         \/ /\ G[Dimensions(o)] = NoGap
            /\ a = Proposal(o)
         \/ /\ G[Dimensions(o)] # NoGap
            /\ a = Incremented(G[Dimensions(o)], Proposal(o))
            /\ AggregateIsValid(a),
         NEW H, H = [G EXCEPT ![Dimensions(o)] = a],
         NEW S, S = R \cup {[id |-> report_id_for(o), gap |-> Dimensions(o), seen |-> o.seen]}
  PROVE  TablesTyped(H, S) /\ Tallies(H, S) /\ TablesGrow(G, R, H, S)
  <1> DEFINE g == Dimensions(o)
             new == [id |-> report_id_for(o), gap |-> g, seen |-> o.seen]
  <1>1. g \in GapKeys /\ o.seen \in Int
    BY ProposalTyped, ObservationsAssumption
  <1>2. new \notin R /\ new.gap = g /\ new.id[1] = g /\ new.seen = o.seen
    BY DEF report_id_for
  <1>3. a # NoGap
    BY NoGapAssumption
  <1>4. TablesTyped(H, S)
    <2>1. H \in [GapKeys -> Aggregates \cup {NoGap}]
      BY <1>1 DEF TablesTyped
    <2>2. IsFiniteSet(S)
      BY FS_AddElement DEF TablesTyped
    <2> QED
      BY <1>1, <1>2, <2>1, <2>2 DEF TablesTyped
  <1>5. /\ ReportsOf(S, g) = ReportsOf(R, g) \cup {new}
        /\ \A h \in GapKeys \ {g} : ReportsOf(S, h) = ReportsOf(R, h)
    BY <1>2 DEF ReportsOf
  <1>6. /\ IsFiniteSet(ReportsOf(R, g))
        /\ Cardinality(ReportsOf(S, g)) = Cardinality(ReportsOf(R, g)) + 1
        /\ Cardinality(ReportsOf(R, g)) \in Nat
    <2>1. ReportsOf(R, g) \subseteq R /\ new \notin ReportsOf(R, g)
      BY <1>2 DEF ReportsOf
    <2>2. IsFiniteSet(ReportsOf(R, g))
      BY <2>1, FS_Subset DEF TablesTyped
    <2> DEFINE old == ReportsOf(R, g)
    <2> HIDE DEF old, new
    <2>3. Cardinality(old \cup {new}) = Cardinality(old) + 1 /\ Cardinality(old) \in Nat
      BY <2>1, <2>2, FS_AddElement, FS_CardinalityType DEF old
    <2> QED
      BY <1>5, <2>2, <2>3 DEF old
  <1>7. H[g] = a /\ \A h \in GapKeys \ {g} : H[h] = G[h]
    BY <1>1 DEF TablesTyped
  <1>8. /\ a.count = Cardinality(ReportsOf(S, g))
        /\ \E r \in ReportsOf(S, g) : r.seen = a.first
        /\ \A r \in ReportsOf(S, g) : a.first <= r.seen
        /\ \E r \in ReportsOf(S, g) : r.seen = a.last
        /\ G[g] # NoGap => G[g].count <= a.count
    <2>1. CASE G[g] = NoGap /\ a = Proposal(o)
      <3>1. ReportsOf(R, g) = {}
        BY <1>1, <2>1 DEF Tallies
      <3>2. a.count = 1 /\ a.first = o.seen /\ a.last = o.seen
        BY <2>1, ProposalTyped
      <3>3. Cardinality(ReportsOf(S, g)) = 1
        BY <1>6, <3>1, FS_EmptySet
      <3>4. new \in ReportsOf(S, g) /\ \A r \in ReportsOf(S, g) : r = new
        BY <1>5, <3>1
      <3>5. new.seen = o.seen /\ o.seen \in Int
        BY <1>1
      <3> HIDE DEF new, g
      <3>6. a.first <= new.seen
        BY <3>2, <3>5
      <3> QED
        BY <2>1, <3>2, <3>3, <3>4, <3>5, <3>6
    <2>2. CASE /\ G[g] # NoGap
               /\ a = Incremented(G[g], Proposal(o))
               /\ AggregateIsValid(a)
      <3>1. G[g] \in Aggregates
        BY <1>1, <2>2 DEF TablesTyped
      <3>2. a.count = G[g].count + 1 /\ a.first = G[g].first /\ a.last = o.seen
        BY <2>2, <3>1, ProposalTyped DEF Incremented, Aggregates
      <3>3. a.first <= o.seen
        BY <1>1, <2>2, <3>1, <3>2 DEF AggregateIsValid, Aggregates
      <3>4. /\ G[g].count = Cardinality(ReportsOf(R, g))
            /\ \E r \in ReportsOf(R, g) : r.seen = G[g].first
            /\ \A r \in ReportsOf(R, g) : G[g].first <= r.seen
        BY <1>1, <2>2 DEF Tallies
      <3>5. /\ new \in ReportsOf(S, g)
            /\ \A r \in ReportsOf(S, g) : r \in ReportsOf(R, g) \/ r = new
            /\ \A r \in ReportsOf(R, g) : r \in ReportsOf(S, g)
        BY <1>5
      <3>6. G[g].count \in Nat /\ a.count = Cardinality(ReportsOf(S, g))
        BY <1>6, <3>1, <3>2, <3>4 DEF Aggregates
      <3>7. G[g].count <= a.count
        BY <3>2, <3>6
      <3> HIDE DEF new
      <3> QED
        BY <1>2, <3>2, <3>3, <3>4, <3>5, <3>6, <3>7
    <2> QED
      BY <2>1, <2>2
  <1>9. Tallies(H, S)
    <2> SUFFICES ASSUME NEW h \in GapKeys
                 PROVE  IF H[h] = NoGap THEN ReportsOf(S, h) = {}
                        ELSE /\ H[h].count = Cardinality(ReportsOf(S, h))
                             /\ \E r \in ReportsOf(S, h) : r.seen = H[h].first
                             /\ \A r \in ReportsOf(S, h) : H[h].first <= r.seen
                             /\ \E r \in ReportsOf(S, h) : r.seen = H[h].last
      BY DEF Tallies
    <2>1. CASE h = g
      BY <1>3, <1>7, <1>8, <2>1
    <2>2. CASE h # g
      <3>1. H[h] = G[h] /\ ReportsOf(S, h) = ReportsOf(R, h)
        BY <1>5, <1>7, <2>2
      <3> QED
        BY <3>1 DEF Tallies
    <2> QED
      BY <2>1, <2>2
  <1>10. TablesGrow(G, R, H, S)
    <2>1. \A h \in GapKeys \ {g} : G[h] # NoGap => G[h].count <= H[h].count
      BY <1>7, NoGapAssumption DEF TablesTyped, Aggregates
    <2> QED
      BY <1>3, <1>7, <1>8, <2>1 DEF TablesGrow
  <1> QED
    BY <1>4, <1>9, <1>10

(* create_or_increment: the tables it leaves, and that its answer is true  *)
(* of them; it answers RECORDED only for a report that was not there.      *)
LEMMA CreateOrIncrement ==
  ASSUME TablesTyped(gaps, reports), Tallies(gaps, reports),
         NEW o \in Observations,
         NEW done, done = create_or_increment(o)
  PROVE  /\ TablesTyped(done.gaps, done.reports) /\ Tallies(done.gaps, done.reports)
         /\ TablesGrow(gaps, reports, done.gaps, done.reports)
         /\ AnswerFits(done.gaps, done.reports, o, done.answer)
         /\ done.answer.status = "recorded" =>
               /\ ~ \E r \in reports : r.id = report_id_for(o)
               /\ \E r \in done.reports : r.id = report_id_for(o)
  <1> DEFINE g == Dimensions(o)
             new == [id |-> report_id_for(o), gap |-> g, seen |-> o.seen]
             found == \E r \in reports : r.id = report_id_for(o)
             Kept == done.gaps = gaps /\ done.reports = reports
             Wrote(a) == /\ done.gaps = [gaps EXCEPT ![g] = a]
                         /\ done.reports = reports \cup {new}
                         /\ done.answer = [status |-> "recorded", count |-> a.count]
  <1>1. \/ found /\ Kept /\ done.answer = [status |-> "deduplicated", count |-> gaps[g].count]
        \/ Kept /\ done.answer.status = "refused"
        \/ ~found /\ gaps[g] = NoGap /\ Wrote(Proposal(o))
        \/ /\ ~found /\ gaps[g] # NoGap
           /\ AggregateIsValid(Incremented(gaps[g], Proposal(o)))
           /\ Wrote(Incremented(gaps[g], Proposal(o)))
    BY DEF create_or_increment, Result, Refused
  <1>2. g \in GapKeys /\ gaps[g] \in Aggregates \cup {NoGap}
    BY ProposalTyped DEF TablesTyped
  <1>3. TablesGrow(gaps, reports, gaps, reports)
    BY DEF TablesGrow, TablesTyped, Aggregates
  <1>4. CASE found /\ Kept /\ done.answer = [status |-> "deduplicated", count |-> gaps[g].count]
    <2>1. ReportsOf(reports, g) # {}
      BY <1>4 DEF TablesTyped, ReportsOf, report_id_for
    <2>2. gaps[g] # NoGap
      BY <1>2, <2>1 DEF Tallies
    <2>3. gaps[g].count \in Nat
      BY <1>2, <2>2 DEF Aggregates
    <2> QED
      BY <1>3, <1>4, <2>2, <2>3 DEF AnswerFits
  <1>5. CASE Kept /\ done.answer.status = "refused"
    BY <1>3, <1>5 DEF AnswerFits
  <1>6. ASSUME NEW a \in Aggregates, ~found, Wrote(a),
               TablesTyped(done.gaps, done.reports), Tallies(done.gaps, done.reports),
               TablesGrow(gaps, reports, done.gaps, done.reports)
        PROVE  AnswerFits(done.gaps, done.reports, o, done.answer)
    <2>1. new \in done.reports /\ new.id = report_id_for(o)
      BY <1>6
    <2>2. done.gaps[g] = a /\ a # NoGap
      BY <1>2, <1>6, NoGapAssumption DEF TablesTyped
    <2>3. a.count \in Nat
      BY <1>6 DEF Aggregates
    <2>4. done.answer.count = a.count
      BY <1>6
    <2>5. \E r \in done.reports : r.id = report_id_for(o)
      BY <2>1
    <2>6. a.count <= a.count
      BY <2>3
    <2> HIDE DEF Wrote, new
    <2> QED
      BY <2>2, <2>3, <2>4, <2>5, <2>6 DEF AnswerFits
  <1>7. CASE ~found /\ gaps[g] = NoGap /\ Wrote(Proposal(o))
    <2>1. Proposal(o) \in Aggregates
      BY ProposalTyped
    <2>2. /\ TablesTyped(done.gaps, done.reports) /\ Tallies(done.gaps, done.reports)
          /\ TablesGrow(gaps, reports, done.gaps, done.reports)
      BY <1>7, <2>1, CountOne
    <2>3. AnswerFits(done.gaps, done.reports, o, done.answer)
      BY <1>6, <1>7, <2>1, <2>2
    <2>4. \E r \in done.reports : r.id = report_id_for(o)
      <3>1. new \in done.reports /\ new.id = report_id_for(o)
        BY <1>7
      <3> QED
        BY <3>1
    <2>5. ~found
      BY <1>7
    <2> QED
      BY <2>2, <2>3, <2>4, <2>5
  <1>8. CASE /\ ~found /\ gaps[g] # NoGap
             /\ AggregateIsValid(Incremented(gaps[g], Proposal(o)))
             /\ Wrote(Incremented(gaps[g], Proposal(o)))
    <2> DEFINE row == gaps[g]
    <2>1. Incremented(row, Proposal(o)) \in Aggregates
      <3>1. row \in Aggregates /\ o.seen \in Int /\ Proposal(o).last = o.seen
        BY <1>2, <1>8, ProposalTyped, ObservationsAssumption
      <3> HIDE DEF row
      <3>2. Incremented(row, Proposal(o)) = [row EXCEPT !.last = o.seen, !.count = @ + 1]
        BY <3>1 DEF Incremented
      <3> DEFINE V == {"verified", "unverified"}
                 I == {q.impact : q \in Observations}
      <3>3. Aggregates = [verification : V, impact : I, first : Int, last : Int, count : Nat]
        BY DEF Aggregates
      <3> HIDE DEF V, I
      <3>4. [row EXCEPT !.last = o.seen, !.count = @ + 1] \in Aggregates
        <4>1. row \in [verification : V, impact : I, first : Int, last : Int, count : Nat]
          BY <3>1, <3>3
        <4>2. row.count + 1 \in Nat
          BY <4>1
        <4>3. [row EXCEPT !.last = o.seen, !.count = @ + 1]
                \in [verification : V, impact : I, first : Int, last : Int, count : Nat]
          BY <3>1, <4>1, <4>2
        <4> QED
          BY <3>3, <4>3
      <3> QED
        BY <3>2, <3>4
    <2>2. /\ TablesTyped(done.gaps, done.reports) /\ Tallies(done.gaps, done.reports)
          /\ TablesGrow(gaps, reports, done.gaps, done.reports)
      BY <1>8, <2>1, CountOne
    <2>3. AnswerFits(done.gaps, done.reports, o, done.answer)
      BY <1>6, <1>8, <2>1, <2>2
    <2>4. \E r \in done.reports : r.id = report_id_for(o)
      <3>1. new \in done.reports /\ new.id = report_id_for(o)
        BY <1>8
      <3> QED
        BY <3>1
    <2>5. ~found
      BY <1>8
    <2> QED
      BY <2>2, <2>3, <2>4, <2>5
  <1> HIDE DEF new
  <1> QED
    BY <1>1, <1>4, <1>5, <1>7, <1>8

(* What a reporter was answered stays true when the tables grow.           *)
LEMMA AnswersStay ==
  ASSUME NEW G, NEW R, NEW H, NEW S, TablesTyped(G, R), TablesTyped(H, S),
         TablesGrow(G, R, H, S),
         NEW o \in Observations, NEW answer, AnswerFits(G, R, o, answer)
  PROVE  AnswerFits(H, S, o, answer)
  <1> SUFFICES ASSUME answer.status \in {"recorded", "deduplicated"}
               PROVE  /\ \E r \in S : r.id = report_id_for(o)
                      /\ H[Dimensions(o)] # NoGap
                      /\ answer.count \in Nat
                      /\ answer.count <= H[Dimensions(o)].count
    BY DEF AnswerFits
  <1>1. Dimensions(o) \in GapKeys
    BY ProposalTyped
  <1>2. /\ \E r \in R : r.id = report_id_for(o)
        /\ G[Dimensions(o)] # NoGap
        /\ answer.count \in Nat
        /\ answer.count <= G[Dimensions(o)].count
    BY DEF AnswerFits
  <1>3. H[Dimensions(o)] # NoGap /\ G[Dimensions(o)].count <= H[Dimensions(o)].count
    BY <1>1, <1>2 DEF TablesGrow
  <1>4. G[Dimensions(o)].count \in Nat /\ H[Dimensions(o)].count \in Nat
    BY <1>1, <1>2, <1>3 DEF TablesTyped, Aggregates
  <1> QED
    BY <1>2, <1>3, <1>4 DEF TablesGrow

(* A step that moves one reporter and leaves the tables alone.             *)
LEMMA ReporterMoves ==
  ASSUME GapInv, NEW p \in Reporters, NEW record, Moves(p, record),
         UNCHANGED <<gaps, reports, told>>,
         record.at \in {"write", "reply"} => record.observation \in Observations,
         record.at = "reply" => AnswerFits(gaps, reports, record.observation, record.answer)
  PROVE  GapInv'
  <1>1. /\ reporter' = [q \in Reporters |-> reporter'[q]]
        /\ reporter'[p] = record
        /\ \A q \in Reporters \ {p} : reporter'[q] = reporter[q]
    BY DEF Moves, GapInv, ReportersFit
  <1>2. ReportersFit'
    <2> SUFFICES ASSUME NEW q \in Reporters
                 PROVE  /\ reporter'[q].at \in {"write", "reply"}
                               => reporter'[q].observation \in Observations
                        /\ reporter'[q].at = "reply" =>
                               AnswerFits(gaps, reports, reporter'[q].observation,
                                          reporter'[q].answer)
      BY <1>1 DEF ReportersFit
    <2>1. CASE q = p
      BY <1>1, <2>1
    <2>2. CASE q # p
      BY <1>1, <2>2 DEF GapInv, ReportersFit
    <2> QED
      BY <2>1, <2>2
  <1> QED
    BY <1>2 DEF GapInv

(* The transaction keeps the invariant.                                    *)
LEMMA WriteKeeps ==
  ASSUME GapInv, NEW p \in Reporters, WriteReport(p)
  PROVE  GapInv'
  <1> DEFINE o == reporter[p].observation
             done == create_or_increment(o)
  <1>1. /\ o \in Observations
        /\ gaps' = done.gaps /\ reports' = done.reports
        /\ told' = IF done.answer.status = "recorded"
                   THEN [told EXCEPT ![Occurrence(o)] = @ + 1] ELSE told
        /\ Moves(p, [at |-> "reply", observation |-> o, answer |-> done.answer])
    BY DEF WriteReport, GapInv, ReportersFit
  <1>2. /\ TablesTyped(gaps', reports') /\ Tallies(gaps', reports')
        /\ TablesGrow(gaps, reports, gaps', reports')
        /\ AnswerFits(gaps', reports', o, done.answer)
        /\ done.answer.status = "recorded" =>
              /\ ~ \E r \in reports : r.id = report_id_for(o)
              /\ \E r \in reports' : r.id = report_id_for(o)
    BY <1>1, CreateOrIncrement DEF GapInv
  <1> HIDE DEF done
  <1>3. /\ reporter' = [q \in Reporters |-> reporter'[q]]
        /\ reporter'[p] = [at |-> "reply", observation |-> o, answer |-> done.answer]
        /\ \A q \in Reporters \ {p} : reporter'[q] = reporter[q]
    BY <1>1 DEF Moves, GapInv, ReportersFit
  <1>4. ReportersFit'
    <2> SUFFICES ASSUME NEW q \in Reporters
                 PROVE  /\ reporter'[q].at \in {"write", "reply"}
                               => reporter'[q].observation \in Observations
                        /\ reporter'[q].at = "reply" =>
                               AnswerFits(gaps', reports', reporter'[q].observation,
                                          reporter'[q].answer)
      BY <1>3 DEF ReportersFit
    <2>1. CASE q = p
      BY <1>1, <1>2, <1>3, <2>1
    <2>2. CASE q # p
      <3>1. reporter'[q] = reporter[q]
        BY <1>3, <2>2
      <3>2. reporter[q].at \in {"write", "reply"} => reporter[q].observation \in Observations
        BY DEF GapInv, ReportersFit
      <3>3. reporter[q].at = "reply" =>
                AnswerFits(gaps, reports, reporter[q].observation, reporter[q].answer)
        BY DEF GapInv, ReportersFit
      <3>4. TablesTyped(gaps, reports)
        BY DEF GapInv
      <3> QED
        BY <1>2, <3>1, <3>2, <3>3, <3>4, AnswersStay
    <2> QED
      BY <2>1, <2>2
  <1>5. ToldOnce(told', reports')
    <2>1. /\ told \in [{Occurrence(q) : q \in Observations} -> {0, 1}]
          /\ \A f \in DOMAIN told : told[f] = 1 => \E r \in reports : r.id = f
      BY DEF GapInv, ToldOnce
    <2>2. reports \subseteq reports'
      BY <1>2 DEF TablesGrow
    <2>3. CASE done.answer.status = "recorded"
      <3>1. told[Occurrence(o)] = 0
        BY <1>1, <1>2, <2>1, <2>3 DEF Occurrence, report_id_for
      <3>2. told' = [told EXCEPT ![Occurrence(o)] = 1]
        BY <1>1, <2>3, <3>1
      <3>3. \E r \in reports' : r.id = Occurrence(o)
        BY <1>2, <2>3 DEF Occurrence, report_id_for
      <3> QED
        BY <2>1, <2>2, <3>2, <3>3 DEF ToldOnce
    <2>4. CASE done.answer.status # "recorded"
      BY <1>1, <2>1, <2>2, <2>4 DEF ToldOnce
    <2> QED
      BY <2>3, <2>4
  <1> QED
    BY <1>2, <1>4, <1>5 DEF GapInv

(* The invariant holds initially, ...                                      *)
LEMMA GapStarts == GapInit => GapInv
  <1> SUFFICES ASSUME GapInit PROVE GapInv
    OBVIOUS
  <1>1. gaps = [g \in GapKeys |-> NoGap] /\ reports = {}
    BY DEF GapInit
  <1>2. TablesTyped(gaps, reports) /\ Tallies(gaps, reports)
    BY <1>1, FS_EmptySet DEF TablesTyped, Tallies, ReportsOf
  <1>3. ToldOnce(told, reports)
    BY DEF GapInit, ToldOnce
  <1>4. ReportersFit
    BY DEF GapInit, ReportersFit, Closed
  <1> QED
    BY <1>2, <1>3, <1>4 DEF GapInv

(* ... and every step keeps it.                                            *)
LEMMA GapKeeps == GapInv /\ [GapNext]_gapVars => GapInv'
  <1> SUFFICES ASSUME GapInv, [GapNext]_gapVars PROVE GapInv'
    OBVIOUS
  <1>1. ASSUME NEW p \in Reporters, OpenDatabase(p) PROVE GapInv'
    <2>1. PICK record : Moves(p, record) /\ record.at \in {"create", "schema"}
      BY <1>1 DEF OpenDatabase
    <2> QED
      BY <1>1, <2>1, ReporterMoves DEF OpenDatabase
  <1>2. ASSUME NEW p \in Reporters, CreateDatabase(p) PROVE GapInv'
    <2>1. PICK record : Moves(p, record) /\ record.at \in {"closed", "schema"}
      BY <1>2 DEF CreateDatabase, Closed
    <2> QED
      BY <1>2, <2>1, ReporterMoves DEF CreateDatabase
  <1>3. ASSUME NEW p \in Reporters, CreateSchema(p) PROVE GapInv'
    BY <1>3, ReporterMoves DEF CreateSchema
  <1>4. ASSUME NEW p \in Reporters, NEW o \in Observations, ReportGap(p, o) PROVE GapInv'
    BY <1>4, ReporterMoves DEF ReportGap
  <1>5. ASSUME NEW p \in Reporters, WriteReport(p) PROVE GapInv'
    BY <1>5, WriteKeeps
  <1>6. ASSUME NEW p \in Reporters, LockTimeout(p) PROVE GapInv'
    <2> DEFINE record == [at |-> "reply", observation |-> reporter[p].observation,
                          answer |-> Result("corrupt", 0)]
    <2>1. record.observation \in Observations
      BY <1>6 DEF LockTimeout, GapInv, ReportersFit
    <2>2. AnswerFits(gaps, reports, record.observation, record.answer)
      BY DEF AnswerFits, Result
    <2> QED
      BY <1>6, <2>1, <2>2, ReporterMoves DEF LockTimeout
  <1>7. ASSUME NEW p \in Reporters, Reply(p) PROVE GapInv'
    BY <1>7, ReporterMoves DEF Reply
  <1>8. ASSUME NEW p \in Reporters, ReporterCrash(p) PROVE GapInv'
    BY <1>8, ReporterMoves DEF ReporterCrash, Closed
  <1>9. CASE UNCHANGED gapVars
    BY <1>9 DEF gapVars, GapInv, ReportersFit
  <1> QED
    BY <1>1, <1>2, <1>3, <1>4, <1>5, <1>6, <1>7, <1>8, <1>9 DEF GapNext

(* The registry counts every report once, whatever reporters retry, crash  *)
(* or race for, and what it told them of a report stays true.              *)
THEOREM CountsHold == GapSpec => []CountsAreTrue
  <1>1. GapInv => CountsAreTrue
    <2> SUFFICES ASSUME GapInv PROVE CountsAreTrue
      OBVIOUS
    <2>1. GapsCountReports
      <3> SUFFICES ASSUME NEW g \in GapKeys
                   PROVE  IF gaps[g] = NoGap THEN ReportsOf(reports, g) = {}
                          ELSE /\ gaps[g].count = Cardinality(ReportsOf(reports, g))
                               /\ gaps[g].first = Min({r.seen : r \in ReportsOf(reports, g)})
                               /\ gaps[g].last \in {r.seen : r \in ReportsOf(reports, g)}
        BY DEF GapsCountReports, ReportsOf
      <3>1. CASE gaps[g] = NoGap
        BY <3>1 DEF GapInv, Tallies
      <3>2. CASE gaps[g] # NoGap
        <4> DEFINE times == {r.seen : r \in ReportsOf(reports, g)}
        <4>1. /\ gaps[g].count = Cardinality(ReportsOf(reports, g))
              /\ gaps[g].first \in times
              /\ \A t \in times : gaps[g].first <= t
              /\ gaps[g].last \in times
          BY <3>2 DEF GapInv, Tallies
        <4>2. times \subseteq Int
          BY DEF GapInv, TablesTyped, ReportsOf
        <4>3. Min(times) = gaps[g].first
          BY <4>1, <4>2 DEF Min
        <4> QED
          BY <3>2, <4>1, <4>3
      <3> QED
        BY <3>1, <3>2
    <2>2. \A f \in DOMAIN told : told[f] <= 1
      BY DEF GapInv, ToldOnce
    <2> QED
      BY <2>1, <2>2 DEF CountsAreTrue, ReportsAreRecordedOnce, GapInv, ReportersFit, AnswerFits
  <1> QED
    BY <1>1, GapStarts, GapKeeps, PTL DEF GapSpec
=============================================================================

------------------------------ MODULE Materials ------------------------------
(***************************************************************************)
(* Processes that ingest texts, publish substrates, declare successions,   *)
(* rebuild and search the lexical index and capture host files, on one     *)
(* course.  The stream, the blob directory, the index database and the     *)
(* snapshot store are separate: a call reads and writes them in separate   *)
(* steps, other calls run in between, and a process may die at any step.   *)
(***************************************************************************)
EXTENDS SourceMaterials

CONSTANTS Clients,
          Sessions,       \* sessions that capture host files
          SizeOf,         \* bytes of a text
          max_snapshot_count, max_aggregate_bytes, ttl,
          MaxTime,        \* bound on the clock
          Starts          \* [ops, texts, log, events]: the operations and texts callers
                          \* use, the stream before, and a bound on its length

\* A stream to start from was written by the program.
Ops == {"ingest", "produce", "declare", "rebuild", "search", "capture", "lookup", "file_ingest"}
StartsAreWritten ==
    \A start \in Starts :
        /\ start.ops \subseteq Ops /\ start.texts \subseteq Texts
        /\ start.log \in Seq(Events)
        /\ Replayable(UNION {BlobsOf(e) : e \in ToSet(start.log)}, start.log)
        /\ IdentitiesAreNew(start.log)

ASSUME StartsAssumption == StartsAreWritten

\* The limits of HostFileRegistry are counts of files and bytes.
ASSUME LimitsAssumption ==
    /\ max_snapshot_count \in Nat /\ max_aggregate_bytes \in Nat
    /\ SizeOf \in [Texts -> Nat]

VARIABLES log,            \* the stream of the course
          blobs,          \* texts with a published object file
          index,          \* retrieval_documents with their FTS rows
          files,          \* host file snapshots by identity
          now,            \* the clock
          client,         \* client[c]: the call process c is in
          offered         \* the operations and texts of this behaviour, and its bound

vars == <<log, blobs, index, files, now, client, offered>>
stores == <<log, blobs, index, files, now, offered>>

\* A call before its first step, and a client between calls with its last answer.
Begun(pc, op, arg, expected, since) ==
    [pc |-> pc, op |-> op, arg |-> arg, expected |-> expected, sequence |-> 0,
     current |-> None, event |-> None, docs |-> {}, rows |-> {}, since |-> since,
     disturbed |-> FALSE]
Idle(answer) == Begun("idle", None, answer, None, 0)

Result(status, sequence) == [status |-> status, sequence |-> sequence]

Init == /\ \E start \in Starts :
              /\ offered = [ops |-> start.ops, texts |-> start.texts, events |-> start.events]
              /\ log = start.log
              /\ blobs = UNION {BlobsOf(e) : e \in ToSet(start.log)}
        /\ index = {} /\ now = 0
        /\ files = [id \in {} |-> None]
        /\ client = [c \in Clients |-> Idle(Result("none", 0))]

Becomes(c, k) == client' = [client EXCEPT ![c] = k]

\* A call returns; what it worked with is gone.
Return(c, status, sequence) == Becomes(c, Idle(Result(status, sequence)))

\* The answer to a writer; expected is kept as history of the call.
Answer(c, status, sequence) ==
    Becomes(c, Idle(IF client[c].op \in {"ingest", "file_ingest"}
                    THEN [status |-> status, sequence |-> sequence,
                          rev |-> client[c].arg, expected |-> client[c].expected]
                    ELSE Result(status, sequence)))

Goto(c, pc) == Becomes(c, [client[c] EXCEPT !.pc = pc])

-----------------------------------------------------------------------------
(* Calls.                                                                  *)

FileIds == [session : Sessions, text : Texts]

\* The first step of a call, and its arguments.
First == [ingest |-> "ingest", produce |-> "produce", declare |-> "declare",
          rebuild |-> "documents", search |-> "audit",
          capture |-> "capture", lookup |-> "lookup", file_ingest |-> "verified"]

Arguments(op) ==
    LET named == UNION {ToSet(Project(log).history[x]) : x \in Sources}
        captured == [session : Sessions, text : offered.texts]
    IN CASE op = "ingest" -> [source : Sources, text : offered.texts, title : Titles]
         [] op = "produce" -> [source : Sources, original : offered.texts,
                               substrate : offered.texts, converter : Converters]
         [] op = "declare" -> {x \in named \X named : x[1] # x[2]}
         [] op \in {"rebuild", "search"} -> {None}
         [] op = "capture" -> captured
         [] op = "lookup" -> [file : captured, by : Sessions]
         [] op = "file_ingest" -> [file : captured, by : Sessions, source : Sources, title : Titles]

\* A caller may state the sequence it read; the tools and hosts that give none
\* leave it None.
Expectations(op) == IF op \in {"ingest", "produce", "file_ingest"}
                    THEN {None, Len(log)} ELSE {None}

call(c) ==
    /\ client[c].pc = "idle"
    /\ \E op \in offered.ops : \E arg \in Arguments(op), expected \in Expectations(op) :
          Becomes(c, Begun(First[op], op, arg, expected,
                           IF op \in {"rebuild", "search"} THEN Len(log) ELSE 0))
    /\ UNCHANGED stores

-----------------------------------------------------------------------------
(* TextIngestionService.ingest                                             *)

\* One read of the stream decides whether the request is current, is an
\* earlier revision, or is new.
ingest(c) ==
    LET k == client[c]
        current == _current_revision(log, k.arg.source)
        at(pc, e) == [k EXCEPT !.pc = pc, !.sequence = Len(log), !.event = e,
                               !.current = current]
    IN /\ k.pc = "ingest"
       /\ \/ /\ k.expected \notin {None, Len(log)}
             /\ Return(c, "retry", Len(log))
          \/ /\ k.expected \in {None, Len(log)}
             /\ ~HasContent(k.arg.text)
             /\ Return(c, "invalid", Len(log))
          \/ /\ k.expected \in {None, Len(log)}
             /\ HasContent(k.arg.text)
             /\ CASE current = k.arg /\ k.expected = None ->
                       Answer(c, "idempotent", Len(log))
                  [] current = k.arg /\ k.expected # None ->
                       Becomes(c, at("unchanged", None))
                  [] current # k.arg /\ _find_matching_revision(log, k.arg) ->
                       Becomes(c, at("append", Selected(k.arg)))
                  [] OTHER ->
                       Becomes(c, at("original", Ingested(k.arg)))
       /\ UNCHANGED stores

\* An idempotent answer under a stated sequence reads the stream once more.
unchanged(c) ==
    LET k == client[c] IN
    /\ k.pc = "unchanged"
    /\ IF Len(log) # k.expected THEN Return(c, "retry", Len(log))
       ELSE Answer(c, "idempotent", k.sequence)
    /\ UNCHANGED stores

\* _write_expected_blob, twice: the original and the normalized bytes, each
\* unless the current revision of the source names the same blob.
_write_expected_blob(c) ==
    LET k == client[c]
        held == IF k.current = None THEN {} ELSE {k.current.text}
    IN /\ k.pc \in {"original", "normalized"}
       /\ blobs' = put(blobs, IF k.pc = "original" THEN {k.arg.text} \ held
                              ELSE {NormalOf[k.arg.text]} \ {NormalOf[t] : t \in held})
       /\ Goto(c, IF k.pc = "original" THEN "normalized" ELSE "append")
       /\ UNCHANGED <<log, index, files, now, offered>>

-----------------------------------------------------------------------------
(* SubstrateProductionService.produce                                      *)

produce(c) ==
    LET k == client[c] IN
    /\ k.pc = "produce"
    /\ IF \/ k.expected \notin {None, Len(log)}
          \/ ~get(blobs, {k.arg.original})
          \/ NormalOf[k.arg.substrate] # k.arg.substrate
       THEN Return(c, "failed", Len(log))
       ELSE Becomes(c, [k EXCEPT !.pc = "substrate", !.sequence = Len(log)])
    /\ UNCHANGED stores

put_substrate(c) ==
    /\ client[c].pc = "substrate"
    /\ blobs' = put(blobs, {client[c].arg.substrate})
    /\ Goto(c, "find")
    /\ UNCHANGED <<log, index, files, now, offered>>

\* With a stated sequence the stream is read again; without one the production
\* is looked up in the stream read at the start.
find_production(c) ==
    LET k == client[c]
        stream == IF k.expected = None THEN SubSeq(log, 1, k.sequence) ELSE log
    IN /\ k.pc = "find"
       /\ CASE k.expected \notin {None, Len(log)} -> Return(c, "failed", Len(log))
            [] k.expected \in {None, Len(log)} /\ _find_production(stream, k.arg) ->
                 Return(c, "idempotent", Len(stream))
            [] OTHER -> Becomes(c, [k EXCEPT !.pc = "append", !.event = Produced(k.arg)])
       /\ UNCHANGED stores

-----------------------------------------------------------------------------
(* The append of all writers, and what they do when they lose the race.    *)

\* A service that declares a succession reads the sequence and appends.
declare(c) ==
    LET k == client[c] IN
    /\ k.pc = "declare"
    /\ Becomes(c, [k EXCEPT !.pc = "append", !.sequence = Len(log),
                            !.event = Succeeded(k.arg[1], k.arg[2])])
    /\ UNCHANGED stores

append(c) ==
    LET k == client[c]
        valid == /\ Decodable(blobs, k.event) /\ IdentityIsNew(log, k.event)
                 /\ Reducible(Project(log), k.event)
    IN /\ k.pc = "append"
       /\ \/ /\ Len(log) # k.sequence
             /\ Goto(c, "reread")
             /\ UNCHANGED log
          \/ /\ Len(log) = k.sequence /\ ~valid
             /\ Return(c, "rejected", Len(log))
             /\ UNCHANGED log
          \/ /\ Len(log) = k.sequence /\ valid /\ Len(log) < offered.events
             /\ log' = Append(log, k.event)
             /\ Answer(c, "emitted", k.sequence + 1)
       /\ UNCHANGED <<blobs, index, files, now, offered>>

\* Fault: a lost race is answered as idempotent when the revision is anywhere
\* in the history.
RereadHistory(c) ==
    LET k == client[c] IN
    /\ k.pc = "reread"
    /\ IF k.expected = None /\ k.op = "ingest" /\ _find_matching_revision(log, k.arg)
       THEN Answer(c, "idempotent", Len(log))
       ELSE Return(c, "retry", Len(log))
    /\ UNCHANGED stores

\* After EventSequenceConflictError: idempotent if the request is current now.
reread(c) ==
    LET k == client[c] IN
    /\ k.pc = "reread"
    /\ IF /\ k.expected = None
          /\ \/ k.op \in {"ingest", "file_ingest"}
                /\ _current_revision(log, k.arg.source) = k.arg
             \/ k.op = "produce" /\ _find_production(log, k.arg)
       THEN Answer(c, "idempotent", Len(log))
       ELSE Return(c, "retry", Len(log))
    /\ UNCHANGED stores

-----------------------------------------------------------------------------
(* SQLiteFtsRetrieval: rebuild from the catalog, audit, search.            *)

\* RetrievalIndexIntegrityError or ValueError; since and disturbed are history.
Fail(c) == Becomes(c, Idle([status |-> "failed", sequence |-> client[c].since,
                            op |-> client[c].op, disturbed |-> client[c].disturbed]))

\* LocalRepository.rebuild_retrieval reads the catalog, rebuild compares it
\* with the catalog read again.
read_documents(c) ==
    /\ client[c].pc = "documents"
    /\ Becomes(c, [client[c] EXCEPT !.pc = "validate", !.docs = documents(log)])
    /\ UNCHANGED stores

validate_batch(c) ==
    /\ client[c].pc = "validate"
    /\ IF documents(log) = client[c].docs THEN Goto(c, "write") ELSE Fail(c)
    /\ UNCHANGED stores

\* One transaction deletes and writes both tables.
write_batch(c) ==
    /\ client[c].pc = "write"
    /\ index' = client[c].docs
    /\ client' = [d \in Clients |->
                     IF d = c THEN [client[c] EXCEPT !.pc = "audit"]
                     ELSE [client[d] EXCEPT !.disturbed = @ \/ client[d].op \in {"rebuild", "search"}]]
    /\ UNCHANGED <<log, blobs, files, now, offered>>

\* _audit_integrity: the catalog, then the metadata rows, then the FTS rows.
audit_catalog(c) ==
    /\ client[c].pc = "audit"
    /\ Becomes(c, [client[c] EXCEPT !.pc = "metadata", !.docs = documents(log)])
    /\ UNCHANGED stores

audit_metadata(c) ==
    LET k == client[c] IN
    /\ k.pc = "metadata"
    /\ IF index # k.docs
       THEN Fail(c)
       ELSE Becomes(c, [k EXCEPT !.pc = "fts", !.disturbed = @ /\ k.op = "rebuild"])
    /\ UNCHANGED stores

audit_fts(c) ==
    LET k == client[c] IN
    /\ k.pc = "fts"
    /\ IF {d.rev : d \in index} # {d.rev : d \in k.docs}
       THEN Fail(c)
       ELSE Goto(c, IF k.op = "rebuild" THEN "version" ELSE "query")
    /\ UNCHANGED stores

\* The receipt pairs the version of the rows read now with the audited catalog.
current_index_version(c) ==
    LET k == client[c] IN
    /\ k.pc = "version"
    /\ Becomes(c, Idle([status |-> "indexed", sequence |-> k.since, index_version |-> index,
                        catalog |-> k.docs, disturbed |-> k.disturbed]))
    /\ UNCHANGED stores

\* Fault: the filter on current revisions is left out.
QueryEverything(c) ==
    /\ client[c].pc = "query"
    /\ Becomes(c, [client[c] EXCEPT !.pc = "resolve", !.rows = {d.rev : d \in index}])
    /\ UNCHANGED stores

\* The default search: rows of current revisions.
query(c) ==
    /\ client[c].pc = "query"
    /\ Becomes(c, [client[c] EXCEPT !.pc = "resolve",
                        !.rows = {d.rev : d \in {x \in index : x.is_current}}])
    /\ UNCHANGED stores

\* _resolve_row: each row is resolved in the canonical content of its course.
resolve(c) ==
    LET k == client[c] IN
    /\ k.pc = "resolve"
    /\ IF k.rows \subseteq {d.rev : d \in documents(log)}
       THEN Becomes(c, Idle([status |-> "evidence", sequence |-> k.since, rows |-> k.rows,
                             disturbed |-> k.disturbed]))
       ELSE Fail(c)
    /\ UNCHANGED stores

-----------------------------------------------------------------------------
(* HostFileRegistry and the snapshot store.                                *)

\* Every stored byte counts once.
Bytes(fs) == Cardinality(UNION {{id} \X (1 .. SizeOf[id.text]) : id \in DOMAIN fs})

WithinLimits(size) == /\ Cardinality(DOMAIN files) < max_snapshot_count
                      /\ Bytes(files) + size <= max_aggregate_bytes

\* A stored snapshot: its bytes and owner are its identity.
HostFileSnapshot(at) == [captured_at |-> at, expires_at |-> at + ttl]

Expired(id) == now >= files[id].expires_at

\* capture: the source is read, its identity issued, the stored snapshot and
\* the usage are looked up.
capture(c) ==
    LET id == client[c].arg IN
    /\ client[c].pc = "capture"
    /\ IF id \in DOMAIN files
       THEN Return(c, IF Expired(id) THEN "expired" ELSE "captured", 0)
       ELSE IF WithinLimits(SizeOf[id.text])
       THEN Becomes(c, [client[c] EXCEPT !.pc = "create", !.sequence = now])
       ELSE Return(c, "limit", 0)
    /\ UNCHANGED stores

\* create, under the store's lock: the same bytes are there, other bytes
\* (another capture time) are there, a limit is reached, or the snapshot is added.
create(c) ==
    LET id == client[c].arg IN
    /\ client[c].pc = "create"
    /\ CASE id \in DOMAIN files ->
              /\ Return(c, IF files[id].captured_at = client[c].sequence THEN "captured" ELSE "collision", 0)
              /\ UNCHANGED files
         [] id \notin DOMAIN files /\ ~WithinLimits(SizeOf[id.text]) ->
              Return(c, "limit", 0) /\ UNCHANGED files
         [] OTHER -> /\ files' = [x \in DOMAIN files \union {id} |->
                             IF x = id THEN HostFileSnapshot(client[c].sequence) ELSE files[x]]
                     /\ Return(c, "captured", 0)
    /\ UNCHANGED <<log, blobs, index, now, offered>>

\* The reference a caller presents names the file, its session and checksum.
_verified(arg) == /\ arg.file \in DOMAIN files
                  /\ arg.file.session = arg.by
                  /\ ~Expired(arg.file)

lookup(c) ==
    /\ client[c].pc = "lookup"
    /\ Return(c, IF _verified(client[c].arg) THEN "content" ELSE "refused", 0)
    /\ UNCHANGED stores

\* ingest: the snapshot is verified, its bytes go to ingestion.ingest.
ingest_file(c) ==
    LET k == client[c] IN
    /\ k.pc = "verified"
    /\ IF ~_verified(k.arg) THEN Return(c, "refused", 0)
       ELSE Becomes(c, [k EXCEPT !.pc = "ingest", !.arg =
                [source |-> k.arg.source, text |-> k.arg.file.text, title |-> k.arg.title]])
    /\ UNCHANGED stores

tick == /\ now < MaxTime
        /\ offered.ops \cap {"capture", "file_ingest", "lookup"} # {}
        /\ now' = now + 1
        /\ UNCHANGED <<log, blobs, index, files, client, offered>>

-----------------------------------------------------------------------------
\* The process dies: published objects and committed events stay.
crash(c) ==
    /\ client[c].pc # "idle"
    /\ Return(c, "none", 0)
    /\ UNCHANGED stores

Step(c) == \/ call(c) \/ ingest(c) \/ unchanged(c) \/ _write_expected_blob(c)
           \/ produce(c) \/ put_substrate(c) \/ find_production(c) \/ declare(c)
           \/ append(c) \/ reread(c)
           \/ read_documents(c) \/ validate_batch(c) \/ write_batch(c) \/ audit_catalog(c)
           \/ audit_metadata(c) \/ audit_fts(c) \/ current_index_version(c)
           \/ query(c) \/ resolve(c)
           \/ capture(c) \/ create(c) \/ lookup(c) \/ ingest_file(c) \/ crash(c)

Next == tick \/ \E c \in Clients : Step(c)

Spec == Init /\ [][Next]_vars
-----------------------------------------------------------------------------
(* Properties.                                                             *)

TypeOK ==
    /\ log \in Seq(Events)
    /\ blobs \subseteq Texts
    /\ index \subseteq [rev : Revisions, is_current : BOOLEAN]
    /\ DOMAIN files \subseteq FileIds /\ \A id \in DOMAIN files : files[id].captured_at \in 0 .. now
    /\ \A c \in Clients : client[c].op \in offered.ops \union {None}

\* Every committed event can be replayed: the blobs it names are published,
\* whatever calls raced, failed or died between writing blobs and appending
\* (a revision is written without the blobs its predecessor already holds).
CommittedIsReplayable == Replayable(blobs, log)

\* Three readers of the stream agree on the current revision of each source:
\* the reducers, the ingestion service and the content catalog; default
\* retrieval eligibility is exactly that revision.
ReadersAgree ==
    LET P == Project(log) IN
    \A s \in Sources :
        /\ P.current[s] = _current_revision(log, s)
        /\ P.current[s] = _decode(log).current[s]
        /\ eligible_revision_ids(P, s) = {P.current[s]} \ {None}

\* Declared successions form a forest over existing revisions, in any order
\* of declarations by several services.
SuccessionsAreForest == ForestOf(Project(log))

\* The stored snapshots stay within the count and byte limits although each
\* capture reads the usage before it creates.
FilesWithinLimits == /\ Cardinality(DOMAIN files) <= max_snapshot_count
                     /\ Bytes(files) <= max_aggregate_bytes

\* The stream, its blobs and the host files stay sound whatever calls race, fail
\* or die between their writes.
SourcesAreSound ==
    TypeOK /\ CommittedIsReplayable /\ ReadersAgree /\ SuccessionsAreForest /\ FilesWithinLimits

\* An answer a caller got is true of the stream: at the sequence it states the
\* requested revision is the current one, and with a stated sequence nothing
\* else was appended in between.
Answered(c) == client[c].pc # "idle" /\ client'[c].pc = "idle"
IngestAnswersAreTrue ==
    [][\A c \in Clients :
          LET a == client'[c].arg IN
          Answered(c) /\ a.status \in {"emitted", "idempotent"} /\ "rev" \in DOMAIN a =>
             /\ _current_revision(SubSeq(log', 1, a.sequence), a.rev.source) = a.rev
             /\ a.expected # None =>
                   a.sequence = a.expected + (IF a.status = "emitted" THEN 1 ELSE 0)]_vars

\* The revisions current after the first n events.
CurrentAt(n) == {_decode(SubSeq(log, 1, n)).current[s] : s \in Sources} \ {None}

\* A search during which the index is not written, from its audit on, returns
\* exactly the revisions that were current at one moment of the search, and
\* whatever happens it returns committed revisions.
SearchIsExact ==
    [][\A c \in Clients :
          LET a == client'[c].arg IN
          Answered(c) /\ a.status = "evidence" =>
             /\ a.rows \subseteq _decode(log).seen
             /\ ~a.disturbed => \E n \in a.sequence .. Len(log) : a.rows = CurrentAt(n)]_vars

\* A rebuild fails only because the stream grew or another rebuild wrote the
\* index while it ran; otherwise its receipt pairs the catalog with its rows.
SoloRebuildSucceeds ==
    [][\A c \in Clients :
          LET a == client'[c].arg IN
          /\ Answered(c) /\ a.status = "failed" /\ "op" \in DOMAIN a /\ a.op = "rebuild" =>
                a.sequence < Len(log) \/ a.disturbed
          /\ Answered(c) /\ a.status = "indexed" /\ ~a.disturbed =>
                a.index_version = a.catalog]_vars

\* The lexical index, whichever process rebuilds or searches it.
IndexIsExact == SearchIsExact /\ SoloRebuildSucceeds
=============================================================================

-------------------------- MODULE ScopedRetrieval --------------------------
(***************************************************************************)
(* Scopes of a course (knowledge/scopes.py), the lexical surfaces derived  *)
(* from them (knowledge/lexical.py, adapters/sqlite/lexical_surfaces.py)   *)
(* and the evidence service that searches them (retrieval/evidence.py).    *)
(*                                                                         *)
(* Editors append scope events to the course, sources get new revisions,   *)
(* indexers replace the rows of a scope, and services that froze a catalog *)
(* when they were built search the live index.  Every process reads the    *)
(* course and the index at different moments.                              *)
(***************************************************************************)
EXTENDS EvidenceFusion

CONSTANTS
    Scopes, Sources, Procs,
    Policies,        \* scope policies: [version, aliases]; aliases : term -> set of terms
    Revisions,       \* Revisions[source] : the sequence of its revisions,
                     \* each a function from units to [text, handle, parent, ...]
    TermOrder(_, _), \* their order as strings
    TermCap,         \* LexicalPolicy.term_cap
    MaxReceipts,     \* _MAX_RECEIPTS
    FusePolicy,      \* the caller's FusionPolicy
    Requests,        \* what a process may be asked to do
    MaxAppends,       \* bound: events of the course
    MaxRetries,      \* bound: appends of one editor after a conflict
    None

ASSUME PolicyAssumption == PolicyIsValid(FusePolicy)

\* None is the absent scope, policy, version and process.
ASSUME NoneAssumption ==
    None \notin Scopes /\ None \notin Procs /\ \A q \in Policies : q.version # None

\* What a process may be asked for names a scope; an edit configures it or
\* moves one source.
EditKinds == {"configure", "add", "remove"}
ASSUME RequestsAssumption ==
    \A r \in Requests :
        /\ r.op \in {"edit", "index", "lookup", "search"} => r.scope \in Scopes
        /\ r.op = "edit" => r.kind \in EditKinds
        /\ r.op = "edit" /\ r.kind = "configure" => r.policy \in Policies

\* The units of a revision are finitely many; the unitizer gives all of them
\* one meta, so one class.
ASSUME RevisionsAssumption ==
    \A s \in Sources : Len(Revisions[s]) \in Nat /\ \A n \in 1 .. Len(Revisions[s]) :
        LET units == Revisions[s][n]
        IN /\ IsFiniteSet(DOMAIN units)
           /\ \A u, v \in DOMAIN units : units[u].class = units[v].class

VARIABLES
    course,   \* the projected course: [seq, revision, scopes, receipts]
    rows,     \* kb_lex_bindings and the three surfaces: scope -> set of bindings
    receipt,  \* kb_lex_receipts: scope -> the fingerprint of its catalog, or None
    proc,     \* the processes
    asked     \* how often each request may still be issued

scopeVars == <<course, rows, receipt, proc, asked>>

Surfaces == {"projection", "terms", "canonical"}

-----------------------------------------------------------------------------
(* Canonical state: units, scopes, the manifest. *)

UnitsOf(state, s) ==
    IF state.revision[s] = 0 THEN <<>> ELSE Revisions[s][state.revision[s]]

Known(state) == {s \in Sources : state.revision[s] > 0}

\* Whole-corpus selections name no scope.
WholeCorpus == None
SelectedSources(state, selection) ==
    IF selection = WholeCorpus THEN Known(state)
    ELSE IF state.scopes[selection] = None THEN {} ELSE state.scopes[selection].members

\* build_corpus_manifest: the units of the current revision of each selected
\* source.  Mixed classes, no member and an unknown scope are errors.
build_corpus_manifest(state, selection) ==
    LET selected == SelectedSources(state, selection)
        Classes(s) == {UnitsOf(state, s)[u].class : u \in DOMAIN UnitsOf(state, s)}
    IN IF \/ selection # WholeCorpus /\ selected = {}
          \/ \E s \in selected : Cardinality(Classes(s)) > 1
       THEN [status |-> "error"]
       ELSE [status |-> "ok",
             policy |-> IF selection = WholeCorpus THEN None ELSE state.scopes[selection].policy,
             counts |-> [s \in selected |-> Cardinality(DOMAIN UnitsOf(state, s))]]

\* scope_event_id_for binds the payload and the sequence of the event.
EventId(event, seq) == <<event.scope, event.kind, seq>>

_with_receipt(state, event, scopes) ==
    IF Cardinality(state.receipts) >= MaxReceipts THEN None
    ELSE [state EXCEPT !.seq = @ + 1, !.scopes = scopes,
                       !.receipts = @ \cup {EventId(event, state.seq + 1)}]

\* The editor's previous version is not compared.
ConfigureBlindly(state, event) ==
    IF state.scopes[event.scope] = None
    THEN _with_receipt(state, event, [state.scopes EXCEPT ![event.scope] =
                                         [policy |-> event.policy, members |-> {}]])
    ELSE IF event.policy.version = state.scopes[event.scope].policy.version THEN None
    ELSE _with_receipt(state, event, [state.scopes EXCEPT ![event.scope].policy = event.policy])

\* None: the reducer raises and the append is rolled back.
reduce_scope_configured(state, event) ==
    LET row == state.scopes[event.scope]
    IN IF row = None
       THEN IF event.previous # None THEN None
            ELSE _with_receipt(state, event,
                     [state.scopes EXCEPT ![event.scope] =
                         [policy |-> event.policy, members |-> {}]])
       ELSE IF \/ event.previous = None
               \/ event.previous # row.policy.version
               \/ event.policy.version = row.policy.version
            THEN None
            ELSE _with_receipt(state, event,
                     [state.scopes EXCEPT ![event.scope].policy = event.policy])

reduce_scope_membership(state, event) ==
    LET row == state.scopes[event.scope]
        Refused ==
            \/ row = None
            \/ event.source \notin Known(state)
            \/ event.kind = "add" /\ event.source \in row.members
            \/ event.kind = "remove" /\ event.source \notin row.members
    IN IF Refused THEN None
       ELSE _with_receipt(state, event,
                [state.scopes EXCEPT ![event.scope].members =
                    IF event.kind = "add" THEN @ \cup {event.source} ELSE @ \ {event.source}])

Reduce(state, event) ==
    IF event.kind = "configure" THEN reduce_scope_configured(state, event)
    ELSE reduce_scope_membership(state, event)

-----------------------------------------------------------------------------
(* The lexical projector: what a unit is indexed under depends on every    *)
(* unit of its scope, through the document frequencies, and on the aliases *)
(* of the scope's policy.                                                  *)

Corpus(state, scope) ==
    IF state.scopes[scope] = None THEN <<>>
    ELSE LET members == state.scopes[scope].members
             Ids == UNION {DOMAIN UnitsOf(state, s) : s \in members}
         IN [u \in Ids |-> UnitsOf(state, CHOOSE s \in members :
                                              u \in DOMAIN UnitsOf(state, s))[u]]

Occurrences(text, term) == Cardinality({i \in DOMAIN text : text[i] = term})

\* ln((N + 1) / (df + 1)) + 1 decreases with df: rarest first, then most
\* frequent in the unit, then by spelling.
key_terms(corpus, u) ==
    LET df(t) == Cardinality({v \in DOMAIN corpus : Occurrences(corpus[v].text, t) > 0})
        n(t) == Occurrences(corpus[u].text, t)
        Before(a, b) ==
            \/ df(a) < df(b)
            \/ df(a) = df(b) /\ n(a) > n(b)
            \/ df(a) = df(b) /\ n(a) = n(b) /\ TermOrder(a, b)
        ordered == SetToSortSeq(Range(corpus[u].text), Before)
    IN Range(SubSeq(ordered, 1, Min({TermCap, Len(ordered)})))

alias_terms(corpus, policy, u) ==
    UNION {policy.aliases[t] : t \in DOMAIN policy.aliases \cap Range(corpus[u].text)}

\* LexicalProjector.project: one projection per unit of the scope corpus.
LexicalProjectionBinding(corpus, policy, u) ==
    [unit |-> u, handle |-> corpus[u].handle,
     terms |-> key_terms(corpus, u) \cup alias_terms(corpus, policy, u),
     text |-> corpus[u].text, input |-> <<DOMAIN corpus, policy>>]

\* LexicalCatalogPort.bindings: the complete canonical scope.
Catalog(state, scope) ==
    LET corpus == Corpus(state, scope)
    IN {LexicalProjectionBinding(corpus, state.scopes[scope].policy, u) : u \in DOMAIN corpus}

_surface_text(binding, surface) ==
    CASE surface = "projection" -> binding.handle
      [] surface = "terms" -> SetToSeq(binding.terms)
      [] surface = "canonical" -> binding.text

\* search without its audits: the matching rows, most occurrences first.
Ranked(bindings, surface, term, limit) ==
    LET n(b) == Occurrences(_surface_text(b, surface), term)
        Before(a, b) == n(a) > n(b) \/ (n(a) = n(b) /\ IdOrder(a.unit, b.unit))
        matched == SetToSortSeq({b \in bindings : n(b) > 0}, Before)
        best == SubSeq(matched, 1, Min({limit, Len(matched)}))
    IN [i \in DOMAIN best |-> best[i].unit]

\* _audit_connection: the rows and the receipt are those of this catalog.
AuditPasses(scope, expected) == rows[scope] = expected /\ receipt[scope] = expected

-----------------------------------------------------------------------------
(* Processes. *)

Idle == [at |-> "idle"]
ScopesInit(start) ==
    /\ course = start.course
    /\ rows = [s \in Scopes |-> {}]
    /\ receipt = [s \in Scopes |-> None]
    /\ proc = [p \in Procs |-> Idle]
    /\ asked = start.asked

\* Anything another process changes ends the solitude of a running call.
Disturbed(p) ==
    [q \in Procs |-> IF q # p /\ proc[q].at \notin {"idle", "answered"}
                     THEN [proc[q] EXCEPT !.solo = FALSE] ELSE proc[q]]
Goes(p, record) == proc' = [proc EXCEPT ![p] = record]
GoesLoudly(p, record) == proc' = [Disturbed(p) EXCEPT ![p] = record]
AnsweredWith(p, result) ==
    [at |-> "answered", request |-> proc[p].request, result |-> result, solo |-> proc[p].solo]
Answered(p, status) == AnsweredWith(p, [status |-> status, groups |-> <<>>])

Call(p, r) ==
    /\ proc[p].at \in {"idle", "answered"}
    /\ asked[r] > 0
    /\ asked' = [asked EXCEPT ![r] = @ - 1]
    /\ UNCHANGED <<course, rows, receipt>>

\* An editor decides from the course it reads.
StartEdit(p, r) ==
    /\ r.op = "edit"
    /\ Call(p, r)
    /\ Goes(p, [at |-> "append", request |-> r, seq |-> course.seq, tries |-> 0, solo |-> TRUE,
                base |-> course.scopes[r.scope],
                event |-> [kind |-> r.kind, scope |-> r.scope, source |-> r.source,
                           policy |-> r.policy,
                           previous |-> IF course.scopes[r.scope] = None THEN None
                                        ELSE course.scopes[r.scope].policy.version]])

\* The store refuses another sequence; the editor may append the same
\* decision again at the sequence it then finds.
AppendConflict(p) ==
    /\ proc[p].at = "append"
    /\ proc[p].seq # course.seq
    /\ IF proc[p].tries < MaxRetries
       THEN Goes(p, [proc[p] EXCEPT !.seq = course.seq, !.tries = @ + 1])
       ELSE Goes(p, Answered(p, "conflict"))
    /\ UNCHANGED <<course, rows, receipt, asked>>

AppendScopeEvent(p) ==
    /\ proc[p].at = "append"
    /\ proc[p].seq = course.seq
    /\ course.seq < MaxAppends
    /\ LET next == Reduce(course, proc[p].event)
       IN IF next = None
          THEN /\ Goes(p, Answered(p, "refused"))
               /\ UNCHANGED course
          ELSE /\ course' = next
               /\ GoesLoudly(p, Answered(p, "appended"))
    /\ UNCHANGED <<rows, receipt, asked>>

\* Ingestion of a source's next revision, one event of the same course.
NewRevision(s) ==
    /\ course.seq < MaxAppends
    /\ course.revision[s] < Len(Revisions[s])
    /\ asked[[op |-> "ingest", source |-> s]] > 0
    /\ asked' = [asked EXCEPT ![[op |-> "ingest", source |-> s]] = @ - 1]
    /\ course' = [course EXCEPT !.seq = @ + 1, !.revision[s] = @ + 1]
    /\ proc' = Disturbed(None)
    /\ UNCHANGED <<rows, receipt>>

\* index resolves the batch before it opens its transaction: _resolve_bindings
\* reads the catalog twice, unless its first look found it empty.
StartIndex(p, r) ==
    /\ r.op = "index"
    /\ Call(p, r)
    /\ LET batch == Catalog(course, r.scope)
       IN Goes(p, [at |-> IF batch = {} THEN "write" ELSE "resolving", request |-> r,
                   solo |-> TRUE, batch |-> batch])

ConfirmBatch(p) ==
    /\ proc[p].at = "resolving"
    /\ IF proc[p].batch = Catalog(course, proc[p].request.scope)
       THEN Goes(p, [proc[p] EXCEPT !.at = "write"])
       ELSE Goes(p, Answered(p, "error"))
    /\ UNCHANGED <<course, rows, receipt, asked>>

\* BEGIN IMMEDIATE, delete the scope, insert the batch, its receipt, COMMIT.
WriteIndex(p) ==
    /\ proc[p].at = "write"
    /\ rows' = [rows EXCEPT ![proc[p].request.scope] = proc[p].batch]
    /\ receipt' = [receipt EXCEPT ![proc[p].request.scope] = proc[p].batch]
    /\ GoesLoudly(p, [proc[p] EXCEPT !.at = "check"])
    /\ UNCHANGED <<course, asked>>

\* audit resolves the batch again; an empty batch is not compared with the
\* catalog.
CheckBatch(p) ==
    /\ proc[p].at = "check"
    /\ IF proc[p].batch = {} \/ proc[p].batch = Catalog(course, proc[p].request.scope)
       THEN Goes(p, [proc[p] EXCEPT !.at = "audit"])
       ELSE Goes(p, Answered(p, "error"))
    /\ UNCHANGED <<course, rows, receipt, asked>>

AuditIndex(p) ==
    /\ proc[p].at = "audit"
    /\ Goes(p, Answered(p, IF AuditPasses(proc[p].request.scope, proc[p].batch)
                           THEN "indexed" ELSE "error"))
    /\ UNCHANGED <<course, rows, receipt, asked>>

\* A caller of the index searches any of its surfaces.
StartLookup(p, r) ==
    /\ r.op = "lookup"
    /\ Call(p, r)
    /\ Goes(p, [at |-> "resolve", request |-> r, solo |-> TRUE, frozen |-> <<>>])

\* EvidenceService searches the projection surface only.  It is built over the
\* bindings of that moment, of every scope: an EvidenceCatalog refuses to hold
\* none, a scope without any has no evidence.
StartService(p, r) ==
    /\ r.op = "search"
    /\ r.surface = "projection"
    /\ Call(p, r)
    /\ LET frozen == Corpus(course, r.scope)
           answer == IF \A s \in Scopes : Corpus(course, s) = <<>> THEN FusionError
                     ELSE Insufficient
       IN Goes(p, [at |-> IF frozen = <<>> THEN "answered" ELSE "resolve", request |-> r,
                   solo |-> TRUE, frozen |-> frozen, result |-> answer])

\* SQLiteLexicalSurfaces.search: the expected catalog, resolved like a batch, ...
ResolveExpected(p) ==
    /\ proc[p].at = "resolve"
    /\ LET expected == Catalog(course, proc[p].request.scope)
       IN Goes(p, [at |-> IF expected = {} THEN "query" ELSE "confirm",
                   request |-> proc[p].request, solo |-> proc[p].solo,
                   frozen |-> proc[p].frozen, expected |-> expected])
    /\ UNCHANGED <<course, rows, receipt, asked>>

ConfirmExpected(p) ==
    /\ proc[p].at = "confirm"
    /\ IF proc[p].expected = Catalog(course, proc[p].request.scope)
       THEN Goes(p, [proc[p] EXCEPT !.at = "query"])
       ELSE Goes(p, Answered(p, "error"))
    /\ UNCHANGED <<course, rows, receipt, asked>>

\* ... one read transaction that audits and queries the same snapshot, ...
QueryIndex(p) ==
    /\ proc[p].at = "query"
    /\ LET q == proc[p].request
       IN IF AuditPasses(q.scope, proc[p].expected)
          THEN Goes(p, [at |-> "verify", request |-> q, solo |-> proc[p].solo,
                        frozen |-> proc[p].frozen, expected |-> proc[p].expected,
                        found |-> Ranked(rows[q.scope], q.surface, q.term,
                                         FusePolicy.max_results)])
          ELSE Goes(p, Answered(p, "error"))
    /\ UNCHANGED <<course, rows, receipt, asked>>

\* What the search found is final.  `looked` is history: the units in scope at
\* this last look at the catalog.
Found(p) ==
    [at |-> "fuse", request |-> proc[p].request, solo |-> proc[p].solo,
     frozen |-> proc[p].frozen, found |-> proc[p].found,
     looked |-> DOMAIN Corpus(course, proc[p].request.scope)]

\* The catalog read after the query is not compared with the expected one.
TrustExpected(p, after) == TRUE

\* ... and the canonical catalog once more before the commit: resolved like a
\* batch, and then compared with the expected one.
StillCanonical(p, after) == after = proc[p].expected

VerifyCatalog(p) ==
    /\ proc[p].at = "verify"
    /\ LET after == Catalog(course, proc[p].request.scope)
       IN CASE after # {} ->
                  Goes(p, [at |-> "recheck", request |-> proc[p].request, solo |-> proc[p].solo,
                           frozen |-> proc[p].frozen, expected |-> proc[p].expected,
                           found |-> proc[p].found, after |-> after])
            [] after = {} /\ StillCanonical(p, after) -> Goes(p, Found(p))
            [] OTHER -> Goes(p, Answered(p, "error"))
    /\ UNCHANGED <<course, rows, receipt, asked>>

RecheckCatalog(p) ==
    /\ proc[p].at = "recheck"
    /\ IF /\ proc[p].after = Catalog(course, proc[p].request.scope)
          /\ StillCanonical(p, proc[p].after)
       THEN Goes(p, Found(p))
       ELSE Goes(p, Answered(p, "error"))
    /\ UNCHANGED <<course, rows, receipt, asked>>

\* RetrieverRegistry.search over the one registered retriever.
SearchBatch(p) == <<[retriever |-> "lex", units |-> proc[p].found]>>

\* An evidence row cites the primary unit and the attached context; the other
\* members of its ladder are not shown.
_row(group) ==
    [primary |-> group.primary, score |-> group.score, retrievers |-> group.retrievers,
     expansions |-> group.attachments]

\* EvidenceService.search: fuse the batch over the frozen units; a candidate
\* they do not hold is an error.
Rows(result) == [status |-> result.status,
                 groups |-> [n \in DOMAIN result.groups |-> _row(result.groups[n])]]
Packet(p) == Rows(fuse_candidates(SearchBatch(p), {"lex"}, proc[p].frozen, FusePolicy))

Listed == [status |-> "ready", groups |-> <<>>]

FuseFound(p) ==
    /\ proc[p].at = "fuse"
    /\ Goes(p, AnsweredWith(p, IF proc[p].request.op = "lookup" THEN Listed ELSE Packet(p)))
    /\ UNCHANGED <<course, rows, receipt, asked>>

ScopesNext ==
    \/ \E p \in Procs, r \in Requests : StartEdit(p, r)
    \/ \E p \in Procs, r \in Requests : StartIndex(p, r)
    \/ \E p \in Procs, r \in Requests : StartLookup(p, r)
    \/ \E p \in Procs, r \in Requests : StartService(p, r)
    \/ \E p \in Procs : AppendConflict(p)
    \/ \E p \in Procs : AppendScopeEvent(p)
    \/ \E s \in Sources : NewRevision(s)
    \/ \E p \in Procs : ConfirmBatch(p)
    \/ \E p \in Procs : WriteIndex(p)
    \/ \E p \in Procs : CheckBatch(p)
    \/ \E p \in Procs : AuditIndex(p)
    \/ \E p \in Procs : ResolveExpected(p)
    \/ \E p \in Procs : ConfirmExpected(p)
    \/ \E p \in Procs : QueryIndex(p)
    \/ \E p \in Procs : VerifyCatalog(p)
    \/ \E p \in Procs : RecheckCatalog(p)
    \/ \E p \in Procs : FuseFound(p)

ScopesSpec(start) == ScopesInit(start) /\ [][ScopesNext]_scopeVars

-----------------------------------------------------------------------------
(* Properties. *)

Evidence(groups) ==
    UNION {{groups[n].primary} \cup {a.unit : a \in groups[n].expansions} : n \in DOMAIN groups}

\* SQLiteLexicalSurfaces.search answers from no stale index and no stale
\* catalog: what a search keeps is what the scope's canonical catalog yields at
\* its last look, whatever indexers and editors did meanwhile.
SearchIsExact ==
    [][\A p \in Procs : proc[p].at # "fuse" /\ proc'[p].at = "fuse" =>
          LET q == proc[p].request
          IN proc'[p].found = Ranked(Catalog(course, q.scope), q.surface, q.term,
                                     FusePolicy.max_results)]_scopeVars

\* EvidenceService.search over its frozen catalog: every unit of a packet, the
\* attached context included, is a unit of a current revision of a source that
\* still was a member of the scope at the search's last look at the catalog.
EvidenceIsInScope ==
    [][\A p \in Procs :
          proc[p].at = "fuse" /\ proc'[p].at = "answered" /\ proc'[p].result.status = "ready" =>
             Evidence(proc'[p].result.groups) \subseteq proc[p].looked]_scopeVars

\* SQLiteLexicalSurfaces.index returns its receipt unless another process
\* changed the course or the index while it ran.
SoloIndexSucceeds ==
    \A p \in Procs :
        /\ proc[p].at = "answered"
        /\ proc[p].request.op = "index"
        /\ proc[p].result.status = "error"
        => ~proc[p].solo

\* The manifest's own reading of current revisions counts, source by source,
\* the units the lexical catalog holds, and a source counts in its scope what
\* it counts in the whole corpus (build_corpus_manifest, bindings).
ManifestCountsCatalog ==
    LET whole == build_corpus_manifest(course, WholeCorpus)
    IN \A scope \in Scopes :
          LET manifest == build_corpus_manifest(course, scope)
          IN manifest.status = "ok" =>
                \A s \in DOMAIN manifest.counts :
                    /\ manifest.counts[s] =
                          Cardinality({b \in Catalog(course, scope) :
                                          b.unit \in DOMAIN Revisions[s][course.revision[s]]})
                    /\ whole.status = "ok" /\ whole.counts[s] = manifest.counts[s]

\* The edit of an editor's call takes a scope from `was` to `now`: the first
\* configuration is one its editor decided on without seeing another; a later
\* one replaces the policy version its editor had read; both leave the members
\* alone.  A membership event leaves the policy alone and moves one source.
Edits(edit, was, now) ==
    LET event == edit.event
    IN \/ /\ event.kind = "configure"
          /\ was = None /\ edit.base = None
          /\ now = [policy |-> event.policy, members |-> {}]
       \/ /\ event.kind = "configure"
          /\ was # None /\ edit.base # None
          /\ edit.base.policy.version = was.policy.version
          /\ now = [policy |-> event.policy, members |-> was.members]
       \/ /\ event.kind = "add"
          /\ was # None /\ event.source \notin was.members
          /\ now = [policy |-> was.policy, members |-> was.members \cup {event.source}]
       \/ /\ event.kind = "remove"
          /\ was # None /\ event.source \in was.members
          /\ now = [policy |-> was.policy, members |-> was.members \ {event.source}]

\* Whatever editors, indexers and ingestion do, a scope only ever changes by one
\* editor's event, which that editor is told was appended, also when it was
\* appended again after a conflict; and it changes as that event says.
EditsCompose ==
    [][\A s \in Scopes : course'.scopes[s] # course.scopes[s] =>
          \E p \in Procs :
             /\ proc[p].at = "append" /\ proc'[p].at = "answered"
             /\ proc'[p].result.status = "appended"
             /\ proc[p].event.scope = s
             /\ Edits(proc[p], course.scopes[s], course'.scopes[s])]_scopeVars
=============================================================================

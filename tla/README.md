# Verification of study-agent-harness

TLA+ models of study-agent-harness (`src/study_agent`), the TLC runs that check
them on small instances, and TLAPS proofs of the core's main properties for every
instance. `PROJECT.json` lists components, runs, mutants, the map from definitions
to source lines, hazards, findings and theorems.

## 1. The system

study-agent-harness is a local tutoring runtime. Canonical study state is an
append-only event log per course in SQLite; everything a model or a tool does
runs inside *playbooks* whose progress is checkpointed in a run store; a *host*
drives a conversation and calls *capabilities* (explain, assess, propose
flashcards ...), each of which is one playbook run reached through a gateway.
Several operating-system processes (CLI commands, hosts, workers) share one
repository directory. Nothing locks it as a whole: safety rests on SQLite
transactions, on compare-and-set of expected sequences and expected rows, and on
identities derived from the request, so that a retry finds what it already did.

| component | state | operations | interacts with | what is hard | what makes it correct |
|---|---|---|---|---|---|
| event store | `events`, `projections` tables | append, read, projection, rebuild, verify | every service | two processes append; a reader migrates or compares between two statements | a stream only grows, an acknowledged append survives, a projection is the replay of its stream |
| projection state | state by reducer | reduce, replay, migrate | event store | rejected batch, legacy bytes | replay and incremental reduction agree |
| playbook engine, run store | `playbook_runs` rows | execute, resume, recover, inspect; create, compare-and-set | gateway, tools, models, validators | crash between effect and checkpoint, lost acknowledgement, two resumes | effects at most once and in order, one driver per run, every row loads again, results are durable |
| capability gateway | none (reads the rows) | start, resume | engine, dependency resolvers | retry after a lost reply, racing starts and answers, drift, upgrade | an outcome belongs to its caller's own request; verdicts agree; continuations never dangle |
| flashcard dispatcher | none | start, resume | gateway | two definitions under one run identity, two probes | each caller is told of the run that exists |
| tutor host runner | host file with turn and continuation records | run, retry | gateway, study state, tutor | interruption between gateway and record, state that moves, bounded loops | a shown dialogue is never lost, what is reported happened, calls end |
| generation workers | task rows | start, resume, detail | gateway, verifier | two processes claim an answer, crash between child run and row | an answer reaches the child as claimed, a completed row is proved |
| lesson workers | one checkpoint per lesson | plan, start, advance, review | generation workers | two coordinators, in-flight cap, dead drivers | the plan is exact, pages move forward, a lesson settles |
| sessions and turns, courses | events | create, start, note, turn, suspend, end, finalize, ask | event store, engine.recover | lookup, sequence check and append are separate; retries | each command recorded once, lifecycle rules hold in every stream |
| artifacts, assessments, study context | events | propose, revise, decide; present, attempt, grade, contest; record, retract, resolve | event store, verified runs | policies decide on an older snapshot; reducers repeat only part of the services' rules | one accepted revision per lineage, one active grade, answers true of the stream |
| ingestion, blob store, host files | events, content-addressed files, snapshots | ingest, produce, declare succession; capture, lookup | event store | crash between blob and event, a revision that becomes current again | no event without its blob, the answer names what is current |
| chunks, document tree, units | none (pure) | chunk, build tree, unitize, remap | ingestion, retrieval | skipped levels, colliding titles, text at the size limit | every character in its place, unique paths, exact parents |
| repository lifecycle | directory layout, lock, databases | init, plan, apply | file system, services | partial initialisation, changed plan, dead lock holder | initialisation is all or nothing, receipts are true, reconciliation converges |
| retrieval | FTS and lexical tables | index, audit, search, fuse | event store, catalog | index behind the stream, scopes edited while indexed | searches are exact or refused, fusion is faithful |
| knowledge scopes | events | create, update, membership | event store | two editors of one scope | edits compose, evidence stays in scope |
| capability gaps | registry database | report | host tools | lost acknowledgement, concurrent first report | every occurrence is counted once |

The hazards of these components, each at its line, are in `PROJECT.json`.

## 2. Plan

Done, in this order: the log and its store; the engine; the gateway over the
engine; course services as clients of the log (`StudySessions`, then
`StudyRecords`); workers over the gateway and lessons over the workers; the tutor
host; storage (`Materials`, `RepositoryLifecycle`); retrieval, scopes, the gap
registry, the dispatcher and the pure text algorithms.

Left, in this order:

1. Proofs: `ReceiptsAreTrue` (what a receipt calls completed is in the stream, from
   the conditional append). Its plans are folds over the observed catalog, which the
   prover does not unfold; they have to be restated by positions first, as `Materials`
   states the views of its stream.
2. A refinement from `CapabilityGateway` to the run that `GenerationWorkers` and
   `TutorHost` see; today both state its phases again over a smaller run.
3. The validators of grounded answers and of flashcard candidates as operators
   against reference definitions, like fusion.
4. Exam samples over `GenerationWorkers`.

## 3. Modules and how they correspond to the code

Modules that extend each other: `EventStore` implements `EventLog`;
`CapabilityGateway` extends `PlaybookEngine`; `LessonWorkers` extends
`GenerationWorkers` and `LessonPlanning`; `StudyRecords` extends
`StudyAssessments` (which extends `StudyArtifacts`) and instantiates `StudyContext`;
`Materials` extends `SourceMaterials`;
`RepositoryLifecycle` extends `LifecyclePlanning`; `MCKnowledge` puts the
retrieval, registry, dispatcher and (through `MCDocuments`) text modules side by
side. Each `...Proofs` module extends the module it is about; `PlaybookProofs` is about the
engine, the gateway that extends it and the dispatcher, `WorkersProofs` about the workers
and the lessons, and `StoreProofs` about the three SQLite stores: the event store, the
lexical index with its scopes, and the registry of gaps.

**EventLog** is what `ports/storage.py` promises: per course, a batch is appended
only at the expected length and with unused event identities.

**EventStore** models `adapters/sqlite/event_store.py`. `events` and
`projection` are the two tables; `client[c]` is the local state of one process
inside `projection()`, which runs its SELECTs and its lazy migration UPDATE
outside a transaction, hence one action per statement (`current_sequence`,
`load_projection`, `migrate_row`). `append`, `rebuild_projection` and `read` run
in one `BEGIN IMMEDIATE` transaction or one statement and are single actions; an
append the checks or a reducer refuse rolls back (`append_refused`). A projection
state is abstracted to the sequence of events it has consumed, so that "the state
is the replay of the stream" is an equality; legacy v0.1 bytes are a flag the
migration clears. Courses in `LegacyCourses` start with such a row.
`MCEventStore` adds `active`, the processes that use the database: all of them when no
projection is legacy, one when one is.

**PlaybookEngine** models `playbooks/engine.py` and `adapters/sqlite/run_store.py`.
A row keeps bindings, status, next step, outputs and step traces; `driver[d]` is
one call of execute or resume. Every await and every store statement is an action:
`execute` (preflight and INSERT), `resume` (load and compare), `resume_claim` (its
compare-and-set), `_execute_step`/`step_fails` (an awaited call returns or
raises), `_dialogue_should_suspend`, `advance` (the checkpoint compare-and-set).
A store statement may apply, raise, or apply and lose its acknowledgement; a
driver may crash between any two. `_validate_checkpoint_shape` is the code's own
validation of a stored row, trace by trace. Fingerprints are equality of what is
hashed; wall-clock times are left out.

**CapabilityGateway** models `capabilities/gateway.py` over the engine module it
extends. `calls[d]` is one start or resume; `current` is the version the
dependency resolvers read; `issued` are the continuations callers hold. The run
identity is a parameter of the request: it is a hash of capability, authority and
idempotency key, so two requests share a run exactly when they share these. The
steps between which other processes run are: inspection (`_start_bound`,
`_resume_bound`), `_dependencies`, the engine's own statements (`start_execute`,
`resume_load`, `gateway_claim`, `gateway_effect`, `gateway_advance`) and the final
`observe`. A failing INSERT and the inspection that follows it are one step: the
row it collided with is still there when it is inspected, so the order of the two
cannot be told apart. Requests refused for their authority or their schema touch
nothing and are left out.

**StudySessions** models `courses/service.py`, `sessions/service.py`,
`sessions/turn_service.py` and `application/grounding_ask.py`. `log` is one
course's stream, `running` and `completed` the rows of the run store, `client[c]`
the command a process executes: its request, its run, the length it last read, its
clock and the summary it built. By `EventStore` an append is atomic and a
projection is the replay of a prefix, so a view is an operator on a prefix of
`log` and the reducers (`sessions/projection.py`) are the predicates `Reduces`. The
order of a command's reads is the code's: `record_note`, `finalize_grounded_run`
and `create` read the length first (`sequence_first`) and their views later
(`record_view`, `create`); `start` and the lifecycle commands read their views
first (`start`, `_transition`) and the length later (`_current_sequence`); turns
come with a length the caller saw (`_expect_sequence`). Reads whose results the
sequence check makes irrelevant when something is committed between them are one
step; where it does not, several prefixes are tried. `append` commits,
`append_fails` is the raced or refused append, `raced` the lookup after it. A
process can crash, or its reply can be lost, at every point (`crash`). The
outcome of a command is kept for the properties until the client's next step. Data
is abstracted: a profile, text, question or message is a value, the summary the
number of interactions it covers (histories only grow, so it names the prefix),
time the length of the stream, an identity the tuple that is hashed. A request's
key stands for its idempotency key and its correlation id. Not modelled: refusals
for the principal's kind or a malformed context, which change nothing; changing
retrieval dependencies of a question. `MCStudySessions` adds `issued`, the set of
requests a behaviour takes.

**GenerationWorkers** models `workers/service.py` and the gateway adapter behind
it. `worker[t]` is the stored row of a task, `child[t]` the capability run it
stands for, `proofs[t]` the proof slot `LocalProofVerifier` reads. Every store
statement and every call of the adapter is an action: `start`, `resume_claim` (the
compare-and-set that takes an answer), `child_start`/`child_create` and
`child_resume`/`child_answer` (the gateway's inspection, then the engine's own look at
the run), `child_drive`/`child_inspect`, `proof_create`, `_persist_observation`. The
child is cut down to what the gateway shows of a run: created once, one driver, answers
recorded, terminal for good. What the run reads may have changed since it was created or
suspended (`stale`). `gateway_failure` is any exception of the adapter.

**LessonPlanning** is `flashcards/planning.py` as operators with folds: topics in
preorder with their eligibility, paragraphs with sizes, the packing of bundles up
to a slot count and a target. `PlanIsExact` states what the plan promises without
using the planner. **LessonWorkers** models `flashcards/lesson_worker_service.py`:
`pages` is the lesson's only row, `coord[p]` one call of `advance` with its copy of
the checkpoint. A page goes pending, resolving, prepared, claimed, terminal; each
transition is a reload and a compare-and-set of the whole checkpoint. The children
are the tasks of `GenerationWorkers`, whose actions run in between.

**TutorHost** models `hosts/runner.py`: one call of `run` loads the continuation
record, assembles the study state from two views, asks the tutor (`decided`, any
decision), calls the gateway and turns its outcome into a record, a result, another
generation or an end. `version` is the high-water sequence that other processes
move. The gateway call has the phases of `CapabilityGateway`, a step each: inspect the
run, resolve the dependencies, let the engine load it again, claim, drive, observe; so
another host may answer, suspend or finish the run in between, and `slower` remembers the
dialogues that were answered by a call that had selected an earlier one (finding 5).
`engine_fails`, `gateway_raises`, `store_raises`, `interrupted` and `Crash` are the
failures around each effect; `Limits[h]` are the `TutorHostLimits` of one process
(decisions, provider attempts per decision, refreshes). An interruption after a record
was stored returns the new continuation, as the code does. A decision is carried out
against the state the gateway finds, which may be newer than the view it was taken on
(`runner.py:411`): nothing in the code prevents that and no property denies it.

**StudyArtifacts**, **StudyAssessments** and **StudyContext** are operators only:
for each command of `artifacts/service.py`, `assessments/service.py` and
`study_context/service.py` the set of events it may append on a snapshot (empty
when it raises), and what the decoders and reducers make of each event. The two are
written from their own source lines, so a rule the service checks and the reducer
does not is visible. **StudyRecords** composes them on one course: `Steps` gives
for each command the order in which it looks its identity up, compares the
caller's sequence, reads a snapshot and appends, which differs from command to
command; `recheck` is the lookup after a lost race. `course` is the projection,
level with the stream by `EventStore`. The `...Sound` predicates that close the four
modules model no code: they are the invariant of section 6.

**SourceMaterials** holds the events and reducers of `ingestion/`: revisions,
selection, productions, successions, and the blobs an event names; `_reaches`, a loop in
the code, is stated by the sets of revisions closed under successors. **Materials**
runs them: blobs before events (`_write_expected_blob`, `append`, `reread`), the
full-text index of `adapters/sqlite/fts_retrieval.py` with its rebuild and its
search (three audit steps, query, resolution), and the host files of
`hosts/files.py` with expiry and limits. `disturbed` remembers that an index was
rewritten between the audit and the query of a search.

**LifecyclePlanning** is the planner of `lifecycle/planner.py` as operators.
**RepositoryLifecycle** models `adapters/filesystem/repository_target.py`,
`lifecycle/service.py` and the observer. A directory is an inode with its entries;
initialisation creates entry by entry under the lock file, which must still be the one
that was opened (`LockIsBound`), and links the configuration last; `apply` observes before every action. `left` bounds edits,
failures, crashes and other commands.

**ScopedRetrieval** models `knowledge/scopes.py`, the three lexical surfaces and
`retrieval/evidence.py`: editors append scope events with compare-and-set and
receipts, indexers replace a scope's rows and its receipt, services search under a
catalog they froze when they were built. The bindings of a scope are read in two steps
everywhere, the second of which must find what the first did (`ConfirmBatch`,
`ConfirmExpected`, `RecheckCatalog`). A search reads them before its transaction
(`ResolveExpected`), audits and queries the index in it (`QueryIndex`), and reads them
once more before it ends (`VerifyCatalog`); the fusion behind it is pure and a step of its
own (`FuseFound`). `looked` is what the last of these reads found in scope, against which
an answer is measured. A service raises when no scope has a binding as it is built, and
answers *insufficient* when only the scope it is asked for has none. **EvidenceFusion** is `retrieval/fusion.py`
(reciprocal rank sums as integers scaled by `ScoreScale`, so that order is exact).
**CapabilityGaps** models the gap registry and **FlashcardDispatcher** the
dispatcher with its two probes.

**DocumentTree**, **Unitizer** and **SourceChunking** are `knowledge/tree.py`,
`knowledge/unitizer.py` and `ingestion/chunking.py` as functions on texts. A text is a
sequence of lines with a kind, a level and a name; in the tree a line is one unit
wide, in the chunker it has characters, because there size limits cut inside a line; a text of white space only is an error there.
A path segment is a sequence of dashed parts, so that a title may look like a
renamed sibling. Node and unit identities, hashes in the code, are what is hashed.
**MCDocuments** names the texts that are tried. **MCKnowledge** chooses in its initial
states the one part that moves: scopes, gaps, the dispatcher, one batch to fuse or
one text; its processes are interchangeable (`MCSymmetry`).

Operators commented "Fault:" are the mutated forms `PROJECT.json` lists under
mutants: the definitions a plausible bug would put in place of the real ones, used
to show that each property can fail.

## 4. Runs

| run | bounds | shows |
|---|---|---|
| `store` | 2 clients, 2 courses, streams of up to 2 events, batches of up to 2, one event the reducers reject; or one client alone with a v0.1 course | projections are replays, acknowledged appends survive, whoever is refused lost a race; refinement of `EventLog` |
| `playbook_flow` | 2 drivers, 1 run, 6 steps, 3 bindings, 2 installations, 2 answers | every stored row loads again, effects happen once and in order, results last, runs settle |
| `gateway_retry` | 2 callers, 1 run, 2 dialogues and a validator, 2 inputs, 2 answers, 2 dependency versions, 2 installations | outcomes belong to their callers; verdicts agree and continuations resolve |
| `sessions` | 2 processes, 1 session, up to 7 events and 2 runs; either the 9 requests of one session's life, or 10 with 2 profiles, 2 texts and 1 key | a run and a key have one owner, an ended session stays as it is, the sequence check protects what a command read, answers are true |
| `generation_workers` | 2 processes, 1 task with a dialogue, 2 answers, 3 outputs (one unverified), 2 crashes | a completed row is proved, the answer that was claimed is the one that was given, rows never go back |
| `lesson_workers` | 2 processes, every lesson of 3 topics, target 3, 2 slots; up to 2 pages, 1 in flight, 1 card, children without dialogues, 1 crash | the plan is sound and tight, the in-flight cap holds over all coordinators, a lesson settles |
| `tutor_host` | 2 hosts, 1 turn, 3 study-state versions, 2 dialogues, 2 answers; one host with 2 decisions, 1 provider attempt, 2 refreshes and 2 calls, the other with 3, 2, 1 and 1 call | stored continuations can be answered, a shown dialogue survives, results are real, calls end within the limits of their host |
| `records` | 2 clients, 2 sessions, 2 generating and 2 grading runs, 2 keys; each initial state takes two related commands | lineages, acceptances and grades stay unique, answers are true, reducers accept what services append |
| `learner_evidence` | the same | *violation*: contesting a superseded grade makes the learner's evidence unreadable |
| `materials` | 2 clients, 1 source, 4 texts (two equal after normalisation, one blank), 1 to 6 events depending on the commands; snapshots: 2, lifetime 1 | events never outrun blobs, ingest answers are true, an undisturbed search is exact |
| `lifecycle` | 2 processes, 2 configurations, 1 course with 2 sources, 2 inodes; per initial state up to 2 crashes, edits and failures | initialisation is atomic, receipts are true, reconciliation converges, commands end |
| `knowledge` | 2 scopes, 2 sources, 4 events; 2 gap reporters, 4 reports, 2 faults; 2 dispatcher calls at once, 4 in all; batches of two lists of up to 2 units over 4-unit catalogs; texts of up to 4 lines for the tree, 6 paragraph lines for units, 3 lines (4 of headings and fences) for chunks with limits 1, 2 and 4 | edits of a scope compose and searches are exact or refused, gap reports are counted once, callers are told of the run that exists, fusion, trees, units and chunks agree with their reference definitions |

Why the bounds are enough. Conflicts in the store, in the run store and in the
records are between two writers of one course or row: a third adds no new pair. Two
courses are needed for identities that collide across courses; two events for an
append behind an append and for a batch. One run is enough in the engine because
no operation relates two runs (the proofs drop the bound). The flow has every kind
of step, a gate with all three results, a dialogue right behind a dialogue, and a
validator that continues, terminates and fails. Two inputs, answers, versions and
installations are what it takes for a comparison to fail. Seven events hold a
course, a session, an answer's batch of three and two more. Two pages and one
place in flight make coordinators compete for the place; three topics make every
shape of a small forest and bundles that are full, alone above the target, and
merged. The tutor host needs a second dialogue for a continuation that is replaced
and a third version for a call that meets two stale outcomes: the first host then runs
out of decisions before it runs out of refreshes, the second the other way round. The
study state moves once a run exists and again once a call has started over. In `records` the pairs of commands
are those that read what the other writes. A worker's child asks one dialogue in `generation_workers`, as
those of the built-in flows do; with two, finding 5 reaches the workers as well. In
`lesson_workers` it asks none: a dialogue ends a page as a failure of the gateway does.
The competing commands of `sessions` hold the notes, so the life of a session leaves them
out. Six events in `materials` are three
revisions and three successions, enough for a chain and for a cycle that must be
refused. A scope needs creation, two updates and a new revision. Text algorithms
look at a line and its neighbours, at the open headings (levels 1 to 3) and at a
limit; the small texts contain every order of these.

A version 0.1 projection is upgraded by one process alone in `store`: with two,
`ProjectionIsReplay` fails (section 5).

Deadlock is checked except in `generation_workers`, `lesson_workers`, `tutor_host`,
`lifecycle` and `knowledge`, where commands or texts run out.

Fairness. `playbook_flow` assumes weak fairness of each driver's own next
statement: a live process is scheduled and what it awaits returns, because tools
and models run under transport timeouts and SQLite under a busy timeout of 30
seconds. `tutor_host` assumes the same of a call (`HostStep`), `lesson_workers` of
a coordinator's and a worker's steps and, since a lesson has no driver of its own,
that some host calls `advance` again while it is required. With finitely many versions a
call of `tutor_host` could not start over for ever anyhow; that the budgets, and not this
bound, keep its loops short is the first part of `CallsEnd`, `LimitsHold`, which is proved
for every limit; the run fails when any one of the three budgets is taken out. In `lifecycle` a process
that can always move moves; a process that waits for the lock cannot. Crashes,
failures, new calls and upgrades are never forced, and a dead process is not
assumed to come back: `RunsSettle` allows a run that lost its driver to stay
running for ever, which is the documented behaviour (ADR-0006: ambiguous loss
remains visibly `running` and is never auto-replayed), and `LessonSettles` names
the pages such a run holds (`Wedged`).

## 5. Findings

Checked by a run:

1. `learner_evidence`: `contest_grade` does not ask whether the grade is still the
   active one. After a regrade, contesting the first grade puts its contest behind
   the regrade in the stream, but `learner_evidence_from` lists it directly behind
   its grade; the estimate's own check (`assessments/evidence.py:86`) then refuses
   the list, and every later read of that learner's evidence raises.

Observed while modelling, at the named lines. The properties of the passing runs
except exactly these cases by name or by the bounds above.

2. `projection()` migrates legacy bytes with an UPDATE that does not name the
   sequence it read (`event_store.py:224`), so it can undo the projection of an
   append that committed in between; ADR-0002:26 promises one transaction.
3. Stream length and projection row are read by two autocommit statements
   (`event_store.py:314`); an append in between is reported as an inconsistent
   projection, which line 40 documents as absent or behind.
4. A definition may end with a dialogue; its resume returns a completed result but
   nothing ever writes COMPLETED (`engine.py:729`).
5. The gateway compares the continuation's generation with an inspected row, and
   `engine.resume` loads the row again without a generation (`gateway.py:186`;
   ADR-0006:33). If another process answered in between and the run is suspended at
   its next dialogue, the answer is recorded there. The built-in flows have one
   dialogue each, so only other definitions are exposed. Under `hosts/runner.py` the next
   dialogue may then have an answer before any host has stored a record of it
   (`runner.py:589`): `SuspensionIsResumable` allows that to a slower call that had
   selected an earlier dialogue of the run and to nobody else. A store error after such a
   write is reported as a failed outcome although the run goes on (`gateway.py:464`).
6. The run identity of a question hashes the session's interactions and summary
   (`grounding_ask.py:609`), so a question whose answer was not committed is asked
   again under another run after any interaction
   (`docs/specs/oss-harness-v0-1-typed-tools-and-reference-harness.md:95` promises that a
   retry returns the same answer and makes no further calls). If the answer of the first
   run is recorded while the second is under way, the second is refused as a conflict
   (`sessions/service.py:343`, `:484`), although it asks the same question under the same
   key: `ConflictIsReal` excepts it by name (`Rederived`). A retry that begins after the
   answer gets that answer.
7. A completed child with more cards than the ceiling, and a child whose driver
   died, hold their lesson page for ever (`lesson_worker_service.py:521`).
8. A search audits the index and queries it in two statements
   (`fts_retrieval.py:289`); a rebuild from an older catalog in between makes a
   default search return a superseded revision.
9. When a file operation fails after the configuration was linked, the rollback
   takes the configuration from under a process that already opened the repository
   (`repository_target.py:543`; `RolledBackInUse`).
10. Typed regions before the first heading get no passage (`LeftOut`), and a heading
    called "document" adopts the passages before the first heading
    (`knowledge/unitizer.py`). A heading that skips a level makes the chunker file its
    later siblings under one another (`ingestion/chunking.py:128`).
11. The scope events of a course keep a receipt each, 256 at most
    (`knowledge/scopes.py:275`); the reducer refuses the next one, so scopes can no
    longer be changed.
12. The dispatcher's two probes are not one read (`capabilities/dispatch.py:159`): a
    run of the first profile that is created between them is reported as matching no
    closed definition, although a repeated call finds it.
13. A host accepts a receipt only for the generation it is at, and every call begins at
    the first (`hosts/runner.py:403`, `:667`), so the receipt of a call that had started
    over on a stale outcome cannot be used to find its run again.
14. The docstring of `FusionPolicy` (`retrieval/fusion.py:116`) gives empty weights the
    meaning of a weight of one for every retriever, and wants any others to match the
    manifest exactly; `fuse_candidates` refuses empty weights and accepts those of the
    retrievers that have results (`fusion.py:711`). Every batch here has weights for all.

## 6. Proofs

All for any number of clients, courses, drivers, runs, any definition and any
values of the other constants, from the `ASSUME`s of the modules. They need no
bound on streams beyond the model's own constants.

`StoreProofs`, first about `EventStore`: `TypeCorrect`, `StreamsNeverRewritten`,
`AcknowledgedSurvive`, `IdsRecordedOnce`, and `ImplementsLog` (every step of the
store is a step of `EventLog` or leaves the streams alone). `ProjectionFaithful`
proves `ProjectionIsReplay` for repositories without v0.1 projections; the
strengthening is that without a legacy row no client is ever between the
statements of a migration, and the assumption is needed: finding 2 is the
counterexample without it. `RefusalsAreRaces` proves `FailuresAreRaces` under the
same assumption. A process that is refused compares what it read with what it finds
two statements later, so the invariant is about what processes hold
(`ReadsAreReal`): the length read is never ahead of the stream, and as long as it is
equal to it the projection held is the replay of the stream.

`PlaybookProofs`, first about `PlaybookEngine`: the inductive invariant `EngineInv` says that rows are
typed, that what a driver is about to write follows from the row it read, that a
driving call owns its row (`OneDriverPerRun`), and that the recorded effects of a
run lie at or behind the step its row is at, strictly behind whenever a driver may
still take that step. The ownership part is what makes the effects part
inductive: a second driver could otherwise repeat a step. From it follow
`SingleDriver`, `EffectsAtMostOnce` and `EngineTypeCorrect`;
`ReturnedResultsDurable` adds that terminal rows never change and needs
`Steps[N] # "dialogue"` (finding 4).

`PlaybookProofs`, then about `CapabilityGateway`: `GatewayUsesEngine` shows that every step of the
gateway is a step of the engine or leaves it alone, so its specification implies
the engine's. The invariant needed is that a call is inside the engine exactly
while it drives, that what it hands over is typed, and that resumes and
continuations refer to stored runs. `GatewayEffectsAtMostOnce` then carries the
engine's theorem over to every use through the gateway. `GatewayTypeCorrect` is
the invariant's visible part.

`StudySessionsProofs`: `RunsHaveOneOwner` and `EndedSessionsAreFinal`. The stream
changes only in `append`, which adds a batch that the reducers accept event by
event; so neither needs to know what a command read, only that a command in
progress carries a request (`CommandsOK`) and that batches have the form
`BatchOK`: a status changes only in a batch of its own. The second also needs that
every event but the course's creation is scoped to a session (`Scoped`), as the
reducer of the creation looks at no session.

`WorkersProofs`, first about `GenerationWorkers`: `CompletedRowsAreProved` and `RowsOnlyMoveForward`, for
any number of dialogues too. The invariant `WorkersInv` says of every call in
progress (`Agrees`) that it works for a row that was pending or claimed, or claims one
that was suspended; that it drives a running child; and that a completion it reports
is the child's and is in the proof slot before it is persisted. `Agrees` speaks of what
a call saw some steps ago, so it needs that completed children and written slots
never change, which in turn needs that a child has one driver (`OneDriver`). Each
action has a lemma that says where it leaves its process, the children, the slots
and the rows. `ProgressIsKept` proves all of `WorkersKeepProgress` for flows with at
most one dialogue (`Dialogues <= 1`), as every built-in flow is. `AnswersInv` ties the
claims to the rows (no claim before a row is claimed, one after), the answers of a
child to the claims, and the response a call carries to the claim it delivers. The
hypothesis is needed: `engine.resume` answers the dialogue at which it finds the run
(finding 5), so with two dialogues a second delivery of the first answer can reach the
second; the same run with `Dialogues = 2` fails.

`WorkersProofs`, then about `LessonWorkers`: `LessonHolds` proves `LessonIsCoherent` for every plan, number of
coordinators and places. A coordinator works on a copy of the checkpoint that may be
long out of date, so the invariant `LessonInv` says what a copy is worth (`ScanSound`):
it is a checkpoint that was stored once and the stored one is what became of it
(`Reaches`: page by page the same or further on, with the wrapper it had). A
checkpoint as it is stored (`Lawful`) has its pages in order and at most `Concurrency`
of them claimed; whether a write keeps that is decided by the copy alone, since the
compare-and-set succeeds only when the copy is the stored checkpoint. The cap needs
`Counted`: the places a scan has left, the claimed pages it has gone past and the one it
observes never exceed the setting, though other coordinators claim and finish pages
under it and a lost race replaces its copy. Children (`Committed`) exist for the wrapper
of their page and a page reports what their row says, from the rows moving forward
(`WorkersInv`, `RowsForward`) and from `ServiceInv`: no answer reaches the child of a
lesson. Once a lesson passes its review all pages are terminal, so nothing can change
it any more (`ReviewedIsOver`); that makes the published owners final.

`TutorHostProofs`: `DialoguesAreKept`, `ReportsAreReal` and `LimitsAreKept`, with the
gateway call in its phases and for any number of dialogues. `DialoguesAreKept` includes
what is left of finding 5: a dialogue that is answered without ever having had a record is
not the first of its run and was answered by a call that had selected an earlier one.
`ReportsAreReal` also says that every attempt of one action is shown a dialogue of one
run, and `LimitsAreKept` that no call decides, asks its provider or starts over more often
than its host allows. `HostInv` says what a host
holds in each phase of a call: the outcome it carries is, or was, one of the run it
called (`HostsTyped`, `CallsFit`), a stored record names a dialogue its run has asked and
the authority it was started with (`ContinuationsHold`), a result that is reported is that
of a completed run (`ResultsHold`), and a run has one driver. Steps are described by what
they leave behind (`MovesOn`, `RunsAdvance`, `ResultsGrow`), so that what the other hosts hold
is shown to survive once and not per action.

`PlaybookProofs` also has, of the engine, `StoredRowsLoad` for `StoredRunsLoad`: a row that is stored
passes the validation the engine applies when it loads it. `Sound` says that the traces
of a row are the flattened marks of its steps in order, that its outputs are those of its
completed steps, and that a receipt of a dialogue reads only what was there before it;
each new row follows the old one (`RowsSound`, `CallSound`). Of the gateway
`OutcomesBelong` and `RepliesHold` rest on `CallersInv`, which ties tokens, requests and
replies to rows that only follow one another (`RowsFollow`) and in which every dialogue
has a generation of its own (`GenerationsDiffer`).

`StudySessionsProofs` also has `AnswersHold` and `SequenceIsGuarded`. `SessionsInv` says that the
stream is what its reducers accept (`StreamSound`) and of every command what it has read:
the view of some prefix, with the length it will append at not ahead of it (`ReadHolds`), and what
its answer, once given, stands for in the stream (`Acked`, `Taken`). When the append finds the
length it expected, the prefix is the whole stream; that is `SequenceGuardsTheRead`, and
what makes a recorded answer the only one.

`RepositoryLifecycleProofs`: `InitialisationHolds` proves `InitialisationIsAtomic` for any number of
processes and directories. `DiskSound` describes a directory at any instant: nothing, or
the lock with any part of the layout, or all of it with a configuration. `ProcSound` says what
an initialiser that stopped between two entries may rely on; it holds because only the
holder of the lock adds or removes entries (`Courteous`), the lock file itself is created first and
never removed, and nobody is answered while a configuration may still be taken back.
Steps outside an initialisation, and of the service, are shown to keep it together
(`QuietKeeps`, `ServicesKeep`).

`PlaybookProofs`, last about `FlashcardDispatcher`: `DispatchHolds` proves `DispatchIsTrue`. `DispatchInv` says what a
call knows in each phase: what its two probes saw of a run that was there when it began
is what that run still is (`ProbingHolds`), so exactly one binding owns it
(`OwnerIsFound`); a start is bound under its own selection and reaches the engine only if
the run was not there before, a resume only with a run of its own inputs
(`BoundHolds`); and an answer stays that of the run, because a run keeps its profile, its
inputs and its first answer (`RunsFollow`). A run can be suspended only without an
answer, which is why the answer a resume compares cannot be replaced later.

`StudyRecordsProofs`: `RecordsHold` proves `RecordsAreConsistent`, `AnswersHold`
`AnswersAreTrue` and `AppendsHold` `AppendsAreSound`, for any number of processes, sessions,
runs and commands. The inductive invariant `RecordsInv` (confirmed by TLC on `records` as
well) has two parts. `CourseSound` is what holds of every course: it is stronger than what
the reducers validate, because some of the rules are enforced by the services only. So a
reducer keeps it only for events a service can build (`Drafted`), and `ReduceKeeps` shows that
for every kind of event. `CallSound` says what a call has read: as long as the sequence it
will append at stands, its identity is free and its event, and the receipt of the policy,
are what the services build from this very course (`ReadsAgree`). When the append compares
the sequences, the event is therefore one of this course, whatever else ran between the
reads, and `Drafting` shows that the reducers take it but for the checks left to them. No
call that lost the race can claim the agreement, since every append raises the sequence.
The assumptions: contents carry the fields of their records with a finite set of expected
answers (`ContentsAssumption`); what runs produced are lists (`OutputsAssumption`); a behaviour
starts with a sound course (`StartsAssumption`), as the empty one is (`EmptyCourseSound`)
and as every one made from it stays; and `None` is not a digest (`NoneIsNoDigest`), digests
being tuples here.

`MaterialsProofs`: `SourcesHold` proves `SourcesAreSound`, `IngestAnswersHold`
`IngestAnswersAreTrue` and `IndexHolds` `IndexIsExact`, for any number of clients, sources,
texts, titles and files. The inductive invariant `MaterialsInv` has two parts.
`StoresSound` says of the stream that it is one the program wrote (`Written`): every event
decodes from the published blobs and is reduced after the events before it, and no
ingestion is repeated; it also keeps the files a finite store within its limits.
`CallsSound` says what a call knows in each phase, always of a prefix of the stream: a
writer that the revision it found unchanged was current at the sequence it read
(`IngestPhase`), a rebuild and a search that the rows they hold are the catalog of one
moment since they began (`CatalogSince`), and that after the audit the index is those rows
unless another client wrote it (`AuditedPhase`). Prefixes stay when others append, so one
lemma (`CallKept`) serves all calls a step does not move, and another (`CallDisturbed`) what a
rebuild does to them. The readers of the stream are three different computations over it,
a fold, a pass with overwriting and a search from the end: `Recounts` says that the
projection of a written stream is true to it event by event, `DecodeFacts` and
`DocumentsFacts` that the decoder and the catalog find the same, which needs that no
ingestion is repeated. `ForestGrows` shows that the two checks of the reducer, no second
successor and no path back, keep the successions a forest; a path is stated by the sets
that are closed under successors, which needs no recursion. What an answer says is then
shown for the step that gives it (`Tells`, `Told`). The assumptions: a text normalises to a text or
to nothing (`TextAssumption`), `None` is no revision (`NoneAssumption`), limits and sizes
are numbers (`LimitsAssumption`), and a behaviour starts from a stream the program could
have written (`StartsAssumption`), as the empty one is.

`StoreProofs`, then about `ScopedRetrieval`: `SearchesHold` proves `SearchIsExact` and
`EditsHold` `EditsCompose`, for any number of processes, scopes, requests and revisions.
The invariant `ScopesInv` says what a call carries in each phase (`Carries`): a search the
rows of the catalog it expected, because its one read transaction audits and queries the
same snapshot, so that the last look at the catalog decides; an editor the policy version it
read, which the reducer compares with the one it replaces. `EditsCompose` says of a change
of a scope that it is one editor's event, which that editor is told was appended, and what
that event makes of it (`Edits`): a first configuration starts without members, a later one
replaces the version its editor read and keeps the members, and a membership event adds
or removes exactly its source and keeps the policy. `Undisturbed` says of an
indexer nobody disturbed that it works on the catalog as it is; from it follows
`CatalogsHold`, with the counts of the manifest (parts of `RetrievalIsFaithful`). Every change
of shared state disturbs all running calls, so one lemma (`OthersAfter`) serves the others of
every action. The assumptions: requests name scopes and are edits of the known kinds
(`RequestsAssumption`), revisions are finite and of one class (`RevisionsAssumption`), `None`
is no scope and no process, and a behaviour starts from a sound course, as the empty one is
(`FirstCourseSound`).

`StoreProofs`, last about `CapabilityGaps`: `CountsHold` proves `CountsAreTrue` for any number of
reporters, observations, retries and crashes. `Tallies` states the aggregates by the reports of
the table, the earliest time by its bounds; `CreateOrIncrement` shows that the transaction keeps
that and answers truly, `AnswersStay` that tables which only grow keep an answer true, and
`ToldOnce` that an occurrence announced as recorded is in the table, where a retry finds it.

Only model-checked: `ReceiptsAreTrue`, `ReconciliationConverges` and `EvidenceIsInScope`. The
last depends on the order of a sorted result, and the prover has no definition of TLC's sort. The plans behind `ReceiptsAreTrue` are folds, of which more below.
`RunsSettle`, `LessonSettles`, `CallsEnd` and `CommandsEnd` stay so, because temporal reasoning with
fairness is outside the prover. `DocumentsAreExact`, `ChunkingIsExact`, `PlanIsExact` and
the fusion in `RetrievalIsFaithful` are about what folds and recursive functions compute for every input. The
library's induction theorems cannot be instantiated here; an induction over a set of
numbers can still be written as the choice of a least element (`FirstPosition`, `LastIs`),
which suffices for the proofs above but would have to be repeated for every fold of
these algorithms.

## 7. Not modelled

- Exam samples: one analysis of a document through the generation workers, without
  state of its own. Typed tools: stateless adapters from tool calls to services.
  Skills, prompts and pedagogy: immutable declarations checked at construction; the
  engine's preflight compares their versions. Export, demo and most of the command
  line: output and scripting around the services, without shared state.
- Validators of model answers (grounded answers, flashcard candidates, grades): pure
  functions of one answer; a run completes or terminates.
- Of the knowledge substrate: fragments, projections and citation records, which
  are data. Of the text algorithms: the words and characters themselves, except the
  sizes that limits compare. Newline and Unicode normalisation is a function on
  model values.
- Below a file operation: power loss between a write and its fsync, and the chain
  of system calls inside one `put`. Identity guards of the SQLite connection and the
  checks that a path is portable and not a link.
- JSON canonicalisation and fingerprints (equality), schema validation (a value is
  valid or the call is refused), clocks except where a lifetime is compared, wording
  of errors.

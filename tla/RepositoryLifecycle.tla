------------------------- MODULE RepositoryLifecycle -------------------------
(***************************************************************************)
(* Processes that initialise one local repository and bring it to its      *)
(* manifest (adapters/filesystem/repository_target.py,                     *)
(* lifecycle/service.py, cli/lifecycle.py,                                 *)
(* adapters/sqlite/lifecycle_observer.py).                                 *)
(*                                                                         *)
(* Every process may run `init` with a configuration of its own, or plan   *)
(* the manifest and later apply that plan.  Steps of processes interleave; *)
(* a process may die between two steps, a file operation of the            *)
(* initialiser or an index rebuild may fail, somebody edits the source     *)
(* files, and an ordinary command appends to a course stream.              *)
(*                                                                         *)
(* A directory is an inode: `root` is the one the repository's path names  *)
(* (0: none).  entries[i] holds its names; "databases" stands for the      *)
(* SQLite files under state/ and "tables" for the schema inside them.      *)
(* Resolution and inspection of the path is one step: the inspection       *)
(* re-verifies every identity it read and answers conflict otherwise.      *)
(***************************************************************************)
EXTENDS LifecyclePlanning

CONSTANTS Procs,       \* the processes
          InitConfigs, \* the configurations `init` is run with
          MaxInode,    \* bound: directories ever created at the path
          Starts       \* the repositories the behaviours start from, each with its
                       \* bounds: how often `init` is run, how many plans a process
                       \* makes, file edits, other commands, failures and crashes

\* The lock is nobody's or a process's; a repository to start from has its files.
ASSUME ProcessAssumption ==
    /\ MaxInode \in Nat \ {0} /\ None \notin Procs
    /\ \A start \in Starts : start.kind \in {"absent", "ready"} /\ start.files \in [Desired -> Texts]

VARIABLES root, entries, config, flock, streams, index, files, proc, applied, left
disk == <<root, entries, config, flock>>
canon == <<streams, index>>
vars == <<root, entries, config, flock, streams, index, files, proc, applied, left>>

Layout == {"state", "blobs", "exports"}
AllowedRecovery == Layout \cup {"lock", "temporary"}
Inodes == 1 .. MaxInode

\* ---------------------------------------------------------------- streams

\* Current revision of each source, in the last event that names it.
Revisions(c) == {i \in DOMAIN streams[c] : streams[c][i].kind = "source"}
CurrentSources(c) ==
    [s \in {streams[c][i].source : i \in Revisions(c)} |->
        streams[c][CHOOSE i \in Revisions(c) :
            /\ streams[c][i].source = s
            /\ \A j \in Revisions(c) : streams[c][j].source = s => j <= i].text]

\* What the retrieval index must hold: every revision, and which one is current.
Catalog == [c \in Courses |->
    [revisions |-> {<<streams[c][i].source, streams[c][i].text>> : i \in Revisions(c)},
     current |-> CurrentSources(c)]]

_observed_course(c) ==
    [hw |-> Len(streams[c]), profile |-> streams[c][1].profile, sources |-> CurrentSources(c)]

_observe_index ==
    CASE "databases" \notin entries[root] -> "missing"
      [] "databases" \in entries[root] /\ index = Catalog -> "healthy"
      [] OTHER -> "stale"

\* ------------------------------------------------- resolution and inspection

\* A configuration that changes while it is read is an error, so a read is a step.
_read_config(d) == IF "config" \in entries[d] THEN config ELSE None
_validate_layout_fd(d) == Layout \cup {"config", "lock"} \subseteq entries[d]
\* The path still names directory d.
_verify_complete_binding(d) == root = d
_remove_temporary(d) == [entries EXCEPT ![d] = @ \ {"temporary"}]
\* The databases an observation handle retains are the ones it found.
_open_optional_databases == "databases" \in entries[root]

inspect_repository_target(expected) ==
    CASE root = 0 -> "absent"
      [] root # 0 /\ _read_config(root) = expected /\ _validate_layout_fd(root) -> "compatible"
      [] OTHER -> "conflict"

\* Database files without tables cannot be read, which is a conflict too.
observe_local_repository ==
    IF "databases" \in entries[root] /\ "tables" \notin entries[root] THEN Conflicting
    ELSE Compatible([c \in {d \in Courses : streams[d] # <<>>} |-> _observed_course(c)],
                    _observe_index)

observe == CASE inspect_repository_target(ManifestConfig) = "absent" -> Absent
             [] inspect_repository_target(ManifestConfig) = "conflict" -> Conflicting
             [] OTHER -> observe_local_repository

CurrentPlan(snapshots) == LifecyclePlanV1(snapshots, observe)

\* ------------------------------------------------------------- processes

Idle == [pc |-> "idle"]
NoAnswer == [outcome |-> None]      \* applied[p] is the answer to p's last apply
NewInit(c, resolved, caller) ==
    [pc |-> "mkdir", config |-> c, resolved |-> resolved, caller |-> caller,
     dir |-> 0, owned |-> FALSE, made |-> {}, temp |-> FALSE, linked |-> FALSE, locked |-> FALSE]

In(p, pc) == proc[p].pc = pc
Changed(me, changes) == [f \in DOMAIN me |-> IF f \in DOMAIN changes THEN changes[f] ELSE me[f]]
Goto(p, changes) == proc' = [proc EXCEPT ![p] = Changed(@, changes)]
At(pc) == [pc |-> pc]

\* The apply's caller gets a receipt; one that cannot be built is an error.
Answer(p, job, receipt) ==
    /\ proc' = [proc EXCEPT ![p] = Idle]
    /\ applied' = [applied EXCEPT ![p] =
           [plan |-> job.plan, receipt |-> receipt, after |-> observe,
            outcome |-> IF ReceiptIsValid(receipt) THEN receipt.status ELSE "invalid_receipt"]]

Rest(job) == SubSeq(job.todo, 2, Len(job.todo))

RaiseConflict(p, job) ==
    Answer(p, job, LifecycleApplyReceiptV1("conflict", job.completed, job.noops, <<>>,
                                           Rest(job), <<Head(job.todo)>>))

Complete(p, job) ==
    proc' = [proc EXCEPT ![p] = [job EXCEPT !.pc = "next", !.todo = Rest(job),
                                            !.completed = Append(@, Head(job.todo))]]

\* --------------------------------------------------------- initialisation

\* initialize returns to the command or to the apply that called it.
InitReturns(p) ==
    IF proc[p].caller = None
    THEN proc' = [proc EXCEPT ![p] = [pc |-> "initialized", config |-> proc[p].config]]
             /\ UNCHANGED applied
    ELSE Complete(p, proc[p].caller) /\ UNCHANGED applied

InitFails(p) ==
    IF proc[p].caller = None THEN proc' = [proc EXCEPT ![p] = Idle] /\ UNCHANGED applied
    ELSE RaiseConflict(p, proc[p].caller)

Locked(p) == proc[p].locked
Release(p) == flock' = IF Locked(p) THEN None ELSE flock

handle_init(p) ==
    /\ In(p, "idle") /\ left.inits > 0
    /\ \E c \in InitConfigs : proc' = [proc EXCEPT ![p] = NewInit(c, root, None)]
    /\ left' = [left EXCEPT !.inits = @ - 1]
    /\ UNCHANGED <<disk, canon, files, applied>>

\* Open the resolved directory, or create what was missing.  The identity must
\* still be the resolved one; a directory somebody else created is used as it is.
MakeDirectory(p) ==
    /\ In(p, "mkdir")
    /\ IF proc[p].resolved # 0 /\ proc[p].resolved # root
       THEN Goto(p, At("rollback")) /\ UNCHANGED <<root, left>>
       ELSE IF root # 0
       THEN Goto(p, [pc |-> "entries", dir |-> root]) /\ UNCHANGED <<root, left>>
       ELSE LET inode == MaxInode - left.inodes + 1
            IN /\ left.inodes > 0
               /\ root' = inode
               /\ left' = [left EXCEPT !.inodes = @ - 1]
               /\ Goto(p, [pc |-> "entries", dir |-> inode, owned |-> TRUE])
    /\ UNCHANGED <<entries, config, flock, canon, files, applied>>

\* A non-empty directory without the lock file is somebody else's.
CheckEntries(p) ==
    /\ In(p, "entries")
    /\ LET held == entries[proc[p].dir]
       IN Goto(p, At(IF ~_verify_complete_binding(proc[p].dir) \/ (held # {} /\ "lock" \notin held)
                     THEN "rollback" ELSE "lock"))
    /\ UNCHANGED <<disk, canon, files, applied, left>>

\* Creating a file in a directory that was removed fails.
OpenLock(p) ==
    /\ In(p, "lock")
    /\ IF ~_verify_complete_binding(proc[p].dir)
       THEN Goto(p, At("rollback")) /\ UNCHANGED entries
       ELSE /\ entries' = [entries EXCEPT ![root] = @ \cup {"lock"}]
            /\ Goto(p, At("flock"))
    /\ UNCHANGED <<root, config, flock, canon, files, applied, left>>

\* _verify_regular_binding: once locked, the file that was opened must still be
\* the directory's lock file.  Nobody replaces it: a rollback leaves it there.
LockIsBound(p) == "lock" \in entries[proc[p].dir]

LockRepository(p) ==
    /\ In(p, "flock") /\ flock = None
    /\ flock' = p
    /\ Goto(p, [pc |-> IF LockIsBound(p) THEN "config" ELSE "rollback", locked |-> TRUE])
    /\ UNCHANGED <<root, entries, config, canon, files, applied, left>>

\* An existing configuration must be the same; its layout must be complete.
\* Without one only the remains of an interrupted initialisation may be there.
ReadConfig(p) ==
    /\ In(p, "config")
    /\ LET held == entries[proc[p].dir]
           existing == _read_config(proc[p].dir)
       IN IF existing # None
          THEN IF existing = proc[p].config /\ _validate_layout_fd(proc[p].dir)
               THEN /\ entries' = _remove_temporary(proc[p].dir)
                    /\ flock' = None
                    /\ InitReturns(p)
               ELSE Goto(p, At("rollback")) /\ UNCHANGED <<entries, flock, applied>>
          ELSE /\ UNCHANGED <<flock, applied>>
               /\ IF held \subseteq AllowedRecovery
                  THEN /\ entries' = _remove_temporary(proc[p].dir)
                       /\ Goto(p, At("layout"))
                  ELSE Goto(p, At("rollback")) /\ UNCHANGED entries
    /\ UNCHANGED <<root, config, canon, files, left>>

\* One directory of the layout after the other; each must be empty.
EnsureDirectory(p) ==
    /\ In(p, "layout")
    /\ LET missing == Layout \ entries[proc[p].dir]
       IN IF missing = {} THEN Goto(p, At("temporary")) /\ UNCHANGED entries
          ELSE LET name == CHOOSE n \in missing : TRUE
               IN /\ entries' = [entries EXCEPT ![proc[p].dir] = @ \cup {name}]
                  /\ Goto(p, [made |-> proc[p].made \cup {name}])
    /\ UNCHANGED <<root, config, flock, canon, files, applied, left>>

WriteTemporary(p) ==
    /\ In(p, "temporary")
    /\ entries' = [entries EXCEPT ![proc[p].dir] = @ \cup {"temporary"}]
    /\ Goto(p, [pc |-> "link", temp |-> TRUE])
    /\ UNCHANGED <<root, config, flock, canon, files, applied, left>>

LinkConfig(p) ==
    /\ In(p, "link")
    /\ entries' = [entries EXCEPT ![proc[p].dir] = @ \cup {"config"}]
    /\ config' = proc[p].config
    /\ Goto(p, [pc |-> "finish", linked |-> TRUE])
    /\ UNCHANGED <<root, flock, canon, files, applied, left>>

FinishInitialize(p) ==
    /\ In(p, "finish")
    /\ entries' = _remove_temporary(proc[p].dir)
    /\ Release(p)
    /\ InitReturns(p)
    /\ UNCHANGED <<root, config, canon, files, left>>

\* Mutant: the rollback removes the lock file too.
RollbackLock(p) ==
    /\ In(p, "rollback") /\ ~proc[p].linked
    /\ entries' = IF proc[p].dir = 0 THEN entries
                  ELSE [entries EXCEPT ![proc[p].dir] = @ \ (proc[p].made \cup {"lock", "temporary"})]
    /\ Release(p)
    /\ InitFails(p)
    /\ UNCHANGED <<root, config, canon, files, left>>

\* Mutant: the lock descriptor is not closed when the initialisation fails.
RollbackLocked(p) ==
    /\ In(p, "rollback") /\ ~proc[p].linked
    /\ InitFails(p)
    /\ UNCHANGED <<disk, canon, files, left>>

\* _rollback_created: the configuration first, then what this process created,
\* and a directory only when it is empty.  The lock file stays.
RollbackConfig(p) ==
    /\ In(p, "rollback") /\ proc[p].linked
    /\ entries' = [entries EXCEPT ![proc[p].dir] = @ \ {"config"}]
    /\ Goto(p, [linked |-> FALSE])
    /\ UNCHANGED <<root, config, flock, canon, files, applied, left>>

RollbackRest(p) ==
    /\ In(p, "rollback") /\ ~proc[p].linked
    /\ LET d == proc[p].dir
           used == IF d # 0 /\ "databases" \in entries[d] THEN {"state"} ELSE {}
           kept == IF d = 0 THEN {}
                   ELSE entries[d] \ ((proc[p].made \ used)
                            \cup (IF proc[p].temp THEN {"temporary"} ELSE {}))
       IN /\ entries' = IF d = 0 THEN entries ELSE [entries EXCEPT ![d] = kept]
          /\ root' = IF proc[p].owned /\ root = d /\ kept = {} THEN 0 ELSE root
    /\ Release(p)
    /\ InitFails(p)
    /\ UNCHANGED <<config, canon, files, left>>

\* A file operation of the initialiser fails (a full disk, an I/O error).
OperationFails(p) ==
    /\ proc[p].pc \in {"entries", "lock", "layout", "temporary", "link", "finish"}
    /\ left.faults > 0
    /\ left' = [left EXCEPT !.faults = @ - 1]
    /\ Goto(p, At("rollback"))
    /\ UNCHANGED <<disk, canon, files, applied>>

Initialization(p) ==
    \/ MakeDirectory(p) \/ CheckEntries(p) \/ OpenLock(p) \/ LockRepository(p)
    \/ ReadConfig(p) \/ EnsureDirectory(p) \/ WriteTemporary(p) \/ LinkConfig(p)
    \/ FinishInitialize(p) \/ RollbackConfig(p) \/ RollbackRest(p)

\* ---------------------------------------------------------- plan and apply

handle_manifest_plan(p) ==
    /\ (In(p, "idle") \/ In(p, "initialized")) /\ left.plans[p] > 0
    /\ proc' = [proc EXCEPT ![p] = [pc |-> "planned", plan |-> CurrentPlan(files)]]
    /\ left' = [left EXCEPT !.plans[p] = @ - 1]
    /\ UNCHANGED <<disk, canon, files, applied>>

\* The files are captured again and the repository is observed again: the plan
\* must still be the authorised one.  A plan with conflicts changes nothing.
handle_manifest_apply(p) ==
    /\ In(p, "planned")
    /\ LET actions == proc[p].plan.actions
           job == [pc |-> "next", plan |-> proc[p].plan, todo |-> mutable_actions(actions),
                   completed |-> <<>>, noops |-> passive_noops(actions), seen |-> FALSE]
       IN IF CurrentPlan(files) # proc[p].plan
          THEN proc' = [proc EXCEPT ![p] = Idle] /\ UNCHANGED applied
          ELSE IF Conflicts(actions) # <<>>
          THEN Answer(p, job, LifecycleApplyReceiptV1("conflict", <<>>, job.noops, <<>>,
                                                      job.todo, Conflicts(actions)))
          ELSE proc' = [proc EXCEPT ![p] = job] /\ UNCHANGED applied
    /\ UNCHANGED <<disk, canon, files, left>>

\* Before every action the repository is observed and planned again: the owner's
\* action must still be applicable, and is skipped when it has become a no-op.
NextAction(p) ==
    /\ In(p, "next") /\ proc[p].todo # <<>>
    /\ LET job == proc[p]
           action == job.plan.actions[Head(job.todo)]
           now == plan_lifecycle(job.plan.snapshots, observe)
           owned == OwnedActions(now, action)
       IN IF Conflicts(now) # <<>> \/ owned = {}
                \/ \E i \in owned : ~still_applicable(action, now[i])
          THEN RaiseConflict(p, job)
          ELSE /\ UNCHANGED applied
               /\ \E i \in owned :
                    proc' = [proc EXCEPT ![p] =
                        IF now[i].kind = "noop"
                        THEN [job EXCEPT !.todo = Rest(job), !.noops = Append(@, Head(job.todo))]
                        ELSE IF action.kind = "initialize"
                        THEN NewInit(ManifestConfig, root, job)
                        ELSE [job EXCEPT !.pc = "open"]]
    /\ UNCHANGED <<disk, canon, files, left>>

FinishApply(p) ==
    /\ In(p, "next") /\ proc[p].todo = <<>>
    /\ Answer(p, proc[p], LifecycleApplyReceiptV1(
            IF proc[p].completed = <<>> THEN "converged" ELSE "applied",
            proc[p].completed, proc[p].noops, <<>>, <<>>, <<>>))
    /\ UNCHANGED <<disk, canon, files, left>>

IsCompatible == inspect_repository_target(ManifestConfig) = "compatible"

\* _mutation_repository: the inspection retains the databases it found.
OpenRepository(p) ==
    /\ In(p, "open")
    /\ IF IsCompatible
       THEN Goto(p, [pc |-> "bind", seen |-> _open_optional_databases]) /\ UNCHANGED applied
       ELSE RaiseConflict(p, proc[p])
    /\ UNCHANGED <<disk, canon, files, left>>

\* mutation_scope: what the inspection found must still be so; absent database
\* files are created exclusively.
mutation_scope(p) ==
    /\ In(p, "bind")
    /\ IF IsCompatible /\ proc[p].seen = _open_optional_databases
       THEN /\ entries' = [entries EXCEPT ![root] = @ \cup {"databases"}]
            /\ Goto(p, At("mutate")) /\ UNCHANGED applied
       ELSE RaiseConflict(p, proc[p]) /\ UNCHANGED entries
    /\ UNCHANGED <<root, config, flock, canon, files, left>>

\* Mutant: the mutation is not conditional on the position of the stream.
mutate_unconditionally(p) ==
    /\ In(p, "mutate")
    /\ LET action == proc[p].plan.actions[Head(proc[p].todo)]
       IN IF action.kind = "rebuild_index" THEN index' = Catalog /\ UNCHANGED streams
          ELSE /\ streams' = [streams EXCEPT ![action.course] = Append(@,
                     IF action.kind = "create_course"
                     THEN [kind |-> "course", profile |-> action.want, by |-> p]
                     ELSE [kind |-> "source", source |-> action.source,
                           text |-> action.want, by |-> p])]
               /\ UNCHANGED index
    /\ Goto(p, At("leave"))
    /\ entries' = [entries EXCEPT ![root] = @ \cup {"tables"}]
    /\ UNCHANGED <<root, config, flock, files, applied, left>>

\* Mutant: the rebuild indexes the current revisions only.
mutate_current(p) ==
    /\ In(p, "mutate")
    /\ LET job == proc[p]
           action == job.plan.actions[Head(job.todo)]
       IN IF action.kind = "rebuild_index"
          THEN /\ index' = [c \in Courses |-> [Catalog[c] EXCEPT !.revisions =
                               {<<s, CurrentSources(c)[s]>> : s \in DOMAIN CurrentSources(c)}]]
               /\ Goto(p, At("leave")) /\ UNCHANGED <<streams, applied>>
          ELSE IF Len(streams[action.course]) = action.expected
          THEN /\ streams' = [streams EXCEPT ![action.course] = Append(@,
                     [kind |-> "source", source |-> action.source,
                      text |-> action.want, by |-> p])]
               /\ Goto(p, At("leave")) /\ UNCHANGED <<index, applied>>
          ELSE RaiseConflict(p, job) /\ UNCHANGED canon
    /\ entries' = [entries EXCEPT ![root] = @ \cup {"tables"}]
    /\ UNCHANGED <<root, config, flock, files, left>>


\* Opening the services creates the tables.  A canonical mutation is conditional
\* on the position of the stream; afterwards the binding is verified once more.
mutate(p) ==
    /\ In(p, "mutate")
    /\ LET job == proc[p]
           action == job.plan.actions[Head(job.todo)]
           event == IF action.kind = "create_course"
                    THEN [kind |-> "course", profile |-> action.want, by |-> p]
                    ELSE [kind |-> "source", source |-> action.source,
                          text |-> action.want, by |-> p]
       IN CASE action.kind = "rebuild_index" ->
                  /\ index' = Catalog
                  /\ Goto(p, At("leave")) /\ UNCHANGED <<streams, applied>>
            [] action.kind # "rebuild_index" /\ Len(streams[action.course]) = action.expected ->
                  /\ streams' = [streams EXCEPT ![action.course] = Append(@, event)]
                  /\ Goto(p, At("leave")) /\ UNCHANGED <<index, applied>>
            [] OTHER -> RaiseConflict(p, job) /\ UNCHANGED canon
    /\ entries' = [entries EXCEPT ![root] = @ \cup {"tables"}]
    /\ UNCHANGED <<root, config, flock, files, left>>

leave_scope(p) ==
    /\ In(p, "leave")
    /\ IF IsCompatible THEN Complete(p, proc[p]) /\ UNCHANGED applied
       ELSE RaiseConflict(p, proc[p])
    /\ UNCHANGED <<disk, canon, files, left>>

\* A failing rebuild of the discardable index ends the apply as degraded.
RebuildFails(p) ==
    /\ In(p, "mutate") /\ left.faults > 0
    /\ LET job == proc[p]
       IN /\ job.plan.actions[Head(job.todo)].kind = "rebuild_index"
          /\ Answer(p, job, LifecycleApplyReceiptV1("applied_degraded", job.completed,
                        job.noops, <<Head(job.todo)>>, Rest(job), <<>>))
    /\ left' = [left EXCEPT !.faults = @ - 1]
    /\ UNCHANGED <<disk, canon, files>>

Apply(p) ==
    \/ handle_manifest_apply(p) \/ NextAction(p) \/ FinishApply(p)
    \/ OpenRepository(p) \/ mutation_scope(p) \/ mutate(p) \/ leave_scope(p)

\* --------------------------------------------------------- the environment

Crash(p) ==
    /\ ~In(p, "idle") /\ ~In(p, "initialized") /\ left.crashes > 0
    /\ left' = [left EXCEPT !.crashes = @ - 1]
    /\ proc' = [proc EXCEPT ![p] = Idle]
    /\ flock' = IF flock = p THEN None ELSE flock
    /\ UNCHANGED <<root, entries, config, canon, files, applied>>

EditFiles ==
    /\ left.edits > 0
    /\ left' = [left EXCEPT !.edits = @ - 1]
    /\ \E d \in Desired, t \in Texts :
          files[d] # t /\ files' = [files EXCEPT ![d] = t]
    /\ UNCHANGED <<disk, canon, proc, applied>>

\* Another command of the repository creates a course of its own or appends an
\* event that is not about sources.
OtherCommand ==
    /\ left.others > 0 /\ root # 0 /\ "config" \in entries[root]
    /\ left' = [left EXCEPT !.others = @ - 1]
    /\ entries' = [entries EXCEPT ![root] = @ \cup {"databases", "tables"}]
    /\ \E c \in Courses :
          streams' = [streams EXCEPT ![c] = Append(@,
              IF @ = <<>> THEN [kind |-> "course", profile |-> "other", by |-> None]
              ELSE [kind |-> "session", by |-> None])]
    /\ UNCHANGED <<root, config, flock, index, files, proc, applied>>

\* -------------------------------------------------------- the specification

\* The behaviours start without a repository, or with one an earlier apply left.
NoCourses == [c \in Courses |-> <<>>]
Ready(start) == start # "absent"
Init ==
    \E start \in Starts :
        /\ root = IF Ready(start.kind) THEN 1 ELSE 0
        /\ entries = [i \in Inodes |-> IF i = 1 /\ Ready(start.kind)
                        THEN Layout \cup {"lock", "config", "databases", "tables"} ELSE {}]
        /\ config = IF Ready(start.kind) THEN ManifestConfig ELSE None
        /\ flock = None
        /\ streams = IF Ready(start.kind) THEN start.streams ELSE NoCourses
        /\ index = IF Ready(start.kind) THEN Catalog ELSE None
        /\ files = start.files
        /\ proc = [p \in Procs |-> Idle]
        /\ applied = [p \in Procs |-> NoAnswer]
        /\ left = [inits |-> start.inits, plans |-> [p \in Procs |-> start.plans],
                   edits |-> start.edits, others |-> start.others, faults |-> start.faults,
                   crashes |-> start.crashes,
                   inodes |-> IF Ready(start.kind) THEN MaxInode - 1 ELSE MaxInode]

Next ==
    \/ \E p \in Procs :
          \/ handle_init(p) \/ Initialization(p) \/ OperationFails(p)
          \/ handle_manifest_plan(p) \/ Apply(p) \/ RebuildFails(p) \/ Crash(p)
    \/ EditFiles \/ OtherCommand


\* Whatever the scheduler does, a command that has begun goes on until it ends:
\* nothing in it waits except for the repository lock.  CanMove is when one of the
\* process's steps is enabled (every one of them changes proc[p]), so this is weak
\* fairness of each process, in the form TLC evaluates cheaply.
Resting == {"idle", "initialized", "planned"}
CanMove(p) ==
    /\ proc[p].pc \notin Resting
    /\ In(p, "flock") => flock = None
    /\ In(p, "mkdir") => proc[p].resolved # 0 \/ root # 0 \/ left.inodes > 0
Fairness == \A p \in Procs : []<>(~CanMove(p)) \/ []<><<proc'[p] # proc[p]>>_vars
Spec == Init /\ [][Next]_vars /\ Fairness

-----------------------------------------------------------------------------
\* The types of the variables.
TypeOK ==
    /\ root \in 0 .. MaxInode
    /\ entries \in [Inodes -> SUBSET (AllowedRecovery \cup {"config", "databases", "tables"})]
    /\ config \in InitConfigs \cup {ManifestConfig, None}
    /\ flock \in Procs \cup {None}
    /\ files \in [Desired -> Texts]
    /\ \A p \in Procs : proc[p].pc \in {"idle", "initialized", "mkdir", "entries", "lock", "flock",
            "config", "layout", "temporary", "link", "finish", "rollback", "planned", "next",
            "open", "bind", "mutate", "leave"}

\* A linked configuration means a complete repository, at every instant another
\* process may look, through crashes and half-done rollbacks
\* (repository_target.py:640-735, 987).
LayoutIsComplete ==
    root # 0 /\ "config" \in entries[root] => Layout \cup {"lock"} \subseteq entries[root]

\* Once `init` has answered, the repository it answered for stays: no crash and no
\* rollback of a competing initialiser takes it away or changes its
\* configuration (repository_target.py:619-640).
InitializedStays ==
    \A p \in Procs : In(p, "initialized") =>
        /\ root # 0 /\ "config" \in entries[root]
        /\ config = proc[p].config

\* A file operation failed after the configuration was linked, and another process
\* had already used the repository: its databases stay without a configuration.
RolledBackInUse == root # 0 /\ "databases" \in entries[root] /\ "config" \notin entries[root]

\* Whatever else an interrupted initialisation leaves behind, running it again can
\* finish it: nothing, an empty directory, or the lock and recoverable remains
\* (repository_target.py:634-668).
InterruptedIsRecoverable ==
    root # 0 /\ "config" \notin entries[root] =>
        \/ RolledBackInUse
        \/ entries[root] = {}
        \/ "lock" \in entries[root] /\ entries[root] \subseteq AllowedRecovery

\* Initialisation is all or nothing for whoever looks at, races with or restarts
\* it: complete once configured, kept once answered, recoverable until then.
InitialisationIsAtomic ==
    TypeOK /\ LayoutIsComplete /\ InitializedStays /\ InterruptedIsRecoverable

\* A receipt accounts for every action of the authorised plan exactly once.
ReceiptsAccount ==
    \A p \in Procs : applied[p] # NoAnswer =>
        LET categories == ReceiptCategories(applied[p].receipt)
        IN /\ UNION {ToSet(categories[k]) : k \in DOMAIN categories}
                = DOMAIN applied[p].plan.actions
           /\ FoldLeft(LAMBDA n, category : n + Len(category), 0, categories)
                = Len(applied[p].plan.actions)

Canonical(action) == action.kind \in {"create_course", "ingest_revision"}
PlannedAt(plan, c) == IF c \in DOMAIN plan.hw THEN plan.hw[c] ELSE 0

\* Event number k of a stream is the one this action of a plan would write.
Planned(action, event, k) ==
    /\ Canonical(action) /\ action.expected = k - 1
    /\ \/ action.kind = "create_course" /\ event.kind = "course" /\ event.profile = action.want
       \/ /\ action.kind = "ingest_revision" /\ event.kind = "source"
          /\ event.source = action.source /\ event.text = action.want

\* What a receipt calls completed is in the stream, written by this apply on top
\* of exactly the history the plan was made from: between the position the plan
\* observed and the action's own event there are only events the plan itself
\* foresaw, whoever wrote them.
CompletedIsCommitted ==
    \A p \in Procs : applied[p] # NoAnswer =>
        \A i \in ToSet(applied[p].receipt.completed) :
            LET action == applied[p].plan.actions[i]
                stream == streams[action.course]
            IN Canonical(action) =>
                /\ Len(stream) > action.expected
                /\ Planned(action, stream[action.expected + 1], action.expected + 1)
                /\ \A k \in PlannedAt(applied[p].plan, action.course) + 1 .. action.expected + 1 :
                       \/ stream[k].by = p
                       \/ \E j \in 1 .. i - 1 : Planned(applied[p].plan.actions[j], stream[k], k)

\* A receipt is an account of what this apply did: complete and true.
ReceiptsAreTrue == ReceiptsAccount /\ CompletedIsCommitted

\* Somebody else has written to course c since the plan was made.
Disturbed(p, c) ==
    \E k \in PlannedAt(applied[p].plan, c) + 1 .. Len(streams[c]) : streams[c][k].by # p

\* An apply that answers applied or converged leaves the repository at the
\* manifest it was given, in every course and in the index, unless somebody else
\* wrote there after the plan (lifecycle/service.py:136-198).
AppliedIsConverged ==
    \A p \in Procs :
        applied[p].outcome \in {"applied", "converged"}
            /\ "initialize" \notin Kinds(applied[p].plan.actions) =>
        LET after == applied[p].after
            todo == plan_lifecycle(applied[p].plan.snapshots, after)
        IN \/ RolledBackInUse
           \/ /\ after.state = "compatible"
              /\ \A i \in DOMAIN todo :
                    /\ Canonical(todo[i]) \/ todo[i].kind = "conflict" => Disturbed(p, todo[i].course)
                    /\ todo[i].kind = "rebuild_index" => \E c \in Courses : Disturbed(p, c)

\* In every state the repository can be in, whatever the files hold, a plan made
\* now is sound: carried out alone it converges (planner.py:38, status_for_plan).
PlansConverge ==
    \A observed \in {observe}, snapshots \in [Desired -> Texts] :
        observed.state # "absent" => PlanConverges(snapshots, observed)

\* Reconciliation reaches the manifest: a plan carried out alone does, and an
\* apply that says so did.
ReconciliationConverges == AppliedIsConverged /\ PlansConverge

\* Every command ends: neither the lock nor a wait for it is held for ever
\* (repository_target.py:611).
CommandsEnd ==
    \A p \in Procs :
        proc[p].pc \notin Resting ~> proc[p].pc \in Resting
=============================================================================

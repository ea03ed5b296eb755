------------------------ MODULE RepositoryLifecycleProofs ------------------------
(***************************************************************************)
(* Initialisation is all or nothing.                                       *)
(*                                                                         *)
(* InitialiserInv says what the repository lock protects: the lock file is *)
(* the first name in a directory and stays, and only the holder of the     *)
(* lock adds or removes the layout, the temporary and the configuration.   *)
(* StepKeeps reduces every action to three facts: the disk stays sound,    *)
(* the process that moves stays sound, and the step is courteous to the    *)
(* others.                                                                 *)
(***************************************************************************)
EXTENDS RepositoryLifecycle, TLAPS

(***************************************************************************)
(* The initialiser.  The directory's lock file is created once and stays,  *)
(* so the repository lock orders everything that follows it: only its      *)
(* holder adds or removes the layout, the temporary and the configuration. *)
(***************************************************************************)
Names == AllowedRecovery \cup {"config", "databases", "tables"}
Configs == InitConfigs \cup {ManifestConfig}
InitFields == {"pc", "config", "resolved", "caller", "dir", "owned", "made", "temp", "linked", "locked"}

\* The points of an initialisation, and of everything else.
InitPoints == {"mkdir", "entries", "lock", "flock", "config", "layout", "temporary", "link",
               "finish", "rollback"}
OtherPoints == {"idle", "initialized", "planned", "next", "open", "bind", "mutate", "leave"}

\* What the directory at the path holds: the lock file first, and all of the
\* layout beside a configuration.
RootSound ==
    root # 0 =>
        /\ entries[root] # {} => "lock" \in entries[root]
        /\ "tables" \in entries[root] => "databases" \in entries[root]
        /\ "config" \in entries[root] => Layout \subseteq entries[root]

\* Directories are created once; those that are still to come are empty.
DiskSound ==
    /\ root \in 0 .. MaxInode
    /\ entries \in [Inodes -> SUBSET Names]
    /\ config \in Configs \cup {None}
    /\ flock \in Procs \cup {None}
    /\ files \in [Desired -> Texts]
    /\ "inodes" \in DOMAIN left /\ left.inodes \in 0 .. MaxInode
    /\ root <= MaxInode - left.inodes
    /\ \A i \in Inodes : i > MaxInode - left.inodes => entries[i] = {}
    /\ RootSound

\* The repository that a process has locked, or is about to.
Bound(me) == root # 0 /\ me.dir = root /\ "lock" \in entries[root]

\* A process in the initialiser.  Only the holder of the lock has made anything,
\* and nobody has been answered while its configuration may still be taken back.
InitSound(p, me) ==
    /\ me = [f \in InitFields |-> me[f]]
    /\ me.config \in Configs
    /\ me.caller = None \/ "pc" \in DOMAIN me.caller
    /\ me.dir \in 0 .. MaxInode
    /\ me.pc \in {"entries", "lock"} => me.dir # 0
    /\ me.made \subseteq Layout
    /\ me.locked \in BOOLEAN /\ me.linked \in BOOLEAN /\ me.temp \in BOOLEAN
    /\ me.locked <=> flock = p
    /\ me.pc \in {"config", "layout", "temporary", "link", "finish"} => me.locked
    /\ me.pc \in {"mkdir", "entries", "lock", "flock"} => ~ me.locked
    /\ me.pc = "flock" \/ me.locked => Bound(me)
    /\ ~ me.locked \/ me.pc = "config" => me.made = {} /\ ~ me.temp /\ ~ me.linked
    /\ me.pc \in {"layout", "temporary", "link"} => "config" \notin entries[root]
    /\ me.pc = "rollback" /\ ~ me.linked /\ (me.made # {} \/ me.temp) =>
            "config" \notin entries[root]
    /\ me.pc \in {"temporary", "link"} => Layout \subseteq entries[root]
    /\ me.linked =>
        /\ me.pc \in {"finish", "rollback"}
        /\ "config" \in entries[root] /\ config = me.config
        /\ \A q \in Procs : proc[q].pc # "initialized"
    /\ me.pc = "finish" => me.linked

\* A process outside it.
OtherSound(p, me) ==
    /\ "pc" \in DOMAIN me
    /\ flock # p
    /\ me.pc = "initialized" =>
            root # 0 /\ "config" \in entries[root] /\ config = me.config
    /\ me.pc = "mutate" => root # 0 /\ "databases" \in entries[root]

ProcSound(p, me) ==
    /\ me.pc \in InitPoints \cup OtherPoints
    /\ me.pc \in InitPoints => InitSound(p, me)
    /\ me.pc \in OtherPoints => OtherSound(p, me)

InitialiserInv ==
    /\ DOMAIN proc = Procs
    /\ DiskSound
    /\ \A p \in Procs : ProcSound(p, proc[p])

\* What a step of p leaves to the others: a directory that is in use, its lock and
\* its databases; the layout and the configuration, unless p holds the lock; and
\* the configuration of whoever has been answered.
Kept == Layout \cup {"config"}

Courteous(p, x) ==
    /\ root # 0 /\ entries[root] # {} => root' = root
    /\ root # 0 => \A n \in {"lock", "databases"} : n \in entries[root] => n \in entries'[root]
    /\ root # 0 /\ entries[root] # {} /\ flock # p =>
            config' = config /\ \A n \in Kept : n \in entries'[root] <=> n \in entries[root]
    /\ flock' = flock \/ (flock = None /\ flock' = p) \/ (flock = p /\ flock' = None)
    /\ root # 0 /\ "config" \in entries[root]
            /\ ("config" \notin entries'[root] \/ config' # config) =>
            \A q \in Procs : proc[q].pc # "initialized"
    /\ x.pc = "initialized" => flock = p

(* Such a step keeps the others sound.                                     *)
LEMMA OthersKept ==
  ASSUME InitialiserInv, NEW p \in Procs, NEW x, proc' = [proc EXCEPT ![p] = x],
         Courteous(p, x), NEW q \in Procs, q # p, NEW me, me = proc[q]
  PROVE  ProcSound(q, me)'
  <1>1. ProcSound(q, me)
    BY DEF InitialiserInv
  <1>2. DOMAIN proc = Procs /\ \A s \in Procs : proc'[s] = IF s = p THEN x ELSE proc[s]
    BY DEF InitialiserInv
  <1>3. flock' = q <=> flock = q
    BY ProcessAssumption DEF Courteous
  <1>4. CASE me.pc \in InitPoints
    <2>1. InitSound(q, me)
      BY <1>1, <1>4 DEF ProcSound
    <2>2. Bound(me) => Bound(me)' /\ root' = root
      BY DEF Bound, Courteous
    <2>3. me.locked => Bound(me) /\ flock = q
      BY <2>1 DEF InitSound
    <2>4. me.locked => \A n \in Kept : n \in entries'[root'] <=> n \in entries[root]
      BY <2>2, <2>3 DEF Bound, Courteous
    <2>5. me.locked => config' = config
      BY <2>3 DEF Bound, Courteous
    <2>6. me.linked => me.locked
      BY <2>1 DEF InitSound
    <2>7. me.linked => \A s \in Procs : proc'[s].pc # "initialized"
      <3> SUFFICES ASSUME me.linked PROVE x.pc # "initialized"
        BY <1>2, <2>1 DEF InitSound
      <3> QED BY <2>3, <2>6 DEF Courteous
    <2>8. me.locked => ("config" \in entries'[root'] <=> "config" \in entries[root])
                       /\ (Layout \subseteq entries[root] => Layout \subseteq entries'[root'])
      BY <2>4 DEF Kept
    <2>9. InitSound(q, me)'
      BY <1>3, <2>1, <2>2, <2>3, <2>5, <2>6, <2>7, <2>8 DEF InitSound
    <2> QED BY <1>1, <1>4, <2>9 DEF ProcSound, InitPoints, OtherPoints
  <1>5. CASE me.pc \in OtherPoints
    <2>1. OtherSound(q, me)
      BY <1>1, <1>5 DEF ProcSound
    <2>2. me.pc = "initialized" =>
            root' # 0 /\ "config" \in entries'[root'] /\ config' = me.config
      BY <2>1 DEF OtherSound, Courteous
    <2>3. me.pc = "mutate" => root' # 0 /\ "databases" \in entries'[root']
      BY <2>1 DEF OtherSound, Courteous
    <2>4. OtherSound(q, me)'
      BY <1>3, <2>1, <2>2, <2>3 DEF OtherSound
    <2> QED BY <1>1, <1>5, <2>4 DEF ProcSound, InitPoints, OtherPoints
  <1> QED BY <1>1, <1>4, <1>5 DEF ProcSound

(* It keeps the invariant when the disk and p itself stay sound.           *)
LEMMA StepKeeps ==
  ASSUME InitialiserInv, NEW p \in Procs, NEW x, proc' = [proc EXCEPT ![p] = x],
         Courteous(p, x), DiskSound', ProcSound(p, x)'
  PROVE  InitialiserInv'
  <1>1. DOMAIN proc = Procs /\ DOMAIN proc' = Procs
        /\ \A s \in Procs : proc'[s] = IF s = p THEN x ELSE proc[s]
    BY DEF InitialiserInv
  <1>2. ASSUME NEW q \in Procs PROVE ProcSound(q, proc[q])'
    <2>1. CASE q = p
      BY <1>1, <2>1 DEF ProcSound, InitSound, OtherSound, Bound
    <2>2. CASE q # p
      <3>1. PICK me : me = proc[q]
        OBVIOUS
      <3>2. ProcSound(q, me)'
        BY <2>2, <3>1, OthersKept
      <3> QED BY <1>1, <2>2, <3>1, <3>2 DEF ProcSound, InitSound, OtherSound, Bound
    <2> QED BY <2>1, <2>2
  <1> QED BY <1>1, <1>2 DEF InitialiserInv

(* What moving on changes in the record of an initialisation.              *)
LEMMA Merged ==
  ASSUME NEW me, me = [f \in InitFields |-> me[f]], NEW c, DOMAIN c \subseteq InitFields,
         NEW x, x = Changed(me, c)
  PROVE  /\ x = [f \in InitFields |-> x[f]]
         /\ \A f \in InitFields : x[f] = IF f \in DOMAIN c THEN c[f] ELSE me[f]
  BY DEF Changed

-----------------------------------------------------------------------------
(* Steps outside the initialiser.                                          *)

(* The disk stays sound when nobody touches it.                            *)
LEMMA DiskKept ==
  ASSUME DiskSound, UNCHANGED disk, files' \in [Desired -> Texts], "inodes" \in DOMAIN left',
         left'.inodes = left.inodes
  PROVE  DiskSound'
  BY DEF DiskSound, disk, RootSound

(* A process that waits, plans, applies, or begins an initialisation.      *)
LEMMA QuietKeeps ==
  ASSUME InitialiserInv, NEW p \in Procs, proc[p].pc \in OtherPoints,
         UNCHANGED disk, files' = files, "inodes" \in DOMAIN left', left'.inodes = left.inodes,
         NEW x, proc' = [proc EXCEPT ![p] = x],
         \/ "pc" \in DOMAIN x /\ x.pc \in {"idle", "planned", "next", "open", "bind", "leave"}
         \/ \E c \in Configs : \E d, k : x = NewInit(c, d, k) /\ (k = None \/ "pc" \in DOMAIN k)
  PROVE  InitialiserInv'
  <1>1. DiskSound /\ ProcSound(p, proc[p]) /\ files' \in [Desired -> Texts]
    BY DEF InitialiserInv, DiskSound
  <1>2. flock # p
    BY <1>1 DEF ProcSound, OtherSound
  <1>3. DiskSound'
    BY <1>1, DiskKept
  <1>4. x.pc # "initialized"
    <2>1. CASE \E c \in Configs : \E d, k : x = NewInit(c, d, k) /\ (k = None \/ "pc" \in DOMAIN k)
      <3>1. PICK c, d, k : c \in Configs /\ x = NewInit(c, d, k)
        BY <2>1
      <3>2. x.pc = "mkdir"
        BY <3>1 DEF NewInit
      <3> QED BY <3>2
    <2> QED BY <2>1
  <1>5. Courteous(p, x)
    BY <1>4 DEF Courteous, disk
  <1>6. ProcSound(p, x)'
    <2>1. CASE "pc" \in DOMAIN x /\ x.pc \in {"idle", "planned", "next", "open", "bind", "leave"}
      BY <1>2, <2>1 DEF ProcSound, OtherSound, OtherPoints, InitPoints, disk
    <2>2. CASE \E c \in Configs : \E d, k : x = NewInit(c, d, k) /\ (k = None \/ "pc" \in DOMAIN k)
      <3>1. PICK c, d, k : c \in Configs /\ x = NewInit(c, d, k) /\ (k = None \/ "pc" \in DOMAIN k)
        BY <2>2
      <3>2. /\ x = [f \in InitFields |-> x[f]] /\ x.pc = "mkdir" /\ x.config = c /\ x.caller = k
            /\ x.dir = 0 /\ x.made = {} /\ x.temp = FALSE /\ x.linked = FALSE /\ x.locked = FALSE
        BY <3>1 DEF NewInit, InitFields
      <3>3. x.config \in Configs /\ (x.caller = None \/ "pc" \in DOMAIN x.caller)
        BY <3>1, <3>2
      <3>4. 0 \in 0 .. MaxInode
        BY ProcessAssumption
      <3>5. flock' # p
        BY <1>2 DEF disk
      <3>6. InitSound(p, x)'
        BY <3>2, <3>3, <3>4, <3>5 DEF InitSound
      <3>7. x.pc \in InitPoints /\ x.pc \notin OtherPoints
        BY <3>2 DEF InitPoints, OtherPoints
      <3> QED BY <3>6, <3>7 DEF ProcSound
    <2> QED BY <2>1, <2>2
  <1> QED BY <1>3, <1>5, <1>6, StepKeeps

(* Outsiders may add databases and tables to a repository.                 *)
LEMMA DatabasesKept ==
  ASSUME DiskSound, root # 0, "lock" \in entries[root], NEW S, S \subseteq {"databases", "tables"},
         "databases" \in S \/ "databases" \in entries[root],
         entries' = [entries EXCEPT ![root] = @ \cup S], UNCHANGED <<root, config, flock>>,
         files' = files, "inodes" \in DOMAIN left', left'.inodes = left.inodes
  PROVE  /\ DiskSound'
         /\ entries'[root] = entries[root] \cup S
  <1>1. root \in Inodes
    BY DEF DiskSound, Inodes
  <1>2. entries' \in [Inodes -> SUBSET Names] /\ entries'[root] = entries[root] \cup S
        /\ \A i \in Inodes : i # root => entries'[i] = entries[i]
    BY <1>1 DEF DiskSound, Names
  <1>3. RootSound'
    BY <1>2 DEF DiskSound, RootSound, Layout
  <1>4. \A i \in Inodes : i > MaxInode - left'.inodes => entries'[i] = {}
    BY <1>1, <1>2, ProcessAssumption DEF DiskSound, Inodes
  <1> QED BY <1>2, <1>3, <1>4 DEF DiskSound

(* An apply that opens the services of the repository.                     *)
LEMMA ServicesKeep ==
  ASSUME InitialiserInv, NEW p \in Procs, proc[p].pc \in OtherPoints,
         root # 0, "lock" \in entries[root], NEW S, S \subseteq {"databases", "tables"},
         "databases" \in S \/ "databases" \in entries[root],
         entries' = [entries EXCEPT ![root] = @ \cup S], UNCHANGED <<root, config, flock>>,
         files' = files, "inodes" \in DOMAIN left', left'.inodes = left.inodes,
         NEW x, proc' = [proc EXCEPT ![p] = x],
         "pc" \in DOMAIN x, x.pc \in {"idle", "mutate", "leave"}
  PROVE  InitialiserInv'
  <1>1. DiskSound /\ ProcSound(p, proc[p])
    BY DEF InitialiserInv
  <1>2. flock # p
    BY <1>1 DEF ProcSound, OtherSound
  <1>3. DiskSound' /\ entries'[root] = entries[root] \cup S
    BY <1>1, DatabasesKept
  <1>4. Courteous(p, x)
    BY <1>3 DEF Courteous, Kept, Layout
  <1>5. ProcSound(p, x)'
    BY <1>2, <1>3 DEF ProcSound, OtherSound, OtherPoints, InitPoints
  <1> QED BY <1>3, <1>4, <1>5, StepKeeps

(* The records of an apply.                                                *)
LEMMA IdleIs == "pc" \in DOMAIN Idle /\ Idle.pc = "idle"
  BY DEF Idle

(* Going on changes the record of an apply in one field or two.            *)
LEMMA GotoIs ==
  ASSUME NEW p \in Procs, NEW me, me = proc[p], "pc" \in DOMAIN me, DOMAIN proc = Procs,
         NEW c, "pc" \in DOMAIN c, Goto(p, c)
  PROVE  \E x : proc' = [proc EXCEPT ![p] = x] /\ "pc" \in DOMAIN x /\ x.pc = c.pc
  <1>1. PICK x : x = Changed(me, c)
    OBVIOUS
  <1>2. "pc" \in DOMAIN x /\ x.pc = c.pc
    BY <1>1 DEF Changed
  <1>3. proc' = [proc EXCEPT ![p] = x]
    BY <1>1 DEF Goto
  <1> QED BY <1>2, <1>3

(* A completed action takes the apply to the next one.                     *)
LEMMA CompleteIs ==
  ASSUME NEW p, NEW job, "pc" \in DOMAIN job, Complete(p, job)
  PROVE  \E x : proc' = [proc EXCEPT ![p] = x] /\ "pc" \in DOMAIN x /\ x.pc = "next"
  <1>1. PICK x : x = [job EXCEPT !.pc = "next", !.todo = Rest(job), !.completed = Append(@, Head(job.todo))]
    OBVIOUS
  <1>2. "pc" \in DOMAIN x /\ x.pc = "next"
    BY <1>1
  <1> QED BY <1>1, <1>2 DEF Complete

(* A compatible repository exists and has its lock file.                   *)
LEMMA CompatibleIs ==
  ASSUME IsCompatible
  PROVE  root # 0 /\ "lock" \in entries[root]
  BY DEF IsCompatible, inspect_repository_target, _validate_layout_fd

-----------------------------------------------------------------------------
(* The actions of a process that is not in the initialiser, one after the  *)
(* other: each is a quiet step or one that opens the services.             *)

(* A conflict ends the apply.                                              *)
LEMMA ConflictIs ==
  ASSUME NEW p, NEW job, RaiseConflict(p, job)
  PROVE  proc' = [proc EXCEPT ![p] = Idle]
  BY DEF RaiseConflict, Answer

(* What the invariant says of an outsider's record.                        *)
LEMMA OutsiderIs ==
  ASSUME InitialiserInv, NEW p \in Procs, proc[p].pc \in OtherPoints
  PROVE  /\ "pc" \in DOMAIN proc[p] /\ DOMAIN proc = Procs
         /\ "inodes" \in DOMAIN left /\ flock # p
         /\ proc[p].pc = "mutate" => root # 0 /\ "databases" \in entries[root]
                                    /\ "lock" \in entries[root]
  <1>1. DiskSound /\ ProcSound(p, proc[p])
    BY DEF InitialiserInv
  <1> QED BY <1>1 DEF InitialiserInv, DiskSound, RootSound, ProcSound, OtherSound

(* handle_init (cli/lifecycle.py) begins an initialisation.                *)
LEMMA handle_initKeeps ==
  ASSUME InitialiserInv, NEW p \in Procs, handle_init(p)
  PROVE  InitialiserInv'
  <1>1. proc[p].pc \in OtherPoints
    BY DEF handle_init, In, OtherPoints
  <1>2. PICK c \in InitConfigs : proc' = [proc EXCEPT ![p] = NewInit(c, root, None)]
    BY DEF handle_init
  <1>3. "inodes" \in DOMAIN left' /\ left'.inodes = left.inodes
    BY <1>1, OutsiderIs DEF handle_init
  <1>4. PICK x : x = NewInit(c, root, None)
    OBVIOUS
  <1>5. c \in Configs
    BY DEF Configs
  <1>6. proc' = [proc EXCEPT ![p] = x]
        /\ \E b \in Configs : \E d, k : x = NewInit(b, d, k) /\ (k = None \/ "pc" \in DOMAIN k)
    BY <1>2, <1>4, <1>5
  <1>7. UNCHANGED disk /\ files' = files
    BY DEF handle_init
  <1> QED BY <1>1, <1>3, <1>6, <1>7, QuietKeeps

(* Planning reads the disk and changes nothing.                            *)
LEMMA handle_manifest_planKeeps ==
  ASSUME InitialiserInv, NEW p \in Procs, handle_manifest_plan(p)
  PROVE  InitialiserInv'
  <1>1. proc[p].pc \in OtherPoints
    BY DEF handle_manifest_plan, In, OtherPoints
  <1>2. PICK x : x = [pc |-> "planned", plan |-> CurrentPlan(files)]
    OBVIOUS
  <1>3. "inodes" \in DOMAIN left' /\ left'.inodes = left.inodes
    BY <1>1, OutsiderIs DEF handle_manifest_plan
  <1>4. proc' = [proc EXCEPT ![p] = x] /\ UNCHANGED disk /\ files' = files
    BY <1>2 DEF handle_manifest_plan
  <1>5. "pc" \in DOMAIN x /\ x.pc = "planned"
    BY <1>2
  <1> QED BY <1>1, <1>3, <1>4, <1>5, QuietKeeps

(* An apply begins, or is refused as stale.                                *)
LEMMA handle_manifest_applyKeeps ==
  ASSUME InitialiserInv, NEW p \in Procs, handle_manifest_apply(p)
  PROVE  InitialiserInv'
  <1>1. proc[p].pc \in OtherPoints
    BY DEF handle_manifest_apply, In, OtherPoints
  <1> DEFINE actions == proc[p].plan.actions
             job == [pc |-> "next", plan |-> proc[p].plan, todo |-> mutable_actions(actions),
                     completed |-> <<>>, noops |-> passive_noops(actions), seen |-> FALSE]
  <1>2. proc' = [proc EXCEPT ![p] = Idle] \/ proc' = [proc EXCEPT ![p] = job]
    BY DEF handle_manifest_apply, Answer
  <1>3. "pc" \in DOMAIN job /\ job.pc = "next"
    OBVIOUS
  <1>4. PICK x : proc' = [proc EXCEPT ![p] = x] /\ (x = Idle \/ x = job)
    BY <1>2
  <1>5. "pc" \in DOMAIN x /\ x.pc \in {"idle", "next"}
    BY <1>3, <1>4, IdleIs
  <1>6. UNCHANGED disk /\ files' = files /\ "inodes" \in DOMAIN left' /\ left'.inodes = left.inodes
    BY <1>1, OutsiderIs DEF handle_manifest_apply
  <1> HIDE DEF actions, job
  <1> QED BY <1>1, <1>4, <1>5, <1>6, QuietKeeps

(* The next action is skipped, refused, opened, or an initialisation.      *)
LEMMA NextActionKeeps ==
  ASSUME InitialiserInv, NEW p \in Procs, NextAction(p)
  PROVE  InitialiserInv'
  <1>1. proc[p].pc \in OtherPoints /\ proc[p].pc = "next"
    BY DEF NextAction, In, OtherPoints
  <1>2. PICK job : job = proc[p]
    OBVIOUS
  <1>3. "pc" \in DOMAIN job /\ job.pc = "next"
    BY <1>1, <1>2, OutsiderIs
  <1>4. UNCHANGED disk /\ files' = files /\ "inodes" \in DOMAIN left' /\ left'.inodes = left.inodes
    BY <1>1, OutsiderIs DEF NextAction
  <1> DEFINE action == job.plan.actions[Head(job.todo)]
             now == plan_lifecycle(job.plan.snapshots, observe)
             passed(i) == [job EXCEPT !.todo = Rest(job), !.noops = Append(@, Head(job.todo))]
             opened == [job EXCEPT !.pc = "open"]
  <1>5. \/ RaiseConflict(p, job)
        \/ \E i \in OwnedActions(now, action) :
              proc' = [proc EXCEPT ![p] = IF now[i].kind = "noop" THEN passed(i)
                         ELSE IF action.kind = "initialize" THEN NewInit(ManifestConfig, root, job)
                         ELSE opened]
    BY <1>2 DEF NextAction
  <1>6. \A i : "pc" \in DOMAIN passed(i) /\ passed(i).pc = "next"
    BY <1>3
  <1>7. "pc" \in DOMAIN opened /\ opened.pc = "open"
    BY <1>3
  <1> HIDE DEF action, now, passed, opened
  <1>8. PICK x : /\ proc' = [proc EXCEPT ![p] = x]
                 /\ \/ x = Idle \/ x = opened \/ x = NewInit(ManifestConfig, root, job)
                    \/ \E i : x = passed(i)
    BY <1>5, ConflictIs
  <1>9. \/ "pc" \in DOMAIN x /\ x.pc \in {"idle", "open", "next"}
        \/ x = NewInit(ManifestConfig, root, job)
    BY <1>6, <1>7, <1>8, IdleIs
  <1>10. ManifestConfig \in Configs
    BY DEF Configs
  <1>11. CASE "pc" \in DOMAIN x /\ x.pc \in {"idle", "open", "next"}
    BY <1>1, <1>4, <1>8, <1>11, QuietKeeps
  <1>12. CASE x = NewInit(ManifestConfig, root, job)
    <2>1. \E c \in Configs : \E d, k : x = NewInit(c, d, k) /\ (k = None \/ "pc" \in DOMAIN k)
      BY <1>3, <1>10, <1>12
    <2>2. proc' = [proc EXCEPT ![p] = x]
      BY <1>8
    <2> QED BY <1>1, <1>4, <2>1, <2>2, QuietKeeps
  <1> QED BY <1>9, <1>11, <1>12

(* The receipt of an apply ends it.                                        *)
LEMMA FinishApplyKeeps ==
  ASSUME InitialiserInv, NEW p \in Procs, FinishApply(p)
  PROVE  InitialiserInv'
  <1>1. proc[p].pc \in OtherPoints
    BY DEF FinishApply, In, OtherPoints
  <1>2. proc' = [proc EXCEPT ![p] = Idle] /\ UNCHANGED disk /\ files' = files
        /\ "inodes" \in DOMAIN left' /\ left'.inodes = left.inodes
    BY <1>1, OutsiderIs DEF FinishApply, Answer
  <1> QED BY <1>1, <1>2, IdleIs, QuietKeeps

(* The inspection before a mutation changes nothing.                       *)
LEMMA OpenRepositoryKeeps ==
  ASSUME InitialiserInv, NEW p \in Procs, OpenRepository(p)
  PROVE  InitialiserInv'
  <1>1. proc[p].pc \in OtherPoints
    BY DEF OpenRepository, In, OtherPoints
  <1>2. UNCHANGED disk /\ files' = files /\ "inodes" \in DOMAIN left' /\ left'.inodes = left.inodes
    BY <1>1, OutsiderIs DEF OpenRepository
  <1> DEFINE c == [pc |-> "bind", seen |-> _open_optional_databases]
  <1>3. Goto(p, c) \/ RaiseConflict(p, proc[p])
    BY DEF OpenRepository
  <1>4. "pc" \in DOMAIN c /\ c.pc = "bind"
    OBVIOUS
  <1> HIDE DEF c
  <1>5. \E x : proc' = [proc EXCEPT ![p] = x] /\ "pc" \in DOMAIN x /\ x.pc \in {"idle", "bind"}
    <2>1. CASE Goto(p, c)
      BY <1>1, <1>4, <2>1, GotoIs, OutsiderIs
    <2>2. CASE RaiseConflict(p, proc[p])
      BY <2>2, ConflictIs, IdleIs
    <2> QED BY <1>3, <2>1, <2>2
  <1>6. PICK x : proc' = [proc EXCEPT ![p] = x] /\ "pc" \in DOMAIN x /\ x.pc \in {"idle", "bind"}
    BY <1>5
  <1> QED BY <1>1, <1>2, <1>6, QuietKeeps

(* Leaving the scope completes the action or refuses it.                   *)
LEMMA leave_scopeKeeps ==
  ASSUME InitialiserInv, NEW p \in Procs, leave_scope(p)
  PROVE  InitialiserInv'
  <1>1. proc[p].pc \in OtherPoints
    BY DEF leave_scope, In, OtherPoints
  <1>2. UNCHANGED disk /\ files' = files /\ "inodes" \in DOMAIN left' /\ left'.inodes = left.inodes
    BY <1>1, OutsiderIs DEF leave_scope
  <1>3. Complete(p, proc[p]) \/ RaiseConflict(p, proc[p])
    BY DEF leave_scope
  <1>4. \E x : proc' = [proc EXCEPT ![p] = x] /\ "pc" \in DOMAIN x /\ x.pc \in {"idle", "next"}
    <2>1. CASE Complete(p, proc[p])
      BY <1>1, <2>1, CompleteIs, OutsiderIs
    <2>2. CASE RaiseConflict(p, proc[p])
      BY <2>2, ConflictIs, IdleIs
    <2> QED BY <1>3, <2>1, <2>2
  <1>5. PICK x : proc' = [proc EXCEPT ![p] = x] /\ "pc" \in DOMAIN x /\ x.pc \in {"idle", "next"}
    BY <1>4
  <1> QED BY <1>1, <1>2, <1>5, QuietKeeps

(* Binding creates the databases of a compatible repository.               *)
LEMMA mutation_scopeKeeps ==
  ASSUME InitialiserInv, NEW p \in Procs, mutation_scope(p)
  PROVE  InitialiserInv'
  <1>1. proc[p].pc \in OtherPoints
    BY DEF mutation_scope, In, OtherPoints
  <1>2. UNCHANGED <<root, config, flock>> /\ files' = files
        /\ "inodes" \in DOMAIN left' /\ left'.inodes = left.inodes
    BY <1>1, OutsiderIs DEF mutation_scope
  <1>3. CASE IsCompatible /\ proc[p].seen = _open_optional_databases
    <2>1. entries' = [entries EXCEPT ![root] = @ \cup {"databases"}] /\ Goto(p, At("mutate"))
      BY <1>3 DEF mutation_scope
    <2>2. root # 0 /\ "lock" \in entries[root]
      BY <1>3, CompatibleIs
    <2>3. "pc" \in DOMAIN At("mutate") /\ At("mutate").pc = "mutate"
      BY DEF At
    <2>4. PICK x : proc' = [proc EXCEPT ![p] = x] /\ "pc" \in DOMAIN x /\ x.pc = "mutate"
      BY <1>1, <2>1, <2>3, GotoIs, OutsiderIs
    <2>5. PICK S : S = {"databases"}
      OBVIOUS
    <2>6. S \subseteq {"databases", "tables"} /\ "databases" \in S
          /\ entries' = [entries EXCEPT ![root] = @ \cup S]
      BY <2>1, <2>5
    <2> QED BY <1>1, <1>2, <2>2, <2>4, <2>6, ServicesKeep
  <1>4. CASE ~ (IsCompatible /\ proc[p].seen = _open_optional_databases)
    <2>1. entries' = entries /\ RaiseConflict(p, proc[p])
      BY <1>4 DEF mutation_scope
    <2>2. UNCHANGED disk /\ proc' = [proc EXCEPT ![p] = Idle]
      BY <1>2, <2>1, ConflictIs DEF disk
    <2> QED BY <1>1, <1>2, <2>2, IdleIs, QuietKeeps
  <1> QED BY <1>3, <1>4

(* The mutation opens the services, which create the tables.               *)
LEMMA mutateKeeps ==
  ASSUME InitialiserInv, NEW p \in Procs, mutate(p)
  PROVE  InitialiserInv'
  <1>1. proc[p].pc \in OtherPoints /\ proc[p].pc = "mutate"
    BY DEF mutate, In, OtherPoints
  <1>2. UNCHANGED <<root, config, flock>> /\ files' = files
        /\ "inodes" \in DOMAIN left' /\ left'.inodes = left.inodes
    BY <1>1, OutsiderIs DEF mutate
  <1>3. Goto(p, At("leave")) \/ RaiseConflict(p, proc[p])
    BY DEF mutate
  <1>4. "pc" \in DOMAIN At("leave") /\ At("leave").pc = "leave"
    BY DEF At
  <1>5. \E x : proc' = [proc EXCEPT ![p] = x] /\ "pc" \in DOMAIN x /\ x.pc \in {"idle", "mutate", "leave"}
    <2>1. CASE Goto(p, At("leave"))
      BY <1>1, <1>4, <2>1, GotoIs, OutsiderIs
    <2>2. CASE RaiseConflict(p, proc[p])
      BY <2>2, ConflictIs, IdleIs
    <2> QED BY <1>3, <2>1, <2>2
  <1>6. PICK x : proc' = [proc EXCEPT ![p] = x] /\ "pc" \in DOMAIN x /\ x.pc \in {"idle", "mutate", "leave"}
    BY <1>5
  <1>7. root # 0 /\ "databases" \in entries[root] /\ "lock" \in entries[root]
    BY <1>1, OutsiderIs
  <1>8. PICK S : S = {"tables"}
    OBVIOUS
  <1>9. S \subseteq {"databases", "tables"} /\ entries' = [entries EXCEPT ![root] = @ \cup S]
    BY <1>8 DEF mutate
  <1> QED BY <1>1, <1>2, <1>6, <1>7, <1>9, ServicesKeep

(* A rebuild that fails ends the apply.                                    *)
LEMMA RebuildFailsKeeps ==
  ASSUME InitialiserInv, NEW p \in Procs, RebuildFails(p)
  PROVE  InitialiserInv'
  <1>1. proc[p].pc \in OtherPoints
    BY DEF RebuildFails, In, OtherPoints
  <1>2. proc' = [proc EXCEPT ![p] = Idle] /\ UNCHANGED disk /\ files' = files
    BY DEF RebuildFails, Answer
  <1>3. "inodes" \in DOMAIN left' /\ left'.inodes = left.inodes
    BY <1>1, OutsiderIs DEF RebuildFails
  <1> QED BY <1>1, <1>2, <1>3, IdleIs, QuietKeeps

(* Every step of an apply keeps the invariant.                             *)
LEMMA ApplyKeeps ==
  ASSUME InitialiserInv, NEW p \in Procs, Apply(p)
  PROVE  InitialiserInv'
  BY handle_manifest_applyKeeps, NextActionKeeps, FinishApplyKeeps, OpenRepositoryKeeps,
     mutation_scopeKeeps, mutateKeeps, leave_scopeKeeps DEF Apply

(* A process that dies, wherever it is, lets go of the lock and of nothing *)
(* else.                                                                   *)
LEMMA CrashKeeps ==
  ASSUME InitialiserInv, NEW p \in Procs, Crash(p)
  PROVE  InitialiserInv'
  <1>1. DiskSound
    BY DEF InitialiserInv
  <1>2. "inodes" \in DOMAIN left' /\ left'.inodes = left.inodes
    BY <1>1 DEF DiskSound, Crash
  <1>3. proc' = [proc EXCEPT ![p] = Idle] /\ UNCHANGED <<root, entries, config, files>>
        /\ flock' = IF flock = p THEN None ELSE flock
    BY DEF Crash
  <1>4. DiskSound'
    BY <1>1, <1>2, <1>3 DEF DiskSound, RootSound
  <1>5. Courteous(p, Idle)
    BY <1>3, IdleIs DEF Courteous
  <1>6. flock' # p
    BY <1>3, ProcessAssumption
  <1>7. ProcSound(p, Idle)'
    BY <1>6, IdleIs DEF ProcSound, OtherSound, OtherPoints, InitPoints, Idle
  <1> QED BY <1>3, <1>4, <1>5, <1>7, StepKeeps

(* The invariant speaks of the disk, the processes and the bound on        *)
(* directories only.                                                       *)
LEMMA ElsewhereKeeps ==
  ASSUME InitialiserInv, UNCHANGED <<disk, proc>>, files' \in [Desired -> Texts],
         "inodes" \in DOMAIN left', left'.inodes = left.inodes
  PROVE  InitialiserInv'
  <1>1. DiskSound'
    BY DiskKept DEF InitialiserInv
  <1>2. ASSUME NEW q \in Procs PROVE ProcSound(q, proc[q])'
    <2>1. ProcSound(q, proc[q])
      BY DEF InitialiserInv
    <2> QED BY <2>1 DEF ProcSound, InitSound, OtherSound, Bound, disk
  <1> QED BY <1>1, <1>2 DEF InitialiserInv

(* Editing a source file touches nothing of the repository.                *)
LEMMA EditFilesKeeps ==
  ASSUME InitialiserInv, EditFiles
  PROVE  InitialiserInv'
  <1>1. DiskSound
    BY DEF InitialiserInv
  <1>2. files' \in [Desired -> Texts]
    BY <1>1 DEF DiskSound, EditFiles
  <1>3. UNCHANGED <<disk, proc>> /\ "inodes" \in DOMAIN left' /\ left'.inodes = left.inodes
    BY <1>1 DEF DiskSound, EditFiles
  <1> QED BY <1>2, <1>3, ElsewhereKeeps

(* Another command opens the databases of a configured repository.         *)
LEMMA OtherCommandKeeps ==
  ASSUME InitialiserInv, OtherCommand
  PROVE  InitialiserInv'
  <1>1. DiskSound /\ root # 0 /\ "lock" \in entries[root]
    BY DEF InitialiserInv, OtherCommand, DiskSound, RootSound
  <1>2. "inodes" \in DOMAIN left' /\ left'.inodes = left.inodes
    BY <1>1 DEF DiskSound, OtherCommand
  <1>3. UNCHANGED <<root, config, flock, files, proc>>
    BY DEF OtherCommand
  <1>4. PICK S : S = {"databases", "tables"}
    OBVIOUS
  <1>5. entries' = [entries EXCEPT ![root] = @ \cup S] /\ S \subseteq {"databases", "tables"}
        /\ "databases" \in S
    BY <1>4 DEF OtherCommand
  <1>6. DiskSound' /\ entries'[root] = entries[root] \cup S
    BY <1>1, <1>2, <1>3, <1>5, DatabasesKept
  <1>7. \A n \in Kept : n \in entries'[root] <=> n \in entries[root]
    BY <1>4, <1>6 DEF Kept, Layout
  <1>8. ASSUME NEW q \in Procs PROVE ProcSound(q, proc[q])'
    <2>1. ProcSound(q, proc[q])
      BY DEF InitialiserInv
    <2>2. ("config" \in entries'[root'] <=> "config" \in entries[root])
          /\ (Layout \subseteq entries[root] => Layout \subseteq entries'[root'])
          /\ ("lock" \in entries[root] => "lock" \in entries'[root'])
          /\ ("databases" \in entries[root] => "databases" \in entries'[root'])
      BY <1>3, <1>6, <1>7 DEF Kept
    <2>3. ASSUME InitSound(q, proc[q]) PROVE InitSound(q, proc[q])'
      BY <1>3, <2>2, <2>3 DEF InitSound, Bound
    <2>4. ASSUME OtherSound(q, proc[q]) PROVE OtherSound(q, proc[q])'
      BY <1>3, <2>2, <2>4 DEF OtherSound
    <2> QED BY <1>3, <2>1, <2>3, <2>4 DEF ProcSound
  <1> QED BY <1>3, <1>6, <1>8 DEF InitialiserInv

-----------------------------------------------------------------------------
(* Steps of the initialiser.                                               *)

(* What the invariant says of the record of an initialisation.             *)
LEMMA InsiderIs ==
  ASSUME InitialiserInv, NEW p \in Procs, proc[p].pc \in InitPoints
  PROVE  DiskSound /\ InitSound(p, proc[p]) /\ DOMAIN proc = Procs
         /\ "inodes" \in DOMAIN left
  BY DEF InitialiserInv, ProcSound, DiskSound

(* Moving on in it.                                                        *)
LEMMA Advance ==
  ASSUME NEW p \in Procs, NEW me, me = proc[p], InitSound(p, me),
         NEW c, DOMAIN c \subseteq InitFields, Goto(p, c)
  PROVE  \E x : /\ proc' = [proc EXCEPT ![p] = x]
                /\ x = [f \in InitFields |-> x[f]]
                /\ \A f \in InitFields : x[f] = IF f \in DOMAIN c THEN c[f] ELSE me[f]
  <1>1. PICK x : x = Changed(me, c)
    OBVIOUS
  <1>2. me = [f \in InitFields |-> me[f]]
    BY DEF InitSound
  <1>3. x = [f \in InitFields |-> x[f]]
        /\ \A f \in InitFields : x[f] = IF f \in DOMAIN c THEN c[f] ELSE me[f]
    BY <1>1, <1>2, Merged
  <1>4. proc' = [proc EXCEPT ![p] = x]
    BY <1>1 DEF Goto
  <1> QED BY <1>3, <1>4

(* When only the point it has reached changes.                             *)
LEMMA Onwards ==
  ASSUME NEW p \in Procs, NEW me, me = proc[p], InitSound(p, me), NEW point, Goto(p, At(point))
  PROVE  \E x : /\ proc' = [proc EXCEPT ![p] = x]
                /\ x = [f \in InitFields |-> x[f]] /\ x.pc = point
                /\ x.config = me.config /\ x.caller = me.caller /\ x.dir = me.dir
                /\ x.made = me.made /\ x.temp = me.temp /\ x.linked = me.linked
                /\ x.locked = me.locked
  <1>1. DOMAIN At(point) = {"pc"} /\ At(point).pc = point
    BY DEF At
  <1>2. DOMAIN At(point) \subseteq InitFields
    BY <1>1 DEF InitFields
  <1>3. PICK x : /\ proc' = [proc EXCEPT ![p] = x]
                 /\ x = [f \in InitFields |-> x[f]]
                 /\ \A f \in InitFields : x[f] = IF f \in DOMAIN At(point) THEN At(point)[f] ELSE me[f]
    BY <1>2, Advance
  <1>4. /\ x.pc = point
        /\ x.config = me.config /\ x.caller = me.caller /\ x.dir = me.dir
        /\ x.made = me.made /\ x.temp = me.temp /\ x.linked = me.linked
        /\ x.locked = me.locked
    BY <1>1, <1>3 DEF InitFields
  <1> QED BY <1>3, <1>4

(* A step that leaves the disk alone keeps everybody else sound.           *)
LEMMA UntouchedKeeps ==
  ASSUME InitialiserInv, NEW p \in Procs, UNCHANGED disk, files' = files,
         "inodes" \in DOMAIN left', left'.inodes = left.inodes,
         NEW x, proc' = [proc EXCEPT ![p] = x], x.pc \in InitPoints, InitSound(p, x)'
  PROVE  InitialiserInv'
  <1>1. DiskSound /\ files' \in [Desired -> Texts]
    BY DEF InitialiserInv, DiskSound
  <1>2. DiskSound'
    BY <1>1, DiskKept
  <1>3. x.pc # "initialized" /\ x.pc \notin OtherPoints
    BY DEF InitPoints, OtherPoints
  <1>4. Courteous(p, x)
    BY <1>3 DEF Courteous, disk
  <1>5. ProcSound(p, x)'
    BY <1>3 DEF ProcSound
  <1> QED BY <1>2, <1>4, <1>5, StepKeeps

(* Giving up is possible everywhere.                                       *)
LEMMA GivingUpKeeps ==
  ASSUME InitialiserInv, NEW p \in Procs, proc[p].pc \in InitPoints, Goto(p, At("rollback")),
         UNCHANGED disk, files' = files, "inodes" \in DOMAIN left', left'.inodes = left.inodes
  PROVE  InitialiserInv'
  <1>1. PICK me : me = proc[p]
    OBVIOUS
  <1>2. InitSound(p, me) /\ me.pc \in InitPoints
    BY <1>1, InsiderIs
  <1>3. PICK x : /\ proc' = [proc EXCEPT ![p] = x]
                 /\ x = [f \in InitFields |-> x[f]] /\ x.pc = "rollback"
                 /\ x.config = me.config /\ x.caller = me.caller /\ x.dir = me.dir
                 /\ x.made = me.made /\ x.temp = me.temp /\ x.linked = me.linked
                 /\ x.locked = me.locked
    BY <1>1, <1>2, Onwards
  <1>4. me.linked => \A s \in Procs : proc'[s].pc # "initialized"
    BY <1>2, <1>3 DEF InitialiserInv, InitSound
  <1>5. ~ me.linked /\ (me.made # {} \/ me.temp) => "config" \notin entries[root]
    BY <1>2 DEF InitSound, InitPoints
  <1>6. InitSound(p, x)'
    BY <1>2, <1>3, <1>4, <1>5 DEF InitSound, Bound, disk
  <1>7. x.pc \in InitPoints
    BY <1>3 DEF InitPoints
  <1> QED BY <1>3, <1>6, <1>7, UntouchedKeeps

(* A file operation that fails makes the initialiser give up.              *)
LEMMA OperationFailsKeeps ==
  ASSUME InitialiserInv, NEW p \in Procs, OperationFails(p)
  PROVE  InitialiserInv'
  <1>1. proc[p].pc \in InitPoints
    BY DEF OperationFails, InitPoints
  <1>2. "inodes" \in DOMAIN left' /\ left'.inodes = left.inodes
    BY <1>1, InsiderIs DEF OperationFails
  <1>3. Goto(p, At("rollback")) /\ UNCHANGED disk /\ files' = files
    BY DEF OperationFails
  <1> QED BY <1>1, <1>2, <1>3, GivingUpKeeps

(* The directory is the resolved one, the one found, or a new one.         *)
LEMMA MakeDirectoryKeeps ==
  ASSUME InitialiserInv, NEW p \in Procs, MakeDirectory(p)
  PROVE  InitialiserInv'
  <1>1. proc[p].pc \in InitPoints /\ proc[p].pc = "mkdir"
    BY DEF MakeDirectory, In, InitPoints
  <1>2. PICK me : me = proc[p]
    OBVIOUS
  <1>3. DiskSound /\ InitSound(p, me) /\ DOMAIN proc = Procs /\ "inodes" \in DOMAIN left
    BY <1>1, <1>2, InsiderIs
  <1>4. UNCHANGED <<entries, config, flock, files>>
    BY DEF MakeDirectory
  <1>5. me.pc = "mkdir" /\ ~ me.locked /\ me.made = {} /\ ~ me.temp /\ ~ me.linked /\ flock # p
    BY <1>1, <1>2, <1>3 DEF InitSound
  <1>6. ASSUME NEW d \in 1 .. MaxInode, NEW x, x = [f \in InitFields |-> x[f]], x.pc = "entries",
               x.dir = d, x.config = me.config, x.caller = me.caller, x.made = me.made,
               x.temp = me.temp, x.linked = me.linked, x.locked = me.locked
        PROVE  InitSound(p, x)' /\ ProcSound(p, x)' /\ x.pc \in InitPoints
    <2>1. d \in 0 .. MaxInode /\ d # 0
      OBVIOUS
    <2>2. InitSound(p, x)'
      BY <1>3, <1>4, <1>5, <1>6, <2>1 DEF InitSound
    <2> QED BY <1>6, <2>2 DEF ProcSound, InitPoints, OtherPoints
  <1>7. CASE me.resolved # 0 /\ me.resolved # root
    <2>1. Goto(p, At("rollback")) /\ UNCHANGED <<root, left>>
      BY <1>2, <1>7 DEF MakeDirectory
    <2> QED BY <1>1, <1>3, <1>4, <2>1, GivingUpKeeps DEF disk
  <1>8. CASE ~ (me.resolved # 0 /\ me.resolved # root) /\ root # 0
    <2> DEFINE c == [pc |-> "entries", dir |-> root]
    <2>1. Goto(p, c) /\ UNCHANGED <<root, left>>
      BY <1>2, <1>8 DEF MakeDirectory
    <2>2. DOMAIN c = {"pc", "dir"} /\ c.pc = "entries" /\ c.dir = root
      OBVIOUS
    <2> HIDE DEF c
    <2>3. DOMAIN c \subseteq InitFields
      BY <2>2 DEF InitFields
    <2>4. PICK x : /\ proc' = [proc EXCEPT ![p] = x]
                   /\ x = [f \in InitFields |-> x[f]]
                   /\ \A f \in InitFields : x[f] = IF f \in DOMAIN c THEN c[f] ELSE me[f]
      BY <1>2, <1>3, <2>1, <2>3, Advance
    <2>5. /\ x.pc = "entries" /\ x.dir = root /\ x.config = me.config /\ x.caller = me.caller
          /\ x.made = me.made /\ x.temp = me.temp /\ x.linked = me.linked /\ x.locked = me.locked
      BY <2>2, <2>4 DEF InitFields
    <2>6. root \in 1 .. MaxInode
      BY <1>3, <1>8, ProcessAssumption DEF DiskSound
    <2>7. InitSound(p, x)' /\ x.pc \in InitPoints
      BY <1>6, <2>4, <2>5, <2>6
    <2> QED BY <1>3, <1>4, <2>1, <2>4, <2>7, UntouchedKeeps DEF disk
  <1>9. CASE ~ (me.resolved # 0 /\ me.resolved # root) /\ root = 0
    <2>1. PICK d : d = MaxInode - left.inodes + 1
      OBVIOUS
    <2> DEFINE c == [pc |-> "entries", dir |-> d, owned |-> TRUE]
    <2>2. /\ left.inodes > 0 /\ root' = d /\ left' = [left EXCEPT !.inodes = @ - 1]
          /\ Goto(p, c)
      BY <1>2, <1>9, <2>1 DEF MakeDirectory
    <2>3. DOMAIN c = {"pc", "dir", "owned"} /\ c.pc = "entries" /\ c.dir = d
      OBVIOUS
    <2> HIDE DEF c
    <2>4. DOMAIN c \subseteq InitFields
      BY <2>3 DEF InitFields
    <2>5. PICK x : /\ proc' = [proc EXCEPT ![p] = x]
                   /\ x = [f \in InitFields |-> x[f]]
                   /\ \A f \in InitFields : x[f] = IF f \in DOMAIN c THEN c[f] ELSE me[f]
      BY <1>2, <1>3, <2>2, <2>4, Advance
    <2>6. /\ x.pc = "entries" /\ x.dir = d /\ x.config = me.config /\ x.caller = me.caller
          /\ x.made = me.made /\ x.temp = me.temp /\ x.linked = me.linked /\ x.locked = me.locked
      BY <2>3, <2>5 DEF InitFields
    <2>7. left.inodes \in 0 .. MaxInode /\ d \in 1 .. MaxInode
          /\ left'.inodes = left.inodes - 1 /\ "inodes" \in DOMAIN left'
      BY <1>3, <2>1, <2>2, ProcessAssumption DEF DiskSound
    <2>8. ProcSound(p, x)'
      BY <1>6, <2>5, <2>6, <2>7
    <2>9. entries[d] = {}
      BY <1>3, <2>1, <2>7, ProcessAssumption DEF DiskSound, Inodes
    <2>10. left'.inodes \in 0 .. MaxInode /\ d <= MaxInode - left'.inodes /\ d \in 0 .. MaxInode
           /\ \A i \in Inodes : i > MaxInode - left'.inodes => i > MaxInode - left.inodes
      BY <2>1, <2>2, <2>7, ProcessAssumption DEF Inodes
    <2>11. RootSound'
      BY <1>4, <2>2, <2>9 DEF RootSound
    <2>12. DiskSound'
      BY <1>3, <1>4, <2>2, <2>7, <2>10, <2>11 DEF DiskSound
    <2>13. Courteous(p, x)
      BY <1>4, <1>9, <2>6 DEF Courteous
    <2> QED BY <2>5, <2>8, <2>12, <2>13, StepKeeps
  <1> QED BY <1>7, <1>8, <1>9

(* A foreign directory is given up before anything is written.             *)
LEMMA CheckEntriesKeeps ==
  ASSUME InitialiserInv, NEW p \in Procs, CheckEntries(p)
  PROVE  InitialiserInv'
  <1>1. proc[p].pc \in InitPoints /\ proc[p].pc = "entries"
    BY DEF CheckEntries, In, InitPoints
  <1>2. PICK me : me = proc[p]
    OBVIOUS
  <1>3. InitSound(p, me) /\ me.pc = "entries" /\ "inodes" \in DOMAIN left
    BY <1>1, <1>2, InsiderIs
  <1>4. UNCHANGED disk /\ files' = files /\ left' = left
    BY DEF CheckEntries
  <1>5. Goto(p, At("rollback")) \/ Goto(p, At("lock"))
    BY DEF CheckEntries
  <1>6. CASE Goto(p, At("rollback"))
    BY <1>1, <1>3, <1>4, <1>6, GivingUpKeeps
  <1>7. CASE Goto(p, At("lock"))
    <2>1. PICK x : /\ proc' = [proc EXCEPT ![p] = x]
                   /\ x = [f \in InitFields |-> x[f]] /\ x.pc = "lock"
                   /\ x.config = me.config /\ x.caller = me.caller /\ x.dir = me.dir
                   /\ x.made = me.made /\ x.temp = me.temp /\ x.linked = me.linked
                   /\ x.locked = me.locked
      BY <1>2, <1>3, <1>7, Onwards
    <2>2. InitSound(p, x)'
      BY <1>3, <1>4, <2>1 DEF InitSound, disk
    <2>3. x.pc \in InitPoints
      BY <2>1 DEF InitPoints
    <2> QED BY <1>3, <1>4, <2>1, <2>2, <2>3, UntouchedKeeps
  <1> QED BY <1>5, <1>6, <1>7

(* Writing into the directory at the path.                                 *)
LEMMA DiskWritten ==
  ASSUME DiskSound, root # 0, NEW T, T \subseteq Names, "lock" \in T,
         "tables" \in T => "databases" \in T, "config" \in T => Layout \subseteq T,
         entries' = [entries EXCEPT ![root] = T], root' = root, config' \in Configs \cup {None},
         flock' \in Procs \cup {None}, UNCHANGED <<files, left>>
  PROVE  DiskSound' /\ entries'[root] = T /\ entries'[root'] = T
  <1>1. root \in Inodes
    BY DEF DiskSound, Inodes
  <1>2. entries' \in [Inodes -> SUBSET Names] /\ entries'[root] = T
        /\ \A i \in Inodes : i # root => entries'[i] = entries[i]
    BY <1>1 DEF DiskSound
  <1>3. RootSound'
    BY <1>2 DEF RootSound
  <1>4. \A i \in Inodes : i > MaxInode - left'.inodes => entries'[i] = {}
    BY <1>1, <1>2, ProcessAssumption DEF DiskSound, Inodes
  <1> QED BY <1>2, <1>3, <1>4 DEF DiskSound

(* A step of the process that locks the repository, or holds its lock.     *)
LEMMA WritingKeeps ==
  ASSUME InitialiserInv, NEW p \in Procs, root # 0, NEW T, T \subseteq Names, "lock" \in T,
         "tables" \in T => "databases" \in T, "config" \in T => Layout \subseteq T,
         "databases" \in entries[root] => "databases" \in T,
         entries' = [entries EXCEPT ![root] = T], root' = root, config' \in Configs \cup {None},
         UNCHANGED <<files, left>>,
         flock' = flock \/ (flock = None /\ flock' = p) \/ (flock = p /\ flock' = None),
         flock # p => config' = config /\ \A n \in Kept : n \in T <=> n \in entries[root],
         "config" \in entries[root] /\ ("config" \notin T \/ config' # config) =>
            \A q \in Procs : proc[q].pc # "initialized",
         NEW x, proc' = [proc EXCEPT ![p] = x], x.pc = "initialized" => flock = p,
         ProcSound(p, x)'
  PROVE  InitialiserInv'
  <1>1. DiskSound
    BY DEF InitialiserInv
  <1>2. flock' \in Procs \cup {None}
    BY <1>1 DEF DiskSound
  <1>3. DiskSound' /\ entries'[root] = T
    BY <1>1, <1>2, DiskWritten
  <1>4. Courteous(p, x)
    BY <1>3 DEF Courteous
  <1> QED BY <1>3, <1>4, StepKeeps

(* The directory at the path is written to by name.                        *)
LEMMA WrittenIs ==
  ASSUME DiskSound, root # 0, NEW T, entries' = [entries EXCEPT ![root] = T]
  PROVE  entries'[root] = T /\ entries[root] \subseteq Names
  <1>1. root \in Inodes
    BY DEF DiskSound, Inodes
  <1> QED BY <1>1 DEF DiskSound

(* The lock file comes first.                                              *)
LEMMA OpenLockKeeps ==
  ASSUME InitialiserInv, NEW p \in Procs, OpenLock(p)
  PROVE  InitialiserInv'
  <1>1. proc[p].pc \in InitPoints /\ proc[p].pc = "lock"
    BY DEF OpenLock, In, InitPoints
  <1>2. PICK me : me = proc[p]
    OBVIOUS
  <1>3. DiskSound /\ InitSound(p, me) /\ me.pc = "lock" /\ "inodes" \in DOMAIN left
    BY <1>1, <1>2, InsiderIs
  <1>4. UNCHANGED <<root, config, flock, files, left>>
    BY DEF OpenLock
  <1>5. CASE ~ _verify_complete_binding(me.dir)
    <2>1. Goto(p, At("rollback")) /\ entries' = entries
      BY <1>2, <1>5 DEF OpenLock
    <2> QED BY <1>1, <1>3, <1>4, <2>1, GivingUpKeeps DEF disk
  <1>6. CASE _verify_complete_binding(me.dir)
    <2>1. entries' = [entries EXCEPT ![root] = @ \cup {"lock"}] /\ Goto(p, At("flock"))
      BY <1>2, <1>6 DEF OpenLock
    <2>2. PICK T : T = entries[root] \cup {"lock"}
      OBVIOUS
    <2>3. entries' = [entries EXCEPT ![root] = T]
      BY <2>1, <2>2
    <2>4. me.dir = root /\ root # 0
      BY <1>3, <1>6 DEF _verify_complete_binding, InitSound
    <2>5. entries'[root] = T /\ entries[root] \subseteq Names
      BY <1>3, <2>3, <2>4, WrittenIs
    <2>6. /\ T \subseteq Names /\ "lock" \in T
          /\ "tables" \in T => "databases" \in T
          /\ "config" \in T => Layout \subseteq T
          /\ "databases" \in entries[root] => "databases" \in T
          /\ \A n \in Kept : n \in T <=> n \in entries[root]
      BY <1>3, <2>2, <2>4, <2>5 DEF DiskSound, RootSound, Kept, Layout, Names, AllowedRecovery
    <2>7. PICK x : /\ proc' = [proc EXCEPT ![p] = x]
                   /\ x = [f \in InitFields |-> x[f]] /\ x.pc = "flock"
                   /\ x.config = me.config /\ x.caller = me.caller /\ x.dir = me.dir
                   /\ x.made = me.made /\ x.temp = me.temp /\ x.linked = me.linked
                   /\ x.locked = me.locked
      BY <1>2, <1>3, <2>1, Onwards
    <2>8. Bound(x)'
      BY <1>4, <2>4, <2>5, <2>6, <2>7 DEF Bound
    <2>9. InitSound(p, x)'
      BY <1>3, <1>4, <2>7, <2>8 DEF InitSound
    <2>10. ProcSound(p, x)' /\ x.pc # "initialized"
      BY <2>7, <2>9 DEF ProcSound, InitPoints, OtherPoints
    <2>11. config' \in Configs \cup {None}
      BY <1>3, <1>4 DEF DiskSound
    <2>12. "config" \in T <=> "config" \in entries[root]
      BY <2>6 DEF Kept
    <2> QED BY <1>4, <2>3, <2>4, <2>6, <2>7, <2>10, <2>11, <2>12, WritingKeeps
  <1> QED BY <1>5, <1>6

(* Whoever locks the repository has made nothing yet.                      *)
LEMMA LockRepositoryKeeps ==
  ASSUME InitialiserInv, NEW p \in Procs, LockRepository(p)
  PROVE  InitialiserInv'
  <1>1. proc[p].pc \in InitPoints /\ proc[p].pc = "flock"
    BY DEF LockRepository, In, InitPoints
  <1>2. PICK me : me = proc[p]
    OBVIOUS
  <1>3. DiskSound /\ InitSound(p, me) /\ me.pc = "flock"
    BY <1>1, <1>2, InsiderIs
  <1>4. UNCHANGED <<root, entries, config, files, left>> /\ flock = None /\ flock' = p
    BY DEF LockRepository
  <1> DEFINE c == [pc |-> IF LockIsBound(p) THEN "config" ELSE "rollback", locked |-> TRUE]
  <1>5. Goto(p, c)
    BY DEF LockRepository
  <1>6. DOMAIN c = {"pc", "locked"} /\ c.pc = "config" /\ c.locked = TRUE
    BY <1>2, <1>3 DEF LockIsBound, InitSound, Bound
  <1> HIDE DEF c
  <1>7. DOMAIN c \subseteq InitFields
    BY <1>6 DEF InitFields
  <1>8. PICK x : /\ proc' = [proc EXCEPT ![p] = x]
                 /\ x = [f \in InitFields |-> x[f]]
                 /\ \A f \in InitFields : x[f] = IF f \in DOMAIN c THEN c[f] ELSE me[f]
    BY <1>2, <1>3, <1>5, <1>7, Advance
  <1>9. /\ x.pc = "config" /\ x.dir = me.dir /\ x.config = me.config /\ x.caller = me.caller
        /\ x.made = me.made /\ x.temp = me.temp /\ x.linked = me.linked /\ x.locked = TRUE
    BY <1>6, <1>8 DEF InitFields
  <1>10. Bound(me) /\ me.made = {} /\ ~ me.temp /\ ~ me.linked
    BY <1>3 DEF InitSound
  <1>11. Bound(x)'
    BY <1>4, <1>9, <1>10 DEF Bound
  <1>12. InitSound(p, x)'
    BY <1>3, <1>4, <1>8, <1>9, <1>10, <1>11 DEF InitSound
  <1>13. ProcSound(p, x)' /\ x.pc # "initialized"
    BY <1>9, <1>12 DEF ProcSound, InitPoints, OtherPoints
  <1>14. DiskSound'
    BY <1>3, <1>4 DEF DiskSound, RootSound
  <1>15. Courteous(p, x)
    BY <1>4, <1>13 DEF Courteous
  <1> QED BY <1>8, <1>13, <1>14, <1>15, StepKeeps

(* What the holder of the lock knows.                                      *)
LEMMA HolderIs ==
  ASSUME InitialiserInv, NEW p \in Procs, NEW me, me = proc[p], me.pc \in InitPoints, me.locked
  PROVE  /\ DiskSound /\ InitSound(p, me) /\ flock = p
         /\ root # 0 /\ me.dir = root
         /\ entries[root] \subseteq Names /\ "lock" \in entries[root]
         /\ "tables" \in entries[root] => "databases" \in entries[root]
         /\ "config" \in entries[root] => Layout \subseteq entries[root]
  <1>1. DiskSound /\ InitSound(p, me)
    BY InsiderIs
  <1>2. flock = p /\ root # 0 /\ me.dir = root /\ "lock" \in entries[root]
    BY <1>1 DEF InitSound, Bound
  <1>3. root \in Inodes
    BY <1>1, <1>2 DEF DiskSound, Inodes
  <1> QED BY <1>1, <1>2, <1>3 DEF DiskSound, RootSound

(* The answer of an initialisation that succeeded, and of one that failed. *)
LEMMA ReturnIs ==
  ASSUME NEW p \in Procs, NEW me, me = proc[p], InitSound(p, me), InitReturns(p)
  PROVE  \E x : /\ proc' = [proc EXCEPT ![p] = x] /\ "pc" \in DOMAIN x
                /\ x.pc = "next" \/ (x.pc = "initialized" /\ x.config = me.config)
  <1>1. CASE me.caller = None
    <2>1. PICK x : x = [pc |-> "initialized", config |-> me.config]
      OBVIOUS
    <2>2. proc' = [proc EXCEPT ![p] = x]
      BY <1>1, <2>1 DEF InitReturns
    <2>3. "pc" \in DOMAIN x /\ x.pc = "initialized" /\ x.config = me.config
      BY <2>1
    <2> QED BY <2>2, <2>3
  <1>2. CASE me.caller # None
    <2>1. Complete(p, me.caller) /\ "pc" \in DOMAIN me.caller
      BY <1>2 DEF InitReturns, InitSound
    <2> QED BY <2>1, CompleteIs
  <1> QED BY <1>1, <1>2

(* Whoever is answered finds the configuration it asked for.               *)
LEMMA ReturnedIs ==
  ASSUME NEW p, NEW x, "pc" \in DOMAIN x, NEW c,
         x.pc = "next" \/ (x.pc = "initialized" /\ x.config = c),
         flock' # p, root' # 0, "config" \in entries'[root'], config' = c
  PROVE  ProcSound(p, x)'
  BY DEF ProcSound, OtherSound, OtherPoints, InitPoints

(* A failed initialisation ends the command or the apply.                  *)
LEMMA FailureIs ==
  ASSUME NEW p \in Procs, InitFails(p)
  PROVE  proc' = [proc EXCEPT ![p] = Idle]
  BY ConflictIs DEF InitFails

(* A process that has ended holds nothing.                                 *)
LEMMA IdleSound ==
  ASSUME NEW p, flock' # p
  PROVE  ProcSound(p, Idle)' /\ Idle.pc # "initialized"
  BY DEF ProcSound, OtherSound, OtherPoints, InitPoints, Idle

(* Removing the temporary keeps everything else.                           *)
LEMMA TemporaryRemoved ==
  ASSUME NEW T, T = entries[root] \ {"temporary"}, "lock" \in entries[root],
         entries[root] \subseteq Names,
         "tables" \in entries[root] => "databases" \in entries[root],
         "config" \in entries[root] => Layout \subseteq entries[root]
  PROVE  /\ T \subseteq Names /\ "lock" \in T
         /\ "tables" \in T => "databases" \in T
         /\ "config" \in T => Layout \subseteq T
         /\ "databases" \in entries[root] => "databases" \in T
         /\ "config" \in T <=> "config" \in entries[root]
         /\ \A n \in Kept : n \in T <=> n \in entries[root]
  BY DEF Kept, Layout

(* Under the lock: complete already, in conflict, or to be laid out.       *)
LEMMA ReadConfigKeeps ==
  ASSUME InitialiserInv, NEW p \in Procs, ReadConfig(p)
  PROVE  InitialiserInv'
  <1>1. proc[p].pc \in InitPoints /\ proc[p].pc = "config"
    BY DEF ReadConfig, In, InitPoints
  <1>2. PICK me : me = proc[p]
    OBVIOUS
  <1>3. me.pc = "config" /\ me.pc \in InitPoints /\ me.locked /\ "inodes" \in DOMAIN left
        /\ me.made = {} /\ ~ me.temp /\ ~ me.linked
    BY <1>1, <1>2, InsiderIs DEF InitSound
  <1>4. /\ DiskSound /\ InitSound(p, me) /\ flock = p
        /\ root # 0 /\ me.dir = root
        /\ entries[root] \subseteq Names /\ "lock" \in entries[root]
        /\ "tables" \in entries[root] => "databases" \in entries[root]
        /\ "config" \in entries[root] => Layout \subseteq entries[root]
    BY <1>2, <1>3, HolderIs
  <1>5. UNCHANGED <<root, config, files, left>>
    BY DEF ReadConfig
  <1>6. config' \in Configs \cup {None} /\ config' = config
    BY <1>4, <1>5 DEF DiskSound
  <1>7. PICK T : T = entries[root] \ {"temporary"}
    OBVIOUS
  <1>8. /\ T \subseteq Names /\ "lock" \in T
        /\ "tables" \in T => "databases" \in T
        /\ "config" \in T => Layout \subseteq T
        /\ "databases" \in entries[root] => "databases" \in T
        /\ "config" \in T <=> "config" \in entries[root]
        /\ \A n \in Kept : n \in T <=> n \in entries[root]
    BY <1>4, <1>7, TemporaryRemoved
  <1>9. _remove_temporary(me.dir) = [entries EXCEPT ![root] = T]
    BY <1>4, <1>7 DEF _remove_temporary
  <1>10. _read_config(me.dir) # None => "config" \in entries[root] /\ _read_config(me.dir) = config
    BY <1>4 DEF _read_config
  <1>11. \/ /\ _read_config(me.dir) # None /\ _read_config(me.dir) = me.config
            /\ entries' = _remove_temporary(me.dir) /\ flock' = None /\ InitReturns(p)
         \/ Goto(p, At("rollback")) /\ UNCHANGED <<entries, flock>>
         \/ /\ flock' = flock /\ entries[me.dir] \subseteq AllowedRecovery
            /\ entries' = _remove_temporary(me.dir) /\ Goto(p, At("layout"))
    BY <1>2 DEF ReadConfig
  <1>12. ASSUME _read_config(me.dir) # None, _read_config(me.dir) = me.config,
                entries' = _remove_temporary(me.dir), flock' = None, InitReturns(p)
         PROVE  InitialiserInv'
    <2>1. PICK x : /\ proc' = [proc EXCEPT ![p] = x] /\ "pc" \in DOMAIN x
                   /\ x.pc = "next" \/ (x.pc = "initialized" /\ x.config = me.config)
      BY <1>2, <1>4, <1>12, ReturnIs
    <2>2. entries' = [entries EXCEPT ![root] = T]
      BY <1>9, <1>12
    <2>3. entries'[root] = T
      BY <1>4, <2>2, WrittenIs
    <2>4. "config" \in entries'[root'] /\ root' # 0 /\ config' = me.config
      BY <1>4, <1>5, <1>8, <1>10, <1>12, <2>3
    <2>5. flock' # p
      BY <1>12, ProcessAssumption
    <2>6. ProcSound(p, x)'
      BY <2>1, <2>4, <2>5, ReturnedIs
    <2> QED BY <1>4, <1>5, <1>6, <1>8, <1>12, <2>1, <2>2, <2>6, WritingKeeps
  <1>13. ASSUME Goto(p, At("rollback")), UNCHANGED <<entries, flock>>
         PROVE  InitialiserInv'
    BY <1>1, <1>3, <1>5, <1>13, GivingUpKeeps DEF disk
  <1>14. ASSUME flock' = flock, entries[me.dir] \subseteq AllowedRecovery,
                entries' = _remove_temporary(me.dir), Goto(p, At("layout"))
         PROVE  InitialiserInv'
    <2>1. PICK x : /\ proc' = [proc EXCEPT ![p] = x]
                   /\ x = [f \in InitFields |-> x[f]] /\ x.pc = "layout"
                   /\ x.config = me.config /\ x.caller = me.caller /\ x.dir = me.dir
                   /\ x.made = me.made /\ x.temp = me.temp /\ x.linked = me.linked
                   /\ x.locked = me.locked
      BY <1>2, <1>4, <1>14, Onwards
    <2>2. entries' = [entries EXCEPT ![root] = T]
      BY <1>9, <1>14
    <2>3. entries'[root] = T
      BY <1>4, <2>2, WrittenIs
    <2>4. "config" \notin entries'[root']
      BY <1>4, <1>5, <1>8, <1>14, <2>3 DEF AllowedRecovery, Layout
    <2>5. Bound(x)'
      BY <1>4, <1>5, <1>8, <2>1, <2>3 DEF Bound
    <2>6. InitSound(p, x)'
      BY <1>3, <1>4, <1>14, <2>1, <2>4, <2>5 DEF InitSound
    <2>7. ProcSound(p, x)' /\ x.pc # "initialized"
      BY <2>1, <2>6 DEF ProcSound, InitPoints, OtherPoints
    <2> QED BY <1>4, <1>5, <1>6, <1>8, <1>14, <2>1, <2>2, <2>7, WritingKeeps
  <1> QED BY <1>11, <1>12, <1>13, <1>14

(* The layout grows one directory at a time.                               *)
LEMMA EnsureDirectoryKeeps ==
  ASSUME InitialiserInv, NEW p \in Procs, EnsureDirectory(p)
  PROVE  InitialiserInv'
  <1>1. proc[p].pc \in InitPoints /\ proc[p].pc = "layout"
    BY DEF EnsureDirectory, In, InitPoints
  <1>2. PICK me : me = proc[p]
    OBVIOUS
  <1>3. me.pc = "layout" /\ me.pc \in InitPoints /\ me.locked /\ "inodes" \in DOMAIN left
        /\ "config" \notin entries[root]
    BY <1>1, <1>2, InsiderIs DEF InitSound
  <1>4. /\ DiskSound /\ InitSound(p, me) /\ flock = p
        /\ root # 0 /\ me.dir = root
        /\ entries[root] \subseteq Names /\ "lock" \in entries[root]
        /\ "tables" \in entries[root] => "databases" \in entries[root]
        /\ "config" \in entries[root] => Layout \subseteq entries[root]
    BY <1>2, <1>3, HolderIs
  <1>5. UNCHANGED <<root, config, flock, files, left>>
    BY DEF EnsureDirectory
  <1>6. config' \in Configs \cup {None} /\ ~ me.linked
    BY <1>3, <1>4, <1>5 DEF DiskSound, InitSound
  <1>7. CASE Layout \ entries[root] = {}
    <2>1. Goto(p, At("temporary")) /\ entries' = entries
      BY <1>2, <1>4, <1>7 DEF EnsureDirectory
    <2>2. PICK x : /\ proc' = [proc EXCEPT ![p] = x]
                   /\ x = [f \in InitFields |-> x[f]] /\ x.pc = "temporary"
                   /\ x.config = me.config /\ x.caller = me.caller /\ x.dir = me.dir
                   /\ x.made = me.made /\ x.temp = me.temp /\ x.linked = me.linked
                   /\ x.locked = me.locked
      BY <1>2, <1>4, <2>1, Onwards
    <2>3. Layout \subseteq entries[root]
      BY <1>7
    <2>4. InitSound(p, x)'
      BY <1>3, <1>4, <1>5, <1>6, <2>1, <2>2, <2>3 DEF InitSound, Bound
    <2>5. x.pc \in InitPoints
      BY <2>2 DEF InitPoints
    <2> QED BY <1>3, <1>5, <2>1, <2>2, <2>4, <2>5, UntouchedKeeps DEF disk
  <1>8. CASE Layout \ entries[root] # {}
    <2>1. PICK name : name = CHOOSE n \in Layout \ entries[root] : TRUE
      OBVIOUS
    <2>2. name \in Layout
      BY <1>8, <2>1
    <2> DEFINE c == [made |-> me.made \cup {name}]
    <2>3. entries' = [entries EXCEPT ![root] = @ \cup {name}] /\ Goto(p, c)
      BY <1>2, <1>4, <1>8, <2>1 DEF EnsureDirectory
    <2>4. DOMAIN c = {"made"} /\ c.made = me.made \cup {name}
      OBVIOUS
    <2> HIDE DEF c
    <2>5. DOMAIN c \subseteq InitFields
      BY <2>4 DEF InitFields
    <2>6. PICK x : /\ proc' = [proc EXCEPT ![p] = x]
                   /\ x = [f \in InitFields |-> x[f]]
                   /\ \A f \in InitFields : x[f] = IF f \in DOMAIN c THEN c[f] ELSE me[f]
      BY <1>2, <1>4, <2>3, <2>5, Advance
    <2>7. /\ x.pc = "layout" /\ x.dir = me.dir /\ x.config = me.config /\ x.caller = me.caller
          /\ x.made = me.made \cup {name} /\ x.temp = me.temp /\ x.linked = me.linked
          /\ x.locked = me.locked
      BY <1>3, <2>4, <2>6 DEF InitFields
    <2>8. PICK T : T = entries[root] \cup {name}
      OBVIOUS
    <2>9. entries' = [entries EXCEPT ![root] = T]
      BY <2>3, <2>8
    <2>10. entries'[root] = T
      BY <1>4, <2>9, WrittenIs
    <2>11. /\ T \subseteq Names /\ "lock" \in T
           /\ "tables" \in T => "databases" \in T
           /\ "config" \notin T
           /\ "databases" \in entries[root] => "databases" \in T
      BY <1>3, <1>4, <2>2, <2>8 DEF Layout, Names, AllowedRecovery
    <2>12. Bound(x)'
      BY <1>4, <1>5, <2>7, <2>10, <2>11 DEF Bound
    <2>13. x.made \subseteq Layout
      BY <1>4, <2>2, <2>7 DEF InitSound
    <2>14. InitSound(p, x)'
      BY <1>3, <1>4, <1>5, <1>6, <2>6, <2>7, <2>10, <2>11, <2>12, <2>13 DEF InitSound
    <2>15. ProcSound(p, x)' /\ x.pc # "initialized"
      BY <2>7, <2>14 DEF ProcSound, InitPoints, OtherPoints
    <2> QED BY <1>3, <1>4, <1>5, <1>6, <2>6, <2>9, <2>11, <2>15, WritingKeeps
  <1> QED BY <1>7, <1>8

(* The configuration is written aside once the layout is there.            *)
LEMMA WriteTemporaryKeeps ==
  ASSUME InitialiserInv, NEW p \in Procs, WriteTemporary(p)
  PROVE  InitialiserInv'
  <1>1. proc[p].pc \in InitPoints /\ proc[p].pc = "temporary"
    BY DEF WriteTemporary, In, InitPoints
  <1>2. PICK me : me = proc[p]
    OBVIOUS
  <1>3. me.pc = "temporary" /\ me.pc \in InitPoints /\ me.locked
        /\ "config" \notin entries[root] /\ Layout \subseteq entries[root] /\ ~ me.linked
    BY <1>1, <1>2, InsiderIs DEF InitSound
  <1>4. /\ DiskSound /\ InitSound(p, me) /\ flock = p
        /\ root # 0 /\ me.dir = root
        /\ entries[root] \subseteq Names /\ "lock" \in entries[root]
        /\ "tables" \in entries[root] => "databases" \in entries[root]
        /\ "config" \in entries[root] => Layout \subseteq entries[root]
    BY <1>2, <1>3, HolderIs
  <1>5. UNCHANGED <<root, config, flock, files, left>>
    BY DEF WriteTemporary
  <1>6. config' \in Configs \cup {None}
    BY <1>4, <1>5 DEF DiskSound
  <1> DEFINE c == [pc |-> "link", temp |-> TRUE]
  <1>7. entries' = [entries EXCEPT ![root] = @ \cup {"temporary"}] /\ Goto(p, c)
    BY <1>2, <1>4 DEF WriteTemporary
  <1>8. DOMAIN c = {"pc", "temp"} /\ c.pc = "link" /\ c.temp = TRUE
    OBVIOUS
  <1> HIDE DEF c
  <1>9. DOMAIN c \subseteq InitFields
    BY <1>8 DEF InitFields
  <1>10. PICK x : /\ proc' = [proc EXCEPT ![p] = x]
                  /\ x = [f \in InitFields |-> x[f]]
                  /\ \A f \in InitFields : x[f] = IF f \in DOMAIN c THEN c[f] ELSE me[f]
    BY <1>2, <1>4, <1>7, <1>9, Advance
  <1>11. /\ x.pc = "link" /\ x.dir = me.dir /\ x.config = me.config /\ x.caller = me.caller
         /\ x.made = me.made /\ x.temp = TRUE /\ x.linked = me.linked /\ x.locked = me.locked
    BY <1>8, <1>10 DEF InitFields
  <1>12. PICK T : T = entries[root] \cup {"temporary"}
    OBVIOUS
  <1>13. entries' = [entries EXCEPT ![root] = T]
    BY <1>7, <1>12
  <1>14. entries'[root] = T
    BY <1>4, <1>13, WrittenIs
  <1>15. /\ T \subseteq Names /\ "lock" \in T
         /\ "tables" \in T => "databases" \in T
         /\ "config" \notin T /\ Layout \subseteq T
         /\ "databases" \in entries[root] => "databases" \in T
    BY <1>3, <1>4, <1>12 DEF Names, AllowedRecovery
  <1>16. Bound(x)'
    BY <1>4, <1>5, <1>11, <1>14, <1>15 DEF Bound
  <1>17. InitSound(p, x)'
    BY <1>3, <1>4, <1>5, <1>10, <1>11, <1>14, <1>15, <1>16 DEF InitSound
  <1>18. ProcSound(p, x)' /\ x.pc # "initialized"
    BY <1>11, <1>17 DEF ProcSound, InitPoints, OtherPoints
  <1> QED BY <1>3, <1>4, <1>5, <1>6, <1>10, <1>13, <1>15, <1>18, WritingKeeps

(* The configuration appears at once, in a complete layout.                *)
LEMMA LinkConfigKeeps ==
  ASSUME InitialiserInv, NEW p \in Procs, LinkConfig(p)
  PROVE  InitialiserInv'
  <1>1. proc[p].pc \in InitPoints /\ proc[p].pc = "link"
    BY DEF LinkConfig, In, InitPoints
  <1>2. PICK me : me = proc[p]
    OBVIOUS
  <1>3. me.pc = "link" /\ me.pc \in InitPoints /\ me.locked
        /\ "config" \notin entries[root] /\ Layout \subseteq entries[root] /\ ~ me.linked
    BY <1>1, <1>2, InsiderIs DEF InitSound
  <1>4. /\ DiskSound /\ InitSound(p, me) /\ flock = p
        /\ root # 0 /\ me.dir = root
        /\ entries[root] \subseteq Names /\ "lock" \in entries[root]
        /\ "tables" \in entries[root] => "databases" \in entries[root]
        /\ "config" \in entries[root] => Layout \subseteq entries[root]
    BY <1>2, <1>3, HolderIs
  <1>5. UNCHANGED <<root, flock, files, left>> /\ config' = me.config
    BY <1>2 DEF LinkConfig
  <1>6. config' \in Configs \cup {None}
    BY <1>4, <1>5 DEF InitSound
  <1> DEFINE c == [pc |-> "finish", linked |-> TRUE]
  <1>7. entries' = [entries EXCEPT ![root] = @ \cup {"config"}] /\ Goto(p, c)
    BY <1>2, <1>4 DEF LinkConfig
  <1>8. DOMAIN c = {"pc", "linked"} /\ c.pc = "finish" /\ c.linked = TRUE
    OBVIOUS
  <1> HIDE DEF c
  <1>9. DOMAIN c \subseteq InitFields
    BY <1>8 DEF InitFields
  <1>10. PICK x : /\ proc' = [proc EXCEPT ![p] = x]
                  /\ x = [f \in InitFields |-> x[f]]
                  /\ \A f \in InitFields : x[f] = IF f \in DOMAIN c THEN c[f] ELSE me[f]
    BY <1>2, <1>4, <1>7, <1>9, Advance
  <1>11. /\ x.pc = "finish" /\ x.dir = me.dir /\ x.config = me.config /\ x.caller = me.caller
         /\ x.made = me.made /\ x.temp = me.temp /\ x.linked = TRUE /\ x.locked = me.locked
    BY <1>8, <1>10 DEF InitFields
  <1>12. PICK T : T = entries[root] \cup {"config"}
    OBVIOUS
  <1>13. entries' = [entries EXCEPT ![root] = T]
    BY <1>7, <1>12
  <1>14. entries'[root] = T
    BY <1>4, <1>13, WrittenIs
  <1>15. /\ T \subseteq Names /\ "lock" \in T
         /\ "tables" \in T => "databases" \in T
         /\ "config" \in T /\ Layout \subseteq T
         /\ "databases" \in entries[root] => "databases" \in T
    BY <1>3, <1>4, <1>12 DEF Names
  <1>16. Bound(x)'
    BY <1>4, <1>5, <1>11, <1>14, <1>15 DEF Bound
  \* Nobody has been answered, for there was no configuration.
  <1>17. \A q \in Procs : proc[q].pc # "initialized"
    BY <1>3 DEF InitialiserInv, ProcSound, OtherSound, OtherPoints
  <1>18. \A q \in Procs : proc'[q].pc # "initialized"
    BY <1>10, <1>11, <1>17 DEF InitialiserInv
  <1>19. InitSound(p, x)'
    BY <1>3, <1>4, <1>5, <1>10, <1>11, <1>14, <1>15, <1>16, <1>18 DEF InitSound
  <1>20. ProcSound(p, x)' /\ x.pc # "initialized"
    BY <1>11, <1>19 DEF ProcSound, InitPoints, OtherPoints
  <1> QED BY <1>3, <1>4, <1>5, <1>6, <1>10, <1>13, <1>15, <1>20, WritingKeeps

(* The initialiser answers for the configuration it linked.                *)
LEMMA FinishInitializeKeeps ==
  ASSUME InitialiserInv, NEW p \in Procs, FinishInitialize(p)
  PROVE  InitialiserInv'
  <1>1. proc[p].pc \in InitPoints /\ proc[p].pc = "finish"
    BY DEF FinishInitialize, In, InitPoints
  <1>2. PICK me : me = proc[p]
    OBVIOUS
  <1>3. me.pc = "finish" /\ me.pc \in InitPoints /\ me.locked
        /\ "config" \in entries[root] /\ config = me.config
    BY <1>1, <1>2, InsiderIs DEF InitSound
  <1>4. /\ DiskSound /\ InitSound(p, me) /\ flock = p
        /\ root # 0 /\ me.dir = root
        /\ entries[root] \subseteq Names /\ "lock" \in entries[root]
        /\ "tables" \in entries[root] => "databases" \in entries[root]
        /\ "config" \in entries[root] => Layout \subseteq entries[root]
    BY <1>2, <1>3, HolderIs
  <1>5. UNCHANGED <<root, config, files, left>> /\ flock' = None /\ InitReturns(p)
    BY <1>2, <1>3 DEF FinishInitialize, Release, Locked
  <1>6. config' \in Configs \cup {None}
    BY <1>4, <1>5 DEF DiskSound
  <1>7. PICK T : T = entries[root] \ {"temporary"}
    OBVIOUS
  <1>8. /\ T \subseteq Names /\ "lock" \in T
        /\ "tables" \in T => "databases" \in T
        /\ "config" \in T => Layout \subseteq T
        /\ "databases" \in entries[root] => "databases" \in T
        /\ "config" \in T <=> "config" \in entries[root]
        /\ \A n \in Kept : n \in T <=> n \in entries[root]
    BY <1>4, <1>7, TemporaryRemoved
  <1>9. entries' = [entries EXCEPT ![root] = T]
    BY <1>2, <1>4, <1>7 DEF FinishInitialize, _remove_temporary
  <1>10. entries'[root] = T
    BY <1>4, <1>9, WrittenIs
  <1>11. PICK x : /\ proc' = [proc EXCEPT ![p] = x] /\ "pc" \in DOMAIN x
                  /\ x.pc = "next" \/ (x.pc = "initialized" /\ x.config = me.config)
    BY <1>2, <1>4, <1>5, ReturnIs
  <1>12. "config" \in entries'[root'] /\ root' # 0 /\ config' = me.config
    BY <1>3, <1>4, <1>5, <1>8, <1>10
  <1>13. flock' # p
    BY <1>5, ProcessAssumption
  <1>14. ProcSound(p, x)'
    BY <1>11, <1>12, <1>13, ReturnedIs
  <1> QED BY <1>4, <1>5, <1>6, <1>8, <1>9, <1>11, <1>14, WritingKeeps

(* The configuration is taken back first, and nobody relied on it.         *)
LEMMA RollbackConfigKeeps ==
  ASSUME InitialiserInv, NEW p \in Procs, RollbackConfig(p)
  PROVE  InitialiserInv'
  <1>1. proc[p].pc \in InitPoints /\ proc[p].pc = "rollback"
    BY DEF RollbackConfig, In, InitPoints
  <1>2. PICK me : me = proc[p]
    OBVIOUS
  <1>3. me.linked
    BY <1>2 DEF RollbackConfig
  <1>4. me.pc = "rollback" /\ me.pc \in InitPoints /\ me.locked
        /\ \A q \in Procs : proc[q].pc # "initialized"
    BY <1>1, <1>2, <1>3, InsiderIs DEF InitSound
  <1>5. /\ DiskSound /\ InitSound(p, me) /\ flock = p
        /\ root # 0 /\ me.dir = root
        /\ entries[root] \subseteq Names /\ "lock" \in entries[root]
        /\ "tables" \in entries[root] => "databases" \in entries[root]
        /\ "config" \in entries[root] => Layout \subseteq entries[root]
    BY <1>2, <1>4, HolderIs
  <1>6. UNCHANGED <<root, config, flock, files, left>>
    BY DEF RollbackConfig
  <1>7. config' \in Configs \cup {None}
    BY <1>5, <1>6 DEF DiskSound
  <1> DEFINE c == [linked |-> FALSE]
  <1>8. entries' = [entries EXCEPT ![root] = @ \ {"config"}] /\ Goto(p, c)
    BY <1>2, <1>5 DEF RollbackConfig
  <1>9. DOMAIN c = {"linked"} /\ c.linked = FALSE
    OBVIOUS
  <1> HIDE DEF c
  <1>10. DOMAIN c \subseteq InitFields
    BY <1>9 DEF InitFields
  <1>11. PICK x : /\ proc' = [proc EXCEPT ![p] = x]
                  /\ x = [f \in InitFields |-> x[f]]
                  /\ \A f \in InitFields : x[f] = IF f \in DOMAIN c THEN c[f] ELSE me[f]
    BY <1>2, <1>5, <1>8, <1>10, Advance
  <1>12. /\ x.pc = me.pc /\ x.dir = me.dir /\ x.config = me.config /\ x.caller = me.caller
         /\ x.made = me.made /\ x.temp = me.temp /\ x.linked = FALSE /\ x.locked = me.locked
    BY <1>9, <1>11 DEF InitFields
  <1>13. PICK T : T = entries[root] \ {"config"}
    OBVIOUS
  <1>14. entries' = [entries EXCEPT ![root] = T]
    BY <1>8, <1>13
  <1>15. entries'[root] = T
    BY <1>5, <1>14, WrittenIs
  <1>16. /\ T \subseteq Names /\ "lock" \in T
         /\ "tables" \in T => "databases" \in T
         /\ "config" \notin T
         /\ "databases" \in entries[root] => "databases" \in T
    BY <1>5, <1>13
  <1>17. Bound(x)'
    BY <1>5, <1>6, <1>12, <1>15, <1>16 DEF Bound
  <1>18. InitSound(p, x)'
    BY <1>4, <1>5, <1>6, <1>11, <1>12, <1>15, <1>16, <1>17 DEF InitSound
  <1>19. ProcSound(p, x)' /\ x.pc # "initialized"
    BY <1>4, <1>12, <1>18 DEF ProcSound, InitPoints, OtherPoints
  <1> QED BY <1>4, <1>5, <1>6, <1>7, <1>11, <1>14, <1>16, <1>19, WritingKeeps

(* Then what this process made, and a directory that is empty again.       *)
LEMMA RollbackRestKeeps ==
  ASSUME InitialiserInv, NEW p \in Procs, RollbackRest(p)
  PROVE  InitialiserInv'
  <1>1. proc[p].pc \in InitPoints /\ proc[p].pc = "rollback" /\ ~ proc[p].linked
    BY DEF RollbackRest, In, InitPoints
  <1>2. PICK me : me = proc[p]
    OBVIOUS
  <1>3. DiskSound /\ InitSound(p, me) /\ me.pc = "rollback" /\ ~ me.linked
        /\ me.pc \in InitPoints
    BY <1>1, <1>2, InsiderIs
  <1>4. UNCHANGED <<config, files, left>> /\ proc' = [proc EXCEPT ![p] = Idle]
    BY FailureIs DEF RollbackRest
  <1>5. flock' = IF me.locked THEN None ELSE flock
    BY <1>2 DEF RollbackRest, Release, Locked
  <1>6. flock' # p
    BY <1>3, <1>5, ProcessAssumption DEF InitSound
  <1>7. ProcSound(p, Idle)' /\ Idle.pc # "initialized"
    BY <1>6, IdleSound
  <1>8. config' \in Configs \cup {None}
    BY <1>3, <1>4 DEF DiskSound
  <1> DEFINE d == me.dir
             used == IF d # 0 /\ "databases" \in entries[d] THEN {"state"} ELSE {}
             kept == IF d = 0 THEN {}
                     ELSE entries[d] \ ((me.made \ used) \cup (IF me.temp THEN {"temporary"} ELSE {}))
  <1>9. /\ entries' = IF d = 0 THEN entries ELSE [entries EXCEPT ![d] = kept]
        /\ root' = IF me.owned /\ root = d /\ kept = {} THEN 0 ELSE root
    BY <1>2 DEF RollbackRest
  <1>10. CASE me.locked
    <2>1. /\ DiskSound /\ InitSound(p, me) /\ flock = p
          /\ root # 0 /\ me.dir = root
          /\ entries[root] \subseteq Names /\ "lock" \in entries[root]
          /\ "tables" \in entries[root] => "databases" \in entries[root]
          /\ "config" \in entries[root] => Layout \subseteq entries[root]
      BY <1>2, <1>3, <1>10, HolderIs
    <2>2. PICK T : T = entries[root] \ ((me.made \ used) \cup (IF me.temp THEN {"temporary"} ELSE {}))
      OBVIOUS
    <2>3. me.made \subseteq Layout /\ me.temp \in BOOLEAN
          /\ (me.made # {} \/ me.temp => "config" \notin entries[root])
      BY <1>3 DEF InitSound
    <2>4. \A n \in T : n \in entries[root]
      BY <2>2
    <2>5. \A n \in entries[root] : n \notin Layout /\ n # "temporary" => n \in T
      BY <2>2, <2>3
    <2>6. T # entries[root] => me.made # {} \/ me.temp
      BY <2>2
    <2>7. /\ T \subseteq Names /\ "lock" \in T
          /\ "databases" \in entries[root] => "databases" \in T
          /\ "tables" \in T => "databases" \in T
      BY <2>1, <2>4, <2>5 DEF Layout
    <2>8. "config" \in T <=> "config" \in entries[root]
      BY <2>4, <2>5 DEF Layout
    <2>9. "config" \in T => Layout \subseteq T
      BY <2>1, <2>3, <2>6, <2>8
    <2>10. kept = T
      BY <2>1, <2>2
    <2>11. entries' = [entries EXCEPT ![root] = T] /\ root' = root
      BY <1>9, <2>1, <2>7, <2>10
    <2>12. flock' = None
      BY <1>5, <1>10
    <2> HIDE DEF d, used, kept
    <2> QED BY <1>4, <1>7, <1>8, <2>1, <2>7, <2>8, <2>9, <2>11, <2>12, WritingKeeps
  <1>11. CASE ~ me.locked
    <2>1. me.made = {} /\ ~ me.temp
      BY <1>3, <1>11 DEF InitSound
    <2>2. d # 0 => kept = entries[d] /\ d \in Inodes
      BY <1>3, <2>1 DEF InitSound, Inodes
    <2>3. entries' = entries
      BY <1>3, <1>9, <2>2 DEF DiskSound
    <2>4. root' = root \/ (root' = 0 /\ (root = 0 \/ entries[root] = {}))
      BY <1>9, <2>2
    <2>5. flock' = flock
      BY <1>5, <1>11
    <2>6. flock # p
      BY <1>6, <2>5
    <2> HIDE DEF d, used, kept
    <2>7. 0 \in 0 .. MaxInode /\ \A n \in 0 .. MaxInode : 0 <= MaxInode - n
      BY ProcessAssumption
    <2>8. DiskSound'
      BY <1>3, <1>4, <2>3, <2>4, <2>5, <2>7 DEF DiskSound, RootSound
    <2>9. Courteous(p, Idle)
      BY <1>4, <1>7, <2>3, <2>4, <2>5 DEF Courteous
    <2> QED BY <1>4, <1>7, <2>8, <2>9, StepKeeps
  <1> QED BY <1>10, <1>11

(* Every step of the initialiser keeps the invariant.                      *)
LEMMA InitializationKeeps ==
  ASSUME InitialiserInv, NEW p \in Procs, Initialization(p)
  PROVE  InitialiserInv'
  BY MakeDirectoryKeeps, CheckEntriesKeeps, OpenLockKeeps, LockRepositoryKeeps, ReadConfigKeeps,
     EnsureDirectoryKeeps, WriteTemporaryKeeps, LinkConfigKeeps, FinishInitializeKeeps,
     RollbackConfigKeeps, RollbackRestKeeps DEF Initialization

-----------------------------------------------------------------------------
(* The invariant holds in the repositories the behaviours start from.      *)
LEMMA InitialiserInit == Init => InitialiserInv
  <1> SUFFICES ASSUME Init PROVE InitialiserInv
    OBVIOUS
  <1>1. PICK start \in Starts :
          /\ root = IF Ready(start.kind) THEN 1 ELSE 0
          /\ entries = [i \in Inodes |-> IF i = 1 /\ Ready(start.kind)
                          THEN Layout \cup {"lock", "config", "databases", "tables"} ELSE {}]
          /\ config = IF Ready(start.kind) THEN ManifestConfig ELSE None
          /\ flock = None /\ files = start.files /\ proc = [p \in Procs |-> Idle]
          /\ left = [inits |-> start.inits, plans |-> [p \in Procs |-> start.plans],
                     edits |-> start.edits, others |-> start.others, faults |-> start.faults,
                     crashes |-> start.crashes,
                     inodes |-> IF Ready(start.kind) THEN MaxInode - 1 ELSE MaxInode]
    BY DEF Init
  <1>2. "inodes" \in DOMAIN left
        /\ left.inodes = IF Ready(start.kind) THEN MaxInode - 1 ELSE MaxInode
    BY <1>1
  <1>3. left.inodes \in 0 .. MaxInode /\ root \in 0 .. MaxInode /\ root <= MaxInode - left.inodes
        /\ \A i \in Inodes : i > MaxInode - left.inodes => (Ready(start.kind) => i # 1)
    BY <1>1, <1>2, ProcessAssumption DEF Inodes
  <1>4. files \in [Desired -> Texts]
    BY <1>1, ProcessAssumption
  <1>5. config \in Configs \cup {None} /\ flock \in Procs \cup {None}
    BY <1>1 DEF Configs
  <1>6. entries \in [Inodes -> SUBSET Names]
    BY <1>1 DEF Names, AllowedRecovery
  <1>7. \A i \in Inodes : i > MaxInode - left.inodes => entries[i] = {}
    BY <1>1, <1>3
  <1>8. RootSound
    <2>1. 1 \in Inodes
      BY ProcessAssumption DEF Inodes
    <2> QED BY <1>1, <2>1 DEF RootSound
  <1>9. DiskSound
    BY <1>2, <1>3, <1>4, <1>5, <1>6, <1>7, <1>8 DEF DiskSound
  <1>10. ASSUME NEW p \in Procs PROVE ProcSound(p, proc[p])
    <2>1. proc[p] = Idle /\ flock # p
      BY <1>1, ProcessAssumption
    <2> QED BY <2>1 DEF ProcSound, OtherSound, OtherPoints, InitPoints, Idle
  <1> QED BY <1>1, <1>9, <1>10 DEF InitialiserInv

(* The invariant is inductive.                                             *)
LEMMA InitialiserStep == InitialiserInv /\ [Next]_vars => InitialiserInv'
  <1> SUFFICES ASSUME InitialiserInv, [Next]_vars PROVE InitialiserInv'
    OBVIOUS
  <1>1. CASE UNCHANGED vars
    <2>1. DiskSound
      BY DEF InitialiserInv
    <2>2. UNCHANGED <<disk, proc>> /\ files' \in [Desired -> Texts]
          /\ "inodes" \in DOMAIN left' /\ left'.inodes = left.inodes
      BY <1>1, <2>1 DEF vars, disk, DiskSound
    <2> QED BY <2>2, ElsewhereKeeps
  <1>2. ASSUME NEW p \in Procs,
               \/ handle_init(p) \/ Initialization(p) \/ OperationFails(p)
               \/ handle_manifest_plan(p) \/ Apply(p) \/ RebuildFails(p) \/ Crash(p)
        PROVE  InitialiserInv'
    BY <1>2, handle_initKeeps, InitializationKeeps, OperationFailsKeeps,
       handle_manifest_planKeeps, ApplyKeeps, RebuildFailsKeeps, CrashKeeps
  <1>3. CASE EditFiles \/ OtherCommand
    BY <1>3, EditFilesKeeps, OtherCommandKeeps
  <1> QED BY <1>1, <1>2, <1>3 DEF Next

(* It says all that the runs check of initialisation.                      *)
LEMMA InitialiserSuffices == InitialiserInv => InitialisationIsAtomic
  <1> SUFFICES ASSUME InitialiserInv PROVE InitialisationIsAtomic
    OBVIOUS
  <1>1. DiskSound /\ \A p \in Procs : ProcSound(p, proc[p])
    BY DEF InitialiserInv
  <1>2. TypeOK
    <2>1. root \in 0 .. MaxInode /\ entries \in [Inodes -> SUBSET (AllowedRecovery \cup {"config", "databases", "tables"})]
          /\ config \in InitConfigs \cup {ManifestConfig, None} /\ flock \in Procs \cup {None}
          /\ files \in [Desired -> Texts]
      BY <1>1 DEF DiskSound, Names, Configs
    <2>2. \A p \in Procs : proc[p].pc \in InitPoints \cup OtherPoints
      BY <1>1 DEF ProcSound
    <2> QED BY <2>1, <2>2 DEF TypeOK, InitPoints, OtherPoints
  <1>3. LayoutIsComplete
    BY <1>1 DEF DiskSound, RootSound, LayoutIsComplete
  <1>4. InitializedStays
    BY <1>1 DEF ProcSound, OtherSound, OtherPoints, InitializedStays, In
  <1>5. InterruptedIsRecoverable
    <2> SUFFICES ASSUME root # 0, "config" \notin entries[root], "databases" \notin entries[root],
                        entries[root] # {}
                 PROVE  "lock" \in entries[root] /\ entries[root] \subseteq AllowedRecovery
      BY DEF InterruptedIsRecoverable, RolledBackInUse
    <2>1. root \in Inodes
      BY <1>1 DEF DiskSound, Inodes
    <2>2. entries[root] \subseteq Names
      BY <1>1, <2>1 DEF DiskSound
    <2> QED BY <1>1, <2>2 DEF DiskSound, RootSound, Names
  <1> QED BY <1>2, <1>3, <1>4, <1>5 DEF InitialisationIsAtomic

(* Whoever looks at a repository while processes race to initialise it,    *)
(* fail, roll back and die finds it complete once it is configured; what   *)
(* `init` has answered for stays; and what an interrupted one leaves can   *)
(* be finished (repository_target.py:585-760).                             *)
THEOREM InitialisationHolds == Spec => []InitialisationIsAtomic
  <1>1. Spec => []InitialiserInv
    BY InitialiserInit, InitialiserStep, PTL DEF Spec
  <1> QED BY <1>1, InitialiserSuffices, PTL
=============================================================================

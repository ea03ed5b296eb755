--------------------------- MODULE PlaybookProofs ---------------------------
(***************************************************************************)
(* Machine-checked proofs about playbook runs.  First PlaybookEngine, for  *)
(* every definition, any number of drivers and runs, every crash and every *)
(* lost acknowledgement; then CapabilityGateway: every behaviour of the    *)
(* gateway is a behaviour of the engine, so the engine's theorems hold of  *)
(* every caller that goes through the gateway; what a caller is shown is   *)
(* the state of its own request; and what it was told stays true.  Last    *)
(* FlashcardDispatcher, which finds the profile that owns a run.           *)
(***************************************************************************)
EXTENDS CapabilityGateway, FlashcardDispatcher, SequenceTheorems,
        FiniteSetTheorems, WellFoundedInduction, TLAPS

Statuses == {"running", "suspended"} \union Terminal

Effect == [step : Nat, bound : Bindings]

(***************************************************************************)
(* The inductive invariant.  Every stored row is typed; what a driver is   *)
(* about to write follows from the row it read; a driving call owns the    *)
(* row; and the effects of a run lie at or before the step its row is at,  *)
(* strictly before the next one whenever a driver may still take that one. *)
(***************************************************************************)
RowsTyped ==
    /\ store = [r \in DOMAIN store |-> store[r]]
    /\ DOMAIN store \subseteq Runs
    /\ \A r \in DOMAIN store :
          /\ store[r].bound \in Bindings
          /\ store[r].status \in Statuses
          /\ store[r].next \in 0..N

ClaimFollows(call) ==
    /\ call.expected.status = "suspended"
    /\ Steps[call.expected.next] = "dialogue"
    /\ call.pending.status = "running"
    /\ call.pending.bound = call.expected.bound
    /\ call.pending.next = call.expected.next
    /\ call.pending.next \in 0..N
    /\ call.pending.bound \in Bindings

WriteFollows(call) ==
    /\ call.pending.bound = call.expected.bound
    /\ call.pending.status \in Statuses
    /\ call.pending.next \in 0..N
    /\ call.pending.next \in {call.expected.next, call.expected.next + 1}
    /\ call.pending.status \in {"running", "suspended"} =>
          call.pending.next = call.expected.next + 1
    /\ call.return = "running" => call.pending.next < N
    /\ call.pending.status =
          IF call.return = "terminated" THEN "completed" ELSE call.return

CallsFollow ==
    /\ driver = [d \in Drivers |-> driver[d]]
    /\ \A d \in Drivers :
          /\ driver[d].pc \in {"idle", "claiming", "stepping", "writing"}
          /\ driver[d].pc # "idle" => driver[d].run \in DOMAIN store
          /\ driver[d].pc = "claiming" => ClaimFollows(driver[d])
          /\ driver[d].pc = "stepping" => driver[d].expected.next < N
          /\ driver[d].pc = "writing" => WriteFollows(driver[d])

EffectsBehind ==
    /\ effects \in [Runs -> Seq(Effect)]
    /\ \A r \in Runs : \A k \in DOMAIN effects[r] :
          /\ r \in DOMAIN store
          /\ effects[r][k].step <= store[r].next + 1
          /\ (store[r].status = "suspended" \/
                \E d \in Drivers : driver[d].pc = "stepping" /\ driver[d].run = r)
             => effects[r][k].step <= store[r].next

EngineInv == RowsTyped /\ CallsFollow /\ OneDriverPerRun /\ EffectsBehind /\ EffectsOnceInOrder
-----------------------------------------------------------------------------
\* The fields of a row that _checkpoint makes.
LEMMA CheckpointFields ==
  ASSUME NEW b, NEW st, NEW n, NEW o, NEW t
  PROVE  /\ _checkpoint(b, st, n, o, t).bound = b
         /\ _checkpoint(b, st, n, o, t).status = st
         /\ _checkpoint(b, st, n, o, t).next = n
         /\ _checkpoint(b, st, n, o, t).outputs = o
  BY DEF _checkpoint

\* A definition has at least one step.
LEMMA StepsLength == N \in Nat /\ N > 0
  BY EngineAssumption, LenProperties DEF N

(* A driver that leaves its call, or moves from idle to claiming, disturbs *)
(* neither the rows nor the effects nor the other drivers.                 *)
LEMMA QuietDriver ==
  ASSUME EngineInv, NEW d \in Drivers, NEW call,
         UNCHANGED <<store, effects>>,
         driver' = [driver EXCEPT ![d] = call],
         \/ call = Idle
         \/ call.pc = "claiming" /\ call.run \in DOMAIN store /\ ClaimFollows(call)
  PROVE  EngineInv'
  <1>1. /\ driver' = [e \in Drivers |-> driver'[e]]
        /\ driver'[d] = call
        /\ \A e \in Drivers : e # d => driver'[e] = driver[e]
    BY DEF EngineInv, CallsFollow
  <1>2. call.pc \in {"idle", "claiming"}
    BY DEF Idle
  <1>3. RowsTyped'
    BY DEF EngineInv, RowsTyped
  <1>4. CallsFollow'
    <2> SUFFICES ASSUME NEW e \in Drivers
                 PROVE  /\ driver'[e].pc \in {"idle", "claiming", "stepping", "writing"}
                        /\ driver'[e].pc # "idle" => driver'[e].run \in DOMAIN store
                        /\ driver'[e].pc = "claiming" => ClaimFollows(driver'[e])
                        /\ driver'[e].pc = "stepping" => driver'[e].expected.next < N
                        /\ driver'[e].pc = "writing" => WriteFollows(driver'[e])
      BY <1>1 DEF CallsFollow
    <2>1. CASE e = d
      BY <1>1, <1>2, <2>1 DEF Idle
    <2>2. CASE e # d
      BY <1>1, <2>2 DEF EngineInv, CallsFollow
    <2> QED BY <2>1, <2>2
  <1>5. \A e \in Drivers, r \in Runs : Driving(e, r)' => e # d /\ Driving(e, r)
    BY <1>1, <1>2 DEF Driving
  <1>6. OneDriverPerRun'
    <2> SUFFICES ASSUME NEW e \in Drivers, NEW r \in Runs, Driving(e, r)'
                 PROVE  /\ r \in DOMAIN store
                        /\ driver'[e].expected = store[r]
                        /\ store[r].status = "running"
                        /\ \A f \in Drivers : Driving(f, r)' => f = e
      BY DEF OneDriverPerRun
    <2> QED BY <1>1, <1>5 DEF EngineInv, OneDriverPerRun
  <1>7. EffectsBehind'
    <2>1. \A e \in Drivers : driver'[e].pc = "stepping" => driver'[e] = driver[e]
      BY <1>1, <1>2
    <2> QED BY <2>1 DEF EngineInv, EffectsBehind
  <1>8. EffectsOnceInOrder'
    BY DEF EngineInv, EffectsOnceInOrder
  <1> QED BY <1>3, <1>4, <1>6, <1>7, <1>8 DEF EngineInv

(* A driving call owns its row, and no other call drives the same run.     *)
LEMMA Owner ==
  ASSUME EngineInv, NEW d \in Drivers, driver[d].pc \in {"stepping", "writing"}
  PROVE  LET r == driver[d].run
         IN  /\ r \in DOMAIN store /\ r \in Runs
             /\ store[r] = driver[d].expected
             /\ store[r].status = "running"
             /\ store[r].bound \in Bindings /\ store[r].next \in 0..N
             /\ \A e \in Drivers : Driving(e, r) => e = d
  <1>1. driver[d].run \in DOMAIN store /\ driver[d].run \in Runs
    BY DEF EngineInv, CallsFollow, RowsTyped
  <1>2. Driving(d, driver[d].run)
    BY DEF Driving
  <1> QED BY <1>1, <1>2 DEF EngineInv, OneDriverPerRun, RowsTyped

(* A step taken: the effect, if there was one, is recorded under the next  *)
(* step of the row and the driver turns to writing its checkpoint.         *)
LEMMA StepTaken ==
  ASSUME EngineInv, NEW d \in Drivers, driver[d].pc = "stepping",
         NEW replacement, NEW return,
         driver' = [driver EXCEPT ![d] =
                      Writing(driver[d].run, driver[d].expected, replacement, return)],
         WriteFollows(Writing(driver[d].run, driver[d].expected, replacement, return)),
         UNCHANGED store,
         \/ UNCHANGED effects
         \/ effects' = [effects EXCEPT ![driver[d].run] =
               Append(@, [step |-> driver[d].expected.next + 1, bound |-> driver[d].expected.bound])]
  PROVE  EngineInv'
  <1> DEFINE r == driver[d].run
             row == driver[d].expected
             call == Writing(r, row, replacement, return)
             new == [step |-> row.next + 1, bound |-> row.bound]
  <1>0. /\ r \in DOMAIN store /\ r \in Runs
        /\ store[r] = row
        /\ row.status = "running"
        /\ row.bound \in Bindings /\ row.next \in 0..N
        /\ \A e \in Drivers : Driving(e, r) => e = d
    BY Owner
  <1>1. /\ driver' = [e \in Drivers |-> driver'[e]]
        /\ driver'[d] = call
        /\ \A e \in Drivers : e # d => driver'[e] = driver[e]
    BY DEF EngineInv, CallsFollow
  <1>2. call.pc = "writing" /\ call.run = r /\ call.expected = row
    BY DEF Writing
  <1>a. WriteFollows(call)
    OBVIOUS
  <1> HIDE DEF call
  <1>3. RowsTyped'
    BY DEF EngineInv, RowsTyped
  <1>4. CallsFollow'
    <2> SUFFICES ASSUME NEW e \in Drivers
                 PROVE  /\ driver'[e].pc \in {"idle", "claiming", "stepping", "writing"}
                        /\ driver'[e].pc # "idle" => driver'[e].run \in DOMAIN store
                        /\ driver'[e].pc = "claiming" => ClaimFollows(driver'[e])
                        /\ driver'[e].pc = "stepping" => driver'[e].expected.next < N
                        /\ driver'[e].pc = "writing" => WriteFollows(driver'[e])
      BY <1>1 DEF CallsFollow
    <2>1. CASE e = d
      BY <1>0, <1>1, <1>2, <1>a, <2>1
    <2>2. CASE e # d
      BY <1>1, <2>2 DEF EngineInv, CallsFollow
    <2> QED BY <2>1, <2>2
  <1>5. \A e \in Drivers, q \in Runs : Driving(e, q)' <=> Driving(e, q)
    BY <1>1, <1>2 DEF Driving
  <1>6. OneDriverPerRun'
    <2> SUFFICES ASSUME NEW e \in Drivers, NEW q \in Runs, Driving(e, q)'
                 PROVE  /\ q \in DOMAIN store
                        /\ driver'[e].expected = store[q]
                        /\ store[q].status = "running"
                        /\ \A f \in Drivers : Driving(f, q)' => f = e
      BY DEF OneDriverPerRun
    <2>1. driver'[e].expected = driver[e].expected
      BY <1>1, <1>2
    <2> QED BY <1>5, <2>1 DEF EngineInv, OneDriverPerRun
  <1>7. /\ \A k \in DOMAIN effects[r] : effects[r][k].step <= row.next
        /\ \A q \in Runs : \A k \in DOMAIN effects[q] :
              effects[q][k].step \in Nat /\ q \in DOMAIN store
    <2>1. \E e \in Drivers : driver[e].pc = "stepping" /\ driver[e].run = r
      OBVIOUS
    <2>2. \A q \in Runs : \A k \in DOMAIN effects[q] : effects[q][k] \in Effect
      BY LenProperties, ElementOfSeq DEF EngineInv, EffectsBehind
    <2> QED BY <1>0, <2>1, <2>2 DEF EngineInv, EffectsBehind, Effect
  <1>8. \A e \in Drivers : ~(driver'[e].pc = "stepping" /\ driver'[e].run = r)
    BY <1>0, <1>1, <1>2 DEF Driving
  <1>9. \A e \in Drivers : driver'[e].pc = "stepping" => driver'[e] = driver[e]
    BY <1>1, <1>2
  <1>10. CASE UNCHANGED effects
    <2>1. EffectsBehind'
      BY <1>10, <1>9 DEF EngineInv, EffectsBehind
    <2>2. EffectsOnceInOrder'
      BY <1>10 DEF EngineInv, EffectsOnceInOrder
    <2> QED BY <1>3, <1>4, <1>6, <2>1, <2>2 DEF EngineInv
  <1>11. CASE effects' = [effects EXCEPT ![r] = Append(@, new)]
    <2>0. new \in Effect /\ new.step = row.next + 1 /\ new.bound = row.bound
      BY <1>0 DEF Effect
    <2> HIDE DEF new
    <2>1. /\ effects[r] \in Seq(Effect) /\ Len(effects[r]) \in Nat
          /\ DOMAIN effects[r] = 1..Len(effects[r])
      BY <1>0, LenProperties DEF EngineInv, EffectsBehind
    <2>2. /\ effects'[r] \in Seq(Effect)
          /\ DOMAIN effects'[r] = 1..(Len(effects[r]) + 1)
          /\ \A k \in DOMAIN effects[r] : effects'[r][k] = effects[r][k]
          /\ effects'[r][Len(effects[r]) + 1] = new
      <3>1. effects'[r] = Append(effects[r], new)
        BY <1>0, <1>11 DEF EngineInv, EffectsBehind
      <3> QED BY <3>1, <2>0, <2>1, AppendProperties
    <2>3. \A q \in Runs : q # r => effects'[q] = effects[q]
      BY <1>11 DEF EngineInv, EffectsBehind
    <2>4. effects' \in [Runs -> Seq(Effect)]
      BY <1>11, <2>2, <2>3 DEF EngineInv, EffectsBehind
    <2>5. EffectsBehind'
      <3> SUFFICES ASSUME NEW q \in Runs, NEW k \in DOMAIN effects'[q]
                   PROVE  /\ q \in DOMAIN store
                          /\ effects'[q][k].step <= store[q].next + 1
                          /\ (store[q].status = "suspended" \/
                                \E e \in Drivers : driver'[e].pc = "stepping" /\ driver'[e].run = q)
                             => effects'[q][k].step <= store[q].next
        BY <2>4 DEF EffectsBehind
      <3>1. CASE q # r
        BY <3>1, <2>3, <1>9 DEF EngineInv, EffectsBehind
      <3>2. CASE q = r /\ k \in DOMAIN effects[r]
        BY <3>2, <2>2, <1>0, <1>7, <1>8
      <3>3. CASE q = r /\ k = Len(effects[r]) + 1
        BY <3>3, <2>0, <2>2, <1>0, <1>8
      <3> QED BY <3>1, <3>2, <3>3, <2>1, <2>2
    <2>6. EffectsOnceInOrder'
      <3> SUFFICES ASSUME NEW q \in Runs, NEW k \in DOMAIN effects'[q]
                   PROVE  /\ q \in DOMAIN store
                          /\ effects'[q][k].bound = store[q].bound
                          /\ \A l \in 1..(k - 1) : effects'[q][l].step < effects'[q][k].step
        BY DEF EffectsOnceInOrder
      <3>1. CASE q # r
        BY <3>1, <2>3 DEF EngineInv, EffectsOnceInOrder
      <3>2. CASE q = r /\ k \in DOMAIN effects[r]
        <4>1. \A l \in 1..(k - 1) : l \in DOMAIN effects[r]
          BY <2>1, <3>2
        <4> QED BY <3>2, <4>1, <2>2 DEF EngineInv, EffectsOnceInOrder
      <3>3. CASE q = r /\ k = Len(effects[r]) + 1
        <4>1. \A l \in 1..(k - 1) : l \in DOMAIN effects[r]
          BY <2>1, <3>3
        <4>2. \A l \in DOMAIN effects[r] :
                 effects'[r][l].step \in Nat /\ effects'[r][l].step <= row.next
          BY <1>0, <1>7, <2>2
        <4> QED BY <3>3, <4>1, <4>2, <2>0, <2>2, <1>0
      <3> QED BY <3>1, <3>2, <3>3, <2>1, <2>2
    <2> QED BY <1>3, <1>4, <1>6, <2>5, <2>6 DEF EngineInv
  <1> QED BY <1>10, <1>11
(* A row written by the only call that may drive its run: the writer goes  *)
(* idle, or drives on from the row it wrote.                               *)
LEMMA RowWritten ==
  ASSUME EngineInv, NEW d \in Drivers, NEW r \in Runs, NEW row, NEW call,
         store' = Put(store, r, row),
         UNCHANGED effects,
         driver' = [driver EXCEPT ![d] = call],
         row.bound \in Bindings, row.status \in Statuses, row.next \in 0..N,
         \A e \in Drivers : Driving(e, r) => e = d,
         \A k \in DOMAIN effects[r] :
            /\ effects[r][k].bound = row.bound
            /\ effects[r][k].step <= row.next + 1
            /\ row.status \in {"running", "suspended"} => effects[r][k].step <= row.next,
         \/ call = Idle
         \/ call = Stepping(r, row) /\ row.status = "running" /\ row.next < N
  PROVE  EngineInv'
  <1>1. /\ driver' = [e \in Drivers |-> driver'[e]]
        /\ driver'[d] = call
        /\ \A e \in Drivers : e # d => driver'[e] = driver[e]
    BY DEF EngineInv, CallsFollow
  <1>2. /\ store' = [q \in DOMAIN store' |-> store'[q]]
        /\ DOMAIN store' = DOMAIN store \union {r}
        /\ store'[r] = row
        /\ \A q \in DOMAIN store : q # r => store'[q] = store[q]
    BY DEF Put
  <1>3. \/ call.pc = "idle"
        \/ /\ call.pc = "stepping" /\ call.run = r /\ call.expected = row
           /\ row.status = "running" /\ row.next < N
    BY DEF Idle, Stepping
  <1>4. RowsTyped'
    BY <1>2 DEF EngineInv, RowsTyped
  <1>5. CallsFollow'
    <2> SUFFICES ASSUME NEW e \in Drivers
                 PROVE  /\ driver'[e].pc \in {"idle", "claiming", "stepping", "writing"}
                        /\ driver'[e].pc # "idle" => driver'[e].run \in DOMAIN store'
                        /\ driver'[e].pc = "claiming" => ClaimFollows(driver'[e])
                        /\ driver'[e].pc = "stepping" => driver'[e].expected.next < N
                        /\ driver'[e].pc = "writing" => WriteFollows(driver'[e])
      BY <1>1 DEF CallsFollow
    <2>1. CASE e = d
      BY <1>1, <1>2, <1>3, <2>1
    <2>2. CASE e # d
      BY <1>1, <1>2, <2>2 DEF EngineInv, CallsFollow
    <2> QED BY <2>1, <2>2
  <1>6. OneDriverPerRun'
    <2> SUFFICES ASSUME NEW e \in Drivers, NEW q \in Runs, Driving(e, q)'
                 PROVE  /\ q \in DOMAIN store'
                        /\ driver'[e].expected = store'[q]
                        /\ store'[q].status = "running"
                        /\ \A f \in Drivers : Driving(f, q)' => f = e
      BY DEF OneDriverPerRun
    <2>1. CASE q = r
      <3>1. \A f \in Drivers : Driving(f, r)' => f = d
        BY <1>1 DEF Driving
      <3> QED BY <3>1, <2>1, <1>1, <1>2, <1>3 DEF Driving
    <2>2. CASE q # r
      <3>1. \A f \in Drivers : Driving(f, q)' => f # d /\ Driving(f, q)
        BY <1>1, <1>3, <2>2 DEF Driving
      <3>2. Driving(e, q) /\ e # d
        BY <3>1
      <3>3. /\ q \in DOMAIN store
            /\ driver[e].expected = store[q]
            /\ store[q].status = "running"
            /\ \A f \in Drivers : Driving(f, q) => f = e
        BY <3>2 DEF EngineInv, OneDriverPerRun
      <3> QED BY <3>1, <3>2, <3>3, <1>1, <1>2, <2>2
    <2> QED BY <2>1, <2>2
  <1>7. EffectsBehind'
    <2> SUFFICES ASSUME NEW q \in Runs, NEW k \in DOMAIN effects[q]
                 PROVE  /\ q \in DOMAIN store'
                        /\ effects[q][k].step <= store'[q].next + 1
                        /\ (store'[q].status = "suspended" \/
                              \E e \in Drivers : driver'[e].pc = "stepping" /\ driver'[e].run = q)
                           => effects[q][k].step <= store'[q].next
      BY DEF EffectsBehind, EngineInv
    <2>1. CASE q = r
      <3>1. \A e \in Drivers : driver'[e].pc = "stepping" /\ driver'[e].run = r
               => row.status = "running"
        BY <1>1, <1>3 DEF Driving
      <3> QED BY <3>1, <2>1, <1>2
    <2>2. CASE q # r
      <3>1. \A e \in Drivers : driver'[e].pc = "stepping" /\ driver'[e].run = q
               => driver[e].pc = "stepping" /\ driver[e].run = q
        BY <1>1, <1>3, <2>2
      <3>2. q \in DOMAIN store /\ store'[q] = store[q]
        BY <1>2, <2>2 DEF EngineInv, EffectsBehind
      <3> QED BY <3>1, <3>2, <1>2 DEF EngineInv, EffectsBehind
    <2> QED BY <2>1, <2>2
  <1>8. EffectsOnceInOrder'
    <2> SUFFICES ASSUME NEW q \in Runs, NEW k \in DOMAIN effects[q]
                 PROVE  /\ q \in DOMAIN store'
                        /\ effects[q][k].bound = store'[q].bound
                        /\ \A l \in 1..(k - 1) : effects[q][l].step < effects[q][k].step
      BY DEF EffectsOnceInOrder
    <2>1. \A l \in 1..(k - 1) : effects[q][l].step < effects[q][k].step
      BY DEF EngineInv, EffectsOnceInOrder
    <2>2. CASE q = r
      BY <2>1, <2>2, <1>2
    <2>3. CASE q # r
      BY <2>1, <2>3, <1>2 DEF EngineInv, EffectsOnceInOrder
    <2> QED BY <2>2, <2>3
  <1> QED BY <1>4, <1>5, <1>6, <1>7, <1>8 DEF EngineInv

-----------------------------------------------------------------------------
(* EngineInv is inductive.                                                 *)
LEMMA EngineInvInit == Init => EngineInv
  <1> SUFFICES ASSUME Init PROVE EngineInv
    OBVIOUS
  <1>1. DOMAIN store = {} /\ store = [r \in DOMAIN store |-> store[r]]
    BY DEF Init, Empty
  <1>2. \A d \in Drivers : driver[d] = Idle /\ driver[d].pc = "idle"
    BY DEF Init, Idle
  <1>3. effects \in [Runs -> Seq(Effect)] /\ \A r \in Runs : DOMAIN effects[r] = {}
    BY EmptySeq DEF Init
  <1>4. driver = [d \in Drivers |-> driver[d]]
    BY DEF Init
  <1> QED BY <1>1, <1>2, <1>3, <1>4
          DEF EngineInv, RowsTyped, CallsFollow, OneDriverPerRun, Driving,
              EffectsBehind, EffectsOnceInOrder

\* Every step of the engine keeps its invariant.
LEMMA EngineInvStep == EngineInv /\ [Next]_vars => EngineInv'
  <1> SUFFICES ASSUME EngineInv, [Next]_vars PROVE EngineInv'
    OBVIOUS
  <1> USE StepsLength
  <1>1. CASE UNCHANGED <<store, driver, effects>>
    BY <1>1 DEF EngineInv, RowsTyped, CallsFollow, OneDriverPerRun, Driving,
                EffectsBehind, EffectsOnceInOrder
  <1>2. ASSUME NEW d \in Drivers, NEW r \in Runs, NEW bound \in Bindings, NEW ack \in Acks,
               execute(d, r, bound, ack)
        PROVE  EngineInv'
    <2> DEFINE initial == _checkpoint(bound, "running", 0, Empty, <<>>)
    <2>1. /\ initial.bound = bound /\ initial.status = "running" /\ initial.next = 0
      BY CheckpointFields
    <2> HIDE DEF initial
    <2>2. store' = Put(store, r, initial) /\ UNCHANGED effects /\ r \notin DOMAIN store
      BY <1>2 DEF execute, initial
    <2>3. \/ driver' = [driver EXCEPT ![d] = Idle]
          \/ driver' = [driver EXCEPT ![d] = Stepping(r, initial)]
      BY <1>2 DEF execute, Drive, Raised, initial
    <2>4. \A e \in Drivers : ~Driving(e, r)
      BY <2>2 DEF EngineInv, OneDriverPerRun
    <2>5. DOMAIN effects[r] = {}
      BY <2>2 DEF EngineInv, EffectsBehind
    <2>6. initial.status \in Statuses /\ initial.next \in 0..N /\ initial.next < N
      BY <2>1 DEF Statuses
    <2> QED BY <2>1, <2>2, <2>3, <2>4, <2>5, <2>6, RowWritten
  <1>3. ASSUME NEW d \in Drivers, NEW r \in Runs, NEW bound \in Bindings, NEW answer \in Answers,
               resume(d, r, bound, answer)
        PROVE  EngineInv'
    <2>1. /\ r \in DOMAIN store /\ store[r].status = "suspended" /\ store[r].bound = bound
          /\ _validate_checkpoint_shape(store[r])
          /\ UNCHANGED <<store, effects>>
      BY <1>3 DEF resume
    <2>2. store[r].next \in 0..N /\ Steps[store[r].next] = "dialogue"
      BY <2>1 DEF _validate_checkpoint_shape
    <2>3. PICK outputs, traces :
             driver' = [driver EXCEPT ![d] =
                [pc |-> "claiming", run |-> r, expected |-> store[r],
                 pending |-> _checkpoint(bound, "running", store[r].next, outputs, traces)]]
      BY <1>3 DEF resume
    <2> DEFINE row == _checkpoint(bound, "running", store[r].next, outputs, traces)
               call == [pc |-> "claiming", run |-> r, expected |-> store[r], pending |-> row]
    <2>4. row.bound = bound /\ row.status = "running" /\ row.next = store[r].next
      BY CheckpointFields
    <2> HIDE DEF row
    <2>5. call.pc = "claiming" /\ call.run \in DOMAIN store /\ ClaimFollows(call)
      BY <2>1, <2>2, <2>4 DEF ClaimFollows
    <2>6. driver' = [driver EXCEPT ![d] = call]
      BY <2>3 DEF row
    <2> HIDE DEF call
    <2> QED BY <2>1, <2>5, <2>6, QuietDriver
  <1>4. ASSUME NEW d \in Drivers, NEW ack \in Acks, resume_claim(d, ack) PROVE EngineInv'
    <2> DEFINE r == driver[d].run
               row == driver[d].pending
    <2>1. driver[d].pc = "claiming" /\ r \in DOMAIN store /\ ClaimFollows(driver[d])
      BY <1>4 DEF resume_claim, EngineInv, CallsFollow
    <2>2. CASE ack # "raised" /\ store[r] = driver[d].expected
      <3>1. store' = Put(store, r, row) /\ UNCHANGED effects
        BY <1>4, <2>2 DEF resume_claim, compare_and_set
      <3>2. \/ driver' = [driver EXCEPT ![d] = Idle]
            \/ driver' = [driver EXCEPT ![d] = Stepping(r, row)] /\ row.next < N
        BY <1>4 DEF resume_claim, Drive, Raised
      <3>3. /\ row.bound \in Bindings /\ row.status \in Statuses /\ row.next \in 0..N
            /\ row.status = "running" /\ row.bound = store[r].bound
            /\ row.next = store[r].next /\ store[r].status = "suspended"
        BY <2>1, <2>2 DEF ClaimFollows, Statuses
      <3>4. r \in Runs /\ \A e \in Drivers : ~Driving(e, r)
        BY <2>1, <3>3 DEF EngineInv, RowsTyped, OneDriverPerRun
      <3>5. \A k \in DOMAIN effects[r] :
               /\ effects[r][k].bound = row.bound
               /\ effects[r][k].step <= row.next + 1
               /\ effects[r][k].step <= row.next
        BY <3>3, <3>4 DEF EngineInv, EffectsBehind, EffectsOnceInOrder
      <3> HIDE DEF r, row
      <3> QED BY <3>1, <3>2, <3>3, <3>4, <3>5, RowWritten
    <2>3. CASE ~(ack # "raised" /\ store[r] = driver[d].expected)
      <3>1. UNCHANGED <<store, effects>> /\ driver' = [driver EXCEPT ![d] = Idle]
        BY <1>4, <2>3 DEF resume_claim, compare_and_set, Raised
      <3> QED BY <3>1, QuietDriver
    <2> QED BY <2>2, <2>3
  <1>5. ASSUME NEW d \in Drivers, NEW outcome \in Values \X Dispositions,
               _execute_step(d, outcome)
        PROVE  EngineInv'
    <2> DEFINE old == driver[d].expected
               row == Advanced(old, outcome[1], outcome[2])
               return == ReturnOf(row, outcome[2])
               call == Writing(driver[d].run, old, row, return)
    <2>1. driver[d].pc = "stepping" /\ old.next < N /\ old.next \in 0..N
      BY <1>5, Owner DEF _execute_step, EngineInv, CallsFollow
    <2>2. /\ row.bound = old.bound /\ row.next = old.next + 1
          /\ row.status = IF old.next + 1 = N \/ outcome[2] \in {"terminate", "fail"}
                          THEN "completed" ELSE "running"
      BY CheckpointFields DEF Advanced
    <2>3. call.expected = old /\ call.pending = row /\ call.return = return
      BY DEF Writing
    <2>4. return = IF outcome[2] \in {"terminate", "fail"} THEN "terminated" ELSE row.status
      BY DEF ReturnOf
    <2>5. /\ driver' = [driver EXCEPT ![d] = call]
          /\ UNCHANGED store
          /\ effects' = [effects EXCEPT ![driver[d].run] =
                           Append(@, [step |-> old.next + 1, bound |-> old.bound])]
      BY <1>5 DEF _execute_step, Write
    <2> HIDE DEF row, return
    <2>6. WriteFollows(call)
      <3> HIDE DEF call
      <3> QED BY <2>1, <2>2, <2>3, <2>4 DEF WriteFollows, Statuses, Terminal
    <2> QED BY <2>1, <2>5, <2>6, StepTaken
  <1>6. ASSUME NEW d \in Drivers, NEW status \in {"failed", "cancelled"}, NEW called \in BOOLEAN,
               step_fails(d, status, called)
        PROVE  EngineInv'
    <2> DEFINE old == driver[d].expected
               row == Stopped(old, status)
               call == Writing(driver[d].run, old, row, status)
    <2>1. driver[d].pc = "stepping" /\ old.next < N /\ old.next \in 0..N
      BY <1>6, Owner DEF step_fails, EngineInv, CallsFollow
    <2>2. row.bound = old.bound /\ row.next = old.next /\ row.status = status
      BY CheckpointFields DEF Stopped
    <2>3. call.expected = old /\ call.pending = row /\ call.return = status
      BY DEF Writing
    <2>4. /\ driver' = [driver EXCEPT ![d] = call]
          /\ UNCHANGED store
          /\ \/ UNCHANGED effects
             \/ effects' = [effects EXCEPT ![driver[d].run] =
                              Append(@, [step |-> old.next + 1, bound |-> old.bound])]
      BY <1>6 DEF step_fails, Write
    <2> HIDE DEF row
    <2>5. WriteFollows(call)
      <3> HIDE DEF call
      <3> QED BY <2>1, <2>2, <2>3 DEF WriteFollows, Statuses, Terminal
    <2> QED BY <2>1, <2>4, <2>5, StepTaken
  <1>7. ASSUME NEW d \in Drivers, _dialogue_should_suspend(d) PROVE EngineInv'
    <2> DEFINE old == driver[d].expected
    <2>1. driver[d].pc = "stepping" /\ old.next < N /\ old.next \in 0..N
      BY <1>7, Owner DEF _dialogue_should_suspend, EngineInv, CallsFollow
    <2>2. PICK row, return :
             /\ \/ row = Suspended(old) /\ return = "suspended"
                \/ row = Advanced(old, "default", "none") /\ return = row.status
                \/ row = Stopped(old, "failed") /\ return = "failed"
             /\ driver' = [driver EXCEPT ![d] = Writing(driver[d].run, old, row, return)]
      BY <1>7 DEF _dialogue_should_suspend, Write
    <2>3. /\ row.bound = old.bound
          /\ \/ row.next = old.next + 1 /\ row.status = "suspended" /\ return = "suspended"
             \/ /\ row.next = old.next + 1 /\ return = row.status
                /\ row.status = IF old.next + 1 = N THEN "completed" ELSE "running"
             \/ row.next = old.next /\ row.status = "failed" /\ return = "failed"
      BY <2>2, CheckpointFields DEF Suspended, Advanced, Stopped
    <2>4. UNCHANGED <<store, effects>>
      BY <1>7 DEF _dialogue_should_suspend
    <2> DEFINE call == Writing(driver[d].run, old, row, return)
    <2>5. call.expected = old /\ call.pending = row /\ call.return = return
      BY DEF Writing
    <2>6. WriteFollows(call)
      <3> HIDE DEF call
      <3> QED BY <2>1, <2>3, <2>5 DEF WriteFollows, Statuses, Terminal
    <2> QED BY <2>1, <2>2, <2>4, <2>6, StepTaken
  <1>8. ASSUME NEW d \in Drivers, NEW ack \in Acks, advance(d, ack) PROVE EngineInv'
    <2> DEFINE r == driver[d].run
               row == driver[d].pending
               return == driver[d].return
    <2>1. /\ driver[d].pc = "writing" /\ WriteFollows(driver[d])
          /\ r \in Runs /\ store[r] = driver[d].expected
          /\ store[r].bound \in Bindings
          /\ \A e \in Drivers : Driving(e, r) => e = d
      BY <1>8, Owner DEF advance, EngineInv, CallsFollow
    <2>2. CASE ack # "raised"
      <3>1. store' = Put(store, r, row) /\ UNCHANGED effects
        BY <1>8, <2>1, <2>2 DEF advance, compare_and_set
      <3>2. \/ driver' = [driver EXCEPT ![d] = Idle]
            \/ /\ driver' = [driver EXCEPT ![d] = Stepping(r, row)]
               /\ return = "running"
        BY <1>8 DEF advance, Drive, Raised
      <3>3. /\ row.bound \in Bindings /\ row.status \in Statuses /\ row.next \in 0..N
            /\ row.bound = store[r].bound
            /\ row.next \in {store[r].next, store[r].next + 1}
            /\ row.status \in {"running", "suspended"} => row.next = store[r].next + 1
            /\ return = "running" => row.status = "running" /\ row.next < N
        BY <2>1 DEF WriteFollows
      <3>4. store[r].next \in Nat
        BY <2>1, Owner
      <3>5. \A k \in DOMAIN effects[r] :
               /\ effects[r][k].bound = store[r].bound
               /\ effects[r][k].step \in Nat
               /\ effects[r][k].step <= store[r].next + 1
        <4>1. \A k \in DOMAIN effects[r] : effects[r][k] \in Effect
          BY <2>1, LenProperties, ElementOfSeq DEF EngineInv, EffectsBehind
        <4> QED BY <2>1, <4>1 DEF EngineInv, EffectsBehind, EffectsOnceInOrder, Effect
      <3> HIDE DEF r, row, return
      <3>6. \A k \in DOMAIN effects[r] :
               /\ effects[r][k].bound = row.bound
               /\ effects[r][k].step <= row.next + 1
               /\ row.status \in {"running", "suspended"} => effects[r][k].step <= row.next
        BY <3>3, <3>4, <3>5
      <3> QED BY <2>1, <3>1, <3>2, <3>3, <3>6, RowWritten
    <2>3. CASE ack = "raised"
      <3>1. UNCHANGED <<store, effects>> /\ driver' = [driver EXCEPT ![d] = Idle]
        BY <1>8, <2>3 DEF advance, compare_and_set, Raised
      <3> QED BY <3>1, QuietDriver
    <2> QED BY <2>2, <2>3
  <1>9. ASSUME NEW d \in Drivers, Crash(d) PROVE EngineInv'
    BY <1>9, QuietDriver DEF Crash
  <1>10. ASSUME NEW d \in Drivers, NEW r \in Runs, NEW bound \in Bindings, recover(d, r, bound)
         PROVE  EngineInv'
    BY <1>1, <1>10 DEF recover
  <1>11. CASE Upgrade
    BY <1>1, <1>11 DEF Upgrade
  <1>12. CASE UNCHANGED vars
    BY <1>1, <1>12 DEF vars
  <1> QED BY <1>2, <1>3, <1>4, <1>5, <1>6, <1>7, <1>8, <1>9, <1>10, <1>11, <1>12
          DEF Next, Step

-----------------------------------------------------------------------------
(* At most one call drives a run, and its compare-and-set can only fail by *)
(* raising: claims, retries and crashes never make two owners.             *)
THEOREM SingleDriver == Spec => []OneDriverPerRun
  <1>1. EngineInv => OneDriverPerRun
    BY DEF EngineInv
  <1> QED BY <1>1, EngineInvInit, EngineInvStep, PTL DEF Spec

(* Tool, model and validator calls of a run happen in step order, at most  *)
(* once each, under the bindings the run was created with.                 *)
THEOREM EffectsAtMostOnce == Spec => []EffectsOnceInOrder
  <1>1. EngineInv => EffectsOnceInOrder
    BY DEF EngineInv
  <1> QED BY <1>1, EngineInvInit, EngineInvStep, PTL DEF Spec
-----------------------------------------------------------------------------
(***************************************************************************)
(* Results.  A call returns a terminal result only with the row that says  *)
(* so, and no later step changes such a row.  The argument needs a         *)
(* definition that does not end with a dialogue: when it does, the resumed *)
(* call returns completed over a row that still says running.              *)
(***************************************************************************)
ResultsDurable ==
    \A x \in results :
        /\ x.run \in DOMAIN store
        /\ x.status \in {"completed", "terminated", "failed", "cancelled"}
        /\ store[x.run].status = IF x.status = "terminated" THEN "completed" ELSE x.status
        /\ store[x.run].outputs = x.outputs

(* A terminal row is never written again.                                  *)
LEMMA TerminalRowsStay ==
  ASSUME EngineInv, [Next]_vars, NEW r \in DOMAIN store, store[r].status \in Terminal
  PROVE  r \in DOMAIN store' /\ store'[r] = store[r]
  <1>1. CASE UNCHANGED store
    BY <1>1
  <1>2. ASSUME NEW q, NEW row, store' = Put(store, q, row), q # r
        PROVE  r \in DOMAIN store' /\ store'[r] = store[r]
    BY <1>2 DEF Put
  <1>3. ASSUME NEW d \in Drivers, NEW q \in Runs, NEW bound \in Bindings, NEW ack \in Acks,
               execute(d, q, bound, ack)
        PROVE  r \in DOMAIN store' /\ store'[r] = store[r]
    BY <1>2, <1>3 DEF execute
  <1>4. ASSUME NEW d \in Drivers, NEW ack \in Acks, resume_claim(d, ack)
        PROVE  r \in DOMAIN store' /\ store'[r] = store[r]
    <2>1. driver[d].expected.status = "suspended"
      BY <1>4 DEF resume_claim, EngineInv, CallsFollow, ClaimFollows
    <2>2. CASE store[driver[d].run] = driver[d].expected
      BY <1>1, <1>2, <1>4, <2>1, <2>2 DEF resume_claim, compare_and_set, Terminal
    <2>3. CASE store[driver[d].run] # driver[d].expected
      BY <1>1, <1>4, <2>3 DEF resume_claim, compare_and_set
    <2> QED BY <2>2, <2>3
  <1>5. ASSUME NEW d \in Drivers, NEW ack \in Acks, advance(d, ack)
        PROVE  r \in DOMAIN store' /\ store'[r] = store[r]
    <2>1. store[driver[d].run].status = "running"
      BY <1>5, Owner DEF advance
    <2> QED BY <1>1, <1>2, <1>5, <2>1 DEF advance, compare_and_set, Terminal
  <1>6. ASSUME NEW d \in Drivers, NEW q \in Runs, NEW bound \in Bindings, NEW answer \in Answers,
               resume(d, q, bound, answer) \/ recover(d, q, bound)
        PROVE  UNCHANGED store
    BY <1>6 DEF resume, recover
  <1>7. ASSUME NEW d \in Drivers, NEW outcome, NEW status, NEW called,
               \/ _execute_step(d, outcome) \/ step_fails(d, status, called)
               \/ _dialogue_should_suspend(d) \/ Crash(d)
        PROVE  UNCHANGED store
    BY <1>7 DEF _execute_step, step_fails, _dialogue_should_suspend, Crash
  <1>8. CASE Upgrade \/ UNCHANGED vars
    BY <1>1, <1>8 DEF Upgrade, vars
  <1>9. ASSUME NEW d \in Drivers, NEW q \in Runs, NEW bound \in Bindings, recover(d, q, bound)
        PROVE  UNCHANGED store
    BY <1>9 DEF recover
  <1> QED BY <1>1, <1>3, <1>4, <1>5, <1>6, <1>7, <1>8, <1>9 DEF Next, Step

(* A new result is that of the row stored by the same step.                *)
LEMMA NewResults ==
  ASSUME EngineInv, [Next]_vars, Steps[N] # "dialogue", NEW x \in results', x \notin results
  PROVE  /\ x.run \in DOMAIN store'
         /\ x.status \in {"completed", "terminated", "failed", "cancelled"}
         /\ store'[x.run].status = IF x.status = "terminated" THEN "completed" ELSE x.status
         /\ store'[x.run].outputs = x.outputs
  <1> USE StepsLength
  <1> DEFINE Goal == /\ x.run \in DOMAIN store'
                     /\ x.status \in {"completed", "terminated", "failed", "cancelled"}
                     /\ store'[x.run].status =
                           IF x.status = "terminated" THEN "completed" ELSE x.status
                     /\ store'[x.run].outputs = x.outputs
  <1>1. ASSUME NEW d \in Drivers, NEW q \in Runs, NEW bound \in Bindings, NEW ack \in Acks,
               execute(d, q, bound, ack)
        PROVE  FALSE
    <2>1. _checkpoint(bound, "running", 0, Empty, <<>>).next = 0
      BY CheckpointFields
    <2>2. UNCHANGED results
      BY <1>1, <2>1 DEF execute, Drive
    <2> QED BY <2>2
  <1>2. ASSUME NEW d \in Drivers, NEW ack \in Acks, resume_claim(d, ack) PROVE FALSE
    <2>1. /\ driver[d].pc = "claiming" /\ ClaimFollows(driver[d])
      BY <1>2 DEF resume_claim, EngineInv, CallsFollow
    <2>2. driver[d].pending.next < N
      BY <2>1 DEF ClaimFollows
    <2>3. UNCHANGED results
      BY <1>2, <2>2 DEF resume_claim, Drive
    <2> QED BY <2>3
  <1>3. ASSUME NEW d \in Drivers, NEW ack \in Acks, advance(d, ack) PROVE Goal
    <2> DEFINE call == driver[d]
    <2>1. call.pc = "writing" /\ WriteFollows(call) /\ store[call.run] = call.expected
      BY <1>3, Owner DEF advance, EngineInv, CallsFollow
    <2>2. call.return = "running" => call.pending.next < N
      BY <2>1 DEF WriteFollows
    <2>3. /\ x = Result(call.run, call.return, call.pending)
          /\ ack = "ok" /\ call.return # "running" /\ call.return # "suspended"
      BY <1>3, <2>2 DEF advance, Drive, Raised
    <2>4. store' = Put(store, call.run, call.pending)
      BY <1>3, <2>1, <2>3 DEF advance, compare_and_set
    <2>5. call.run \in DOMAIN store' /\ store'[call.run] = call.pending
      BY <2>4 DEF Put
    <2>6. /\ x.run = call.run /\ x.status = call.return
          /\ x.outputs = call.pending.outputs
      BY <2>3 DEF Result
    <2>7. /\ call.pending.status \in Statuses
          /\ call.pending.status =
               IF call.return = "terminated" THEN "completed" ELSE call.return
      BY <2>1 DEF WriteFollows
    <2> HIDE DEF call
    <2> QED BY <2>3, <2>5, <2>6, <2>7 DEF Statuses, Terminal
  <1>4. ASSUME NEW d \in Drivers, NEW q \in Runs, NEW bound \in Bindings, recover(d, q, bound)
        PROVE  Goal
    <2>1. /\ q \in DOMAIN store /\ store[q].status = "completed" /\ UNCHANGED store
          /\ \E status \in {"completed", "terminated"} : x = Result(q, status, store[q])
      BY <1>4 DEF recover, _recovered_termination
    <2> QED BY <2>1 DEF Result
  <1>5. ASSUME NEW d \in Drivers, NEW q \in Runs, NEW bound \in Bindings, NEW answer \in Answers,
               resume(d, q, bound, answer)
        PROVE  FALSE
    BY <1>5 DEF resume
  <1>6. ASSUME NEW d \in Drivers, NEW outcome, NEW status, NEW called,
               \/ _execute_step(d, outcome) \/ step_fails(d, status, called)
               \/ _dialogue_should_suspend(d) \/ Crash(d)
        PROVE  FALSE
    BY <1>6 DEF _execute_step, step_fails, _dialogue_should_suspend, Crash
  <1>7. CASE Upgrade \/ UNCHANGED vars
    BY <1>7 DEF Upgrade, vars
  <1> QED BY <1>1, <1>2, <1>3, <1>4, <1>5, <1>6, <1>7 DEF Next, Step

(* Every terminal result a caller was handed stays the durable state of    *)
(* the run, for definitions that do not end with a dialogue.               *)
THEOREM ReturnedResultsDurable ==
  ASSUME Steps[N] # "dialogue"
  PROVE  Spec => []ResultsAreDurable
  <1>1. Init => ResultsDurable
    BY DEF Init, ResultsDurable
  <1>2. EngineInv /\ ResultsDurable /\ [Next]_vars => ResultsDurable'
    <2> SUFFICES ASSUME EngineInv, ResultsDurable, [Next]_vars, NEW x \in results'
                 PROVE  /\ x.run \in DOMAIN store'
                        /\ x.status \in {"completed", "terminated", "failed", "cancelled"}
                        /\ store'[x.run].status =
                              IF x.status = "terminated" THEN "completed" ELSE x.status
                        /\ store'[x.run].outputs = x.outputs
      BY DEF ResultsDurable
    <2>1. CASE x \in results
      <3>1. x.run \in DOMAIN store /\ store[x.run].status \in Terminal
        BY <2>1 DEF ResultsDurable, Terminal
      <3>2. x.run \in DOMAIN store' /\ store'[x.run] = store[x.run]
        BY <3>1, TerminalRowsStay
      <3> QED BY <2>1, <3>2 DEF ResultsDurable
    <2>2. CASE x \notin results
      BY <2>2, NewResults
    <2> QED BY <2>1, <2>2
  <1>3. ResultsDurable => ResultsAreDurable
    BY DEF ResultsDurable, ResultsAreDurable
  <1> QED BY <1>1, <1>2, <1>3, EngineInvInit, EngineInvStep, PTL DEF Spec

(* Rows, installed versions and call positions keep their types.           *)
THEOREM EngineTypeCorrect == Spec => []TypeOK
  <1> DEFINE Rest == installed \in Installations /\ lost \subseteq Runs
  <1>1. Init => Rest
    BY DEF Init
  <1>2. EngineInv /\ Rest /\ [Next]_vars => Rest'
    <2> SUFFICES ASSUME EngineInv, Rest, [Next]_vars PROVE Rest'
      OBVIOUS
    <2>1. \A d \in Drivers : driver[d].pc # "idle" => driver[d].run \in Runs
      BY DEF EngineInv, CallsFollow, RowsTyped
    <2>2. ASSUME NEW d \in Drivers, NEW r \in Runs, NEW bound \in Bindings, NEW ack \in Acks,
                 execute(d, r, bound, ack)
          PROVE  Rest'
      BY <2>2 DEF execute
    <2>3. ASSUME NEW d \in Drivers, NEW ack \in Acks, advance(d, ack) \/ resume_claim(d, ack)
          PROVE  Rest'
      BY <2>1, <2>3 DEF advance, resume_claim
    <2>4. ASSUME NEW d \in Drivers, Crash(d)
          PROVE  Rest'
      BY <2>1, <2>4 DEF Crash
    <2>5. ASSUME NEW d \in Drivers, NEW r \in Runs, NEW bound \in Bindings,
                 \/ recover(d, r, bound)
                 \/ \E answer \in Answers : resume(d, r, bound, answer)
          PROVE  Rest'
      BY <2>5 DEF recover, resume
    <2>6. ASSUME NEW d \in Drivers,
                 \/ _dialogue_should_suspend(d)
                 \/ \E outcome \in Values \X Dispositions : _execute_step(d, outcome)
                 \/ \E status \in {"failed", "cancelled"}, called \in BOOLEAN :
                        step_fails(d, status, called)
          PROVE  Rest'
      BY <2>6 DEF _execute_step, step_fails, _dialogue_should_suspend
    <2>7. CASE Upgrade \/ UNCHANGED vars
      BY <2>7 DEF Upgrade, vars
    <2> HIDE DEF Rest
    <2> QED BY <2>2, <2>3, <2>4, <2>5, <2>6, <2>7 DEF Next, Step
  <1>3. EngineInv /\ Rest => TypeOK
    BY DEF EngineInv, RowsTyped, CallsFollow, Statuses, TypeOK
  <1> QED BY <1>1, <1>2, <1>3, EngineInvInit, EngineInvStep, PTL DEF Spec

-----------------------------------------------------------------------------
(* Stored rows load.  The marks of a row are a flattened sequence, so the   *)
(* lemmas start with what flattening returns: by induction over the numbers *)
(* in a set, which needs no operator parameter.                             *)

(* Induction over a set of numbers. *)
LEMMA SetInduction ==
  ASSUME NEW S, 0 \in S, \A n \in Nat : n \in S => n + 1 \in S
  PROVE  Nat \subseteq S
  <1> SUFFICES ASSUME Nat \ S # {} PROVE FALSE
    OBVIOUS
  <1> DEFINE R == OpToRel(<, Nat)
             T == Nat \ S
  <1>1. IsWellFoundedOn(R, Nat)
    BY NatLessThanWellFounded
  <1>2. T \subseteq Nat /\ T # {}
    OBVIOUS
  <1>3. \A x, y \in Nat : y < x => <<y, x>> \in R
    BY DEF OpToRel
  <1> HIDE DEF R
  <1>4. PICK x \in T : \A y \in T : ~ (<<y, x>> \in R)
    BY <1>1, <1>2, WFMin
  <1>5. x # 0
    OBVIOUS
  <1>6. x - 1 \in Nat /\ x - 1 < x
    BY <1>5
  <1>7. <<x - 1, x>> \in R
    BY <1>3, <1>6
  <1>8. x - 1 \in S
    BY <1>4, <1>6, <1>7
  <1>9. (x - 1) + 1 = x
    BY <1>6
  <1>10. (x - 1) + 1 \in S
    BY <1>6, <1>8
  <1> QED BY <1>9, <1>10

(* The first m prefixes of a sequence of sequences, flattened.              *)
Flattens(f, seqs, m) ==
    /\ f = [i \in 1..m |-> f[i]]
    /\ \A i \in 1..m : /\ i = 1 => f[i] = seqs[i]
                       /\ i # 1 => f[i] = f[i - 1] \o seqs[i]

(* The prefixes of a sequence of sequences can be flattened.                *)
LEMMA PrefixesExist ==
  ASSUME NEW S, NEW seqs \in Seq(Seq(S)), NEW n \in Nat, n <= Len(seqs)
  PROVE  \E f \in [1..n -> Seq(S)] : Flattens(f, seqs, n)
  <1> DEFINE T == {m \in Nat : m <= Len(seqs) => \E f \in [1..m -> Seq(S)] : Flattens(f, seqs, m)}
  <1>1. Len(seqs) \in Nat /\ \A i \in 1..Len(seqs) : seqs[i] \in Seq(S)
    BY LenProperties
  <1>2. 0 \in T
    <2>1. 1..0 = {}
      OBVIOUS
    <2>2. [i \in 1..0 |-> <<>>] \in [1..0 -> Seq(S)] /\ Flattens([i \in 1..0 |-> <<>>], seqs, 0)
      BY <2>1 DEF Flattens
    <2> QED BY <2>2
  <1>3. ASSUME NEW m \in Nat, m \in T PROVE m + 1 \in T
    <2> SUFFICES ASSUME m + 1 <= Len(seqs)
                 PROVE  \E f \in [1..(m + 1) -> Seq(S)] : Flattens(f, seqs, m + 1)
      OBVIOUS
    <2>1. PICK f \in [1..m -> Seq(S)] : Flattens(f, seqs, m)
      BY <1>1, <1>3
    <2>2. PICK last \in Seq(S) : /\ m = 0 => last = seqs[m + 1]
                                 /\ m # 0 => last = f[m] \o seqs[m + 1]
      <3>1. seqs[m + 1] \in Seq(S)
        BY <1>1
      <3>2. m # 0 => f[m] \in Seq(S)
        OBVIOUS
      <3>3. m # 0 => f[m] \o seqs[m + 1] \in Seq(S)
        BY <3>1, <3>2, ConcatProperties
      <3> QED BY <3>1, <3>3
    <2> DEFINE g == [i \in 1..(m + 1) |-> IF i = m + 1 THEN last ELSE f[i]]
    <2>3. g \in [1..(m + 1) -> Seq(S)]
      OBVIOUS
    <2>4. g[m + 1] = last /\ \A i \in 1..m : g[i] = f[i]
      OBVIOUS
    <2> HIDE DEF g
    <2>5. ASSUME NEW i \in 1..(m + 1)
          PROVE  (i = 1 => g[i] = seqs[i]) /\ (i # 1 => g[i] = g[i - 1] \o seqs[i])
      <3>1. CASE i = m + 1
        <4>1. m # 0 => m \in 1..m /\ i - 1 = m /\ g[i - 1] = f[m]
          BY <2>4, <3>1
        <4>2. m = 0 => g[i] = seqs[i]
          BY <2>2, <2>4, <3>1
        <4>3. m # 0 => g[i] = g[i - 1] \o seqs[i]
          BY <2>2, <2>4, <3>1, <4>1
        <4>4. i = 1 <=> m = 0
          BY <3>1
        <4> QED BY <4>2, <4>3, <4>4
      <3>2. CASE i # m + 1
        <4>1. i \in 1..m /\ (i # 1 => i - 1 \in 1..m)
          BY <3>2
        <4> QED BY <2>1, <2>4, <4>1 DEF Flattens
      <3> QED BY <3>1, <3>2
    <2>6. Flattens(g, seqs, m + 1)
      BY <2>3, <2>5 DEF Flattens
    <2> QED BY <2>3, <2>6
  <1> HIDE DEF T
  <1>4. Nat \subseteq T
    BY <1>2, <1>3, SetInduction
  <1> QED BY <1>4 DEF T

(* They can be flattened in one way only.                                   *)
LEMMA PrefixesAgree ==
  ASSUME NEW seqs, NEW n \in Nat, NEW f, Flattens(f, seqs, n),
         NEW k \in Nat, k <= n, NEW g, Flattens(g, seqs, k), NEW i \in 1..k
  PROVE  f[i] = g[i]
  <1> DEFINE U == {m \in Nat : m \in 1..k => f[m] = g[m]}
  <1>1. 0 \in U
    OBVIOUS
  <1>2. ASSUME NEW m \in Nat, m \in U PROVE m + 1 \in U
    <2> SUFFICES ASSUME m + 1 \in 1..k PROVE f[m + 1] = g[m + 1]
      OBVIOUS
    <2>1. m + 1 \in 1..n
      OBVIOUS
    <2>2. CASE m = 0
      <3>1. m + 1 = 1 /\ 1 \in 1..n /\ 1 \in 1..k
        BY <2>1, <2>2
      <3>2. f[1] = seqs[1] /\ g[1] = seqs[1]
        BY <3>1 DEF Flattens
      <3> QED BY <3>1, <3>2
    <2>3. CASE m # 0
      <3>1. m \in 1..k /\ (m + 1) - 1 = m /\ m + 1 # 1
        BY <2>3
      <3>2. f[m] = g[m]
        BY <1>2, <3>1
      <3>3. f[m + 1] = f[m] \o seqs[m + 1] /\ g[m + 1] = g[m] \o seqs[m + 1]
        BY <2>1, <3>1 DEF Flattens
      <3> QED BY <3>2, <3>3
    <2> QED BY <2>2, <2>3
  <1> HIDE DEF U
  <1>3. Nat \subseteq U
    BY <1>1, <1>2, SetInduction
  <1> QED BY <1>3 DEF U

(* What FlattenSeq returns.                                                 *)
LEMMA FlattenIsLastPrefix ==
  ASSUME NEW S, NEW seqs \in Seq(Seq(S)), seqs # <<>>,
         NEW f \in [1..Len(seqs) -> Seq(S)], Flattens(f, seqs, Len(seqs))
  PROVE  FlattenSeq(seqs) = f[Len(seqs)]
  <1> DEFINE n == Len(seqs)
             Rule(g) == g = [i \in 1..n |-> IF i = 1 THEN seqs[i] ELSE g[i-1] \o seqs[i]]
  <1>1. n \in Nat /\ n # 0
    BY EmptySeq, LenProperties
  <1>2. Rule(f)
    BY DEF Flattens
  <1>3. ASSUME NEW g, Rule(g) PROVE Flattens(g, seqs, n)
    <2>1. DOMAIN g = 1..n /\ g = [i \in 1..n |-> g[i]]
      BY <1>3
    <2> QED BY <1>3, <2>1 DEF Flattens
  <1>4. ASSUME NEW g, Rule(g) PROVE g[n] = f[n]
    <2>1. Flattens(g, seqs, n)
      BY <1>3, <1>4
    <2> QED BY <1>1, <2>1, PrefixesAgree
  <1>5. FlattenSeq(seqs) = (CHOOSE g : Rule(g))[n]
    BY <1>1, Zenon DEF FlattenSeq
  <1> HIDE DEF Rule
  <1>6. Rule(CHOOSE g : Rule(g))
    BY <1>2
  <1> QED BY <1>4, <1>5, <1>6

(* Flattening one more sequence appends it.                                 *)
LEMMA FlattenAppend ==
  ASSUME NEW S, NEW seqs \in Seq(Seq(S)), NEW e \in Seq(S)
  PROVE  /\ FlattenSeq(seqs) \in Seq(S)
         /\ FlattenSeq(Append(seqs, e)) = FlattenSeq(seqs) \o e
  <1> DEFINE n == Len(seqs)
             more == Append(seqs, e)
  <1>1. n \in Nat /\ n + 1 \in Nat /\ n + 1 <= n + 1 /\ n <= n + 1 /\ DOMAIN seqs = 1..n
    BY LenProperties
  <1>2. /\ more \in Seq(Seq(S)) /\ more # <<>> /\ Len(more) = n + 1
        /\ more[n + 1] = e /\ \A i \in 1..n : more[i] = seqs[i]
    BY AppendProperties
  <1> HIDE DEF n, more
  <1>3. PICK f : f \in [1..n -> Seq(S)] /\ Flattens(f, seqs, n)
    <2>1. n <= Len(seqs)
      BY <1>1 DEF n
    <2> QED BY <1>1, <2>1, PrefixesExist
  <1>4. PICK g : g \in [1..(n + 1) -> Seq(S)] /\ Flattens(g, more, n + 1)
    BY <1>1, <1>2, PrefixesExist
  <1>5. FlattenSeq(more) = g[n + 1]
    BY <1>2, <1>4, FlattenIsLastPrefix
  <1>6. CASE n = 0
    <2>1. seqs = <<>>
      BY <1>6, EmptySeq DEF n
    <2>2. FlattenSeq(seqs) = <<>>
      BY <1>6, <2>1 DEF FlattenSeq, n
    <2>3. g[1] = e
      BY <1>2, <1>4, <1>6 DEF Flattens
    <2> QED BY <1>5, <1>6, <2>2, <2>3, ConcatEmptySeq, EmptySeq DEF more
  <1>7. CASE n # 0
    <2>1. n \in 1..n /\ n + 1 # 1 /\ (n + 1) - 1 = n /\ n + 1 \in 1..(n + 1) /\ n <= n + 1
      BY <1>1, <1>7
    <2>2. seqs # <<>>
      BY <1>7, EmptySeq DEF n
    <2>3. FlattenSeq(seqs) = f[n]
      BY <1>3, <2>2, FlattenIsLastPrefix DEF n
    <2>4. Flattens(f, more, n)
      BY <1>2, <1>3 DEF Flattens
    <2>5. g[n] = f[n]
      <3> DEFINE k == n + 1
      <3>1. k \in Nat /\ n <= k /\ Flattens(g, more, k)
        BY <1>1, <1>4
      <3> HIDE DEF k
      <3> QED BY <1>1, <2>1, <2>4, <3>1, PrefixesAgree
    <2>6. g[n + 1] = g[n] \o more[n + 1]
      BY <1>4, <2>1 DEF Flattens
    <2> QED BY <1>2, <1>3, <1>5, <2>1, <2>3, <2>5, <2>6 DEF more
  <1> QED BY <1>6, <1>7

-----------------------------------------------------------------------------
(* Trails: the traces of a row, and what they say.                          *)

(* A finite sequence, whatever its elements are.                            *)
Trail(s) == s \in Seq({s[t] : t \in DOMAIN s})

(* The second trail goes on from the first.                                 *)
Continues(s, u) == Len(s) <= Len(u) /\ \A t \in 1..Len(s) : u[t] = s[t]

MarkNames == {"started", "suspended", "completed", "failed", "cancelled"}

Marks == Nat \X MarkNames

MarksOf(traces) == [t \in DOMAIN traces |-> <<traces[t].step, traces[t].mark>>]

(* The marks of the first c steps.                                          *)
Prefix(row, c) == FlattenSeq([i \in 1..c |-> StepMarks(row, i)])

(* A trace of a row, and its receipt if the step completed.                 *)
Receipted(row, t) ==
    /\ row.traces[t].step \in Nat /\ row.traces[t].mark \in MarkNames
    /\ row.traces[t].mark = "completed" => ReceiptHolds(row, t)
    /\ \/ row.traces[t].generation = <<>>
       \/ /\ row.traces[t].mark = "completed"
          /\ row.traces[t].generation = _checkpoint_fingerprint(SuspendedBefore(row, t))

(* A row as the engine writes it: one that loads, in the form of a          *)

(* checkpoint, with a receipt of its generation at each claimed dialogue    *)
(* and nowhere else.                                                        *)
Sound(row) ==
    /\ _validate_checkpoint_shape(row)
    /\ row = _checkpoint(row.bound, row.status, row.next, row.outputs, row.traces)
    /\ row.outputs = [j \in 1..Completed(row) |-> row.outputs[j]]
    /\ Trail(row.traces)
    /\ \A t \in DOMAIN row.traces : Receipted(row, t)

(* A trail has a length, and is the function of its records.                *)
LEMMA TrailLength ==
  ASSUME NEW s, Trail(s)
  PROVE  Len(s) \in Nat /\ DOMAIN s = 1..Len(s) /\ s = [t \in 1..Len(s) |-> s[t]]
  BY LenProperties DEF Trail

(* Every sequence is a trail.                                               *)
LEMMA SeqIsTrail ==
  ASSUME NEW S, NEW s \in Seq(S)
  PROVE  Trail(s)
  <1> DEFINE R == {s[t] : t \in DOMAIN s}
  <1>1. Len(s) \in Nat /\ s \in [1..Len(s) -> S] /\ DOMAIN s = 1..Len(s)
    BY LenProperties
  <1>2. s \in [1..Len(s) -> R]
    BY <1>1
  <1> HIDE DEF R
  <1>3. s \in Seq(R)
    BY <1>1, <1>2, SeqDef
  <1> QED BY <1>3 DEF Trail, R

(* One or two records more.                                                 *)
LEMMA TrailAppend ==
  ASSUME NEW s, Trail(s), NEW e
  PROVE  /\ Trail(Append(s, e)) /\ Continues(s, Append(s, e))
         /\ Len(Append(s, e)) = Len(s) + 1 /\ Append(s, e)[Len(s) + 1] = e
  <1> DEFINE R == {s[t] : t \in DOMAIN s}
             T == R \union {e}
  <1>1. s \in Seq(R) /\ R \subseteq T
    BY DEF Trail
  <1> HIDE DEF R
  <1>2. s \in Seq(T) /\ e \in T
    BY <1>1, SeqMonotonic
  <1> HIDE DEF T
  <1>3. /\ Append(s, e) \in Seq(T) /\ Len(Append(s, e)) = Len(s) + 1
        /\ \A t \in 1..Len(s) : Append(s, e)[t] = s[t]
        /\ Append(s, e)[Len(s) + 1] = e
    BY <1>2, AppendProperties
  <1>4. Len(s) \in Nat
    BY TrailLength
  <1>5. Trail(Append(s, e))
    BY <1>3, SeqIsTrail
  <1> QED BY <1>3, <1>4, <1>5 DEF Continues

(* Two records appended at once are two records appended.                   *)
LEMMA TrailTwo ==
  ASSUME NEW s, Trail(s), NEW a, NEW b
  PROVE  /\ s \o <<a, b>> = Append(Append(s, a), b)
         /\ Trail(s \o <<a, b>>) /\ Continues(s, s \o <<a, b>>)
         /\ Len(s \o <<a, b>>) = Len(s) + 2
         /\ (s \o <<a, b>>)[Len(s) + 1] = a /\ (s \o <<a, b>>)[Len(s) + 2] = b
  <1> DEFINE R == {s[t] : t \in DOMAIN s}
             T == R \union {a, b}
             two == <<a, b>>
             u == Append(s, a)
             v == Append(u, b)
  <1>1. s \in Seq(R) /\ R \subseteq T /\ Len(s) \in Nat
    BY TrailLength DEF Trail
  <1>2. two \in Seq(T) /\ Len(two) = 2 /\ two[1] = a /\ two[2] = b
    OBVIOUS
  <1>3. a \in T /\ b \in T
    OBVIOUS
  <1> HIDE DEF R, T, two
  <1>4. s \in Seq(T)
    BY <1>1, SeqMonotonic
  <1>5. /\ u \in Seq(T) /\ Len(u) = Len(s) + 1 /\ u[Len(s) + 1] = a
        /\ \A t \in 1..Len(s) : u[t] = s[t]
    BY <1>3, <1>4, AppendProperties
  <1> HIDE DEF u
  <1>6. /\ v \in Seq(T) /\ Len(v) = Len(u) + 1 /\ v[Len(u) + 1] = b
        /\ \A t \in 1..Len(u) : v[t] = u[t]
    BY <1>3, <1>5, AppendProperties
  <1> HIDE DEF v
  <1>7. /\ Len(v) = Len(s) + 2 /\ v[Len(s) + 1] = a /\ v[Len(s) + 2] = b
        /\ \A t \in 1..Len(s) : v[t] = s[t]
    BY <1>1, <1>5, <1>6
  <1> DEFINE w == s \o two
  <1>a. /\ w \in Seq(T) /\ Len(w) = Len(s) + Len(two)
        /\ \A t \in 1..(Len(s) + Len(two)) :
              w[t] = IF t <= Len(s) THEN s[t] ELSE two[t - Len(s)]
    BY <1>2, <1>4, ConcatProperties
  <1> HIDE DEF w
  <1>8. /\ w \in Seq(T) /\ Len(w) = Len(s) + 2
        /\ \A t \in 1..(Len(s) + 2) :
              w[t] = IF t <= Len(s) THEN s[t] ELSE two[t - Len(s)]
    BY <1>a, <1>1, <1>2
  <1>9. \A t \in 1..(Len(s) + 2) : w[t] = v[t]
    BY <1>1, <1>2, <1>7, <1>8
  <1>10. w = v
    BY <1>6, <1>7, <1>8, <1>9, SeqEqual
  <1>11. Trail(v) /\ Continues(s, v)
    BY <1>1, <1>6, <1>7, SeqIsTrail DEF Continues
  <1>12. s \o <<a, b>> = v
    BY <1>10 DEF w, two
  <1>13. s \o <<a, b>> = Append(Append(s, a), b)
    BY <1>12, Zenon DEF u, v
  <1>14. /\ Trail(s \o <<a, b>>) /\ Continues(s, s \o <<a, b>>)
         /\ Len(s \o <<a, b>>) = Len(s) + 2
         /\ (s \o <<a, b>>)[Len(s) + 1] = a /\ (s \o <<a, b>>)[Len(s) + 2] = b
    BY <1>7, <1>11, <1>12
  <1> QED BY <1>13, <1>14, Zenon

(* The marks of a longer trail.                                             *)
LEMMA MarksAppend ==
  ASSUME NEW s, Trail(s), NEW e
  PROVE  MarksOf(Append(s, e)) = Append(MarksOf(s), <<e.step, e.mark>>)
  <1> DEFINE u == Append(s, e)
             m == <<e.step, e.mark>>
  <1>1. /\ Len(s) \in Nat /\ DOMAIN s = 1..Len(s)
        /\ DOMAIN u = 1..(Len(s) + 1) /\ u[Len(s) + 1] = e
        /\ \A t \in 1..Len(s) : u[t] = s[t]
    <2>1. /\ Trail(u) /\ Len(u) = Len(s) + 1 /\ u[Len(s) + 1] = e
          /\ \A t \in 1..Len(s) : u[t] = s[t]
      BY TrailAppend DEF Continues
    <2> QED BY <2>1, TrailLength
  <1> HIDE DEF u
  <1> DEFINE R == {<<s[t].step, s[t].mark>> : t \in 1..Len(s)} \union {m}
  <1>2. MarksOf(s) \in [1..Len(s) -> R] /\ MarksOf(u) \in [1..(Len(s) + 1) -> R]
    BY <1>1 DEF MarksOf
  <1>3. /\ \A t \in 1..Len(s) : MarksOf(u)[t] = MarksOf(s)[t]
        /\ MarksOf(u)[Len(s) + 1] = m /\ m \in R
    BY <1>1 DEF MarksOf
  <1> HIDE DEF R, m
  <1>4. MarksOf(s) \in Seq(R) /\ MarksOf(u) \in Seq(R)
    BY <1>1, <1>2, SeqDef
  <1>5. Len(MarksOf(s)) = Len(s) /\ Len(MarksOf(u)) = Len(s) + 1
    BY <1>1, <1>2, <1>4, LenProperties
  <1>6. /\ Append(MarksOf(s), m) \in Seq(R) /\ Len(Append(MarksOf(s), m)) = Len(s) + 1
        /\ \A t \in 1..Len(s) : Append(MarksOf(s), m)[t] = MarksOf(s)[t]
        /\ Append(MarksOf(s), m)[Len(s) + 1] = m
    BY <1>3, <1>4, <1>5, AppendProperties
  <1>7. \A t \in 1..(Len(s) + 1) : Append(MarksOf(s), m)[t] = MarksOf(u)[t]
    BY <1>1, <1>3, <1>6
  <1> QED BY <1>4, <1>5, <1>6, <1>7, SeqEqual DEF u, m

(* A third mark after two.                                                  *)
LEMMA ConcatThree ==
  ASSUME NEW S, NEW s \in Seq(S), NEW a \in S, NEW b \in S, NEW c \in S
  PROVE  s \o <<a, b, c>> = Append(s \o <<a, b>>, c)
  <1>0. <<a, b>> \in Seq(S) /\ <<c>> \in Seq(S)
    OBVIOUS
  <1>1. <<a, b>> \in Seq(S) /\ <<c>> \in Seq(S) /\ s \o <<a, b>> \in Seq(S)
    <2> DEFINE two == <<a, b>>
    <2>1. two \in Seq(S)
      BY <1>0
    <2> HIDE DEF two
    <2>2. s \o two \in Seq(S)
      BY <2>1, ConcatProperties
    <2> QED BY <1>0, <2>2 DEF two
  <1>2. <<a, b>> \o <<c>> = <<a, b, c>>
    <2> DEFINE two == <<a, b>>
               one == <<c>>
               all == <<a, b, c>>
    <2>1. /\ two \in Seq(S) /\ Len(two) = 2 /\ two[1] = a /\ two[2] = b
          /\ one \in Seq(S) /\ Len(one) = 1 /\ one[1] = c
      BY <1>1
    <2>2. all \in Seq(S) /\ Len(all) = 3 /\ all[1] = a /\ all[2] = b /\ all[3] = c
      OBVIOUS
    <2> HIDE DEF two, one, all
    <2>3. /\ two \o one \in Seq(S) /\ Len(two \o one) = Len(two) + Len(one)
          /\ \A t \in 1..(Len(two) + Len(one)) :
                (two \o one)[t] = IF t <= Len(two) THEN two[t] ELSE one[t - Len(two)]
      BY <2>1, ConcatProperties
    <2> DEFINE w == two \o one
    <2> HIDE DEF w
    <2>4. w \in Seq(S) /\ Len(w) = 3 /\ w[1] = a /\ w[2] = b /\ w[3] = c
      BY <2>1, <2>3 DEF w
    <2>5. \A t \in 1..3 : w[t] = all[t]
      BY <2>2, <2>4
    <2>6. w = all
      BY <2>2, <2>4, <2>5, SeqEqual
    <2> QED BY <2>6 DEF w, two, one, all
  <1>3. (s \o <<a, b>>) \o <<c>> = s \o (<<a, b>> \o <<c>>)
    BY <1>1, ConcatAssociative
  <1>4. Append(s \o <<a, b>>, c) = (s \o <<a, b>>) \o <<c>>
    BY <1>1, AppendIsConcat
  <1> QED BY <1>2, <1>3, <1>4, Zenon

(* What was there already is found again in a longer trail.                 *)
LEMMA SubSeqKept ==
  ASSUME NEW s, Trail(s), NEW u, Trail(u), Continues(s, u), NEW n \in Nat, n <= Len(s)
  PROVE  SubSeq(u, 1, n) = SubSeq(s, 1, n) /\ (n = Len(s) => SubSeq(u, 1, n) = s)
  <1> DEFINE T == {s[t] : t \in DOMAIN s} \union {u[t] : t \in DOMAIN u}
  <1>1. s \in Seq(T) /\ u \in Seq(T)
    <2>1. {s[t] : t \in DOMAIN s} \subseteq T /\ {u[t] : t \in DOMAIN u} \subseteq T
      OBVIOUS
    <2> HIDE DEF T
    <2> QED BY <2>1, SeqMonotonic DEF Trail
  <1>2. Len(s) \in Nat /\ Len(u) \in Nat /\ Len(s) <= Len(u) /\ \A t \in 1..Len(s) : u[t] = s[t]
    BY TrailLength DEF Continues
  <1> HIDE DEF T
  <1>3. ASSUME NEW v \in Seq(T), n <= Len(v), \A t \in 1..n : v[t] = s[t]
        PROVE  /\ SubSeq(v, 1, n) \in Seq(T) /\ Len(SubSeq(v, 1, n)) = n
               /\ \A t \in 1..n : SubSeq(v, 1, n)[t] = s[t]
    <2>0. Len(v) \in Nat
      BY LenProperties
    <2>1. /\ 1 \in 1..(Len(v) + 1) /\ n \in (1 - 1)..Len(v)
      BY <1>3, <2>0
    <2>2. n - 1 + 1 = n
      OBVIOUS
    <2> DEFINE w == SubSeq(v, 1, n)
    <2>3. /\ w \in Seq(T) /\ Len(w) = n - 1 + 1
          /\ \A t \in 1..(n - 1 + 1) : w[t] = v[1 + t - 1]
      BY <2>1, SubSeqProperties
    <2> HIDE DEF w
    <2>4. ASSUME NEW t \in 1..n PROVE w[t] = s[t]
      <3>1. 1 + t - 1 = t
        OBVIOUS
      <3> QED BY <1>3, <2>2, <2>3, <3>1
    <2> QED BY <2>2, <2>3, <2>4 DEF w
  <1>4. /\ SubSeq(s, 1, n) \in Seq(T) /\ Len(SubSeq(s, 1, n)) = n
        /\ \A t \in 1..n : SubSeq(s, 1, n)[t] = s[t]
    BY <1>1, <1>3
  <1>5. /\ SubSeq(u, 1, n) \in Seq(T) /\ Len(SubSeq(u, 1, n)) = n
        /\ \A t \in 1..n : SubSeq(u, 1, n)[t] = s[t]
    BY <1>1, <1>2, <1>3
  <1>6. SubSeq(u, 1, n) = SubSeq(s, 1, n)
    BY <1>4, <1>5, SeqEqual
  <1>7. n = Len(s) => SubSeq(u, 1, n) = s
    BY <1>1, <1>5, SeqEqual
  <1> QED BY <1>6, <1>7

(* The marks of a step, and of the steps before it.                         *)
LEMMA StepMarksTyped ==
  ASSUME NEW row, NEW i \in Nat
  PROVE  StepMarks(row, i) \in Seq(Marks)
  <1>1. /\ <<i, "started">> \in Marks /\ <<i, "suspended">> \in Marks
        /\ <<i, "completed">> \in Marks
    BY DEF Marks, MarkNames
  <1>2. /\ <<<<i, "started">>, <<i, "suspended">>, <<i, "completed">>>> \in Seq(Marks)
        /\ <<<<i, "started">>, <<i, "completed">>>> \in Seq(Marks)
    BY <1>1
  <1> QED BY <1>2, Zenon DEF StepMarks

(* The gate of a dialogue reads an output before it.                        *)
LEMMA GateKept ==
  ASSUME NEW old, NEW new, NEW i \in 1..N, \A j \in 1..(i - 1) : new[j] = old[j]
  PROVE  _dialogue_gate_condition(i, new) = _dialogue_gate_condition(i, old)
  <1>1. Gate[i] # 0 => Gate[i] \in 1..(i - 1)
    BY EngineAssumption, StepsLength
  <1> QED BY <1>1 DEF _dialogue_gate_condition

(* The marks of a step depend on the outputs before it only.                *)
LEMMA StepMarksKept ==
  ASSUME NEW row, NEW more, NEW i \in 1..N, \A j \in 1..(i - 1) : more.outputs[j] = row.outputs[j]
  PROVE  StepMarks(more, i) = StepMarks(row, i)
  <1>1. _dialogue_gate_condition(i, more.outputs) = _dialogue_gate_condition(i, row.outputs)
    BY GateKept
  <1> QED BY <1>1, Zenon DEF StepMarks

(* Before the first step there are no marks.                                *)
LEMMA PrefixNone ==
  ASSUME NEW row
  PROVE  Prefix(row, 0) = <<>>
  <1>1. [i \in 1..0 |-> StepMarks(row, i)] = <<>>
    OBVIOUS
  <1>2. Len(<<>>) = 0
    OBVIOUS
  <1> QED BY <1>1, <1>2, Zenon DEF Prefix, FlattenSeq

(* One more step adds its marks, and later outputs change no earlier ones.  *)
LEMMA PrefixGrows ==
  ASSUME NEW row, NEW more, NEW c \in Nat, c <= N,
         \A j \in 1..c : more.outputs[j] = row.outputs[j]
  PROVE  /\ Prefix(row, c) \in Seq(Marks)
         /\ Prefix(more, c) = Prefix(row, c)
         /\ c < N => Prefix(more, c + 1) = Prefix(row, c) \o StepMarks(more, c + 1)
  <1> DEFINE old == [i \in 1..c |-> StepMarks(row, i)]
             new == [i \in 1..(c + 1) |-> StepMarks(more, i)]
             e == StepMarks(more, c + 1)
  <1>1. /\ old \in [1..c -> Seq(Marks)] /\ new \in [1..(c + 1) -> Seq(Marks)]
        /\ e \in Seq(Marks)
    BY StepMarksTyped
  <1>2. /\ old \in Seq(Seq(Marks)) /\ Len(old) = c
        /\ new \in Seq(Seq(Marks)) /\ Len(new) = c + 1
    BY <1>1, SeqDef, LenProperties
  <1>3. ASSUME NEW i \in 1..c PROVE StepMarks(more, i) = StepMarks(row, i)
    <2>1. i \in 1..N /\ \A j \in 1..(i - 1) : more.outputs[j] = row.outputs[j]
      BY StepsLength
    <2> QED BY <2>1, StepMarksKept
  <1>4. Prefix(row, c) \in Seq(Marks)
    BY <1>1, <1>2, FlattenAppend DEF Prefix
  <1>5. Prefix(more, c) = Prefix(row, c)
    <2>1. [i \in 1..c |-> StepMarks(more, i)] = old
      BY <1>3
    <2> QED BY <2>1, Zenon DEF Prefix
  <1>6. new = Append(old, e)
    <2>1. new[c + 1] = e /\ \A i \in 1..c : new[i] = old[i]
      BY <1>3
    <2> HIDE DEF new, old, e
    <2>a. /\ Append(old, e) \in Seq(Seq(Marks)) /\ Len(Append(old, e)) = Len(old) + 1
          /\ Append(old, e)[Len(old) + 1] = e
          /\ \A i \in 1..Len(old) : Append(old, e)[i] = old[i]
      <3> DEFINE S == Seq(Marks)
      <3>1. old \in Seq(S) /\ e \in S
        BY <1>1, <1>2
      <3> HIDE DEF S
      <3>2. /\ Append(old, e) \in Seq(S) /\ Len(Append(old, e)) = Len(old) + 1
            /\ Append(old, e)[Len(old) + 1] = e
            /\ \A i \in 1..Len(old) : Append(old, e)[i] = old[i]
        BY <3>1, AppendProperties
      <3> QED BY <3>2 DEF S
    <2>2. /\ Append(old, e) \in Seq(Seq(Marks)) /\ Len(Append(old, e)) = c + 1
          /\ Append(old, e)[c + 1] = e /\ \A i \in 1..c : Append(old, e)[i] = old[i]
      BY <1>2, <2>a
    <2>3. \A i \in 1..(c + 1) : new[i] = Append(old, e)[i]
      BY <2>1, <2>2
    <2> QED BY <1>2, <2>2, <2>3, SeqEqual
  <1>7. Prefix(more, c + 1) = Prefix(row, c) \o e
    <2>1. Prefix(more, c + 1) = FlattenSeq(new) /\ Prefix(row, c) = FlattenSeq(old)
      BY DEF Prefix
    <2> HIDE DEF new, old, e
    <2>2. FlattenSeq(Append(old, e)) = FlattenSeq(old) \o e
      BY <1>1, <1>2, FlattenAppend
    <2> QED BY <1>6, <2>1, <2>2
  <1> QED BY <1>4, <1>5, <1>7

(* The marks of the next step follow those before it.                       *)
LEMMA PrefixNext ==
  ASSUME NEW row, NEW more, NEW c \in Nat, NEW i \in 1..N, c < i, i <= c + 1,
         \A j \in 1..c : more.outputs[j] = row.outputs[j]
  PROVE  Prefix(more, i) = Prefix(row, c) \o StepMarks(more, i)
  <1>1. c <= N /\ c < N /\ i = c + 1
    BY StepsLength
  <1>2. Prefix(more, c + 1) = Prefix(row, c) \o StepMarks(more, c + 1)
    BY <1>1, PrefixGrows
  <1> QED BY <1>1, <1>2

(* A row with the same outputs has the same marks.                          *)
LEMMA PrefixKept ==
  ASSUME NEW row, NEW more, NEW c \in 0..N, \A j \in 1..c : more.outputs[j] = row.outputs[j]
  PROVE  Prefix(more, c) = Prefix(row, c)
  <1>1. c \in Nat /\ c <= N
    BY StepsLength
  <1> QED BY <1>1, PrefixGrows

-----------------------------------------------------------------------------
(* Rows that load: the first one, and those a step, a dialogue and a claim  *)
(* write.                                                                   *)

(* What a sound row says of its position and its marks.                     *)
LEMMA SoundRow ==
  ASSUME NEW row, Sound(row)
  PROVE  /\ row.next \in 0..N /\ row.status \in Statuses
         /\ Completed(row) \in 0..N /\ Completed(row) <= row.next
         /\ DOMAIN row.outputs = 1..Completed(row)
         /\ MarksOf(row.traces) = Prefix(row, Completed(row)) \o OpenMarks(row)
  <1>1. /\ row.next \in 0..N /\ row.status \in Statuses
        /\ row.status = "suspended" => row.next > 0
        /\ DOMAIN row.outputs = 1..Completed(row)
    BY DEF Sound, _validate_checkpoint_shape, Statuses
  <1>2. MarksOf(row.traces) = Prefix(row, Completed(row)) \o OpenMarks(row)
    BY Zenon DEF Sound, _validate_checkpoint_shape, MarksOf, Prefix
  <1> QED BY <1>1, <1>2, StepsLength DEF Completed

(* A receipt reads the outputs and traces before it only.                   *)
LEMMA SuspendedKept ==
  ASSUME NEW row, Sound(row), NEW more, more.bound = row.bound,
         Trail(more.traces), Continues(row.traces, more.traces),
         \A j \in 1..Completed(row) : more.outputs[j] = row.outputs[j],
         NEW t \in DOMAIN row.traces, row.traces[t].step \in 0..(Completed(row) + 1)
  PROVE  SuspendedBefore(more, t) = SuspendedBefore(row, t)
  <1> DEFINE i == row.traces[t].step
  <1>1. /\ Trail(row.traces) /\ t \in 1..Len(row.traces) /\ Len(row.traces) \in Nat
        /\ more.traces[t] = row.traces[t] /\ Completed(row) \in Nat
    BY TrailLength, SoundRow DEF Sound, Continues
  <1>2. SubSeq(more.traces, 1, t - 1) = SubSeq(row.traces, 1, t - 1)
    <2> DEFINE n == Len(row.traces)
    <2>0. n \in Nat /\ t \in 1..n
      BY <1>1
    <2> HIDE DEF n
    <2>1. t - 1 \in Nat /\ t - 1 <= n
      BY <2>0
    <2> QED BY <1>1, <2>1, SubSeqKept DEF n
  <1>3. [j \in 1..(i - 1) |-> more.outputs[j]] = [j \in 1..(i - 1) |-> row.outputs[j]]
    <2>1. \A j \in 1..(i - 1) : j \in 1..Completed(row)
      BY <1>1
    <2> QED BY <2>1
  <1> QED BY <1>1, <1>2, <1>3, Zenon DEF SuspendedBefore

(* The receipts of a row hold in every row that goes on from it.            *)
LEMMA ReceiptsKept ==
  ASSUME NEW row, Sound(row), NEW more, more.bound = row.bound,
         Trail(more.traces), Continues(row.traces, more.traces),
         \A j \in 1..Completed(row) : more.outputs[j] = row.outputs[j],
         1..Completed(row) \subseteq DOMAIN more.outputs,
         NEW t \in DOMAIN row.traces
  PROVE  /\ more.traces[t] = row.traces[t]
         /\ Receipted(more, t)
  <1> DEFINE i == row.traces[t].step
  <1>1. /\ more.traces[t] = row.traces[t]
        /\ row.traces[t].step \in Nat /\ row.traces[t].mark \in MarkNames
        /\ \/ row.traces[t].generation = <<>>
           \/ /\ row.traces[t].mark = "completed"
              /\ row.traces[t].generation = _checkpoint_fingerprint(SuspendedBefore(row, t))
    BY TrailLength DEF Sound, Continues, Receipted
  <1>2. CASE row.traces[t].mark = "completed"
    <2>1. ReceiptHolds(row, t)
      BY <1>2 DEF Sound, _validate_checkpoint_shape
    <2>2. i \in 1..Completed(row) /\ Completed(row) \in 0..N /\ N \in Nat
      BY <2>1, SoundRow, StepsLength DEF ReceiptHolds
    <2>3. SuspendedBefore(more, t) = SuspendedBefore(row, t)
      BY <2>2, SuspendedKept
    <2>4. _dialogue_gate_condition(i, more.outputs) = _dialogue_gate_condition(i, row.outputs)
      <3>1. i \in 1..N /\ \A j \in 1..(i - 1) : more.outputs[j] = row.outputs[j]
        BY <2>2
      <3> HIDE DEF i
      <3> QED BY <3>1, GateKept
    <2>5. more.outputs[i] = row.outputs[i] /\ i \in DOMAIN more.outputs
      BY <2>2
    <2>6. ReceiptHolds(more, t)
      BY <1>1, <2>1, <2>3, <2>4, <2>5, Zenon DEF ReceiptHolds
    <2> QED BY <1>1, <2>3, <2>6 DEF Receipted
  <1>3. CASE row.traces[t].mark # "completed"
    BY <1>1, <1>3 DEF Receipted
  <1> QED BY <1>2, <1>3

(* A row that goes on from a sound one is sound when what it adds is.       *)
LEMMA SoundGrows ==
  ASSUME NEW row, Sound(row), NEW more,
         more = _checkpoint(row.bound, more.status, more.next, more.outputs, more.traces),
         more.status \in Statuses, more.next \in 0..N,
         more.status = "suspended" =>
            /\ more.next > 0 /\ Steps[more.next] = "dialogue"
            /\ _dialogue_gate_condition(more.next, more.outputs) = "yes",
         more.status \in {"failed", "cancelled"} => more.next < N,
         more.outputs = [j \in 1..Completed(more) |-> more.outputs[j]],
         Completed(row) <= Completed(more),
         \A j \in 1..Completed(row) : more.outputs[j] = row.outputs[j],
         \A i \in 1..Completed(more) : i > Completed(row) /\ Steps[i] = "dialogue" =>
            _dialogue_gate_condition(i, more.outputs) # "notbool",
         Trail(more.traces), Continues(row.traces, more.traces),
         MarksOf(more.traces) = Prefix(more, Completed(more)) \o OpenMarks(more),
         \A t \in 1..Len(more.traces) : t > Len(row.traces) => Receipted(more, t)
  PROVE  Sound(more)
  <1>1. /\ Completed(row) \in 0..N /\ Completed(row) <= row.next /\ row.next \in 0..N
        /\ Completed(more) \in 0..N /\ Completed(more) <= more.next /\ N \in Nat
    BY SoundRow, StepsLength DEF Completed
  <1>2. more.bound = row.bound
    BY CheckpointFields
  <1>3. DOMAIN more.outputs = 1..Completed(more)
    OBVIOUS
  <1>4. \A t \in DOMAIN more.traces : Receipted(more, t)
    <2> SUFFICES ASSUME NEW t \in DOMAIN more.traces PROVE Receipted(more, t)
      OBVIOUS
    <2>1. /\ t \in 1..Len(more.traces) /\ Len(more.traces) \in Nat
          /\ DOMAIN row.traces = 1..Len(row.traces) /\ Len(row.traces) \in Nat
      BY TrailLength DEF Sound
    <2>2. CASE t \in DOMAIN row.traces
      <3>1. 1..Completed(row) \subseteq DOMAIN more.outputs
        BY <1>1, <1>3
      <3> QED BY <1>2, <2>2, <3>1, ReceiptsKept
    <2>3. CASE t \notin DOMAIN row.traces
      BY <2>1, <2>3
    <2> QED BY <2>2, <2>3
  <1>5. \A i \in 1..more.next : Steps[i] = "dialogue" /\ i <= Completed(more) =>
           _dialogue_gate_condition(i, more.outputs) # "notbool"
    <2> SUFFICES ASSUME NEW i \in 1..more.next, Steps[i] = "dialogue", i <= Completed(more)
                 PROVE  _dialogue_gate_condition(i, more.outputs) # "notbool"
      OBVIOUS
    <2>1. CASE i <= Completed(row)
      <3>1. i \in 1..row.next /\ i \in 1..N /\ \A j \in 1..(i - 1) : j \in 1..Completed(row)
        BY <1>1, <2>1
      <3>2. _dialogue_gate_condition(i, row.outputs) # "notbool"
        BY <2>1, <3>1 DEF Sound, _validate_checkpoint_shape
      <3>a. \A j \in 1..(i - 1) : more.outputs[j] = row.outputs[j]
        BY <3>1
      <3>3. _dialogue_gate_condition(i, more.outputs) = _dialogue_gate_condition(i, row.outputs)
        BY <3>1, <3>a, GateKept
      <3> QED BY <3>2, <3>3
    <2>2. CASE i > Completed(row)
      BY <1>1, <2>2
    <2> QED BY <1>1, <2>1, <2>2
  <1>6. [t \in DOMAIN more.traces |-> <<more.traces[t].step, more.traces[t].mark>>] =
           FlattenSeq([i \in 1..Completed(more) |-> StepMarks(more, i)]) \o OpenMarks(more)
    BY Zenon DEF MarksOf, Prefix
  <1>7. _validate_checkpoint_shape(more)
    BY <1>1, <1>3, <1>4, <1>5, <1>6 DEF _validate_checkpoint_shape, Statuses, Receipted
  <1> QED BY <1>2, <1>4, <1>7 DEF Sound

(* The fields of a checkpoint and of a trace.                               *)
LEMMA CheckpointTraces ==
  ASSUME NEW b, NEW st, NEW n, NEW o, NEW t
  PROVE  _checkpoint(b, st, n, o, t).traces = t
  BY DEF _checkpoint

(* A trace has the fields it is built from.                                 *)
LEMMA TraceFields ==
  ASSUME NEW i, NEW m, NEW v, NEW d, NEW g
  PROVE  /\ _trace(i, m, v, d, g).step = i /\ _trace(i, m, v, d, g).mark = m
         /\ _trace(i, m, v, d, g).value = v /\ _trace(i, m, v, d, g).disposition = d
         /\ _trace(i, m, v, d, g).generation = g
  BY DEF _trace

(* A mark is a trace without a receipt.                                     *)
LEMMA MarkFields ==
  ASSUME NEW i, NEW m
  PROVE  Mark(i, m).step = i /\ Mark(i, m).mark = m /\ Mark(i, m).generation = <<>>
  BY DEF Mark, _trace

(* The row execute inserts.                                                 *)
LEMMA InitialSound ==
  ASSUME NEW bound
  PROVE  Sound(_checkpoint(bound, "running", 0, Empty, <<>>))
  <1> DEFINE row == _checkpoint(bound, "running", 0, Empty, <<>>)
  <1>1. /\ row.bound = bound /\ row.status = "running" /\ row.next = 0
        /\ row.outputs = Empty /\ row.traces = <<>>
    BY CheckpointFields, CheckpointTraces
  <1>2. row = _checkpoint(row.bound, row.status, row.next, row.outputs, row.traces)
    BY <1>1, Zenon
  <1> HIDE DEF row
  <1>3. Completed(row) = 0 /\ OpenMarks(row) = <<>>
    BY <1>1 DEF Completed, OpenMarks
  <1>4. 1..0 = {}
    OBVIOUS
  <1>5. /\ row.outputs = [j \in 1..Completed(row) |-> row.outputs[j]]
        /\ DOMAIN row.outputs = 1..Completed(row)
    BY <1>1, <1>3, <1>4 DEF Empty
  <1>6. DOMAIN <<>> = {} /\ <<>> \in Seq({}) /\ <<>> \o <<>> = <<>>
    <2>1. <<>> \in Seq({}) /\ Len(<<>>) = 0 /\ DOMAIN <<>> = 1..0
      BY EmptySeq, LenProperties
    <2> QED BY <1>4, <2>1, ConcatEmptySeq
  <1>7. Trail(row.traces)
    BY <1>1, <1>6 DEF Trail
  <1>8. [t \in DOMAIN row.traces |-> <<row.traces[t].step, row.traces[t].mark>>] =
           FlattenSeq([i \in 1..Completed(row) |-> StepMarks(row, i)]) \o OpenMarks(row)
    <2>1. Prefix(row, 0) = <<>>
      BY PrefixNone
    <2>2. FlattenSeq([i \in 1..Completed(row) |-> StepMarks(row, i)]) = <<>>
      BY <1>3, <2>1, Zenon DEF Prefix
    <2>3. [t \in DOMAIN row.traces |-> <<row.traces[t].step, row.traces[t].mark>>] = <<>>
      BY <1>1, <1>6
    <2> QED BY <1>3, <1>6, <2>2, <2>3, Zenon
  <1>9. _validate_checkpoint_shape(row)
    BY <1>1, <1>3, <1>4, <1>5, <1>6, <1>8, StepsLength DEF _validate_checkpoint_shape, Terminal
  <1>10. \A t \in DOMAIN row.traces : Receipted(row, t)
    BY <1>1, <1>6
  <1> HIDE DEF row
  <1>11. Sound(row)
    BY <1>2, <1>5, <1>7, <1>9, <1>10 DEF Sound
  <1> QED BY <1>11 DEF row

(* Two records more, with their marks.                                      *)
LEMMA MarksTwo ==
  ASSUME NEW s, Trail(s), NEW a, NEW b, MarksOf(s) \in Seq(Marks)
  PROVE  MarksOf(s \o <<a, b>>) = MarksOf(s) \o <<<<a.step, a.mark>>, <<b.step, b.mark>>>>
  <1> DEFINE p == MarksOf(s)
            ma == <<a.step, a.mark>>
             mb == <<b.step, b.mark>>
  <1>1. s \o <<a, b>> = Append(Append(s, a), b)
    BY TrailTwo
  <1>2. Trail(Append(s, a))
    BY TrailAppend
  <1>3. MarksOf(Append(s, a)) = Append(p, ma)
    BY MarksAppend
  <1>4. MarksOf(Append(Append(s, a), b)) = Append(Append(p, ma), mb)
    BY <1>2, <1>3, MarksAppend
  <1>5. Trail(p)
    BY SeqIsTrail
  <1> HIDE DEF p, ma, mb
  <1>6. p \o <<ma, mb>> = Append(Append(p, ma), mb)
    BY <1>5, TrailTwo
  <1> QED BY <1>1, <1>4, <1>6, Zenon DEF p, ma, mb

(* A running row has the marks of its completed steps and nothing else.     *)
LEMMA RunningMarks ==
  ASSUME NEW row, Sound(row), row.status = "running"
  PROVE  /\ Completed(row) = row.next /\ Prefix(row, row.next) \in Seq(Marks)
         /\ MarksOf(row.traces) = Prefix(row, row.next)
  <1>1. Completed(row) = row.next /\ OpenMarks(row) = <<>>
    BY DEF Completed, OpenMarks
  <1>2. row.next \in Nat /\ row.next <= N /\ MarksOf(row.traces) = Prefix(row, row.next) \o <<>>
    <2>1. /\ row.next \in 0..N /\ N \in Nat
          /\ MarksOf(row.traces) = Prefix(row, Completed(row)) \o OpenMarks(row)
      BY SoundRow, StepsLength
    <2> QED BY <1>1, <2>1
  <1>3. Prefix(row, row.next) \in Seq(Marks)
    BY <1>2, PrefixGrows
  <1> QED BY <1>1, <1>2, <1>3, ConcatEmptySeq

(* The row a completed step writes.                                         *)
LEMMA AdvancedSound ==
  ASSUME NEW row, Sound(row), row.status = "running", row.next < N, NEW value, NEW disposition,
         Steps[row.next + 1] = "validate" => disposition \in {"continue", "terminate", "fail"},
         Steps[row.next + 1] = "dialogue" =>
            /\ _dialogue_gate_condition(row.next + 1, row.outputs) = "no"
            /\ value = "default"
  PROVE  /\ Sound(Advanced(row, value, disposition))
         /\ Continues(row.traces, Advanced(row, value, disposition).traces)
  <1> DEFINE i == row.next + 1
             a == Mark(i, "started")
             b == _trace(i, "completed", value, disposition, <<>>)
             more == Advanced(row, value, disposition)
             n == Len(row.traces)
             st == IF i = N \/ disposition \in {"terminate", "fail"} THEN "completed" ELSE "running"
  <1>a. more = _checkpoint(row.bound, st, i, Put(row.outputs, i, value), row.traces \o <<a, b>>)
    BY Zenon DEF Advanced
  <1>b. st \in {"completed", "running"}
    OBVIOUS
  <1> HIDE DEF st, a, b, more
  <1>1. /\ more.bound = row.bound /\ more.status \in {"completed", "running"} /\ more.next = i
        /\ more.outputs = Put(row.outputs, i, value) /\ more.traces = row.traces \o <<a, b>>
        /\ more = _checkpoint(row.bound, more.status, more.next, more.outputs, more.traces)
    <2> HIDE DEF i
    <2>1. /\ more.bound = row.bound /\ more.status = st /\ more.next = i
          /\ more.outputs = Put(row.outputs, i, value) /\ more.traces = row.traces \o <<a, b>>
      BY <1>a DEF _checkpoint
    <2>2. more = _checkpoint(row.bound, more.status, more.next, more.outputs, more.traces)
      BY <1>a, <2>1, Zenon
    <2> QED BY <1>b, <2>1, <2>2
  <1>3. /\ a.step = i /\ a.mark = "started" /\ a.generation = <<>>
        /\ b.step = i /\ b.mark = "completed" /\ b.generation = <<>>
        /\ b.value = value /\ b.disposition = disposition
    BY MarkFields, TraceFields DEF a, b
  <1>4. /\ row.next \in 0..N /\ row.next \in Nat /\ i \in 1..N /\ N \in Nat
        /\ row.next <= N /\ i \in Nat /\ i <= N /\ i = row.next + 1 /\ i - 1 = row.next
        /\ Completed(row) = row.next /\ DOMAIN row.outputs = 1..row.next
        /\ Trail(row.traces) /\ n \in Nat
    <2>1. row.next \in 0..N /\ N \in Nat
      BY SoundRow, StepsLength
    <2>2. Completed(row) = row.next /\ DOMAIN row.outputs = 1..Completed(row)
      BY SoundRow, RunningMarks
    <2>3. Trail(row.traces) /\ n \in Nat
      BY TrailLength DEF Sound
    <2>4. /\ row.next \in Nat /\ i \in 1..N /\ row.next <= N /\ i \in Nat /\ i <= N
          /\ i = row.next + 1 /\ i - 1 = row.next
      BY <2>1
    <2> QED BY <2>1, <2>2, <2>3, <2>4
  <1>c. /\ Steps[i] = "validate" => disposition \in {"continue", "terminate", "fail"}
        /\ Steps[i] = "dialogue" =>
              _dialogue_gate_condition(i, row.outputs) = "no" /\ value = "default"
    OBVIOUS
  <1> HIDE DEF i
  <1>5. /\ Trail(more.traces) /\ Continues(row.traces, more.traces)
        /\ Len(more.traces) = n + 2 /\ more.traces[n + 1] = a /\ more.traces[n + 2] = b
    BY <1>1, <1>4, TrailTwo
  <1>6. Completed(more) = i /\ OpenMarks(more) = <<>>
    BY <1>1 DEF Completed, OpenMarks
  <1>7. /\ more.outputs = [j \in 1..i |-> more.outputs[j]] /\ more.outputs[i] = value
        /\ \A j \in 1..row.next : more.outputs[j] = row.outputs[j]
    BY <1>1, <1>4 DEF Put
  <1>8. _dialogue_gate_condition(i, more.outputs) = _dialogue_gate_condition(i, row.outputs)
    <2>1. \A j \in 1..(i - 1) : more.outputs[j] = row.outputs[j]
      BY <1>4, <1>7
    <2> QED BY <1>4, <2>1, GateKept
  <1>9. MarksOf(more.traces) = Prefix(more, i) \o <<>>
    <2> DEFINE p == Prefix(row, row.next)
               two == <<<<i, "started">>, <<i, "completed">>>>
    <2>1. p \in Seq(Marks) /\ MarksOf(row.traces) = p
      BY RunningMarks
    <2>2. MarksOf(more.traces) = p \o two
      <3>1. MarksOf(row.traces) \in Seq(Marks)
        BY <2>1
      <3> DEFINE s == row.traces
      <3>2. Trail(s) /\ MarksOf(s) \in Seq(Marks)
        BY <1>4, <3>1
      <3> HIDE DEF s
      <3>3. MarksOf(s \o <<a, b>>) = MarksOf(s) \o <<<<a.step, a.mark>>, <<b.step, b.mark>>>>
        BY <3>2, MarksTwo
      <3> QED BY <1>1, <1>3, <2>1, <3>3 DEF s
    <2>3. StepMarks(more, i) = two
      BY <1>8, <1>c DEF StepMarks
    <2> HIDE DEF p, two
    <2>4. Prefix(more, i) = p \o two
      <3>1. row.next < N
        OBVIOUS
      <3>a. row.next \in Nat /\ i \in 1..N /\ row.next < i /\ i <= row.next + 1
        BY <1>4
      <3>b. \A j \in 1..row.next : more.outputs[j] = row.outputs[j]
        BY <1>7
      <3>2. Prefix(more, i) = Prefix(row, row.next) \o StepMarks(more, i)
        BY <3>a, <3>b, PrefixNext
      <3> QED BY <2>3, <3>2 DEF p
    <2>5. Prefix(more, i) \in Seq(Marks)
      BY <1>4, PrefixGrows
    <2> QED BY <2>2, <2>4, <2>5, ConcatEmptySeq
  <1>10. ASSUME NEW t \in 1..Len(more.traces), t > n PROVE Receipted(more, t)
    <2>0. n \in Nat /\ t \in 1..(n + 2) /\ t > n
      BY <1>4, <1>5, <1>10
    <2>1. t = n + 1 \/ t = n + 2
      <3> HIDE DEF n
      <3> QED BY <2>0
    <2>2. CASE t = n + 1
      BY <1>3, <1>4, <1>5, <2>2 DEF Receipted, MarkNames
    <2>3. CASE t = n + 2
      <3>1. more.traces[t] = b /\ i \in DOMAIN more.outputs
        BY <1>4, <1>5, <1>7, <2>3
      <3>2. ReceiptHolds(more, t)
        BY <1>3, <1>7, <1>8, <1>c, <3>1 DEF ReceiptHolds
      <3> QED BY <1>3, <1>4, <3>1, <3>2 DEF Receipted, MarkNames
    <2> QED BY <2>1, <2>2, <2>3
  <1>11. \A j \in 1..i : j > row.next /\ Steps[j] = "dialogue" =>
            _dialogue_gate_condition(j, more.outputs) # "notbool"
    <2> SUFFICES ASSUME Steps[i] = "dialogue"
                 PROVE  _dialogue_gate_condition(i, more.outputs) # "notbool"
      BY <1>4
    <2> QED BY <1>8, <1>c
  <1>12. more.status \in Statuses /\ more.status \notin {"suspended", "failed", "cancelled"}
         /\ more.next \in 0..N /\ row.next <= i
    <2>1. more.status \in Statuses /\ more.status \notin {"suspended", "failed", "cancelled"}
      BY <1>1 DEF Statuses, Terminal
    <2>2. more.next \in 0..N /\ row.next <= i
      BY <1>1, <1>4
    <2> QED BY <2>1, <2>2
  <1>13. Sound(more)
    <2>1. MarksOf(more.traces) = Prefix(more, Completed(more)) \o OpenMarks(more)
      BY <1>6, <1>9
    <2>2. /\ Completed(row) <= Completed(more)
          /\ \A j \in 1..Completed(row) : more.outputs[j] = row.outputs[j]
          /\ more.outputs = [j \in 1..Completed(more) |-> more.outputs[j]]
          /\ \A j \in 1..Completed(more) : j > Completed(row) /\ Steps[j] = "dialogue" =>
                _dialogue_gate_condition(j, more.outputs) # "notbool"
      BY <1>4, <1>6, <1>7, <1>11, <1>12
    <2> QED BY <1>1, <1>5, <1>10, <1>12, <2>1, <2>2, SoundGrows
  <1> QED BY <1>5, <1>13 DEF more

(* The row a step that fails, or a dialogue that asks, writes.              *)
Halted(row, status) == IF status = "suspended" THEN Suspended(row) ELSE Stopped(row, status)

(* Such a row is sound and goes on from the one before.                     *)
LEMMA HaltedSound ==
  ASSUME NEW row, Sound(row), row.status = "running", row.next < N,
         NEW status, status \in {"suspended", "failed", "cancelled"},
         status = "suspended" =>
            /\ Steps[row.next + 1] = "dialogue"
            /\ _dialogue_gate_condition(row.next + 1, row.outputs) = "yes"
  PROVE  Sound(Halted(row, status)) /\ Continues(row.traces, Halted(row, status).traces)
  <1> DEFINE i == row.next + 1
             a == Mark(i, "started")
             b == Mark(i, status)
             more == Halted(row, status)
             n == Len(row.traces)
             next == IF status = "suspended" THEN i ELSE row.next
  <1>1. more = _checkpoint(row.bound, status, next, row.outputs, row.traces \o <<a, b>>)
    BY Zenon DEF Halted, Suspended, Stopped
  <1> HIDE DEF a, b, next, more
  <1>2. /\ more.bound = row.bound /\ more.status = status /\ more.next = next
        /\ more.outputs = row.outputs /\ more.traces = row.traces \o <<a, b>>
    <2> HIDE DEF i
    <2> QED BY <1>1 DEF _checkpoint
  <1>3. more = _checkpoint(row.bound, more.status, more.next, more.outputs, more.traces)
    BY <1>1, <1>2, Zenon
  <1>4. /\ a.step = i /\ a.mark = "started" /\ a.generation = <<>>
        /\ b.step = i /\ b.mark = status /\ b.generation = <<>>
    BY MarkFields DEF a, b
  <1>5. /\ row.next \in 0..N /\ N \in Nat /\ row.next \in Nat /\ i \in 1..N /\ i \in Nat
        /\ row.next <= N /\ i = row.next + 1 /\ i - 1 = row.next
        /\ Completed(row) = row.next /\ row.outputs = [j \in 1..row.next |-> row.outputs[j]]
        /\ Trail(row.traces) /\ n \in Nat
    <2>1. row.next \in 0..N /\ N \in Nat
      BY SoundRow, StepsLength
    <2>2. /\ Completed(row) = row.next
          /\ row.outputs = [j \in 1..Completed(row) |-> row.outputs[j]]
      BY RunningMarks DEF Sound
    <2>3. Trail(row.traces) /\ n \in Nat
      BY TrailLength DEF Sound
    <2>4. /\ row.next \in Nat /\ i \in 1..N /\ row.next <= N /\ i \in Nat
          /\ i = row.next + 1 /\ i - 1 = row.next
      BY <2>1
    <2> QED BY <2>1, <2>2, <2>3, <2>4
  <1>6. /\ status = "suspended" => next = i
        /\ status # "suspended" => next = row.next
    BY DEF next
  <1>7. status = "suspended" =>
           Steps[i] = "dialogue" /\ _dialogue_gate_condition(i, row.outputs) = "yes"
    OBVIOUS
  <1> HIDE DEF i
  <1>8. /\ Trail(more.traces) /\ Continues(row.traces, more.traces)
        /\ Len(more.traces) = n + 2 /\ more.traces[n + 1] = a /\ more.traces[n + 2] = b
    BY <1>2, <1>5, TrailTwo
  <1>9. Completed(more) = row.next
    BY <1>2, <1>5, <1>6 DEF Completed
  <1>10. OpenMarks(more) = <<<<i, "started">>, <<i, status>>>>
    <2>1. CASE status = "suspended"
      BY <1>2, <1>6, <2>1 DEF OpenMarks
    <2>2. CASE status # "suspended"
      BY <1>2, <1>5, <1>6, <2>2 DEF OpenMarks
    <2> QED BY <2>1, <2>2
  <1>11. MarksOf(more.traces) = Prefix(more, row.next) \o OpenMarks(more)
    <2>1. MarksOf(row.traces) = Prefix(row, row.next) /\ MarksOf(row.traces) \in Seq(Marks)
      BY RunningMarks
    <2> DEFINE s == row.traces
    <2>2. Trail(s) /\ MarksOf(s) \in Seq(Marks)
      BY <1>5, <2>1
    <2> HIDE DEF s
    <2>3. MarksOf(s \o <<a, b>>) = MarksOf(s) \o <<<<a.step, a.mark>>, <<b.step, b.mark>>>>
      BY <2>2, MarksTwo
    <2>4. \A j \in 1..row.next : more.outputs[j] = row.outputs[j]
      BY <1>2
    <2>5. Prefix(more, row.next) = Prefix(row, row.next)
      <3>1. row.next \in 0..N
        BY <1>5
      <3> QED BY <2>4, <3>1, PrefixKept
    <2> QED BY <1>2, <1>4, <1>10, <2>1, <2>3, <2>5 DEF s
  <1>12. ASSUME NEW t \in 1..Len(more.traces), t > n PROVE Receipted(more, t)
    <2>0. n \in Nat /\ t \in 1..(n + 2) /\ t > n
      BY <1>5, <1>8, <1>12
    <2>1. t = n + 1 \/ t = n + 2
      <3> HIDE DEF n
      <3> QED BY <2>0
    <2>2. /\ more.traces[t].step = i /\ more.traces[t].generation = <<>>
          /\ more.traces[t].mark \in {"started", "suspended", "failed", "cancelled"}
      BY <1>4, <1>8, <2>1
    <2> QED BY <1>5, <2>2 DEF Receipted, MarkNames
  <1>13. /\ more.status \in Statuses /\ more.next \in 0..N
         /\ more.status = "suspended" =>
              /\ more.next > 0 /\ Steps[more.next] = "dialogue"
              /\ _dialogue_gate_condition(more.next, more.outputs) = "yes"
         /\ more.status \in {"failed", "cancelled"} => more.next < N
    <2>1. more.status \in Statuses
      BY <1>2 DEF Statuses, Terminal
    <2>2. CASE status = "suspended"
      BY <1>2, <1>5, <1>6, <1>7, <2>1, <2>2
    <2>3. CASE status # "suspended"
      BY <1>2, <1>5, <1>6, <2>1, <2>3
    <2> QED BY <2>2, <2>3
  <1>14. /\ more.outputs = [j \in 1..Completed(more) |-> more.outputs[j]]
         /\ Completed(row) <= Completed(more)
         /\ \A j \in 1..Completed(row) : more.outputs[j] = row.outputs[j]
         /\ \A j \in 1..Completed(more) : j > Completed(row) /\ Steps[j] = "dialogue" =>
              _dialogue_gate_condition(j, more.outputs) # "notbool"
    BY <1>2, <1>5, <1>9
  <1>15. MarksOf(more.traces) = Prefix(more, Completed(more)) \o OpenMarks(more)
    BY <1>9, <1>11
  <1>16. Sound(more)
    BY <1>2, <1>3, <1>8, <1>12, <1>13, <1>14, <1>15, SoundGrows
  <1> QED BY <1>8, <1>16 DEF more

(* The row a resume writes over the suspended one it read.                  *)
Claimed(row, answer) ==
    _checkpoint(row.bound, "running", row.next, Put(row.outputs, row.next, answer),
                Append(row.traces, _trace(row.next, "completed", answer, "none",
                                          _checkpoint_fingerprint(row))))

(* A claim is sound: its receipt names the suspended row it replaces.       *)
LEMMA ClaimedSound ==
  ASSUME NEW row, Sound(row), row.status = "suspended", NEW answer
  PROVE  Sound(Claimed(row, answer)) /\ Continues(row.traces, Claimed(row, answer).traces)
  <1> DEFINE i == row.next
             b == _trace(i, "completed", answer, "none", _checkpoint_fingerprint(row))
             more == Claimed(row, answer)
             n == Len(row.traces)
             c == i - 1
  <1>1. more = _checkpoint(row.bound, "running", i, Put(row.outputs, i, answer), Append(row.traces, b))
    BY Zenon DEF Claimed
  <1> HIDE DEF b, more
  <1>2. /\ more.bound = row.bound /\ more.status = "running" /\ more.next = i
        /\ more.outputs = Put(row.outputs, i, answer) /\ more.traces = Append(row.traces, b)
    BY <1>1 DEF _checkpoint
  <1>3. more = _checkpoint(row.bound, more.status, more.next, more.outputs, more.traces)
    BY <1>1, <1>2, Zenon
  <1>4. /\ b.step = i /\ b.mark = "completed" /\ b.value = answer
        /\ b.generation = _checkpoint_fingerprint(row)
    BY TraceFields DEF b
  <1>5. /\ i \in 1..N /\ N \in Nat /\ c \in Nat /\ c < i /\ i <= c + 1 /\ i = c + 1 /\ i - 1 = c /\ c <= N
        /\ Completed(row) = c /\ row.outputs = [j \in 1..c |-> row.outputs[j]]
        /\ Trail(row.traces) /\ n \in Nat /\ Steps[i] = "dialogue"
        /\ _dialogue_gate_condition(i, row.outputs) = "yes"
    <2>1. i \in 0..N /\ N \in Nat
      BY SoundRow, StepsLength
    <2>2. /\ i > 0 /\ Steps[i] = "dialogue" /\ _dialogue_gate_condition(i, row.outputs) = "yes"
      BY DEF Sound, _validate_checkpoint_shape
    <2>3. Completed(row) = c
      BY DEF Completed
    <2>4. /\ i \in 1..N /\ c \in Nat /\ c < i /\ i <= c + 1 /\ i = c + 1 /\ i - 1 = c /\ c <= N
      BY <2>1, <2>2
    <2>5. row.outputs = [j \in 1..Completed(row) |-> row.outputs[j]]
      BY DEF Sound
    <2>6. Trail(row.traces) /\ n \in Nat
      BY TrailLength DEF Sound
    <2> QED BY <2>1, <2>2, <2>3, <2>4, <2>5, <2>6
  <1> HIDE DEF c
  <1>6. /\ Trail(more.traces) /\ Continues(row.traces, more.traces)
        /\ Len(more.traces) = n + 1 /\ more.traces[n + 1] = b
    BY <1>2, <1>5, TrailAppend
  <1>7. Completed(more) = i /\ OpenMarks(more) = <<>>
    BY <1>2 DEF Completed, OpenMarks
  <1>8. /\ more.outputs = [j \in 1..i |-> more.outputs[j]] /\ more.outputs[i] = answer
        /\ \A j \in 1..c : more.outputs[j] = row.outputs[j]
    BY <1>2, <1>5 DEF Put
  <1>9. _dialogue_gate_condition(i, more.outputs) = "yes"
    <2>1. \A j \in 1..(i - 1) : more.outputs[j] = row.outputs[j]
      BY <1>5, <1>8
    <2>2. _dialogue_gate_condition(i, more.outputs) = _dialogue_gate_condition(i, row.outputs)
      <3> HIDE DEF i
      <3> QED BY <1>5, <2>1, GateKept
    <2> QED BY <1>5, <2>2
  <1>10. MarksOf(more.traces) = Prefix(more, i) \o <<>>
    <2> DEFINE p == Prefix(row, c)
               m1 == <<i, "started">>
               m2 == <<i, "suspended">>
               m3 == <<i, "completed">>
    <2>1. MarksOf(row.traces) = p \o <<m1, m2>>
      <3>1. OpenMarks(row) = <<m1, m2>>
        BY DEF OpenMarks
      <3>2. MarksOf(row.traces) = Prefix(row, Completed(row)) \o OpenMarks(row)
        BY SoundRow
      <3> QED BY <1>5, <3>1, <3>2
    <2>2. p \in Seq(Marks)
      BY <1>5, PrefixGrows
    <2>3. m1 \in Marks /\ m2 \in Marks /\ m3 \in Marks
      BY <1>5 DEF Marks, MarkNames
    <2>4. StepMarks(more, i) = <<m1, m2, m3>>
      BY <1>5, <1>9 DEF StepMarks
    <2>5. MarksOf(more.traces) = Append(MarksOf(row.traces), m3)
      <3> DEFINE s == row.traces
      <3>1. Trail(s)
        BY <1>5
      <3> HIDE DEF s
      <3>2. MarksOf(Append(s, b)) = Append(MarksOf(s), <<b.step, b.mark>>)
        BY <3>1, MarksAppend
      <3> QED BY <1>2, <1>4, <3>2 DEF s
    <2>6. Prefix(more, i) = p \o StepMarks(more, i)
      <3> HIDE DEF i
      <3>1. c \in Nat /\ i \in 1..N /\ c < i /\ i <= c + 1
        BY <1>5
      <3>2. \A j \in 1..c : more.outputs[j] = row.outputs[j]
        BY <1>8
      <3>3. Prefix(more, i) = Prefix(row, c) \o StepMarks(more, i)
        BY <3>1, <3>2, PrefixNext
      <3> QED BY <3>3
    <2> HIDE DEF m1, m2, m3, p
    <2>7. p \o <<m1, m2, m3>> = Append(p \o <<m1, m2>>, m3)
      BY <2>2, <2>3, ConcatThree
    <2>8. Prefix(more, i) = MarksOf(more.traces)
      BY <2>1, <2>4, <2>5, <2>6, <2>7
    <2>9. Prefix(more, i) \in Seq(Marks)
      <3>1. i \in Nat /\ i <= N
        BY <1>5
      <3> QED BY <3>1, PrefixGrows
    <2> QED BY <2>8, <2>9, ConcatEmptySeq
  <1>11. SuspendedBefore(more, n + 1) = row
    <2>1. SubSeq(more.traces, 1, n) = row.traces
      BY <1>5, <1>6, SubSeqKept
    <2>2. [j \in 1..(i - 1) |-> more.outputs[j]] = row.outputs
      BY <1>5, <1>8
    <2>3. (n + 1) - 1 = n
      BY <1>5
    <2>4. more.traces[n + 1].step = i
      BY <1>4, <1>6
    <2>5. SuspendedBefore(more, n + 1) =
             _checkpoint(row.bound, "suspended", i, row.outputs, row.traces)
      BY <1>2, <2>1, <2>2, <2>3, <2>4 DEF SuspendedBefore
    <2>6. row = _checkpoint(row.bound, row.status, row.next, row.outputs, row.traces)
      BY DEF Sound
    <2> QED BY <2>5, <2>6, Zenon
  <1>12. ASSUME NEW t \in 1..Len(more.traces), t > n PROVE Receipted(more, t)
    <2>0. n \in Nat /\ t \in 1..(n + 1) /\ t > n
      BY <1>5, <1>6, <1>12
    <2>1. t = n + 1
      <3> HIDE DEF n
      <3> QED BY <2>0
    <2>2. /\ more.traces[t] = b /\ i \in DOMAIN more.outputs
          /\ more.traces[t].generation = _checkpoint_fingerprint(SuspendedBefore(more, t))
      BY <1>4, <1>5, <1>6, <1>8, <1>11, <2>1
    <2>3. ReceiptHolds(more, t)
      BY <1>4, <1>5, <1>8, <1>9, <2>2 DEF ReceiptHolds
    <2> QED BY <1>4, <1>5, <2>2, <2>3 DEF Receipted, MarkNames
  <1>13. more.status \in Statuses /\ more.status \notin {"suspended", "failed", "cancelled"}
         /\ more.next \in 0..N
    <2>1. more.status \in Statuses /\ more.status \notin {"suspended", "failed", "cancelled"}
      BY <1>2 DEF Statuses, Terminal
    <2> QED BY <1>2, <1>5, <2>1
  <1>14. /\ more.outputs = [j \in 1..Completed(more) |-> more.outputs[j]]
         /\ Completed(row) <= Completed(more)
         /\ \A j \in 1..Completed(row) : more.outputs[j] = row.outputs[j]
         /\ \A j \in 1..Completed(more) : j > Completed(row) /\ Steps[j] = "dialogue" =>
              _dialogue_gate_condition(j, more.outputs) # "notbool"
    <2>1. \A j \in 1..i : j > c => j = i
      BY <1>5
    <2>2. c <= i
      BY <1>5
    <2> QED BY <1>5, <1>7, <1>8, <1>9, <2>1, <2>2
  <1>15. MarksOf(more.traces) = Prefix(more, Completed(more)) \o OpenMarks(more)
    BY <1>7, <1>10
  <1>16. Sound(more)
    BY <1>3, <1>6, <1>12, <1>13, <1>14, <1>15, SoundGrows
  <1> QED BY <1>6, <1>16 DEF more

-----------------------------------------------------------------------------

(* Every stored row is sound, and so is every row a call is about to write: *)
(* a claim is that of the suspended row it read, a checkpoint goes on from  *)
(* the running row it read.                                                 *)
CallSound(call) ==
    /\ call.pc = "claiming" =>
          /\ Sound(call.expected) /\ call.expected.status = "suspended"
          /\ \E answer \in Answers : call.pending = Claimed(call.expected, answer)
    /\ call.pc = "writing" =>
          Sound(call.pending) /\ Continues(call.expected.traces, call.pending.traces)

RowsSound ==
    /\ \A r \in DOMAIN store : Sound(store[r])
    /\ \A d \in Drivers : CallSound(driver[d])

(* A step of one call that writes a sound row, or none, keeps rows sound.   *)
LEMMA CallMoves ==
  ASSUME EngineInv, RowsSound, NEW d \in Drivers, NEW call, CallSound(call),
         driver' = [driver EXCEPT ![d] = call],
         UNCHANGED store \/ \E r, row : Sound(row) /\ store' = Put(store, r, row)
  PROVE  RowsSound'
  <1>1. \A e \in Drivers : driver'[e] = IF e = d THEN call ELSE driver[e]
    BY DEF EngineInv, CallsFollow
  <1>2. \A e \in Drivers : CallSound(driver'[e])
    BY <1>1 DEF RowsSound
  <1>3. \A r \in DOMAIN store' : Sound(store'[r])
    <2>1. CASE UNCHANGED store
      BY <2>1 DEF RowsSound
    <2>2. CASE ~ UNCHANGED store
      <3>1. PICK r, row : Sound(row) /\ store' = Put(store, r, row)
        BY <2>2
      <3>2. \A q \in DOMAIN store' : store'[q] = IF q = r THEN row ELSE store[q]
        BY <3>1 DEF Put
      <3>3. \A q \in DOMAIN store' : q # r => q \in DOMAIN store
        BY <3>1 DEF Put
      <3> QED BY <3>1, <3>2, <3>3 DEF RowsSound
    <2> QED BY <2>1, <2>2
  <1> QED BY <1>2, <1>3 DEF RowsSound, CallSound

(* A call that drives on, or ends, is about to write nothing yet.           *)
LEMMA QuietCalls ==
  ASSUME NEW r, NEW row
  PROVE  CallSound(Idle) /\ CallSound(Stepping(r, row))
  BY DEF CallSound, Idle, Stepping

(* The effect of a step leaves a sound checkpoint to write.                 *)
LEMMA StepSound ==
  ASSUME EngineInv, RowsSound, NEW d \in Drivers, driver[d].pc = "stepping",
         NEW replacement, NEW return, Sound(replacement),
         Continues(driver[d].expected.traces, replacement.traces),
         Write(d, driver[d].expected, replacement, return), UNCHANGED store
  PROVE  RowsSound'
  <1> DEFINE call == Writing(driver[d].run, driver[d].expected, replacement, return)
  <1>1. call.pc = "writing" /\ call.expected = driver[d].expected /\ call.pending = replacement
    BY DEF Writing
  <1>2. driver' = [driver EXCEPT ![d] = call]
    BY Zenon DEF Write
  <1> HIDE DEF call
  <1>3. CallSound(call)
    BY <1>1 DEF CallSound
  <1> QED BY <1>2, <1>3, CallMoves

(* The row a driving call read is sound, running and unfinished.            *)
LEMMA SteppingRow ==
  ASSUME EngineInv, RowsSound, NEW d \in Drivers, driver[d].pc = "stepping"
  PROVE  /\ Sound(driver[d].expected) /\ driver[d].expected.status = "running"
         /\ driver[d].expected.next < N
  BY Owner DEF EngineInv, CallsFollow, RowsSound

(* Every step of the engine keeps every row sound.                          *)
LEMMA RowsSoundStep == EngineInv /\ RowsSound /\ [Next]_vars => RowsSound'
  <1> SUFFICES ASSUME EngineInv, RowsSound, [Next]_vars PROVE RowsSound'
    OBVIOUS
  <1>1. ASSUME NEW d \in Drivers, NEW r \in Runs, NEW bound \in Bindings, NEW ack \in Acks,
               execute(d, r, bound, ack)
        PROVE  RowsSound'
    <2> DEFINE initial == _checkpoint(bound, "running", 0, Empty, <<>>)
    <2>1. Sound(initial)
      BY InitialSound
    <2> HIDE DEF initial
    <2>2. store' = Put(store, r, initial) /\ (Drive(d, r, initial) \/ Raised(d))
      BY <1>1 DEF execute, initial
    <2>3. \/ driver' = [driver EXCEPT ![d] = Idle]
          \/ driver' = [driver EXCEPT ![d] = Stepping(r, initial)]
      BY <2>2 DEF Drive, Raised
    <2> QED BY <2>1, <2>2, <2>3, QuietCalls, CallMoves
  <1>2. ASSUME NEW d \in Drivers, NEW r \in Runs, NEW bound \in Bindings, NEW answer \in Answers,
               resume(d, r, bound, answer)
        PROVE  RowsSound'
    <2> DEFINE row == store[r]
               call == [pc |-> "claiming", run |-> r, expected |-> row,
                        pending |-> Claimed(row, answer)]
    <2>1. r \in DOMAIN store /\ row.status = "suspended" /\ row.bound = bound /\ UNCHANGED store
      BY <1>2 DEF resume
    <2>2. driver' = [driver EXCEPT ![d] = call]
      BY <1>2, <2>1, Zenon DEF resume, Claimed
    <2>3. /\ call.pc = "claiming" /\ call.expected = row /\ call.pending = Claimed(row, answer)
      OBVIOUS
    <2>4. Sound(row)
      BY <2>1 DEF RowsSound
    <2> HIDE DEF call, row
    <2>5. CallSound(call)
      BY <2>1, <2>3, <2>4 DEF CallSound
    <2> QED BY <2>1, <2>2, <2>5, CallMoves
  <1>3. ASSUME NEW d \in Drivers, NEW ack \in Acks, advance(d, ack) \/ resume_claim(d, ack)
        PROVE  RowsSound'
    <2> DEFINE call == driver[d]
    <2>1. /\ call.pc \in {"writing", "claiming"}
          /\ compare_and_set(call.run, call.expected, call.pending, ack)
      BY <1>3 DEF advance, resume_claim
    <2>2. Sound(call.pending)
      <3>1. CallSound(call)
        BY DEF RowsSound
      <3> QED BY <2>1, <3>1, ClaimedSound DEF CallSound
    <2>3. \/ driver' = [driver EXCEPT ![d] = Idle]
          \/ driver' = [driver EXCEPT ![d] = Stepping(call.run, call.pending)]
      BY <1>3 DEF advance, resume_claim, Drive, Raised
    <2>4. store' = store \/ store' = Put(store, call.run, call.pending)
      BY <2>1 DEF compare_and_set
    <2> HIDE DEF call
    <2> QED BY <2>2, <2>3, <2>4, QuietCalls, CallMoves
  <1>4. ASSUME NEW d \in Drivers, NEW outcome, _execute_step(d, outcome)
        PROVE  RowsSound'
    <2> DEFINE row == driver[d].expected
               replacement == Advanced(row, outcome[1], outcome[2])
    <2>1. /\ driver[d].pc = "stepping" /\ Steps[row.next + 1] # "dialogue"
          /\ outcome \in StepOutcomes(Steps[row.next + 1]) /\ UNCHANGED store
      BY <1>4 DEF _execute_step
    <2>2. Write(d, row, replacement, ReturnOf(replacement, outcome[2]))
      BY <1>4, Zenon DEF _execute_step
    <2>3. Sound(row) /\ row.status = "running" /\ row.next < N
      BY <2>1, SteppingRow
    <2>4. Steps[row.next + 1] = "validate" => outcome[2] \in {"continue", "terminate", "fail"}
      BY <2>1 DEF StepOutcomes
    <2>5. Sound(replacement) /\ Continues(row.traces, replacement.traces)
      <3> HIDE DEF row
      <3> QED BY <2>1, <2>3, <2>4, AdvancedSound
    <2> HIDE DEF replacement
    <2> QED BY <2>1, <2>2, <2>5, StepSound
  <1>5. ASSUME NEW d \in Drivers, NEW status \in {"failed", "cancelled"}, NEW called,
               step_fails(d, status, called)
        PROVE  RowsSound'
    <2> DEFINE row == driver[d].expected
    <2>1. driver[d].pc = "stepping" /\ UNCHANGED store /\ Write(d, row, Stopped(row, status), status)
      BY <1>5, Zenon DEF step_fails
    <2>2. Sound(row) /\ row.status = "running" /\ row.next < N
      BY <2>1, SteppingRow
    <2>3. Halted(row, status) = Stopped(row, status)
      BY DEF Halted
    <2>4. Sound(Halted(row, status)) /\ Continues(row.traces, Halted(row, status).traces)
      <3> HIDE DEF row
      <3> QED BY <2>2, HaltedSound
    <2> QED BY <2>1, <2>3, <2>4, StepSound
  <1>6. ASSUME NEW d \in Drivers, _dialogue_should_suspend(d)
        PROVE  RowsSound'
    <2> DEFINE row == driver[d].expected
               i == row.next + 1
               gate == _dialogue_gate_condition(i, row.outputs)
    <2>1. driver[d].pc = "stepping" /\ UNCHANGED store /\ Steps[i] = "dialogue"
      BY <1>6 DEF _dialogue_should_suspend
    <2>2. Sound(row) /\ row.status = "running" /\ row.next < N
      BY <2>1, SteppingRow
    <2>3. CASE gate = "yes"
      <3>1. Write(d, row, Suspended(row), "suspended")
        BY <1>6, <2>3 DEF _dialogue_should_suspend
      <3>2. Halted(row, "suspended") = Suspended(row)
        BY DEF Halted
      <3>3. Sound(Halted(row, "suspended")) /\ Continues(row.traces, Halted(row, "suspended").traces)
        <4> HIDE DEF row
        <4> QED BY <2>1, <2>2, <2>3, HaltedSound
      <3> QED BY <2>1, <3>1, <3>2, <3>3, StepSound
    <2>4. CASE gate = "no"
      <3>1. Write(d, row, Advanced(row, "default", "none"), Advanced(row, "default", "none").status)
        BY <1>6, <2>4 DEF _dialogue_should_suspend
      <3>2. /\ Sound(Advanced(row, "default", "none"))
            /\ Continues(row.traces, Advanced(row, "default", "none").traces)
        <4> HIDE DEF row
        <4> QED BY <2>1, <2>2, <2>4, AdvancedSound
      <3> QED BY <2>1, <3>1, <3>2, StepSound
    <2>5. CASE gate # "yes" /\ gate # "no"
      <3>1. Write(d, row, Stopped(row, "failed"), "failed")
        BY <1>6, <2>5 DEF _dialogue_should_suspend
      <3>2. Halted(row, "failed") = Stopped(row, "failed")
        BY DEF Halted
      <3>3. Sound(Halted(row, "failed")) /\ Continues(row.traces, Halted(row, "failed").traces)
        <4> HIDE DEF row
        <4> QED BY <2>2, HaltedSound
      <3> QED BY <2>1, <3>1, <3>2, <3>3, StepSound
    <2> QED BY <2>3, <2>4, <2>5
  <1>7. ASSUME NEW d \in Drivers, Crash(d) PROVE RowsSound'
    <2>1. driver' = [driver EXCEPT ![d] = Idle] /\ UNCHANGED store
      BY <1>7 DEF Crash
    <2> QED BY <2>1, QuietCalls, CallMoves
  <1>8. CASE UNCHANGED <<store, driver>>
    BY <1>8 DEF RowsSound
  <1>9. ASSUME NEW d \in Drivers, NEW r \in Runs, NEW bound \in Bindings, recover(d, r, bound)
        PROVE  UNCHANGED <<store, driver>>
    BY <1>9 DEF recover
  <1>10. ASSUME Upgrade \/ UNCHANGED vars PROVE UNCHANGED <<store, driver>>
    BY <1>10 DEF Upgrade, vars
  <1> QED BY <1>1, <1>2, <1>3, <1>4, <1>5, <1>6, <1>7, <1>8, <1>9, <1>10 DEF Next, Step

(* No row is stored at first.                                               *)
LEMMA RowsSoundInit == Init => RowsSound
  <1> SUFFICES ASSUME Init PROVE RowsSound
    OBVIOUS
  <1>1. DOMAIN store = {}
    BY DEF Init, Empty
  <1>2. \A d \in Drivers : driver[d] = Idle
    BY DEF Init
  <1> QED BY <1>1, <1>2, QuietCalls DEF RowsSound

(* Every row the engine stores is one its own _load accepts, whatever the   *)

(* definition, the drivers and the answers, after any interleaving.         *)
THEOREM StoredRowsLoad == Spec => []StoredRunsLoad
  <1>1. RowsSound => StoredRunsLoad
    BY DEF RowsSound, Sound, StoredRunsLoad
  <1> QED BY <1>1, EngineInvInit, EngineInvStep, RowsSoundInit, RowsSoundStep, PTL DEF Spec

(* How one step may change a row: a running one goes on, a suspended one is *)
(* answered, a terminal one stays.                                          *)
Follows(old, new) ==
    /\ new.bound = old.bound
    /\ Continues(old.traces, new.traces)
    /\ old.status = "suspended" => new = old \/ \E answer \in Answers : new = Claimed(old, answer)
    /\ old.status \in Terminal => new = old

\* A row follows itself.
LEMMA FollowsItself ==
  ASSUME NEW row, Sound(row)
  PROVE  Follows(row, row)
  <1>1. Len(row.traces) \in Nat
    BY TrailLength DEF Sound
  <1> QED BY <1>1 DEF Follows, Continues

(* No step removes a row or changes it in any other way.                    *)
LEMMA RowsFollow ==
  ASSUME EngineInv, RowsSound, [Next]_vars, NEW r \in DOMAIN store
  PROVE  r \in DOMAIN store' /\ Follows(store[r], store'[r])
  <1> DEFINE Goal == r \in DOMAIN store' /\ Follows(store[r], store'[r])
  <1>0. UNCHANGED store => Goal
    BY FollowsItself DEF RowsSound
  <1>1. ASSUME NEW q, NEW row, store' = Put(store, q, row),
               q # r \/ Follows(store[r], row)
        PROVE  Goal
    <2>1. r \in DOMAIN store' /\ store'[r] = IF r = q THEN row ELSE store[r]
      BY <1>1 DEF Put
    <2>2. Follows(store[r], store[r])
      BY FollowsItself DEF RowsSound
    <2> QED BY <1>1, <2>1, <2>2
  <1> HIDE DEF Goal
  <1>2. ASSUME NEW d \in Drivers, NEW q \in Runs, NEW bound \in Bindings, NEW ack \in Acks,
               execute(d, q, bound, ack)
        PROVE  Goal
    <2>1. q # r /\ store' = Put(store, q, _checkpoint(bound, "running", 0, Empty, <<>>))
      BY <1>2 DEF execute
    <2> QED BY <1>1, <2>1
  <1>3. ASSUME NEW d \in Drivers, NEW ack \in Acks, resume_claim(d, ack)
        PROVE  Goal
    <2> DEFINE call == driver[d]
    <2>1. /\ call.pc = "claiming" /\ compare_and_set(call.run, call.expected, call.pending, ack)
          /\ CallSound(call)
      BY <1>3 DEF resume_claim, RowsSound
    <2>2. /\ Sound(call.expected) /\ call.expected.status = "suspended"
          /\ \E answer \in Answers : call.pending = Claimed(call.expected, answer)
      BY <2>1 DEF CallSound
    <2> HIDE DEF call
    <2>3. Follows(call.expected, call.pending)
      <3>1. PICK answer \in Answers : call.pending = Claimed(call.expected, answer)
        BY <2>2
      <3>2. Continues(call.expected.traces, call.pending.traces)
        BY <2>2, <3>1, ClaimedSound
      <3>3. call.pending.bound = call.expected.bound
        BY <3>1, CheckpointFields DEF Claimed
      <3> QED BY <2>2, <3>2, <3>3 DEF Follows, Terminal
    <2>4. UNCHANGED store \/ (store[call.run] = call.expected /\ store' = Put(store, call.run, call.pending))
      BY <2>1 DEF compare_and_set
    <2>5. CASE store[call.run] = call.expected /\ store' = Put(store, call.run, call.pending)
      <3>1. call.run # r \/ Follows(store[r], call.pending)
        BY <2>3, <2>5
      <3> QED BY <1>1, <2>5, <3>1
    <2> QED BY <1>0, <2>4, <2>5
  <1>4. ASSUME NEW d \in Drivers, NEW ack \in Acks, advance(d, ack)
        PROVE  Goal
    <2> DEFINE call == driver[d]
    <2>1. /\ call.pc = "writing" /\ compare_and_set(call.run, call.expected, call.pending, ack)
          /\ CallSound(call) /\ WriteFollows(call)
      BY <1>4 DEF advance, RowsSound, EngineInv, CallsFollow
    <2>2. store[call.run] = call.expected /\ call.expected.status = "running"
      BY <2>1, Owner
    <2>3. /\ Continues(call.expected.traces, call.pending.traces)
          /\ call.pending.bound = call.expected.bound
      BY <2>1 DEF CallSound, WriteFollows
    <2> HIDE DEF call
    <2>4. Follows(call.expected, call.pending)
      BY <2>2, <2>3 DEF Follows, Terminal
    <2>5. UNCHANGED store \/ store' = Put(store, call.run, call.pending)
      BY <2>1 DEF compare_and_set
    <2>6. call.run # r \/ Follows(store[r], call.pending)
      BY <2>2, <2>4
    <2> QED BY <1>0, <1>1, <2>5, <2>6
  <1>5. ASSUME NEW d \in Drivers, NEW q \in Runs, NEW bound \in Bindings,
               \/ \E answer \in Answers : resume(d, q, bound, answer)
               \/ recover(d, q, bound)
        PROVE  Goal
    BY <1>0, <1>5 DEF resume, recover
  <1>6. ASSUME NEW d \in Drivers, NEW outcome, NEW status, NEW called,
               \/ _execute_step(d, outcome) \/ step_fails(d, status, called)
               \/ _dialogue_should_suspend(d) \/ Crash(d)
        PROVE  Goal
    BY <1>0, <1>6 DEF _execute_step, step_fails, _dialogue_should_suspend, Crash
  <1>7. ASSUME Upgrade \/ UNCHANGED vars
        PROVE  Goal
    BY <1>0, <1>7 DEF Upgrade, vars
  <1>8. Goal
    BY <1>2, <1>3, <1>4, <1>5, <1>6, <1>7 DEF Next, Step
  <1> QED BY <1>8 DEF Goal

(* A receipt occurs once: its generation counts the traces before it.       *)
LEMMA GenerationsDiffer ==
  ASSUME NEW row, Sound(row), NEW t \in DOMAIN row.traces, NEW u \in DOMAIN row.traces,
         row.traces[t].generation = row.traces[u].generation, row.traces[t].generation # <<>>
  PROVE  t = u
  <1> DEFINE before(x) == SubSeq(row.traces, 1, x - 1)
  <1>1. Trail(row.traces) /\ Len(row.traces) \in Nat /\ DOMAIN row.traces = 1..Len(row.traces)
    BY TrailLength DEF Sound
  <1>2. ASSUME NEW x \in DOMAIN row.traces, row.traces[x].generation # <<>>
        PROVE  row.traces[x].generation[5] = before(x) /\ Len(before(x)) = x - 1
    <2>1. row.traces[x].generation = _checkpoint_fingerprint(SuspendedBefore(row, x))
      BY <1>2 DEF Sound, Receipted
    <2>2. row.traces[x].generation[5] = SuspendedBefore(row, x).traces
      BY <2>1 DEF _checkpoint_fingerprint
    <2>3. SuspendedBefore(row, x).traces = before(x)
      <3> DEFINE o == [j \in 1..(row.traces[x].step - 1) |-> row.outputs[j]]
                 s == before(x)
      <3>1. SuspendedBefore(row, x) =
               _checkpoint(row.bound, "suspended", row.traces[x].step, o, s)
        BY Zenon DEF SuspendedBefore
      <3> HIDE DEF o, s
      <3>2. SuspendedBefore(row, x).traces = s
        BY <3>1, CheckpointTraces
      <3> QED BY <3>2 DEF s
    <2>4. Len(before(x)) = x - 1
      <3> DEFINE T == {row.traces[y] : y \in DOMAIN row.traces}
                 n == Len(row.traces)
                 m == x - 1
      <3>1. row.traces \in Seq(T)
        BY <1>1 DEF Trail
      <3>2. n \in Nat /\ x \in 1..n
        BY <1>1
      <3> HIDE DEF T, n
      <3>3. 1 \in 1..(n + 1) /\ m \in (1 - 1)..n /\ m - 1 + 1 = x - 1
        BY <3>2
      <3> HIDE DEF m
      <3>4. Len(SubSeq(row.traces, 1, m)) = m - 1 + 1
        BY <3>1, <3>3, SubSeqProperties DEF n
      <3> QED BY <3>3, <3>4 DEF m
    <2> QED BY <2>2, <2>3, <2>4
  <1>3. t - 1 = u - 1
    BY <1>2
  <1>4. \A n \in Nat : \A x, y \in 1..n : x - 1 = y - 1 => x = y
    OBVIOUS
  <1> QED BY <1>1, <1>3, <1>4

-----------------------------------------------------------------------------
(* The gateway.                                                            *)

(***************************************************************************)
(* The inductive invariant, beside the engine's: a gateway call is in the  *)
(* engine exactly while it drives, what it hands to the engine is typed,   *)
(* and a continuation or a resume always refers to a stored run.           *)
(***************************************************************************)
CallFollows(d) ==
    /\ calls[d].pc \in {"idle", "resolving", "executing", "resuming", "driving", "observing"}
    /\ driver[d].pc # "idle" <=> calls[d].pc = "driving"
    /\ calls[d].pc = "driving" => driver[d].run = calls[d].request.run
    /\ calls[d].pc # "idle" =>
          /\ calls[d].request.run \in Runs
          /\ calls[d].request.inputs \in Inputs
          /\ calls[d].request.token # NoToken =>
                calls[d].request.answer \in Answers /\ calls[d].request.run \in DOMAIN store
    /\ calls[d].pc \in {"executing", "resuming"} => calls[d].bound \in Bindings
    /\ calls[d].pc = "resuming" => calls[d].request.token # NoToken
    /\ calls[d].pc = "observing" => calls[d].request.run \in DOMAIN store

TokensHold == \A k \in issued : k.run \in DOMAIN store /\ k.bound \in Bindings

GatewayInv ==
    /\ current \in 1..Versions
    /\ installed \in Installations
    /\ calls = [d \in Drivers |-> calls[d]]
    /\ TokensHold
    /\ \A d \in Drivers : CallFollows(d)
-----------------------------------------------------------------------------
(* The engine's own statements: they touch one driver, remove no run and   *)
(* install nothing.                                                        *)
EngineStatement(d) ==
    \/ \E r \in Runs, bound \in Bindings, ack \in Acks : execute(d, r, bound, ack)
    \/ \E r \in Runs, bound \in Bindings, answer \in Answers : resume(d, r, bound, answer)
    \/ Step(d)
    \/ Crash(d)

\* A statement of a driver is a step of the engine.
LEMMA StatementIsNext ==
  ASSUME NEW d \in Drivers, EngineStatement(d)
  PROVE  Next
  BY DEF EngineStatement, Next

\* It moves one driver, deletes no row and installs nothing.
LEMMA StatementTouches ==
  ASSUME EngineInv, NEW d \in Drivers, EngineStatement(d)
  PROVE  /\ \A e \in Drivers : e # d => driver'[e] = driver[e]
         /\ DOMAIN store \subseteq DOMAIN store'
         /\ UNCHANGED installed
  <1>1. ASSUME NEW x, driver' = [driver EXCEPT ![d] = x]
        PROVE  \A e \in Drivers : e # d => driver'[e] = driver[e]
    BY <1>1 DEF EngineInv, CallsFollow
  <1>2. ASSUME NEW r, NEW row, store' = Put(store, r, row)
        PROVE  DOMAIN store \subseteq DOMAIN store'
    BY <1>2 DEF Put
  <1>3. ASSUME NEW r \in Runs, NEW bound \in Bindings, NEW ack \in Acks, execute(d, r, bound, ack)
        PROVE  /\ \E x : driver' = [driver EXCEPT ![d] = x]
               /\ \E row : store' = Put(store, r, row)
               /\ UNCHANGED installed
    BY <1>3 DEF execute, Drive, Raised
  <1>4. ASSUME NEW r \in Runs, NEW bound \in Bindings, NEW answer \in Answers,
               resume(d, r, bound, answer)
        PROVE  (\E x : driver' = [driver EXCEPT ![d] = x]) /\ UNCHANGED <<store, installed>>
    BY <1>4 DEF resume
  <1>5. ASSUME NEW outcome, _execute_step(d, outcome)
        PROVE  (\E x : driver' = [driver EXCEPT ![d] = x]) /\ UNCHANGED <<store, installed>>
    BY <1>5 DEF _execute_step, Write
  <1>6. ASSUME NEW status, NEW called, step_fails(d, status, called)
        PROVE  (\E x : driver' = [driver EXCEPT ![d] = x]) /\ UNCHANGED <<store, installed>>
    BY <1>6 DEF step_fails, Write
  <1>7. ASSUME _dialogue_should_suspend(d)
        PROVE  (\E x : driver' = [driver EXCEPT ![d] = x]) /\ UNCHANGED <<store, installed>>
    BY <1>7 DEF _dialogue_should_suspend, Write
  <1>8. ASSUME NEW ack \in Acks, advance(d, ack) \/ resume_claim(d, ack)
        PROVE  /\ \E x : driver' = [driver EXCEPT ![d] = x]
               /\ UNCHANGED store \/ \E r, row : store' = Put(store, r, row)
               /\ UNCHANGED installed
    BY <1>8 DEF advance, resume_claim, Drive, Raised, compare_and_set
  <1>9. ASSUME Crash(d)
        PROVE  (\E x : driver' = [driver EXCEPT ![d] = x]) /\ UNCHANGED <<store, installed>>
    BY <1>9 DEF Crash
  <1> QED BY <1>1, <1>2, <1>3, <1>4, <1>5, <1>6, <1>7, <1>8, <1>9 DEF EngineStatement, Step

(* A step of call d that leaves the other drivers alone keeps the          *)
(* invariant if it leaves call d and the continuations in order.           *)
LEMMA CallMoved ==
  ASSUME GatewayInv, NEW d \in Drivers, NEW x,
         calls' = [calls EXCEPT ![d] = x],
         \A e \in Drivers : e # d => driver'[e] = driver[e],
         DOMAIN store \subseteq DOMAIN store',
         UNCHANGED <<installed, current>>,
         TokensHold',
         calls'[d] = x => CallFollows(d)'
  PROVE  GatewayInv'
  <1>1. /\ calls'[d] = x
        /\ calls' = [e \in Drivers |-> calls'[e]]
        /\ \A e \in Drivers : e # d => calls'[e] = calls[e]
    BY DEF GatewayInv
  <1>2. ASSUME NEW e \in Drivers, e # d PROVE CallFollows(e)'
    <2>1. CallFollows(e) /\ calls'[e] = calls[e] /\ driver'[e] = driver[e]
      BY <1>1, <1>2 DEF GatewayInv
    <2> QED BY <2>1 DEF CallFollows
  <1> QED BY <1>1, <1>2 DEF GatewayInv

\* A continuation that was issued keeps its row.
LEMMA TokensKept ==
  ASSUME TokensHold, DOMAIN store \subseteq DOMAIN store', UNCHANGED issued
  PROVE  TokensHold'
  BY DEF TokensHold

(* A call that ends without the engine.                                    *)
LEMMA Refused ==
  ASSUME GatewayInv, NEW d \in Drivers, driver[d].pc = "idle", NEW kind, Refuse(d, kind)
  PROVE  UNCHANGED vars /\ GatewayInv'
  <1>1. /\ calls' = [calls EXCEPT ![d] = Ended(kind)]
        /\ UNCHANGED <<store, driver, installed, current, issued>> /\ UNCHANGED vars
    BY DEF Refuse, Move, vars
  <1>2. TokensHold'
    BY <1>1 DEF GatewayInv, TokensHold
  <1>3. calls'[d] = Ended(kind) => CallFollows(d)'
    BY <1>1 DEF CallFollows, Ended
  <1> QED BY <1>1, <1>2, <1>3, CallMoved

(* A call that returns what the stored row stands for: nothing happens to  *)
(* the engine, or the engine recovers the row.                             *)
LEMMA ObservedOnce ==
  ASSUME EngineInv, GatewayInv, NEW d \in Drivers, driver[d].pc = "idle",
         NEW request, request.run \in DOMAIN store,
         _observed(d, request, store[request.run])
  PROVE  [Next]_vars /\ GatewayInv'
  <1> DEFINE r == request.run
             row == store[r]
  <1>1. /\ r \in Runs /\ row.bound \in Bindings
    BY DEF EngineInv, RowsTyped
  <1>2. PICK kind : calls' = [calls EXCEPT ![d] = Reply(kind, request, row)]
    BY DEF _observed, Move
  <1>3. UNCHANGED <<store, driver, installed, effects, lost, current>>
    BY DEF _observed
  <1>4. issued' \subseteq issued \union {CapabilityContinuation(r, row)}
    BY DEF _observed
  <1>5. TokensHold'
    BY <1>1, <1>3, <1>4 DEF TokensHold, CapabilityContinuation, GatewayInv
  <1>6. calls'[d] = Reply(kind, request, row) => CallFollows(d)'
    BY <1>3 DEF CallFollows, Reply
  <1>7. GatewayInv'
    BY <1>2, <1>3, <1>5, <1>6, CallMoved
  <1>8. CASE UNCHANGED results
    BY <1>3, <1>7, <1>8 DEF vars
  <1>9. CASE ~ UNCHANGED results
    <2>1. /\ _inspect_expected(row.bound, row)
          /\ _recovered_termination(row) # "refused"
          /\ results' = results \union {Result(r, _recovered_termination(row), row)}
      BY <1>9 DEF _observed
    <2>2. recover(d, r, row.bound)
      BY <1>3, <2>1 DEF recover
    <2> QED BY <1>1, <1>7, <2>2 DEF Next
  <1> QED BY <1>8, <1>9

(* A call that goes on without the engine and without a reply.             *)
LEMMA WentOn ==
  ASSUME GatewayInv, NEW d \in Drivers, driver[d].pc = "idle", NEW x,
         Move(d, x), UNCHANGED <<vars, current, issued>>,
         calls'[d] = x => CallFollows(d)'
  PROVE  GatewayInv'
  <1>1. calls' = [calls EXCEPT ![d] = x] /\ UNCHANGED <<store, driver, installed>>
    BY DEF Move, vars
  <1>2. TokensHold'
    BY <1>1 DEF GatewayInv, TokensHold
  <1> QED BY <1>1, <1>2, CallMoved

(* An engine statement of a call that is driving, and what the gateway     *)
(* makes of its end.                                                       *)
LEMMA EngineReturned ==
  ASSUME EngineInv, GatewayInv, NEW d \in Drivers, NEW ack,
         calls[d].pc = "driving",
         EngineStatement(d), EngineReturns(d, ack),
         driver'[d].pc # "idle" => driver'[d].run = driver[d].run
  PROVE  GatewayInv'
  <1> DEFINE x == IF driver'[d].pc # "idle" THEN calls[d]
                  ELSE IF ack = "ok" THEN At("observing", calls[d].request) ELSE Ended("failed")
  <1>1. calls' = [calls EXCEPT ![d] = x] /\ UNCHANGED <<current, issued>>
    BY DEF EngineReturns, Move
  <1>2. /\ \A e \in Drivers : e # d => driver'[e] = driver[e]
        /\ DOMAIN store \subseteq DOMAIN store'
        /\ UNCHANGED installed
    BY StatementTouches
  <1>3. TokensHold'
    BY <1>1, <1>2, TokensKept DEF GatewayInv
  <1>4. /\ CallFollows(d)
        /\ driver[d].run \in DOMAIN store
    BY DEF GatewayInv, EngineInv, CallsFollow, CallFollows
  <1>5. calls'[d] = x => CallFollows(d)'
    <2> HAVE calls'[d] = x
    <2>1. CASE driver'[d].pc # "idle"
      BY <1>2, <1>4, <2>1 DEF CallFollows
    <2>2. CASE driver'[d].pc = "idle" /\ ack = "ok"
      <3>1. calls'[d] = At("observing", calls[d].request)
        BY <2>2
      <3> QED BY <1>2, <1>4, <2>2, <3>1 DEF CallFollows, At
    <2>3. CASE driver'[d].pc = "idle" /\ ack # "ok"
      <3>1. calls'[d] = Ended("failed")
        BY <2>3
      <3> QED BY <2>3, <3>1 DEF CallFollows, Ended
    <2> QED BY <2>1, <2>2, <2>3
  <1> HIDE DEF x
  <1> QED BY <1>1, <1>2, <1>3, <1>5, CallMoved

\* The gateway starts as the engine does.
LEMMA GatewayInit == InitGateway => Init /\ GatewayInv
  <1> SUFFICES ASSUME InitGateway PROVE Init /\ GatewayInv
    OBVIOUS
  <1>1. Init /\ issued = {} /\ current = 1 /\ calls = [d \in Drivers |-> Ended("none")]
    BY DEF InitGateway
  <1>2. current \in 1..Versions
    BY <1>1, VersionsAssumption
  <1>3. ASSUME NEW d \in Drivers PROVE CallFollows(d)
    <2>1. driver[d].pc = "idle" /\ calls[d] = Ended("none")
      BY <1>1 DEF Init, Idle
    <2> QED BY <2>1 DEF CallFollows, Ended
  <1> QED BY <1>1, <1>2, <1>3 DEF GatewayInv, TokensHold, Init

\* A start observes the run that is there, or goes on to create it.
LEMMA StartStep ==
  ASSUME EngineInv, GatewayInv, NEW d \in Drivers, NEW r \in Runs, NEW inputs \in Inputs,
         _start_bound(d, r, inputs)
  PROVE  [Next]_vars /\ GatewayInv'
  <1> DEFINE request == Request(r, inputs, NoToken, "none")
  <1>1. calls[d].pc = "idle" /\ driver[d].pc = "idle"
    BY DEF _start_bound, GatewayInv, CallFollows
  <1>2. request.run = r /\ request.inputs = inputs /\ request.token = NoToken
    BY DEF Request
  <1> HIDE DEF request
  <1>3. \/ r \in DOMAIN store /\ _observed(d, request, store[r])
        \/ Refuse(d, "conflict")
        \/ Move(d, At("resolving", request)) /\ UNCHANGED <<vars, current, issued>>
    BY DEF _start_bound, request
  <1>4. CASE r \in DOMAIN store /\ _observed(d, request, store[r])
    BY <1>1, <1>2, <1>4, ObservedOnce
  <1>5. CASE Refuse(d, "conflict")
    BY <1>1, <1>5, Refused
  <1>6. CASE Move(d, At("resolving", request)) /\ UNCHANGED <<vars, current, issued>>
    <2>1. UNCHANGED <<store, driver>>
      BY <1>6 DEF vars
    <2>2. calls'[d] = At("resolving", request) => CallFollows(d)'
      BY <1>1, <1>2, <2>1 DEF CallFollows, At
    <2> QED BY <1>1, <1>6, <2>2, WentOn
  <1> QED BY <1>3, <1>4, <1>5, <1>6

\* _resume_bound refers to the stored run of its continuation.
LEMMA ResumeStep ==
  ASSUME EngineInv, GatewayInv, NEW d \in Drivers, NEW r \in Runs, NEW token \in issued,
         NEW answer \in Answers, _resume_bound(d, r, token, answer)
  PROVE  [Next]_vars /\ GatewayInv'
  <1> DEFINE request == Request(r, token.bound.inputs, token, answer)
  <1>1. calls[d].pc = "idle" /\ driver[d].pc = "idle"
    BY DEF _resume_bound, GatewayInv, CallFollows
  <1>2. request.run = r /\ request.inputs \in Inputs /\ request.answer = answer
    BY DEF Request, GatewayInv, TokensHold, Inputs
  <1>3. token.run \in DOMAIN store
    BY DEF GatewayInv, TokensHold
  <1> HIDE DEF request
  <1>4. \/ token.run = r /\ _observed(d, request, store[token.run])
        \/ Refuse(d, "conflict")
        \/ /\ token.run = r
           /\ Move(d, At("resolving", request)) /\ UNCHANGED <<vars, current, issued>>
    BY DEF _resume_bound, request
  <1>5. CASE token.run = r /\ _observed(d, request, store[token.run])
    BY <1>1, <1>2, <1>3, <1>5, ObservedOnce
  <1>6. CASE Refuse(d, "conflict")
    BY <1>1, <1>6, Refused
  <1>7. CASE /\ token.run = r
             /\ Move(d, At("resolving", request)) /\ UNCHANGED <<vars, current, issued>>
    <2>1. UNCHANGED <<store, driver>>
      BY <1>7 DEF vars
    <2>2. calls'[d] = At("resolving", request) => CallFollows(d)'
      BY <1>1, <1>2, <1>3, <1>7, <2>1 DEF CallFollows, At
    <2> QED BY <1>1, <1>7, <2>2, WentOn
  <1> QED BY <1>4, <1>5, <1>6, <1>7

\* _dependencies resolves the definition and hands the call on.
LEMMA ResolveStep ==
  ASSUME EngineInv, GatewayInv, NEW d \in Drivers, _dependencies(d)
  PROVE  [Next]_vars /\ GatewayInv'
  <1> DEFINE request == calls[d].request
             bound == [pins |-> installed, inputs |-> request.inputs, deps |-> current]
             pc == IF request.token = NoToken THEN "executing" ELSE "resuming"
  <1>1. /\ calls[d].pc = "resolving"
        /\ Move(d, Bound(pc, request, bound))
        /\ UNCHANGED <<vars, current, issued>>
    BY DEF _dependencies
  <1>2. CallFollows(d) /\ driver[d].pc = "idle"
    BY <1>1 DEF GatewayInv, CallFollows
  <1>3. bound \in Bindings
    <2>1. PICK b \in Bindings : b.inputs = request.inputs
      BY <1>1, <1>2 DEF CallFollows, Inputs
    <2> QED BY <2>1, VersionsAssumption DEF GatewayInv
  <1>4. UNCHANGED <<store, driver>>
    BY <1>1 DEF vars
  <1>5. calls'[d] = Bound(pc, request, bound) => CallFollows(d)'
    <2> HIDE DEF bound
    <2> QED BY <1>1, <1>2, <1>3, <1>4 DEF CallFollows, Bound
  <1> HIDE DEF pc, bound
  <1> QED BY <1>1, <1>2, <1>5, WentOn

\* start_execute is the start of the engine.
LEMMA ExecuteStep ==
  ASSUME EngineInv, GatewayInv, NEW d \in Drivers, NEW ack \in Acks, start_execute(d, ack)
  PROVE  [Next]_vars /\ GatewayInv'
  <1> DEFINE request == calls[d].request
             r == request.run
             bound == calls[d].bound
  <1>1. calls[d].pc = "executing" /\ CallFollows(d)
    BY DEF start_execute, GatewayInv
  <1>2. driver[d].pc = "idle" /\ r \in Runs /\ bound \in Bindings
    BY <1>1 DEF CallFollows
  <1>3. \/ \E kind : Refuse(d, kind)
        \/ /\ execute(d, r, bound, ack)
           /\ Move(d, IF ack = "ok" THEN Bound("driving", request, bound) ELSE Ended("failed"))
           /\ UNCHANGED <<current, issued>>
        \/ r \in DOMAIN store /\ _observed(d, request, store[r])
    BY DEF start_execute
  <1>4. CASE \E kind : Refuse(d, kind)
    BY <1>2, <1>4, Refused
  <1>5. CASE r \in DOMAIN store /\ _observed(d, request, store[r])
    BY <1>2, <1>5, ObservedOnce
  <1>6. CASE /\ execute(d, r, bound, ack)
             /\ Move(d, IF ack = "ok" THEN Bound("driving", request, bound) ELSE Ended("failed"))
             /\ UNCHANGED <<current, issued>>
    <2> DEFINE x == IF ack = "ok" THEN Bound("driving", request, bound) ELSE Ended("failed")
    <2>1. EngineStatement(d)
      BY <1>2, <1>6 DEF EngineStatement
    <2>2. /\ \A e \in Drivers : e # d => driver'[e] = driver[e]
          /\ DOMAIN store \subseteq DOMAIN store'
          /\ UNCHANGED installed
      BY <2>1, StatementTouches
    <2>3. TokensHold'
      BY <1>6, <2>2, TokensKept DEF GatewayInv
    <2>4. IF ack = "ok" THEN driver'[d].pc = "stepping" /\ driver'[d].run = r
          ELSE driver'[d].pc = "idle"
      <3>1. driver = [e \in Drivers |-> driver[e]]
        BY DEF EngineInv, CallsFollow
      <3> QED BY <1>6, <3>1, StepsLength, CheckpointFields
              DEF execute, Drive, Raised, Stepping, Idle
    <2>5. calls'[d] = x => CallFollows(d)'
      BY <1>1, <2>2, <2>4 DEF CallFollows, Bound, Ended
    <2>6. calls' = [calls EXCEPT ![d] = x]
      BY <1>6 DEF Move
    <2> HIDE DEF x
    <2>7. GatewayInv'
      BY <1>6, <2>2, <2>3, <2>5, <2>6, CallMoved
    <2> QED BY <2>1, <2>7, StatementIsNext
  <1> QED BY <1>3, <1>4, <1>5, <1>6

\* resume_load is the resume of the engine.
LEMMA LoadStep ==
  ASSUME EngineInv, GatewayInv, NEW d \in Drivers, resume_load(d)
  PROVE  [Next]_vars /\ GatewayInv'
  <1> DEFINE request == calls[d].request
             r == request.run
             bound == calls[d].bound
  <1>1. calls[d].pc = "resuming" /\ CallFollows(d)
    BY DEF resume_load, GatewayInv
  <1>2. /\ driver[d].pc = "idle" /\ r \in Runs /\ bound \in Bindings
        /\ request.answer \in Answers /\ r \in DOMAIN store
    BY <1>1 DEF CallFollows
  <1>3. \/ Refuse(d, "stale")
        \/ Move(d, At("observing", request)) /\ UNCHANGED <<vars, current, issued>>
        \/ /\ resume(d, r, bound, request.answer)
           /\ Move(d, Bound("driving", request, bound))
           /\ UNCHANGED <<current, issued>>
    BY DEF resume_load
  <1>4. CASE Refuse(d, "stale")
    BY <1>2, <1>4, Refused
  <1>5. CASE Move(d, At("observing", request)) /\ UNCHANGED <<vars, current, issued>>
    <2>1. UNCHANGED <<store, driver>>
      BY <1>5 DEF vars
    <2>2. calls'[d] = At("observing", request) => CallFollows(d)'
      BY <1>1, <1>2, <2>1 DEF CallFollows, At
    <2> QED BY <1>2, <1>5, <2>2, WentOn
  <1>6. CASE /\ resume(d, r, bound, request.answer)
             /\ Move(d, Bound("driving", request, bound))
             /\ UNCHANGED <<current, issued>>
    <2>1. EngineStatement(d)
      BY <1>2, <1>6 DEF EngineStatement
    <2>2. /\ \A e \in Drivers : e # d => driver'[e] = driver[e]
          /\ DOMAIN store \subseteq DOMAIN store'
          /\ UNCHANGED installed
      BY <2>1, StatementTouches
    <2>3. TokensHold'
      BY <1>6, <2>2, TokensKept DEF GatewayInv
    <2>4. driver'[d].pc = "claiming" /\ driver'[d].run = r
      <3>1. driver = [e \in Drivers |-> driver[e]]
        BY DEF EngineInv, CallsFollow
      <3> QED BY <1>6, <3>1 DEF resume
    <2>5. calls'[d] = Bound("driving", request, bound) => CallFollows(d)'
      BY <1>1, <1>2, <2>2, <2>4 DEF CallFollows, Bound
    <2>6. calls' = [calls EXCEPT ![d] = Bound("driving", request, bound)]
      BY <1>6 DEF Move
    <2>7. GatewayInv'
      BY <1>6, <2>2, <2>3, <2>5, <2>6, CallMoved
    <2> QED BY <2>1, <2>7, StatementIsNext
  <1> QED BY <1>3, <1>4, <1>5, <1>6

\* The claim and the writes of a driving call are the engine's.
LEMMA DriveStep ==
  ASSUME EngineInv, GatewayInv, NEW d \in Drivers, NEW ack \in Acks,
         gateway_claim(d, ack) \/ gateway_advance(d, ack)
  PROVE  [Next]_vars /\ GatewayInv'
  <1>1. driver = [e \in Drivers |-> driver[e]]
    BY DEF EngineInv, CallsFollow
  <1>2. CASE gateway_claim(d, ack)
    <2>1. resume_claim(d, ack) /\ EngineReturns(d, ack) /\ calls[d].pc = "driving"
      BY <1>2 DEF gateway_claim
    <2>2. EngineStatement(d)
      BY <2>1 DEF EngineStatement, Step
    <2>3. driver'[d].pc # "idle" => driver'[d].run = driver[d].run
      BY <1>1, <2>1 DEF resume_claim, Drive, Raised, Stepping, Idle
    <2> QED BY <2>1, <2>2, <2>3, EngineReturned, StatementIsNext
  <1>3. CASE gateway_advance(d, ack)
    <2>1. PICK seen : advance(d, ack) /\ EngineReturns(d, seen) /\ calls[d].pc = "driving"
      BY <1>3 DEF gateway_advance
    <2>2. EngineStatement(d)
      BY <2>1 DEF EngineStatement, Step
    <2>3. driver'[d].pc # "idle" => driver'[d].run = driver[d].run
      BY <1>1, <2>1 DEF advance, Drive, Raised, Stepping, Idle
    <2> QED BY <2>1, <2>2, <2>3, EngineReturned, StatementIsNext
  <1> QED BY <1>2, <1>3

\* So are its effects.
LEMMA EffectStep ==
  ASSUME EngineInv, GatewayInv, NEW d \in Drivers, gateway_effect(d)
  PROVE  [Next]_vars /\ GatewayInv'
  <1>1. calls[d].pc = "driving" /\ UNCHANGED <<calls, current, issued>>
    BY DEF gateway_effect, gatewayVars
  <1>2. EngineStatement(d)
    BY DEF gateway_effect, EngineStatement, Step
  <1>3. /\ \A e \in Drivers : e # d => driver'[e] = driver[e]
        /\ DOMAIN store \subseteq DOMAIN store'
        /\ UNCHANGED installed
    BY <1>2, StatementTouches
  <1>4. driver'[d].pc = "writing" /\ driver'[d].run = driver[d].run
    <2>1. driver = [e \in Drivers |-> driver[e]]
      BY DEF EngineInv, CallsFollow
    <2>2. \E replacement, return, row : Write(d, row, replacement, return)
      BY DEF gateway_effect, _execute_step, step_fails, _dialogue_should_suspend
    <2> QED BY <2>1, <2>2 DEF Write, Writing
  <1>5. TokensHold'
    BY <1>1, <1>3, TokensKept DEF GatewayInv
  <1>6. CallFollows(d)'
    <2>1. CallFollows(d)
      BY DEF GatewayInv
    <2> QED BY <1>1, <1>3, <1>4, <2>1 DEF CallFollows
  <1>7. calls' = [calls EXCEPT ![d] = calls[d]]
    BY <1>1 DEF GatewayInv
  <1>8. GatewayInv'
    BY <1>1, <1>3, <1>5, <1>6, <1>7, CallMoved
  <1> QED BY <1>2, <1>8, StatementIsNext

\* observe reads the row and leaves the engine alone.
LEMMA ObserveStep ==
  ASSUME EngineInv, GatewayInv, NEW d \in Drivers, observe(d)
  PROVE  [Next]_vars /\ GatewayInv'
  <1> DEFINE request == calls[d].request
  <1>1. driver[d].pc = "idle" /\ request.run \in DOMAIN store
    BY DEF observe, GatewayInv, CallFollows
  <1>2. \/ _observed(d, request, store[request.run])
        \/ Refuse(d, "conflict")
    BY DEF observe
  <1> HIDE DEF request
  <1> QED BY <1>1, <1>2, ObservedOnce, Refused

\* A process that dies leaves its row.
LEMMA DieStep ==
  ASSUME EngineInv, GatewayInv, NEW d \in Drivers, Die(d)
  PROVE  [Next]_vars /\ GatewayInv'
  <1>1. calls' = [calls EXCEPT ![d] = Ended("none")] /\ UNCHANGED <<current, issued>>
    BY DEF Die, Move
  <1>2. /\ [Next]_vars
        /\ \A e \in Drivers : e # d => driver'[e] = driver[e]
        /\ DOMAIN store \subseteq DOMAIN store'
        /\ UNCHANGED installed
        /\ driver'[d].pc = "idle"
    <2>1. CASE driver[d].pc = "idle"
      BY <2>1 DEF Die, vars
    <2>2. CASE driver[d].pc # "idle"
      <3>1. EngineStatement(d) /\ Crash(d)
        BY <2>2 DEF Die, EngineStatement
      <3>2. driver'[d].pc = "idle"
        BY <3>1 DEF Crash, Idle, EngineInv, CallsFollow
      <3> QED BY <3>1, <3>2, StatementTouches, StatementIsNext
    <2> QED BY <2>1, <2>2
  <1>3. TokensHold'
    BY <1>1, <1>2, TokensKept DEF GatewayInv
  <1>4. calls'[d] = Ended("none") => CallFollows(d)'
    BY <1>2 DEF CallFollows, Ended
  <1> QED BY <1>1, <1>2, <1>3, <1>4, CallMoved

\* What changes outside leaves the calls alone.
LEMMA OutsideStep ==
  ASSUME EngineInv, GatewayInv, Drift \/ GatewayUpgrade \/ UNCHANGED allVars
  PROVE  [Next]_vars /\ GatewayInv'
  <1>1. CASE Drift
    <2>1. UNCHANGED <<store, driver, installed, calls, issued>> /\ UNCHANGED vars
      BY <1>1 DEF Drift, vars
    <2>2. current' \in 1..Versions
      BY <1>1, VersionsAssumption DEF Drift, GatewayInv
    <2> QED BY <2>1, <2>2 DEF GatewayInv, TokensHold, CallFollows
  <1>2. CASE GatewayUpgrade
    <2>1. UNCHANGED <<store, driver, calls, current, issued>> /\ installed' \in Installations
      BY <1>2 DEF GatewayUpgrade, gatewayVars, Upgrade
    <2>2. Next
      BY <1>2 DEF GatewayUpgrade, Next
    <2> QED BY <2>1, <2>2 DEF GatewayInv, TokensHold, CallFollows
  <1>3. CASE UNCHANGED allVars
    <2>1. UNCHANGED vars /\ UNCHANGED <<store, driver, installed, calls, current, issued>>
      BY <1>3 DEF allVars, vars
    <2> QED BY <2>1 DEF GatewayInv, TokensHold, CallFollows
  <1> QED BY <1>1, <1>2, <1>3

(* Every step of the gateway is a step of the engine or leaves it alone,   *)
(* and keeps the invariant.                                                *)
LEMMA GatewayStep ==
  EngineInv /\ GatewayInv /\ [NextGateway]_allVars => [Next]_vars /\ GatewayInv'
  <1> SUFFICES ASSUME EngineInv, GatewayInv, [NextGateway]_allVars
               PROVE  [Next]_vars /\ GatewayInv'
    OBVIOUS
  <1>1. ASSUME NEW d \in Drivers, CallStep(d)
        PROVE  [Next]_vars /\ GatewayInv'
    BY <1>1, ResolveStep, ExecuteStep, LoadStep, DriveStep, EffectStep, ObserveStep DEF CallStep
  <1> QED BY <1>1, StartStep, ResumeStep, DieStep, OutsideStep DEF NextGateway
-----------------------------------------------------------------------------
(* Every behaviour of StudyCapabilityGateway is a behaviour of the engine: *)
(* start, resume, their retries and their races use it only as its own     *)
(* callers may.                                                            *)
THEOREM GatewayUsesEngine == SpecGateway => ImplementsEngine
  <1>1. InitGateway => Init /\ EngineInv /\ GatewayInv
    BY GatewayInit, EngineInvInit
  <1>2. EngineInv /\ GatewayInv /\ [NextGateway]_allVars =>
           [Next]_vars /\ EngineInv' /\ GatewayInv'
    BY GatewayStep, EngineInvStep
  <1> QED BY <1>1, <1>2, PTL DEF SpecGateway, ImplementsEngine, Spec

(* Whatever callers retry, answer twice or race through the gateway, the   *)
(* tool, model and validator calls of a run happen at most once each.      *)
THEOREM GatewayEffectsAtMostOnce == SpecGateway => []EffectsOnceInOrder
  BY GatewayUsesEngine, EffectsAtMostOnce DEF ImplementsEngine

(* Gateway calls and engine calls stay in step, and every continuation     *)
(* handed out names a stored run.                                          *)
THEOREM GatewayTypeCorrect == SpecGateway => []GatewayTypeOK
  <1>1. InitGateway => EngineInv /\ GatewayInv
    BY GatewayInit, EngineInvInit
  <1>2. EngineInv /\ GatewayInv /\ [NextGateway]_allVars => EngineInv' /\ GatewayInv'
    BY GatewayStep, EngineInvStep
  <1>3. GatewayInv => GatewayTypeOK
    BY DEF GatewayInv, GatewayTypeOK, TokensHold, CallFollows
  <1> QED BY <1>1, <1>2, <1>3, PTL DEF SpecGateway

-----------------------------------------------------------------------------
(* What callers were told.  A continuation names the suspended row, or a    *)
(* receipt in the trace: a step answers the row with exactly that receipt.  *)
TokenSound(k) ==
    /\ k.run \in DOMAIN store
    /\ k.bound = store[k.run].bound
    /\ k.generation # <<>>
    /\ \/ /\ store[k.run].status = "suspended"
          /\ k.generation = _checkpoint_fingerprint(store[k.run])
       \/ \E t \in DOMAIN store[k.run].traces : store[k.run].traces[t].generation = k.generation

(* The run of a request is bound to its inputs.                             *)
Own(request) ==
    /\ request.run \in DOMAIN store
    /\ store[request.run].bound.inputs = request.inputs

(* Its answer is the recorded one.                                          *)
Answered(request) ==
    \E t \in DOMAIN store[request.run].traces :
        /\ store[request.run].traces[t].generation = request.token.generation
        /\ store[request.run].traces[t].value = request.answer

Verdicts == {"completed", "terminated", "cancelled"}

VerdictOf(row) == IF row.status = "cancelled" THEN "cancelled" ELSE _recovered_termination(row)

(* A call under way asks for its own run.                                   *)
RequestSound(call) ==
    call.pc # "idle" =>
        /\ call.request.token # NoToken =>
              /\ call.request.token \in issued
              /\ call.request.token.run = call.request.run
              /\ call.request.token.bound.inputs = call.request.inputs
        /\ call.pc = "executing" =>
              call.request.token = NoToken /\ call.bound.inputs = call.request.inputs
        /\ call.pc \in {"driving", "observing"} => Own(call.request)

(* A reply holds of the row now stored.                                     *)
ReplySound(call) ==
    call.pc = "idle" /\ "request" \in DOMAIN call =>
        /\ Own(call.request)
        /\ call.request.token # NoToken =>
              call.request.token.generation # <<>> /\ Answered(call.request)
        /\ call.reply \in Verdicts =>
              /\ store[call.request.run].status \in Terminal
              /\ call.reply = VerdictOf(store[call.request.run])
              /\ call.outputs = store[call.request.run].outputs

CallersInv ==
    /\ \A k \in issued : TokenSound(k)
    /\ \A d \in Drivers : RequestSound(calls[d]) /\ ReplySound(calls[d])

(* Rows only follow one another.                                            *)
RowsMove == \A r \in DOMAIN store : r \in DOMAIN store' /\ Follows(store[r], store'[r])

(* A trace once written stays where it is.                                  *)
LEMMA TraceStays ==
  ASSUME NEW old, Sound(old), NEW new, Follows(old, new), NEW t \in DOMAIN old.traces,
         Sound(new)
  PROVE  t \in DOMAIN new.traces /\ new.traces[t] = old.traces[t]
  <1>1. /\ DOMAIN old.traces = 1..Len(old.traces) /\ Len(old.traces) \in Nat
        /\ DOMAIN new.traces = 1..Len(new.traces) /\ Len(new.traces) \in Nat
    BY TrailLength DEF Sound
  <1>2. Len(old.traces) <= Len(new.traces) /\ \A u \in 1..Len(old.traces) : new.traces[u] = old.traces[u]
    BY DEF Follows, Continues
  <1>3. \A m, n \in Nat : m <= n => 1..m \subseteq 1..n
    OBVIOUS
  <1> QED BY <1>1, <1>2, <1>3

\* A continuation stays sound as rows follow one another.
LEMMA TokenKept ==
  ASSUME RowsSound, RowsSound', RowsMove, NEW k, TokenSound(k)
  PROVE  TokenSound(k)'
  <1> DEFINE r == k.run
             old == store[r]
             new == store'[r]
  <1>1. /\ r \in DOMAIN store /\ r \in DOMAIN store' /\ Follows(old, new)
        /\ Sound(old) /\ Sound(new) /\ k.bound = old.bound /\ k.generation # <<>>
    BY DEF TokenSound, RowsMove, RowsSound
  <1>2. k.bound = new.bound
    BY <1>1 DEF Follows
  <1>3. \/ new.status = "suspended" /\ k.generation = _checkpoint_fingerprint(new)
        \/ \E t \in DOMAIN new.traces : new.traces[t].generation = k.generation
    <2>1. CASE \E t \in DOMAIN old.traces : old.traces[t].generation = k.generation
      <3>1. PICK t \in DOMAIN old.traces : old.traces[t].generation = k.generation
        BY <2>1
      <3> QED BY <1>1, <3>1, TraceStays
    <2>2. CASE old.status = "suspended" /\ k.generation = _checkpoint_fingerprint(old) /\ new = old
      BY <2>2, Zenon
    <2>3. CASE /\ old.status = "suspended" /\ k.generation = _checkpoint_fingerprint(old)
               /\ \E answer \in Answers : new = Claimed(old, answer)
      <3>1. PICK answer \in Answers : new = Claimed(old, answer)
        BY <2>3
      <3> HIDE DEF old, new
      <3> DEFINE b == _trace(old.next, "completed", answer, "none", _checkpoint_fingerprint(old))
      <3>2. new.traces = Append(old.traces, b)
        <4> DEFINE s == Append(old.traces, b)
                   o == Put(old.outputs, old.next, answer)
        <4>1. new = _checkpoint(old.bound, "running", old.next, o, s)
          BY <3>1, Zenon DEF Claimed
        <4> HIDE DEF o, s
        <4>2. new.traces = s
          BY <4>1, CheckpointTraces
        <4> QED BY <4>2 DEF s
      <3>3. b.generation = _checkpoint_fingerprint(old)
        BY TraceFields
      <3> HIDE DEF b
      <3>4. /\ Len(new.traces) = Len(old.traces) + 1 /\ new.traces[Len(old.traces) + 1] = b
            /\ Len(old.traces) \in Nat /\ DOMAIN new.traces = 1..Len(new.traces)
        BY <1>1, <3>2, TrailAppend, TrailLength DEF Sound
      <3>5. Len(old.traces) + 1 \in DOMAIN new.traces
        BY <3>4
      <3> QED BY <2>3, <3>3, <3>4, <3>5
    <2> QED BY <1>1, <2>1, <2>2, <2>3 DEF TokenSound, Follows
  <1> QED BY <1>1, <1>2, <1>3 DEF TokenSound

\* A row of the caller's own run stays its own.
LEMMA OwnKept ==
  ASSUME RowsMove, NEW request, Own(request)
  PROVE  Own(request)'
  BY DEF Own, RowsMove, Follows

\* An answer stays recorded.
LEMMA AnsweredKept ==
  ASSUME RowsSound, RowsSound', RowsMove, NEW request, Own(request), Answered(request)
  PROVE  Answered(request)'
  <1> DEFINE r == request.run
  <1>1. /\ r \in DOMAIN store /\ r \in DOMAIN store' /\ Follows(store[r], store'[r])
        /\ Sound(store[r]) /\ Sound(store'[r])
    BY DEF Own, RowsMove, RowsSound
  <1>2. PICK t \in DOMAIN store[r].traces :
           /\ store[r].traces[t].generation = request.token.generation
           /\ store[r].traces[t].value = request.answer
    BY DEF Answered
  <1>3. t \in DOMAIN store'[r].traces /\ store'[r].traces[t] = store[r].traces[t]
    BY <1>1, TraceStays
  <1> QED BY <1>2, <1>3 DEF Answered

(* A call that does not move keeps what it holds.                           *)
LEMMA CallKept ==
  ASSUME RowsSound, RowsSound', RowsMove, issued \subseteq issued',
         NEW call, RequestSound(call), ReplySound(call)
  PROVE  RequestSound(call)' /\ ReplySound(call)'
  <1>1. CASE call.pc # "idle"
    BY <1>1, OwnKept DEF RequestSound, ReplySound
  <1>2. CASE call.pc = "idle" /\ "request" \in DOMAIN call
    <2> DEFINE r == call.request.run
    <2>1. Own(call.request)
      BY <1>2 DEF ReplySound
    <2>2. Own(call.request)'
      BY <2>1, OwnKept
    <2>3. call.request.token # NoToken =>
             call.request.token.generation # <<>> /\ Answered(call.request)'
      BY <1>2, <2>1, AnsweredKept DEF ReplySound
    <2>4. call.reply \in Verdicts =>
             /\ store[r].status \in Terminal
             /\ call.reply = VerdictOf(store[r]) /\ call.outputs = store[r].outputs
      BY <1>2 DEF ReplySound
    <2>5. store[r].status \in Terminal => store'[r] = store[r]
      BY <2>1 DEF Own, RowsMove, Follows
    <2>6. call.reply \in Verdicts =>
             /\ store'[r].status \in Terminal
             /\ call.reply = VerdictOf(store'[r]) /\ call.outputs = store'[r].outputs
      BY <2>4, <2>5
    <2> QED BY <1>2, <2>2, <2>3, <2>6 DEF RequestSound, ReplySound, VerdictOf, _recovered_termination
  <1>3. CASE call.pc = "idle" /\ "request" \notin DOMAIN call
    BY <1>3 DEF RequestSound, ReplySound
  <1> QED BY <1>1, <1>2, <1>3

(* A step of call d keeps what callers hold, if the call that moves holds   *)
(* it and new continuations do.                                             *)
LEMMA CallersMoved ==
  ASSUME GatewayInv, CallersInv, RowsSound, RowsSound', RowsMove,
         NEW d \in Drivers, NEW x, calls' = [calls EXCEPT ![d] = x],
         issued \subseteq issued', \A k \in issued' : k \in issued \/ TokenSound(k)',
         RequestSound(x)', ReplySound(x)'
  PROVE  CallersInv'
  <1>1. \A e \in Drivers : calls'[e] = IF e = d THEN x ELSE calls[e]
    BY DEF GatewayInv
  <1>2. \A k \in issued' : TokenSound(k)'
    BY TokenKept DEF CallersInv
  <1>3. ASSUME NEW e \in Drivers PROVE RequestSound(calls[e])' /\ ReplySound(calls[e])'
    <2>1. PICK c : c = calls'[e]
      OBVIOUS
    <2>2. RequestSound(c)' /\ ReplySound(c)'
      <3>1. CASE e = d
        BY <1>1, <2>1, <3>1
      <3>2. CASE e # d
        <4>1. RequestSound(c) /\ ReplySound(c)
          BY <1>1, <2>1, <3>2 DEF CallersInv
        <4> QED BY <4>1, CallKept
      <3> QED BY <3>1, <3>2
    <2> QED BY <2>1, <2>2 DEF RequestSound, ReplySound, Own, Answered
  <1> QED BY <1>2, <1>3 DEF CallersInv

(* A token names a run with the token's bindings.                           *)
LEMMA TokenOwn ==
  ASSUME CallersInv, NEW request, request.token \in issued,
         request.token.run = request.run, request.token.bound.inputs = request.inputs
  PROVE  Own(request)
  BY DEF CallersInv, TokenSound, Own

(* A recorded answer is in the trace of its generation.                     *)
LEMMA PersistedAnswered ==
  ASSUME CallersInv, RowsSound, NEW request, Own(request), request.token \in issued,
         _require_persisted_resume(request.token, request.answer, store[request.run])
  PROVE  request.token.generation # <<>> /\ Answered(request)
  <1> DEFINE row == store[request.run]
             token == request.token
             S == {t \in DOMAIN row.traces :
                      /\ row.traces[t].step = token.step
                      /\ row.traces[t].mark = "completed"
                      /\ row.traces[t].generation = token.generation}
  <1>1. row.outputs[token.step] = request.answer /\ Cardinality(S) = 1
    BY DEF _require_persisted_resume
  <1>2. S # {}
    <2> HIDE DEF S
    <2> QED BY <1>1, FS_EmptySet
  <1>3. PICK t \in DOMAIN row.traces :
           /\ row.traces[t].step = token.step
           /\ row.traces[t].mark = "completed"
           /\ row.traces[t].generation = token.generation
    BY <1>2
  <1>4. Sound(row)
    BY DEF RowsSound, Own
  <1>5. ReceiptHolds(row, t)
    BY <1>3, <1>4 DEF Sound, Receipted
  <1>6. row.traces[t].value = request.answer
    BY <1>1, <1>3, <1>5 DEF ReceiptHolds
  <1>7. token.generation # <<>>
    BY DEF CallersInv, TokenSound
  <1> QED BY <1>3, <1>6, <1>7 DEF Answered

(* A reply that stands for the stored row.                                  *)
LEMMA CallersObserve ==
  ASSUME EngineInv, GatewayInv, CallersInv, RowsSound, RowsSound', RowsMove,
         NEW d \in Drivers, NEW request, Own(request),
         request.token # NoToken => request.token.generation # <<>> /\ Answered(request),
         _observed(d, request, store[request.run])
  PROVE  CallersInv'
  <1> DEFINE r == request.run
             row == store[r]
             verified == IF _inspect_expected(row.bound, row)
                         THEN _recovered_termination(row) ELSE "refused"
             kind == CASE row.status = "running" -> "in_progress"
                       [] row.status = "completed" ->
                             IF verified = "refused" THEN "failed" ELSE verified
                       [] OTHER -> row.status
             k == CapabilityContinuation(r, row)
             x == Reply(kind, request, row)
  <1>1. /\ calls' = [calls EXCEPT ![d] = x]
        /\ issued' = IF row.status = "suspended" THEN issued \union {k} ELSE issued
        /\ UNCHANGED store
    BY DEF _observed, Move
  <1>2. row.status \in Statuses /\ r \in DOMAIN store
    BY DEF Own, EngineInv, RowsTyped
  <1>3. /\ x.pc = "idle" /\ x.reply = kind /\ x.request = request
        /\ row.status \in Terminal => x.outputs = row.outputs
    BY DEF Reply
  <1>4. kind \in Verdicts => row.status \in Terminal /\ kind = VerdictOf(row)
    <2>1. CASE row.status = "running"
      BY <2>1 DEF Verdicts
    <2>2. CASE row.status = "completed"
      <3>1. kind = IF verified = "refused" THEN "failed" ELSE verified
        BY <2>2
      <3>2. verified = "refused" \/ verified = _recovered_termination(row)
        OBVIOUS
      <3> HIDE DEF verified, kind
      <3> QED BY <2>2, <3>1, <3>2 DEF Verdicts, VerdictOf, Terminal
    <2>3. CASE row.status \notin {"running", "completed"}
      <3>1. kind = row.status
        BY <2>3
      <3> HIDE DEF kind
      <3> QED BY <1>2, <2>3, <3>1 DEF Verdicts, VerdictOf, Statuses, Terminal
    <2> QED BY <2>1, <2>2, <2>3
  <1>5. row.status = "suspended" => TokenSound(k)
    <2>1. k.run = r /\ k.bound = row.bound /\ k.generation = _checkpoint_fingerprint(row)
      BY DEF CapabilityContinuation
    <2>2. _checkpoint_fingerprint(row) # <<>>
      BY DEF _checkpoint_fingerprint
    <2> HIDE DEF k
    <2> QED BY <1>2, <2>1, <2>2 DEF TokenSound
  <1>6. PICK c : c = x
    OBVIOUS
  <1> HIDE DEF x, kind
  <1>7. RequestSound(c)' /\ ReplySound(c)'
    <2>1. Own(request)' /\ (Answered(request) => Answered(request)')
      BY <1>1 DEF Own, Answered
    <2> QED BY <1>1, <1>3, <1>4, <1>6, <2>1
            DEF RequestSound, ReplySound, Own, Answered, VerdictOf, _recovered_termination
  <1>8. \A q \in issued' : q \in issued \/ TokenSound(q)'
    <2>1. \A q \in issued' : q \in issued \/ (q = k /\ row.status = "suspended")
      BY <1>1
    <2> HIDE DEF k
    <2> QED BY <1>1, <1>5, <2>1 DEF TokenSound
  <1>9. issued \subseteq issued' /\ calls' = [calls EXCEPT ![d] = c]
    BY <1>1, <1>6
  <1> QED BY <1>7, <1>8, <1>9, CallersMoved

(* A call that ends without showing a row.                                  *)
LEMMA CallersRefuse ==
  ASSUME GatewayInv, CallersInv, RowsSound, RowsSound', RowsMove,
         NEW d \in Drivers, NEW kind, calls' = [calls EXCEPT ![d] = Ended(kind)], UNCHANGED issued
  PROVE  CallersInv'
  <1>1. Ended(kind).pc = "idle" /\ "request" \notin DOMAIN Ended(kind)
    BY DEF Ended
  <1>2. RequestSound(Ended(kind))' /\ ReplySound(Ended(kind))'
    BY <1>1 DEF RequestSound, ReplySound
  <1>3. PICK c : c = Ended(kind)
    OBVIOUS
  <1> QED BY <1>2, <1>3, CallersMoved

(* A call that goes on.                                                     *)
LEMMA CallersGoOn ==
  ASSUME GatewayInv, CallersInv, RowsSound, RowsSound', RowsMove,
         NEW d \in Drivers, NEW x, calls' = [calls EXCEPT ![d] = x], UNCHANGED issued,
         x.pc # "idle", RequestSound(x)'
  PROVE  CallersInv'
  <1>1. ReplySound(x)'
    BY DEF ReplySound
  <1> QED BY <1>1, CallersMoved

(* start: a retry is of the same inputs.                                    *)
LEMMA CallersStart ==
  ASSUME EngineInv, GatewayInv, CallersInv, RowsSound, RowsSound', RowsMove,
         NEW d \in Drivers, NEW r \in Runs, NEW inputs \in Inputs, _start_bound(d, r, inputs)
  PROVE  CallersInv'
  <1> DEFINE request == Request(r, inputs, NoToken, "none")
  <1>1. request.run = r /\ request.inputs = inputs /\ request.token = NoToken
    BY DEF Request
  <1>2. \/ /\ r \in DOMAIN store /\ _require_start_retry(request, store[r])
           /\ _observed(d, request, store[r])
        \/ Refuse(d, "conflict")
        \/ Move(d, At("resolving", request)) /\ UNCHANGED <<vars, current, issued>>
    BY DEF _start_bound
  <1> HIDE DEF request
  <1>3. CASE /\ r \in DOMAIN store /\ _require_start_retry(request, store[r])
             /\ _observed(d, request, store[r])
    <2>1. Own(request)
      BY <1>1, <1>3 DEF Own, _require_start_retry
    <2> QED BY <1>1, <1>3, <2>1, CallersObserve
  <1>4. CASE Refuse(d, "conflict")
    BY <1>4, CallersRefuse DEF Refuse, Move
  <1>5. CASE Move(d, At("resolving", request)) /\ UNCHANGED <<vars, current, issued>>
    <2> DEFINE x == At("resolving", request)
    <2>1. x.pc = "resolving" /\ x.request = request
      BY DEF At
    <2>2. calls' = [calls EXCEPT ![d] = x] /\ UNCHANGED issued
      BY <1>5 DEF Move
    <2>3. PICK c : c = x
      OBVIOUS
    <2> HIDE DEF x
    <2>4. RequestSound(c)'
      BY <1>1, <2>1, <2>3 DEF RequestSound
    <2> QED BY <2>1, <2>2, <2>3, <2>4, CallersGoOn
  <1> QED BY <1>2, <1>3, <1>4, <1>5

(* resume: the continuation is one of this run.                             *)
LEMMA CallersResume ==
  ASSUME EngineInv, GatewayInv, CallersInv, RowsSound, RowsSound', RowsMove,
         NEW d \in Drivers, NEW r \in Runs, NEW token \in issued, NEW answer \in Answers,
         _resume_bound(d, r, token, answer)
  PROVE  CallersInv'
  <1> DEFINE request == Request(r, token.bound.inputs, token, answer)
  <1>1. /\ request.run = r /\ request.inputs = token.bound.inputs
        /\ request.token = token /\ request.answer = answer
    BY DEF Request
  <1>2. \/ /\ token.run = r
           /\ _require_persisted_resume(token, answer, store[token.run])
           /\ _observed(d, request, store[token.run])
        \/ Refuse(d, "conflict")
        \/ /\ token.run = r
           /\ Move(d, At("resolving", request)) /\ UNCHANGED <<vars, current, issued>>
    BY DEF _resume_bound
  <1> HIDE DEF request
  <1>3. CASE /\ token.run = r
             /\ _require_persisted_resume(token, answer, store[token.run])
             /\ _observed(d, request, store[token.run])
    <2>1. Own(request)
      BY <1>1, <1>3, TokenOwn
    <2>2. _require_persisted_resume(request.token, request.answer, store[request.run])
      BY <1>1, <1>3
    <2>3. request.token.generation # <<>> /\ Answered(request)
      BY <1>1, <2>1, <2>2, PersistedAnswered
    <2>4. _observed(d, request, store[request.run])
      BY <1>1, <1>3
    <2> QED BY <2>1, <2>3, <2>4, CallersObserve
  <1>4. CASE Refuse(d, "conflict")
    BY <1>4, CallersRefuse DEF Refuse, Move
  <1>5. CASE /\ token.run = r
             /\ Move(d, At("resolving", request)) /\ UNCHANGED <<vars, current, issued>>
    <2> DEFINE x == At("resolving", request)
    <2>1. x.pc = "resolving" /\ x.request = request
      BY DEF At
    <2>2. calls' = [calls EXCEPT ![d] = x] /\ UNCHANGED issued
      BY <1>5 DEF Move
    <2>3. PICK c : c = x
      OBVIOUS
    <2> HIDE DEF x
    <2>4. RequestSound(c)'
      BY <1>1, <1>5, <2>1, <2>2, <2>3 DEF RequestSound
    <2> QED BY <2>1, <2>2, <2>3, <2>4, CallersGoOn
  <1> QED BY <1>2, <1>3, <1>4, <1>5

\* Resolving the dependencies keeps what callers know.
LEMMA CallersResolve ==
  ASSUME GatewayInv, CallersInv, RowsSound, RowsSound', RowsMove,
         NEW d \in Drivers, _dependencies(d)
  PROVE  CallersInv'
  <1> DEFINE request == calls[d].request
             bound == [pins |-> installed, inputs |-> request.inputs, deps |-> current]
             pc == IF request.token = NoToken THEN "executing" ELSE "resuming"
             x == Bound(pc, request, bound)
  <1>1. /\ calls[d].pc = "resolving" /\ calls' = [calls EXCEPT ![d] = x] /\ UNCHANGED issued
    BY DEF _dependencies, Move
  <1>2. /\ request.token # NoToken =>
              /\ request.token \in issued /\ request.token.run = request.run
              /\ request.token.bound.inputs = request.inputs
    BY <1>1 DEF CallersInv, RequestSound
  <1>3. /\ x.pc = pc /\ x.request = request /\ x.bound.inputs = request.inputs
    BY DEF Bound
  <1>4. pc \in {"executing", "resuming"} /\ (pc = "executing" => request.token = NoToken)
    OBVIOUS
  <1>5. PICK c : c = x
    OBVIOUS
  <1> HIDE DEF x, pc
  <1>6. RequestSound(c)'
    BY <1>1, <1>2, <1>3, <1>4, <1>5 DEF RequestSound
  <1> QED BY <1>1, <1>3, <1>4, <1>5, <1>6, CallersGoOn

(* execute: the run it inserts is bound to the caller's inputs.             *)
LEMMA CallersExecute ==
  ASSUME EngineInv, GatewayInv, CallersInv, RowsSound, RowsSound', RowsMove,
         NEW d \in Drivers, NEW ack \in Acks, start_execute(d, ack)
  PROVE  CallersInv'
  <1> DEFINE request == calls[d].request
             r == request.run
             bound == calls[d].bound
  <1>1. /\ calls[d].pc = "executing" /\ request.token = NoToken /\ bound.inputs = request.inputs
    BY DEF start_execute, CallersInv, RequestSound
  <1>2. \/ \E kind : Refuse(d, kind)
        \/ /\ execute(d, r, bound, ack)
           /\ Move(d, IF ack = "ok" THEN Bound("driving", request, bound) ELSE Ended("failed"))
           /\ UNCHANGED <<current, issued>>
        \/ /\ r \in DOMAIN store /\ _require_start_retry(request, store[r])
           /\ _observed(d, request, store[r])
    BY DEF start_execute
  <1>3. CASE \E kind : Refuse(d, kind)
    BY <1>3, CallersRefuse DEF Refuse, Move
  <1>4. CASE /\ r \in DOMAIN store /\ _require_start_retry(request, store[r])
             /\ _observed(d, request, store[r])
    <2>1. Own(request)
      BY <1>4 DEF Own, _require_start_retry
    <2> HIDE DEF request
    <2> QED BY <1>1, <1>4, <2>1, CallersObserve
  <1>5. CASE /\ execute(d, r, bound, ack)
             /\ Move(d, IF ack = "ok" THEN Bound("driving", request, bound) ELSE Ended("failed"))
             /\ UNCHANGED <<current, issued>>
    <2>1. CASE ack = "ok"
      <3> DEFINE x == Bound("driving", request, bound)
      <3>1. x.pc = "driving" /\ x.request = request
        BY DEF Bound
      <3>2. calls' = [calls EXCEPT ![d] = x] /\ UNCHANGED issued
        BY <1>5, <2>1 DEF Move
      <3>3. PICK q : q = request
        OBVIOUS
      <3>4. Own(q)'
        <4>1. store' = Put(store, r, _checkpoint(bound, "running", 0, Empty, <<>>))
          BY <1>5 DEF execute
        <4>2. r \in DOMAIN store' /\ store'[r] = _checkpoint(bound, "running", 0, Empty, <<>>)
          BY <4>1 DEF Put
        <4>3. store'[r].bound = bound
          BY <4>2, CheckpointFields
        <4>4. q.run \in DOMAIN store' /\ store'[q.run].bound.inputs = q.inputs
          BY <1>1, <3>3, <4>2, <4>3
        <4> QED BY <4>4 DEF Own
      <3>5. PICK c : c = x
        OBVIOUS
      <3>6. c.pc = "driving" /\ c.request = q /\ q.token = NoToken
        BY <1>1, <3>1, <3>3, <3>5
      <3>7. RequestSound(c)'
        BY <3>4, <3>6 DEF RequestSound
      <3>8. calls' = [calls EXCEPT ![d] = c] /\ UNCHANGED issued
        BY <3>2, <3>5
      <3> HIDE DEF x
      <3> QED BY <3>6, <3>7, <3>8, CallersGoOn
    <2>2. CASE ack # "ok"
      BY <1>5, <2>2, CallersRefuse DEF Move
    <2> QED BY <2>1, <2>2
  <1> QED BY <1>2, <1>3, <1>4, <1>5

(* A step that moves no call.                                               *)
LEMMA CallersStill ==
  ASSUME CallersInv, RowsSound, RowsSound', RowsMove, UNCHANGED <<calls, issued>>
  PROVE  CallersInv'
  <1>1. \A k \in issued' : TokenSound(k)'
    BY TokenKept DEF CallersInv
  <1>2. ASSUME NEW e \in Drivers PROVE RequestSound(calls[e])' /\ ReplySound(calls[e])'
    <2>1. PICK c : c = calls'[e]
      OBVIOUS
    <2>2. RequestSound(c) /\ ReplySound(c)
      BY <2>1 DEF CallersInv
    <2>3. RequestSound(c)' /\ ReplySound(c)'
      BY <2>2, CallKept
    <2> QED BY <2>1, <2>3 DEF RequestSound, ReplySound, Own, Answered
  <1> QED BY <1>1, <1>2 DEF CallersInv

(* A call that goes on to observe its own run.                              *)
LEMMA CallersLook ==
  ASSUME GatewayInv, CallersInv, RowsSound, RowsSound', RowsMove,
         NEW d \in Drivers, NEW request, calls[d].request = request,
         NEW x, calls' = [calls EXCEPT ![d] = x], UNCHANGED issued,
         x.pc \in {"observing", "driving"}, x.request = request,
         calls[d].pc # "idle", Own(request)
  PROVE  CallersInv'
  <1>1. /\ request.token # NoToken =>
              /\ request.token \in issued'
              /\ request.token.run = request.run
              /\ request.token.bound.inputs = request.inputs
    BY DEF CallersInv, RequestSound
  <1>2. Own(request)'
    BY OwnKept
  <1>3. RequestSound(x)'
    BY <1>1, <1>2 DEF RequestSound
  <1> QED BY <1>3, CallersGoOn

(* resume: the run its continuation names is the caller's.                  *)
LEMMA CallersLoad ==
  ASSUME GatewayInv, CallersInv, RowsSound, RowsSound', RowsMove,
         NEW d \in Drivers, resume_load(d)
  PROVE  CallersInv'
  <1>1. PICK request : request = calls[d].request
    OBVIOUS
  <1>2. calls[d].pc = "resuming" /\ request.token # NoToken
    BY <1>1 DEF resume_load, GatewayInv, CallFollows
  <1>3. /\ request.token \in issued /\ request.token.run = request.run
        /\ request.token.bound.inputs = request.inputs
    BY <1>1, <1>2 DEF CallersInv, RequestSound
  <1>4. Own(request)
    BY <1>3, TokenOwn
  <1>5. \/ Refuse(d, "stale")
        \/ Move(d, At("observing", request)) /\ UNCHANGED issued
        \/ Move(d, Bound("driving", request, calls[d].bound)) /\ UNCHANGED issued
    BY <1>1 DEF resume_load
  <1>6. CASE Refuse(d, "stale")
    BY <1>6, CallersRefuse DEF Refuse, Move
  <1>7. CASE Move(d, At("observing", request)) /\ UNCHANGED issued
    BY <1>1, <1>2, <1>4, <1>7, CallersLook DEF Move, At
  <1>8. CASE Move(d, Bound("driving", request, calls[d].bound)) /\ UNCHANGED issued
    BY <1>1, <1>2, <1>4, <1>8, CallersLook DEF Move, Bound
  <1> QED BY <1>5, <1>6, <1>7, <1>8

(* The engine's statements: the call stays, observes its run or fails.      *)
LEMMA CallersDrive ==
  ASSUME GatewayInv, CallersInv, RowsSound, RowsSound', RowsMove,
         NEW d \in Drivers, NEW ack, EngineReturns(d, ack), calls[d].pc = "driving"
  PROVE  CallersInv'
  <1>1. PICK request : request = calls[d].request
    OBVIOUS
  <1>2. Own(request)
    BY <1>1 DEF CallersInv, RequestSound
  <1>3. /\ UNCHANGED issued
        /\ \/ calls' = [calls EXCEPT ![d] = calls[d]]
           \/ calls' = [calls EXCEPT ![d] = At("observing", request)]
           \/ calls' = [calls EXCEPT ![d] = Ended("failed")]
    BY <1>1 DEF EngineReturns, Move
  <1>4. CASE calls' = [calls EXCEPT ![d] = calls[d]]
    <2>1. calls' = calls
      BY <1>4 DEF GatewayInv
    <2> QED BY <1>3, <2>1, CallersStill
  <1>5. CASE calls' = [calls EXCEPT ![d] = At("observing", request)]
    BY <1>1, <1>2, <1>3, <1>5, CallersLook DEF At
  <1>6. CASE calls' = [calls EXCEPT ![d] = Ended("failed")]
    BY <1>3, <1>6, CallersRefuse
  <1> QED BY <1>3, <1>4, <1>5, <1>6

(* After the engine: a resume shows the row only if its own answer is in it. *)
LEMMA CallersReturn ==
  ASSUME EngineInv, GatewayInv, CallersInv, RowsSound, RowsSound', RowsMove,
         NEW d \in Drivers, observe(d)
  PROVE  CallersInv'
  <1>1. PICK request : request = calls[d].request
    OBVIOUS
  <1>2. calls[d].pc = "observing"
    BY DEF observe
  <1>3. Own(request) /\ (request.token # NoToken => request.token \in issued)
    BY <1>1, <1>2 DEF CallersInv, RequestSound
  <1>4. \/ /\ request.token = NoToken
              \/ _require_persisted_resume(request.token, request.answer, store[request.run])
           /\ _observed(d, request, store[request.run])
        \/ Refuse(d, "conflict")
    BY <1>1 DEF observe
  <1>5. CASE Refuse(d, "conflict")
    BY <1>5, CallersRefuse DEF Refuse, Move
  <1>6. CASE request.token = NoToken /\ _observed(d, request, store[request.run])
    BY <1>3, <1>6, CallersObserve
  <1>7. CASE /\ request.token # NoToken
             /\ _require_persisted_resume(request.token, request.answer, store[request.run])
             /\ _observed(d, request, store[request.run])
    <2>1. request.token.generation # <<>> /\ Answered(request)
      BY <1>3, <1>7, PersistedAnswered
    <2> QED BY <1>3, <1>7, <2>1, CallersObserve
  <1> QED BY <1>4, <1>5, <1>6, <1>7

(* No call holds anything yet.                                              *)
LEMMA CallersInit == InitGateway => CallersInv
  <1> SUFFICES ASSUME InitGateway PROVE CallersInv
    OBVIOUS
  <1>1. issued = {} /\ \A d \in Drivers : calls[d] = Ended("none")
    BY DEF InitGateway
  <1>2. Ended("none").pc = "idle" /\ "request" \notin DOMAIN Ended("none")
    BY DEF Ended
  <1> QED BY <1>1, <1>2 DEF CallersInv, RequestSound, ReplySound

\* Every step keeps the rows, and what callers know.
LEMMA CallersStep ==
  EngineInv /\ GatewayInv /\ RowsSound /\ CallersInv /\ [NextGateway]_allVars
     => RowsSound' /\ CallersInv'
  <1> SUFFICES ASSUME EngineInv, GatewayInv, RowsSound, CallersInv, [NextGateway]_allVars
               PROVE  RowsSound' /\ CallersInv'
    OBVIOUS
  <1>1. [Next]_vars
    BY GatewayStep
  <1>2. RowsSound'
    BY <1>1, RowsSoundStep
  <1>3. RowsMove
    BY <1>1, RowsFollow DEF RowsMove
  <1>4. ASSUME NEW d \in Drivers, CallStep(d)
        PROVE  CallersInv'
    <2>1. CASE _dependencies(d)
      BY <1>2, <1>3, <2>1, CallersResolve
    <2>2. ASSUME NEW ack \in Acks, start_execute(d, ack)
          PROVE  CallersInv'
      BY <1>2, <1>3, <2>2, CallersExecute
    <2>3. ASSUME NEW ack \in Acks, gateway_claim(d, ack) \/ gateway_advance(d, ack)
          PROVE  CallersInv'
      <3>1. calls[d].pc = "driving" /\ \E kind : EngineReturns(d, kind)
        BY <2>3 DEF gateway_claim, gateway_advance
      <3> QED BY <1>2, <1>3, <3>1, CallersDrive
    <2>4. CASE resume_load(d)
      BY <1>2, <1>3, <2>4, CallersLoad
    <2>5. CASE gateway_effect(d)
      BY <1>2, <1>3, <2>5, CallersStill DEF gateway_effect, gatewayVars
    <2>6. CASE observe(d)
      BY <1>2, <1>3, <2>6, CallersReturn
    <2> QED BY <1>4, <2>1, <2>2, <2>3, <2>4, <2>5, <2>6 DEF CallStep
  <1>5. ASSUME NEW d \in Drivers, Die(d)
        PROVE  CallersInv'
    BY <1>2, <1>3, <1>5, CallersRefuse DEF Die, Move
  <1>6. ASSUME Drift \/ GatewayUpgrade \/ UNCHANGED allVars
        PROVE  CallersInv'
    <2>1. UNCHANGED <<calls, issued>>
      BY <1>6 DEF Drift, GatewayUpgrade, gatewayVars, allVars
    <2> QED BY <1>2, <1>3, <2>1, CallersStill
  <1>7. ASSUME NEW d \in Drivers, NEW r \in Runs, NEW inputs \in Inputs, _start_bound(d, r, inputs)
        PROVE  CallersInv'
    BY <1>2, <1>3, <1>7, CallersStart
  <1>8. ASSUME NEW d \in Drivers, NEW r \in Runs, NEW token \in issued, NEW answer \in Answers,
               _resume_bound(d, r, token, answer)
        PROVE  CallersInv'
    BY <1>2, <1>3, <1>8, CallersResume
  <1> QED BY <1>2, <1>4, <1>5, <1>6, <1>7, <1>8 DEF NextGateway

(* What a caller holds of its run, read off the invariant: the generation   *)
(* of a receipt is in no other trace of the row.                            *)
LEMMA CallersOutcome ==
  RowsSound /\ CallersInv => OutcomeBelongsToCaller
  <1> SUFFICES ASSUME RowsSound, CallersInv PROVE OutcomeBelongsToCaller
    OBVIOUS
  <1> DEFINE Goal(request) ==
        LET row == store[request.run]
        IN  /\ request.run \in DOMAIN store
            /\ row.bound.inputs = request.inputs
            /\ request.token # NoToken =>
                 \E t \in DOMAIN row.traces :
                    /\ row.traces[t].generation = request.token.generation
                    /\ row.traces[t].value = request.answer
                    /\ \A u \in DOMAIN row.traces \ {t} :
                          row.traces[u].generation # request.token.generation
  <1>1. ASSUME NEW d \in Drivers, Observed(d) PROVE Goal(calls[d].request)
    <2>1. PICK request : request = calls[d].request
      OBVIOUS
    <2>2. /\ Own(request)
          /\ request.token # NoToken => request.token.generation # <<>> /\ Answered(request)
      BY <1>1, <2>1 DEF CallersInv, ReplySound, Observed
    <2>3. Sound(store[request.run])
      BY <2>2 DEF RowsSound, Own
    <2>4. ASSUME request.token # NoToken
          PROVE  \E t \in DOMAIN store[request.run].traces :
                    /\ store[request.run].traces[t].generation = request.token.generation
                    /\ store[request.run].traces[t].value = request.answer
                    /\ \A u \in DOMAIN store[request.run].traces \ {t} :
                          store[request.run].traces[u].generation # request.token.generation
      <3>1. PICK t \in DOMAIN store[request.run].traces :
               /\ store[request.run].traces[t].generation = request.token.generation
               /\ store[request.run].traces[t].value = request.answer
        BY <2>2, <2>4 DEF Answered
      <3>2. request.token.generation # <<>>
        BY <2>2, <2>4
      <3>3. \A u \in DOMAIN store[request.run].traces :
               store[request.run].traces[u].generation = store[request.run].traces[t].generation => u = t
        BY <2>3, <3>1, <3>2, GenerationsDiffer
      <3> QED BY <3>1, <3>3
    <2>5. Goal(request)
      BY <2>2, <2>4 DEF Own
    <2> QED BY <2>1, <2>5
  <1> QED BY <1>1 DEF OutcomeBelongsToCaller

(* Verdicts are a function of the stored row, which is terminal and stays.  *)
LEMMA CallersReplies ==
  CallersInv => RepliesStayTrue
  <1> SUFFICES ASSUME CallersInv PROVE RepliesStayTrue
    OBVIOUS
  <1>1. ASSUME NEW d \in Drivers, NEW e \in Drivers, Observed(d), Observed(e),
               calls[d].reply \in Verdicts, calls[e].reply \in Verdicts,
               calls[d].request.run = calls[e].request.run
        PROVE  calls[d].reply = calls[e].reply /\ calls[d].outputs = calls[e].outputs
    <2>1. PICK r : r = calls[d].request.run /\ r = calls[e].request.run
      BY <1>1
    <2>2. /\ calls[d].reply = VerdictOf(store[r]) /\ calls[d].outputs = store[r].outputs
          /\ calls[e].reply = VerdictOf(store[r]) /\ calls[e].outputs = store[r].outputs
      BY <1>1, <2>1 DEF CallersInv, ReplySound, Observed
    <2> QED BY <2>2
  <1>2. VerdictsAgree
    BY <1>1 DEF VerdictsAgree, Verdicts
  <1>3. ContinuationsResolve
    BY DEF CallersInv, TokenSound, ContinuationsResolve
  <1> QED BY <1>2, <1>3 DEF RepliesStayTrue

(* OutcomeBelongsToCaller: start and resume show a caller the state of the  *)
(* run of its own request, and a resume only when the trace holds its own   *)
(* answer, once, for the generation its continuation names.                 *)
THEOREM OutcomesBelong == SpecGateway => []OutcomeBelongsToCaller
  <1>1. InitGateway => EngineInv /\ GatewayInv /\ RowsSound /\ CallersInv
    BY GatewayInit, EngineInvInit, RowsSoundInit, CallersInit
  <1>2. EngineInv /\ GatewayInv /\ RowsSound /\ CallersInv /\ [NextGateway]_allVars
           => EngineInv' /\ GatewayInv' /\ RowsSound' /\ CallersInv'
    BY GatewayStep, EngineInvStep, CallersStep
  <1> QED BY <1>1, <1>2, CallersOutcome, PTL DEF SpecGateway

(* RepliesStayTrue: _observed never tells two callers of a run different    *)
(* verdicts, and the suspended row a continuation names is either still the *)
(* one stored or answered in its trace.                                     *)
THEOREM RepliesHold == SpecGateway => []RepliesStayTrue
  <1>1. InitGateway => EngineInv /\ GatewayInv /\ RowsSound /\ CallersInv
    BY GatewayInit, EngineInvInit, RowsSoundInit, CallersInit
  <1>2. EngineInv /\ GatewayInv /\ RowsSound /\ CallersInv /\ [NextGateway]_allVars
           => EngineInv' /\ GatewayInv' /\ RowsSound' /\ CallersInv'
    BY GatewayStep, EngineInvStep, CallersStep
  <1> QED BY <1>1, <1>2, CallersReplies, PTL DEF SpecGateway

-----------------------------------------------------------------------------
(***************************************************************************)
(* FlashcardDispatcher: a caller is answered with the outcome of a run with *)
(* its own inputs, selection and answer, and a run that was there when the  *)
(* call began is always found.                                              *)
(***************************************************************************)
RunIsSound(row) ==
    /\ row \in RunRows
    /\ row.profile = row.inputs.receipt.profile
    /\ row.status = "suspended" => row.answer = NoAnswer

RunsAreSound == runs = [r \in RunIds |-> runs[r]]
                /\ \A r \in RunIds : runs[r] # NoRun => RunIsSound(runs[r])

RequestFits(request) ==
    /\ request.op \in {"start", "resume"}
    /\ request.run \in RunIds
    /\ request.inputs \in PublicInputs
    /\ request.op = "resume" => request.response \in Responses

\* What every phase of a call knows of the run it was asked for.
Known(rs, k) == RequestFits(k.request) /\ (k.existed => rs[k.request.run] # NoRun)
HasOwnRun(rs, k) == rs[k.request.run] # NoRun /\ rs[k.request.run].inputs = k.request.inputs

\* A run that was there at the beginning is seen by the probe that asks for it;
\* one that is seen is there.
ProbingHolds(rs, k) ==
    /\ k = [at |-> "probe", request |-> k.request, probes |-> k.probes, existed |-> k.existed]
    /\ Known(rs, k)
    /\ k.probes \in Seq({"not_found", "found", "incompatible"})
    /\ Len(k.probes) <= 2
    /\ \A i \in 1 .. Len(k.probes) :
          /\ k.probes[i] = "found" => rs[k.request.run] # NoRun
                                     /\ rs[k.request.run].profile = BindingOrder[i]
          /\ k.existed => k.probes[i] = IF rs[k.request.run].profile = BindingOrder[i]
                                        THEN "found" ELSE "incompatible"

\* Once bound, a call goes on with its own inputs under the profile of the run.
BoundHolds(rs, k) ==
    /\ k = [at |-> k.at, request |-> k.request, existed |-> k.existed, bound |-> k.bound,
            inputs |-> k.inputs]
    /\ Known(rs, k)
    /\ k.request.op = "start" => k.inputs = k.request.inputs /\ k.bound = k.inputs.receipt.profile
    /\ k.existed => k.bound = rs[k.request.run].profile
    /\ k.at = "engine" /\ k.request.op = "start" => ~k.existed
    /\ k.at = "engine" /\ k.request.op = "resume" => HasOwnRun(rs, k)
    /\ k.at \in {"drive", "observe"} => HasOwnRun(rs, k)

\* What the caller was told.
AnsweredHolds(rs, k) ==
    /\ k.kind \in Outcomes =>
          /\ RequestFits(k.request) /\ HasOwnRun(rs, k)
          /\ k.request.op = "resume" => rs[k.request.run].answer = k.request.response
          /\ k.kind = "completed" => k.candidates <= k.request.inputs.ceiling
    /\ k.kind \in {"incompatible", "not_found"} => ~k.existed

CallHolds(rs, k) ==
    \/ k.at = "idle" /\ AnsweredHolds(rs, k)
    \/ k.at = "probe" /\ ProbingHolds(rs, k)
    \/ k.at \in {"inspect", "engine", "drive", "observe"} /\ BoundHolds(rs, k)

DispatchInv ==
    /\ RunsAreSound
    /\ \A t \in tokens : t.run \in RunIds /\ t.inputs \in PublicInputs
    /\ callOf = [c \in Callers |-> callOf[c]]
    /\ \A c \in Callers : CallHolds(runs, callOf[c])

\* The invariant implies what the run checks.
LEMMA InvAnswers ==
  ASSUME DispatchInv
  PROVE  DispatchIsTrue
  <1>1. OutcomeIsRequested
    <2> SUFFICES ASSUME NEW c \in Callers, callOf[c].at = "idle", callOf[c].kind \in Outcomes
                 PROVE  LET request == callOf[c].request
                            row == runs[request.run]
                        IN /\ row # NoRun
                           /\ row.inputs = request.inputs
                           /\ row.profile = request.inputs.receipt.profile
                           /\ request.op = "resume" => row.answer = request.response
                           /\ callOf[c].kind = "completed"
                                 => callOf[c].candidates <= request.inputs.ceiling
      BY DEF OutcomeIsRequested
    <2>1. AnsweredHolds(runs, callOf[c])
      BY DEF DispatchInv, CallHolds
    <2> QED
      BY <2>1 DEF AnsweredHolds, RequestFits, HasOwnRun, DispatchInv, RunsAreSound, RunIsSound
  <1>2. IncompatibleIsARace
    BY DEF IncompatibleIsARace, DispatchInv, CallHolds, AnsweredHolds
  <1> QED
    BY <1>1, <1>2 DEF DispatchIsTrue
-----------------------------------------------------------------------------
(* Runs only move forward, and what is known of them stays true.           *)

RunsFollow(rs, next) ==
    \A r \in RunIds : rs[r] # NoRun =>
        /\ next[r] # NoRun
        /\ next[r].profile = rs[r].profile
        /\ next[r].inputs = rs[r].inputs
        /\ rs[r].answer # NoAnswer => next[r].answer = rs[r].answer

\* What a call knows survives the steps of the others.
LEMMA HoldsOn ==
  ASSUME NEW rs, NEW next, RunsFollow(rs, next), NEW k, CallHolds(rs, k)
  PROVE  CallHolds(next, k)
  <1>1. ASSUME AnsweredHolds(rs, k) PROVE AnsweredHolds(next, k)
    BY <1>1, AbsenceAssumption DEF AnsweredHolds, RequestFits, HasOwnRun, RunsFollow
  <1>2. ASSUME ProbingHolds(rs, k) PROVE ProbingHolds(next, k)
    <2>1. ASSUME NEW i \in 1 .. Len(k.probes)
          PROVE  /\ k.probes[i] = "found" => next[k.request.run] # NoRun
                                              /\ next[k.request.run].profile = BindingOrder[i]
                 /\ k.existed => k.probes[i] = IF next[k.request.run].profile = BindingOrder[i]
                                               THEN "found" ELSE "incompatible"
      BY <1>2 DEF ProbingHolds, Known, RequestFits, RunsFollow
    <2> QED
      BY <1>2, <2>1 DEF ProbingHolds, Known, RequestFits, RunsFollow
  <1>3. ASSUME BoundHolds(rs, k) PROVE BoundHolds(next, k)
    BY <1>3 DEF BoundHolds, Known, RequestFits, HasOwnRun, RunsFollow
  <1> QED
    BY <1>1, <1>2, <1>3 DEF CallHolds

\* A step is described by what it does to the runs, to the tokens and to the
\* one call it moves.
LEMMA StepKeeps ==
  ASSUME DispatchInv, NEW c \in Callers, NEW k,
         callOf' = [callOf EXCEPT ![c] = k], CallHolds(runs', k),
         RunsAreSound', RunsFollow(runs, runs'),
         \A t \in tokens' : t.run \in RunIds /\ t.inputs \in PublicInputs
  PROVE  DispatchInv'
  <1>1. ASSUME NEW d \in Callers PROVE CallHolds(runs', callOf'[d])
    <2>1. CASE d = c
      BY <2>1 DEF DispatchInv
    <2>2. CASE d # c
      <3>1. CallHolds(runs, callOf[d]) /\ callOf'[d] = callOf[d]
        BY <2>2 DEF DispatchInv
      <3> QED
        BY <3>1, HoldsOn
    <2> QED
      BY <2>1, <2>2
  <1>2. callOf' = [d \in Callers |-> callOf'[d]]
    BY DEF DispatchInv
  <1> QED
    BY <1>1, <1>2 DEF DispatchInv

\* A step that leaves the runs alone.
LEMMA QuietStepKeeps ==
  ASSUME DispatchInv, NEW c \in Callers, NEW k,
         callOf' = [callOf EXCEPT ![c] = k], CallHolds(runs, k), UNCHANGED runs,
         \A t \in tokens' : t.run \in RunIds /\ t.inputs \in PublicInputs
  PROVE  DispatchInv'
  <1>1. RunsFollow(runs, runs') /\ RunsAreSound' /\ CallHolds(runs', k)
    BY DEF RunsFollow, DispatchInv, RunsAreSound
  <1> QED
    BY <1>1, StepKeeps

\* The ways a call ends.
LEMMA EndKeeps ==
  ASSUME DispatchInv, NEW c \in Callers, NEW kind, EndsWith(c, kind), UNCHANGED runs,
         kind \notin Outcomes, kind \in {"incompatible", "not_found"} => ~callOf[c].existed
  PROVE  DispatchInv'
  <1> DEFINE k == [at |-> "idle", kind |-> kind, request |-> callOf[c].request,
                   existed |-> callOf[c].existed, candidates |-> 0]
  <1>1. callOf' = [callOf EXCEPT ![c] = k] /\ UNCHANGED tokens
    BY DEF EndsWith, Ends
  <1>2. CallHolds(runs, k)
    BY DEF CallHolds, AnsweredHolds
  <1> HIDE DEF k
  <1> QED
    BY <1>1, <1>2, QuietStepKeeps DEF DispatchInv

\* A run of its own that a call observes answers it.
LEMMA ObservedKeeps ==
  ASSUME DispatchInv, NEW c \in Callers, ObservedRun(c, Row(c)), UNCHANGED runs,
         RequestFits(callOf[c].request), HasOwnRun(runs, callOf[c]),
         callOf[c].request.op = "resume" => Row(c).answer = callOf[c].request.response
  PROVE  DispatchInv'
  <1> DEFINE row == Row(c)
             k == [at |-> "idle", kind |-> VerifiedKind(row), request |-> callOf[c].request,
                   existed |-> callOf[c].existed, candidates |-> row.candidates]
  <1>1. callOf' = [callOf EXCEPT ![c] = k]
    BY DEF ObservedRun, Ends
  <1>2. RunIsSound(row) /\ row.inputs = callOf[c].request.inputs
    BY DEF DispatchInv, RunsAreSound, RequestFits, HasOwnRun, Row
  <1>3. VerifiedKind(row) \notin {"incompatible", "not_found"}
    BY <1>2 DEF RunIsSound, RunRows, VerifiedKind
  <1>4. VerifiedKind(row) = "completed" => row.candidates <= row.inputs.ceiling
    <2>1. row.candidates \in Nat /\ row.inputs.ceiling \in Nat
      BY <1>2, InputsAssumption DEF RunIsSound, RunRows
    <2> QED
      BY <1>2, <2>1 DEF VerifiedKind
  <1>5. AnsweredHolds(runs, k)
    BY <1>2, <1>3, <1>4 DEF AnsweredHolds, HasOwnRun, Row
  <1>6. \A t \in tokens' : t.run \in RunIds /\ t.inputs \in PublicInputs
    BY <1>2 DEF ObservedRun, DispatchInv, RunIsSound, RunRows, RequestFits
  <1>7. CallHolds(runs, k)
    BY <1>5 DEF CallHolds
  <1> HIDE DEF k
  <1> QED
    BY <1>1, <1>6, <1>7, QuietStepKeeps

\* A start that found the run compares the inputs first.
LEMMA ObservedStartKeeps ==
  ASSUME DispatchInv, NEW c \in Callers, ObservedStart(c), UNCHANGED runs,
         BoundHolds(runs, callOf[c]), callOf[c].request.op = "start", Row(c) # NoRun
  PROVE  DispatchInv'
  <1>1. CASE Row(c).inputs = callOf[c].inputs
    <2>1. HasOwnRun(runs, callOf[c]) /\ RequestFits(callOf[c].request)
      BY <1>1 DEF BoundHolds, Known, HasOwnRun, Row
    <2> QED
      BY <1>1, <2>1, ObservedKeeps DEF ObservedStart
  <1>2. CASE Row(c).inputs # callOf[c].inputs
    BY <1>2, EndKeeps DEF ObservedStart, Outcomes
  <1> QED
    BY <1>1, <1>2

\* A resume that found the run answered compares the answer first.
LEMMA ObservedResumeKeeps ==
  ASSUME DispatchInv, NEW c \in Callers, ObservedResume(c), UNCHANGED runs,
         BoundHolds(runs, callOf[c]), HasOwnRun(runs, callOf[c])
  PROVE  DispatchInv'
  <1>1. CASE Row(c).answer = callOf[c].request.response
    BY <1>1, ObservedKeeps DEF ObservedResume, BoundHolds, Known
  <1>2. CASE Row(c).answer # callOf[c].request.response
    BY <1>2, EndKeeps DEF ObservedResume, Outcomes
  <1> QED
    BY <1>1, <1>2

\* A call that goes on keeps what it knows of its run.
LEMMA GotoKeeps ==
  ASSUME DispatchInv, NEW c \in Callers, NEW at \in {"engine", "drive", "observe"},
         Goto(c, at), BoundHolds(runs, callOf[c]), UNCHANGED tokens,
         RunsAreSound', RunsFollow(runs, runs'),
         at = "engine" /\ callOf[c].request.op = "start" => ~callOf[c].existed,
         (at = "engine" /\ callOf[c].request.op = "resume") \/ at \in {"drive", "observe"}
             => HasOwnRun(runs', callOf[c])
  PROVE  DispatchInv'
  <1> DEFINE k == [callOf[c] EXCEPT !.at = at]
  <1>1. callOf' = [callOf EXCEPT ![c] = k]
    BY DEF Goto
  <1>2. /\ k.at = at /\ k.request = callOf[c].request /\ k.existed = callOf[c].existed
        /\ k.bound = callOf[c].bound /\ k.inputs = callOf[c].inputs
        /\ k = [at |-> k.at, request |-> k.request, existed |-> k.existed, bound |-> k.bound,
                inputs |-> k.inputs]
    BY DEF BoundHolds
  <1> HIDE DEF k
  <1>3. BoundHolds(runs', k)
    BY <1>2 DEF BoundHolds, Known, RequestFits, HasOwnRun, RunsFollow
  <1>4. CallHolds(runs', k)
    BY <1>2, <1>3 DEF CallHolds
  <1> QED
    BY <1>1, <1>4, StepKeeps DEF DispatchInv
-----------------------------------------------------------------------------
\* No run and no call.
LEMMA InitHolds ==
  ASSUME DispatchInit
  PROVE  DispatchInv
  <1>1. \A c \in Callers : callOf[c].at = "idle" /\ callOf[c].kind = "none"
    BY DEF DispatchInit
  <1>2. \A c \in Callers : CallHolds(runs, callOf[c])
    BY <1>1 DEF CallHolds, AnsweredHolds, Outcomes
  <1> QED
    BY <1>2 DEF DispatchInv, DispatchInit, RunsAreSound

\* A call begins, and remembers whether its run was there.
LEMMA BeginKeeps ==
  ASSUME DispatchInv, NEW c \in Callers, NEW request, RequestFits(request), Begin(c, request)
  PROVE  DispatchInv'
  <1> DEFINE k == [at |-> "probe", request |-> request, probes |-> <<>>,
                   existed |-> runs[request.run] # NoRun]
  <1>1. /\ k.request = request /\ k.at = "probe" /\ k.probes = <<>>
        /\ k.existed = (runs[request.run] # NoRun)
        /\ k = [at |-> "probe", request |-> k.request, probes |-> k.probes, existed |-> k.existed]
    OBVIOUS
  <1>2. CallHolds(runs, k)
    <2> HIDE DEF k
    <2>1. Known(runs, k)
      BY <1>1 DEF Known
    <2>2. ProbingHolds(runs, k)
      BY <1>1, <2>1 DEF ProbingHolds
    <2> QED
      BY <1>1, <2>2 DEF CallHolds
  <1>3. callOf' = [callOf EXCEPT ![c] = k] /\ UNCHANGED <<runs, tokens>>
    BY DEF Begin
  <1> HIDE DEF k
  <1> QED
    BY <1>2, <1>3, QuietStepKeeps DEF DispatchInv

\* A probe sees what the run is, if it was there when the call began.
LEMMA ProbeKeeps ==
  ASSUME DispatchInv, NEW c \in Callers, ProbeBound(c)
  PROVE  DispatchInv'
  <1> DEFINE old == callOf[c]
             probes == Append(old.probes, Probe(BindingOrder[Len(old.probes) + 1], old.request.run))
             k == [old EXCEPT !.probes = probes]
  <1>1. ProbingHolds(runs, old)
    BY DEF DispatchInv, CallHolds, ProbeBound
  <1>2. callOf' = [callOf EXCEPT ![c] = k] /\ UNCHANGED <<runs, tokens>>
    BY DEF ProbeBound
  <1>3. k = [at |-> "probe", request |-> old.request, probes |-> probes, existed |-> old.existed]
    <2> HIDE DEF probes, old
    <2> QED
      BY <1>1 DEF ProbingHolds
  <1>4. /\ probes \in Seq({"not_found", "found", "incompatible"})
        /\ Len(probes) <= 2
        /\ \A i \in 1 .. Len(probes) :
              \/ i \in 1 .. Len(old.probes) /\ probes[i] = old.probes[i]
              \/ probes[i] = Probe(BindingOrder[i], old.request.run)
    BY <1>1 DEF ProbingHolds, ProbeBound, Probe
  <1>5. ProbingHolds(runs, k)
    <2> HIDE DEF probes
    <2>1. ASSUME NEW i \in 1 .. Len(probes)
          PROVE  /\ probes[i] = "found" => runs[old.request.run] # NoRun
                                           /\ runs[old.request.run].profile = BindingOrder[i]
                 /\ old.existed => probes[i] = IF runs[old.request.run].profile = BindingOrder[i]
                                              THEN "found" ELSE "incompatible"
      <3>1. CASE i \in 1 .. Len(old.probes) /\ probes[i] = old.probes[i]
        BY <1>1, <3>1 DEF ProbingHolds
      <3>2. CASE probes[i] = Probe(BindingOrder[i], old.request.run)
        BY <1>1, <3>2 DEF ProbingHolds, Known, Probe
      <3> QED
        BY <1>4, <3>1, <3>2
    <2> QED
      BY <1>1, <1>3, <1>4, <2>1 DEF ProbingHolds, Known
  <1>6. CallHolds(runs, k)
    BY <1>3, <1>5 DEF CallHolds
  <1> HIDE DEF k
  <1> QED
    BY <1>2, <1>6, QuietStepKeeps DEF DispatchInv

\* The owner is none, not told, or the profile of the run; a run that was there
\* at the beginning has one.
LEMMA OwnerIsFound ==
  ASSUME DispatchInv, NEW k, ProbingHolds(runs, k), Len(k.probes) = 2
  PROVE  LET owner == _locate_owner(k.probes)
         IN /\ owner \notin {"none", "incompatible"} =>
                  runs[k.request.run] # NoRun /\ runs[k.request.run].profile = owner
            /\ k.existed => owner \notin {"none", "incompatible"}
  <1> DEFINE probes == k.probes
             matches == {i \in DOMAIN probes : probes[i] = "found"}
             row == runs[k.request.run]
             owner == _locate_owner(probes)
  <1>1. DOMAIN probes = {1, 2}
    BY DEF ProbingHolds
  <1>2. \A i \in matches : row # NoRun /\ row.profile = BindingOrder[i]
    BY <1>1 DEF ProbingHolds
  <1>3. ASSUME NEW i \in matches, Cardinality(matches) <= 1 PROVE owner = BindingOrder[i]
    <2>1. (CHOOSE j \in matches : TRUE) \in matches
      OBVIOUS
    <2>2. BindingOrder[CHOOSE j \in matches : TRUE] = row.profile /\ BindingOrder[i] = row.profile
      BY <1>2, <2>1
    <2>3. ~(Cardinality(matches) > 1)
      <3>1. IsFiniteSet(1 .. 2)
        BY FS_Interval, 1 \in Int, 2 \in Int, Zenon
      <3>2. matches \subseteq 1 .. 2
        BY <1>1
      <3>3. Cardinality(matches) \in Nat
        BY <3>1, <3>2, FS_Subset, FS_CardinalityType
      <3> QED
        BY <1>3, <3>3
    <2> HIDE DEF matches
    <2>4. _locate_owner(probes) = BindingOrder[CHOOSE j \in matches : TRUE]
      BY <2>3, <1>3 DEF _locate_owner, matches
    <2> QED
      BY <2>2, <2>4
  <1>4. ASSUME k.existed
        PROVE  /\ \E i \in matches : matches = {i} /\ BindingOrder[i] \notin {"none", "incompatible"}
    <2>1. RunIsSound(row)
      BY <1>4 DEF ProbingHolds, Known, RequestFits, DispatchInv, RunsAreSound
    <2>2. row.profile \in {BindingOrder[1], BindingOrder[2]}
      BY <2>1 DEF RunIsSound, RunRows
    <2>3. \A i \in {1, 2} : i \in matches <=> row.profile = BindingOrder[i]
      BY <1>1, <1>4 DEF ProbingHolds
    <2>4. BindingOrder[1] # BindingOrder[2]
      BY BindingsAssumption DEF BindingsAreDistinct
    <2>5. matches \subseteq {1, 2}
      BY <1>1
    <2> HIDE DEF matches
    <2>6. matches = {1} \/ matches = {2}
      BY <2>2, <2>3, <2>4, <2>5
    <2> QED
      BY <2>6, AbsenceAssumption
  <1>5. k.existed => owner \notin {"none", "incompatible"}
    <2> SUFFICES ASSUME k.existed PROVE owner \notin {"none", "incompatible"}
      OBVIOUS
    <2>1. PICK i \in matches : matches = {i} /\ BindingOrder[i] \notin {"none", "incompatible"}
      BY <1>4
    <2>2. Cardinality(matches) <= 1
      BY <2>1, FS_Singleton
    <2> QED
      BY <1>3, <2>1, <2>2
  <1>6. ASSUME owner \notin {"none", "incompatible"}
        PROVE  row # NoRun /\ row.profile = owner
    <2>1. \E i \in matches : owner = BindingOrder[i]
      BY <1>6, <1>1 DEF _locate_owner
    <2> QED
      BY <2>1, <1>2
  <1> QED
    BY <1>5, <1>6

\* Binding a call under the profile of a receipt.
LEMMA GotoBoundKeeps ==
  ASSUME DispatchInv, NEW c \in Callers, NEW receipt, GotoBound(c, receipt),
         UNCHANGED <<runs, tokens>>, Known(runs, callOf[c]),
         callOf[c].request.op = "start" => receipt = callOf[c].request.inputs.receipt,
         callOf[c].existed => receipt.profile = runs[callOf[c].request.run].profile
  PROVE  DispatchInv'
  <1> DEFINE request == callOf[c].request
             inputs == [request.inputs EXCEPT !.receipt = receipt]
             k == [at |-> "inspect", request |-> request, existed |-> callOf[c].existed,
                   bound |-> receipt.profile, inputs |-> inputs]
  <1>1. callOf' = [callOf EXCEPT ![c] = k]
    BY DEF GotoBound
  <1>2. request.op = "start" => inputs = request.inputs
    <2>1. request.inputs = [ceiling |-> request.inputs.ceiling, receipt |-> request.inputs.receipt]
      BY InputsAssumption DEF Known, RequestFits
    <2> QED
      BY <2>1
  <1> HIDE DEF inputs
  <1>3. BoundHolds(runs, k)
    BY <1>2 DEF BoundHolds, Known
  <1>4. CallHolds(runs, k)
    BY <1>3 DEF CallHolds
  <1> HIDE DEF k
  <1> QED
    BY <1>1, <1>4, QuietStepKeeps DEF DispatchInv

\* The call goes to the owner that was found, or to the profile asked for.
LEMMA RouteKeeps ==
  ASSUME DispatchInv, NEW c \in Callers, Route(c)
  PROVE  DispatchInv'
  <1> DEFINE owner == _locate_owner(callOf[c].probes)
  <1>1. ProbingHolds(runs, callOf[c]) /\ Known(runs, callOf[c])
    BY DEF DispatchInv, CallHolds, Route, ProbingHolds
  <1>2. /\ owner \notin {"none", "incompatible"} => Row(c) # NoRun /\ Row(c).profile = owner
        /\ callOf[c].existed => owner \notin {"none", "incompatible"}
    BY <1>1, OwnerIsFound DEF Route, Row
  <1>3. Row(c) # NoRun => RunIsSound(Row(c))
    BY <1>1 DEF DispatchInv, RunsAreSound, Known, RequestFits, Row
  <1> HIDE DEF owner
  <1>4. CASE owner = "incompatible"
    <2>1. EndsWith(c, "incompatible") /\ UNCHANGED runs
      BY <1>4 DEF Route, owner
    <2> QED
      BY <1>2, <1>4, <2>1, EndKeeps DEF Outcomes
  <1>5. CASE owner = "none"
    <2>1. CASE callOf[c].request.op = "resume"
      <3>1. EndsWith(c, "not_found") /\ UNCHANGED runs
        BY <1>5, <2>1 DEF Route, owner
      <3> QED
        BY <1>2, <1>5, <3>1, EndKeeps DEF Outcomes
    <2>2. CASE callOf[c].request.op # "resume"
      <3>1. GotoBound(c, callOf[c].request.inputs.receipt) /\ UNCHANGED <<runs, tokens>>
        BY <1>5, <2>2 DEF Route, owner
      <3> QED
        BY <1>1, <1>2, <1>5, <3>1, GotoBoundKeeps
    <2> QED
      BY <2>1, <2>2
  <1>6. CASE owner \notin {"none", "incompatible"}
    <2>1. PersistedSelection(c, owner) /\ UNCHANGED runs
      BY <1>6 DEF Route, owner
    <2>2. Row(c).inputs.receipt.profile = owner
      BY <1>2, <1>3, <1>6 DEF RunIsSound
    <2>3. CASE EndsWith(c, "conflict")
      BY <2>1, <2>3, EndKeeps DEF Outcomes
    <2>4. CASE ~EndsWith(c, "conflict")
      <3>1. /\ GotoBound(c, Row(c).inputs.receipt) /\ UNCHANGED tokens
            /\ callOf[c].request.op = "start" =>
                  Row(c).inputs.receipt = callOf[c].request.inputs.receipt
        BY <2>1, <2>2, <2>4 DEF PersistedSelection
      <3> QED
        BY <1>1, <1>2, <1>6, <2>1, <2>2, <3>1, GotoBoundKeeps DEF Row
    <2> QED
      BY <2>3, <2>4
  <1> QED
    BY <1>4, <1>5, <1>6

\* The bound gateway inspects the run and compares the inputs.
LEMMA InspectKeeps ==
  ASSUME DispatchInv, NEW c \in Callers, InspectBound(c)
  PROVE  DispatchInv'
  <1> DEFINE probe == Probe(callOf[c].bound, callOf[c].request.run)
  <1>1. BoundHolds(runs, callOf[c]) /\ UNCHANGED runs
    BY DEF DispatchInv, CallHolds, InspectBound
  <1>2. RequestFits(callOf[c].request) /\ Known(runs, callOf[c])
    BY <1>1 DEF BoundHolds, Known
  <1>3. probe # "found" => ~callOf[c].existed
    BY <1>1, <1>2 DEF Probe, BoundHolds, Known
  <1>4. probe = "found" => Row(c) # NoRun
    BY DEF Probe, Row
  <1>5. RunsFollow(runs, runs') /\ RunsAreSound'
    BY <1>1 DEF RunsFollow, DispatchInv, RunsAreSound
  <1> HIDE DEF probe
  <1>6. CASE callOf[c].request.op = "start"
    <2>1. StartInspected(c, probe)
      BY <1>6 DEF InspectBound, probe
    <2>2. CASE probe = "incompatible" /\ EndsWith(c, "incompatible")
      BY <1>1, <1>3, <2>2, EndKeeps DEF Outcomes
    <2>3. CASE probe = "not_found" /\ Goto(c, "engine") /\ UNCHANGED tokens
      BY <1>1, <1>3, <1>5, <1>6, <2>3, GotoKeeps
    <2>4. CASE probe = "found" /\ ObservedStart(c)
      BY <1>1, <1>4, <1>6, <2>4, ObservedStartKeeps
    <2> QED
      BY <2>1, <2>2, <2>3, <2>4 DEF StartInspected
  <1>7. CASE callOf[c].request.op = "resume"
    <2>1. ResumeInspected(c, probe)
      BY <1>7 DEF InspectBound, probe
    <2>2. CASE probe \in {"incompatible", "not_found"} /\ EndsWith(c, probe)
      BY <1>1, <1>3, <2>2, EndKeeps DEF Outcomes
    <2>3. CASE EndsWith(c, "conflict")
      BY <1>1, <2>3, EndKeeps DEF Outcomes
    <2>4. CASE /\ probe = "found" /\ Row(c).inputs = callOf[c].request.inputs
               /\ \/ ObservedResume(c)
                  \/ Goto(c, "engine") /\ UNCHANGED tokens
      <3>1. HasOwnRun(runs, callOf[c]) /\ HasOwnRun(runs', callOf[c])
        BY <1>1, <1>4, <2>4 DEF HasOwnRun, Row
      <3>2. CASE ObservedResume(c)
        BY <1>1, <3>1, <3>2, ObservedResumeKeeps
      <3>3. CASE Goto(c, "engine") /\ UNCHANGED tokens
        BY <1>1, <1>5, <1>7, <3>1, <3>3, GotoKeeps
      <3> QED
        BY <2>4, <3>2, <3>3
    <2> QED
      BY <2>1, <2>2, <2>3, <2>4 DEF ResumeInspected
  <1> QED
    BY <1>2, <1>6, <1>7 DEF RequestFits

\* The engine creates the run once.
LEMMA ExecuteKeeps ==
  ASSUME DispatchInv, NEW c \in Callers, Execute(c)
  PROVE  DispatchInv'
  <1> DEFINE request == callOf[c].request
             row == [profile |-> callOf[c].bound, inputs |-> callOf[c].inputs,
                     status |-> "running", answer |-> NoAnswer, candidates |-> 0]
  <1>1. BoundHolds(runs, callOf[c]) /\ request.op = "start" /\ ~callOf[c].existed
    BY DEF DispatchInv, CallHolds, BoundHolds, Execute
  <1>2. RequestFits(request) /\ callOf[c].inputs = request.inputs
        /\ callOf[c].bound = request.inputs.receipt.profile
    BY <1>1 DEF BoundHolds, Known
  <1>3. CASE Row(c) = NoRun
    <2>1. runs' = [runs EXCEPT ![request.run] = row] /\ Goto(c, "drive") /\ UNCHANGED tokens
      BY <1>3 DEF Execute
    <2>2. RunIsSound(row)
      BY <1>2, BindingsAssumption, InputsAssumption
      DEF RunIsSound, RunRows, RequestFits, BindingsAreDistinct
    <2>3. row.inputs = request.inputs /\ row # NoRun
      BY <1>2, <2>2, AbsenceAssumption DEF RunIsSound
    <2> HIDE DEF row
    <2>4. RunsAreSound' /\ runs'[request.run] = row
      BY <1>2, <2>1, <2>2 DEF DispatchInv, RunsAreSound, RequestFits
    <2>5. RunsFollow(runs, runs')
      BY <1>3, <2>1 DEF RunsFollow, DispatchInv, RunsAreSound, Row
    <2>6. HasOwnRun(runs', callOf[c])
      BY <2>3, <2>4 DEF HasOwnRun
    <2> QED
      BY <1>1, <2>1, <2>4, <2>5, <2>6, GotoKeeps
  <1>4. CASE Row(c) # NoRun
    <2>1. UNCHANGED runs
      BY <1>4 DEF Execute
    <2>2. CASE EndsWith(c, "incompatible") \/ EndsWith(c, "stale")
      BY <1>1, <2>1, <2>2, EndKeeps DEF Outcomes
    <2>3. CASE ObservedStart(c)
      BY <1>1, <1>4, <2>1, <2>3, ObservedStartKeeps
    <2> QED
      BY <1>4, <2>2, <2>3 DEF Execute
  <1> QED
    BY <1>3, <1>4

\* The engine takes one answer.
LEMMA EngineResumeKeeps ==
  ASSUME DispatchInv, NEW c \in Callers, EngineResume(c)
  PROVE  DispatchInv'
  <1> DEFINE request == callOf[c].request
             answered == [runs[request.run] EXCEPT !.status = "running",
                                                   !.answer = request.response]
  <1>1. BoundHolds(runs, callOf[c]) /\ request.op = "resume" /\ HasOwnRun(runs, callOf[c])
    BY DEF DispatchInv, CallHolds, BoundHolds, EngineResume
  <1>2. RequestFits(request) /\ RunIsSound(Row(c))
    BY <1>1 DEF BoundHolds, Known, HasOwnRun, RequestFits, DispatchInv, RunsAreSound, Row
  <1>3. CASE /\ Row(c).status = "suspended" /\ Goto(c, "drive") /\ UNCHANGED tokens
             /\ runs' = [runs EXCEPT ![request.run].status = "running",
                                     ![request.run].answer = request.response]
    <2>1. answered \in RunRows /\ answered.profile = Row(c).profile
          /\ answered.inputs = Row(c).inputs /\ answered.status = "running"
      BY <1>1, <1>2 DEF RunIsSound, RunRows, RequestFits, Row
    <2>2. runs' = [runs EXCEPT ![request.run] = answered]
      BY <1>2, <1>3 DEF RequestFits, DispatchInv, RunsAreSound
    <2> HIDE DEF answered
    <2>3. RunIsSound(answered) /\ answered # NoRun
      BY <1>2, <2>1, AbsenceAssumption DEF RunIsSound
    <2>4. RunsAreSound' /\ runs'[request.run] = answered
      BY <1>2, <2>2, <2>3 DEF DispatchInv, RunsAreSound, RequestFits
    <2>5. RunsFollow(runs, runs')
      <3>1. Row(c).answer = NoAnswer
        BY <1>2, <1>3 DEF RunIsSound
      <3> QED
        BY <2>1, <2>2, <2>3, <3>1 DEF RunsFollow, DispatchInv, RunsAreSound, Row
    <2>6. HasOwnRun(runs', callOf[c])
      BY <1>1, <2>1, <2>3, <2>4 DEF HasOwnRun, Row
    <2> QED
      BY <1>1, <1>3, <2>4, <2>5, <2>6, GotoKeeps
  <1>4. CASE EndsWith(c, "stale") /\ UNCHANGED runs
    BY <1>4, EndKeeps DEF Outcomes
  <1>5. CASE ObservedResume(c) /\ UNCHANGED runs
    BY <1>1, <1>5, ObservedResumeKeeps
  <1> QED
    BY <1>3, <1>4, <1>5 DEF EngineResume

\* The driven run keeps its profile, its inputs and its answer.
LEMMA DriveKeeps ==
  ASSUME DispatchInv, NEW c \in Callers, DriveOwn(c)
  PROVE  DispatchInv'
  <1> DEFINE request == callOf[c].request
  <1>1. BoundHolds(runs, callOf[c]) /\ HasOwnRun(runs, callOf[c])
    BY DEF DispatchInv, CallHolds, BoundHolds, DriveOwn
  <1>2. RequestFits(request) /\ RunIsSound(Row(c))
    BY <1>1 DEF BoundHolds, Known, HasOwnRun, RequestFits, DispatchInv, RunsAreSound, Row
  <1>3. PICK status \in {"suspended", "completed", "failed", "cancelled", "terminated"},
             n \in 0 .. MaxCandidates :
          /\ status = "suspended" => Row(c).answer = NoAnswer
          /\ runs' = [runs EXCEPT ![request.run].status = status,
                                  ![request.run].candidates = n]
    BY DEF DriveOwn
  <1> DEFINE driven == [runs[request.run] EXCEPT !.status = status, !.candidates = n]
  <1>4. driven \in RunRows /\ driven.profile = Row(c).profile /\ driven.inputs = Row(c).inputs
        /\ driven.status = status /\ driven.answer = Row(c).answer
    BY <1>2 DEF RunIsSound, RunRows, RequestFits, Row
  <1>5. runs' = [runs EXCEPT ![request.run] = driven]
    BY <1>2, <1>3 DEF RequestFits, DispatchInv, RunsAreSound
  <1> HIDE DEF driven
  <1>6. RunIsSound(driven) /\ driven # NoRun
    BY <1>2, <1>3, <1>4, AbsenceAssumption DEF RunIsSound
  <1>7. RunsAreSound' /\ runs'[request.run] = driven
    BY <1>2, <1>5, <1>6 DEF DispatchInv, RunsAreSound, RequestFits
  <1>8. RunsFollow(runs, runs')
    BY <1>4, <1>5, <1>6 DEF RunsFollow, DispatchInv, RunsAreSound, Row
  <1>9. HasOwnRun(runs', callOf[c])
    BY <1>1, <1>4, <1>6, <1>7 DEF HasOwnRun, Row
  <1> QED
    BY <1>1, <1>7, <1>8, <1>9, GotoKeeps DEF DriveOwn

\* A call reports the run it has driven.
LEMMA ObserveOwnKeeps ==
  ASSUME DispatchInv, NEW c \in Callers, ObserveOwn(c)
  PROVE  DispatchInv'
  <1>1. /\ BoundHolds(runs, callOf[c]) /\ HasOwnRun(runs, callOf[c])
        /\ RequestFits(callOf[c].request) /\ UNCHANGED runs
    BY DEF DispatchInv, CallHolds, BoundHolds, Known, ObserveOwn
  <1>2. CASE callOf[c].request.op = "start"
    BY <1>1, <1>2, ObservedKeeps DEF ObserveOwn
  <1>3. CASE callOf[c].request.op # "start"
    BY <1>1, <1>3, ObservedResumeKeeps DEF ObserveOwn
  <1> QED
    BY <1>2, <1>3
-----------------------------------------------------------------------------
\* Every step keeps the invariant.
LEMMA NextHolds ==
  ASSUME DispatchInv, [DispatchNext]_dispatchVars
  PROVE  DispatchInv'
  <1>1. ASSUME NEW c \in Callers, NEW r \in RunIds, NEW i \in PublicInputs,
               DispatchStart(c, r, i)
        PROVE  DispatchInv'
    <2>1. RequestFits([op |-> "start", run |-> r, inputs |-> i, response |-> NoAnswer])
      BY DEF RequestFits
    <2> QED
      BY <1>1, <2>1, BeginKeeps DEF DispatchStart
  <1>2. ASSUME NEW c \in Callers, NEW t \in tokens, NEW a \in Responses,
               DispatchResume(c, t, a)
        PROVE  DispatchInv'
    <2>1. RequestFits([op |-> "resume", run |-> t.run, inputs |-> t.inputs, response |-> a])
      BY DEF RequestFits, DispatchInv
    <2> QED
      BY <1>2, <2>1, BeginKeeps DEF DispatchResume
  <1>3. ASSUME NEW c \in Callers, CallerCrash(c) PROVE DispatchInv'
    BY <1>3, EndKeeps DEF CallerCrash, Outcomes
  <1>4. CASE UNCHANGED dispatchVars
    BY <1>4 DEF dispatchVars, DispatchInv, RunsAreSound
  <1> QED
    BY <1>1, <1>2, <1>3, <1>4, ProbeKeeps, RouteKeeps, InspectKeeps, ExecuteKeeps,
       EngineResumeKeeps, DriveKeeps, ObserveOwnKeeps DEF DispatchNext

\* Whatever the callers, their selections and their interleaving: the outcome a
\* caller of FlashcardCapabilityDispatcher gets is that of a run with its own
\* inputs, profile and answer, within its ceiling; and a run that was there when
\* the call began is never reported as unknown or as matching no definition.
THEOREM DispatchHolds == DispatchSpec => []DispatchIsTrue
  <1>1. DispatchInit => DispatchInv
    BY InitHolds
  <1>2. DispatchInv /\ [DispatchNext]_dispatchVars => DispatchInv'
    BY NextHolds
  <1>3. DispatchInv => DispatchIsTrue
    BY InvAnswers
  <1> QED
    BY <1>1, <1>2, <1>3, PTL DEF DispatchSpec
=============================================================================

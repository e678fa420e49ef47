---------------------- MODULE PersistentSupervisor_proofs ----------------------
(***************************************************************************)
(* The fencing, ownership and event properties of the persistent           *)
(* supervisor for any number of processes, identities, requests, workers,  *)
(* sources and generations.                                                *)
(***************************************************************************)
EXTENDS PersistentSupervisor, TLAPS

\* The watermark of a source is not below any event that was accepted.
WatermarkInv ==
  \A s \in Sources, n \in 0..MaxSequence : identity[s][n] # NoEvent => n <= watermark[s]

Inv == TypeOK /\ LeaseInv /\ ActiveHasOwner /\ WatermarkInv

LEMMA InitInv == Init => Inv
<1> SUFFICES ASSUME Init PROVE Inv
  OBVIOUS
<1> USE SupervisorAssumption DEF Init, NoTxn, NoOwner
<1>1. TypeOK
  <2>1. /\ generation \in 0..MaxGeneration
        /\ active \in BOOLEAN
        /\ holder \in Holders \cup {NoHolder}
        /\ mode \in Modes
        /\ sweeps \subseteq Sweeps
    <3>1. generation \in 0..MaxGeneration
      OBVIOUS
    <3>2. active \in BOOLEAN /\ holder \in Holders \cup {NoHolder} /\ sweeps \subseteq Sweeps
      BY Zenon
    <3>3. mode \in Modes
      BY DEF Modes
    <3> QED BY <3>1, <3>2, <3>3
  <2>2. watermark \in [Sources -> -1..MaxSequence]
    OBVIOUS
  <2>3. identity \in [Sources -> [0..MaxSequence -> Events \cup {NoEvent}]]
    OBVIOUS
  <2>4. txn \in [Dispatches -> [phase : Phases \cup {"NONE"}, gen : 0..MaxGeneration,
                                worker : Workers \cup {NoWorker}]]
    OBVIOUS
  <2>5. owner \in [Dispatches -> [worker : Workers \cup {NoWorker}, gen : 0..MaxGeneration,
                                  beats : 0..MaxBeats, auth : BOOLEAN]]
    OBVIOUS
  <2>6. attempts \in [Providers -> 0..MaxAttempts] /\ lease \in [Procs -> 0..MaxGeneration]
    OBVIOUS
  <2> QED BY <2>1, <2>2, <2>3, <2>4, <2>5, <2>6 DEF TypeOK
<1>2. LeaseInv
  BY DEF LeaseInv
<1>3. ActiveHasOwner
  BY DEF ActiveHasOwner, Active
<1>4. WatermarkInv
  BY DEF WatermarkInv
<1> QED BY <1>1, <1>2, <1>3, <1>4 DEF Inv

\* What a transition of one dispatch writes.
LEMMA SetTxnType ==
  ASSUME TypeOK, NEW d \in Dispatches, NEW phase \in Phases, NEW w \in Workers \cup {NoWorker},
         SetTxn(d, phase, w)
  PROVE  /\ txn' \in [Dispatches -> [phase : Phases \cup {"NONE"}, gen : 0..MaxGeneration,
                                     worker : Workers \cup {NoWorker}]]
         /\ txn'[d].phase = phase /\ txn'[d].worker = w /\ txn'[d].gen = txn[d].gen
         /\ \A e \in Dispatches \ {d} : txn'[e] = txn[e]
  BY DEF SetTxn, TypeOK

\* Leases, events, sweeps, backoff and modes leave the dispatches alone.
LEMMA OtherSteps ==
  ASSUME Inv,
         \/ \E p \in Procs : Leases(p)
         \/ \E m \in Modes : SetQuiescence(m)
         \/ Ledgers
  PROVE  Inv' /\ UNCHANGED <<txn, owner>>
<1> USE SupervisorAssumption DEF Inv
<1>1. ASSUME NEW p \in Procs, Grant(p) PROVE Inv' /\ UNCHANGED <<txn, owner>>
  <2> USE <1>1 DEF Grant, NextGeneration, ledger
  <2>1. TypeOK'
    BY DEF TypeOK
  <2>2. LeaseInv'
    BY DEF LeaseInv, TypeOK
  <2>3. ActiveHasOwner' /\ WatermarkInv'
    BY DEF ActiveHasOwner, WatermarkInv
  <2> QED BY <2>1, <2>2, <2>3
<1>2. ASSUME NEW p \in Procs, ReleaseLease(p) PROVE Inv' /\ UNCHANGED <<txn, owner>>
  <2> USE <1>2 DEF ReleaseLease, ledger
  <2>1. TypeOK'
    BY DEF TypeOK
  <2>2. LeaseInv' /\ ActiveHasOwner' /\ WatermarkInv'
    BY DEF LeaseInv, ActiveHasOwner, WatermarkInv
  <2> QED BY <2>1, <2>2
<1>7. ASSUME NEW p \in Procs, Restart(p) PROVE Inv' /\ UNCHANGED <<txn, owner>>
  <2> USE <1>7 DEF Restart, ledger
  <2>1. TypeOK'
    <3>1. 0 \in 0..MaxGeneration
      OBVIOUS
    <3>2. lease' \in [Procs -> 0..MaxGeneration]
      BY <3>1 DEF TypeOK
    <3> QED BY <3>2 DEF TypeOK
  <2>2. LeaseInv'
    <3>1. lease' \in [Procs -> 0..MaxGeneration] /\ lease'[p] = 0
      BY <2>1 DEF TypeOK
    <3>2. \A q \in Procs \ {p} : lease'[q] = lease[q]
      BY DEF TypeOK
    <3>3. generation \in Nat /\ generation' = generation
      BY DEF TypeOK
    <3> QED BY <3>1, <3>2, <3>3 DEF LeaseInv
  <2>3. ActiveHasOwner' /\ WatermarkInv'
    BY DEF ActiveHasOwner, WatermarkInv
  <2> QED BY <2>1, <2>2, <2>3
<1>3. ASSUME NEW m \in Modes, SetQuiescence(m) PROVE Inv' /\ UNCHANGED <<txn, owner>>
  BY <1>3 DEF SetQuiescence, leasing, ledger, TypeOK, LeaseInv, ActiveHasOwner, WatermarkInv
<1>4. ASSUME NEW s \in Sources, NEW n \in 0..MaxSequence, NEW e \in Events, IngestEvent(s, n, e)
      PROVE  Inv' /\ UNCHANGED <<txn, owner>>
  <2> USE <1>4 DEF IngestEvent, leasing
  <2>1. TypeOK'
    BY DEF TypeOK
  <2>2. LeaseInv' /\ ActiveHasOwner'
    BY DEF LeaseInv, ActiveHasOwner
  <2>3. WatermarkInv'
    BY DEF WatermarkInv, TypeOK
  <2> QED BY <2>1, <2>2, <2>3
<1>5. ASSUME NEW p \in Procs, NEW i \in Sweeps, ReferenceSweep(p, i)
      PROVE  Inv' /\ UNCHANGED <<txn, owner>>
  BY <1>5 DEF ReferenceSweep, leasing, TypeOK, LeaseInv, ActiveHasOwner, WatermarkInv
<1>6. ASSUME NEW v \in Providers, NEW n \in 0..MaxAttempts, BackoffForAttempt(v, n)
      PROVE  Inv' /\ UNCHANGED <<txn, owner>>
  BY <1>6 DEF BackoffForAttempt, leasing, TypeOK, LeaseInv, ActiveHasOwner, WatermarkInv
<1> QED
  BY <1>1, <1>2, <1>3, <1>4, <1>5, <1>6, <1>7 DEF Leases, Ledgers, AcquireLease, ReclaimLease

TxnType == [phase : Phases \cup {"NONE"}, gen : 0..MaxGeneration, worker : Workers \cup {NoWorker}]
OwnerType == [worker : Workers \cup {NoWorker}, gen : 0..MaxGeneration, beats : 0..MaxBeats,
              auth : BOOLEAN]

\* What a transition of one dispatch must satisfy: the dispatch keeps its owner in step
\* with its phase, authority is not passed on, and the fence is respected.
Respects(d) ==
  /\ txn'[d] \in TxnType /\ owner'[d] \in OwnerType
  /\ txn'[d].phase \in Active => owner'[d].auth /\ owner'[d].worker = txn'[d].worker
  /\ owner[d].auth /\ owner'[d].auth => owner'[d].worker = owner[d].worker
  /\ owner'[d].auth /\ ~owner[d].auth => owner'[d].gen = generation
  /\ owner'[d].beats > owner[d].beats => owner[d].gen = generation
  /\ /\ txn'[d] # txn[d]
     /\ txn[d].phase # "DISPATCH_UNKNOWN" /\ txn'[d].phase \in Terminal
     => owner[d].auth /\ owner[d].gen = generation

Only(d) ==
  /\ txn' \in [Dispatches -> TxnType] /\ owner' \in [Dispatches -> OwnerType]
  /\ \A e \in Dispatches \ {d} : txn'[e] = txn[e] /\ owner'[e] = owner[e]
  /\ UNCHANGED <<leasing, mode, ledger>>

\* A step that changes one dispatch, and that dispatch properly, keeps everything.
LEMMA OneDispatch ==
  ASSUME Inv, NEW d \in Dispatches, Respects(d), Only(d)
  PROVE  Inv' /\ OwnerStep /\ FencedStep
<1> USE DEF Respects, Only
<1>1. TypeOK'
  BY DEF Inv, TypeOK, leasing, ledger, TxnType, OwnerType
<1>2. LeaseInv' /\ WatermarkInv'
  BY DEF Inv, LeaseInv, WatermarkInv, leasing, ledger
<1>3. ActiveHasOwner'
  BY DEF Inv, ActiveHasOwner
<1>4. \A e \in Dispatches : owner[e].beats \in Nat
  BY SupervisorAssumption DEF Inv, TypeOK
<1>5. OwnerStep
  BY DEF OwnerStep
<1>6. FencedStep
  BY <1>4 DEF FencedStep
<1> QED BY <1>1, <1>2, <1>3, <1>5, <1>6 DEF Inv

\* The lease of the caller is the current one.
LEMMA ValidLease ==
  ASSUME Inv, NEW p \in Procs, Valid(p)
  PROVE  lease[p] = generation /\ lease[p] \in 0..MaxGeneration
BY DEF Valid, Inv, TypeOK

\* What a transition that only moves the phase writes.
LEMMA PhaseStep ==
  ASSUME Inv, NEW d \in Dispatches, NEW phase \in Phases, NEW w \in Workers \cup {NoWorker},
         SetTxn(d, phase, w), UNCHANGED <<leasing, mode, ledger, owner>>,
         phase \in Active => owner[d].auth /\ owner[d].worker = w,
         phase \in Terminal /\ txn[d].phase # "DISPATCH_UNKNOWN" =>
           owner[d].auth /\ owner[d].gen = generation
  PROVE  Inv' /\ OwnerStep /\ FencedStep
<1>1. TypeOK /\ owner' = owner
  BY DEF Inv
<1>2. owner[d].beats \in Nat /\ owner[d] \in OwnerType
  BY SupervisorAssumption DEF Inv, TypeOK, OwnerType
<1>3. Only(d)
  BY <1>1, SetTxnType DEF Only, TypeOK, TxnType, OwnerType
<1>4. Respects(d)
  <2>1. txn'[d] \in TxnType /\ txn'[d].phase = phase /\ txn'[d].worker = w
    BY <1>1, SetTxnType DEF TxnType
  <2> QED BY <1>1, <1>2, <2>1 DEF Respects
<1> QED BY <1>3, <1>4, OneDispatch

\* What a transition that writes the ownership record writes.
LEMMA OwnershipStep ==
  ASSUME Inv, NEW d \in Dispatches, NEW phase \in Phases, NEW w \in Workers \cup {NoWorker},
         NEW o \in OwnerType,
         SetTxn(d, phase, w), owner' = [owner EXCEPT ![d] = o],
         UNCHANGED <<leasing, mode, ledger>>,
         phase \notin Terminal,
         phase \in Active => o.auth /\ o.worker = w,
         o.auth => (owner[d].auth => o.worker = owner[d].worker),
         o.auth => o.gen = generation,
         o.beats <= owner[d].beats
  PROVE  Inv' /\ OwnerStep /\ FencedStep
<1>1. TypeOK
  BY DEF Inv
<1>2. owner[d].beats \in Nat /\ o.beats \in Nat
  BY <1>1, SupervisorAssumption DEF TypeOK, OwnerType
<1>3. owner' \in [Dispatches -> OwnerType] /\ owner'[d] = o
  BY <1>1 DEF TypeOK, OwnerType
<1>4. \A e \in Dispatches \ {d} : owner'[e] = owner[e]
  BY <1>1 DEF TypeOK
<1>5. Only(d)
  BY <1>1, <1>3, <1>4, SetTxnType DEF Only, TxnType
<1>6. Respects(d)
  <2>1. txn'[d] \in TxnType /\ txn'[d].phase = phase /\ txn'[d].worker = w
    BY <1>1, SetTxnType DEF TxnType
  <2>2. ~(owner'[d].beats > owner[d].beats)
    BY <1>2, <1>3
  <2> QED BY <1>3, <2>1, <2>2 DEF Respects
<1> QED BY <1>5, <1>6, OneDispatch

\* A dispatch gets its transaction.
LEMMA IntentStep ==
  ASSUME Inv, NEW p \in Procs, NEW r \in Requests, NEW g \in Generations,
         PersistDispatchIntent(p, r, g)
  PROVE  Inv' /\ OwnerStep /\ FencedStep
<1> DEFINE d == <<r, g>>
           t == [phase |-> "INTENT_PERSISTED", gen |-> g, worker |-> NoWorker]
<1>1. d \in Dispatches /\ t \in TxnType
  BY SupervisorAssumption DEF Dispatches, Generations, TxnType, Phases
<1>2. TypeOK /\ txn' = [txn EXCEPT ![d] = t] /\ UNCHANGED <<leasing, mode, ledger, owner>>
  BY DEF Inv, PersistDispatchIntent
<1> HIDE DEF d
<1>3. /\ txn' \in [Dispatches -> TxnType] /\ txn'[d] = t
      /\ \A e \in Dispatches \ {d} : txn'[e] = txn[e]
  BY <1>1, <1>2 DEF TypeOK, TxnType
<1>4. Only(d)
  BY <1>2, <1>3 DEF Only, TypeOK, OwnerType
<1>5. owner[d] \in OwnerType /\ owner[d].beats \in Nat
  BY <1>1, <1>2, SupervisorAssumption DEF TypeOK, OwnerType
<1>6. Respects(d)
  BY <1>1, <1>2, <1>3, <1>5 DEF Respects, Active, Terminal
<1> QED BY <1>1, <1>4, <1>6, OneDispatch

\* Every transition of a dispatch keeps the invariant, hands no authority on and
\* respects the fence.
LEMMA TransitionStep ==
  ASSUME Inv, NEW p \in Procs, NEW d \in Dispatches, Transitions(p, d)
  PROVE  Inv' /\ OwnerStep /\ FencedStep
<1> DEFINE Goal == Inv' /\ OwnerStep /\ FencedStep
<1>t. /\ txn[d].worker \in Workers \cup {NoWorker}
      /\ owner[d] \in OwnerType
      /\ owner[d].beats \in 0..MaxBeats /\ owner[d].worker \in Workers \cup {NoWorker}
      /\ owner[d].gen \in 0..MaxGeneration
  BY DEF Inv, TypeOK, OwnerType
<1>a. txn[d].phase \in Active => owner[d].auth /\ owner[d].worker = txn[d].worker
  BY DEF Inv, ActiveHasOwner
<1> USE DEF Phases, Active, Terminal
<1>1. CASE MarkUnknownStart(p, d)
  BY <1>1, <1>t, PhaseStep DEF MarkUnknownStart
<1>2. CASE MarkRunning(p, d)
  BY <1>2, <1>t, <1>a, PhaseStep DEF MarkRunning, Startable
<1>3. CASE ReconcileNoStart(p, d)
  BY <1>3, PhaseStep DEF ReconcileNoStart
<1>4. ASSUME NEW w \in Workers, AcknowledgeStart(p, d, w) PROVE Goal
  <2>1. lease[p] = generation /\ lease[p] \in 0..MaxGeneration
    BY <1>4, ValidLease DEF AcknowledgeStart
  <2>2. Owned(w, lease[p], 0) \in OwnerType
    BY <2>1, SupervisorAssumption DEF Owned, OwnerType
  <2>3. 0 <= owner[d].beats
    BY <1>t
  <2> QED BY <1>4, <2>1, <2>2, <2>3, OwnershipStep DEF AcknowledgeStart, Unowned, Owned
<1>5. ASSUME NEW w \in Workers, Heartbeat(p, d, w) PROVE Goal
  <2>1. lease[p] = generation
    BY <1>5, ValidLease DEF Heartbeat
  <2> DEFINE o == [owner[d] EXCEPT !.beats = @ + 1]
  <2>2. o \in OwnerType /\ o.auth = owner[d].auth /\ o.worker = owner[d].worker
    <3>1. owner[d].beats + 1 \in 0..MaxBeats
      BY <1>5, <1>t, SupervisorAssumption DEF Heartbeat
    <3>2. o \in OwnerType
      BY <1>t, <3>1 DEF OwnerType
    <3>3. o.auth = owner[d].auth /\ o.worker = owner[d].worker
      BY <1>t DEF OwnerType
    <3> QED BY <3>2, <3>3
  <2>3. owner' = [owner EXCEPT ![d] = o] /\ UNCHANGED <<leasing, mode, ledger, txn>>
    BY <1>5 DEF Heartbeat
  <2> HIDE DEF o
  <2>4. Only(d) /\ owner'[d] = o
    BY <2>2, <2>3 DEF Only, Inv, TypeOK, TxnType, OwnerType
  <2>5. Respects(d)
    <3>1. txn'[d] = txn[d] /\ txn[d] \in TxnType
      BY <2>3 DEF Inv, TypeOK, TxnType
    <3> QED BY <1>5, <1>a, <2>1, <2>2, <2>4, <3>1 DEF Respects, Heartbeat
  <2> QED BY <2>4, <2>5, OneDispatch
<1>6. ASSUME NEW w \in Workers, MarkWorkerLost(p, d, w) PROVE Goal
  <2> DEFINE o == [owner[d] EXCEPT !.auth = FALSE]
  <2>1. o \in OwnerType /\ ~o.auth /\ o.beats <= owner[d].beats
    <3>1. o \in OwnerType
      BY <1>t DEF OwnerType
    <3>2. ~o.auth
      BY <1>t DEF OwnerType
    <3>3. o.beats <= owner[d].beats
      BY <1>t, SupervisorAssumption DEF OwnerType
    <3> QED BY <3>1, <3>2, <3>3
  <2>2. owner' = [owner EXCEPT ![d] = o]
    BY <1>6 DEF MarkWorkerLost
  <2> HIDE DEF o
  <2>3. /\ SetTxn(d, "DISPATCH_UNKNOWN", txn[d].worker) /\ UNCHANGED <<leasing, mode, ledger>>
        /\ "DISPATCH_UNKNOWN" \in Phases \ (Active \cup Terminal)
    BY <1>6 DEF MarkWorkerLost
  <2> QED BY <1>t, <2>1, <2>2, <2>3, OwnershipStep
<1>7. ASSUME NEW w \in Workers, NEW phase \in Active, ReconcileActive(p, d, phase, w) PROVE Goal
  <2>1. lease[p] = generation /\ lease[p] \in 0..MaxGeneration
    BY <1>7, ValidLease DEF ReconcileActive
  <2> DEFINE o == Owned(w, lease[p], owner[d].beats)
  <2>2. /\ o \in OwnerType /\ o.auth /\ o.worker = w /\ o.gen = generation
        /\ o.beats <= owner[d].beats
    BY <1>t, <2>1 DEF Owned, OwnerType
  <2>3. owner' = [owner EXCEPT ![d] = o]
    BY <1>7 DEF ReconcileActive
  <2> HIDE DEF o
  <2> QED BY <1>7, <2>2, <2>3, OwnershipStep DEF ReconcileActive
<1>8. ASSUME NEW w \in Workers, NEW success \in BOOLEAN, Complete(p, d, w, success) PROVE Goal
  <2>1. lease[p] = generation
    BY <1>8, ValidLease DEF Complete
  <2> QED BY <1>8, <2>1, PhaseStep DEF Complete
<1>9. ASSUME NEW w \in Workers \cup {NoWorker}, NEW phase \in Terminal,
             ReconcileTerminal(p, d, phase, w)
      PROVE  Goal
  <2> DEFINE v == IF w = NoWorker THEN txn[d].worker ELSE w
  <2>1. v \in Workers \cup {NoWorker} /\ SetTxn(d, phase, v)
    BY <1>9, <1>t DEF ReconcileTerminal
  <2> HIDE DEF v
  <2> QED BY <1>9, <2>1, PhaseStep DEF ReconcileTerminal
<1> QED
  BY <1>1, <1>2, <1>3, <1>4, <1>5, <1>6, <1>7, <1>8, <1>9 DEF Transitions

\* A step that leaves the dispatches alone hands nothing on and breaks no fence.
LEMMA IdleStep ==
  ASSUME Inv, UNCHANGED <<txn, owner>>
  PROVE  OwnerStep /\ FencedStep
<1>1. \A d \in Dispatches : owner[d].beats \in Nat
  BY SupervisorAssumption DEF Inv, TypeOK
<1> QED BY <1>1 DEF OwnerStep, FencedStep

LEMMA StepInv == Inv /\ [Next]_vars => Inv' /\ OwnerStep /\ FencedStep
<1> SUFFICES ASSUME Inv, [Next]_vars PROVE Inv' /\ OwnerStep /\ FencedStep
  OBVIOUS
<1>1. CASE UNCHANGED vars
  <2>1. Inv'
    BY <1>1 DEF vars, leasing, ledger, Inv, TypeOK, LeaseInv, ActiveHasOwner, WatermarkInv
  <2> QED BY <1>1, <2>1, IdleStep DEF vars
<1>2. CASE \/ \E p \in Procs : Leases(p)
           \/ \E m \in Modes : SetQuiescence(m)
           \/ Ledgers
  BY <1>2, OtherSteps, IdleStep
<1>3. CASE \E p \in Procs, r \in Requests, g \in Generations : PersistDispatchIntent(p, r, g)
  BY <1>3, IntentStep
<1>4. CASE \E p \in Procs, d \in Dispatches : Transitions(p, d)
  BY <1>4, TransitionStep
<1> QED BY <1>1, <1>2, <1>3, <1>4 DEF Next

LEMMA InvHolds == Spec => []Inv
BY InitInv, StepInv, PTL DEF Spec

\* The durable state keeps the shape to_payload writes.
THEOREM TypeCorrect == Spec => []TypeOK
BY InvHolds, PTL DEF Inv

\* No two processes are given one generation, and none is ahead of the durable one.
THEOREM FencingInvariant == Spec => []LeaseInv
BY InvHolds, PTL DEF Inv

\* At most one process passes validate_lease, whatever leases were reclaimed.
THEOREM OneSupervisorAtATime == Spec => []OneSupervisor
<1>1. Inv => OneSupervisor
  BY DEF Inv, LeaseInv, OneSupervisor, Valid
<1> QED BY <1>1, InvHolds, PTL

\* A started or running dispatch has the authoritative owner its transaction names.
THEOREM StartedHasOwner == Spec => []ActiveHasOwner
BY InvHolds, PTL DEF Inv

\* acknowledge_start and reconcile_unknown hand no worker's authority to another.
THEOREM OnlyThroughLoss == Spec => HandoverThroughLoss
BY InvHolds, StepInv, PTL DEF Spec, HandoverThroughLoss

\* Ownership is taken, kept alive and completed under the current generation only.
THEOREM StaleFencesRejected == Spec => StaleFenceRejected
BY InvHolds, StepInv, PTL DEF Spec, StaleFenceRejected

\* ingest_event only adds events at the end of a source's log.
THEOREM EventLogAppendOnly == Spec => EventsAppendOnly
<1>1. Inv /\ [Next]_vars => [AppendStep]_vars
  <2> SUFFICES ASSUME Inv, [Next]_vars PROVE AppendStep
    OBVIOUS
  <2>1. ASSUME NEW s \in Sources, NEW n \in 0..MaxSequence, NEW e \in Events,
               IngestEvent(s, n, e)
        PROVE  AppendStep
    <3> SUFFICES ASSUME NEW t \in Sources, NEW k \in 0..MaxSequence,
                        identity'[t][k] # identity[t][k], NEW m \in k..MaxSequence
                 PROVE  identity[t][m] = NoEvent
      BY DEF AppendStep
    <3>1. t = s /\ k = n
      BY <2>1 DEF IngestEvent, Inv, TypeOK
    <3>2. identity[s][n] = NoEvent /\ n >= watermark[s] /\ watermark[s] \in -1..MaxSequence
      BY <2>1 DEF IngestEvent, Fresh, Inv, TypeOK
    <3>3. m \in 0..MaxSequence /\ (m = n \/ m > watermark[s])
      BY <3>1, <3>2, SupervisorAssumption
    <3> QED BY <3>1, <3>2, <3>3, SupervisorAssumption DEF Inv, WatermarkInv
  <2>2. CASE identity' = identity
    BY <2>2 DEF AppendStep
  <2>3. CASE Ledgers
    BY <2>3, <2>1, <2>2 DEF Ledgers, ReferenceSweep, BackoffForAttempt
  <2>4. ASSUME NEW p \in Procs, Leases(p) PROVE AppendStep
    BY <2>4, <2>2 DEF Leases, AcquireLease, ReclaimLease, Grant, ReleaseLease, Restart, ledger
  <2>5. ASSUME NEW m \in Modes, SetQuiescence(m) PROVE AppendStep
    BY <2>5, <2>2 DEF SetQuiescence, ledger
  <2>6. ASSUME NEW p \in Procs, NEW r \in Requests, NEW g \in Generations,
               PersistDispatchIntent(p, r, g)
        PROVE  AppendStep
    BY <2>6, <2>2 DEF PersistDispatchIntent, ledger
  <2>7. ASSUME NEW p \in Procs, NEW d \in Dispatches, Transitions(p, d) PROVE AppendStep
    BY <2>7, <2>2 DEF Transitions, MarkUnknownStart, MarkRunning, ReconcileNoStart,
       AcknowledgeStart, Heartbeat, MarkWorkerLost, ReconcileActive, Complete,
       ReconcileTerminal, ledger
  <2>8. CASE UNCHANGED vars
    BY <2>8, <2>2 DEF vars, ledger
  <2> QED BY <2>3, <2>4, <2>5, <2>6, <2>7, <2>8 DEF Next
<1> QED BY <1>1, InvHolds, PTL DEF Spec, EventsAppendOnly
===============================================================================

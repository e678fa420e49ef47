------------------------- MODULE PersistentSupervisor -------------------------
(***************************************************************************)
(* PersistentSupervisorService: the durable state of the CERS supervisor   *)
(* and the operations that supervisor processes call on it.  A process     *)
(* keeps the SupervisorLease it was given in memory, so a process that was *)
(* fenced off may still call; processes may share one holder identity.     *)
(*                                                                         *)
(* A dispatch is identified by the hash of its proposal, which contains    *)
(* the fencing generation: here the pair <<request, generation>>.  Workers *)
(* are named by what the executor reports.  An operation that raises or    *)
(* returns early changes nothing and is a stuttering step.                 *)
(***************************************************************************)
EXTENDS Integers, FiniteSets

CONSTANTS
  Procs,          \* supervisor processes
  Holders,        \* holder identities
  NoHolder,
  Identity,       \* [Procs -> Holders]
  Requests,       \* request ids
  Workers,        \* worker run ids
  NoWorker,
  Sources,        \* event sources
  Events,         \* event contents
  NoEvent,
  Sweeps,         \* reconciliation ids
  Providers,
  TimingFrozen,   \* timing_policy.activation_ready
  MaxGeneration,  \* bound: fencing generations
  MaxBeats,       \* bound: heartbeats of an owner
  MaxSequence,    \* bound: event sequence numbers
  MaxAttempts     \* bound: provider attempts

ASSUME SupervisorAssumption ==
  /\ Identity \in [Procs -> Holders]
  /\ NoHolder \notin Holders
  /\ NoWorker \notin Workers
  /\ NoEvent \notin Events
  /\ TimingFrozen \in BOOLEAN
  /\ MaxGeneration \in Nat /\ MaxBeats \in Nat /\ MaxSequence \in Nat /\ MaxAttempts \in Nat

VARIABLES
  generation,  \* fencing_generation
  active,      \* lease_active
  holder,      \* lease_holder
  mode,        \* quiescence_mode
  watermark,   \* event_watermarks
  identity,    \* event_identities
  sweeps,      \* sweep_identities
  txn,         \* transactions; phase "NONE" is a missing key
  owner,       \* ownership; worker NoWorker is a missing key
  attempts,    \* provider_attempts
  lease        \* [Procs -> generation of the lease it was given, 0 for none]

leasing == <<generation, active, holder, lease>>
ledger == <<watermark, identity, sweeps, attempts>>
vars == <<leasing, mode, ledger, txn, owner>>

Generations == 1..MaxGeneration
Dispatches == Requests \X Generations
Modes == {"RUN", "DRAIN", "HOLD", "DISABLE_NEW_DISPATCH"}
Terminal == {"COMPLETED", "FAILED", "CANCELLED"}
Active == {"START_ACKNOWLEDGED", "RUNNING"}
Phases == {"INTENT_PERSISTED", "DISPATCH_UNKNOWN"} \cup Active \cup Terminal

NoTxn == [phase |-> "NONE", gen |-> 0, worker |-> NoWorker]
NoOwner == [worker |-> NoWorker, gen |-> 0, beats |-> 0, auth |-> FALSE]

Init ==
  /\ generation = 0 /\ active = FALSE /\ holder = NoHolder
  /\ mode = "DISABLE_NEW_DISPATCH"
  /\ watermark = [s \in Sources |-> -1]
  /\ identity = [s \in Sources |-> [n \in 0..MaxSequence |-> NoEvent]]
  /\ sweeps = {}
  /\ txn = [d \in Dispatches |-> NoTxn]
  /\ owner = [d \in Dispatches |-> NoOwner]
  /\ attempts = [v \in Providers |-> 0]
  /\ lease = [p \in Procs |-> 0]

(***************************************************************************)
(* The lease                                                               *)
(***************************************************************************)

\* Mutant of Valid: the generation is not compared.
MutValid(p) == active /\ lease[p] # 0 /\ holder = Identity[p]

\* validate_lease
Valid(p) ==
  /\ active
  /\ lease[p] # 0
  /\ holder = Identity[p]
  /\ lease[p] = generation

\* Mutant of NextGeneration: a reclaim keeps the generation.
MutNextGeneration == IF generation = 0 THEN 1 ELSE generation
NextGeneration == generation + 1

\* acquire_lease, after reclaim_lease has cleared the old one.
Grant(p) ==
  /\ generation < MaxGeneration
  /\ generation' = NextGeneration
  /\ holder' = Identity[p]
  /\ active' = TRUE
  /\ lease' = [lease EXCEPT ![p] = generation']
  /\ UNCHANGED <<mode, ledger, txn, owner>>

AcquireLease(p) == ~active /\ Grant(p)

ReclaimLease(p, expired) == (active => expired) /\ Grant(p)

ReleaseLease(p) ==
  /\ Valid(p)
  /\ active' = FALSE
  /\ holder' = NoHolder
  /\ UNCHANGED <<generation, lease, mode, ledger, txn, owner>>

\* A process restarts from the payload: its lease object is gone, the state is not.
Restart(p) ==
  /\ lease[p] # 0
  /\ lease' = [lease EXCEPT ![p] = 0]
  /\ UNCHANGED <<generation, active, holder, mode, ledger, txn, owner>>

SetQuiescence(m) ==
  /\ mode' = m
  /\ UNCHANGED <<leasing, ledger, txn, owner>>

(***************************************************************************)
(* Events, sweeps and backoff                                              *)
(***************************************************************************)

\* Mutant of Fresh: a late event is accepted.
MutFresh(s, n) == identity[s][n] = NoEvent

\* The event is new and not behind the durable watermark.
Fresh(s, n) == identity[s][n] = NoEvent /\ n >= watermark[s]

IngestEvent(s, n, e) ==
  /\ Fresh(s, n)
  /\ identity' = [identity EXCEPT ![s][n] = e]
  /\ watermark' = [watermark EXCEPT ![s] = IF n > @ THEN n ELSE @]
  /\ UNCHANGED <<leasing, mode, sweeps, attempts, txn, owner>>

ReferenceSweep(p, i) ==
  /\ Valid(p)
  /\ i \notin sweeps
  /\ sweeps' = sweeps \cup {i}
  /\ UNCHANGED <<leasing, mode, watermark, identity, attempts, txn, owner>>

BackoffForAttempt(v, n) ==
  /\ TimingFrozen
  /\ attempts' = [attempts EXCEPT ![v] = n]
  /\ UNCHANGED <<leasing, mode, watermark, identity, sweeps, txn, owner>>

(***************************************************************************)
(* Dispatch transactions and worker ownership                              *)
(***************************************************************************)

SetTxn(d, phase, w) == txn' = [txn EXCEPT ![d].phase = phase, ![d].worker = w]
Owned(w, g, n) == [worker |-> w, gen |-> g, beats |-> n, auth |-> TRUE]

\* The proposal was built by reconcile_persistent_requests for generation g.
PersistDispatchIntent(p, r, g) ==
  /\ Valid(p)
  /\ mode = "RUN"
  /\ g = lease[p]
  /\ txn[<<r, g>>].phase = "NONE"
  /\ txn' = [txn EXCEPT ![<<r, g>>] =
               [phase |-> "INTENT_PERSISTED", gen |-> g, worker |-> NoWorker]]
  /\ UNCHANGED <<leasing, mode, ledger, owner>>

MarkUnknownStart(p, d) ==
  /\ Valid(p)
  /\ txn[d].phase \notin Terminal \cup {"NONE"}
  /\ SetTxn(d, "DISPATCH_UNKNOWN", txn[d].worker)
  /\ UNCHANGED <<leasing, mode, ledger, owner>>

\* Mutant of Unowned: an authoritative owner is replaced.
MutUnowned(d) == TRUE

Unowned(d) == ~owner[d].auth

AcknowledgeStart(p, d, w) ==
  /\ Valid(p)
  /\ txn[d].phase # "NONE"
  /\ txn[d].gen = lease[p]
  /\ Unowned(d)
  /\ owner' = [owner EXCEPT ![d] = Owned(w, lease[p], 0)]
  /\ SetTxn(d, "START_ACKNOWLEDGED", w)
  /\ UNCHANGED <<leasing, mode, ledger>>

\* Mutant of Startable: a worker may run without an acknowledged start.
MutStartable(d) == txn[d].phase \in {"INTENT_PERSISTED", "START_ACKNOWLEDGED"}

Startable(d) == txn[d].phase = "START_ACKNOWLEDGED"

MarkRunning(p, d) ==
  /\ Valid(p)
  /\ Startable(d)
  /\ SetTxn(d, "RUNNING", txn[d].worker)
  /\ UNCHANGED <<leasing, mode, ledger, owner>>

Heartbeat(p, d, w) ==
  /\ Valid(p)
  /\ owner[d].auth
  /\ owner[d].worker = w /\ owner[d].gen = lease[p]
  /\ owner[d].beats < MaxBeats
  /\ owner' = [owner EXCEPT ![d].beats = @ + 1]
  /\ UNCHANGED <<leasing, mode, ledger, txn>>

MarkWorkerLost(p, d, w) ==
  /\ Valid(p)
  /\ owner[d].auth
  /\ owner[d].worker = w
  /\ owner' = [owner EXCEPT ![d].auth = FALSE]
  /\ SetTxn(d, "DISPATCH_UNKNOWN", txn[d].worker)
  /\ UNCHANGED <<leasing, mode, ledger>>

\* reconcile_unknown: the executor reports no start, ...
ReconcileNoStart(p, d) ==
  /\ Valid(p)
  /\ txn[d].phase = "DISPATCH_UNKNOWN"
  /\ SetTxn(d, "INTENT_PERSISTED", NoWorker)
  /\ UNCHANGED <<leasing, mode, ledger, owner>>

\* ... an active worker, ...
ReconcileActive(p, d, phase, w) ==
  /\ Valid(p)
  /\ txn[d].phase = "DISPATCH_UNKNOWN"
  /\ phase \in Active
  /\ owner[d].auth => owner[d].worker = w
  /\ owner' = [owner EXCEPT ![d] = Owned(w, lease[p], owner[d].beats)]
  /\ SetTxn(d, phase, w)
  /\ UNCHANGED <<leasing, mode, ledger>>

\* ... or an outcome, with or without the worker's name.
ReconcileTerminal(p, d, phase, w) ==
  /\ Valid(p)
  /\ txn[d].phase = "DISPATCH_UNKNOWN"
  /\ phase \in Terminal
  /\ SetTxn(d, phase, IF w = NoWorker THEN txn[d].worker ELSE w)
  /\ UNCHANGED <<leasing, mode, ledger, owner>>

Complete(p, d, w, success) ==
  /\ Valid(p)
  /\ owner[d].auth
  /\ owner[d].worker = w /\ owner[d].gen = lease[p]
  /\ SetTxn(d, IF success THEN "COMPLETED" ELSE "FAILED", w)
  /\ UNCHANGED <<leasing, mode, ledger, owner>>

Leases(p) ==
  \/ AcquireLease(p) \/ ReleaseLease(p) \/ Restart(p)
  \/ \E expired \in BOOLEAN : ReclaimLease(p, expired)

Transitions(p, d) ==
  \/ MarkUnknownStart(p, d) \/ MarkRunning(p, d) \/ ReconcileNoStart(p, d)
  \/ \E w \in Workers :
       \/ AcknowledgeStart(p, d, w) \/ Heartbeat(p, d, w) \/ MarkWorkerLost(p, d, w)
       \/ \E phase \in Active : ReconcileActive(p, d, phase, w)
       \/ \E success \in BOOLEAN : Complete(p, d, w, success)
  \/ \E w \in Workers \cup {NoWorker}, phase \in Terminal : ReconcileTerminal(p, d, phase, w)

Ledgers ==
  \/ \E s \in Sources, n \in 0..MaxSequence, e \in Events : IngestEvent(s, n, e)
  \/ \E p \in Procs, i \in Sweeps : ReferenceSweep(p, i)
  \/ \E v \in Providers, n \in 0..MaxAttempts : BackoffForAttempt(v, n)

Next ==
  \/ \E p \in Procs : Leases(p)
  \/ \E m \in Modes : SetQuiescence(m)
  \/ Ledgers
  \/ \E p \in Procs, r \in Requests, g \in Generations : PersistDispatchIntent(p, r, g)
  \/ \E p \in Procs, d \in Dispatches : Transitions(p, d)

Spec == Init /\ [][Next]_vars

(***************************************************************************)
(* Properties                                                              *)
(***************************************************************************)

\* Type invariant: the durable state has the shape to_payload writes.
TypeOK ==
  /\ generation \in 0..MaxGeneration
  /\ active \in BOOLEAN
  /\ holder \in Holders \cup {NoHolder}
  /\ mode \in Modes
  /\ watermark \in [Sources -> -1..MaxSequence]
  /\ identity \in [Sources -> [0..MaxSequence -> Events \cup {NoEvent}]]
  /\ sweeps \subseteq Sweeps
  /\ txn \in [Dispatches -> [phase : Phases \cup {"NONE"}, gen : 0..MaxGeneration,
                             worker : Workers \cup {NoWorker}]]
  /\ owner \in [Dispatches -> [worker : Workers \cup {NoWorker}, gen : 0..MaxGeneration,
                               beats : 0..MaxBeats, auth : BOOLEAN]]
  /\ attempts \in [Providers -> 0..MaxAttempts]
  /\ lease \in [Procs -> 0..MaxGeneration]

\* "At most one current supervisor": no two processes hold valid leases, although
\* leases are reclaimed from live processes and both may use one holder identity.
OneSupervisor == \A p, q \in Procs : Valid(p) /\ Valid(q) => p = q

\* No two processes were given the same generation and none is ahead of the
\* durable one: the inductive strengthening of OneSupervisor.
LeaseInv ==
  /\ \A p \in Procs : lease[p] <= generation
  /\ \A p, q \in Procs : lease[p] # 0 /\ lease[p] = lease[q] => p = q

\* A dispatch that is started or running has an authoritative owner, and it is
\* the worker its transaction names, through unknown starts, lost workers,
\* reconciliations and changes of the supervisor.
ActiveHasOwner ==
  \A d \in Dispatches :
    txn[d].phase \in Active => owner[d].auth /\ owner[d].worker = txn[d].worker

\* A step that hands authority from one worker to another directly does not exist:
\* the first must have been declared lost.
OwnerStep ==
  \A d \in Dispatches :
    owner[d].auth /\ owner'[d].auth => owner'[d].worker = owner[d].worker

\* Authority never passes from one worker to another in one step.
HandoverThroughLoss == [][OwnerStep]_vars

\* Ownership is taken, kept alive and completed under the current generation only.
FencedStep ==
  \A d \in Dispatches :
    /\ owner'[d].auth /\ ~owner[d].auth => owner'[d].gen = generation
    /\ owner'[d].beats > owner[d].beats => owner[d].gen = generation
    /\ /\ txn'[d] # txn[d]
       /\ txn[d].phase # "DISPATCH_UNKNOWN" /\ txn'[d].phase \in Terminal
       => owner[d].auth /\ owner[d].gen = generation

\* "A stale fence or stale worker completion is fatal".
StaleFenceRejected == [][FencedStep]_vars

\* A sequence number that gets an event was free, and so was every later one.
AppendStep ==
  \A s \in Sources, n \in 0..MaxSequence :
    identity'[s][n] # identity[s][n] =>
      \A m \in n..MaxSequence : identity[s][m] = NoEvent

\* The event log of a source only grows at its end: an event that was accepted
\* keeps its identity, and nothing is accepted behind one that was.
EventsAppendOnly == [][AppendStep]_vars

\* "At most one authoritative worker ownership per packet generation": a request
\* never has two dispatches that are active at once.
OneWorkerPerRequest ==
  \A d, e \in Dispatches :
    /\ d[1] = e[1]
    /\ txn[d].phase \in Active /\ txn[e].phase \in Active
    => d = e
===============================================================================

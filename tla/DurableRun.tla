------------------------------ MODULE DurableRun ------------------------------
(***************************************************************************)
(* The durable, resumable run of the SRFD benchmark: start_wp10 and        *)
(* resume_wp10 drive execute_durable_resumable_units over four durable     *)
(* stores that share one root directory:                                   *)
(*                                                                         *)
(*   RunAuthorityStore   the append-once token consumption ledger;         *)
(*   RunArtifactStore    one artifact file for each work unit;             *)
(*   RunCapacityStore    the capacity telemetry file;                      *)
(*   RunCheckpointStore  the numbered checkpoint files (the variant        *)
(*                       CachedRunCheckpointStoreV11 when Cached).         *)
(*                                                                         *)
(* A member of Procs is one slot for a process invocation.  Nothing in the *)
(* code locks the root, so with two slots two invocations interleave; each *)
(* exists-check and each write is a step of its own.  A write goes to      *)
(* "<name>.tmp", is fsynced and renamed by os.replace, and readers ignore  *)
(* "*.tmp", so a write is atomic and a crash leaves either the old file or *)
(* the new one.  (Two invocations that write one file share its temporary  *)
(* file; what that can do to the file is a case of Damage.)  Raising an    *)
(* exception ends the invocation.                                          *)
(***************************************************************************)
EXTENDS Integers, Sequences, FiniteSets, Functions

CONSTANTS
  Procs,       \* slots for process invocations
  Plan,        \* ordered unit ids (planned_work_units)
  Needs,       \* [unit -> units whose artifacts its worker loads]
  Results,     \* [unit -> outputs the worker may return for it]
  Bytes,       \* [output -> size of its artifact file]
  MaxBytes,    \* RunArtifactStore.max_external_bytes
  Walls,       \* active wall seconds one unit may take
  MaxWall,     \* RunCapacityStore.max_wall
  RssSamples,  \* values peak_rss_bytes() may return
  MaxRss,      \* RunCapacityStore.max_rss
  Cached,      \* TRUE: CachedRunCheckpointStoreV11, FALSE: RunCheckpointStore
  MaxCrashes,  \* bound: process crashes
  MaxDamage,   \* bound: files damaged on disk
  MaxSequence, \* bound: checkpoint sequence numbers
  MaxAccounts  \* bound: accounted_unit_count saturates here

Units == Range(Plan)
Outputs == UNION {Results[u] : u \in Units}
Receipt == Units \X Outputs

ASSUME PlanAssumption ==
  /\ Plan \in Seq(Units)
  /\ \A i, j \in 1..Len(Plan) : Plan[i] = Plan[j] => i = j
ASSUME WorkerAssumption ==
  /\ Needs \in [Units -> SUBSET Units]
  /\ DOMAIN Results = Units
  /\ \A u \in Units : Results[u] # {}
ASSUME CapacityAssumption ==
  /\ Bytes \in [Outputs -> Nat]
  /\ MaxBytes \in Nat
  /\ Walls \subseteq Nat
  /\ MaxWall \in Nat
  /\ RssSamples \subseteq Nat
  /\ MaxRss \in Nat
  /\ Cached \in BOOLEAN
  /\ MaxCrashes \in Nat
  /\ MaxDamage \in Nat
  /\ MaxSequence \in Nat
  /\ MaxAccounts \in Nat

VARIABLES
  consumed,    \* durable: the token's RunStartReceipt exists
  artifacts,   \* durable: unit -> output, for the artifact files that exist
  ckpt,        \* durable: sequence -> receipts, for the checkpoint files
  telemetry,   \* durable: capacity_telemetry.json
  badUnits,    \* units whose artifact file was damaged on disk
  badSeqs,     \* sequences whose checkpoint file was damaged on disk
  pc,          \* where each invocation is
  committed,   \* the invocation's list `committed`
  produced,    \* the output its worker returned last
  prior,       \* the telemetry it has read in account_unit
  size,        \* RunArtifactStore._size_cache
  seq,         \* sequence of the checkpoint it loaded or wrote last
  target,      \* sequence of the checkpoint file it is about to write
  fresh,       \* it has committed a new unit (new_count > 0)
  results,     \* receipts of the results returned with complete = True
  crashes

damage == <<badUnits, badSeqs>>
durable == <<consumed, artifacts, ckpt, telemetry>>
local == <<pc, committed, produced, prior, size, seq, target, fresh>>
vars == <<durable, damage, local, results, crashes>>

Unscanned == -1
NoTelemetry == [wall |-> 0, rss |-> 0, units |-> 0]

(***************************************************************************)
(* Helpers                                                                 *)
(***************************************************************************)

\* _atomic_write_bytes / _atomic_write_json: create or replace file k.
Put(f, k, v) == [x \in DOMAIN f \cup {k} |-> IF x = k THEN v ELSE f[x]]

UnitIds(rs) == [i \in DOMAIN rs |-> rs[i][1]]
Done(rs) == {rs[i][1] : i \in DOMAIN rs}

Extends(new, old) ==
  /\ Len(old) <= Len(new)
  /\ \A i \in 1..Len(old) : UnitIds(new)[i] = UnitIds(old)[i]

LatestSequence == Cardinality(DOMAIN ckpt)
Latest == IF LatestSequence = 0 THEN << >> ELSE ckpt[LatestSequence]

\* Mutant of ChainVerifies: latest without allow_missing=True.
MutChainNotEmpty == LatestSequence > 0 /\ badSeqs = {}

\* RunCheckpointStore.latest: every file decodes, the sequence is contiguous
\* and no checkpoint rewrites the units of the one before it.
ChainVerifies ==
  /\ badSeqs = {}
  /\ DOMAIN ckpt = 1..LatestSequence
  /\ \A s \in 2..LatestSequence : Extends(ckpt[s], ckpt[s - 1])

\* Mutants of ReceiptVerifies: the bytes are not compared; damage is not seen.
MutReceiptExists(r) == r[1] \in DOMAIN artifacts /\ r[1] \notin badUnits
MutReceiptTrusts(r) == r[1] \in DOMAIN artifacts /\ artifacts[r[1]] = r[2]

\* RunArtifactStore.verify_receipt
ReceiptVerifies(r) ==
  /\ r[1] \in DOMAIN artifacts
  /\ r[1] \notin badUnits
  /\ artifacts[r[1]] = r[2]

\* `committed = list(checkpoint.unit_receipts)`
ResumedReceipts == Latest

\* Mutant of OutputExists: commit_output always writes.
MutOutputNeverExists(u) == FALSE

\* commit_output: path.exists()
OutputExists(u) == u \in DOMAIN artifacts

\* The bytes of the artifact files, and RunArtifactStore.total_bytes scanned
\* from the directory.
StoredBytes == UNION {{u} \X (1..Bytes[artifacts[u]]) : u \in DOMAIN artifacts}
ScannedBytes == Cardinality(StoredBytes)

\* `self._size_cache[start.run_id] = projected`
RecordedBytes(held, n) == held + n

\* Mutant of IsNextUnit: the plan order is not followed.
MutAnyUnit(i, rs) == i \in DOMAIN Plan /\ Plan[i] \notin Done(rs)

\* `for unit_id in ordered: if unit_id in completed: continue`
IsNextUnit(i, rs) ==
  /\ i \in DOMAIN Plan
  /\ Plan[i] \notin Done(rs)
  /\ \A j \in 1..(i - 1) : Plan[j] \in Done(rs)

\* Counters saturate: a wall time above the limit is told apart from no other.
Capped(n, bound) == IF n > bound THEN bound ELSE n

WithinT0(t) == t.wall <= MaxWall /\ t.rss <= MaxRss

\* Mutants of Accounted: the peak is not kept; the unit is not counted.
MutPeakForgotten(t, w, r) ==
  [wall |-> Capped(t.wall + w, MaxWall + 1), rss |-> r,
   units |-> Capped(t.units + 1, MaxAccounts)]
MutNotCounted(t, w, r) == [t EXCEPT !.wall = Capped(t.wall + w, MaxWall + 1)]
\* account_unit: the telemetry that follows t after a unit of w seconds with a
\* peak of r bytes.
Accounted(t, w, r) ==
  [wall |-> Capped(t.wall + w, MaxWall + 1),
   rss |-> IF r > t.rss THEN r ELSE t.rss,
   units |-> Capped(t.units + 1, MaxAccounts)]

\* Mutant of NextSequence: the cached store rescans the directory.
MutNextSequence(p) == LatestSequence + 1

\* commit: `1 if prior is None else prior.sequence + 1`, where prior is the
\* cached checkpoint or the one latest() has just read.
NextSequence(p) == (IF Cached THEN seq[p] ELSE LatestSequence) + 1

\* The invocation is over: its memory is gone.
Leave(p) ==
  /\ pc' = [pc EXCEPT ![p] = "idle"]
  /\ committed' = [committed EXCEPT ![p] = << >>]
  /\ produced' = [produced EXCEPT ![p] = {}]
  /\ prior' = [prior EXCEPT ![p] = NoTelemetry]
  /\ size' = [size EXCEPT ![p] = Unscanned]
  /\ seq' = [seq EXCEPT ![p] = 0]
  /\ target' = [target EXCEPT ![p] = 0]
  /\ fresh' = [fresh EXCEPT ![p] = FALSE]

Goto(p, label) == pc' = [pc EXCEPT ![p] = label]
(***************************************************************************)
(* Initial state and the steps of an invocation                            *)
(***************************************************************************)

Init ==
  /\ consumed = FALSE
  /\ artifacts = << >>
  /\ ckpt = << >>
  /\ telemetry = NoTelemetry
  /\ badUnits = {}
  /\ badSeqs = {}
  /\ pc = [p \in Procs |-> "idle"]
  /\ committed = [p \in Procs |-> << >>]
  /\ produced = [p \in Procs |-> {}]
  /\ prior = [p \in Procs |-> NoTelemetry]
  /\ size = [p \in Procs |-> Unscanned]
  /\ seq = [p \in Procs |-> 0]
  /\ target = [p \in Procs |-> 0]
  /\ fresh = [p \in Procs |-> FALSE]
  /\ results = {}
  /\ crashes = 0

\* An invocation that raises or returns without a complete result.
Raise(p) == Leave(p) /\ UNCHANGED <<durable, damage, results, crashes>>

\* start_wp10 -> RunAuthorityStore.consume: path.exists() is False.  (With a
\* consumed token it raises TOKEN_ALREADY_CONSUMED and changes nothing.)
StartChecks(p) ==
  /\ pc[p] = "idle"
  /\ ~consumed
  /\ Goto(p, "consume")
  /\ UNCHANGED <<durable, damage, committed, produced, prior, size, seq,
                 target, fresh, results, crashes>>

\* consume: the start receipt is written and read back.
StartConsumes(p) ==
  /\ pc[p] = "consume"
  /\ consumed' = TRUE
  /\ Goto(p, "latest")
  /\ UNCHANGED <<artifacts, ckpt, telemetry, damage, committed, produced,
                 prior, size, seq, target, fresh, results, crashes>>

\* resume_wp10 -> RunAuthorityStore.load
ResumeLoads(p) ==
  /\ pc[p] = "idle"
  /\ consumed
  /\ Goto(p, "latest")
  /\ UNCHANGED <<durable, damage, committed, produced, prior, size, seq,
                 target, fresh, results, crashes>>

\* latest(allow_missing=True), then verify_receipt of every committed unit.
LoadLatest(p) ==
  /\ pc[p] = "latest"
  /\ \/ /\ ChainVerifies
        /\ \A i \in DOMAIN Latest : ReceiptVerifies(Latest[i])
        /\ committed' = [committed EXCEPT ![p] = ResumedReceipts]
        /\ seq' = [seq EXCEPT ![p] = LatestSequence]
        /\ Goto(p, "loop")
        /\ UNCHANGED <<durable, damage, produced, prior, size, target,
                       fresh, results, crashes>>
     \/ /\ ~ (ChainVerifies /\ \A i \in DOMAIN Latest : ReceiptVerifies(Latest[i]))
        /\ Raise(p)

\* worker(unit_id): it loads the artifacts it needs (load_output raises on a
\* damaged or missing one) and returns one of the unit's possible outputs.
Compute(p) ==
  /\ pc[p] = "loop"
  /\ \E i \in DOMAIN Plan :
       /\ IsNextUnit(i, committed[p])
       /\ \/ /\ \A u \in Needs[Plan[i]] : u \in DOMAIN artifacts /\ u \notin badUnits
             /\ \E o \in Results[Plan[i]] :
                  produced' = [produced EXCEPT ![p] = {o}]
             /\ Goto(p, "account")
             /\ UNCHANGED <<durable, damage, committed, prior, size, seq,
                            target, fresh, results, crashes>>
          \/ /\ \E u \in Needs[Plan[i]] : u \notin DOMAIN artifacts \/ u \in badUnits
             /\ Raise(p)

\* account_unit: prior = self.load(...)
AccountReads(p) ==
  /\ pc[p] = "account"
  /\ prior' = [prior EXCEPT ![p] = telemetry]
  /\ Goto(p, "accounted")
  /\ UNCHANGED <<durable, damage, committed, produced, size, seq, target,
                 fresh, results, crashes>>

\* account_unit: the new telemetry is written, then CAPACITY_EXCEEDED is
\* raised unless it is within the envelope.
AccountWrites(p) ==
  /\ pc[p] = "accounted"
  /\ \E w \in Walls, r \in RssSamples :
       LET now == Accounted(prior[p], w, r)
       IN /\ telemetry' = now
          /\ \/ /\ WithinT0(now)
                /\ Goto(p, "artifact")
                /\ UNCHANGED <<committed, produced, prior, size, seq, target, fresh>>
             \/ /\ ~WithinT0(now)
                /\ Leave(p)
  /\ UNCHANGED <<consumed, artifacts, ckpt, damage, results, crashes>>

\* commit_output: path.exists().  Equal bytes are accepted, other bytes raise
\* ARTIFACT_HISTORY_REWRITE; a new file must fit the external limit, else
\* CAPACITY_EXTERNAL_BYTES_EXCEEDED is raised.
CommitOutputChecks(p) ==
  /\ pc[p] = "artifact"
  /\ \E i \in DOMAIN Plan, o \in produced[p] :
       /\ IsNextUnit(i, committed[p])
       /\ \/ /\ OutputExists(Plan[i])
             /\ ReceiptVerifies(<<Plan[i], o>>)
             /\ committed' = [committed EXCEPT ![p] = Append(@, <<Plan[i], o>>)]
             /\ Goto(p, "checkpoint")
             /\ UNCHANGED <<durable, damage, produced, prior, size, seq,
                            target, fresh, results, crashes>>
          \/ /\ OutputExists(Plan[i])
             /\ ~ReceiptVerifies(<<Plan[i], o>>)
             /\ Raise(p)
          \/ /\ ~OutputExists(Plan[i])
             /\ LET held == IF size[p] = Unscanned THEN ScannedBytes ELSE size[p]
                IN \/ /\ held + Bytes[o] <= MaxBytes
                      /\ size' = [size EXCEPT ![p] = held]
                      /\ Goto(p, "write")
                      /\ UNCHANGED <<durable, damage, committed, produced, prior,
                                     seq, target, fresh, results, crashes>>
                   \/ /\ held + Bytes[o] > MaxBytes
                      /\ Raise(p)

\* commit_output: _atomic_write_bytes, the size cache, verify_receipt; the
\* receipt is appended to `committed`.
CommitOutputWrites(p) ==
  /\ pc[p] = "write"
  /\ \E i \in DOMAIN Plan, o \in produced[p] :
       /\ IsNextUnit(i, committed[p])
       /\ artifacts' = Put(artifacts, Plan[i], o)
       /\ badUnits' = badUnits \ {Plan[i]}
       /\ size' = [size EXCEPT ![p] = RecordedBytes(@, Bytes[o])]
       /\ committed' = [committed EXCEPT ![p] = Append(@, <<Plan[i], o>>)]
  /\ Goto(p, "checkpoint")
  /\ UNCHANGED <<consumed, ckpt, telemetry, badSeqs, produced, prior, seq,
                 target, fresh, results, crashes>>

\* RunCheckpointStore.commit: prior = self.latest(...), the history check and
\* path.exists() of the next sequence.
CommitChecks(p) ==
  LET own == committed[p]
      at == NextSequence(p)
      accepted == /\ Cached \/ (ChainVerifies /\ Extends(own, Latest))
                  /\ at \notin DOMAIN ckpt
  IN /\ pc[p] = "checkpoint"
     /\ at <= MaxSequence
     /\ \/ /\ accepted
           /\ target' = [target EXCEPT ![p] = at]
           /\ Goto(p, "publish")
           /\ UNCHANGED <<durable, damage, committed, produced, prior, size,
                          seq, fresh, results, crashes>>
        \/ /\ ~accepted
           /\ Raise(p)

\* commit: _atomic_write_json and the round trip; back to the loop.
CommitWrites(p) ==
  /\ pc[p] = "publish"
  /\ ckpt' = Put(ckpt, target[p], committed[p])
  /\ badSeqs' = badSeqs \ {target[p]}
  /\ seq' = [seq EXCEPT ![p] = target[p]]
  /\ fresh' = [fresh EXCEPT ![p] = TRUE]
  /\ produced' = [produced EXCEPT ![p] = {}]
  /\ Goto(p, "loop")
  /\ UNCHANGED <<consumed, artifacts, telemetry, badUnits, committed, prior,
                 size, target, results, crashes>>

\* stop_after_new_units is reached: a result with complete = False.
StopEarly(p) ==
  /\ pc[p] = "loop"
  /\ fresh[p]
  /\ \E i \in DOMAIN Plan : IsNextUnit(i, committed[p])
  /\ Raise(p)

\* Mutant of Finish: the result is returned before the last checkpoint.
MutFinishEarly(p) ==
  /\ pc[p] \in {"loop", "checkpoint"}
  /\ \A i \in DOMAIN Plan : Plan[i] \in Done(committed[p])
  /\ results' = results \cup {committed[p]}
  /\ Leave(p)
  /\ UNCHANGED <<durable, damage, crashes>>

\* Every planned unit is committed: the complete result is returned.
Finish(p) ==
  /\ pc[p] = "loop"
  /\ \A i \in DOMAIN Plan : Plan[i] \in Done(committed[p])
  /\ results' = results \cup {committed[p]}
  /\ Leave(p)
  /\ UNCHANGED <<durable, damage, crashes>>

\* The host kills the process between any two of its steps.
Crash(p) ==
  /\ pc[p] # "idle"
  /\ crashes < MaxCrashes
  /\ crashes' = crashes + 1
  /\ Leave(p)
  /\ UNCHANGED <<durable, damage, results>>

\* A file is damaged on disk: its bytes no longer pass the hashes.
Damage ==
  /\ Cardinality(badUnits) + Cardinality(badSeqs) < MaxDamage
  /\ \/ \E u \in DOMAIN artifacts \ badUnits :
          badUnits' = badUnits \cup {u} /\ badSeqs' = badSeqs
     \/ \E s \in DOMAIN ckpt \ badSeqs :
          badSeqs' = badSeqs \cup {s} /\ badUnits' = badUnits
  /\ UNCHANGED <<durable, local, results, crashes>>

Step(p) ==
  \/ StartChecks(p) \/ StartConsumes(p) \/ ResumeLoads(p) \/ LoadLatest(p)
  \/ Compute(p) \/ AccountReads(p) \/ AccountWrites(p)
  \/ CommitOutputChecks(p) \/ CommitOutputWrites(p)
  \/ CommitChecks(p) \/ CommitWrites(p) \/ Finish(p)

Next ==
  \/ \E p \in Procs : Step(p) \/ StopEarly(p) \/ Crash(p)
  \/ Damage

Spec == Init /\ [][Next]_vars
\* A process that is running keeps running, and the operator resumes a run
\* that has not completed; StopEarly, Crash and Damage are never forced.
FairSpec == Spec /\ \A p \in Procs : WF_vars(Step(p))

(***************************************************************************)
(* Properties                                                              *)
(***************************************************************************)

Labels == {"idle", "consume", "latest", "loop", "account", "accounted",
           "artifact", "write", "checkpoint", "publish"}

Telemetry == [wall : Nat, rss : Nat, units : Nat]

\* Type invariant: every store and every local of an invocation has the shape
\* the code gives it.
TypeOK ==
  /\ consumed \in BOOLEAN
  /\ DOMAIN artifacts \subseteq Units
  /\ \A u \in DOMAIN artifacts : artifacts[u] \in Outputs
  /\ DOMAIN ckpt \subseteq 1..MaxSequence
  /\ \A s \in DOMAIN ckpt : ckpt[s] \in Seq(Receipt)
  /\ telemetry \in Telemetry
  /\ badUnits \subseteq DOMAIN artifacts
  /\ badSeqs \subseteq DOMAIN ckpt
  /\ pc \in [Procs -> Labels]
  /\ committed \in [Procs -> Seq(Receipt)]
  /\ produced \in [Procs -> SUBSET Outputs]
  /\ prior \in [Procs -> Telemetry]
  /\ size \in [Procs -> Nat \cup {Unscanned}]
  /\ seq \in [Procs -> 0..MaxSequence]
  /\ target \in [Procs -> 0..MaxSequence]
  /\ fresh \in [Procs -> BOOLEAN]
  /\ results \subseteq Seq(Receipt)
  /\ crashes \in 0..MaxCrashes

\* "Scientific outputs are written before checkpoint commitment": whatever
\* the interleaving and wherever a process dies, every receipt in every
\* checkpoint names an artifact that is on disk with exactly that output.
CheckpointsBacked ==
  \A s \in DOMAIN ckpt : \A i \in DOMAIN ckpt[s] :
    LET r == ckpt[s][i]
    IN r[1] \in DOMAIN artifacts /\ artifacts[r[1]] = r[2]

\* A committed checkpoint is never replaced by another (the history checks of
\* RunCheckpointStore.commit; os.replace would overwrite silently).
HistoryAppendOnly ==
  [][\A s \in DOMAIN ckpt : s \in DOMAIN ckpt' /\ ckpt'[s] = ckpt[s]]_vars

\* "Recomputation must reproduce the identical bytes; otherwise the run fails
\* closed": an artifact file, even one a crash left without a checkpoint, is
\* never replaced by other bytes, and its damage is never papered over.
ArtifactsImmutable ==
  [][/\ \A u \in DOMAIN artifacts : u \in DOMAIN artifacts' /\ artifacts'[u] = artifacts[u]
     /\ badUnits \subseteq badUnits']_vars

\* The checkpoint chain is contiguous, and checkpoint s holds exactly the
\* first s planned units in plan order: resuming skips none, repeats none.
ChainFollowsPlan ==
  /\ DOMAIN ckpt = 1..LatestSequence
  /\ \A s \in DOMAIN ckpt : UnitIds(ckpt[s]) = SubSeq(Plan, 1, s)

\* Interrupted/resumed equivalence: all complete results that invocations of
\* one run return are the same, and they are what is on disk.
ResultsAgree ==
  \A r \in results : r = Latest

\* Crashing never hides work from the capacity envelope: the telemetry has
\* accounted at least every committed unit (account_unit precedes commit).
CommittedUnitsAccounted ==
  telemetry.units >= Len(Latest)

\* What a checkpoint stands for: see the parts.
CheckpointInv == CheckpointsBacked /\ CommittedUnitsAccounted

\* CAPACITY_EXCEEDED is final: once the persisted telemetry is outside the
\* envelope no invocation, resumed or running, commits another checkpoint.
CapacityExceededIsFinal ==
  [][~WithinT0(telemetry) => ckpt' = ckpt /\ ~WithinT0(telemetry')]_vars

\* A committed file is damaged and no invocation is past its verification.
DamagedBeforeResume ==
  /\ badSeqs # {} \/ badUnits \cap Done(Latest) # {}
  /\ \A p \in Procs : pc[p] \in {"idle", "consume", "latest"}

\* Fail closed: from then on no resume gets past the verification, so the
\* run neither extends its history nor returns a result.
DamageFailsClosed ==
  [][DamagedBeforeResume => DamagedBeforeResume' /\ results' = results /\ ckpt' = ckpt]_vars

\* With a reproducible worker, enough capacity and finitely many crashes the
\* run completes unless a file it needs is damaged: no crash may leave a state
\* that every later resume rejects.
Completes == <>(results # {} \/ badSeqs # {} \/ badUnits # {})

\* The worker is reproducible: recomputing a unit gives the same output.
Reproducible == \A u \in Units : \A o, q \in Results[u] : o = q

\* The first n receipts of a run whose worker is reproducible.
Golden(n) == [i \in 1..n |-> <<Plan[i], CHOOSE o \in Results[Plan[i]] : TRUE>>]

\* Past its worker, before its checkpoint / with a new receipt in `committed`.
Working == {"account", "accounted", "artifact", "write"}
Committing == {"checkpoint", "publish"}

\* The checkpoint files are the golden log and the artifacts stand behind it.
GoldenFiles ==
  /\ DOMAIN ckpt = 1..LatestSequence
  /\ LatestSequence <= Len(Plan)
  /\ \A s \in DOMAIN ckpt : ckpt[s] = Golden(s) /\ Plan[s] \in DOMAIN artifacts
  /\ \A u \in DOMAIN artifacts : artifacts[u] \in Results[u]

\* Invocation p is at a place of the golden log that the files have reached.
GoldenPlace(p) ==
  /\ seq[p] <= LatestSequence
  /\ pc[p] \in {"loop"} \cup Working => committed[p] = Golden(seq[p])
  /\ pc[p] \in Working =>
       seq[p] < Len(Plan) /\ produced[p] \subseteq Results[Plan[seq[p] + 1]]
  /\ pc[p] \in Committing =>
       /\ seq[p] < Len(Plan)
       /\ committed[p] = Golden(seq[p] + 1)
       /\ Plan[seq[p] + 1] \in DOMAIN artifacts
  /\ pc[p] = "publish" => target[p] = seq[p] + 1

\* A complete result is the whole golden log.
GoldenResults ==
  \A r \in results : r = Golden(Len(Plan)) /\ LatestSequence = Len(Plan)

\* What CachedRunCheckpointStoreV11 keeps true for a reproducible worker while
\* any number of invocations race: the files hold nothing but the golden log,
\* no invocation has overtaken them, and complete results are all of it.
GoldenLog == GoldenFiles /\ (\A p \in Procs : GoldenPlace(p)) /\ GoldenResults

\* RunLedger is the promise made to the rest of the programme: the latest
\* checkpoint is a log of receipts that only grows, one planned unit a time.
Ledger == INSTANCE RunLedger WITH log <- Latest
LedgerSpec == Ledger!Spec
===============================================================================

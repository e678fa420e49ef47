--------------------------- MODULE DurableRun_proofs ---------------------------
(***************************************************************************)
(* Theorems about DurableRun, for every plan, every number of processes,   *)
(* crashes and damaged files.                                              *)
(***************************************************************************)
EXTENDS DurableRun, FiniteSetTheorems, SequenceTheorems, TLAPS

(***************************************************************************)
(* Facts about the constants and the helpers                               *)
(***************************************************************************)

\* The plan is a sequence without repetitions over finitely many units.
LEMMA PlanFacts ==
  /\ Len(Plan) \in Nat
  /\ DOMAIN Plan = 1..Len(Plan)
  /\ \A i \in 1..Len(Plan) : Plan[i] \in Units
  /\ \A u \in Units : \E i \in 1..Len(Plan) : u = Plan[i]
  /\ IsFiniteSet(Units)
<1>1. /\ Len(Plan) \in Nat
      /\ DOMAIN Plan = 1..Len(Plan)
      /\ Plan \in [1..Len(Plan) -> Units]
  BY PlanAssumption
<1>2. \A u \in Units : \E i \in 1..Len(Plan) : u = Plan[i]
  BY <1>1 DEF Units, Range
<1>3. IsFiniteSet(1..Len(Plan))
  BY <1>1, FS_Interval
<1>4. Plan \in Surjection(1..Len(Plan), Units)
  BY <1>1, <1>2 DEF Surjection
<1>5. IsFiniteSet(Units)
  BY <1>3, <1>4, FS_Surjection
<1> QED
  BY <1>1, <1>2, <1>5

\* The directory scan of total_bytes yields a number.
LEMMA ScannedBytesNat ==
  ASSUME DOMAIN artifacts \subseteq Units,
         \A u \in DOMAIN artifacts : artifacts[u] \in Outputs
  PROVE  IsFiniteSet(StoredBytes) /\ ScannedBytes \in Nat
<1> DEFINE file == [u \in DOMAIN artifacts |-> {u} \X (1..Bytes[artifacts[u]])]
           files == {{u} \X (1..Bytes[artifacts[u]]) : u \in DOMAIN artifacts}
<1>1. IsFiniteSet(DOMAIN artifacts)
  BY PlanFacts, FS_Subset
<1>2. file \in Surjection(DOMAIN artifacts, files)
  BY DEF Surjection
<1>3. IsFiniteSet(files)
  BY <1>1, <1>2, FS_Surjection
<1>4. ASSUME NEW u \in DOMAIN artifacts
      PROVE  IsFiniteSet({u} \X (1..Bytes[artifacts[u]]))
  <2>1. Bytes[artifacts[u]] \in Nat
    BY CapacityAssumption
  <2>2. IsFiniteSet(1..Bytes[artifacts[u]])
    BY <2>1, FS_Interval
  <2> QED
    BY <2>2, FS_Singleton, FS_Product
<1>5. IsFiniteSet(StoredBytes)
  BY <1>3, <1>4, FS_UNION DEF StoredBytes
<1> QED
  BY <1>5, FS_CardinalityType DEF ScannedBytes

\* The number of checkpoint files is a sequence number.
LEMMA LatestSequenceType ==
  ASSUME DOMAIN ckpt \subseteq 1..MaxSequence
  PROVE  /\ IsFiniteSet(DOMAIN ckpt)
         /\ LatestSequence \in 0..MaxSequence
<1>1. MaxSequence \in Nat
  BY CapacityAssumption
<1>2. IsFiniteSet(1..MaxSequence) /\ Cardinality(1..MaxSequence) = MaxSequence
  BY <1>1, FS_Interval
<1>3. /\ IsFiniteSet(DOMAIN ckpt)
      /\ Cardinality(DOMAIN ckpt) <= MaxSequence
  BY <1>2, FS_Subset
<1> QED
  BY <1>1, <1>3, FS_CardinalityType DEF LatestSequence

(***************************************************************************)
(* Type correctness                                                        *)
(***************************************************************************)

\* The strengthening that makes TypeOK inductive: an invocation that is about to
\* write an artifact has scanned the directory, and one that is about to write
\* a checkpoint has chosen its sequence.
WritesPrepared ==
  \A p \in Procs :
    /\ pc[p] = "write" => size[p] \in Nat
    /\ pc[p] = "publish" => target[p] \in 1..MaxSequence

TypeInv == TypeOK /\ WritesPrepared

\* Clearing an invocation's memory keeps the types of the locals.
LEMMA LeaveType ==
  ASSUME TypeOK, NEW p \in Procs, Leave(p)
  PROVE  /\ pc' \in [Procs -> Labels]
         /\ committed' \in [Procs -> Seq(Receipt)]
         /\ produced' \in [Procs -> SUBSET Outputs]
         /\ prior' \in [Procs -> Telemetry]
         /\ size' \in [Procs -> Nat \cup {Unscanned}]
         /\ seq' \in [Procs -> 0..MaxSequence]
         /\ target' \in [Procs -> 0..MaxSequence]
         /\ fresh' \in [Procs -> BOOLEAN]
<1>1. << >> \in Seq(Receipt) /\ NoTelemetry \in Telemetry /\ 0 \in 0..MaxSequence
  BY CapacityAssumption DEF NoTelemetry, Telemetry
<1> QED
  BY <1>1 DEF TypeOK, Leave, Labels

LEMMA RaiseType ==
  ASSUME TypeOK, NEW p \in Procs, Raise(p)
  PROVE  TypeOK'
BY LeaveType DEF Raise, TypeOK, durable, damage

\* A step that prepares no write and leaves the sizes and targets of the
\* invocations that are about to write alone keeps WritesPrepared.
LEMMA WritesPreparedFrame ==
  ASSUME TypeInv, NEW p \in Procs, pc'[p] \notin {"write", "publish"},
         \A q \in Procs \ {p} : /\ pc'[q] = pc[q]
                                /\ size'[q] = size[q]
                                /\ target'[q] = target[q]
  PROVE  WritesPrepared'
BY DEF WritesPrepared, TypeInv

\* The next planned unit is a unit, and an output of its worker is an output.
LEMMA NextUnitType ==
  ASSUME NEW i \in DOMAIN Plan
  PROVE  /\ Plan[i] \in Units
         /\ Results[Plan[i]] \subseteq Outputs
BY PlanFacts DEF Outputs

\* account_unit keeps the shape of the telemetry.
LEMMA AccountedType ==
  ASSUME NEW t \in Telemetry, NEW w \in Walls, NEW r \in RssSamples
  PROVE  Accounted(t, w, r) \in Telemetry
BY CapacityAssumption DEF Accounted, Telemetry, Capped

\* The type invariant with its strengthening is inductive.
LEMMA TypeInvariant == Spec => []TypeInv
<1>1. Init => TypeInv
  <2> SUFFICES ASSUME Init PROVE TypeInv
    OBVIOUS
  <2>1. << >> \in Seq(Receipt) /\ NoTelemetry \in Telemetry /\ 0 \in 0..MaxSequence
    BY CapacityAssumption DEF NoTelemetry, Telemetry
  <2>2. DOMAIN artifacts = {} /\ DOMAIN ckpt = {}
    BY DEF Init
  <2>3. crashes \in 0..MaxCrashes /\ -1 \in Nat \cup {Unscanned}
    BY CapacityAssumption DEF Init, Unscanned
  <2>4. TypeOK
    BY <2>1, <2>2, <2>3 DEF Init, TypeOK, Labels, Unscanned
  <2>5. WritesPrepared
    BY DEF Init, WritesPrepared
  <2> QED
    BY <2>4, <2>5 DEF TypeInv
<1>2. TypeInv /\ [Next]_vars => TypeOK'
  <2> SUFFICES ASSUME TypeInv, [Next]_vars PROVE TypeOK'
    OBVIOUS
  <2> USE DEF TypeInv
  <2> USE DEF durable, damage, Goto
  <2>1. ASSUME NEW p \in Procs, StartChecks(p) PROVE TypeOK'
    BY <2>1 DEF TypeOK, StartChecks, Labels
  <2>2. ASSUME NEW p \in Procs, StartConsumes(p) PROVE TypeOK'
    BY <2>2 DEF TypeOK, StartConsumes, Labels
  <2>3. ASSUME NEW p \in Procs, ResumeLoads(p) PROVE TypeOK'
    BY <2>3 DEF TypeOK, ResumeLoads, Labels
  <2>4. ASSUME NEW p \in Procs, LoadLatest(p) PROVE TypeOK'
    <3>1. CASE Raise(p)
      BY <3>1, RaiseType
    <3>2. CASE /\ ChainVerifies
               /\ committed' = [committed EXCEPT ![p] = ResumedReceipts]
               /\ seq' = [seq EXCEPT ![p] = LatestSequence]
               /\ Goto(p, "loop")
               /\ UNCHANGED <<durable, damage, produced, prior, size, target,
                              fresh, results, crashes>>
      <4>1. LatestSequence \in 0..MaxSequence
        BY LatestSequenceType DEF TypeOK
      <4>2. LatestSequence # 0 => LatestSequence \in DOMAIN ckpt
        BY <3>2, <4>1, CapacityAssumption DEF ChainVerifies
      <4>3. ResumedReceipts \in Seq(Receipt)
        BY <4>2 DEF ResumedReceipts, Latest, TypeOK
      <4> QED
        BY <3>2, <4>1, <4>3 DEF TypeOK, Labels
    <3> QED
      BY <2>4, <3>1, <3>2 DEF LoadLatest
  <2>5. ASSUME NEW p \in Procs, Compute(p) PROVE TypeOK'
    <3>1. CASE Raise(p)
      BY <3>1, RaiseType
    <3>2. ASSUME NEW i \in DOMAIN Plan, NEW o \in Results[Plan[i]],
                 produced' = [produced EXCEPT ![p] = {o}],
                 Goto(p, "account"),
                 UNCHANGED <<durable, damage, committed, prior, size, seq,
                             target, fresh, results, crashes>>
          PROVE  TypeOK'
      BY <3>2, NextUnitType DEF TypeOK, Labels
    <3> QED
      BY <2>5, <3>1, <3>2 DEF Compute
  <2>6. ASSUME NEW p \in Procs, AccountReads(p) PROVE TypeOK'
    BY <2>6 DEF TypeOK, AccountReads, Labels
  <2>7. ASSUME NEW p \in Procs, AccountWrites(p) PROVE TypeOK'
    <3> PICK w \in Walls, r \in RssSamples :
          LET now == Accounted(prior[p], w, r)
          IN /\ telemetry' = now
             /\ \/ /\ Goto(p, "artifact")
                   /\ UNCHANGED <<committed, produced, prior, size, seq, target, fresh>>
                \/ Leave(p)
      BY <2>7 DEF AccountWrites
    <3>1. telemetry' \in Telemetry
      BY AccountedType DEF TypeOK
    <3>2. UNCHANGED <<consumed, artifacts, ckpt, damage, results, crashes>>
      BY <2>7 DEF AccountWrites
    <3>3. CASE Leave(p)
      BY <3>1, <3>2, <3>3, LeaveType DEF TypeOK
    <3>4. CASE /\ Goto(p, "artifact")
               /\ UNCHANGED <<committed, produced, prior, size, seq, target, fresh>>
      BY <3>1, <3>2, <3>4 DEF TypeOK, Labels
    <3> QED
      BY <3>3, <3>4
  <2>8. ASSUME NEW p \in Procs, CommitOutputChecks(p) PROVE TypeOK'
    <3> PICK i \in DOMAIN Plan, o \in produced[p] :
          CommitOutputChecks(p)!2!(i, o)
      BY <2>8 DEF CommitOutputChecks
    <3>1. o \in Outputs /\ Plan[i] \in Units
      BY NextUnitType DEF TypeOK
    <3>2. CASE Raise(p)
      BY <3>2, RaiseType
    <3>3. CASE /\ committed' = [committed EXCEPT ![p] = Append(@, <<Plan[i], o>>)]
               /\ Goto(p, "checkpoint")
               /\ UNCHANGED <<durable, damage, produced, prior, size, seq,
                              target, fresh, results, crashes>>
      <4>1. Append(committed[p], <<Plan[i], o>>) \in Seq(Receipt)
        BY <3>1 DEF TypeOK, Receipt
      <4> QED
        BY <3>3, <4>1 DEF TypeOK, Labels
    <3>4. CASE /\ size' = [size EXCEPT ![p] = IF size[p] = Unscanned THEN ScannedBytes ELSE size[p]]
               /\ Goto(p, "write")
               /\ UNCHANGED <<durable, damage, committed, produced, prior,
                              seq, target, fresh, results, crashes>>
      <4>1. ScannedBytes \in Nat
        BY ScannedBytesNat DEF TypeOK
      <4> QED
        BY <3>4, <4>1 DEF TypeOK, Labels
    <3> QED
      BY <3>2, <3>3, <3>4
  <2>9. ASSUME NEW p \in Procs, CommitOutputWrites(p) PROVE TypeOK'
    <3> PICK i \in DOMAIN Plan, o \in produced[p] :
          /\ artifacts' = Put(artifacts, Plan[i], o)
          /\ badUnits' = badUnits \ {Plan[i]}
          /\ size' = [size EXCEPT ![p] = RecordedBytes(@, Bytes[o])]
          /\ committed' = [committed EXCEPT ![p] = Append(@, <<Plan[i], o>>)]
      BY <2>9 DEF CommitOutputWrites
    <3>1. o \in Outputs /\ Plan[i] \in Units
      BY NextUnitType DEF TypeOK
    <3>2. Append(committed[p], <<Plan[i], o>>) \in Seq(Receipt)
      BY <3>1 DEF TypeOK, Receipt
    <3>3. RecordedBytes(size[p], Bytes[o]) \in Nat
      BY <2>9, <3>1, CapacityAssumption DEF RecordedBytes, WritesPrepared, CommitOutputWrites
    <3>4. /\ DOMAIN artifacts' \subseteq Units
          /\ \A u \in DOMAIN artifacts' : artifacts'[u] \in Outputs
          /\ badUnits' \subseteq DOMAIN artifacts'
      BY <3>1 DEF Put, TypeOK
    <3> QED
      BY <2>9, <3>2, <3>3, <3>4 DEF TypeOK, CommitOutputWrites, Labels
  <2>10. ASSUME NEW p \in Procs, CommitChecks(p) PROVE TypeOK'
    <3>1. CASE Raise(p)
      BY <3>1, RaiseType
    <3>2. NextSequence(p) \in Nat
      BY LatestSequenceType, CapacityAssumption DEF NextSequence, TypeOK
    <3>3. CASE /\ target' = [target EXCEPT ![p] = NextSequence(p)]
               /\ NextSequence(p) <= MaxSequence
               /\ Goto(p, "publish")
               /\ UNCHANGED <<durable, damage, committed, produced, prior, size,
                              seq, fresh, results, crashes>>
      BY <3>2, <3>3, CapacityAssumption DEF TypeOK, Labels
    <3> QED
      BY <2>10, <3>1, <3>3 DEF CommitChecks
  <2>11. ASSUME NEW p \in Procs, CommitWrites(p) PROVE TypeOK'
    <3>1. target[p] \in 1..MaxSequence
      BY <2>11 DEF CommitWrites, WritesPrepared
    <3>2. /\ DOMAIN ckpt' \subseteq 1..MaxSequence
          /\ \A s \in DOMAIN ckpt' : ckpt'[s] \in Seq(Receipt)
          /\ badSeqs' \subseteq DOMAIN ckpt'
      BY <2>11, <3>1 DEF CommitWrites, Put, TypeOK
    <3> QED
      BY <2>11, <3>1, <3>2 DEF TypeOK, CommitWrites, Labels
  <2>12. ASSUME NEW p \in Procs, StopEarly(p) PROVE TypeOK'
    BY <2>12, RaiseType DEF StopEarly
  <2>13. ASSUME NEW p \in Procs, Finish(p) PROVE TypeOK'
    <3>1. results' \subseteq Seq(Receipt)
      BY <2>13 DEF Finish, TypeOK
    <3> QED
      BY <2>13, <3>1, LeaveType DEF TypeOK, Finish
  <2>14. ASSUME NEW p \in Procs, Crash(p) PROVE TypeOK'
    <3>1. crashes' \in 0..MaxCrashes
      BY <2>14, CapacityAssumption DEF Crash, TypeOK
    <3> QED
      BY <2>14, <3>1, LeaveType DEF TypeOK, Crash
  <2>15. CASE Damage
    BY <2>15 DEF TypeOK, Damage, local
  <2>16. CASE UNCHANGED vars
    BY <2>16 DEF TypeOK, vars, local
  <2> QED
    BY <2>1, <2>2, <2>3, <2>4, <2>5, <2>6, <2>7, <2>8, <2>9, <2>10, <2>11,
       <2>12, <2>13, <2>14, <2>15, <2>16 DEF Next, Step
<1>3. TypeInv /\ [Next]_vars => WritesPrepared'
  <2> SUFFICES ASSUME TypeInv, [Next]_vars PROVE WritesPrepared'
    OBVIOUS
  <2> USE DEF TypeInv, TypeOK, Goto, Leave, Raise
  <2>1. ASSUME NEW p \in Procs, Step(p) \/ StopEarly(p) \/ Crash(p),
               ~ CommitOutputChecks(p), ~ CommitChecks(p)
        PROVE  WritesPrepared'
    <3>1. CASE StartChecks(p) \/ StartConsumes(p) \/ ResumeLoads(p) \/ LoadLatest(p)
      BY <3>1, WritesPreparedFrame
         DEF StartChecks, StartConsumes, ResumeLoads, LoadLatest
    <3>2. CASE Compute(p) \/ AccountReads(p) \/ AccountWrites(p)
      BY <3>2, WritesPreparedFrame DEF Compute, AccountReads, AccountWrites
    <3>3. CASE CommitOutputWrites(p) \/ CommitWrites(p)
      BY <3>3, WritesPreparedFrame DEF CommitOutputWrites, CommitWrites
    <3>4. CASE StopEarly(p) \/ Finish(p) \/ Crash(p)
      BY <3>4, WritesPreparedFrame DEF StopEarly, Finish, Crash
    <3> QED
      BY <2>1, <3>1, <3>2, <3>3, <3>4 DEF Step
  <2>2. ASSUME NEW p \in Procs, CommitOutputChecks(p) PROVE WritesPrepared'
    <3>1. CASE pc'[p] # "write"
      BY <2>2, <3>1, WritesPreparedFrame DEF CommitOutputChecks
    <3>2. CASE pc'[p] = "write"
      <4>1. /\ size' = [size EXCEPT ![p] = IF size[p] = Unscanned THEN ScannedBytes ELSE size[p]]
            /\ pc' = [pc EXCEPT ![p] = "write"]
            /\ target' = target
        BY <2>2, <3>2 DEF CommitOutputChecks
      <4>2. ScannedBytes \in Nat
        BY ScannedBytesNat
      <4> QED
        BY <4>1, <4>2 DEF WritesPrepared
    <3> QED
      BY <3>1, <3>2
  <2>3. ASSUME NEW p \in Procs, CommitChecks(p) PROVE WritesPrepared'
    <3>1. CASE pc'[p] # "publish"
      BY <2>3, <3>1, WritesPreparedFrame DEF CommitChecks
    <3>2. CASE pc'[p] = "publish"
      <4>1. /\ target' = [target EXCEPT ![p] = NextSequence(p)]
            /\ NextSequence(p) <= MaxSequence
            /\ pc' = [pc EXCEPT ![p] = "publish"]
            /\ size' = size
        BY <2>3, <3>2 DEF CommitChecks
      <4>2. NextSequence(p) \in Nat \ {0}
        BY LatestSequenceType, CapacityAssumption DEF NextSequence
      <4> QED
        BY <4>1, <4>2, CapacityAssumption DEF WritesPrepared
    <3> QED
      BY <3>1, <3>2
  <2>4. CASE Damage \/ UNCHANGED vars
    BY <2>4 DEF Damage, vars, local, WritesPrepared
  <2> QED
    BY <2>1, <2>2, <2>3, <2>4 DEF Next, Step
<1> QED
  BY <1>1, <1>2, <1>3, PTL DEF Spec, TypeInv

\* Every store and every local of an invocation keeps the shape the code gives
\* it, whatever processes, crashes and damaged files there are.
THEOREM TypeCorrect == Spec => []TypeOK
BY TypeInvariant, PTL DEF TypeInv

(***************************************************************************)
(* Racing invocations of a reproducible run over the cached store          *)
(***************************************************************************)

\* Golden(n) is the receipts of the first n planned units.
LEMMA GoldenFacts ==
  ASSUME NEW n \in 0..Len(Plan)
  PROVE  /\ Golden(n) \in Seq(Receipt)
         /\ Len(Golden(n)) = n
         /\ \A i \in 1..n : Golden(n)[i][1] = Plan[i] /\ Golden(n)[i][2] \in Results[Plan[i]]
         /\ Done(Golden(n)) = {Plan[i] : i \in 1..n}
<1>1. n \in Nat /\ 1..n \subseteq 1..Len(Plan)
  BY PlanFacts
<1>2. ASSUME NEW i \in 1..n
      PROVE  <<Plan[i], CHOOSE o \in Results[Plan[i]] : TRUE>> \in Receipt
             /\ (CHOOSE o \in Results[Plan[i]] : TRUE) \in Results[Plan[i]]
  <2>1. Plan[i] \in Units
    BY <1>1, PlanFacts
  <2>2. (CHOOSE o \in Results[Plan[i]] : TRUE) \in Results[Plan[i]]
    BY <2>1, WorkerAssumption
  <2> QED
    BY <2>1, <2>2 DEF Receipt, Outputs
<1>3. Golden(n) \in [1..n -> Receipt]
  BY <1>2 DEF Golden
<1>4. Golden(n) \in Seq(Receipt) /\ Len(Golden(n)) = n
  BY <1>1, <1>3
<1>5. \A i \in 1..n : Golden(n)[i][1] = Plan[i] /\ Golden(n)[i][2] \in Results[Plan[i]]
  BY <1>2 DEF Golden
<1>6. DOMAIN Golden(n) = 1..n
  BY DEF Golden
<1> QED
  BY <1>4, <1>5, <1>6 DEF Done

\* An invocation that has committed the first n units goes on with unit n + 1.
LEMMA NextUnitAfterGolden ==
  ASSUME NEW n \in 0..Len(Plan), NEW i \in DOMAIN Plan, IsNextUnit(i, Golden(n))
  PROVE  n < Len(Plan) /\ i = n + 1
<1>1. i \in 1..Len(Plan) /\ Len(Plan) \in Nat
  BY PlanFacts
<1>2. ~ (i <= n)
  BY <1>1, GoldenFacts DEF IsNextUnit
<1>3. ASSUME i > n + 1 PROVE FALSE
  <2>1. Plan[n + 1] \in Done(Golden(n))
    BY <1>1, <1>3 DEF IsNextUnit
  <2>2. PICK k \in 1..n : Plan[n + 1] = Plan[k]
    BY <2>1, GoldenFacts
  <2> QED
    BY <1>1, <1>3, <2>2, PlanAssumption
<1> QED
  BY <1>1, <1>2, <1>3

\* Committing unit n + 1 of a reproducible run extends the golden log.
LEMMA AppendGolden ==
  ASSUME Reproducible, NEW n \in 0..Len(Plan), n < Len(Plan),
         NEW o \in Results[Plan[n + 1]]
  PROVE  Append(Golden(n), <<Plan[n + 1], o>>) = Golden(n + 1)
<1>1. n + 1 \in 1..Len(Plan) /\ n \in Nat /\ Plan[n + 1] \in Units
  BY PlanFacts
<1>2. o = CHOOSE q \in Results[Plan[n + 1]] : TRUE
  BY <1>1 DEF Reproducible
<1>3. o \in Outputs
  BY <1>1 DEF Outputs
<1> DEFINE new == Append(Golden(n), <<Plan[n + 1], o>>)
<1>4. /\ Golden(n) \in Seq(Receipt) /\ Len(Golden(n)) = n
      /\ Golden(n + 1) \in Seq(Receipt) /\ Len(Golden(n + 1)) = n + 1
  BY <1>1, GoldenFacts
<1>5. new \in Seq(Receipt) /\ Len(new) = n + 1
  BY <1>1, <1>3, <1>4 DEF Receipt
<1>6. \A i \in 1..(n + 1) : new[i] = Golden(n + 1)[i]
  BY <1>1, <1>2, <1>4 DEF Golden
<1> QED
  BY <1>4, <1>5, <1>6, SeqEqual

\* A step of p that leaves the files and the results alone, and leads p to a
\* place of the golden log, keeps the whole invariant.
LEMMA GoldenFrame ==
  ASSUME GoldenLog, NEW p \in Procs,
         ckpt' = ckpt, artifacts' = artifacts, results' = results,
         GoldenPlace(p)',
         \A q \in Procs \ {p} :
           /\ pc'[q] = pc[q]
           /\ committed'[q] = committed[q]
           /\ produced'[q] = produced[q]
           /\ seq'[q] = seq[q]
           /\ target'[q] = target[q]
  PROVE  GoldenLog'
<1>1. LatestSequence' = LatestSequence
  BY DEF LatestSequence
<1>2. GoldenFiles' /\ GoldenResults'
  BY <1>1 DEF GoldenLog, GoldenFiles, GoldenResults
<1>3. ASSUME NEW q \in Procs \ {p} PROVE GoldenPlace(q)'
  BY <1>1 DEF GoldenLog, GoldenPlace
<1> QED
  BY <1>2, <1>3 DEF GoldenLog

\* An invocation that ends keeps the invariant.
LEMMA GoldenLeave ==
  ASSUME TypeOK, GoldenLog, NEW p \in Procs, Leave(p),
         ckpt' = ckpt, artifacts' = artifacts, results' = results
  PROVE  GoldenLog'
<1>1. LatestSequence' = LatestSequence /\ LatestSequence \in 0..MaxSequence
  BY LatestSequenceType DEF LatestSequence, TypeOK
<1>2. GoldenPlace(p)'
  BY <1>1, CapacityAssumption DEF GoldenPlace, Leave, TypeOK, Working, Committing
<1> QED
  BY <1>2, GoldenFrame DEF Leave, TypeOK

\* With the cached store and a reproducible worker every step keeps the golden
\* log.
LEMMA GoldenStep ==
  ASSUME Cached, Reproducible, TypeInv, GoldenLog, [Next]_vars
  PROVE  GoldenLog'
<1> USE DEF durable, damage, Goto
<1>0. /\ TypeOK
      /\ LatestSequence \in 0..MaxSequence
      /\ LatestSequence \in 0..Len(Plan)
      /\ \A p \in Procs : seq[p] \in 0..Len(Plan)
  BY LatestSequenceType, PlanFacts, CapacityAssumption
     DEF TypeInv, TypeOK, GoldenLog, GoldenFiles, GoldenPlace
<1>1. ASSUME NEW p \in Procs,
             StartChecks(p) \/ StartConsumes(p) \/ ResumeLoads(p)
      PROVE  GoldenLog'
  <2>1. LatestSequence' = LatestSequence
    BY <1>1 DEF LatestSequence, StartChecks, StartConsumes, ResumeLoads
  <2>2. GoldenPlace(p)'
    BY <1>0, <1>1, <2>1
       DEF GoldenLog, GoldenPlace, StartChecks, StartConsumes, ResumeLoads,
           TypeOK, Working, Committing
  <2> QED
    BY <1>0, <1>1, <2>2, GoldenFrame DEF StartChecks, StartConsumes, ResumeLoads, TypeOK
<1>2. ASSUME NEW p \in Procs, LoadLatest(p) PROVE GoldenLog'
  <2>1. CASE Raise(p)
    BY <1>0, <2>1, GoldenLeave DEF Raise
  <2>2. CASE /\ committed' = [committed EXCEPT ![p] = ResumedReceipts]
             /\ seq' = [seq EXCEPT ![p] = LatestSequence]
             /\ Goto(p, "loop")
             /\ UNCHANGED <<durable, damage, produced, prior, size, target,
                            fresh, results, crashes>>
    <3>1. Latest = Golden(LatestSequence)
      <4>1. CASE LatestSequence = 0
        BY <4>1 DEF Latest, Golden
      <4>2. CASE LatestSequence # 0
        BY <1>0, <4>2, CapacityAssumption DEF Latest, GoldenLog, GoldenFiles
      <4> QED
        BY <4>1, <4>2
    <3>2. LatestSequence' = LatestSequence
      BY <2>2 DEF LatestSequence
    <3>3. GoldenPlace(p)'
      BY <1>0, <2>2, <3>1, <3>2
         DEF GoldenPlace, ResumedReceipts, TypeOK, Working, Committing
    <3> QED
      BY <1>0, <2>2, <3>3, GoldenFrame DEF TypeOK
  <2> QED
    BY <1>2, <2>1, <2>2 DEF LoadLatest
<1>3. ASSUME NEW p \in Procs, Compute(p) PROVE GoldenLog'
  <2>1. CASE Raise(p)
    BY <1>0, <2>1, GoldenLeave DEF Raise
  <2>2. ASSUME NEW i \in DOMAIN Plan, IsNextUnit(i, committed[p]),
               NEW o \in Results[Plan[i]],
               produced' = [produced EXCEPT ![p] = {o}],
               Goto(p, "account"),
               UNCHANGED <<durable, damage, committed, prior, size, seq,
                           target, fresh, results, crashes>>
        PROVE  GoldenLog'
    <3>1. pc[p] = "loop" /\ committed[p] = Golden(seq[p])
      BY <1>3 DEF Compute, GoldenLog, GoldenPlace
    <3>2. seq[p] < Len(Plan) /\ i = seq[p] + 1
      BY <1>0, <2>2, <3>1, NextUnitAfterGolden
    <3>3. LatestSequence' = LatestSequence
      BY <2>2 DEF LatestSequence
    <3>4. GoldenPlace(p)'
      BY <1>0, <2>2, <3>1, <3>2, <3>3
         DEF GoldenLog, GoldenPlace, TypeOK, Working, Committing
    <3> QED
      BY <1>0, <2>2, <3>4, GoldenFrame DEF TypeOK
  <2> QED
    BY <1>3, <2>1, <2>2 DEF Compute
<1>4. ASSUME NEW p \in Procs, AccountReads(p) PROVE GoldenLog'
  <2>1. LatestSequence' = LatestSequence
    BY <1>4 DEF LatestSequence, AccountReads
  <2>2. GoldenPlace(p)'
    BY <1>0, <1>4, <2>1
       DEF GoldenLog, GoldenPlace, AccountReads, TypeOK, Working, Committing
  <2> QED
    BY <1>0, <1>4, <2>2, GoldenFrame DEF AccountReads, TypeOK
<1>5. ASSUME NEW p \in Procs, AccountWrites(p) PROVE GoldenLog'
  <2>1. UNCHANGED <<ckpt, artifacts, results>>
    BY <1>5 DEF AccountWrites
  <2>2. CASE Leave(p)
    BY <1>0, <2>1, <2>2, GoldenLeave
  <2>3. CASE /\ Goto(p, "artifact")
             /\ UNCHANGED <<committed, produced, prior, size, seq, target, fresh>>
    <3>1. LatestSequence' = LatestSequence
      BY <2>1 DEF LatestSequence
    <3>2. pc[p] = "accounted"
      BY <1>5 DEF AccountWrites
    <3>3. GoldenPlace(p)'
      BY <1>0, <2>3, <3>1, <3>2
         DEF GoldenLog, GoldenPlace, TypeOK, Working, Committing
    <3> QED
      BY <1>0, <2>1, <2>3, <3>3, GoldenFrame DEF TypeOK
  <2> QED
    BY <1>5, <2>2, <2>3 DEF AccountWrites
<1>6. ASSUME NEW p \in Procs, CommitOutputChecks(p) PROVE GoldenLog'
  <2> PICK i \in DOMAIN Plan, o \in produced[p] : CommitOutputChecks(p)!2!(i, o)
    BY <1>6 DEF CommitOutputChecks
  <2>1. pc[p] = "artifact" /\ committed[p] = Golden(seq[p])
    BY <1>6 DEF CommitOutputChecks, GoldenLog, GoldenPlace, Working
  <2>2. seq[p] < Len(Plan) /\ i = seq[p] + 1 /\ o \in Results[Plan[seq[p] + 1]]
    BY <1>0, <2>1, NextUnitAfterGolden DEF GoldenLog, GoldenPlace, Working
  <2>3. CASE Raise(p)
    BY <1>0, <2>3, GoldenLeave DEF Raise
  <2>4. CASE /\ OutputExists(Plan[i])
             /\ committed' = [committed EXCEPT ![p] = Append(@, <<Plan[i], o>>)]
             /\ Goto(p, "checkpoint")
             /\ UNCHANGED <<durable, damage, produced, prior, size, seq,
                            target, fresh, results, crashes>>
    <3>1. LatestSequence' = LatestSequence
      BY <2>4 DEF LatestSequence
    <3>2. committed'[p] = Golden(seq[p] + 1)
      BY <1>0, <2>1, <2>2, <2>4, AppendGolden DEF TypeOK
    <3>3. GoldenPlace(p)'
      BY <1>0, <2>2, <2>4, <3>1, <3>2
         DEF GoldenLog, GoldenPlace, OutputExists, TypeOK, Working, Committing
    <3> QED
      BY <1>0, <2>4, <3>3, GoldenFrame DEF TypeOK
  <2>5. CASE /\ Goto(p, "write")
             /\ UNCHANGED <<durable, damage, committed, produced, prior,
                            seq, target, fresh, results, crashes>>
    <3>1. LatestSequence' = LatestSequence
      BY <2>5 DEF LatestSequence
    <3>2. GoldenPlace(p)'
      BY <1>0, <2>1, <2>5, <3>1
         DEF GoldenLog, GoldenPlace, TypeOK, Working, Committing
    <3> QED
      BY <1>0, <2>5, <3>2, GoldenFrame DEF TypeOK
  <2> QED
    BY <2>3, <2>4, <2>5
<1>7. ASSUME NEW p \in Procs, CommitOutputWrites(p) PROVE GoldenLog'
  <2> PICK i \in DOMAIN Plan, o \in produced[p] :
        /\ IsNextUnit(i, committed[p])
        /\ artifacts' = Put(artifacts, Plan[i], o)
        /\ committed' = [committed EXCEPT ![p] = Append(@, <<Plan[i], o>>)]
    BY <1>7 DEF CommitOutputWrites
  <2>1. /\ pc[p] = "write" /\ pc' = [pc EXCEPT ![p] = "checkpoint"]
        /\ UNCHANGED <<ckpt, results, produced, seq, target>>
    BY <1>7 DEF CommitOutputWrites
  <2>2. committed[p] = Golden(seq[p])
    BY <2>1 DEF GoldenLog, GoldenPlace, Working
  <2>3. seq[p] < Len(Plan) /\ i = seq[p] + 1 /\ o \in Results[Plan[i]]
    BY <1>0, <2>1, <2>2, NextUnitAfterGolden DEF GoldenLog, GoldenPlace, Working
  <2>4. committed'[p] = Golden(seq[p] + 1)
    BY <1>0, <2>2, <2>3, AppendGolden DEF TypeOK
  <2>5. /\ DOMAIN artifacts' = DOMAIN artifacts \cup {Plan[i]}
        /\ \A u \in DOMAIN artifacts' : artifacts'[u] \in Results[u]
    BY <2>3 DEF Put, GoldenLog, GoldenFiles
  <2>6. LatestSequence' = LatestSequence
    BY <2>1 DEF LatestSequence
  <2>7. GoldenFiles' /\ GoldenResults'
    BY <2>1, <2>5, <2>6 DEF GoldenLog, GoldenFiles, GoldenResults
  <2>8. GoldenPlace(p)'
    BY <1>0, <2>1, <2>3, <2>4, <2>5, <2>6
       DEF GoldenLog, GoldenPlace, TypeOK, Working, Committing
  <2>9. ASSUME NEW q \in Procs \ {p} PROVE GoldenPlace(q)'
    BY <1>0, <2>1, <2>5, <2>6 DEF GoldenLog, GoldenPlace, TypeOK
  <2> QED
    BY <2>7, <2>8, <2>9 DEF GoldenLog
<1>8. ASSUME NEW p \in Procs, CommitChecks(p) PROVE GoldenLog'
  <2>1. CASE Raise(p)
    BY <1>0, <2>1, GoldenLeave DEF Raise
  <2>2. CASE /\ target' = [target EXCEPT ![p] = NextSequence(p)]
             /\ Goto(p, "publish")
             /\ UNCHANGED <<durable, damage, committed, produced, prior, size,
                            seq, fresh, results, crashes>>
    <3>1. LatestSequence' = LatestSequence
      BY <2>2 DEF LatestSequence
    <3>2. pc[p] = "checkpoint"
      BY <1>8 DEF CommitChecks
    <3>3. GoldenPlace(p)'
      BY <1>0, <2>2, <3>1, <3>2
         DEF GoldenLog, GoldenPlace, NextSequence, TypeOK, Working, Committing
    <3> QED
      BY <1>0, <2>2, <3>3, GoldenFrame DEF TypeOK
  <2> QED
    BY <1>8, <2>1, <2>2 DEF CommitChecks
<1>9. ASSUME NEW p \in Procs, CommitWrites(p) PROVE GoldenLog'
  <2>1. /\ pc[p] = "publish" /\ pc' = [pc EXCEPT ![p] = "loop"]
        /\ ckpt' = Put(ckpt, target[p], committed[p])
        /\ seq' = [seq EXCEPT ![p] = target[p]]
        /\ produced' = [produced EXCEPT ![p] = {}]
        /\ UNCHANGED <<artifacts, committed, target, results>>
    BY <1>9 DEF CommitWrites
  <2>2. /\ target[p] = seq[p] + 1
        /\ committed[p] = Golden(seq[p] + 1)
        /\ seq[p] < Len(Plan)
        /\ seq[p] <= LatestSequence
        /\ Plan[seq[p] + 1] \in DOMAIN artifacts
    BY <2>1 DEF GoldenLog, GoldenPlace, Committing
  <2>3. DOMAIN ckpt' = DOMAIN ckpt \cup {target[p]}
    BY <2>1 DEF Put
  <2>4. /\ DOMAIN ckpt' = 1..LatestSequence'
        /\ LatestSequence' \in 0..Len(Plan)
        /\ LatestSequence <= LatestSequence'
        /\ target[p] <= LatestSequence'
    <3>1. IsFiniteSet(DOMAIN ckpt) /\ DOMAIN ckpt = 1..LatestSequence
      BY <1>0, LatestSequenceType DEF TypeOK, GoldenLog, GoldenFiles
    <3>2. CASE target[p] \in DOMAIN ckpt
      <4>1. DOMAIN ckpt' = DOMAIN ckpt
        BY <2>3, <3>2
      <4> QED
        BY <1>0, <3>1, <3>2, <4>1 DEF LatestSequence
    <3>3. CASE target[p] \notin DOMAIN ckpt
      <4>1. LatestSequence' = LatestSequence + 1
        BY <1>0, <2>3, <3>1, <3>3, FS_AddElement DEF LatestSequence
      <4>2. target[p] = LatestSequence + 1
        BY <1>0, <2>2, <3>1, <3>3, CapacityAssumption DEF TypeOK
      <4> QED
        BY <1>0, <2>2, <2>3, <3>1, <4>1, <4>2, PlanFacts DEF TypeOK
    <3> QED
      BY <3>2, <3>3
  <2>5. \A s \in DOMAIN ckpt' : ckpt'[s] = Golden(s) /\ Plan[s] \in DOMAIN artifacts
    BY <2>1, <2>2 DEF Put, GoldenLog, GoldenFiles
  <2>6. GoldenFiles'
    BY <2>1, <2>4, <2>5, PlanFacts DEF GoldenLog, GoldenFiles
  <2>7. GoldenResults'
    <3> SUFFICES ASSUME NEW r \in results'
                 PROVE  r = Golden(Len(Plan)) /\ LatestSequence' = Len(Plan)
      BY DEF GoldenResults
    <3>1. r = Golden(Len(Plan)) /\ LatestSequence = Len(Plan)
      BY <2>1 DEF GoldenLog, GoldenResults
    <3> QED
      BY <2>4, <3>1, PlanFacts
  <2>8. GoldenPlace(p)'
    BY <1>0, <2>1, <2>2, <2>4
       DEF GoldenLog, GoldenPlace, TypeOK, Working, Committing
  <2>9. ASSUME NEW q \in Procs \ {p} PROVE GoldenPlace(q)'
    BY <1>0, <2>1, <2>4, PlanFacts DEF GoldenLog, GoldenPlace, TypeOK
  <2> QED
    BY <2>6, <2>7, <2>8, <2>9 DEF GoldenLog
<1>10. ASSUME NEW p \in Procs, StopEarly(p) \/ Crash(p) PROVE GoldenLog'
  BY <1>0, <1>10, GoldenLeave DEF StopEarly, Crash, Raise
<1>11. ASSUME NEW p \in Procs, Finish(p) PROVE GoldenLog'
  <2>1. /\ pc[p] = "loop" /\ Leave(p)
        /\ \A i \in DOMAIN Plan : Plan[i] \in Done(committed[p])
        /\ results' = results \cup {committed[p]}
        /\ UNCHANGED <<ckpt, artifacts>>
    BY <1>11 DEF Finish
  <2>2. committed[p] = Golden(seq[p]) /\ seq[p] <= LatestSequence
    BY <2>1 DEF GoldenLog, GoldenPlace
  <2>3. seq[p] = Len(Plan)
    <3>1. ASSUME seq[p] < Len(Plan) PROVE FALSE
      <4>1. seq[p] + 1 \in 1..Len(Plan)
        BY <1>0, <3>1, PlanFacts
      <4>2. Plan[seq[p] + 1] \in Done(Golden(seq[p]))
        BY <2>1, <2>2, <4>1, PlanFacts
      <4>3. PICK k \in 1..seq[p] : Plan[seq[p] + 1] = Plan[k]
        BY <1>0, <4>2, GoldenFacts
      <4> QED
        BY <1>0, <4>1, <4>3, PlanAssumption, PlanFacts
    <3> QED
      BY <1>0, <3>1, PlanFacts
  <2>4. LatestSequence' = LatestSequence /\ LatestSequence = Len(Plan)
    BY <1>0, <2>1, <2>2, <2>3, PlanFacts DEF LatestSequence
  <2>5. GoldenFiles' /\ GoldenResults'
    BY <2>1, <2>2, <2>3, <2>4 DEF GoldenLog, GoldenFiles, GoldenResults
  <2>6. GoldenPlace(p)'
    BY <1>0, <2>1, <2>4 DEF GoldenPlace, Leave, TypeOK, Working, Committing
  <2>7. ASSUME NEW q \in Procs \ {p} PROVE GoldenPlace(q)'
    BY <1>0, <2>1, <2>4 DEF GoldenLog, GoldenPlace, Leave, TypeOK
  <2> QED
    BY <2>5, <2>6, <2>7 DEF GoldenLog
<1>12. CASE Damage \/ UNCHANGED vars
  <2>1. UNCHANGED <<durable, local, results>>
    BY <1>12 DEF Damage, vars
  <2>2. LatestSequence' = LatestSequence
    BY <2>1 DEF LatestSequence
  <2>3. GoldenFiles' /\ GoldenResults'
    BY <2>1, <2>2 DEF GoldenLog, GoldenFiles, GoldenResults
  <2>4. ASSUME NEW q \in Procs PROVE GoldenPlace(q)'
    BY <2>1, <2>2 DEF GoldenLog, GoldenPlace, local
  <2> QED
    BY <2>3, <2>4 DEF GoldenLog
<1> QED
  BY <1>1, <1>2, <1>3, <1>4, <1>5, <1>6, <1>7, <1>8, <1>9, <1>10, <1>11, <1>12
     DEF Next, Step

\* The golden log is an invariant of every run whose worker is reproducible and
\* whose invocations use CachedRunCheckpointStoreV11, however many of them run
\* at once, crash, or meet damaged files.
THEOREM GoldenInvariant ==
  ASSUME Cached, Reproducible
  PROVE  Spec => []GoldenLog
<1>1. Init => GoldenLog
  <2> SUFFICES ASSUME Init PROVE GoldenLog
    OBVIOUS
  <2>1. DOMAIN ckpt = {} /\ DOMAIN artifacts = {}
    BY DEF Init
  <2>2. LatestSequence = 0
    BY <2>1, FS_EmptySet DEF LatestSequence
  <2>3. GoldenFiles
    BY <2>1, <2>2, PlanFacts DEF GoldenFiles
  <2>4. ASSUME NEW p \in Procs PROVE GoldenPlace(p)
    BY <2>2 DEF Init, GoldenPlace, Working, Committing
  <2> QED
    BY <2>3, <2>4 DEF GoldenLog, GoldenResults, Init
<1>2. TypeInv /\ GoldenLog /\ [Next]_vars => GoldenLog'
  BY GoldenStep
<1> QED
  BY <1>1, <1>2, TypeInvariant, PTL DEF Spec

\* The latest checkpoint of a golden log.
LEMMA GoldenLatest ==
  ASSUME TypeOK, GoldenLog
  PROVE  /\ LatestSequence \in 0..Len(Plan)
         /\ Latest = Golden(LatestSequence)
<1>1. LatestSequence \in 0..Len(Plan)
  BY LatestSequenceType, PlanFacts, CapacityAssumption
     DEF TypeOK, GoldenLog, GoldenFiles
<1>2. CASE LatestSequence = 0
  BY <1>2 DEF Latest, Golden
<1>3. CASE LatestSequence # 0
  BY <1>1, <1>3, PlanFacts DEF Latest, GoldenLog, GoldenFiles
<1> QED
  BY <1>1, <1>2, <1>3

\* CommitWrites is the only action that touches the checkpoint files.
LEMMA OnlyCommitWrites ==
  ASSUME Next
  PROVE  ckpt' = ckpt \/ \E p \in Procs : CommitWrites(p)
<1> USE DEF durable, Raise
<1>1. CASE Damage
  BY <1>1 DEF Damage
<1>2. ASSUME NEW p \in Procs, Step(p) \/ StopEarly(p) \/ Crash(p), ~CommitWrites(p)
      PROVE  ckpt' = ckpt
  <2>1. CASE StartChecks(p) \/ StartConsumes(p) \/ ResumeLoads(p) \/ LoadLatest(p)
    BY <2>1 DEF StartChecks, StartConsumes, ResumeLoads, LoadLatest
  <2>2. CASE Compute(p) \/ AccountReads(p) \/ AccountWrites(p)
    BY <2>2 DEF Compute, AccountReads, AccountWrites
  <2>3. CASE CommitOutputChecks(p)
    BY <2>3 DEF CommitOutputChecks
  <2>4. CASE CommitOutputWrites(p)
    BY <2>4 DEF CommitOutputWrites
  <2>5. CASE CommitChecks(p)
    BY <2>5 DEF CommitChecks
  <2>6. CASE StopEarly(p) \/ Finish(p) \/ Crash(p)
    BY <2>6 DEF StopEarly, Finish, Crash
  <2> QED
    BY <1>2, <2>1, <2>2, <2>3, <2>4, <2>5, <2>6 DEF Step
<1> QED
  BY <1>1, <1>2 DEF Next

\* The chain is contiguous and checkpoint s holds exactly the first s planned
\* units, although each invocation trusts the sequence it has cached.
THEOREM CachedChainFollowsPlan ==
  ASSUME Cached, Reproducible
  PROVE  Spec => []ChainFollowsPlan
<1>1. TypeInv /\ GoldenLog => ChainFollowsPlan
  <2> SUFFICES ASSUME TypeInv, GoldenLog, NEW s \in DOMAIN ckpt
               PROVE  UnitIds(ckpt[s]) = SubSeq(Plan, 1, s)
    BY DEF ChainFollowsPlan, GoldenLog, GoldenFiles
  <2>1. s \in 1..Len(Plan) /\ ckpt[s] = Golden(s)
    BY GoldenLatest, PlanFacts DEF TypeInv, GoldenLog, GoldenFiles
  <2>2. DOMAIN Golden(s) = 1..s
    BY DEF Golden
  <2>3. \A i \in 1..s : Golden(s)[i][1] = Plan[i]
    BY DEF Golden
  <2>4. UnitIds(Golden(s)) = [i \in 1..s |-> Plan[i]]
    BY <2>2, <2>3 DEF UnitIds
  <2>5. SubSeq(Plan, 1, s) = [i \in 1..s |-> Plan[i]]
    BY <2>1, PlanFacts, PlanAssumption
  <2> QED
    BY <2>1, <2>4, <2>5
<1> QED
  BY <1>1, GoldenInvariant, TypeInvariant, PTL

\* All complete results are equal and are what the files hold.
THEOREM CachedResultsAgree ==
  ASSUME Cached, Reproducible
  PROVE  Spec => []ResultsAgree
<1>1. TypeInv /\ GoldenLog => ResultsAgree
  BY GoldenLatest DEF ResultsAgree, TypeInv, GoldenLog, GoldenResults
<1> QED
  BY <1>1, GoldenInvariant, TypeInvariant, PTL

\* No committed checkpoint is ever replaced by another.
THEOREM CachedHistoryAppendOnly ==
  ASSUME Cached, Reproducible
  PROVE  Spec => HistoryAppendOnly
<1> DEFINE kept == \A s \in DOMAIN ckpt : s \in DOMAIN ckpt' /\ ckpt'[s] = ckpt[s]
<1>1. GoldenLog /\ GoldenLog' /\ [Next]_vars => [kept]_vars
  <2> SUFFICES ASSUME GoldenLog, GoldenLog', Next PROVE kept
    OBVIOUS
  <2>1. DOMAIN ckpt \subseteq DOMAIN ckpt'
    <3>1. ASSUME NEW p \in Procs, CommitWrites(p) PROVE DOMAIN ckpt \subseteq DOMAIN ckpt'
      BY <3>1 DEF CommitWrites, Put
    <3> QED
      BY <3>1, OnlyCommitWrites
  <2> QED
    BY <2>1 DEF GoldenLog, GoldenFiles
<1> QED
  BY <1>1, GoldenInvariant, PTL DEF Spec, HistoryAppendOnly

\* Racing, crashing invocations implement the ledger: seen through the latest
\* checkpoint, every step either adds the next planned unit or changes nothing.
THEOREM CachedRefinesLedger ==
  ASSUME Cached, Reproducible
  PROVE  Spec => LedgerSpec
<1>1. Init => Ledger!Init
  <2> SUFFICES ASSUME Init PROVE Latest = << >>
    BY DEF Ledger!Init
  <2>1. DOMAIN ckpt = {}
    BY DEF Init
  <2> QED
    BY <2>1, FS_EmptySet DEF Latest, LatestSequence
<1> DEFINE atEnd == LatestSequence \in 0..Len(Plan) /\ Latest = Golden(LatestSequence)
<1>2. TypeInv /\ GoldenLog => atEnd
  BY GoldenLatest DEF TypeInv
<1>3. TypeInv /\ atEnd /\ atEnd' /\ [Next]_vars => [Ledger!Commit]_Latest
  <2> SUFFICES ASSUME TypeInv, atEnd, atEnd', [Next]_vars, Latest' # Latest
               PROVE  Ledger!Commit
    OBVIOUS
  <2>1. /\ LatestSequence \in 0..Len(Plan) /\ Latest = Golden(LatestSequence)
        /\ LatestSequence' \in 0..Len(Plan) /\ Latest' = Golden(LatestSequence')
    BY DEF Golden
  <2>2. ckpt' # ckpt
    BY DEF Latest, LatestSequence
  <2>3. PICK p \in Procs : CommitWrites(p)
    BY <2>2, OnlyCommitWrites DEF vars, durable
  <2>4. DOMAIN ckpt' = DOMAIN ckpt \cup {target[p]}
    BY <2>3 DEF CommitWrites, Put
  <2>5. LatestSequence' = LatestSequence + 1
    <3>1. IsFiniteSet(DOMAIN ckpt)
      BY LatestSequenceType DEF TypeInv, TypeOK
    <3>2. LatestSequence' # LatestSequence
      BY <2>1
    <3> QED
      BY <2>4, <3>1, <3>2, FS_AddElement DEF LatestSequence
  <2> DEFINE n == LatestSequence
             o == CHOOSE o \in Results[Plan[n + 1]] : TRUE
  <2>6. n \in Nat /\ n < Len(Plan) /\ n + 1 \in 1..Len(Plan)
    BY <2>1, <2>5, PlanFacts
  <2>7. o \in Results[Plan[n + 1]]
    BY <2>6, PlanFacts, WorkerAssumption
  <2>8. Len(Latest) = n
    BY <2>1, GoldenFacts
  <2>9. Latest' = Append(Latest, <<Plan[n + 1], o>>)
    BY <2>1, <2>5, <2>6, <2>7, AppendGolden
  <2> QED
    BY <2>6, <2>7, <2>8, <2>9 DEF Ledger!Commit
<1> QED
  BY <1>1, <1>2, <1>3, GoldenInvariant, TypeInvariant, PTL DEF Spec, LedgerSpec, Ledger!Spec

(***************************************************************************)
(* One invocation at a time, over either store and with any worker         *)
(***************************************************************************)

SoleProcess == \A p, q \in Procs : p = q

\* rs is receipts of the first n planned units, and their artifacts are on disk.
Backed(rs, n) ==
  /\ Len(rs) = n
  /\ \A i \in 1..n :
       /\ rs[i][1] = Plan[i] /\ rs[i][2] \in Results[Plan[i]]
       /\ Plan[i] \in DOMAIN artifacts /\ artifacts[Plan[i]] = rs[i][2]

SoleFiles ==
  /\ DOMAIN ckpt = 1..LatestSequence
  /\ LatestSequence <= Len(Plan)
  /\ \A s \in DOMAIN ckpt : Backed(ckpt[s], s)
  /\ \A r \in results : r = Latest /\ LatestSequence = Len(Plan)

\* The invocation works on the unit after the latest checkpoint, and an artifact it is
\* about to write does not exist.
SolePlace(p) ==
  /\ pc[p] \in {"loop"} \cup Working => committed[p] = Latest
  /\ pc[p] \in {"loop"} \cup Working \cup Committing => seq[p] = LatestSequence
  /\ pc[p] \in Working \cup Committing => LatestSequence < Len(Plan)
  /\ pc[p] \in Working => produced[p] \subseteq Results[Plan[LatestSequence + 1]]
  /\ pc[p] = "write" => Plan[LatestSequence + 1] \notin DOMAIN artifacts
  /\ pc[p] \in Committing =>
       /\ Backed(committed[p], LatestSequence + 1)
       /\ \A i \in 1..LatestSequence : committed[p][i] = Latest[i]
  /\ pc[p] = "publish" => target[p] = LatestSequence + 1

\* The telemetry has counted the units, and past account_unit it is within the envelope.
\* The counter of the model saturates: it counts a plan that is not longer.
SoleAccount(p) ==
  /\ pc[p] = "accounted" => prior[p] = telemetry
  /\ pc[p] \in {"artifact", "write"} \cup Committing =>
       /\ WithinT0(telemetry)
       /\ Len(Plan) <= MaxAccounts => telemetry.units > LatestSequence

SoleInv ==
  /\ SoleFiles
  /\ \A p \in Procs : SolePlace(p) /\ SoleAccount(p)
  /\ Len(Plan) <= MaxAccounts => telemetry.units >= LatestSequence

\* The latest checkpoint is a prefix of the plan with artifacts behind it.
LEMMA LatestBacked ==
  ASSUME TypeOK, SoleInv
  PROVE  /\ LatestSequence \in 0..Len(Plan) /\ LatestSequence \in 0..MaxSequence
         /\ Latest \in Seq(Receipt) /\ Backed(Latest, LatestSequence)
<1>1. LatestSequence \in 0..Len(Plan) /\ LatestSequence \in 0..MaxSequence
  BY LatestSequenceType, PlanFacts, CapacityAssumption DEF TypeOK, SoleInv, SoleFiles
<1>2. CASE LatestSequence = 0
  BY <1>1, <1>2 DEF Latest, Backed
<1>3. CASE LatestSequence # 0
  <2>0. DOMAIN ckpt = 1..LatestSequence
    BY DEF SoleInv, SoleFiles
  <2>1. LatestSequence \in DOMAIN ckpt
    BY <1>1, <1>3, <2>0, PlanFacts
  <2> QED BY <1>1, <1>3, <2>1 DEF Latest, SoleInv, SoleFiles, TypeOK
<1> QED BY <1>1, <1>2, <1>3

\* An invocation that has committed the first n units goes on with unit n + 1.
LEMMA NextUnitAfterBacked ==
  ASSUME NEW n \in 0..Len(Plan), NEW rs \in Seq(Receipt), Backed(rs, n),
         NEW i \in DOMAIN Plan, IsNextUnit(i, rs)
  PROVE  n < Len(Plan) /\ i = n + 1
<1>1. i \in 1..Len(Plan) /\ Len(Plan) \in Nat
  BY PlanFacts
<1>0. Done(rs) = {Plan[k] : k \in 1..n}
  <2>1. DOMAIN rs = 1..n
    BY <1>1 DEF Backed
  <2> QED BY <2>1 DEF Done, Backed
<1>2. ~ (i <= n)
  BY <1>0, <1>1 DEF IsNextUnit
<1>3. ASSUME i > n + 1 PROVE FALSE
  <2>1. Plan[n + 1] \in Done(rs)
    BY <1>1, <1>3 DEF IsNextUnit
  <2>2. PICK k \in 1..n : Plan[n + 1] = Plan[k]
    BY <1>0, <2>1
  <2> QED BY <1>1, <1>3, <2>2, PlanAssumption
<1> QED BY <1>1, <1>2, <1>3

\* The receipt of unit n + 1 is added to those of the first n.
LEMMA AppendBacked ==
  ASSUME NEW n \in 0..Len(Plan), n < Len(Plan), NEW rs \in Seq(Receipt), Backed(rs, n),
         NEW o \in Results[Plan[n + 1]], Plan[n + 1] \in DOMAIN artifacts,
         artifacts[Plan[n + 1]] = o
  PROVE  LET new == Append(rs, <<Plan[n + 1], o>>)
         IN Backed(new, n + 1) /\ \A i \in 1..n : new[i] = rs[i]
<1> DEFINE new == Append(rs, <<Plan[n + 1], o>>)
<1>1. n \in Nat /\ n + 1 \in 1..Len(Plan) /\ Plan[n + 1] \in Units
  BY PlanFacts
<1>2. <<Plan[n + 1], o>> \in Receipt
  BY <1>1 DEF Receipt, Outputs
<1>3. /\ Len(new) = n + 1 /\ new[n + 1] = <<Plan[n + 1], o>>
      /\ \A i \in 1..n : new[i] = rs[i]
  BY <1>1, <1>2 DEF Backed
<1> HIDE DEF new
<1>4. Backed(new, n + 1)
  <2> SUFFICES ASSUME NEW i \in 1..(n + 1)
               PROVE  /\ new[i][1] = Plan[i] /\ new[i][2] \in Results[Plan[i]]
                      /\ Plan[i] \in DOMAIN artifacts /\ artifacts[Plan[i]] = new[i][2]
    BY <1>3 DEF Backed
  <2>1. CASE i = n + 1
    BY <1>3, <2>1
  <2>2. CASE i \in 1..n
    BY <1>3, <2>2 DEF Backed
  <2> QED BY <1>1, <2>1, <2>2
<1> QED BY <1>3, <1>4 DEF new

\* A step that leaves the files and the results alone.
LEMMA SoleFrame ==
  ASSUME SoleProcess, TypeOK, SoleInv, NEW p \in Procs,
         ckpt' = ckpt, artifacts' = artifacts, results' = results,
         Len(Plan) <= MaxAccounts => telemetry'.units >= LatestSequence,
         SolePlace(p)', SoleAccount(p)'
  PROVE  SoleInv'
<1>1. LatestSequence' = LatestSequence /\ Latest' = Latest
  BY DEF LatestSequence, Latest
<1>2. SoleFiles'
  BY <1>1 DEF SoleInv, SoleFiles, Backed
<1> QED BY <1>1, <1>2 DEF SoleInv, SoleProcess

\* An invocation that ends.
LEMMA SoleLeave ==
  ASSUME SoleProcess, TypeOK, SoleInv, NEW p \in Procs, Leave(p),
         ckpt' = ckpt, artifacts' = artifacts, results' = results,
         Len(Plan) <= MaxAccounts => telemetry'.units >= LatestSequence
  PROVE  SoleInv'
<1>1. pc'[p] = "idle"
  BY DEF Leave, TypeOK
<1>2. SolePlace(p)' /\ SoleAccount(p)'
  BY <1>1 DEF SolePlace, SoleAccount, Working, Committing
<1> QED BY <1>2, SoleFrame

LEMMA SoleRaise ==
  ASSUME SoleProcess, TypeOK, SoleInv, NEW p \in Procs, Raise(p)
  PROVE  SoleInv'
BY SoleLeave DEF Raise, durable, SoleInv

\* The steps that write neither an artifact nor a checkpoint nor the telemetry.
LEMMA SoleReads ==
  ASSUME SoleProcess, TypeOK, SoleInv, NEW p \in Procs,
         \/ StartChecks(p) \/ StartConsumes(p) \/ ResumeLoads(p) \/ LoadLatest(p)
         \/ Compute(p) \/ AccountReads(p) \/ CommitChecks(p)
  PROVE  SoleInv'
<1> USE DEF durable, damage, Goto
<1>0. /\ LatestSequence \in 0..Len(Plan) /\ LatestSequence \in 0..MaxSequence
      /\ Latest \in Seq(Receipt) /\ Backed(Latest, LatestSequence)
      /\ SolePlace(p) /\ SoleAccount(p)
      /\ Len(Plan) <= MaxAccounts => telemetry.units >= LatestSequence
  BY LatestBacked DEF SoleInv
<1>1. CASE Raise(p)
  BY <1>1, SoleRaise
<1>2. ASSUME UNCHANGED <<ckpt, artifacts, results, telemetry>>, SolePlace(p)', SoleAccount(p)'
      PROVE  SoleInv'
  BY <1>0, <1>2, SoleFrame
<1>3. ASSUME UNCHANGED <<ckpt, artifacts>>
      PROVE  /\ LatestSequence' = LatestSequence /\ Latest' = Latest
             /\ \A rs, n : Backed(rs, n)' <=> Backed(rs, n)
  BY <1>3 DEF LatestSequence, Latest, Backed
<1>4. CASE StartChecks(p) \/ StartConsumes(p) \/ ResumeLoads(p)
  <2>1. UNCHANGED <<ckpt, artifacts, results, telemetry>> /\ pc'[p] \in {"consume", "latest"}
    BY <1>4 DEF StartChecks, StartConsumes, ResumeLoads, TypeOK
  <2>2. SolePlace(p)' /\ SoleAccount(p)'
    BY <2>1 DEF SolePlace, SoleAccount, Working, Committing
  <2> QED BY <1>2, <2>1, <2>2
<1>5. CASE LoadLatest(p) /\ ~Raise(p)
  <2>1. /\ UNCHANGED <<ckpt, artifacts, results, telemetry>>
        /\ pc'[p] = "loop" /\ committed'[p] = Latest /\ seq'[p] = LatestSequence
    BY <1>5 DEF LoadLatest, TypeOK, ResumedReceipts
  <2>2. SolePlace(p)' /\ SoleAccount(p)'
    BY <1>3, <2>1 DEF SolePlace, SoleAccount, Working, Committing
  <2> QED BY <1>2, <2>1, <2>2
<1>6. CASE Compute(p) /\ ~Raise(p)
  <2>7. PICK i \in DOMAIN Plan :
          /\ IsNextUnit(i, committed[p])
          /\ \E o \in Results[Plan[i]] : produced' = [produced EXCEPT ![p] = {o}]
    BY <1>6 DEF Compute
  <2>1. PICK o \in Results[Plan[i]] : produced' = [produced EXCEPT ![p] = {o}]
    BY <2>7
  <2>2. /\ UNCHANGED <<ckpt, artifacts, results, telemetry, committed, seq>>
        /\ pc[p] = "loop" /\ pc'[p] = "account"
    BY <1>6 DEF Compute, TypeOK
  <2>3. committed[p] = Latest /\ seq[p] = LatestSequence
    BY <1>0, <2>2 DEF SolePlace
  <2>4. LatestSequence < Len(Plan) /\ i = LatestSequence + 1
    BY <1>0, <2>3, <2>7, NextUnitAfterBacked
  <2>5. produced'[p] = {o}
    BY <2>1 DEF TypeOK
  <2>6. SolePlace(p)' /\ SoleAccount(p)'
    BY <1>3, <2>2, <2>3, <2>4, <2>5 DEF SolePlace, SoleAccount, Working, Committing
  <2> QED BY <1>2, <2>2, <2>6
<1>7. CASE AccountReads(p)
  <2>1. /\ UNCHANGED <<ckpt, artifacts, results, telemetry, committed, seq, produced>>
        /\ pc[p] = "account" /\ pc'[p] = "accounted" /\ prior'[p] = telemetry
    BY <1>7 DEF AccountReads, TypeOK
  <2>2. SolePlace(p)' /\ SoleAccount(p)'
    BY <1>0, <1>3, <2>1 DEF SolePlace, SoleAccount, Working, Committing
  <2> QED BY <1>2, <2>1, <2>2
<1>8. CASE CommitChecks(p) /\ ~Raise(p)
  <2>1. /\ UNCHANGED <<ckpt, artifacts, results, telemetry, committed, seq, produced>>
        /\ pc[p] = "checkpoint" /\ pc'[p] = "publish" /\ target'[p] = NextSequence(p)
    BY <1>8 DEF CommitChecks, TypeOK
  <2>2. NextSequence(p) = LatestSequence + 1
    BY <1>0, <2>1 DEF NextSequence, SolePlace, Committing
  <2>3. SolePlace(p)' /\ SoleAccount(p)'
    BY <1>0, <1>3, <2>1, <2>2 DEF SolePlace, SoleAccount, Working, Committing
  <2> QED BY <1>2, <2>1, <2>3
<1> QED BY <1>1, <1>4, <1>5, <1>6, <1>7, <1>8

LEMMA SoleAccountWrites ==
  ASSUME SoleProcess, TypeOK, SoleInv, NEW p \in Procs, AccountWrites(p)
  PROVE  SoleInv'
<1>0. /\ LatestSequence \in 0..Len(Plan) /\ Len(Plan) \in Nat
      /\ SolePlace(p) /\ SoleAccount(p)
      /\ Len(Plan) <= MaxAccounts => telemetry.units >= LatestSequence
  BY LatestBacked, PlanFacts DEF SoleInv
<1>1. PICK w \in Walls, r \in RssSamples :
        /\ telemetry' = Accounted(prior[p], w, r)
        /\ \/ /\ WithinT0(Accounted(prior[p], w, r)) /\ Goto(p, "artifact")
              /\ UNCHANGED <<committed, produced, prior, size, seq, target, fresh>>
           \/ Leave(p)
  BY DEF AccountWrites
<1>2. UNCHANGED <<ckpt, artifacts, results>> /\ pc[p] = "accounted"
  BY DEF AccountWrites
<1>3. prior[p] = telemetry /\ telemetry \in Telemetry /\ LatestSequence < Len(Plan)
  BY <1>0, <1>2 DEF SoleAccount, SolePlace, TypeOK, Working
<1>4. Len(Plan) <= MaxAccounts => telemetry'.units > LatestSequence
  BY <1>0, <1>1, <1>3, CapacityAssumption DEF Accounted, Capped, Telemetry
<1>5. Len(Plan) <= MaxAccounts => telemetry'.units >= LatestSequence
  BY <1>0, <1>1, <1>3, CapacityAssumption DEF Accounted, Capped, Telemetry
<1>6. CASE Leave(p)
  BY <1>2, <1>5, <1>6, SoleLeave
<1>7. CASE /\ WithinT0(Accounted(prior[p], w, r)) /\ Goto(p, "artifact")
           /\ UNCHANGED <<committed, produced, prior, size, seq, target, fresh>>
  <2>1. WithinT0(telemetry)' /\ pc'[p] = "artifact"
    BY <1>1, <1>7 DEF WithinT0, Goto, TypeOK
  <2>2. LatestSequence' = LatestSequence /\ Latest' = Latest
    BY <1>2 DEF LatestSequence, Latest
  <2>3. SolePlace(p)' /\ SoleAccount(p)'
    BY <1>0, <1>2, <1>4, <1>7, <2>1, <2>2 DEF SolePlace, SoleAccount, Working, Committing
  <2> QED BY <1>2, <1>5, <2>3, SoleFrame
<1> QED BY <1>1, <1>6, <1>7

LEMMA SoleOutputChecks ==
  ASSUME SoleProcess, TypeOK, SoleInv, NEW p \in Procs, CommitOutputChecks(p)
  PROVE  SoleInv'
<1> USE DEF durable, damage, Goto
<1>0. /\ LatestSequence \in 0..Len(Plan) /\ Latest \in Seq(Receipt) /\ Backed(Latest, LatestSequence)
      /\ SolePlace(p) /\ SoleAccount(p)
      /\ Len(Plan) <= MaxAccounts => telemetry.units >= LatestSequence
  BY LatestBacked DEF SoleInv
<1>1. PICK i \in DOMAIN Plan, o \in produced[p] : CommitOutputChecks(p)!2!(i, o)
  BY DEF CommitOutputChecks
<1>2. pc[p] = "artifact" /\ committed[p] = Latest /\ seq[p] = LatestSequence
  BY <1>0 DEF CommitOutputChecks, SolePlace, Working
<1>3. LatestSequence < Len(Plan) /\ i = LatestSequence + 1 /\ o \in Results[Plan[i]]
  <2>1. IsNextUnit(i, committed[p])
    BY <1>1
  <2>2. LatestSequence < Len(Plan) /\ i = LatestSequence + 1
    BY <1>0, <1>2, <2>1, NextUnitAfterBacked
  <2> QED BY <1>0, <1>2, <2>2 DEF SolePlace, Working
<1>4. CASE Raise(p)
  BY <1>4, SoleRaise
<1>5. CASE /\ ReceiptVerifies(<<Plan[i], o>>)
           /\ committed' = [committed EXCEPT ![p] = Append(@, <<Plan[i], o>>)]
           /\ Goto(p, "checkpoint")
           /\ UNCHANGED <<durable, damage, produced, prior, size, seq, target, fresh, results, crashes>>
  <2>1. /\ UNCHANGED <<ckpt, artifacts, results, telemetry, seq>> /\ pc'[p] = "checkpoint"
        /\ committed'[p] = Append(Latest, <<Plan[i], o>>)
    BY <1>2, <1>5 DEF TypeOK
  <2>2. /\ Backed(committed'[p], LatestSequence + 1)
        /\ \A k \in 1..LatestSequence : committed'[p][k] = Latest[k]
    <3>1. Plan[i] \in DOMAIN artifacts /\ artifacts[Plan[i]] = o
      BY <1>5 DEF ReceiptVerifies
    <3> QED BY <1>0, <1>3, <2>1, <3>1, AppendBacked
  <2>3. LatestSequence' = LatestSequence /\ Latest' = Latest
    BY <2>1 DEF LatestSequence, Latest
  <2>4. SolePlace(p)' /\ SoleAccount(p)'
    BY <1>0, <1>2, <1>3, <2>1, <2>2, <2>3 DEF SolePlace, SoleAccount, Backed, Working, Committing
  <2> QED BY <1>0, <2>1, <2>4, SoleFrame
<1>6. CASE /\ ~OutputExists(Plan[i])
           /\ Goto(p, "write")
           /\ UNCHANGED <<durable, damage, committed, produced, prior, seq, target, fresh, results, crashes>>
  <2>1. UNCHANGED <<ckpt, artifacts, results, telemetry, seq, committed, produced>> /\ pc'[p] = "write"
    BY <1>6 DEF TypeOK
  <2>2. LatestSequence' = LatestSequence /\ Latest' = Latest
    BY <2>1 DEF LatestSequence, Latest
  <2>3. SolePlace(p)' /\ SoleAccount(p)'
    BY <1>0, <1>2, <1>3, <1>6, <2>1, <2>2 DEF SolePlace, SoleAccount, OutputExists, Working, Committing
  <2> QED BY <1>0, <2>1, <2>3, SoleFrame
<1> QED BY <1>1, <1>4, <1>5, <1>6

LEMMA SoleOutputWrites ==
  ASSUME SoleProcess, TypeOK, SoleInv, NEW p \in Procs, CommitOutputWrites(p)
  PROVE  /\ SoleInv'
         /\ \A u \in DOMAIN artifacts : u \in DOMAIN artifacts' /\ artifacts'[u] = artifacts[u]
         /\ badUnits \subseteq badUnits'
<1>0. /\ LatestSequence \in 0..Len(Plan) /\ Latest \in Seq(Receipt) /\ Backed(Latest, LatestSequence)
      /\ SolePlace(p) /\ SoleAccount(p)
      /\ Len(Plan) <= MaxAccounts => telemetry.units >= LatestSequence
  BY LatestBacked DEF SoleInv
<1>1. PICK i \in DOMAIN Plan, o \in produced[p] :
        /\ IsNextUnit(i, committed[p])
        /\ artifacts' = Put(artifacts, Plan[i], o)
        /\ badUnits' = badUnits \ {Plan[i]}
        /\ committed' = [committed EXCEPT ![p] = Append(@, <<Plan[i], o>>)]
  BY DEF CommitOutputWrites
<1>2. /\ pc[p] = "write" /\ committed[p] = Latest /\ seq[p] = LatestSequence
      /\ pc'[p] = "checkpoint" /\ UNCHANGED <<ckpt, results, telemetry, seq>>
  BY <1>0 DEF CommitOutputWrites, SolePlace, Working, Goto, TypeOK
<1>3. LatestSequence < Len(Plan) /\ i = LatestSequence + 1
  BY <1>0, <1>1, <1>2, NextUnitAfterBacked
<1>4. o \in Results[Plan[i]] /\ Plan[i] \notin DOMAIN artifacts
  BY <1>0, <1>2, <1>3 DEF SolePlace, Working
<1>5. /\ \A u \in DOMAIN artifacts : u \in DOMAIN artifacts' /\ artifacts'[u] = artifacts[u]
      /\ Plan[i] \in DOMAIN artifacts' /\ artifacts'[Plan[i]] = o
  BY <1>1, <1>4 DEF Put
<1>6. badUnits \subseteq badUnits'
  BY <1>1, <1>4 DEF TypeOK
<1>7. LatestSequence' = LatestSequence /\ Latest' = Latest
  BY <1>2 DEF LatestSequence, Latest
<1>8. \A rs, n : Backed(rs, n) => Backed(rs, n)'
  BY <1>5 DEF Backed
<1>9. SoleFiles'
  BY <1>2, <1>7, <1>8 DEF SoleInv, SoleFiles
<1>10. committed'[p] = Append(Latest, <<Plan[i], o>>)
  BY <1>1, <1>2 DEF TypeOK
<1>11. /\ Backed(committed[p], LatestSequence + 1)'
       /\ \A k \in 1..LatestSequence : committed'[p][k] = Latest[k]
  <2> DEFINE new == Append(Latest, <<Plan[i], o>>)
             n == LatestSequence
  <2>1. n \in Nat /\ i \in 1..Len(Plan) /\ Plan[i] \in Units /\ o \in Outputs
    BY <1>0, <1>3, <1>4, PlanFacts DEF Outputs
  <2>2. /\ Len(new) = n + 1 /\ new[n + 1] = <<Plan[i], o>>
        /\ \A k \in 1..n : new[k] = Latest[k]
    BY <1>0, <2>1 DEF Backed, Receipt
  <2>3. Backed(Latest, n)'
    BY <1>0, <1>7, <1>8
  <2>4. \A k \in 1..(n + 1) :
          /\ new[k][1] = Plan[k] /\ new[k][2] \in Results[Plan[k]]
          /\ Plan[k] \in DOMAIN artifacts' /\ artifacts'[Plan[k]] = new[k][2]
    <3> HIDE DEF new
    <3> SUFFICES ASSUME NEW k \in 1..(n + 1)
                 PROVE  /\ new[k][1] = Plan[k] /\ new[k][2] \in Results[Plan[k]]
                        /\ Plan[k] \in DOMAIN artifacts' /\ artifacts'[Plan[k]] = new[k][2]
      OBVIOUS
    <3>1. CASE k = n + 1
      BY <1>3, <1>4, <1>5, <2>2, <3>1
    <3>2. CASE k \in 1..n
      BY <1>7, <2>2, <2>3, <3>2 DEF Backed
    <3> QED BY <2>1, <3>1, <3>2
  <2> HIDE DEF new
  <2>5. committed'[p] = new /\ n' = n
    BY <1>7, <1>10 DEF new
  <2> QED BY <2>2, <2>4, <2>5 DEF Backed
<1>12. SolePlace(p)' /\ SoleAccount(p)'
  BY <1>0, <1>2, <1>3, <1>7, <1>11 DEF SolePlace, SoleAccount, Working, Committing
<1> QED BY <1>0, <1>2, <1>5, <1>6, <1>7, <1>9, <1>12 DEF SoleInv, SoleProcess

\* The checkpoint that is written is the one after the latest.
LEMMA SoleCommitWrites ==
  ASSUME SoleProcess, TypeOK, SoleInv, NEW p \in Procs, CommitWrites(p)
  PROVE  /\ SoleInv'
         /\ \A s \in DOMAIN ckpt : s \in DOMAIN ckpt' /\ ckpt'[s] = ckpt[s]
         /\ LatestSequence < Len(Plan) /\ Latest' = committed[p]
         /\ WithinT0(telemetry)
<1>0. /\ LatestSequence \in 0..Len(Plan) /\ Latest \in Seq(Receipt) /\ Backed(Latest, LatestSequence)
      /\ SolePlace(p) /\ SoleAccount(p) /\ Len(Plan) \in Nat
      /\ DOMAIN ckpt = 1..LatestSequence /\ IsFiniteSet(DOMAIN ckpt)
  BY LatestBacked, LatestSequenceType, PlanFacts DEF SoleInv, SoleFiles, TypeOK
<1>1. /\ pc[p] = "publish" /\ pc'[p] = "loop"
      /\ ckpt' = Put(ckpt, target[p], committed[p])
      /\ seq'[p] = target[p]
      /\ UNCHANGED <<artifacts, telemetry, committed, results>>
  BY DEF CommitWrites, Goto, TypeOK
<1>2. /\ target[p] = LatestSequence + 1 /\ LatestSequence < Len(Plan)
      /\ Backed(committed[p], LatestSequence + 1)
      /\ WithinT0(telemetry)
      /\ Len(Plan) <= MaxAccounts => telemetry.units > LatestSequence
  BY <1>0, <1>1 DEF SolePlace, SoleAccount, Committing
<1>3. /\ DOMAIN ckpt' = 1..(LatestSequence + 1) /\ ckpt'[LatestSequence + 1] = committed[p]
      /\ \A s \in DOMAIN ckpt : s \in DOMAIN ckpt' /\ ckpt'[s] = ckpt[s]
  BY <1>0, <1>1, <1>2 DEF Put
<1>4. LatestSequence' = LatestSequence + 1
  <2>1. target[p] \notin DOMAIN ckpt /\ DOMAIN ckpt' = DOMAIN ckpt \cup {target[p]}
    BY <1>0, <1>2, <1>3
  <2> QED BY <1>0, <2>1, FS_AddElement DEF LatestSequence
<1>5. Latest' = committed[p]
  BY <1>0, <1>3, <1>4 DEF Latest
<1>6. SoleFiles'
  <2>1. results' = {}
    BY <1>1, <1>2 DEF SoleInv, SoleFiles
  <2>2. \A rs, n : Backed(rs, n)' <=> Backed(rs, n)
    BY <1>1 DEF Backed
  <2>3. \A s \in DOMAIN ckpt' : Backed(ckpt'[s], s)
    <3>1. \A s \in 1..LatestSequence : Backed(ckpt'[s], s)
      BY <1>0, <1>3 DEF SoleInv, SoleFiles
    <3> QED BY <1>0, <1>2, <1>3, <3>1
  <2>4. DOMAIN ckpt' = 1..LatestSequence' /\ LatestSequence' <= Len(Plan)
    BY <1>0, <1>2, <1>3, <1>4
  <2>5. \A s \in DOMAIN ckpt' : Backed(ckpt[s], s)'
    BY <2>2, <2>3
  <2> QED BY <2>1, <2>4, <2>5 DEF SoleFiles
<1>7. SolePlace(p)' /\ SoleAccount(p)'
  BY <1>1, <1>2, <1>4, <1>5 DEF SolePlace, SoleAccount, Working, Committing
<1>8. Len(Plan) <= MaxAccounts => telemetry'.units >= LatestSequence'
  BY <1>0, <1>1, <1>2, <1>4 DEF TypeOK, Telemetry
<1> QED BY <1>2, <1>3, <1>5, <1>6, <1>7, <1>8 DEF SoleInv, SoleProcess

LEMMA SoleStep ==
  ASSUME SoleProcess, TypeInv, SoleInv, [Next]_vars
  PROVE  SoleInv'
<1>0. TypeOK
  BY DEF TypeInv
<1>1. ASSUME NEW p \in Procs, Finish(p) PROVE SoleInv'
  <2>0. LatestSequence \in 0..Len(Plan) /\ Backed(Latest, LatestSequence) /\ Latest \in Seq(Receipt)
    BY <1>0, LatestBacked
  <2>1. /\ pc[p] = "loop" /\ committed[p] = Latest /\ pc'[p] = "idle"
        /\ \A i \in DOMAIN Plan : Plan[i] \in Done(committed[p])
        /\ results' = results \cup {committed[p]}
        /\ UNCHANGED <<ckpt, artifacts, telemetry>>
    BY <1>0, <1>1 DEF Finish, Leave, durable, TypeOK, SoleInv, SolePlace
  <2>2. LatestSequence = Len(Plan)
    <3>0. LatestSequence = Len(Plan) \/ LatestSequence < Len(Plan)
      <4>1. Len(Plan) \in Nat
        BY PlanFacts
      <4>2. LatestSequence \in 0..Len(Plan)
        BY <2>0
      <4> QED BY <4>1, <4>2
    <3> SUFFICES ASSUME LatestSequence < Len(Plan) PROVE FALSE
      BY <3>0
    <3>1. LatestSequence + 1 \in 1..Len(Plan) /\ DOMAIN Latest = 1..LatestSequence
      BY <2>0, PlanFacts DEF Backed
    <3>2. PICK k \in 1..LatestSequence : Plan[LatestSequence + 1] = Latest[k][1]
      BY <2>1, <3>1, PlanFacts DEF Done
    <3>3. Plan[LatestSequence + 1] = Plan[k]
      BY <2>0, <3>2 DEF Backed
    <3> QED BY <2>0, <3>1, <3>3, PlanAssumption, PlanFacts
  <2>3. LatestSequence' = LatestSequence /\ Latest' = Latest
    BY <2>1 DEF LatestSequence, Latest
  <2>4. SoleFiles'
    BY <2>1, <2>2, <2>3 DEF SoleInv, SoleFiles, Backed
  <2>5. SolePlace(p)' /\ SoleAccount(p)'
    BY <2>1 DEF SolePlace, SoleAccount, Working, Committing
  <2> QED BY <2>1, <2>3, <2>4, <2>5 DEF SoleInv, SoleProcess
<1>2. ASSUME NEW p \in Procs, StopEarly(p) \/ Crash(p) PROVE SoleInv'
  BY <1>0, <1>2, SoleRaise, SoleLeave DEF StopEarly, Crash, durable, SoleInv
<1>3. CASE Damage \/ UNCHANGED vars
  <2>1. UNCHANGED <<ckpt, artifacts, telemetry, pc, committed, produced, prior, seq, target, results>>
    BY <1>3 DEF Damage, vars, local, durable
  <2>2. LatestSequence' = LatestSequence /\ Latest' = Latest
    BY <2>1 DEF LatestSequence, Latest
  <2>3. SoleFiles'
    BY <2>1, <2>2 DEF SoleInv, SoleFiles, Backed
  <2>4. ASSUME NEW p \in Procs PROVE SolePlace(p)' /\ SoleAccount(p)'
    BY <2>1, <2>2 DEF SoleInv, SolePlace, SoleAccount, Backed
  <2> QED BY <2>1, <2>2, <2>3, <2>4 DEF SoleInv
<1>4. ASSUME NEW p \in Procs, Step(p), ~Finish(p) PROVE SoleInv'
  BY <1>0, <1>4, SoleReads, SoleAccountWrites, SoleOutputChecks, SoleOutputWrites, SoleCommitWrites DEF Step
<1> QED BY <1>1, <1>2, <1>3, <1>4 DEF Next

LEMMA SoleInvariant == ASSUME SoleProcess PROVE Spec => [](TypeInv /\ SoleInv)
<1>1. Init => SoleInv
  <2> SUFFICES ASSUME Init PROVE SoleInv
    OBVIOUS
  <2>1. DOMAIN ckpt = {}
    BY DEF Init
  <2>2. LatestSequence = 0
    BY <2>1, FS_EmptySet DEF LatestSequence
  <2>3. SoleFiles
    BY <2>1, <2>2, PlanFacts DEF SoleFiles, Init
  <2>4. ASSUME NEW p \in Procs PROVE SolePlace(p) /\ SoleAccount(p)
    BY DEF Init, SolePlace, SoleAccount, Working, Committing
  <2>5. telemetry.units >= LatestSequence
    BY <2>2 DEF Init, NoTelemetry
  <2> QED BY <2>3, <2>4, <2>5 DEF SoleInv
<1>2. TypeInv /\ SoleInv /\ [Next]_vars => SoleInv'
  BY SoleStep
<1> QED BY <1>1, <1>2, TypeInvariant, PTL DEF Spec

\* One invocation at a time, however often it crashes or fails and is resumed, whatever
\* files are damaged and whatever a worker returns when a unit is recomputed: every
\* receipt of every checkpoint names an artifact on disk with that output, and the
\* telemetry has accounted every committed unit (if the counter can count the plan).
THEOREM SoleCheckpointsHold ==
  ASSUME SoleProcess, Len(Plan) <= MaxAccounts
  PROVE  Spec => []CheckpointInv
<1>1. TypeInv /\ SoleInv => CheckpointInv
  <2> SUFFICES ASSUME TypeInv, SoleInv PROVE CheckpointInv
    OBVIOUS
  <2>0. TypeOK
    BY DEF TypeInv
  <2>1. ASSUME NEW s \in DOMAIN ckpt, NEW i \in DOMAIN ckpt[s]
        PROVE  ckpt[s][i][1] \in DOMAIN artifacts /\ artifacts[ckpt[s][i][1]] = ckpt[s][i][2]
    <3>1. ckpt[s] \in Seq(Receipt) /\ Backed(ckpt[s], s)
      BY <2>0 DEF TypeOK, SoleInv, SoleFiles
    <3>2. i \in 1..s
      BY <3>1 DEF Backed
    <3> QED BY <3>1, <3>2 DEF Backed
  <2>2. Len(Latest) = LatestSequence
    BY <2>0, LatestBacked DEF Backed
  <2> QED BY <2>1, <2>2 DEF CheckpointInv, CheckpointsBacked, CommittedUnitsAccounted, SoleInv
<1> QED BY <1>1, SoleInvariant, PTL

\* Only these actions write an artifact, the telemetry, a checkpoint or a result.
LEMMA Writers ==
  ASSUME Next
  PROVE  /\ UNCHANGED artifacts \/ \E p \in Procs : CommitOutputWrites(p)
         /\ badUnits \subseteq badUnits' \/ \E p \in Procs : CommitOutputWrites(p)
         /\ UNCHANGED telemetry \/ \E p \in Procs : AccountWrites(p)
         /\ UNCHANGED results \/ \E p \in Procs : Finish(p)
<1> USE DEF durable, damage, Raise
<1>1. CASE Damage
  BY <1>1 DEF Damage
<1>2. ASSUME NEW p \in Procs, Step(p) \/ StopEarly(p) \/ Crash(p)
      PROVE  /\ UNCHANGED artifacts \/ CommitOutputWrites(p)
             /\ badUnits \subseteq badUnits' \/ CommitOutputWrites(p)
             /\ UNCHANGED telemetry \/ AccountWrites(p)
             /\ UNCHANGED results \/ Finish(p)
  <2>1. CASE StartChecks(p) \/ StartConsumes(p) \/ ResumeLoads(p) \/ LoadLatest(p)
    BY <2>1 DEF StartChecks, StartConsumes, ResumeLoads, LoadLatest
  <2>2. CASE Compute(p) \/ AccountReads(p) \/ AccountWrites(p)
    BY <2>2 DEF Compute, AccountReads, AccountWrites
  <2>3. CASE CommitOutputChecks(p)
    BY <2>3 DEF CommitOutputChecks
  <2>4. CASE CommitOutputWrites(p)
    BY <2>4 DEF CommitOutputWrites
  <2>5. CASE CommitChecks(p)
    BY <2>5 DEF CommitChecks
  <2>6. CASE CommitWrites(p) \/ StopEarly(p) \/ Finish(p) \/ Crash(p)
    BY <2>6 DEF CommitWrites, StopEarly, Finish, Crash
  <2> QED BY <1>2, <2>1, <2>2, <2>3, <2>4, <2>5, <2>6 DEF Step
<1> QED BY <1>1, <1>2 DEF Next

\* An artifact file is never replaced and its damage never papered over, also where a
\* crash left it without a checkpoint and the unit comes out differently.
THEOREM SoleArtifactsImmutable ==
  ASSUME SoleProcess
  PROVE  Spec => ArtifactsImmutable
<1> DEFINE kept ==
      /\ \A u \in DOMAIN artifacts : u \in DOMAIN artifacts' /\ artifacts'[u] = artifacts[u]
      /\ badUnits \subseteq badUnits'
<1>1. TypeInv /\ SoleInv /\ [Next]_vars => [kept]_vars
  <2> SUFFICES ASSUME TypeInv, SoleInv, Next PROVE kept
    OBVIOUS
  <2>1. ASSUME NEW p \in Procs, CommitOutputWrites(p) PROVE kept
    BY <2>1, SoleOutputWrites DEF TypeInv
  <2> QED BY <2>1, Writers
<1> QED BY <1>1, SoleInvariant, PTL DEF Spec, ArtifactsImmutable

\* Telemetry outside the envelope stays outside, and no checkpoint is committed any more.
THEOREM SoleCapacityExceededIsFinal ==
  ASSUME SoleProcess
  PROVE  Spec => CapacityExceededIsFinal
<1> DEFINE final == ~WithinT0(telemetry) => ckpt' = ckpt /\ ~WithinT0(telemetry')
<1>1. TypeInv /\ SoleInv /\ [Next]_vars => [final]_vars
  <2> SUFFICES ASSUME TypeInv, SoleInv, Next, ~WithinT0(telemetry)
               PROVE  ckpt' = ckpt /\ ~WithinT0(telemetry')
    OBVIOUS
  <2>1. ckpt' = ckpt
    <3>1. ASSUME NEW p \in Procs, CommitWrites(p) PROVE WithinT0(telemetry)
      BY <3>1, SoleCommitWrites DEF TypeInv
    <3> QED BY <3>1, OnlyCommitWrites
  <2>2. ASSUME NEW p \in Procs, AccountWrites(p) PROVE ~WithinT0(telemetry')
    <3>1. PICK w \in Walls, r \in RssSamples : telemetry' = Accounted(prior[p], w, r)
      BY <2>2 DEF AccountWrites
    <3>2. prior[p] = telemetry /\ telemetry \in Telemetry
      BY <2>2 DEF AccountWrites, SoleInv, SoleAccount, TypeInv, TypeOK
    <3> QED BY <3>1, <3>2, CapacityAssumption DEF Accounted, Capped, WithinT0, Telemetry
  <2> QED BY <2>1, <2>2, Writers
<1> QED BY <1>1, SoleInvariant, PTL DEF Spec, CapacityExceededIsFinal

\* Crashing and resumed invocations that follow each other implement the ledger, over
\* either store and with a worker that is not reproducible.
THEOREM SoleRefinesLedger ==
  ASSUME SoleProcess
  PROVE  Spec => LedgerSpec
<1>1. Init => Ledger!Init
  <2> SUFFICES ASSUME Init PROVE Latest = << >>
    BY DEF Ledger!Init
  <2>1. DOMAIN ckpt = {}
    BY DEF Init
  <2> QED BY <2>1, FS_EmptySet DEF Latest, LatestSequence
<1>2. TypeInv /\ SoleInv /\ [Next]_vars => [Ledger!Commit]_Latest
  <2> SUFFICES ASSUME TypeInv, SoleInv, [Next]_vars, Latest' # Latest
               PROVE  Ledger!Commit
    OBVIOUS
  <2>0. TypeOK
    BY DEF TypeInv
  <2>1. ckpt' # ckpt
    BY DEF Latest, LatestSequence
  <2>2. PICK p \in Procs : CommitWrites(p)
    BY <2>1, OnlyCommitWrites DEF vars, durable
  <2>3. LatestSequence < Len(Plan) /\ Latest' = committed[p]
    BY <2>0, <2>2, SoleCommitWrites
  <2> DEFINE n == LatestSequence
             o == committed[p][n + 1][2]
             new == Append(Latest, <<Plan[n + 1], o>>)
  <2>4. /\ n \in 0..Len(Plan) /\ Len(Plan) \in Nat /\ Latest \in Seq(Receipt) /\ Len(Latest) = n
        /\ committed[p] \in Seq(Receipt)
    BY <2>0, LatestBacked, PlanFacts DEF Backed, TypeOK
  <2>5. Backed(committed[p], n + 1) /\ \A i \in 1..n : committed[p][i] = Latest[i]
    BY <2>2 DEF CommitWrites, SoleInv, SolePlace, Committing
  <2>6. /\ Len(committed[p]) = n + 1 /\ n + 1 \in 1..Len(Plan)
        /\ committed[p][n + 1][1] = Plan[n + 1] /\ o \in Results[Plan[n + 1]]
    BY <2>3, <2>4, <2>5 DEF Backed
  <2>7. committed[p][n + 1] \in Receipt
    BY <2>4, <2>6
  <2>8. committed[p][n + 1] = <<Plan[n + 1], o>>
    BY <2>6, <2>7 DEF Receipt
  <2>9. new \in Seq(Receipt) /\ Len(new) = n + 1 /\ \A i \in 1..(n + 1) : new[i] = committed[p][i]
    <3>1. PICK r \in Receipt : r = <<Plan[n + 1], o>> /\ r = committed[p][n + 1]
      BY <2>7, <2>8
    <3>2. new = Append(Latest, r)
      BY <3>1
    <3> HIDE DEF o, new
    <3>3. new \in Seq(Receipt) /\ Len(new) = n + 1 /\ new[n + 1] = r
      BY <2>4, <3>2
    <3>4. \A i \in 1..n : new[i] = committed[p][i]
      BY <2>4, <2>5, <3>2
    <3>5. n \in Nat /\ \A i \in 1..(n + 1) : i = n + 1 \/ i \in 1..n
      BY <2>4
    <3> HIDE DEF n
    <3> QED BY <3>1, <3>3, <3>4, <3>5
  <2>10. committed[p] = new
    <3> HIDE DEF new, n
    <3> QED BY <2>4, <2>6, <2>9, SeqEqual
  <2> QED BY <2>3, <2>4, <2>6, <2>10 DEF Ledger!Commit
<1> QED BY <1>1, <1>2, SoleInvariant, PTL DEF Spec, LedgerSpec, Ledger!Spec

\* Fail closed, with any number of invocations and nothing assumed: when a committed file
\* is damaged and no invocation is past its verification, none gets past it any more.
THEOREM DamageAlwaysFailsClosed == Spec => DamageFailsClosed
<1> DEFINE closed == DamagedBeforeResume => DamagedBeforeResume' /\ results' = results /\ ckpt' = ckpt
<1>1. TypeInv /\ [Next]_vars => [closed]_vars
  <2> SUFFICES ASSUME TypeInv, Next, DamagedBeforeResume
               PROVE  DamagedBeforeResume' /\ results' = results /\ ckpt' = ckpt
    OBVIOUS
  <2>0. pc \in [Procs -> Labels]
    BY DEF TypeInv, TypeOK
  <2>1. \A p \in Procs : pc[p] \in {"idle", "consume", "latest"}
    BY DEF DamagedBeforeResume
  <2>2. ASSUME NEW p \in Procs, LoadLatest(p) PROVE Raise(p)
    <3>1. ~(ChainVerifies /\ \A i \in DOMAIN Latest : ReceiptVerifies(Latest[i]))
      BY DEF DamagedBeforeResume, ChainVerifies, ReceiptVerifies, Done
    <3> QED BY <2>2, <3>1 DEF LoadLatest
  <2>3. /\ UNCHANGED <<results, ckpt>> /\ badSeqs \subseteq badSeqs' /\ badUnits \subseteq badUnits'
        /\ \A p \in Procs : pc'[p] \in {"idle", "consume", "latest"}
    <3>1. CASE Damage
      BY <2>1, <3>1 DEF Damage, durable, local
    <3>2. ASSUME NEW p \in Procs, Step(p) \/ StopEarly(p) \/ Crash(p)
          PROVE  /\ UNCHANGED <<results, ckpt>> /\ badSeqs \subseteq badSeqs' /\ badUnits \subseteq badUnits'
                 /\ \A q \in Procs : pc'[q] \in {"idle", "consume", "latest"}
      <4>1. StartChecks(p) \/ StartConsumes(p) \/ ResumeLoads(p) \/ LoadLatest(p) \/ Crash(p)
        BY <2>1, <3>2 DEF Step, StopEarly, Compute, AccountReads, AccountWrites, CommitOutputChecks,
          CommitOutputWrites, CommitChecks, CommitWrites, Finish
      <4> QED BY <2>0, <2>1, <2>2, <4>1 DEF StartChecks, StartConsumes, ResumeLoads, Crash, Raise, Leave,
                Goto, durable, damage
    <3> QED BY <3>1, <3>2 DEF Next
  <2>4. Latest' = Latest
    BY <2>3 DEF Latest, LatestSequence
  <2> QED BY <2>3, <2>4 DEF DamagedBeforeResume
<1> QED BY <1>1, TypeInvariant, PTL DEF Spec, DamageFailsClosed

\* No committed checkpoint is ever replaced, whichever store checks the history and
\* whatever a recomputed unit comes out as.
THEOREM SoleHistoryAppendOnly ==
  ASSUME SoleProcess
  PROVE  Spec => HistoryAppendOnly
<1> DEFINE kept == \A s \in DOMAIN ckpt : s \in DOMAIN ckpt' /\ ckpt'[s] = ckpt[s]
<1>1. TypeInv /\ SoleInv /\ [Next]_vars => [kept]_vars
  <2> SUFFICES ASSUME TypeInv, SoleInv, Next PROVE kept
    OBVIOUS
  <2>1. ASSUME NEW p \in Procs, CommitWrites(p) PROVE kept
    BY <2>1, SoleCommitWrites DEF TypeInv
  <2> QED BY <2>1, OnlyCommitWrites
<1> QED BY <1>1, SoleInvariant, PTL DEF Spec, HistoryAppendOnly

\* All complete results of a run, interrupted or not, are what the files hold: a worker
\* that is not reproducible cannot make two of them differ.
THEOREM SoleResultsAgree ==
  ASSUME SoleProcess
  PROVE  Spec => []ResultsAgree
<1>1. SoleInv => ResultsAgree
  BY DEF SoleInv, SoleFiles, ResultsAgree
<1> QED BY <1>1, SoleInvariant, PTL

\* Racing invocations of a reproducible run: every checkpoint is backed by artifacts.
THEOREM CachedCheckpointsBacked ==
  ASSUME Cached, Reproducible
  PROVE  Spec => []CheckpointsBacked
<1>1. TypeInv /\ GoldenLog => CheckpointsBacked
  <2> SUFFICES ASSUME TypeInv, GoldenLog, NEW s \in DOMAIN ckpt, NEW i \in DOMAIN ckpt[s]
               PROVE  ckpt[s][i][1] \in DOMAIN artifacts /\ artifacts[ckpt[s][i][1]] = ckpt[s][i][2]
    BY DEF CheckpointsBacked
  <2>1. s \in 1..Len(Plan) /\ ckpt[s] = Golden(s) /\ DOMAIN ckpt = 1..LatestSequence
        /\ LatestSequence \in 0..Len(Plan)
    BY GoldenLatest, PlanFacts DEF TypeInv, GoldenLog, GoldenFiles
  <2>2. i \in 1..s /\ ckpt[s][i][1] = Plan[i] /\ ckpt[s][i][2] \in Results[Plan[i]]
    <3>1. i \in 1..s
      BY <2>1 DEF Golden
    <3>2. s \in 0..Len(Plan)
      BY <2>1, PlanFacts
    <3>3. \A k \in 1..s : Golden(s)[k][1] = Plan[k] /\ Golden(s)[k][2] \in Results[Plan[k]]
      BY <3>2, GoldenFacts
    <3> QED BY <2>1, <3>1, <3>3
  <2>3. Plan[i] \in DOMAIN artifacts /\ artifacts[Plan[i]] \in Results[Plan[i]] /\ Plan[i] \in Units
    <3>1. i \in DOMAIN ckpt
      BY <2>1, <2>2, PlanFacts
    <3> QED BY <2>1, <2>2, <3>1, PlanFacts DEF GoldenLog, GoldenFiles
  <2> QED BY <2>2, <2>3 DEF Reproducible
<1> QED BY <1>1, GoldenInvariant, TypeInvariant, PTL
================================================================================

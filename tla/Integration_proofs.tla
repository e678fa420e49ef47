-------------------------- MODULE Integration_proofs --------------------------
(***************************************************************************)
(* The queue, the admission under the lease of the base branch and the     *)
(* files of the completion, for any packets, pull requests, changes, runs, *)
(* transactions, observations and completers.                              *)
(***************************************************************************)
EXTENDS IntegrationQueue, FinalAdmission, PhysicalCompletion, FiniteSetLemmas

(***************************************************************************)
(* IntegrationQueue                                                        *)
(***************************************************************************)

\* Why a row is in its state: a READY one is complete and has no lineage blocker,
\* and whatever is not READY has a blocker that evaluate_ready_admission finds again.
RowsExplained ==
  \A p \in Queued :
    /\ rows[p].state = "READY" => rows[p].facts = "COMPLETE" /\ "LINEAGE" \notin rows[p].codes
    /\ rows[p].state # "READY" => Blockers(rows[p]) # {}

QueueIInv == QueueInv /\ RowsExplained /\ IsFiniteSet(Queued)

LEMMA NextSequenceType ==
  ASSUME QueueTypeOK, IsFiniteSet(Queued)
  PROVE  NextSequence \in Nat \ {0}
<1> DEFINE T == {rows[p].sequence : p \in Queued}
           f == [p \in Queued |-> rows[p].sequence]
<1>1. T \subseteq Nat
  BY DEF QueueTypeOK, Candidates
<1>2. IsFiniteSet(T)
  <2>1. f \in Surjection(Queued, T)
    BY DEF Surjection
  <2> QED BY <2>1, FS_Surjection
<1>3. IsFiniteSet(T \cup {0})
  BY <1>2, FS_AddElement
<1>4. Max(T \cup {0}) \in T \cup {0}
  BY <1>1, <1>3, MaxIsGreatest
<1> QED BY <1>1, <1>4 DEF NextSequence

\* What evaluate_ready_admission makes of a candidate.
LEMMA AdmittedRow ==
  ASSUME NEW row \in Candidates
  PROVE  /\ Admitted(row) \in Candidates
         /\ row.state \in {"QUARANTINED", "BLOCKED"} => Admitted(row).state = row.state
         /\ row.state \notin {"QUARANTINED", "BLOCKED"} => Admitted(row).state # "BUILD"
         /\ Admitted(row).state = "READY" =>
              /\ Blockers(row) = {}
              /\ Admitted(row).facts = "COMPLETE" /\ Admitted(row).codes = {}
         /\ Admitted(row).state # "READY" => Blockers(Admitted(row)) # {}
BY DEF Admitted, Blockers, Candidates, QueueStates, Codes, Facts

LEMMA QueueInitInv == QueueInit => QueueIInv
<1> SUFFICES ASSUME QueueInit PROVE QueueIInv
  OBVIOUS
<1>1. Queued = {}
  BY DEF QueueInit, Queued
<1> QED BY <1>1, FS_EmptySet
  DEF QueueInit, QueueIInv, QueueInv, QueueTypeOK, HolderReady, RowsExplained

\* One row is replaced by an explained one, or added, and the lease stays or is given up.
LEMMA OneRow ==
  ASSUME QueueIInv, NEW p \in Packets, NEW row \in Candidates, row.state # "BUILD",
         rows' = [q \in Queued \cup {p} |-> IF q = p THEN row ELSE rows[q]],
         holder' = NoPacket \/ (holder' = holder /\ p \notin Queued),
         row.state = "READY" => row.facts = "COMPLETE" /\ "LINEAGE" \notin row.codes,
         row.state # "READY" => Blockers(row) # {},
         p \in Queued /\ row.state = "READY" => rows[p].state = "READY"
  PROVE  QueueIInv' /\ LeaseNotTaken /\ NeverReadyAgain
<1>1. Queued' = Queued \cup {p}
  BY DEF Queued
<1>2. \A q \in Queued' : rows'[q] = IF q = p THEN row ELSE rows[q]
  BY <1>1
<1>3. IsFiniteSet(Queued')
  BY <1>1, FS_AddElement DEF QueueIInv
<1>4. QueueTypeOK'
  BY <1>1, <1>2 DEF QueueTypeOK, QueueIInv, QueueInv
<1>5. HolderReady'
  BY <1>1, <1>2 DEF HolderReady, QueueTypeOK, QueueIInv, QueueInv
<1>6. RowsExplained'
  BY <1>1, <1>2 DEF RowsExplained, QueueIInv, Blockers
<1>7. LeaseNotTaken /\ NeverReadyAgain
  BY <1>1, <1>2 DEF LeaseNotTaken, NeverReadyAgain
<1> QED BY <1>3, <1>4, <1>5, <1>6, <1>7 DEF QueueIInv, QueueInv

\* The three ways to give up the lease with a new state of the row.
LEMMA EndLeaseStep ==
  ASSUME QueueIInv, NEW p \in Packets, NEW state \in QueueStates, EndLease(p, state)
  PROVE  QueueIInv' /\ LeaseNotTaken /\ NeverReadyAgain
<1> DEFINE row == [rows[p] EXCEPT !.state = state, !.codes = rows[p].codes \cup {"OTHER"}]
<1>1. p \in Queued /\ rows[p] \in Candidates /\ rows[p].state = "READY"
      /\ rows[p].facts = "COMPLETE" /\ "LINEAGE" \notin rows[p].codes
  BY PacketsAssumption DEF EndLease, QueueIInv, QueueInv, QueueTypeOK, HolderReady
<1>2. /\ row \in Candidates /\ row.state = state /\ row.facts = "COMPLETE"
      /\ row.codes = rows[p].codes \cup {"OTHER"}
  BY <1>1 DEF Candidates, Codes
<1>3. rows' = [q \in Queued \cup {p} |-> IF q = p THEN row ELSE rows[q]]
  BY <1>1 DEF EndLease, Queued
<1>4. Blockers(row) # {} /\ "LINEAGE" \notin row.codes /\ row.state # "BUILD" /\ holder' = NoPacket
  BY <1>1, <1>2 DEF Blockers, QueueStates, EndLease
<1> HIDE DEF row
<1> QED BY <1>1, <1>2, <1>3, <1>4, OneRow

LEMMA QueueStep ==
  ASSUME QueueIInv, QueueNext
  PROVE  QueueIInv' /\ LeaseNotTaken /\ NeverReadyAgain
<1>1. ASSUME NEW p \in Packets, NEW candidate \in Offered, Enqueue(p, candidate)
      PROVE  QueueIInv' /\ LeaseNotTaken /\ NeverReadyAgain
  <2> DEFINE new == [candidate EXCEPT !.sequence = IF @ <= 0 THEN NextSequence ELSE @]
  <2>1. new \in Candidates
    BY NextSequenceType, OfferedAssumption DEF Candidates, QueueIInv, QueueInv
  <2>2. rows' = [q \in Queued \cup {p} |-> IF q = p THEN Admitted(new) ELSE rows[q]]
        /\ p \notin Queued /\ holder' = holder
    BY <1>1 DEF Enqueue
  <2> HIDE DEF new
  <2>3. /\ Admitted(new) \in Candidates /\ Admitted(new).state # "BUILD"
        /\ Admitted(new).state = "READY" =>
             Admitted(new).facts = "COMPLETE" /\ "LINEAGE" \notin Admitted(new).codes
        /\ Admitted(new).state # "READY" => Blockers(Admitted(new)) # {}
    BY <2>1, AdmittedRow
  <2> QED BY <2>2, <2>3, OneRow
<1>2. ASSUME NEW p \in Packets, AcquireLease(p)
      PROVE  QueueIInv' /\ LeaseNotTaken /\ NeverReadyAgain
  BY <1>2 DEF AcquireLease, IsHead, LeaseFree, QueueIInv, QueueInv, QueueTypeOK, HolderReady,
     RowsExplained, LeaseNotTaken, NeverReadyAgain, Queued, Blockers
<1>3. ASSUME NEW p \in Packets, ReleaseLease(p)
      PROVE  QueueIInv' /\ LeaseNotTaken /\ NeverReadyAgain
  BY <1>3 DEF ReleaseLease, QueueIInv, QueueInv, QueueTypeOK, HolderReady,
     RowsExplained, LeaseNotTaken, NeverReadyAgain, Queued, Blockers
<1>4. ASSUME NEW p \in Packets, MarkIntegrated(p)
      PROVE  QueueIInv' /\ LeaseNotTaken /\ NeverReadyAgain
  BY <1>4, EndLeaseStep DEF MarkIntegrated, QueueStates
<1>5. ASSUME NEW p \in Packets, NEW active \in BOOLEAN, LeaseElapsed(p, active)
      PROVE  QueueIInv' /\ LeaseNotTaken /\ NeverReadyAgain
  BY <1>5, EndLeaseStep DEF LeaseElapsed, QueueStates
<1>6. ASSUME NEW p \in Packets,
             NEW d \in {"REQUEUE", "BLOCKED", "QUARANTINED", "OPERATOR_REQUIRED"},
             TerminateLease(p, d)
      PROVE  QueueIInv' /\ LeaseNotTaken /\ NeverReadyAgain
  <2>1. (IF d = "REQUEUE" THEN "READY" ELSE d) \in QueueStates
    BY DEF QueueStates
  <2> QED BY <1>6, <2>1, EndLeaseStep DEF TerminateLease
<1>7. ASSUME BuildQueueState
      PROVE  QueueIInv' /\ LeaseNotTaken /\ NeverReadyAgain
  <2>1. Queued' = Queued /\ \A p \in Queued : rows'[p] = Admitted(rows[p])
    BY <1>7 DEF BuildQueueState, Queued
  <2>2. \A p \in Queued : rows[p] \in Candidates /\ rows[p].state # "BUILD"
    BY DEF QueueIInv, QueueInv, QueueTypeOK
  <2>3. \A p \in Queued :
          /\ rows'[p] \in Candidates /\ rows'[p].state # "BUILD"
          /\ rows'[p].state = "READY" => rows'[p].facts = "COMPLETE" /\ rows'[p].codes = {}
          /\ rows'[p].state = "READY" => Blockers(rows[p]) = {}
          /\ rows'[p].state # "READY" => Blockers(rows'[p]) # {}
    BY <2>1, <2>2, AdmittedRow
  <2>4. QueueTypeOK' /\ HolderReady' /\ IsFiniteSet(Queued')
    BY <1>7, <2>1, <2>3 DEF BuildQueueState, QueueTypeOK, HolderReady, QueueIInv, QueueInv
  <2>5. RowsExplained'
    BY <2>1, <2>3 DEF RowsExplained, Blockers
  <2>6. LeaseNotTaken /\ NeverReadyAgain
    BY <1>7, <2>1, <2>3 DEF BuildQueueState, LeaseNotTaken, NeverReadyAgain, RowsExplained, QueueIInv
  <2> QED BY <2>4, <2>5, <2>6 DEF QueueIInv, QueueInv
<1> QED BY <1>1, <1>2, <1>3, <1>4, <1>5, <1>6, <1>7, QueueNext DEF QueueNext

LEMMA QueueStutter ==
  ASSUME QueueIInv, UNCHANGED queueVars
  PROVE  QueueIInv'
BY DEF queueVars, QueueIInv, QueueInv, QueueTypeOK, HolderReady, RowsExplained, Queued, Blockers

\* Every QueueState that the operations of siq_core lead to has a holder that is
\* READY and complete, or none.
THEOREM QueueCorrect == QueueSpec => []QueueInv
<1>1. QueueIInv /\ [QueueNext]_queueVars => QueueIInv'
  BY QueueStep, QueueStutter
<1>2. QueueIInv => QueueInv
  BY DEF QueueIInv
<1> QED BY QueueInitInv, <1>1, <1>2, PTL DEF QueueSpec

\* No operation takes the lease from its holder for another packet, and none makes a
\* packet READY again that was not: build_queue_state finds the blocker once more.
THEOREM QueueStepsCorrect == QueueSpec => QueueSteps
<1>1. QueueIInv /\ [QueueNext]_queueVars => QueueIInv'
  BY QueueStep, QueueStutter
<1>2. QueueIInv /\ [QueueNext]_queueVars => [LeaseNotTaken /\ NeverReadyAgain]_queueVars
  BY QueueStep
<1> QED BY QueueInitInv, <1>1, <1>2, PTL DEF QueueSpec, QueueSteps


(***************************************************************************)
(* FinalAdmission under MainLease                                          *)
(***************************************************************************)

Heads == 1..(MaxEdits + 1)
RunRecords == [pr : PullRequests, head : Heads, qual : Heads, base : SUBSET Changes, pc : RunStates]
PrRecords == [head : Heads, qual : Heads, parent : (SUBSET Changes) \cup {NotMerged}]

FinalTypes ==
  /\ runs \in Seq(RunRecords)
  /\ pr \in [PullRequests -> PrRecords]
  /\ \A p \in PullRequests : pr[p].head <= edits + 1 /\ pr[p].qual <= edits + 1

\* While the child is watched, the last observation that succeeded saw the base.
LeaseWatched ==
  /\ loop \in {"TOP", "SLEEP"} =>
       lastSeen = base /\ failures < MAX_CONSECUTIVE_OBSERVATION_FAILURES
  /\ code = 0 => loop = "EXITED"

\* One run is in the lane.
OneInLane == \A r, s \in Runs : runs[r].pc \in Lane /\ runs[s].pc \in Lane => r = s

\* What a run has behind it: a qualification, and later an assurance on its base.
RunsBacked ==
  \A r \in Runs :
    /\ runs[r].pc \in Lane \cup {"QUEUED", "ADMITTED"} =>
         <<runs[r].pr, runs[r].head, runs[r].qual>> \in qualified
    /\ runs[r].pc \in {"CHECK_HEAD", "CHECK_MAIN", "CHECK_QUAL", "ADMITTED"} =>
         <<Change(runs[r].pr, runs[r].head), runs[r].base>> \in passed

Merged == {p \in PullRequests : pr[p].parent # NotMerged}

\* Merges follow one another: each has an admitted run of its head, is on main, and
\* of two merges one is in the parent of the other.
MergesInOrder ==
  /\ \A p \in PullRequests, h \in Heads : Change(p, h) \in main => p \in Merged
  /\ \A p \in Merged : AdmittedRuns(p) # {} /\ Change(p, pr[p].head) \in main
  /\ \A p, q \in Merged : p # q =>
       \/ Change(p, pr[p].head) \in pr[q].parent
       \/ Change(q, pr[q].head) \in pr[p].parent
  /\ \A p \in Merged : Change(p, pr[p].head) \notin pr[p].parent
  /\ proofs \subseteq Merged

FinalIInv ==
  AdmissionInv /\ FinalTypes /\ LeaseWatched /\ OneInLane /\ RunsBacked /\ MergesInOrder

LeaseIInv == LeaseTypeOK /\ PassedOnBase /\ LeaseWatched

\* What the script, its child and the branch do keeps the lease watched.
LEMMA LeaseStep ==
  ASSUME LeaseIInv, MaxUnobserved \in Nat,
         \/ \E tree \in SUBSET Changes : StartRun(tree) \/ StartFails(tree)
         \/ \E result \in {"PASSED", "FAILED"} : ChildEnds(result)
         \/ PollChild \/ ObserveBranch \/ ObservationFails
         \/ NextRun \/ CancelRun
         \/ \E change \in Changes : Merge(change)
         \/ UNCHANGED leaseVars
  PROVE  LeaseIInv'
<1> USE DEF LeaseIInv, LeaseTypeOK, PassedOnBase, LeaseWatched, leaseVars, leaseRun, Exit,
  EXIT_BASE_MOVED, EXIT_LEASE_OBSERVABILITY, MAX_CONSECUTIVE_OBSERVATION_FAILURES
<1>1. CASE \E tree \in SUBSET Changes : StartRun(tree)
  BY <1>1 DEF StartRun
<1>2. CASE \E tree \in SUBSET Changes : StartFails(tree)
  BY <1>2 DEF StartFails
<1>3. CASE \E result \in {"PASSED", "FAILED"} : ChildEnds(result)
  BY <1>3 DEF ChildEnds
<1>4. CASE PollChild
  BY <1>4 DEF PollChild
<1>5. CASE ObserveBranch
  BY <1>5 DEF ObserveBranch, Moved, Terminated
<1>6. CASE ObservationFails
  BY <1>6 DEF ObservationFails, TooMany, Terminated
<1>7. CASE NextRun \/ CancelRun
  BY <1>7 DEF NextRun, CancelRun, Cleared
<1>8. CASE \E change \in Changes : Merge(change)
  BY <1>8 DEF Merge
<1>9. CASE UNCHANGED leaseVars
  BY <1>9
<1> QED BY <1>1, <1>2, <1>3, <1>4, <1>5, <1>6, <1>7, <1>8, <1>9

\* A lane with one run in it is what the cardinality of the type invariant counts.
LEMMA LaneCounted ==
  ASSUME OneInLane
  PROVE  Cardinality({r \in Runs : runs[r].pc \in Lane}) <= 1
<1> DEFINE L == {r \in Runs : runs[r].pc \in Lane}
<1> SUFFICES Cardinality(L) <= 1
  OBVIOUS
<1>1. CASE L = {}
  BY <1>1, FS_EmptySet
<1>2. CASE L # {}
  <2>1. PICK r \in L : TRUE
    BY <1>2
  <2>2. L = {r}
    BY <2>1 DEF OneInLane
  <2>3. Cardinality({r}) = 1
    BY FS_Singleton
  <2> HIDE DEF L
  <2> QED BY <2>2, <2>3
<1> QED BY <1>1, <1>2

\* The conjuncts of FinalIInv that are not about the lease alone, one by one.
FinalParts ==
  /\ pr \in [PullRequests -> PrRecords]
  /\ runs \in Seq(RunRecords)
  /\ \A p \in PullRequests :
       /\ pr[p].head <= edits + 1 /\ pr[p].qual <= edits + 1
       /\ pr[p].parent = NotMerged \/ pr[p].parent \subseteq main
  /\ \A r \in Runs : runs[r].base \subseteq main
  /\ loop # "NONE" => \E r \in Runs : runs[r].pc = "LEASE" /\ runs[r].base = base
  /\ edits \in 0..MaxEdits
  /\ proofs \subseteq PullRequests
  /\ OneInLane
  /\ RunsBacked
  /\ MergesInOrder
  /\ ProvenIsAssured

LEMMA FinalIsParts == FinalIInv <=> LeaseIInv /\ FinalParts
<1>1. FinalIInv => LeaseIInv /\ FinalParts
  BY DEF FinalIInv, LeaseIInv, FinalParts, AdmissionInv, FinalTypeOK, FinalTypes
<1>2. ASSUME LeaseIInv, FinalParts PROVE FinalIInv
  <2>1. FinalTypes
    BY <1>2 DEF FinalParts, FinalTypes
  <2>2. FinalTypeOK
    <3>1. \A p \in PullRequests : pr[p].head \in Heads /\ pr[p].qual \in Heads
      BY <1>2 DEF FinalParts, PrRecords
    <3>2. \A r \in Runs : runs[r].pc \in RunStates
      <4>1. \A r \in Runs : runs[r] \in RunRecords
        BY <1>2 DEF FinalParts, Runs
      <4> QED BY <4>1 DEF RunRecords
    <3>3. Cardinality({r \in Runs : runs[r].pc \in Lane}) <= 1
      BY <1>2, LaneCounted DEF FinalParts
    <3> QED BY <1>2, <3>1, <3>2, <3>3 DEF FinalParts, FinalTypeOK, LeaseIInv, Heads
  <2>3. ReceiptIsQualified
    BY <1>2 DEF FinalParts, RunsBacked, ReceiptIsQualified
  <2> QED BY <1>2, <2>1, <2>2, <2>3 DEF FinalParts, FinalIInv, AdmissionInv, LeaseIInv
<1> QED BY <1>1, <1>2

\* The effect of putting a run at another place.
LEMMA RunMoves ==
  ASSUME runs \in Seq(RunRecords), NEW r \in Runs, NEW e \in RunRecords,
         runs' = [runs EXCEPT ![r] = e]
  PROVE  /\ runs' \in Seq(RunRecords) /\ Runs' = Runs
         /\ runs'[r] = e /\ \A s \in Runs \ {r} : runs'[s] = runs[s]
<1>1. Runs = 1..Len(runs) /\ DOMAIN runs' = DOMAIN runs
  BY DEF Runs
<1>2. runs' \in Seq(RunRecords)
  BY <1>1, ExceptSeq
<1> QED BY <1>1, <1>2 DEF Runs

\* Runs that move on, on what they have behind them, keep the invariant; those that
\* have a receipt keep it, and the lease is the business of the run in "LEASE".
LEMMA RunsMoveOn ==
  ASSUME FinalParts, NEW r \in Runs, NEW e \in RunRecords,
         runs' = [runs EXCEPT ![r] = e],
         e.pr = runs[r].pr, e.head = runs[r].head, e.qual = runs[r].qual,
         e.base \subseteq main,
         runs[r].pc # "ADMITTED",
         e.pc \in Lane => runs[r].pc \in Lane \/ LaneFree,
         e.pc \in Lane \cup {"QUEUED", "ADMITTED"} => <<e.pr, e.head, e.qual>> \in qualified',
         e.pc \in {"CHECK_HEAD", "CHECK_MAIN", "CHECK_QUAL", "ADMITTED"} =>
           <<Change(e.pr, e.head), e.base>> \in passed',
         qualified \subseteq qualified', passed \subseteq passed',
         UNCHANGED <<pr, edits, proofs, main>>,
         \/ loop' = "NONE"
         \/ UNCHANGED <<loop, base>> /\ runs[r].pc # "LEASE"
  PROVE  FinalParts'
<1>1. /\ runs' \in Seq(RunRecords) /\ Runs' = Runs
      /\ runs'[r] = e /\ \A s \in Runs \ {r} : runs'[s] = runs[s]
  BY RunMoves DEF FinalParts
<1>2. OneInLane'
  BY <1>1 DEF FinalParts, OneInLane, LaneFree
<1>3. RunsBacked'
  BY <1>1 DEF FinalParts, RunsBacked
<1>4. \A p : AdmittedRuns(p) \subseteq AdmittedRuns(p)'
  BY <1>1 DEF AdmittedRuns
<1>5. MergesInOrder' /\ ProvenIsAssured'
  BY <1>4 DEF FinalParts, MergesInOrder, ProvenIsAssured, Merged
<1>6. \A s \in Runs : runs'[s].base \subseteq main
  BY <1>1 DEF FinalParts
<1>7. loop' # "NONE" => \E s \in Runs : runs'[s].pc = "LEASE" /\ runs'[s].base = base'
  <2> SUFFICES ASSUME loop' # "NONE"
               PROVE  \E s \in Runs : runs'[s].pc = "LEASE" /\ runs'[s].base = base'
    OBVIOUS
  <2>1. PICK s \in Runs : runs[s].pc = "LEASE" /\ runs[s].base = base
    BY DEF FinalParts
  <2> QED BY <1>1, <2>1
<1> QED BY <1>1, <1>2, <1>3, <1>5, <1>6, <1>7 DEF FinalParts

\* What FinalParts says of one run.
LEMMA RunFacts ==
  ASSUME FinalParts, NEW r \in Runs
  PROVE  /\ runs[r] \in RunRecords /\ runs[r].base \subseteq main
         /\ \A pc \in RunStates : [runs[r] EXCEPT !.pc = pc] \in RunRecords
<1>1. runs[r] \in RunRecords /\ runs[r].base \subseteq main
  BY DEF FinalParts, Runs
<1> QED BY <1>1 DEF RunRecords

\* A look that a run takes by itself, away from the lease.
LEMMA RunLooks ==
  ASSUME FinalParts, NEW r \in Runs, NEW pc \in RunStates,
         runs[r].pc \notin {"LEASE", "ADMITTED"},
         runs' = [runs EXCEPT ![r].pc = pc],
         pc \in Lane => runs[r].pc \in Lane \/ LaneFree,
         pc \in Lane \cup {"QUEUED", "ADMITTED"} =>
           <<runs[r].pr, runs[r].head, runs[r].qual>> \in qualified',
         pc \in {"CHECK_HEAD", "CHECK_MAIN", "CHECK_QUAL", "ADMITTED"} =>
           <<Change(runs[r].pr, runs[r].head), runs[r].base>> \in passed,
         qualified \subseteq qualified',
         UNCHANGED <<pr, edits, proofs, passed, leaseVars>>
  PROVE  FinalParts'
<1> DEFINE e == [runs[r] EXCEPT !.pc = pc]
<1>1. e \in RunRecords /\ runs[r] \in RunRecords /\ runs[r].base \subseteq main
  BY RunFacts
<1>2. /\ e.pr = runs[r].pr /\ e.head = runs[r].head /\ e.qual = runs[r].qual
      /\ e.base = runs[r].base /\ e.pc = pc
  BY <1>1 DEF RunRecords
<1>3. runs' = [runs EXCEPT ![r] = e]
  OBVIOUS
<1>4. UNCHANGED <<pr, edits, proofs, main>> /\ UNCHANGED <<loop, base>> /\ passed' = passed
  BY DEF leaseVars
<1> HIDE DEF e
<1> QED BY <1>1, <1>2, <1>3, <1>4, RunsMoveOn

\* The steps of a run.
LEMMA RunStepKeeps ==
  ASSUME LeaseIInv, FinalParts, NEW r \in Runs, RunStep(r) \/ JobFails(r)
  PROVE  LeaseIInv' /\ FinalParts'
<1> USE FinalAssumption
<1>0. runs[r] \in RunRecords /\ runs[r].base \subseteq main
  BY RunFacts
<1>a. ASSUME UNCHANGED leaseVars PROVE LeaseIInv'
  BY <1>a, LeaseStep
<1>b. /\ runs[r].pc \in Lane \cup {"QUEUED"} => <<runs[r].pr, runs[r].head, runs[r].qual>> \in qualified
      /\ runs[r].pc \in {"CHECK_HEAD", "CHECK_MAIN", "CHECK_QUAL"} =>
           <<Change(runs[r].pr, runs[r].head), runs[r].base>> \in passed
  BY DEF FinalParts, RunsBacked
<1>1. ASSUME NEW pass \in BOOLEAN, EndReady(r, pass) PROVE LeaseIInv' /\ FinalParts'
  <2>1. PICK pc \in {"QUEUED", "FAILED"} :
          /\ runs' = [runs EXCEPT ![r].pc = pc]
          /\ pc = "QUEUED" => <<runs[r].pr, runs[r].head, runs[r].qual>> \in qualified'
    BY <1>1 DEF EndReady, Proceed, Goto, HeadSame, QualificationSame
  <2>2. /\ runs[r].pc = "READY" /\ qualified \subseteq qualified'
        /\ UNCHANGED <<pr, edits, proofs, passed, leaseVars>>
    BY <1>1 DEF EndReady
  <2> QED BY <2>1, <2>2, <1>a, RunLooks DEF RunStates, Lane
<1>2. ASSUME AcquireHead(r) PROVE LeaseIInv' /\ FinalParts'
  <2>1. PICK pc \in {"QUAL", "FAILED"} : runs' = [runs EXCEPT ![r].pc = pc]
    BY <1>2 DEF AcquireHead, Proceed, Goto
  <2>2. runs[r].pc = "QUEUED" /\ LaneFree /\ UNCHANGED <<pr, edits, proofs, qualified, passed, leaseVars>>
    BY <1>2 DEF AcquireHead
  <2> QED BY <2>1, <2>2, <1>a, <1>b, RunLooks DEF RunStates, Lane
<1>3. ASSUME AcquireQualification(r) \/ CheckHead(r) \/ CheckMain(r) \/ CheckQualification(r)
      PROVE  LeaseIInv' /\ FinalParts'
  <2>1. PICK pc \in RunStates :
          /\ runs' = [runs EXCEPT ![r].pc = pc]
          /\ runs[r].pc \in {"QUAL", "CHECK_HEAD", "CHECK_MAIN", "CHECK_QUAL"}
          /\ pc \in {"BIND", "CHECK_MAIN", "CHECK_QUAL", "ADMITTED", "FAILED"}
          /\ pc \in {"CHECK_MAIN", "CHECK_QUAL", "ADMITTED"} => runs[r].pc # "QUAL"
    BY <1>3 DEF AcquireQualification, CheckHead, CheckMain, CheckQualification, Proceed, Goto,
      RunStates, Lane
  <2>2. UNCHANGED <<pr, edits, proofs, qualified, passed, leaseVars>>
    BY <1>3 DEF AcquireQualification, CheckHead, CheckMain, CheckQualification
  <2> QED BY <2>1, <2>2, <1>a, <1>b, RunLooks DEF Lane
<1>4. ASSUME BindBase(r) PROVE LeaseIInv' /\ FinalParts'
  <2> DEFINE e == [runs[r] EXCEPT !.pc = "LEASE", !.base = main]
  <2>1. main \subseteq Changes /\ runs[r].pc = "BIND"
    BY <1>4 DEF BindBase, LeaseIInv, LeaseTypeOK
  <2>2. /\ e \in RunRecords /\ e.pr = runs[r].pr /\ e.head = runs[r].head
        /\ e.qual = runs[r].qual /\ e.base = main /\ e.pc = "LEASE"
    BY <1>0, <2>1 DEF RunRecords, RunStates, Lane
  <2>3. /\ runs' = [runs EXCEPT ![r] = e]
        /\ UNCHANGED <<pr, edits, proofs, main>> /\ UNCHANGED <<loop, base>>
        /\ UNCHANGED <<qualified, passed>> /\ UNCHANGED leaseVars
    BY <1>4 DEF BindBase, leaseVars
  <2> HIDE DEF e
  <2> QED BY <2>1, <2>2, <2>3, <1>a, <1>b, RunsMoveOn DEF Lane
<1>5. ASSUME StartLease(r) PROVE LeaseIInv' /\ FinalParts'
  <2>1. runs[r].base \in SUBSET Changes
    BY <1>0 DEF RunRecords
  <2>2. LeaseIInv'
    BY <1>5, <2>1, LeaseStep DEF StartLease
  <2>3. /\ UNCHANGED main /\ base' = runs[r].base /\ runs[r].pc = "LEASE"
        /\ UNCHANGED <<pr, runs, edits, proofs, qualified, passed>>
    BY <1>5 DEF StartLease, StartRun, StartFails, admissionVars
  <2>4. OneInLane' /\ RunsBacked' /\ MergesInOrder' /\ ProvenIsAssured'
    BY <2>3 DEF FinalParts, OneInLane, RunsBacked, MergesInOrder, ProvenIsAssured, Merged,
      AdmittedRuns, Runs
  <2> QED BY <2>2, <2>3, <2>4 DEF FinalParts, Runs
<1>6. ASSUME EndLeaseRun(r) PROVE LeaseIInv' /\ FinalParts'
  <2>1. LeaseIInv'
    BY <1>6, LeaseStep DEF EndLeaseRun
  <2>2. /\ runs[r].pc = "LEASE" /\ loop = "EXITED" /\ loop' = "NONE"
        /\ UNCHANGED <<pr, edits, proofs, main>> /\ UNCHANGED qualified /\ passed \subseteq passed'
    BY <1>6 DEF EndLeaseRun, NextRun, Cleared
  <2>3. runs[r].base = base
    BY <2>2 DEF FinalParts, OneInLane, Lane
  <2>4. PICK pc \in {"CHECK_HEAD", "FAILED"} :
          /\ runs' = [runs EXCEPT ![r].pc = pc]
          /\ pc = "CHECK_HEAD" => <<Change(runs[r].pr, runs[r].head), runs[r].base>> \in passed'
    BY <1>6, <2>3 DEF EndLeaseRun, Proceed, Goto
  <2> DEFINE e == [runs[r] EXCEPT !.pc = pc]
  <2>5. /\ e \in RunRecords /\ e.pr = runs[r].pr /\ e.head = runs[r].head
        /\ e.qual = runs[r].qual /\ e.base = runs[r].base /\ e.pc = pc
    BY <1>0 DEF RunRecords, RunStates, Lane
  <2>6. runs' = [runs EXCEPT ![r] = e]
    BY <2>4
  <2> HIDE DEF e
  <2> QED BY <1>0, <1>b, <2>1, <2>2, <2>4, <2>5, <2>6, RunsMoveOn DEF Lane
<1>7. ASSUME JobFails(r) PROVE LeaseIInv' /\ FinalParts'
  <2>1. LeaseIInv'
    BY <1>7, LeaseStep DEF JobFails
  <2>2. CASE runs[r].pc # "LEASE"
    <3>1. /\ runs' = [runs EXCEPT ![r].pc = "FAILED"] /\ runs[r].pc # "ADMITTED"
          /\ UNCHANGED <<pr, edits, proofs, qualified, passed, leaseVars>>
      BY <1>7, <2>2 DEF JobFails, Goto, Lane
    <3> QED BY <2>1, <2>2, <3>1, RunLooks DEF RunStates, Lane
  <2>3. CASE runs[r].pc = "LEASE"
    <3>1. /\ UNCHANGED <<pr, edits, proofs, main>> /\ UNCHANGED <<qualified, passed>>
          /\ loop' = "NONE" /\ runs' = [runs EXCEPT ![r].pc = "FAILED"]
      BY <1>7, <2>3 DEF JobFails, CancelRun, Cleared, Goto
    <3> DEFINE e == [runs[r] EXCEPT !.pc = "FAILED"]
    <3>2. /\ e \in RunRecords /\ e.pr = runs[r].pr /\ e.head = runs[r].head
          /\ e.qual = runs[r].qual /\ e.base = runs[r].base /\ e.pc = "FAILED"
      BY <1>0 DEF RunRecords, RunStates
    <3>3. runs' = [runs EXCEPT ![r] = e]
      BY <3>1
    <3> HIDE DEF e
    <3> QED BY <1>0, <2>1, <2>3, <3>1, <3>2, <3>3, RunsMoveOn DEF Lane
  <2> QED BY <2>2, <2>3
<1> QED BY <1>1, <1>2, <1>3, <1>4, <1>5, <1>6, <1>7 DEF RunStep

\* What happens to pull requests and to main beside the runs.
LEMMA PullRequestKeeps ==
  ASSUME LeaseIInv, FinalParts, NEW p \in PullRequests,
         StartReady(p) \/ PushHead(p) \/ Requalify(p) \/ MergePr(p) \/ RecoverOne(p)
  PROVE  LeaseIInv' /\ FinalParts'
<1> USE FinalAssumption
<1>a. ASSUME UNCHANGED leaseVars PROVE LeaseIInv' /\ UNCHANGED <<main, loop, base>>
  BY <1>a, LeaseStep DEF leaseVars
<1>b. pr[p] \in PrRecords /\ main \in SUBSET Changes /\ MaxEdits \in Nat /\ edits \in 0..MaxEdits
  BY DEF FinalParts, LeaseIInv, LeaseTypeOK
<1>1. CASE StartReady(p)
  <2> DEFINE e == [pr |-> p, head |-> pr[p].head, qual |-> pr[p].qual, base |-> {}, pc |-> "READY"]
  <2>1. e \in RunRecords
    BY <1>b DEF PrRecords, RunRecords, RunStates
  <2>2. /\ runs' = Append(runs, e) /\ UNCHANGED <<pr, edits, proofs, qualified, passed>>
        /\ UNCHANGED leaseVars
    BY <1>1 DEF StartReady
  <2>3. e.base = {} /\ e.pc = "READY"
    OBVIOUS
  <2> HIDE DEF e
  <2>4. /\ runs' \in Seq(RunRecords) /\ Runs' = Runs \cup {Len(runs) + 1} /\ Len(runs) + 1 \notin Runs
        /\ runs'[Len(runs) + 1] = e /\ \A r \in Runs : runs'[r] = runs[r]
    BY <2>1, <2>2, AppendProperties DEF FinalParts, Runs
  <2>5. OneInLane' /\ RunsBacked'
    <3>1. OneInLane /\ RunsBacked
      BY DEF FinalParts
    <3>2. \A r \in Runs' : r \notin Runs => runs'[r].pc = "READY"
      BY <2>3, <2>4
    <3>3. \A r \in Runs' : runs'[r].pc \in Lane \cup {"QUEUED", "ADMITTED"}
                          => r \in Runs /\ runs'[r] = runs[r]
      BY <2>4, <3>2 DEF Lane
    <3>4. OneInLane'
      BY <3>1, <3>3 DEF OneInLane
    <3>5. RunsBacked'
      BY <2>2, <3>1, <3>3 DEF RunsBacked, Lane
    <3> QED BY <3>4, <3>5
  <2>6. \A q : AdmittedRuns(q) \subseteq AdmittedRuns(q)'
    BY <2>2, <2>4 DEF AdmittedRuns
  <2>7. MergesInOrder'
    <3>1. UNCHANGED <<pr, proofs, main>>
      BY <1>a, <2>2
    <3>2. Merged' = Merged /\ MergesInOrder
      BY <3>1 DEF Merged, FinalParts
    <3>3. \A q \in Merged : AdmittedRuns(q)' # {}
      BY <2>6, <3>2 DEF MergesInOrder
    <3> QED BY <3>1, <3>2, <3>3 DEF MergesInOrder
  <2>8. ProvenIsAssured'
    BY <2>2 DEF FinalParts, ProvenIsAssured
  <2> QED BY <1>a, <2>2, <2>3, <2>4, <2>5, <2>7, <2>8 DEF FinalParts
<1>2. CASE PushHead(p) \/ Requalify(p)
  <2>1. /\ edits < MaxEdits /\ edits' = edits + 1
        /\ UNCHANGED <<runs, proofs, qualified, passed>> /\ UNCHANGED leaseVars
    BY <1>2 DEF PushHead, Requalify
  <2>2. PICK e \in PrRecords :
          /\ pr' = [pr EXCEPT ![p] = e]
          /\ e.parent = pr[p].parent /\ e.head <= edits' + 1 /\ e.qual <= edits' + 1
          /\ e.head # pr[p].head => pr[p].parent = NotMerged
    <3>1. pr[p].head \in Nat /\ pr[p].qual \in Nat /\ pr[p].head <= edits + 1 /\ pr[p].qual <= edits + 1
      BY <1>b DEF FinalParts, PrRecords, Heads
    <3>2. CASE PushHead(p)
      <4> DEFINE e == [pr[p] EXCEPT !.head = pr[p].head + 1]
      <4>1. pr' = [pr EXCEPT ![p] = e] /\ pr[p].parent = NotMerged
        BY <3>2 DEF PushHead
      <4>2. e \in PrRecords /\ e.parent = pr[p].parent /\ e.head <= edits' + 1 /\ e.qual <= edits' + 1
        BY <1>b, <2>1, <3>1 DEF PrRecords, Heads
      <4> QED BY <4>1, <4>2
    <3>3. CASE Requalify(p)
      <4> DEFINE e == [pr[p] EXCEPT !.qual = pr[p].qual + 1]
      <4>1. pr' = [pr EXCEPT ![p] = e]
        BY <3>3 DEF Requalify
      <4>2. /\ e \in PrRecords /\ e.parent = pr[p].parent /\ e.head = pr[p].head
            /\ e.head <= edits' + 1 /\ e.qual <= edits' + 1
        BY <1>b, <2>1, <3>1 DEF PrRecords, Heads
      <4> QED BY <4>1, <4>2
    <3> QED BY <1>2, <3>2, <3>3
  <2>3. /\ pr' \in [PullRequests -> PrRecords] /\ pr'[p] = e
        /\ \A q \in PullRequests \ {p} : pr'[q] = pr[q]
    BY <2>2 DEF FinalParts
  <2>4. OneInLane' /\ RunsBacked' /\ Runs' = Runs
    BY <2>1 DEF FinalParts, OneInLane, RunsBacked, Runs
  <2>5. Merged' = Merged /\ \A q \in Merged : pr'[q].head = pr[q].head /\ pr'[q].parent = pr[q].parent
    BY <2>2, <2>3 DEF Merged
  <2>6. \A q \in Merged : AdmittedRuns(q)' = AdmittedRuns(q)
    BY <2>1, <2>4, <2>5 DEF AdmittedRuns
  <2>7. MergesInOrder'
    BY <1>a, <2>1, <2>5, <2>6 DEF FinalParts, MergesInOrder
  <2>8. ProvenIsAssured'
    BY <2>1, <2>5 DEF FinalParts, MergesInOrder, ProvenIsAssured
  <2>9. \A q \in PullRequests :
          /\ pr'[q].head <= edits' + 1 /\ pr'[q].qual <= edits' + 1
          /\ pr'[q].parent = NotMerged \/ pr'[q].parent \subseteq main
    <3> TAKE q \in PullRequests
    <3>1. pr[q].head \in Nat /\ pr[q].qual \in Nat
      BY DEF FinalParts, PrRecords, Heads
    <3> QED BY <1>b, <2>1, <2>2, <2>3, <3>1 DEF FinalParts
  <2> QED BY <1>a, <1>b, <2>1, <2>3, <2>4, <2>7, <2>8, <2>9 DEF FinalParts
<1>3. CASE MergePr(p)
  <2>1. /\ pr[p].parent = NotMerged /\ AdmittedRuns(p) # {}
        /\ pr' = [pr EXCEPT ![p].parent = main] /\ main' = main \cup {Change(p, pr[p].head)}
        /\ UNCHANGED <<runs, edits, proofs, qualified, passed>> /\ UNCHANGED <<loop, base>>
    BY <1>3 DEF MergePr, Merge, leaseRun
  <2>2. pr[p].head \in Heads
    BY <1>b DEF PrRecords
  <2>3. Change(p, pr[p].head) \in Changes
    BY <2>2 DEF Change, Heads
  <2>4. LeaseIInv'
    BY <1>3, <2>3, LeaseStep DEF MergePr
  <2>5. /\ pr' \in [PullRequests -> PrRecords] /\ pr'[p].head = pr[p].head
        /\ pr'[p].parent = main /\ pr'[p].qual = pr[p].qual
        /\ \A q \in PullRequests \ {p} : pr'[q] = pr[q]
    BY <1>b, <2>1 DEF FinalParts, PrRecords
  <2>6. main # NotMerged /\ p \notin Merged /\ Merged' = Merged \cup {p}
    BY <1>b, <2>1, <2>5 DEF Merged
  <2>7. Runs' = Runs /\ OneInLane' /\ RunsBacked'
    BY <2>1 DEF FinalParts, OneInLane, RunsBacked, Runs
  <2>8. \A q \in PullRequests : AdmittedRuns(q)' = AdmittedRuns(q)
    BY <2>1, <2>5, <2>7 DEF AdmittedRuns
  <2>9. Change(p, pr[p].head) \notin main
    BY <2>2, <2>6 DEF FinalParts, MergesInOrder
  <2>10. \A q \in PullRequests, h \in Heads : Change(q, h) = Change(p, pr[p].head) => q = p
    BY DEF Change
  <2>11. MergesInOrder'
    <3>1. \A q \in Merged : q # p /\ q \in PullRequests /\ pr'[q] = pr[q]
      BY <2>5, <2>6 DEF Merged
    <3>2. \A q \in PullRequests, h \in Heads : Change(q, h) \in main' => q \in Merged'
      BY <2>1, <2>6, <2>10 DEF FinalParts, MergesInOrder
    <3>3. \A q \in Merged' : AdmittedRuns(q)' # {} /\ Change(q, pr'[q].head) \in main'
      BY <2>1, <2>5, <2>6, <2>8, <3>1 DEF FinalParts, MergesInOrder
    <3>4. \A q, s \in Merged' : q # s =>
             \/ Change(q, pr'[q].head) \in pr'[s].parent
             \/ Change(s, pr'[s].head) \in pr'[q].parent
      BY <2>5, <2>6, <3>1 DEF FinalParts, MergesInOrder
    <3>5. \A q \in Merged' : Change(q, pr'[q].head) \notin pr'[q].parent
      BY <2>5, <2>6, <2>9, <3>1 DEF FinalParts, MergesInOrder
    <3>6. proofs' \subseteq Merged'
      BY <2>1, <2>6 DEF FinalParts, MergesInOrder
    <3> QED BY <3>2, <3>3, <3>4, <3>5, <3>6 DEF MergesInOrder, Change
  <2>12. ProvenIsAssured'
    <3>1. \A q \in proofs : pr'[q] = pr[q]
      BY <2>5, <2>6 DEF FinalParts, MergesInOrder
    <3>2. ProvenIsAssured /\ UNCHANGED <<proofs, passed>>
      BY <2>1 DEF FinalParts
    <3> QED BY <3>1, <3>2 DEF ProvenIsAssured, Change
  <2>13. \A q \in PullRequests :
           /\ pr'[q].head <= edits + 1 /\ pr'[q].qual <= edits + 1
           /\ pr'[q].parent = NotMerged \/ pr'[q].parent \subseteq main'
    BY <2>1, <2>5 DEF FinalParts
  <2> QED BY <2>1, <2>4, <2>5, <2>7, <2>11, <2>12, <2>13 DEF FinalParts, Runs
<1>4. CASE RecoverOne(p)
  <2>1. /\ pr[p].parent # NotMerged /\ ExactMerge(p) /\ proofs' = proofs \cup {p}
        /\ UNCHANGED <<pr, runs, edits, qualified, passed>> /\ UNCHANGED leaseVars
    BY <1>4 DEF RecoverOne
  <2>2. p \in Merged /\ AdmittedRuns(p) # {} /\ AdmittedRuns(p) \subseteq Runs
    BY <2>1 DEF FinalParts, MergesInOrder, Merged, AdmittedRuns
  <2>3. Runs = 1..Len(runs) /\ Len(runs) \in Nat
    BY DEF FinalParts, Runs
  <2>4. IsFiniteSet(AdmittedRuns(p)) /\ AdmittedRuns(p) \subseteq Int
    <3>1. IsFiniteSet(1..Len(runs))
      BY <2>3, FS_Interval
    <3> QED BY <2>2, <2>3, <3>1, FS_Subset
  <2>5. Max(AdmittedRuns(p)) \in AdmittedRuns(p)
    BY <2>2, <2>4, MaxIsGreatest
  <2>6. /\ Max(AdmittedRuns(p)) \in Runs /\ Newest(p).pc = "ADMITTED" /\ Newest(p).pr = p
        /\ Newest(p).head = pr[p].head
    BY <2>5 DEF AdmittedRuns, Newest
  <2>7. <<Change(p, pr[p].head), pr[p].parent>> \in passed
    BY <2>1, <2>6 DEF FinalParts, RunsBacked, ExactMerge, Newest
  <2>8. OneInLane' /\ RunsBacked' /\ MergesInOrder'
    BY <1>a, <2>1, <2>2 DEF FinalParts, OneInLane, RunsBacked, MergesInOrder, Merged, AdmittedRuns, Runs
  <2>9. \A q, s \in Merged : q # s => pr[q].parent # pr[s].parent
    BY DEF FinalParts, MergesInOrder
  <2>10. ProvenIsAssured'
    BY <2>1, <2>2, <2>7, <2>9 DEF FinalParts, MergesInOrder, ProvenIsAssured
  <2> QED BY <1>a, <2>1, <2>8, <2>10 DEF FinalParts, Runs
<1> QED BY <1>1, <1>2, <1>3, <1>4

LEMMA FinalInitInv == FinalInit => FinalIInv
<1> SUFFICES ASSUME FinalInit PROVE LeaseIInv /\ FinalParts
  BY FinalIsParts
<1> USE FinalAssumption
<1>1. LeaseIInv
  BY DEF FinalInit, LeaseInit, LeaseIInv, LeaseTypeOK, PassedOnBase, LeaseWatched,
    MAX_CONSECUTIVE_OBSERVATION_FAILURES
<1>2. Merged = {} /\ Runs = {} /\ runs \in Seq(RunRecords)
  BY DEF FinalInit, Merged, Runs
<1>3. pr \in [PullRequests -> PrRecords]
  BY DEF FinalInit, PrRecords, Heads
<1>4. MergesInOrder /\ OneInLane /\ RunsBacked /\ ProvenIsAssured
  BY <1>2 DEF FinalInit, LeaseInit, MergesInOrder, OneInLane, RunsBacked, ProvenIsAssured
<1> QED BY <1>1, <1>2, <1>3, <1>4 DEF FinalInit, LeaseInit, FinalParts

LEMMA FinalStep ==
  ASSUME FinalIInv, [FinalNext]_finalVars
  PROVE  FinalIInv'
<1> USE FinalAssumption
<1>0. LeaseIInv /\ FinalParts
  BY FinalIsParts
<1>p. LeaseIInv' /\ FinalParts' => FinalIInv'
  BY FinalIsParts, PTL
<1> SUFFICES LeaseIInv' /\ FinalParts'
  BY <1>p
<1>1. CASE \E r \in Runs : RunStep(r) \/ JobFails(r)
  BY <1>0, <1>1, RunStepKeeps
<1>2. CASE \E p \in PullRequests :
             StartReady(p) \/ PushHead(p) \/ Requalify(p) \/ MergePr(p) \/ RecoverOne(p)
  BY <1>0, <1>2, PullRequestKeeps
<1>3. ASSUME UNCHANGED admissionVars,
             \/ PollChild \/ ObserveBranch \/ ObservationFails
             \/ \E result \in {"PASSED", "FAILED"} : ChildEnds(result)
             \/ UNCHANGED leaseVars
             \/ \E x \in Others : Merge(x)
      PROVE  LeaseIInv' /\ FinalParts'
  <2>1. LeaseIInv'
    BY <1>0, <1>3, LeaseStep
  <2>2. main \subseteq main' /\ main' \subseteq main \cup Others
    BY <1>3 DEF PollChild, ObserveBranch, ObservationFails, ChildEnds, Merge, leaseVars
  <2>3. UNCHANGED base /\ (loop' # "NONE" => loop # "NONE")
    BY <1>3 DEF PollChild, ObserveBranch, ObservationFails, ChildEnds, Merge, leaseVars, leaseRun, Exit
  <2>4. UNCHANGED <<pr, runs, edits, proofs, qualified, passed>>
    BY <1>3 DEF admissionVars
  <2>5. OneInLane' /\ RunsBacked' /\ ProvenIsAssured' /\ Runs' = Runs /\ Merged' = Merged
    BY <1>0, <2>4 DEF FinalParts, OneInLane, RunsBacked, ProvenIsAssured, Runs, Merged
  <2>6. \A p \in PullRequests, h \in Heads : Change(p, h) \in main' => Change(p, h) \in main
    BY <2>2 DEF Change, Heads
  <2>7. \A p : AdmittedRuns(p)' = AdmittedRuns(p)
    BY <2>4, <2>5 DEF AdmittedRuns
  <2>8. MergesInOrder'
    BY <1>0, <2>2, <2>4, <2>5, <2>6, <2>7 DEF FinalParts, MergesInOrder
  <2> QED BY <1>0, <2>1, <2>2, <2>3, <2>4, <2>5, <2>8 DEF FinalParts
<1>4. CASE \E x \in Others : PushOther(x)
  BY <1>3, <1>4 DEF PushOther
<1>5. CASE LeaseLoop \/ \E result \in {"PASSED", "FAILED"} : Assurance(result)
  BY <1>3, <1>5 DEF LeaseLoop, Assurance
<1>6. CASE UNCHANGED finalVars
  BY <1>3, <1>6 DEF finalVars
<1> QED BY <1>1, <1>2, <1>4, <1>5, <1>6 DEF FinalNext

\* One run at a time is in the lane, assurance that passed was on the base of its
\* lease, a receipt is for the qualification that was found READY, and the tree of a
\* proven merge is one that exact-final assurance passed on.
THEOREM AdmissionCorrect == FinalSpec => []AdmissionInv
<1>1. FinalIInv => AdmissionInv
  BY DEF FinalIInv
<1> QED BY FinalInitInv, FinalStep, <1>1, PTL DEF FinalSpec

(***************************************************************************)
(* PhysicalCompletion                                                      *)
(***************************************************************************)

\* A file is whole, or somebody is writing it, or its writer was stopped.
Accounted(f) == Intact(f) \/ Writing(f) \/ f \in torn

\* The files of an attempt are there up to the one it is at, in the order of the plan;
\* so whatever has a proof has its bundle.
FilesInOrder ==
  /\ \A c \in Completers : job[c] # NoJob =>
       /\ <<job[c].txn, job[c].obs>> \in observed
       /\ \A i \in 1..8 : i < job[c].next => Plan(job[c].txn, job[c].obs)[i] \in Files
       /\ job[c].pc = "FILL" => Target(c) \in Files
  /\ \A t \in Transactions, o \in Observations : <<"proof", t, o>> \in Files =>
       \A i \in 1..4 : Bundle(t, o)[i] \in Files

FilesPlanned ==
  \A f \in Files : \E t \in Transactions, o \in Observations, i \in 1..8 :
    f = Plan(t, o)[i] /\ <<t, o>> \in observed

CompletionIInv ==
  /\ CompletionTypeOK
  /\ \A f \in Files : Accounted(f)
  /\ FilesInOrder
  /\ FilesPlanned
  /\ IsFiniteSet(observed)

LEMMA PlanRows ==
  ASSUME NEW t, NEW o
  PROVE  /\ Plan(t, o)[1] = <<"transaction", t>>     /\ Plan(t, o)[2] = <<"materialisation", t>>
         /\ Plan(t, o)[3] = <<"completion", t>>      /\ Plan(t, o)[4] = <<"latency", t, o>>
         /\ Plan(t, o)[5] = <<"attachment", t, o>>   /\ Plan(t, o)[6] = <<"latency_v2", t, o>>
         /\ Plan(t, o)[7] = <<"attachment_v2", t, o>> /\ Plan(t, o)[8] = <<"proof", t, o>>
         /\ \A i \in 1..4 : Bundle(t, o)[i] = Plan(t, o)[i + 1]
<1>1. /\ Plan(t, o)[1] = <<"transaction", t>> /\ Plan(t, o)[2] = <<"materialisation", t>>
      /\ Plan(t, o)[3] = <<"completion", t>> /\ Plan(t, o)[4] = <<"latency", t, o>>
      /\ Plan(t, o)[5] = <<"attachment", t, o>>
  BY DEF Plan, Bundle
<1>2. Plan(t, o)[6] = <<"latency_v2", t, o>> /\ Plan(t, o)[7] = <<"attachment_v2", t, o>>
  BY DEF Plan, Bundle
<1>3. Plan(t, o)[8] = <<"proof", t, o>>
  BY DEF Plan, Bundle
<1>4. /\ Bundle(t, o)[1] = <<"materialisation", t>> /\ Bundle(t, o)[2] = <<"completion", t>>
      /\ Bundle(t, o)[3] = <<"latency", t, o>> /\ Bundle(t, o)[4] = <<"attachment", t, o>>
  BY DEF Bundle
<1>5. ASSUME NEW i \in 1..4 PROVE Bundle(t, o)[i] = Plan(t, o)[i + 1]
  <2>1. \/ i = 1 /\ i + 1 = 2
        \/ i = 2 /\ i + 1 = 3
        \/ i = 3 /\ i + 1 = 4
        \/ i = 4 /\ i + 1 = 5
    OBVIOUS
  <2> QED BY <1>1, <1>4, <2>1
<1> QED BY <1>1, <1>2, <1>3, <1>5

\* What the place in the plan says of the name of a file, and the name of the place.
LEMMA PlanNames ==
  ASSUME NEW t, NEW o, NEW i \in 1..8
  PROVE  /\ Plan(t, o)[i][2] = t
         /\ \A u, p : Plan(t, o)[i] = <<"attachment", u, p>> => t = u /\ o = p
         /\ \A u, p : Plan(t, o)[i] = <<"proof", u, p>> => i = 8 /\ t = u /\ o = p
<1>1. i = 1 \/ i = 2 \/ i = 3 \/ i = 4 \/ i = 5 \/ i = 6 \/ i = 7 \/ i = 8
  OBVIOUS
<1>2. \A u, p : /\ <<"transaction", t>> # <<"attachment", u, p>>
                /\ <<"transaction", t>> # <<"proof", u, p>>
                /\ <<"materialisation", t>> # <<"attachment", u, p>>
                /\ <<"materialisation", t>> # <<"proof", u, p>>
                /\ <<"completion", t>> # <<"attachment", u, p>>
                /\ <<"completion", t>> # <<"proof", u, p>>
  OBVIOUS
<1> QED BY <1>1, <1>2, PlanRows

\* What an attempt is, where it is at some pc.
LEMMA JobFacts ==
  ASSUME CompletionIInv, NEW c \in Completers, job[c] # NoJob
  PROVE  /\ job[c] \in Attempts
         /\ job[c].txn \in Transactions /\ job[c].obs \in Observations /\ job[c].next \in 1..8
         /\ <<job[c].txn, job[c].obs>> \in observed
         /\ Target(c) = Plan(job[c].txn, job[c].obs)[job[c].next]
<1>1. job[c] \in Attempts
  BY DEF CompletionIInv, CompletionTypeOK
<1> QED BY <1>1 DEF Attempts, Target, CompletionIInv, FilesInOrder

LEMMA NextAttempt ==
  ASSUME NEW a \in Attempts, NEW pc \in {"TEST", "INDEX"}, a.next # 8
  PROVE  LET e == [a EXCEPT !.next = a.next + 1, !.pc = pc]
         IN /\ e \in Attempts /\ e.txn = a.txn /\ e.obs = a.obs /\ e.pc = pc
            /\ a.next < 8 /\ e.next = a.next + 1
<1>1. a.next < 8 /\ a.next + 1 \in 1..8
  BY DEF Attempts
<1>2. \A n \in 1..8 :
        LET e == [a EXCEPT !.next = n, !.pc = pc]
        IN e \in Attempts /\ e.txn = a.txn /\ e.obs = a.obs /\ e.pc = pc /\ e.next = n
  BY DEF Attempts
<1> QED BY <1>1, <1>2

\* The step after a file that is there.
LEMMA AdvanceKeeps ==
  ASSUME CompletionIInv, NEW c \in Completers, job[c] # NoJob, Advance(c)
  PROVE  /\ job' \in [Completers -> Attempts \cup {NoJob}]
         /\ \A d \in Completers \ {c} : job'[d] = job[d]
         /\ job'[c] # NoJob =>
              /\ job'[c].txn = job[c].txn /\ job'[c].obs = job[c].obs
              /\ job[c].next < 8 /\ job'[c].next = job[c].next + 1
              /\ job'[c].pc \in {"TEST", "INDEX"}
<1>1. job \in [Completers -> Attempts \cup {NoJob}] /\ job[c] \in Attempts
  BY JobFacts DEF CompletionIInv, CompletionTypeOK
<1> DEFINE e == [job[c] EXCEPT !.next = job[c].next + 1,
                               !.pc = IF job[c].next = 7 THEN "INDEX" ELSE "TEST"]
<1>2. job' = [job EXCEPT ![c] = IF job[c].next = 8 THEN NoJob ELSE e]
  BY DEF Advance
<1>3. job[c].next # 8 =>
        /\ e \in Attempts /\ e.txn = job[c].txn /\ e.obs = job[c].obs
        /\ job[c].next < 8 /\ e.next = job[c].next + 1 /\ e.pc \in {"TEST", "INDEX"}
  BY <1>1, NextAttempt
<1> HIDE DEF e
<1> QED BY <1>1, <1>2, <1>3

\* A step of c that leaves the files, and what is written, as they are.
LEMMA FilesAsBefore ==
  ASSUME CompletionIInv, NEW c \in Completers,
         job' \in [Completers -> Attempts \cup {NoJob}],
         \A d \in Completers \ {c} : job'[d] = job[d],
         job'[c] # NoJob =>
           /\ <<job'[c].txn, job'[c].obs>> \in observed'
           /\ \A i \in 1..8 : i < job'[c].next => Plan(job'[c].txn, job'[c].obs)[i] \in Files
           /\ job'[c].pc # "FILL",
         UNCHANGED store, torn \subseteq torn', torn' \subseteq Files,
         Is(c, "FILL") => Target(c) \in torn',
         observed \subseteq observed', observed' \subseteq Transactions \X Observations,
         IsFiniteSet(observed'), stops' \in 0..MaxStops
  PROVE  CompletionIInv'
<1>1. Files' = Files /\ \A f : Intact(f)' <=> Intact(f)
  BY DEF Files, Intact
<1>2. CompletionTypeOK'
  BY <1>1 DEF CompletionIInv, CompletionTypeOK
<1>3. \A f \in Files' : Accounted(f)'
  <2> SUFFICES ASSUME NEW f \in Files PROVE Accounted(f)'
    BY <1>1
  <2>1. CASE Intact(f) \/ f \in torn
    BY <1>1, <2>1 DEF Accounted
  <2>2. CASE Writing(f)
    <3>1. PICK d \in Completers : Is(d, "FILL") /\ Target(d) = f
      BY <2>2 DEF Writing
    <3>2. CASE d = c
      BY <3>1, <3>2 DEF Accounted
    <3>3. CASE d # c
      <4>1. Is(d, "FILL")' /\ Target(d)' = f
        BY <3>1, <3>3 DEF Is, Target
      <4> QED BY <4>1 DEF Accounted, Writing
    <3> QED BY <3>2, <3>3
  <2> QED BY <2>1, <2>2 DEF CompletionIInv, Accounted
<1>4. FilesInOrder'
  <2>1. ASSUME NEW d \in Completers, job'[d] # NoJob
        PROVE  /\ <<job'[d].txn, job'[d].obs>> \in observed'
               /\ \A i \in 1..8 : i < job'[d].next => Plan(job'[d].txn, job'[d].obs)[i] \in Files'
               /\ job'[d].pc = "FILL" => Target(d)' \in Files'
    BY <1>1, <2>1 DEF CompletionIInv, FilesInOrder, Target
  <2> QED BY <1>1, <2>1 DEF CompletionIInv, FilesInOrder
<1>5. FilesPlanned'
  <2>1. \A f \in Files : \E t \in Transactions, o \in Observations, i \in 1..8 :
          f = Plan(t, o)[i] /\ <<t, o>> \in observed'
    <3> TAKE f \in Files
    <3>1. PICK t \in Transactions, o \in Observations, i \in 1..8 :
            f = Plan(t, o)[i] /\ <<t, o>> \in observed
      BY DEF CompletionIInv, FilesPlanned
    <3>2. <<t, o>> \in observed'
      BY <3>1
    <3> QED BY <3>1, <3>2
  <2> QED BY <1>1, <2>1 DEF FilesPlanned, Plan, Bundle
<1> QED BY <1>2, <1>3, <1>4, <1>5 DEF CompletionIInv

\* A step of c on the file it is at: it is created, or filled and left behind.
LEMMA FileWritten ==
  ASSUME CompletionIInv, NEW c \in Completers, job[c] # NoJob, NEW how \in {"WHOLE", "PARTIAL"},
         Put(Target(c), how),
         job' \in [Completers -> Attempts \cup {NoJob}],
         \A d \in Completers \ {c} : job'[d] = job[d],
         how = "PARTIAL" => job'[c] # NoJob /\ job'[c].pc = "FILL",
         job'[c] # NoJob =>
           /\ job'[c].txn = job[c].txn /\ job'[c].obs = job[c].obs
           /\ job'[c].pc = "FILL" => job'[c].next = job[c].next
           /\ job'[c].next \in {job[c].next, job[c].next + 1},
         UNCHANGED <<torn, observed, stops>>
  PROVE  CompletionIInv'
<1> DEFINE t == job[c].txn
           o == job[c].obs
           F == Target(c)
<1>0. /\ t \in Transactions /\ o \in Observations /\ job[c].next \in 1..8
      /\ <<t, o>> \in observed /\ F = Plan(t, o)[job[c].next]
  BY JobFacts
<1> HIDE DEF t, o, F
<1>1. /\ Files' = Files \cup {F} /\ store'[F] = how
      /\ \A f \in Files \ {F} : store'[f] = store[f]
  BY DEF Files, Put, F
<1>2. F[2] = t
  BY <1>0, PlanNames
<1>3. CompletionTypeOK'
  BY <1>0, <1>1, <1>2 DEF CompletionIInv, CompletionTypeOK
<1>4. \A f \in Files' : Accounted(f)'
  <2> SUFFICES ASSUME NEW f \in Files' PROVE Accounted(f)'
    OBVIOUS
  <2>1. CASE f = F /\ how = "WHOLE"
    BY <1>1, <2>1 DEF Accounted, Intact
  <2>2. CASE f = F /\ how = "PARTIAL"
    <3>1. Target(c)' = F /\ Is(c, "FILL")'
      BY <2>2 DEF Target, Is, F
    <3> QED BY <2>2, <3>1 DEF Accounted, Writing
  <2>3. CASE f # F
    <3>1. f \in Files /\ (Intact(f) => Intact(f)')
      BY <1>1, <2>3 DEF Intact
    <3>2. Writing(f) => Writing(f)'
      <4> SUFFICES ASSUME Writing(f) PROVE Writing(f)'
        OBVIOUS
      <4>1. PICK d \in Completers : Is(d, "FILL") /\ Target(d) = f
        BY DEF Writing
      <4>2. d # c
        BY <4>1, <2>3 DEF F
      <4>3. Is(d, "FILL")' /\ Target(d)' = f
        BY <4>1, <4>2 DEF Is, Target
      <4> QED BY <4>3 DEF Writing
    <3> QED BY <3>1, <3>2 DEF CompletionIInv, Accounted
  <2> QED BY <2>1, <2>2, <2>3
<1>5. FilesInOrder'
  <2>1. ASSUME NEW d \in Completers \ {c}, job'[d] # NoJob
        PROVE  /\ <<job'[d].txn, job'[d].obs>> \in observed'
               /\ \A i \in 1..8 : i < job'[d].next => Plan(job'[d].txn, job'[d].obs)[i] \in Files'
               /\ job'[d].pc = "FILL" => Target(d)' \in Files'
    BY <1>1, <2>1 DEF CompletionIInv, FilesInOrder, Target
  <2>2. ASSUME job'[c] # NoJob
        PROVE  /\ <<job'[c].txn, job'[c].obs>> \in observed'
               /\ \A i \in 1..8 : i < job'[c].next => Plan(job'[c].txn, job'[c].obs)[i] \in Files'
               /\ job'[c].pc = "FILL" => Target(c)' \in Files'
    <3>1. job'[c].txn = t /\ job'[c].obs = o
      BY <2>2 DEF t, o
    <3>2. ASSUME NEW i \in 1..8, i < job'[c].next PROVE Plan(t, o)[i] \in Files'
      <4>1. i < job[c].next \/ i = job[c].next
        BY <1>0, <2>2, <3>2
      <4>2. i < job[c].next => Plan(t, o)[i] \in Files
        BY DEF CompletionIInv, FilesInOrder, t, o
      <4> QED BY <1>0, <1>1, <4>1, <4>2
    <3>3. job'[c].pc = "FILL" => Target(c)' = F
      BY <2>2 DEF Target, F
    <3> QED BY <1>0, <1>1, <3>1, <3>2, <3>3
  <2>3. ASSUME NEW u \in Transactions, NEW p \in Observations, <<"proof", u, p>> \in Files',
               NEW i \in 1..4
        PROVE  Bundle(u, p)[i] \in Files'
    <3>1. CASE <<"proof", u, p>> \in Files
      BY <1>1, <3>1 DEF CompletionIInv, FilesInOrder
    <3>2. CASE <<"proof", u, p>> = F
      <4>1. job[c].next = 8 /\ t = u /\ o = p
        BY <1>0, <3>2, PlanNames
      <4>2. Bundle(u, p)[i] = Plan(t, o)[i + 1] /\ i + 1 \in 1..8 /\ i + 1 < 8
        BY <4>1, PlanRows
      <4>3. Plan(t, o)[i + 1] \in Files
        BY <4>1, <4>2 DEF CompletionIInv, FilesInOrder, t, o
      <4> QED BY <1>1, <4>2, <4>3
    <3> QED BY <1>1, <2>3, <3>1, <3>2
  <2> QED BY <2>1, <2>2, <2>3 DEF FilesInOrder, Bundle
<1>6. FilesPlanned'
  <2>1. \A f \in Files' : \E u \in Transactions, p \in Observations, i \in 1..8 :
          f = Plan(u, p)[i] /\ <<u, p>> \in observed
    BY <1>0, <1>1 DEF CompletionIInv, FilesPlanned
  <2>2. observed' = observed
    OBVIOUS
  <2> QED BY <2>1, <2>2 DEF FilesPlanned, Plan, Bundle
<1> QED BY <1>3, <1>4, <1>5, <1>6 DEF CompletionIInv

LEMMA CompletionInitInv == CompletionInit => CompletionIInv
<1> SUFFICES ASSUME CompletionInit PROVE CompletionIInv
  OBVIOUS
<1>1. Files = {} /\ \A c \in Completers : job[c] = NoJob
  BY DEF CompletionInit, Files
<1>2. CompletionTypeOK
  BY <1>1, CompletionAssumption DEF CompletionInit, CompletionTypeOK
<1> QED BY <1>1, <1>2, FS_EmptySet DEF CompletionInit, CompletionIInv, FilesInOrder, FilesPlanned

LEMMA CompletionStepKeeps ==
  ASSUME CompletionIInv, CompletionNext
  PROVE  CompletionIInv'
<1> USE CompletionAssumption
<1>1. PICK c \in Completers :
        \/ \E t \in Transactions, o \in Observations : BeginCompletion(c, t, o)
        \/ TestFile(c) \/ CreateFile(c) \/ FillFile(c) \/ RebuildIndex(c) \/ StopCompletion(c)
  BY DEF CompletionNext
<1>2. /\ job \in [Completers -> Attempts \cup {NoJob}] /\ torn \subseteq Files
      /\ observed \subseteq Transactions \X Observations /\ stops \in 0..MaxStops
      /\ IsFiniteSet(observed)
  BY DEF CompletionIInv, CompletionTypeOK
<1>3. ASSUME NEW pc \in {"TEST", "CREATE", "FILL", "INDEX"}, job[c] # NoJob, Become(c, pc)
      PROVE  /\ job' \in [Completers -> Attempts \cup {NoJob}]
             /\ \A d \in Completers \ {c} : job'[d] = job[d]
             /\ job'[c] # NoJob /\ job'[c].txn = job[c].txn /\ job'[c].obs = job[c].obs
             /\ job'[c].next = job[c].next /\ job'[c].pc = pc
  <2> DEFINE e == [job[c] EXCEPT !.pc = pc]
  <2>1. job[c] \in Attempts
    BY <1>2, <1>3
  <2>2. /\ e \in Attempts /\ e.txn = job[c].txn /\ e.obs = job[c].obs
        /\ e.next = job[c].next /\ e.pc = pc
    BY <2>1 DEF Attempts
  <2>3. job' = [job EXCEPT ![c] = e]
    BY <1>3 DEF Become
  <2> HIDE DEF e
  <2> QED BY <1>2, <2>2, <2>3
<1>4. ASSUME job[c] # NoJob
      PROVE  /\ <<job[c].txn, job[c].obs>> \in observed
             /\ \A i \in 1..8 : i < job[c].next => Plan(job[c].txn, job[c].obs)[i] \in Files
             /\ job[c].pc = "FILL" => Target(c) \in Files
             /\ job[c].next \in 1..8 /\ Target(c) = Plan(job[c].txn, job[c].obs)[job[c].next]
  BY <1>4, JobFacts DEF CompletionIInv, FilesInOrder
<1>5. ASSUME Quit(c)
      PROVE  /\ job' \in [Completers -> Attempts \cup {NoJob}]
             /\ \A d \in Completers \ {c} : job'[d] = job[d]
             /\ job'[c] = NoJob
  BY <1>2, <1>5 DEF Quit
<1>6. ASSUME NEW t \in Transactions, NEW o \in Observations, BeginCompletion(c, t, o)
      PROVE  CompletionIInv'
  <2> DEFINE e == [txn |-> t, obs |-> o, next |-> 1, pc |-> "TEST"]
  <2>1. e \in Attempts /\ e.txn = t /\ e.obs = o /\ e.next = 1 /\ e.pc = "TEST"
    BY DEF Attempts
  <2>2. /\ job' = [job EXCEPT ![c] = e] /\ observed' = observed \cup {<<t, o>>} /\ job[c] = NoJob
        /\ UNCHANGED <<store, torn, stops>>
    BY <1>6 DEF BeginCompletion
  <2> HIDE DEF e
  <2>3. IsFiniteSet(observed')
    BY <1>2, <2>2, FS_AddElement
  <2>4. /\ job' \in [Completers -> Attempts \cup {NoJob}] /\ job'[c] = e
        /\ \A d \in Completers \ {c} : job'[d] = job[d]
    BY <1>2, <2>1, <2>2
  <2>5. ~Is(c, "FILL") /\ observed' \subseteq Transactions \X Observations /\ <<t, o>> \in observed'
    BY <1>2, <2>2 DEF Is
  <2>6. \A i \in 1..8 : ~(i < 1)
    OBVIOUS
  <2> QED BY <1>2, <2>1, <2>2, <2>3, <2>4, <2>5, <2>6, FilesAsBefore
<1>7. ASSUME TestFile(c) PROVE CompletionIInv'
  <2>1. job[c] # NoJob /\ ~Is(c, "FILL") /\ UNCHANGED <<store, torn, observed, stops>>
    BY <1>7 DEF TestFile, Is
  <2>2. CASE Become(c, "CREATE")
    <3>1. /\ job' \in [Completers -> Attempts \cup {NoJob}]
          /\ \A d \in Completers \ {c} : job'[d] = job[d]
          /\ job'[c] # NoJob /\ job'[c].txn = job[c].txn /\ job'[c].obs = job[c].obs
          /\ job'[c].next = job[c].next /\ job'[c].pc = "CREATE"
      BY <1>3, <2>1, <2>2
    <3> QED BY <1>2, <1>4, <2>1, <3>1, FilesAsBefore
  <2>3. CASE Target(c) \in Files /\ Advance(c)
    <3>1. /\ job' \in [Completers -> Attempts \cup {NoJob}]
          /\ \A d \in Completers \ {c} : job'[d] = job[d]
          /\ job'[c] # NoJob =>
               /\ job'[c].txn = job[c].txn /\ job'[c].obs = job[c].obs
               /\ job[c].next < 8 /\ job'[c].next = job[c].next + 1
               /\ job'[c].pc \in {"TEST", "INDEX"}
      BY <2>1, <2>3, AdvanceKeeps
    <3>2. ASSUME job'[c] # NoJob, NEW i \in 1..8, i < job'[c].next
          PROVE  Plan(job'[c].txn, job'[c].obs)[i] \in Files
      <4>1. i < job[c].next \/ i = job[c].next
        BY <1>4, <2>1, <3>1, <3>2
      <4> QED BY <1>4, <2>1, <2>3, <3>1, <3>2, <4>1
    <3> QED BY <1>2, <1>4, <2>1, <3>1, <3>2, FilesAsBefore
  <2>4. CASE Quit(c)
    BY <1>2, <1>5, <2>1, <2>4, FilesAsBefore
  <2> QED BY <1>7, <2>2, <2>3, <2>4 DEF TestFile, Intact
<1>8. ASSUME CreateFile(c) PROVE CompletionIInv'
  <2>1. /\ job[c] # NoJob /\ Put(Target(c), "PARTIAL") /\ Become(c, "FILL")
        /\ UNCHANGED <<torn, observed, stops>>
    BY <1>8 DEF CreateFile, Is
  <2>2. /\ job' \in [Completers -> Attempts \cup {NoJob}]
        /\ \A d \in Completers \ {c} : job'[d] = job[d]
        /\ job'[c] # NoJob /\ job'[c].txn = job[c].txn /\ job'[c].obs = job[c].obs
        /\ job'[c].next = job[c].next /\ job'[c].pc = "FILL"
    BY <1>3, <2>1
  <2> QED BY <2>1, <2>2, FileWritten
<1>9. ASSUME FillFile(c) PROVE CompletionIInv'
  <2>1. job[c] # NoJob /\ Put(Target(c), "WHOLE") /\ Advance(c) /\ UNCHANGED <<torn, observed, stops>>
    BY <1>9 DEF FillFile, Is
  <2>2. /\ job' \in [Completers -> Attempts \cup {NoJob}]
        /\ \A d \in Completers \ {c} : job'[d] = job[d]
        /\ job'[c] # NoJob =>
             /\ job'[c].txn = job[c].txn /\ job'[c].obs = job[c].obs
             /\ job[c].next < 8 /\ job'[c].next = job[c].next + 1
             /\ job'[c].pc \in {"TEST", "INDEX"}
    BY <2>1, AdvanceKeeps
  <2> QED BY <2>1, <2>2, FileWritten
<1>10. ASSUME RebuildIndex(c) PROVE CompletionIInv'
  <2>1. job[c] # NoJob /\ ~Is(c, "FILL") /\ UNCHANGED <<store, torn, observed, stops>>
    BY <1>10 DEF RebuildIndex, Is
  <2>2. CASE Become(c, "TEST")
    <3>1. /\ job' \in [Completers -> Attempts \cup {NoJob}]
          /\ \A d \in Completers \ {c} : job'[d] = job[d]
          /\ job'[c] # NoJob /\ job'[c].txn = job[c].txn /\ job'[c].obs = job[c].obs
          /\ job'[c].next = job[c].next /\ job'[c].pc = "TEST"
      BY <1>3, <2>1, <2>2
    <3> QED BY <1>2, <1>4, <2>1, <3>1, FilesAsBefore
  <2>3. CASE Quit(c)
    BY <1>2, <1>5, <2>1, <2>3, FilesAsBefore
  <2> QED BY <1>10, <2>2, <2>3 DEF RebuildIndex
<1>11. ASSUME StopCompletion(c) PROVE CompletionIInv'
  <2>1. /\ job[c] # NoJob /\ stops < MaxStops /\ stops' = stops + 1 /\ Quit(c)
        /\ torn' = torn \cup IF Is(c, "FILL") THEN {Target(c)} ELSE {}
        /\ UNCHANGED <<store, observed>>
    BY <1>11 DEF StopCompletion
  <2>2. /\ torn \subseteq torn' /\ torn' \subseteq Files /\ stops' \in 0..MaxStops
        /\ Is(c, "FILL") => Target(c) \in torn'
    BY <1>2, <1>4, <2>1 DEF Is
  <2> QED BY <1>2, <1>5, <2>1, <2>2, FilesAsBefore
<1> QED BY <1>1, <1>6, <1>7, <1>8, <1>9, <1>10, <1>11

\* The invariant says what the proofs and the index are promised.
LEMMA CompletionImplied == CompletionIInv => CompletionInv
<1> SUFFICES ASSUME CompletionIInv PROVE ProofHasBundle /\ IndexHolds
  BY DEF CompletionIInv, CompletionInv
<1>1. ProofHasBundle
  <2>1. \A t \in Transactions, o \in Observations, i \in 1..4 :
          Intact(<<"proof", t, o>>) => Accounted(Bundle(t, o)[i])
    BY DEF CompletionIInv, FilesInOrder, Intact
  <2> QED BY <2>1 DEF ProofHasBundle, Accounted
<1>2. IndexHolds
  <2> SUFFICES ASSUME torn = {}, ~\E f \in Files : Writing(f),
                      \A t \in Transactions : ~(Cardinality({a \in observed : a[1] = t}) > 1)
               PROVE  Indexable
    BY DEF IndexHolds
  <2>1. \A f \in Files : Intact(f)
    BY DEF CompletionIInv, Accounted
  <2>2. ASSUME NEW t \in Transactions, NEW o \in Observations, NEW p \in Observations,
               <<"attachment", t, o>> \in Files, <<"attachment", t, p>> \in Files
        PROVE  o = p
    <3> DEFINE A == {a \in observed : a[1] = t}
    <3>1. ASSUME NEW q \in Observations, <<"attachment", t, q>> \in Files PROVE <<t, q>> \in A
      <4>1. PICK u \in Transactions, r \in Observations, i \in 1..8 :
              <<"attachment", t, q>> = Plan(u, r)[i] /\ <<u, r>> \in observed
        BY <3>1 DEF CompletionIInv, FilesPlanned
      <4>2. u = t /\ r = q
        BY <4>1, PlanNames
      <4> QED BY <4>1, <4>2
    <3>2. IsFiniteSet(A) /\ Cardinality(A) \in Nat
      BY FS_Subset, FS_CardinalityType DEF CompletionIInv
    <3>3. Cardinality(A) = 0 \/ Cardinality(A) = 1
      <4>1. ~(Cardinality(A) > 1)
        OBVIOUS
      <4> HIDE DEF A
      <4> QED BY <3>2, <4>1
    <3>4. <<t, o>> \in A /\ <<t, p>> \in A
      BY <2>2, <3>1
    <3> HIDE DEF A
    <3>5. CASE Cardinality(A) = 0
      BY <3>2, <3>4, <3>5, FS_EmptySet
    <3>6. CASE Cardinality(A) = 1
      <4>1. PICK x : A = {x}
        BY <3>2, <3>6, FS_Singleton
      <4>2. <<t, o>> = <<t, p>>
        BY <3>4, <4>1
      <4> QED BY <4>2
    <3> QED BY <3>3, <3>5, <3>6
  <2>3. \A f \in Indexed : f \in Files /\ f[2] \in Transactions
    BY DEF Indexed, CompletionIInv, CompletionTypeOK
  <2>4. \A t \in {f[2] : f \in Indexed} : OneAttachment(t)
    BY <2>2, <2>3 DEF OneAttachment
  <2> QED BY <2>1, <2>3, <2>4 DEF Indexable
<1> QED BY <1>1, <1>2

\* Whatever attempts ran beside one another and were stopped, a proof has its bundle
\* and the index can be rebuilt, but for the named causes.
THEOREM CompletionCorrect == CompletionSpec => []CompletionInv
<1>1. ASSUME CompletionIInv, UNCHANGED completionVars PROVE CompletionIInv'
  <2>1. UNCHANGED <<store, job, torn, observed, stops>>
    BY <1>1 DEF completionVars
  <2>2. CompletionTypeOK' /\ IsFiniteSet(observed)'
    BY <1>1, <2>1 DEF CompletionIInv, CompletionTypeOK, Files
  <2>3. (\A f \in Files : Accounted(f))'
    BY <1>1, <2>1 DEF CompletionIInv, Accounted, Files, Intact, Writing, Is, Target
  <2>4. FilesInOrder'
    BY <1>1, <2>1 DEF CompletionIInv, FilesInOrder, Files, Target
  <2>5. FilesPlanned'
    BY <1>1, <2>1 DEF CompletionIInv, FilesPlanned, Files
  <2> QED BY <2>2, <2>3, <2>4, <2>5 DEF CompletionIInv
<1>2. CompletionIInv /\ [CompletionNext]_completionVars => CompletionIInv'
  BY <1>1, CompletionStepKeeps
<1> QED BY CompletionInitInv, CompletionImplied, <1>2, PTL DEF CompletionSpec
===============================================================================

---------------------------- MODULE FinalAdmission ----------------------------
(***************************************************************************)
(* The admission of a pull request to main and the completion of its       *)
(* merge.  A run of the workflow qualifies a payload (command_ready), then *)
(* enters the integration lane, which one run at a time may be in: there   *)
(* command_acquire binds the payload to the present main, the exact-final  *)
(* assurance runs under MainLease and command_finalize looks again and     *)
(* issues the admission receipt.  Every look is a request of its own, and  *)
(* heads, qualifications and main move between them.  GitHub merges what   *)
(* has a receipt, and _recover_one proves the merge from the receipt of    *)
(* the newest run.  The writing of that proof is PhysicalCompletion.       *)
(***************************************************************************)
EXTENDS MainLease, Sequences, FiniteSetsExt

CONSTANTS
  PullRequests,
  NotMerged,
  Others,        \* changes pushed to main by other ways
  MaxRuns,       \* bound: runs of the workflow
  MaxEdits       \* bound: heads pushed and qualifications replaced

\* The changes of the pull requests, one for each head, and the others.
ASSUME FinalAssumption ==
  /\ MaxEdits \in Nat /\ MaxRuns \in Nat /\ MaxUnobserved \in Nat
  /\ (PullRequests \X (1..(MaxEdits + 1))) \cup Others \subseteq Changes
  /\ (PullRequests \X (1..(MaxEdits + 1))) \cap Others = {}
  /\ \A parent \in SUBSET Changes : parent # NotMerged

VARIABLES
  pr,            \* [PullRequests -> live head, qualification and merge parent]
  runs,          \* the runs of the workflow, by id
  edits,         \* number of edits so far
  proofs,        \* pull requests whose merge is proven
  qualified,     \* history: <<pull request, head, qualification>> found READY
  passed         \* history: <<head, base>> whose assurance ended with code 0

admissionVars == <<pr, runs, edits, proofs, qualified, passed>>
finalVars == <<leaseVars, admissionVars>>

Lane == {"QUAL", "BIND", "LEASE", "CHECK_HEAD", "CHECK_MAIN", "CHECK_QUAL"}
RunStates == {"READY", "QUEUED", "ADMITTED", "FAILED"} \cup Lane
Runs == DOMAIN runs

Change(p, h) == <<p, h>>
\* Mutant of LaneFree: a run that failed in the lane keeps it.
MutLaneFree == \A r \in Runs : runs[r].pc \notin Lane \cup {"FAILED"}

LaneFree == \A r \in Runs : runs[r].pc \notin Lane
Goto(r, pc) == runs' = [runs EXCEPT ![r].pc = pc]
Proceed(r, ok, pc) == Goto(r, IF ok THEN pc ELSE "FAILED")

HeadSame(r) == pr[runs[r].pr].head = runs[r].head

\* Mutant of QualificationSame: the payload is taken for the one that was READY.
MutQualificationSame(r) == TRUE

QualificationSame(r) == pr[runs[r].pr].qual = runs[r].qual

\* command_ready: the head of the event is the live one, its assurance is waited for.
StartReady(p) ==
  /\ Len(runs) < MaxRuns
  /\ pr[p].parent = NotMerged
  /\ runs' = Append(runs, [pr |-> p, head |-> pr[p].head, qual |-> pr[p].qual,
                           base |-> {}, pc |-> "READY"])
  /\ UNCHANGED <<pr, edits, proofs, qualified, passed, leaseVars>>

\* The assurance has passed or not, or was waited for too long; then the live pull
\* request is looked at again.
EndReady(r, pass) ==
  /\ runs[r].pc = "READY"
  /\ LET ok == pass /\ HeadSame(r) /\ QualificationSame(r)
     IN /\ Proceed(r, ok, "QUEUED")
        /\ qualified' = qualified \cup
             IF ok THEN {<<runs[r].pr, pr[runs[r].pr].head, pr[runs[r].pr].qual>>} ELSE {}
  /\ UNCHANGED <<pr, edits, proofs, passed, leaseVars>>

\* command_acquire, in the lane; the pull request need not be open any more.
AcquireHead(r) ==
  /\ runs[r].pc = "QUEUED" /\ LaneFree
  /\ Proceed(r, HeadSame(r), "QUAL")
  /\ UNCHANGED <<pr, edits, proofs, qualified, passed, leaseVars>>

AcquireQualification(r) ==
  /\ runs[r].pc = "QUAL"
  /\ Proceed(r, QualificationSame(r), "BIND")
  /\ UNCHANGED <<pr, edits, proofs, qualified, passed, leaseVars>>

BindBase(r) ==
  /\ runs[r].pc = "BIND"
  /\ runs' = [runs EXCEPT ![r].pc = "LEASE", ![r].base = main]
  /\ UNCHANGED <<pr, edits, proofs, qualified, passed, leaseVars>>

StartLease(r) ==
  /\ runs[r].pc = "LEASE"
  /\ StartRun(runs[r].base) \/ StartFails(runs[r].base)
  /\ UNCHANGED admissionVars

EndLeaseRun(r) ==
  /\ runs[r].pc = "LEASE"
  /\ NextRun
  /\ Proceed(r, code = 0, "CHECK_HEAD")
  /\ passed' = passed \cup IF code = 0 THEN {<<Change(runs[r].pr, runs[r].head), base>>} ELSE {}
  /\ UNCHANGED <<pr, edits, proofs, qualified>>

\* command_finalize
CheckHead(r) ==
  /\ runs[r].pc = "CHECK_HEAD"
  /\ Proceed(r, HeadSame(r), "CHECK_MAIN")
  /\ UNCHANGED <<pr, edits, proofs, qualified, passed, leaseVars>>

CheckMain(r) ==
  /\ runs[r].pc = "CHECK_MAIN"
  /\ Proceed(r, main = runs[r].base, "CHECK_QUAL")
  /\ UNCHANGED <<pr, edits, proofs, qualified, passed, leaseVars>>

CheckQualification(r) ==
  /\ runs[r].pc = "CHECK_QUAL"
  /\ Proceed(r, QualificationSame(r), "ADMITTED")
  /\ UNCHANGED <<pr, edits, proofs, qualified, passed, leaseVars>>

\* A request fails or the placement conflicts, the job is at its time limit, or a run
\* that waits for the lane is dropped for a newer one.
JobFails(r) ==
  /\ runs[r].pc \in Lane \cup {"QUEUED"}
  /\ IF runs[r].pc = "LEASE" THEN CancelRun ELSE UNCHANGED leaseVars
  /\ Goto(r, "FAILED")
  /\ UNCHANGED <<pr, edits, proofs, qualified, passed>>

PushHead(p) ==
  /\ edits < MaxEdits /\ edits' = edits + 1
  /\ pr[p].parent = NotMerged
  /\ pr' = [pr EXCEPT ![p].head = @ + 1]
  /\ UNCHANGED <<runs, proofs, qualified, passed, leaseVars>>

\* The qualification pointer of a head is replaced.
Requalify(p) ==
  /\ edits < MaxEdits /\ edits' = edits + 1
  /\ pr' = [pr EXCEPT ![p].qual = @ + 1]
  /\ UNCHANGED <<runs, proofs, qualified, passed, leaseVars>>

AdmittedRuns(p) ==
  {r \in Runs : runs[r].pc = "ADMITTED" /\ runs[r].pr = p /\ runs[r].head = pr[p].head}

\* GitHub merges a live head whose readiness check has passed, wherever main is now.
MergePr(p) ==
  /\ pr[p].parent = NotMerged
  /\ AdmittedRuns(p) # {}
  /\ pr' = [pr EXCEPT ![p].parent = main]
  /\ Merge(Change(p, pr[p].head))
  /\ UNCHANGED <<runs, edits, proofs, qualified, passed>>

PushOther(x) ==
  /\ x \notin main
  /\ Merge(x)
  /\ UNCHANGED admissionVars

Newest(p) == runs[Max(AdmittedRuns(p))]

\* Mutant of ExactMerge: the result is looked for in the tree of the merge.
MutExactMerge(p) == Change(p, Newest(p).head) \in pr[p].parent \cup {Change(p, pr[p].head)}

\* The parent and the tree of the merge are those of the newest run's placement.
ExactMerge(p) ==
  /\ pr[p].parent # NotMerged
  /\ Newest(p).base = pr[p].parent
  /\ Newest(p).base \cup {Change(p, Newest(p).head)} = pr[p].parent \cup {Change(p, pr[p].head)}

\* _recover_one, at the merge and again whenever it is asked to.
RecoverOne(p) ==
  /\ pr[p].parent # NotMerged /\ p \notin proofs
  /\ ExactMerge(p)
  /\ proofs' = proofs \cup {p}
  /\ UNCHANGED <<pr, runs, edits, qualified, passed, leaseVars>>

FinalInit ==
  /\ LeaseInit
  /\ pr = [p \in PullRequests |-> [head |-> 1, qual |-> 1, parent |-> NotMerged]]
  /\ runs = <<>> /\ edits = 0
  /\ proofs = {} /\ qualified = {} /\ passed = {}

\* What a run does next by itself.
RunStep(r) ==
  \/ \E pass \in BOOLEAN : EndReady(r, pass)
  \/ AcquireHead(r) \/ AcquireQualification(r) \/ BindBase(r)
  \/ StartLease(r) \/ EndLeaseRun(r)
  \/ CheckHead(r) \/ CheckMain(r) \/ CheckQualification(r)

LeaseLoop ==
  /\ PollChild \/ ObserveBranch \/ ObservationFails
  /\ UNCHANGED admissionVars

Assurance(result) == ChildEnds(result) /\ UNCHANGED admissionVars

FinalNext ==
  \/ \E r \in Runs : RunStep(r) \/ JobFails(r)
  \/ \E p \in PullRequests :
       StartReady(p) \/ PushHead(p) \/ Requalify(p) \/ MergePr(p) \/ RecoverOne(p)
  \/ \E x \in Others : PushOther(x)
  \/ LeaseLoop
  \/ \E result \in {"PASSED", "FAILED"} : Assurance(result)

\* The jobs go on and the script keeps polling; that the assurance ends is not assumed.
FinalFairness ==
  /\ \A r \in 1..MaxRuns : WF_finalVars(r \in Runs /\ RunStep(r))
  /\ WF_finalVars(LeaseLoop)

FinalSpec == FinalInit /\ [][FinalNext]_finalVars /\ FinalFairness

(***************************************************************************)
(* Properties                                                              *)
(***************************************************************************)

\* Type invariant: one run in the lane, and a child only in it.
FinalTypeOK ==
  /\ LeaseTypeOK
  /\ \A p \in PullRequests :
       /\ pr[p].head \in 1..(MaxEdits + 1) /\ pr[p].qual \in 1..(MaxEdits + 1)
       /\ pr[p].parent = NotMerged \/ pr[p].parent \subseteq main
  /\ \A r \in Runs : runs[r].pc \in RunStates /\ runs[r].base \subseteq main
  /\ Cardinality({r \in Runs : runs[r].pc \in Lane}) <= 1
  /\ loop # "NONE" => \E r \in Runs : runs[r].pc = "LEASE" /\ runs[r].base = base
  /\ edits \in 0..MaxEdits
  /\ proofs \subseteq PullRequests

\* A receipt is for a payload that was found READY with the very qualification the
\* receipt names, though it may have been replaced while the run waited for the lane.
ReceiptIsQualified ==
  \A r \in Runs : runs[r].pc = "ADMITTED" =>
    <<runs[r].pr, runs[r].head, runs[r].qual>> \in qualified

\* The tree of a proven merge is one that exact-final assurance passed on, though main
\* may move between the receipt and the merge; so no two proven merges are on one base.
ProvenIsAssured ==
  \A p \in proofs :
    /\ <<Change(p, pr[p].head), pr[p].parent>> \in passed
    /\ \A q \in proofs \ {p} : pr[p].parent # pr[q].parent

\* When main leaves the base of the lease the assurance is ended, even if it hangs.
MovedEndsLease == (loop \in {"TOP", "SLEEP"} /\ main # base) ~> loop \notin {"TOP", "SLEEP"}

\* Every run gets through the lane, if no assurance hangs in it for ever.
EveryRunEnds ==
  []<>(child # "RUNNING") =>
    \A r \in 1..MaxRuns : r \in Runs ~> (r \in Runs /\ runs[r].pc \in {"ADMITTED", "FAILED"})

\* Of the runs in the lane, the receipts they leave and the merges that are proven
\* from them: an assurance that passed was on its base, a receipt is for what was
\* qualified, and a proven merge is what an assurance covered.
AdmissionInv ==
  /\ FinalTypeOK
  /\ PassedOnBase
  /\ ReceiptIsQualified
  /\ ProvenIsAssured
===============================================================================

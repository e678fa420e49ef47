-------------------------- MODULE PhysicalCompletion --------------------------
(***************************************************************************)
(* The completion of a physical write: complete_frozen_transaction puts a  *)
(* copy of the frozen transaction, a materialisation receipt, the packet's *)
(* completion receipt and its observability records into the receipt       *)
(* store, rebuilds the index and writes a proof.  Every file is named by   *)
(* the hash of its content; none is written atomically.  A retry runs the  *)
(* whole function again, possibly beside an attempt that is still running, *)
(* and possibly with other observations.                                   *)
(***************************************************************************)
EXTENDS Integers, Sequences, FiniteSets

CONSTANTS
  Transactions,  \* frozen transactions whose expected tree is physical
  Observations,  \* traces, queue receipts and metrics an attempt was given
  Completers,    \* processes that run complete_frozen_transaction
  NoJob,
  MaxStops       \* bound: attempts that are stopped

VARIABLES
  store,     \* [files of the receipt store -> "WHOLE" or "PARTIAL"]
  job,       \* [Completers -> NoJob or the attempt]
  torn,      \* history: files whose writer stopped half way
  observed,  \* history: <<transaction, observations>> of the attempts
  stops      \* number of stopped attempts

completionVars == <<store, job, torn, observed, stops>>

\* The receipts persist_physical_completion puts, in order, with what is in their
\* identity; the first four are the bundle the proof speaks of.
Bundle(t, o) ==
  << <<"materialisation", t>>, <<"completion", t>>, <<"latency", t, o>>, <<"attachment", t, o>> >>
Plan(t, o) ==
  << <<"transaction", t>> >> \o Bundle(t, o)
    \o << <<"latency_v2", t, o>>, <<"attachment_v2", t, o>>, <<"proof", t, o>> >>

Attempts == [txn : Transactions, obs : Observations, next : 1..8,
             pc : {"TEST", "CREATE", "FILL", "INDEX"}]

ASSUME CompletionAssumption == MaxStops \in Nat /\ NoJob \notin Attempts

Files == DOMAIN store
Intact(f) == f \in Files /\ store[f] = "WHOLE"
Put(f, how) == store' = [g \in Files \cup {f} |-> IF g = f THEN how ELSE store[g]]

Target(c) == Plan(job[c].txn, job[c].obs)[job[c].next]
Is(c, pc) == job[c] # NoJob /\ job[c].pc = pc
Become(c, pc) == job' = [job EXCEPT ![c].pc = pc]
Quit(c) == job' = [job EXCEPT ![c] = NoJob]

\* rebuild_index reads every receipt, but not transactions/ and proofs/, and wants
\* one receipt for each key.
Indexed == {f \in Files : f[1] \notin {"transaction", "proof"}}
OneAttachment(t) == \A o, p \in Observations :
  {<<"attachment", t, o>>, <<"attachment", t, p>>} \subseteq Files => o = p
Indexable == /\ \A f \in Indexed : Intact(f)
             /\ \A t \in {f[2] : f \in Indexed} : OneAttachment(t)

BeginCompletion(c, t, o) ==
  /\ job[c] = NoJob
  /\ job' = [job EXCEPT ![c] = [txn |-> t, obs |-> o, next |-> 1, pc |-> "TEST"]]
  /\ observed' = observed \cup {<<t, o>>}
  /\ UNCHANGED <<store, torn, stops>>

\* The next file, or the index before the proof, or the end.
Advance(c) ==
  job' = [job EXCEPT ![c] =
            IF job[c].next = 8 THEN NoJob
            ELSE [job[c] EXCEPT !.next = job[c].next + 1,
                                !.pc = IF job[c].next = 7 THEN "INDEX" ELSE "TEST"]]

\* Mutant of TestFile: a transaction that has its copy counts as completed.
MutTestFile(c) ==
  /\ Is(c, "TEST")
  /\ IF Target(c) \notin Files THEN Become(c, "CREATE")
     ELSE IF ~Intact(Target(c)) THEN Quit(c)
     ELSE IF job[c].next = 1 THEN job' = [job EXCEPT ![c].next = 8] ELSE Advance(c)
  /\ UNCHANGED <<store, torn, observed, stops>>

\* A file that exists must have exactly these bytes.
TestFile(c) ==
  /\ Is(c, "TEST")
  /\ IF Target(c) \notin Files THEN Become(c, "CREATE")
     ELSE IF Intact(Target(c)) THEN Advance(c) ELSE Quit(c)
  /\ UNCHANGED <<store, torn, observed, stops>>

\* write_text opens the file, which empties it, then writes it.
CreateFile(c) ==
  /\ Is(c, "CREATE")
  /\ Put(Target(c), "PARTIAL")
  /\ Become(c, "FILL")
  /\ UNCHANGED <<torn, observed, stops>>

\* Mutant of FillFile: the bytes are not flushed before the next file.
MutFillFile(c) ==
  /\ Is(c, "FILL")
  /\ Advance(c)
  /\ UNCHANGED <<store, torn, observed, stops>>

FillFile(c) ==
  /\ Is(c, "FILL")
  /\ Put(Target(c), "WHOLE")
  /\ Advance(c)
  /\ UNCHANGED <<torn, observed, stops>>

\* The four receipts are files that parse.
BundlePresent(c) ==
  \A i \in 1..4 : Intact(Bundle(job[c].txn, job[c].obs)[i])

RebuildIndex(c) ==
  /\ Is(c, "INDEX")
  /\ IF BundlePresent(c) /\ Indexable THEN Become(c, "TEST") ELSE Quit(c)
  /\ UNCHANGED <<store, torn, observed, stops>>

StopCompletion(c) ==
  /\ job[c] # NoJob
  /\ stops < MaxStops
  /\ stops' = stops + 1
  /\ torn' = torn \cup IF Is(c, "FILL") THEN {Target(c)} ELSE {}
  /\ Quit(c)
  /\ UNCHANGED <<store, observed>>

CompletionStep(c) ==
  TestFile(c) \/ CreateFile(c) \/ FillFile(c) \/ RebuildIndex(c)

CompletionInit ==
  /\ store = <<>>
  /\ job = [c \in Completers |-> NoJob]
  /\ torn = {} /\ observed = {} /\ stops = 0

CompletionNext ==
  \E c \in Completers :
    \/ \E t \in Transactions, o \in Observations : BeginCompletion(c, t, o)
    \/ TestFile(c) \/ CreateFile(c) \/ FillFile(c) \/ RebuildIndex(c)
    \/ StopCompletion(c)

CompletionSpec == CompletionInit /\ [][CompletionNext]_completionVars

(***************************************************************************)
(* Properties                                                              *)
(***************************************************************************)

Writing(f) == \E c \in Completers : Is(c, "FILL") /\ Target(c) = f
Proven(t) == \E o \in Observations : Intact(<<"proof", t, o>>)

\* Type invariant: the files are those of the attempts.
CompletionTypeOK ==
  /\ \A f \in Files : store[f] \in {"WHOLE", "PARTIAL"} /\ f[2] \in Transactions
  /\ job \in [Completers -> Attempts \cup {NoJob}]
  /\ torn \subseteq Files
  /\ observed \subseteq Transactions \X Observations
  /\ stops \in 0..MaxStops

\* A proof has its four receipts behind it, whole, whatever ran beside it: only a
\* second attempt that stopped while it rewrote one of them can take it away.
ProofHasBundle ==
  \A t \in Transactions, o \in Observations :
    Intact(<<"proof", t, o>>) =>
      \A i \in 1..4 : LET f == Bundle(t, o)[i] IN Intact(f) \/ Writing(f) \/ f \in torn

\* The index can be rebuilt whenever nobody is writing, unless a writer was stopped
\* half way or attempts on one transaction were given different observations.
IndexHolds ==
  \/ Indexable
  \/ torn # {} \/ \E f \in Files : Writing(f)
  \/ \E t \in Transactions : Cardinality({a \in observed : a[1] = t}) > 1

\* Of the files two completers leave, one of which may stop: a proof has its bundle
\* and the index can be rebuilt, but for the named causes.
CompletionInv ==
  /\ CompletionTypeOK
  /\ ProofHasBundle
  /\ IndexHolds
===============================================================================

--------------------------- MODULE CheckpointLineage ---------------------------
(***************************************************************************)
(* AppendOnlyCheckpointStore: numbered checkpoint files, each of which     *)
(* names the hash of the one before it.  commit reads the newest file,     *)
(* tests whether the next one exists, writes it through a temporary file   *)
(* whose name depends on the sequence number only, and verifies it.  There *)
(* is no lock.                                                             *)
(*                                                                         *)
(* A checkpoint contains its payload and, through the parent hash, every   *)
(* payload before it: it is the sequence of those payloads, and so is its  *)
(* checkpoint_sha256.                                                      *)
(***************************************************************************)
EXTENDS Integers, Sequences, SequencesExt

CONSTANTS
  Committers,     \* processes with a store open on one namespace
  Payloads,
  Absent,         \* a file that does not exist
  Garbage,        \* bytes that are not a checkpoint: half written, or two texts mixed
  MaxCheckpoints  \* bound: files of the namespace

VARIABLES
  checkpoints,  \* [1..MaxCheckpoints -> checkpoint, Garbage or Absent]
  temporary,    \* [1..MaxCheckpoints -> the same, for NNNNNNNN.json.tmp]
  phase,        \* [Committers -> where commit is]
  record,       \* [Committers -> the checkpoint being committed]
  handle,       \* [Committers -> "TMP" or "FINAL": the name of the file it has open]
  receipts,     \* checkpoints a CheckpointReceipt was returned for
  contested     \* history: numbers two overlapping commits were for

committer == <<phase, record, handle>>
lineageVars == <<checkpoints, temporary, committer, receipts, contested>>

Numbers == 1..MaxCheckpoints
Chains == UNION {[1..n -> Payloads] : n \in 0..MaxCheckpoints}

\* A file that is not there and one that does not parse are no checkpoints.
ASSUME LineageAssumption ==
  /\ MaxCheckpoints \in Nat
  /\ Absent # Garbage
  /\ \A chain \in Chains : chain # Absent /\ chain # Garbage

Present == {n \in Numbers : checkpoints[n] # Absent}
Newest == Max(Present \cup {0})

\* Mutant of Number: the file is one too far.
MutNumber(c) == Len(record[c]) + 1

\* _path: the file of the checkpoint c commits.
Number(c) == Len(record[c])

Goto(c, next) == phase' = [phase EXCEPT ![c] = next]

\* commit up to line 86: the newest file is parsed, not verified.
BuildRecord(c) ==
  /\ phase[c] = "IDLE"
  /\ Newest < MaxCheckpoints
  /\ Newest > 0 => checkpoints[Newest] # Garbage
  /\ \E payload \in Payloads :
       record' = [record EXCEPT ![c] =
                    Append(IF Newest = 0 THEN <<>> ELSE checkpoints[Newest], payload)]
  /\ Goto(c, "BUILT")
  /\ contested' = contested \cup
       {n \in {Newest + 1} : \E d \in Committers \ {c} : phase[d] # "IDLE" /\ Number(d) = n}
  /\ UNCHANGED <<checkpoints, temporary, handle, receipts>>

\* The file is there with other bytes.
Rewrites(c) == checkpoints[Number(c)] # record[c]

\* Mutant of TestExists: a temporary file that is there counts as the file.
MutTestExists(c) ==
  /\ phase[c] = "BUILT"
  /\ Goto(c, IF {checkpoints[Number(c)], temporary[Number(c)]} = {Absent} THEN "OPENING"
             ELSE "WRITTEN")
  /\ UNCHANGED <<checkpoints, temporary, record, handle, receipts, contested>>

TestExists(c) ==
  /\ phase[c] = "BUILT"
  /\ Goto(c, IF checkpoints[Number(c)] = Absent THEN "OPENING"
             ELSE IF Rewrites(c) THEN "IDLE" ELSE "WRITTEN")
  /\ UNCHANGED <<checkpoints, temporary, record, handle, receipts, contested>>

\* Mutant of OpenTemporary: the file is written in place.
MutOpenTemporary(c) ==
  /\ phase[c] = "OPENING"
  /\ checkpoints' = [checkpoints EXCEPT ![Number(c)] = Garbage]
  /\ handle' = [handle EXCEPT ![c] = "FINAL"]
  /\ Goto(c, "FILLING")
  /\ UNCHANGED <<temporary, record, receipts, contested>>

\* _atomic_write: the temporary file is opened, which empties it, then filled,
\* then renamed.  Whoever has it open keeps writing to the file it has become.
OpenTemporary(c) ==
  /\ phase[c] = "OPENING"
  /\ temporary' = [temporary EXCEPT ![Number(c)] = Garbage]
  /\ handle' = [handle EXCEPT ![c] = "TMP"]
  /\ Goto(c, "FILLING")
  /\ UNCHANGED <<checkpoints, record, receipts, contested>>

\* Over the bytes of another writer the result may be neither text.
Filled(c, old) == {record[c]} \cup (IF old \in {Garbage, record[c]} THEN {} ELSE {Garbage})

FillTemporary(c) ==
  /\ phase[c] = "FILLING"
  /\ IF handle[c] = "TMP"
     THEN /\ \E bytes \in Filled(c, temporary[Number(c)]) :
               temporary' = [temporary EXCEPT ![Number(c)] = bytes]
          /\ UNCHANGED checkpoints
     ELSE /\ \E bytes \in Filled(c, checkpoints[Number(c)]) :
               checkpoints' = [checkpoints EXCEPT ![Number(c)] = bytes]
          /\ UNCHANGED temporary
  /\ Goto(c, "RENAMING")
  /\ UNCHANGED <<record, handle, receipts, contested>>

Rename(c) ==
  /\ phase[c] = "RENAMING"
  /\ IF temporary[Number(c)] = Absent
     THEN Goto(c, "IDLE") /\ UNCHANGED <<checkpoints, temporary, handle>>
     ELSE /\ checkpoints' = [checkpoints EXCEPT ![Number(c)] = temporary[Number(c)]]
          /\ temporary' = [temporary EXCEPT ![Number(c)] = Absent]
          /\ handle' = [d \in Committers |-> IF Number(d) = Number(c) THEN "FINAL" ELSE handle[d]]
          /\ Goto(c, "WRITTEN")
  /\ UNCHANGED <<record, receipts, contested>>

\* verify re-reads the file and its parent, but compares neither with the record.
Verified(n) ==
  /\ checkpoints[n] # Garbage
  /\ n > 1 => checkpoints[n - 1] = Front(checkpoints[n])

\* commit returns its receipt, or raises.
Verify(c) ==
  /\ phase[c] = "WRITTEN"
  /\ receipts' = receipts \cup IF Verified(Number(c)) THEN {record[c]} ELSE {}
  /\ Goto(c, "IDLE")
  /\ UNCHANGED <<checkpoints, temporary, record, handle, contested>>

StopCommit(c) ==
  /\ phase[c] # "IDLE"
  /\ Goto(c, "IDLE")
  /\ UNCHANGED <<checkpoints, temporary, record, handle, receipts, contested>>

LineageInit ==
  /\ checkpoints = [n \in Numbers |-> Absent]
  /\ temporary = [n \in Numbers |-> Absent]
  /\ phase = [c \in Committers |-> "IDLE"]
  /\ record = [c \in Committers |-> <<>>]
  /\ handle = [c \in Committers |-> "FINAL"]
  /\ receipts = {} /\ contested = {}

LineageNext ==
  \E c \in Committers :
    \/ BuildRecord(c) \/ TestExists(c)
    \/ OpenTemporary(c) \/ FillTemporary(c) \/ Rename(c)
    \/ Verify(c) \/ StopCommit(c)

LineageSpec == LineageInit /\ [][LineageNext]_lineageVars

\* Type invariant: a file has the number of its checkpoint.
LineageTypeOK ==
  /\ \A n \in Numbers :
       {checkpoints[n], temporary[n]} \subseteq [1..n -> Payloads] \cup {Garbage, Absent}
  /\ phase \in [Committers -> {"IDLE", "BUILT", "OPENING", "FILLING", "RENAMING", "WRITTEN"}]
  /\ record \in [Committers -> Chains]
  /\ handle \in [Committers -> {"TMP", "FINAL"}]
  /\ receipts \subseteq Chains /\ contested \subseteq Numbers

\* A receipt is for a checkpoint that is in the store, for good: only a number
\* that two overlapping commits were for can lose what a receipt was given for.
ReceiptsKept == \A r \in receipts : checkpoints[Len(r)] = r \/ Len(r) \in contested

\* Sequence numbers have no gap, whatever stops or overlaps.
GapFree == Present = 1..Newest

\* The lineage is unbroken: a checkpoint names the one before it, unless the
\* number of that one or its own was contested.
LineageUnbroken ==
  \A n \in Present \ {1} :
    \/ checkpoints[n] # Garbage /\ checkpoints[n - 1] = Front(checkpoints[n])
    \/ {n, n - 1} \cap contested # {}

\* The history of checkpoints two committers share, either of which may stop: the
\* receipts given out stay good, the numbers have no gap and each record names its
\* parent, but for the named causes.
LineageInv ==
  /\ LineageTypeOK
  /\ ReceiptsKept
  /\ GapFree
  /\ LineageUnbroken
===============================================================================

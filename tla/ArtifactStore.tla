---------------------------- MODULE ArtifactStore ----------------------------
(***************************************************************************)
(* ContentAddressedArtifactStore.commit_bytes and its file-backed variant  *)
(* StreamingContentAddressedArtifactStore.commit_file: an output is cut    *)
(* into chunks, each chunk is one file of the content-addressed directory, *)
(* and the manifest of the unit, written last, lists the chunks.           *)
(*                                                                         *)
(* One store object at a time works on the namespace.  Its size cache is   *)
(* memory; files, temporary files ("*.tmp") and the staging directories    *)
(* survive a crash.  total_bytes scans with rglob("*"), so it counts all   *)
(* of them.                                                                *)
(***************************************************************************)
EXTENDS Integers, Sequences, FiniteSets, FiniteSetsExt, Functions

CONSTANTS
  Units,         \* unit ids
  Chunks,        \* chunk contents
  Outputs,       \* [unit -> set of outputs (sequences of chunks) committed for it]
  Size,          \* [chunk -> compressed bytes]
  ManifestSize,  \* bytes of a manifest
  MaxBytes,      \* max_external_bytes
  Routes,        \* subset of {"bytes", "file"}: the commit calls in use
  MaxCrashes,    \* bound: crashes and restarts
  MaxDamage      \* bound: damaged chunk files

AllOutputs == UNION {Outputs[u] : u \in Units}

ASSUME OutputAssumption ==
  /\ Units # {} /\ IsFiniteSet(Units)
  /\ DOMAIN Outputs = Units
  /\ \A u \in Units : Outputs[u] \subseteq Seq(Chunks)
ASSUME SizeAssumption ==
  /\ Size \in [Chunks -> Nat]
  /\ ManifestSize \in Nat
  /\ MaxBytes \in Nat
  /\ Routes \subseteq {"bytes", "file"}
  /\ MaxCrashes \in Nat
  /\ MaxDamage \in Nat

VARIABLES
  cas,        \* chunks that have a file
  bad,        \* chunks whose file was damaged
  manifests,  \* unit -> output, for the manifests that exist
  tmpChunks,  \* chunks that have a temporary file
  tmpUnits,   \* units whose manifest has a temporary file
  staging,    \* unit -> <<index, chunk>> files in its staging directory
  cache,      \* _size_cache
  pc, route, unit, out,
  read,       \* chunks of the source file read so far (commit_file)
  pending,    \* indexes of `out` whose chunk is to be written
  receipts,   \* <<unit, output>> of the receipts returned
  outcome,    \* how the last call ended
  crashes

disk == <<cas, bad, manifests, tmpChunks, tmpUnits, staging>>
call == <<pc, route, unit, out, read, pending>>
vars == <<disk, cache, call, receipts, outcome, crashes>>

Unscanned == -1

(***************************************************************************)
(* Helpers                                                                 *)
(***************************************************************************)

ChunkBytes(cs) == SumFunctionOnSet(Size, cs)
PendingBytes == SumFunctionOnSet([i \in DOMAIN out |-> Size[out[i]]], pending)
StagedBytes(u) == SumFunction([f \in staging[u] |-> Size[f[2]]])
StagingBytes(us) == SumFunctionOnSet([u \in Units |-> StagedBytes(u)], us)

CommittedBytes == ChunkBytes(cas) + ManifestSize * Cardinality(DOMAIN manifests)

\* total_bytes: every file below the namespace root.
ScannedBytes ==
  CommittedBytes
  + ChunkBytes(tmpChunks)
  + ManifestSize * Cardinality(tmpUnits)
  + StagingBytes(Units)

\* total_bytes with its cache.
Held == IF cache = Unscanned THEN ScannedBytes ELSE cache

\* Mutants of Recorded: the bytes are not recorded; they are subtracted.
MutRecorded(n) == cache
MutRecordedMinus(n) == cache - n

\* _record_written
Recorded(n) == cache + n

\* Mutant of Reserved: the manifest is not reserved.
MutReserved == Held + PendingBytes <= MaxBytes

\* _reserve: the pending chunks and the manifest fit.
Reserved == Held + PendingBytes + ManifestSize <= MaxBytes

Absent(o) == {i \in DOMAIN o : o[i] \notin cas}

\* Mutant of Collides: a chunk another unit has stored collides.
MutCollides(o) == \E i \in DOMAIN o : o[i] \in cas

\* "ARTIFACT_CORRUPT CAS collision": a stored chunk has other bytes.
Collides(o) == \E i \in DOMAIN o : o[i] \in cas /\ o[i] \in bad

\* verify_receipt / verify_receipt_streaming: the manifest is this output's and
\* every chunk it lists is there and hashes to its name.
Readable(u, o) ==
  /\ u \in DOMAIN manifests
  /\ manifests[u] = o
  /\ \A i \in DOMAIN o : o[i] \in cas /\ o[i] \notin bad

\* The call returns or raises; commit_file removes its staging directory in
\* `finally`.
End(why) ==
  /\ pc' = "idle"
  /\ route' = "none"
  /\ unit' = CHOOSE u \in Units : TRUE
  /\ out' = << >>
  /\ read' = 0
  /\ pending' = {}
  /\ outcome' = why
  /\ staging' = IF route = "file" THEN [staging EXCEPT ![unit] = {}] ELSE staging

Fail(why) == End(why) /\ UNCHANGED <<cas, bad, manifests, tmpChunks, tmpUnits, receipts, crashes>>

(***************************************************************************)
(* The steps of commit_bytes and commit_file                               *)
(***************************************************************************)

Init ==
  /\ cas = {} /\ bad = {}
  /\ manifests = << >>
  /\ tmpChunks = {} /\ tmpUnits = {}
  /\ staging = [u \in Units |-> {}]
  /\ cache = Unscanned
  /\ pc = "idle" /\ route = "none" /\ unit = (CHOOSE u \in Units : TRUE)
  /\ out = << >> /\ read = 0 /\ pending = {}
  /\ receipts = {} /\ outcome = "none" /\ crashes = 0

\* A call of commit_bytes, or of commit_file, which first removes what an
\* earlier call left in its staging directory.
Open(r, u, o) ==
  /\ pc = "idle"
  /\ r \in Routes
  /\ pc' = "scan" /\ route' = r /\ unit' = u /\ out' = o
  /\ staging' = IF r = "file" THEN [staging EXCEPT ![u] = {}] ELSE staging
  /\ outcome' = "none"
  /\ UNCHANGED <<cas, bad, manifests, tmpChunks, tmpUnits, cache, read, pending, receipts, crashes>>

\* commit_bytes: compare every chunk with the store, collect the absent ones.
ScanBytes ==
  /\ pc = "scan" /\ route = "bytes"
  /\ \/ /\ Collides(out)
        /\ Fail("corrupt") /\ UNCHANGED cache
     \/ /\ ~Collides(out)
        /\ pending' = Absent(out)
        /\ pc' = "decide"
        /\ UNCHANGED <<disk, cache, route, unit, out, read, receipts, outcome, crashes>>

\* commit_file: read the next chunk; an absent one is written to staging.
StageChunk ==
  /\ pc = "scan" /\ route = "file"
  /\ read < Len(out)
  /\ LET i == read + 1
         c == out[i]
     IN \/ /\ c \in cas /\ c \in bad
           /\ Fail("corrupt") /\ UNCHANGED cache
        \/ /\ c \in cas => c \notin bad
           /\ read' = i
           /\ staging' = IF c \in cas THEN staging
                         ELSE [staging EXCEPT ![unit] = @ \cup {<<i, c>>}]
           /\ pending' = IF c \in cas THEN pending ELSE pending \cup {i}
           /\ UNCHANGED <<cas, bad, manifests, tmpChunks, tmpUnits, cache, pc,
                          route, unit, out, receipts, outcome, crashes>>

StagedAll ==
  /\ pc = "scan" /\ route = "file"
  /\ read = Len(out)
  /\ pc' = "decide"
  /\ UNCHANGED <<disk, cache, route, unit, out, read, pending, receipts, outcome, crashes>>

\* Mutant of ManifestExists: the manifest is always written.
MutManifestExists == FALSE

\* `manifest_path.exists()`, `manifest_path.read_bytes() != manifest_bytes`
ManifestExists == unit \in DOMAIN manifests
Rewrites == ManifestExists /\ manifests[unit] # out

\* An existing manifest must be equal, a new one must fit.
Decide ==
  /\ pc = "decide"
  /\ \/ /\ Rewrites
        /\ Fail("history_rewrite") /\ UNCHANGED cache
     \/ /\ ManifestExists /\ ~Rewrites
        /\ pc' = "verify"
        /\ UNCHANGED <<disk, cache, route, unit, out, read, pending, receipts, outcome, crashes>>
     \/ /\ ~ManifestExists
        /\ cache' = Held
        /\ \/ /\ Reserved
              /\ pc' = "put"
              /\ UNCHANGED <<disk, route, unit, out, read, pending, receipts, outcome, crashes>>
           \/ ~Reserved /\ Fail("capacity")

\* commit_bytes: _atomic_write of the next chunk, first half.
WriteChunkTmp ==
  /\ pc = "put" /\ route = "bytes" /\ pending # {}
  /\ tmpChunks' = tmpChunks \cup {out[Min(pending)]}
  /\ pc' = "swap"
  /\ UNCHANGED <<cas, bad, manifests, tmpUnits, staging, cache, route, unit, out,
                 read, pending, receipts, outcome, crashes>>

\* commit_bytes: os.replace of the chunk, then _record_written.
SwapChunk ==
  LET c == out[Min(pending)]
  IN /\ pc = "swap"
     /\ tmpChunks' = tmpChunks \ {c}
     /\ cas' = cas \cup {c}
     /\ bad' = bad \ {c}
     /\ cache' = Recorded(Size[c])
     /\ pending' = pending \ {Min(pending)}
     /\ pc' = "put"
     /\ UNCHANGED <<manifests, tmpUnits, staging, route, unit, out, read, receipts,
                    outcome, crashes>>

\* commit_file: the staged chunk is moved into place, or dropped if the chunk
\* has a file by now (a chunk that occurs twice in the output).
MoveChunk ==
  LET i == Min(pending)
      c == out[i]
  IN /\ pc = "put" /\ route = "file" /\ pending # {}
     /\ staging' = [staging EXCEPT ![unit] = @ \ {<<i, c>>}]
     /\ cas' = cas \cup {c}
     /\ cache' = IF c \in cas THEN cache ELSE Recorded(Size[c])
     /\ pending' = pending \ {i}
     /\ UNCHANGED <<bad, manifests, tmpChunks, tmpUnits, pc, route, unit, out, read,
                    receipts, outcome, crashes>>

\* Mutant of ChunksWritten: the manifest may be written first.
MutChunksWritten == TRUE

ChunksWritten == pending = {}

\* _atomic_write of the manifest, after the last chunk.
WriteManifestTmp ==
  /\ pc = "put" /\ ChunksWritten
  /\ tmpUnits' = tmpUnits \cup {unit}
  /\ pc' = "publish"
  /\ UNCHANGED <<cas, bad, manifests, tmpChunks, staging, cache, route, unit, out,
                 read, pending, receipts, outcome, crashes>>

PublishManifest ==
  /\ pc = "publish"
  /\ tmpUnits' = tmpUnits \ {unit}
  /\ manifests' = [u \in DOMAIN manifests \cup {unit} |->
                     IF u = unit THEN out ELSE manifests[u]]
  /\ cache' = Recorded(ManifestSize)
  /\ pc' = "verify"
  /\ UNCHANGED <<cas, bad, tmpChunks, staging, route, unit, out, read, pending,
                 receipts, outcome, crashes>>

\* The receipt is verified by reading everything back, then returned.
Verify ==
  /\ pc = "verify"
  /\ UNCHANGED <<cas, bad, manifests, tmpChunks, tmpUnits, cache, crashes>>
  /\ \/ /\ Readable(unit, out)
        /\ receipts' = receipts \cup {<<unit, out>>}
        /\ End("receipt")
     \/ /\ ~Readable(unit, out)
        /\ End("corrupt") /\ UNCHANGED receipts

\* The process dies or is replaced by a new one: its memory is lost.
Crash ==
  /\ crashes < MaxCrashes
  /\ pc # "idle" \/ cache # Unscanned
  /\ crashes' = crashes + 1
  /\ cache' = Unscanned
  /\ pc' = "idle" /\ route' = "none" /\ unit' = (CHOOSE u \in Units : TRUE)
  /\ out' = << >> /\ read' = 0 /\ pending' = {} /\ outcome' = "none"
  /\ UNCHANGED <<disk, receipts>>

\* A chunk file is damaged on disk.
Damage ==
  /\ Cardinality(bad) < MaxDamage
  /\ \E c \in cas \ bad : bad' = bad \cup {c}
  /\ UNCHANGED <<cas, manifests, tmpChunks, tmpUnits, staging, cache, call, receipts,
                 outcome, crashes>>

Step ==
  \/ ScanBytes \/ StageChunk \/ StagedAll \/ Decide
  \/ WriteChunkTmp \/ SwapChunk \/ MoveChunk
  \/ WriteManifestTmp \/ PublishManifest \/ Verify

OpenUnit(u) == \E r \in Routes, o \in Outputs[u] : Open(r, u, o)

Next ==
  \/ \E u \in Units : OpenUnit(u)
  \/ Step \/ Crash \/ Damage

Spec == Init /\ [][Next]_vars

\* A running call goes on, and the caller asks for a unit that has no receipt
\* again and again (the resumed run recomputes it).
FairSpec ==
  /\ Spec
  /\ WF_vars(Step)
  /\ \A u \in Units : SF_vars(OpenUnit(u) /\ \A o \in Outputs[u] : <<u, o>> \notin receipts)

(***************************************************************************)
(* Properties                                                              *)
(***************************************************************************)

Labels == {"idle", "scan", "decide", "put", "swap", "publish", "verify"}
Outcomes == {"none", "receipt", "corrupt", "history_rewrite", "capacity"}

\* Type invariant: the files and the locals of a call have the shape the code
\* gives them.
TypeOK ==
  /\ cas \subseteq Chunks /\ bad \subseteq cas
  /\ DOMAIN manifests \subseteq Units
  /\ \A u \in DOMAIN manifests : manifests[u] \in Outputs[u]
  /\ tmpChunks \subseteq Chunks /\ tmpUnits \subseteq Units
  /\ staging \in [Units -> SUBSET (Nat \X Chunks)]
  /\ cache \in Nat \cup {Unscanned}
  /\ pc \in Labels
  /\ route \in Routes \cup {"none"}
  /\ unit \in Units
  /\ out \in Seq(Chunks)
  /\ read \in 0..Len(out)
  /\ pending \subseteq DOMAIN out
  /\ receipts \subseteq Units \X Seq(Chunks)
  /\ outcome \in Outcomes
  /\ crashes \in 0..MaxCrashes

\* The manifest is written last: wherever the process dies, whatever units
\* share chunks and whichever route wrote them, every manifest on disk lists
\* only chunks that are on disk.
ManifestComplete ==
  \A u \in DOMAIN manifests : Range(manifests[u]) \subseteq cas

\* A receipt that was returned stays good for ever: the unit's manifest is the
\* one it was given for.
ReceiptsHonoured ==
  \A r \in receipts : r[1] \in DOMAIN manifests /\ manifests[r[1]] = r[2]

\* max_external_bytes bounds the committed files although the cache is rebuilt
\* after every restart and chunks are counted before they are written.
CommittedWithinLimit == CommittedBytes <= MaxBytes

\* Between calls the cache of a store never counts less than is on disk,
\* leftovers of crashed calls included.
CacheCoversDisk ==
  pc = "idle" /\ cache # Unscanned => ScannedBytes <= cache

\* The byte budget of _reserve and its cache: see the parts.
CapacityInv == CommittedWithinLimit /\ CacheCoversDisk

\* The inductive strengthening of TypeOK: what is summed up is finite, and a call that
\* writes has scanned the namespace and knows what it writes next.
WritingInv ==
  /\ IsFiniteSet(cas) /\ IsFiniteSet(tmpChunks) /\ \A u \in Units : IsFiniteSet(staging[u])
  /\ pc = "idle" => route = "none" /\ pending = {}
  /\ pc \in {"put", "swap", "publish"} => cache # Unscanned
  /\ pc = "swap" => pending # {}

\* The inductive strengthening of CapacityInv.  The running call's own temporary
\* and staged files are not counted yet; all else on disk is, and what the call
\* still has to write was reserved.
OwnChunk == IF pc = "swap" THEN {out[Min(pending)]} ELSE {}
OwnManifest == IF pc = "publish" THEN {unit} ELSE {}
OwnStaging == IF route = "file" THEN {unit} ELSE {}
CountedBytes ==
  CommittedBytes
  + ChunkBytes(tmpChunks \ OwnChunk)
  + ManifestSize * Cardinality(tmpUnits \ OwnManifest)
  + StagingBytes(Units \ OwnStaging)
BudgetInv ==
  /\ CommittedWithinLimit
  /\ cache # Unscanned => CountedBytes <= cache
  /\ pc \in {"put", "swap", "publish"} => cache + PendingBytes + ManifestSize <= MaxBytes

\* CAPACITY_EXTERNAL_BYTES_EXCEEDED is raised only if the output does not fit:
\* what is on disk, the call's own staging directory left out, and the absent
\* chunks and the manifest are more than max_external_bytes.
RefusalIsReal ==
  [][pc = "decide" /\ outcome' = "capacity" =>
       ScannedBytes - StagedBytes(unit) + ChunkBytes(Range(out) \ cas) + ManifestSize
         > MaxBytes]_vars

\* What is readable is published once and never changes.
ReadableOutputs ==
  [u \in {v \in DOMAIN manifests : Range(manifests[v]) \subseteq cas} |-> manifests[u]]
Published == INSTANCE PublishedOutputs WITH published <- ReadableOutputs
PublishedSpec == Published!Spec

\* While a call runs, every chunk it has looked at is stored or still pending,
\* and it writes only a unit that has no manifest: the inductive strengthening
\* of ManifestComplete and ReceiptsHonoured.
Covered(n) == \A i \in 1..n : out[i] \in cas \/ i \in pending
CallInv ==
  /\ out \in Seq(Chunks)
  /\ read \in Nat
  /\ pc = "idle" => read = 0
  /\ pc # "idle" => unit \in Units /\ out \in Outputs[unit]
  /\ pc = "scan" /\ route = "file" => Covered(read)
  /\ pc \in {"decide", "put", "swap", "publish"} => Covered(Len(out))
  /\ pc = "publish" => pending = {}
  /\ pc \in {"put", "swap", "publish"} => unit \notin DOMAIN manifests
  /\ pc = "verify" => unit \in DOMAIN manifests /\ manifests[unit] = out
StoreInv == ManifestComplete /\ ReceiptsHonoured /\ CallInv

\* A unit whose output fits is stored, whatever crashes happen on the way.
EveryUnitStored ==
  <>(\A u \in Units : \E o \in Outputs[u] : <<u, o>> \in receipts)
===============================================================================

------------------------- MODULE ArtifactStore_proofs -------------------------
(***************************************************************************)
(* Theorems about ArtifactStore, for every set of units, chunks and        *)
(* outputs, every capacity and any number of crashes and damaged chunks.   *)
(***************************************************************************)
EXTENDS ArtifactStore, FiniteSetLemmas

\* A step of a call that changes neither the chunks, the manifests nor the
\* receipts keeps what is said about them.
LEMMA FilesFrame ==
  ASSUME StoreInv, UNCHANGED <<cas, manifests, receipts>>
  PROVE  ManifestComplete' /\ ReceiptsHonoured'
BY DEF StoreInv, ManifestComplete, ReceiptsHonoured

\* A call that ends without a new receipt keeps the invariant.
LEMMA EndKeeps ==
  ASSUME StoreInv, NEW why, End(why), UNCHANGED <<cas, manifests, receipts>>
  PROVE  StoreInv'
<1>1. CallInv'
  BY DEF End, CallInv
<1> QED
  BY <1>1, FilesFrame DEF StoreInv

\* Writing a chunk keeps the manifests complete.
LEMMA MoreChunks ==
  ASSUME ManifestComplete, ReceiptsHonoured, NEW c, cas' = cas \cup {c},
         UNCHANGED <<manifests, receipts>>
  PROVE  ManifestComplete' /\ ReceiptsHonoured'
BY DEF ManifestComplete, ReceiptsHonoured

\* StoreInv is inductive.
LEMMA StoreStep == StoreInv /\ [Next]_vars => StoreInv'
<1> SUFFICES ASSUME StoreInv, [Next]_vars PROVE StoreInv'
  OBVIOUS
<1> USE DEF disk, call
<1>1. ASSUME NEW u \in Units, OpenUnit(u) PROVE StoreInv'
  <2>1. PICK r \in Routes, o \in Outputs[u] : Open(r, u, o)
    BY <1>1 DEF OpenUnit
  <2>2. o \in Seq(Chunks)
    BY OutputAssumption
  <2>3. CallInv'
    <3>1. /\ pc = "idle" /\ pc' = "scan" /\ unit' = u /\ out' = o
          /\ UNCHANGED <<cas, read, pending>>
      BY <2>1 DEF Open
    <3>2. read = 0
      BY <3>1 DEF StoreInv, CallInv
    <3> QED
      BY <2>2, <3>1, <3>2 DEF CallInv, Covered, StoreInv
  <2>4. UNCHANGED <<cas, manifests, receipts>>
    BY <2>1 DEF Open
  <2> QED
    BY <2>3, <2>4, FilesFrame DEF StoreInv
<1>2. CASE ScanBytes
  <2>1. CASE Fail("corrupt")
    BY <2>1, EndKeeps DEF Fail
  <2>2. CASE /\ pending' = Absent(out)
             /\ pc' = "decide"
             /\ UNCHANGED <<disk, cache, route, unit, out, read, receipts, outcome, crashes>>
    <3>1. pc = "scan"
      BY <1>2 DEF ScanBytes
    <3>2. DOMAIN out = 1..Len(out)
      BY DEF StoreInv, CallInv
    <3>3. CallInv'
      BY <2>2, <3>1, <3>2 DEF StoreInv, CallInv, Covered, Absent
    <3> QED
      BY <2>2, <3>3, FilesFrame DEF StoreInv
  <2> QED
    BY <1>2, <2>1, <2>2 DEF ScanBytes
<1>3. CASE StageChunk
  <2>1. CASE Fail("corrupt")
    BY <2>1, EndKeeps DEF Fail
  <2>2. CASE ~Fail("corrupt")
    <3>1. /\ pc = "scan" /\ route = "file" /\ read' = read + 1
          /\ pending' = IF out[read + 1] \in cas THEN pending ELSE pending \cup {read + 1}
          /\ UNCHANGED <<cas, manifests, pc, route, unit, out, receipts>>
      BY <1>3, <2>2 DEF StageChunk
    <3>2. CallInv'
      BY <3>1 DEF StoreInv, CallInv, Covered
    <3> QED
      BY <3>1, <3>2, FilesFrame DEF StoreInv
  <2> QED
    BY <2>1, <2>2
<1>4. CASE StagedAll
  <2>1. CallInv'
    BY <1>4 DEF StagedAll, StoreInv, CallInv, Covered
  <2> QED
    BY <1>4, <2>1, FilesFrame DEF StagedAll, StoreInv
<1>5. CASE Decide
  <2>1. CASE Fail("history_rewrite") \/ Fail("capacity")
    BY <2>1, EndKeeps DEF Fail
  <2>2. CASE ~Fail("history_rewrite") /\ ~Fail("capacity")
    <3>1. /\ pc = "decide"
          /\ \/ pc' = "verify" /\ ManifestExists /\ ~Rewrites
             \/ pc' = "put" /\ ~ManifestExists
          /\ UNCHANGED <<disk, route, unit, out, read, pending, receipts>>
      BY <1>5, <2>2 DEF Decide
    <3>2. CallInv'
      BY <3>1 DEF StoreInv, CallInv, Covered, ManifestExists, Rewrites
    <3> QED
      BY <3>1, <3>2, FilesFrame DEF StoreInv
  <2> QED
    BY <2>1, <2>2
<1>6. CASE WriteChunkTmp
  <2>1. CallInv'
    BY <1>6 DEF WriteChunkTmp, StoreInv, CallInv, Covered
  <2> QED
    BY <1>6, <2>1, FilesFrame DEF WriteChunkTmp, StoreInv
<1>7. CASE SwapChunk \/ MoveChunk
  <2> DEFINE i == Min(pending)
  <2>1. /\ pc \in {"swap", "put"} /\ pc' = "put"
        /\ cas' = cas \cup {out[i]}
        /\ pending' = pending \ {i}
        /\ UNCHANGED <<manifests, route, unit, out, read, receipts>>
    BY <1>7 DEF SwapChunk, MoveChunk
  <2>2. CallInv'
    BY <2>1 DEF StoreInv, CallInv, Covered
  <2> QED
    BY <2>1, <2>2, MoreChunks DEF StoreInv
<1>8. CASE WriteManifestTmp
  <2>1. CallInv'
    BY <1>8 DEF WriteManifestTmp, ChunksWritten, StoreInv, CallInv, Covered
  <2> QED
    BY <1>8, <2>1, FilesFrame DEF WriteManifestTmp, StoreInv
<1>9. CASE PublishManifest
  <2>1. /\ pc = "publish" /\ pc' = "verify"
        /\ manifests' = [u \in DOMAIN manifests \cup {unit} |->
                           IF u = unit THEN out ELSE manifests[u]]
        /\ UNCHANGED <<cas, route, unit, out, read, pending, receipts>>
    BY <1>9 DEF PublishManifest
  <2>2. unit \notin DOMAIN manifests /\ Covered(Len(out)) /\ pending = {}
    BY <2>1 DEF StoreInv, CallInv
  <2>3. Range(out) \subseteq cas
    BY <2>2 DEF Covered, Range, StoreInv, CallInv
  <2>4. ManifestComplete' /\ ReceiptsHonoured'
    BY <2>1, <2>2, <2>3 DEF StoreInv, ManifestComplete, ReceiptsHonoured
  <2>5. CallInv'
    BY <2>1 DEF StoreInv, CallInv, Covered
  <2> QED
    BY <2>4, <2>5 DEF StoreInv
<1>10. CASE Verify
  <2>1. CASE End("corrupt") /\ UNCHANGED receipts
    BY <1>10, <2>1, EndKeeps DEF Verify
  <2>2. CASE receipts' = receipts \cup {<<unit, out>>} /\ End("receipt")
    <3>1. pc = "verify" /\ UNCHANGED <<cas, manifests>>
      BY <1>10 DEF Verify
    <3>2. ManifestComplete' /\ ReceiptsHonoured'
      BY <2>2, <3>1 DEF StoreInv, CallInv, ManifestComplete, ReceiptsHonoured
    <3>3. CallInv'
      BY <2>2 DEF End, CallInv
    <3> QED
      BY <3>2, <3>3 DEF StoreInv
  <2> QED
    BY <1>10, <2>1, <2>2 DEF Verify
<1>11. CASE Crash
  <2>1. CallInv'
    BY <1>11 DEF Crash, CallInv
  <2> QED
    BY <1>11, <2>1, FilesFrame DEF Crash, StoreInv
<1>12. CASE Damage \/ UNCHANGED vars
  <2>1. UNCHANGED <<cas, manifests, call, receipts>>
    BY <1>12 DEF Damage, vars
  <2>2. CallInv'
    BY <2>1 DEF StoreInv, CallInv, Covered
  <2> QED
    BY <2>1, <2>2, FilesFrame DEF StoreInv
<1> QED
  BY <1>1, <1>2, <1>3, <1>4, <1>5, <1>6, <1>7, <1>8, <1>9, <1>10, <1>11, <1>12
     DEF Next, Step

\* The inductive invariant of the store.
THEOREM StoreInvariant == Spec => []StoreInv
<1>1. Init => StoreInv
  <2> SUFFICES ASSUME Init PROVE StoreInv
    OBVIOUS
  <2>1. DOMAIN manifests = {}
    BY DEF Init
  <2>2. CallInv
    BY DEF Init, CallInv
  <2> QED
    BY <2>1, <2>2 DEF Init, StoreInv, ManifestComplete, ReceiptsHonoured
<1> QED
  BY <1>1, StoreStep, PTL DEF Spec

\* Wherever a process dies, a manifest on disk lists only chunks on disk.
THEOREM ManifestsComplete == Spec => []ManifestComplete
BY StoreInvariant, PTL DEF StoreInv

\* A returned receipt stays good for ever.
THEOREM ReceiptsStayGood == Spec => []ReceiptsHonoured
BY StoreInvariant, PTL DEF StoreInv

\* Every action but PublishManifest keeps the manifests.
LEMMA OnlyPublishManifest ==
  ASSUME [Next]_vars
  PROVE  manifests' = manifests \/ PublishManifest
<1> USE DEF disk, Fail
<1>1. CASE \E u \in Units : OpenUnit(u)
  BY <1>1 DEF OpenUnit, Open
<1>2. CASE Step
  BY <1>2 DEF Step, ScanBytes, StageChunk, StagedAll, Decide, WriteChunkTmp, SwapChunk,
              MoveChunk, WriteManifestTmp, Verify
<1>3. CASE Crash \/ Damage \/ UNCHANGED vars
  BY <1>3 DEF Crash, Damage, vars
<1> QED
  BY <1>1, <1>2, <1>3 DEF Next

\* The store implements PublishedOutputs: seen through what can be read, a unit
\* appears once, as a whole, when its manifest is published.
THEOREM RefinesPublishedOutputs == Spec => PublishedSpec
<1>1. Init => Published!Init
  <2> SUFFICES ASSUME Init PROVE ReadableOutputs = [u \in {} |-> {}]
    BY DEF Published!Init
  <2>1. DOMAIN manifests = {}
    BY DEF Init
  <2>2. {v \in DOMAIN manifests : Range(manifests[v]) \subseteq cas} = {}
    BY <2>1
  <2> QED
    BY <2>2 DEF ReadableOutputs
<1>2. StoreInv => ReadableOutputs = [u \in DOMAIN manifests |-> manifests[u]]
  <2> SUFFICES ASSUME StoreInv
               PROVE  {v \in DOMAIN manifests : Range(manifests[v]) \subseteq cas}
                        = DOMAIN manifests
    BY DEF ReadableOutputs
  <2> QED
    BY DEF StoreInv, ManifestComplete
<1> DEFINE whole == ReadableOutputs = [u \in DOMAIN manifests |-> manifests[u]]
<1>3. StoreInv /\ whole /\ whole' /\ [Next]_vars => [Published!Publish]_ReadableOutputs
  <2> SUFFICES ASSUME StoreInv, whole, whole', [Next]_vars,
                      ReadableOutputs' # ReadableOutputs
               PROVE  Published!Publish
    OBVIOUS
  <2>1. PublishManifest
    BY OnlyPublishManifest
  <2>2. /\ unit \in Units /\ out \in Outputs[unit] /\ unit \notin DOMAIN manifests
        /\ manifests' = [u \in DOMAIN manifests \cup {unit} |->
                           IF u = unit THEN out ELSE manifests[u]]
    BY <2>1 DEF PublishManifest, StoreInv, CallInv
  <2>3. DOMAIN ReadableOutputs = DOMAIN manifests
    OBVIOUS
  <2>4. ReadableOutputs' = [v \in DOMAIN ReadableOutputs \cup {unit} |->
                              IF v = unit THEN out ELSE ReadableOutputs[v]]
    BY <2>2
  <2>5. unit \in Units \ DOMAIN ReadableOutputs /\ out \in UNION {Outputs[v] : v \in Units}
    BY <2>2, <2>3
  <2> QED
    BY <2>2, <2>4, <2>5 DEF Published!Publish
<1> QED
  BY <1>1, <1>2, <1>3, StoreInvariant, PTL DEF Spec, PublishedSpec, Published!Spec


(***************************************************************************)
(* Types.  What the sums count is finite, so they are naturals.            *)
(***************************************************************************)

LEMMA ChunkBytesType ==
  ASSUME NEW cs, cs \subseteq Chunks, IsFiniteSet(cs)
  PROVE  ChunkBytes(cs) \in Nat
<1>1. \A c \in cs : Size[c] \in Nat
  BY SizeAssumption
<1> QED
  BY <1>1, SumType DEF ChunkBytes

\* The bytes in a staging directory.
LEMMA StagedBytesType ==
  ASSUME TypeOK, WritingInv, NEW u \in Units
  PROVE  StagedBytes(u) \in Nat
<1> DEFINE w == [f \in staging[u] |-> Size[f[2]]]
<1>1. staging[u] \subseteq Nat \X Chunks /\ IsFiniteSet(staging[u])
  BY DEF TypeOK, WritingInv
<1>2. \A f \in staging[u] : w[f] \in Nat
  BY <1>1, SizeAssumption
<1>3. DOMAIN w = staging[u]
  OBVIOUS
<1> HIDE DEF w
<1>4. SumFunctionOnSet(w, staging[u]) \in Nat
  BY <1>1, <1>2, SumType
<1> QED
  BY <1>3, <1>4 DEF StagedBytes, SumFunction, w

LEMMA PendingBytesType ==
  ASSUME TypeOK
  PROVE  PendingBytes \in Nat /\ IsFiniteSet(pending) /\ pending \subseteq 1..Len(out)
         /\ Len(out) \in Nat /\ \A i \in pending : Size[out[i]] \in Nat
<1> DEFINE w == [i \in DOMAIN out |-> Size[out[i]]]
<1>1. out \in Seq(Chunks) /\ pending \subseteq DOMAIN out
  BY DEF TypeOK
<1>2. DOMAIN out = 1..Len(out) /\ Len(out) \in Nat
  BY <1>1
<1>3. IsFiniteSet(1..Len(out))
  BY <1>2, FS_Interval
<1>4. IsFiniteSet(pending)
  BY <1>1, <1>2, <1>3, FS_Subset
<1>5. \A i \in pending : w[i] \in Nat /\ w[i] = Size[out[i]]
  BY <1>1, SizeAssumption
<1> HIDE DEF w
<1>6. SumFunctionOnSet(w, pending) \in Nat
  BY <1>4, <1>5, SumType
<1> QED
  BY <1>1, <1>2, <1>4, <1>5, <1>6 DEF PendingBytes, w

\* The chunk that is written next.
LEMMA NextChunk ==
  ASSUME TypeOK, pending # {}
  PROVE  Min(pending) \in pending /\ Min(pending) \in Nat /\ out[Min(pending)] \in Chunks
<1>1. IsFiniteSet(pending) /\ pending \subseteq 1..Len(out) /\ Len(out) \in Nat
  BY PendingBytesType
<1>2. pending \subseteq Int
  BY <1>1
<1>3. Min(pending) \in pending
  BY <1>1, <1>2, MinIsLeast
<1>4. out \in Seq(Chunks)
  BY DEF TypeOK
<1>5. PICK i : i = Min(pending)
  OBVIOUS
<1>6. i \in 1..Len(out)
  BY <1>1, <1>3, <1>5
<1>7. i \in Nat /\ out[i] \in Chunks
  BY <1>1, <1>4, <1>6
<1> QED
  BY <1>3, <1>5, <1>7

LEMMA ManifestBytesType ==
  ASSUME NEW us, us \subseteq Units
  PROVE  /\ IsFiniteSet(us) /\ Cardinality(us) \in Nat
         /\ ManifestSize * Cardinality(us) \in Nat
<1>1. IsFiniteSet(us)
  BY OutputAssumption, FS_Subset
<1>2. Cardinality(us) \in Nat
  BY <1>1, FS_CardinalityType
<1> QED
  BY <1>1, <1>2, SizeAssumption

LEMMA CommittedType ==
  TypeOK /\ WritingInv => CommittedBytes \in Nat
<1> SUFFICES ASSUME TypeOK, WritingInv PROVE CommittedBytes \in Nat
  OBVIOUS
<1>1. ChunkBytes(cas) \in Nat
  BY ChunkBytesType DEF TypeOK, WritingInv
<1>2. ManifestSize * Cardinality(DOMAIN manifests) \in Nat
  BY ManifestBytesType DEF TypeOK
<1> QED
  BY <1>1, <1>2 DEF CommittedBytes

\* The staging directories of some units.
LEMMA StagingType ==
  ASSUME TypeOK, WritingInv, NEW us, us \subseteq Units
  PROVE  /\ IsFiniteSet(us)
         /\ StagingBytes(us) \in Nat
<1> DEFINE w == [u \in Units |-> StagedBytes(u)]
<1>1. IsFiniteSet(us)
  BY ManifestBytesType
<1>2. \A u \in us : w[u] \in Nat
  BY StagedBytesType
<1> HIDE DEF w
<1>3. SumFunctionOnSet(w, us) \in Nat
  BY <1>1, <1>2, SumType
<1> QED
  BY <1>1, <1>3 DEF StagingBytes, w

LEMMA HeldType ==
  ASSUME TypeOK, WritingInv
  PROVE  ScannedBytes \in Nat /\ Held \in Nat
<1>1. ChunkBytes(tmpChunks) \in Nat
  BY ChunkBytesType DEF TypeOK, WritingInv
<1>2. ManifestSize * Cardinality(tmpUnits) \in Nat
  BY ManifestBytesType DEF TypeOK
<1>3. StagingBytes(Units) \in Nat
  BY StagingType
<1>4. ScannedBytes \in Nat
  BY <1>1, <1>2, <1>3, CommittedType DEF ScannedBytes
<1> QED
  BY <1>4 DEF Held, TypeOK

\* A call that ends leaves well-typed files and no locals.
LEMMA EndKeepsTypes ==
  ASSUME TypeOK, WritingInv, NEW why \in Outcomes, End(why),
         UNCHANGED <<cas, bad, manifests, tmpChunks, tmpUnits, crashes>>,
         cache' \in Nat \cup {Unscanned}, receipts' \subseteq Units \X Seq(Chunks)
  PROVE  TypeOK' /\ WritingInv'
<1>1. (CHOOSE u \in Units : TRUE) \in Units
  BY OutputAssumption
<1>2. staging' \in [Units -> SUBSET (Nat \X Chunks)]
  BY DEF End, TypeOK
<1>3. \A u \in Units : IsFiniteSet(staging'[u])
  BY FS_EmptySet DEF End, TypeOK, WritingInv
<1>4. /\ out' \in Seq(Chunks) /\ read' \in 0..Len(out') /\ pending' \subseteq DOMAIN out'
      /\ unit' \in Units
  BY <1>1 DEF End
<1>5. /\ pc' = "idle" /\ route' = "none" /\ pending' = {} /\ outcome' = why
  BY DEF End
<1>6. TypeOK'
  BY <1>2, <1>4, <1>5 DEF TypeOK, Labels
<1>7. WritingInv'
  BY <1>3, <1>5 DEF WritingInv
<1> QED
  BY <1>6, <1>7

\* TypeOK is inductive relative to StoreInv and WritingInv.
LEMMA TypeStep ==
  StoreInv /\ TypeOK /\ WritingInv /\ [Next]_vars => TypeOK' /\ WritingInv'
<1> SUFFICES ASSUME StoreInv, TypeOK, WritingInv, [Next]_vars
             PROVE  TypeOK' /\ WritingInv'
  OBVIOUS
<1> USE DEF disk, call
<1>0. cache \in Nat \cup {Unscanned} /\ receipts \subseteq Units \X Seq(Chunks)
  BY DEF TypeOK
<1>1. ASSUME NEW u \in Units, OpenUnit(u) PROVE TypeOK' /\ WritingInv'
  <2>1. PICK r \in Routes, o \in Outputs[u] : Open(r, u, o)
    BY <1>1 DEF OpenUnit
  <2>2. o \in Seq(Chunks)
    BY OutputAssumption
  <2>3. /\ pc = "idle" /\ pc' = "scan" /\ unit' = u /\ out' = o /\ route' = r
        /\ outcome' = "none"
        /\ staging' = IF r = "file" THEN [staging EXCEPT ![u] = {}] ELSE staging
        /\ UNCHANGED <<cas, bad, manifests, tmpChunks, tmpUnits, cache, read, pending,
                       receipts, crashes>>
    BY <2>1 DEF Open
  <2>4. read = 0 /\ pending = {}
    BY <2>3 DEF StoreInv, CallInv, WritingInv
  <2>5. staging' \in [Units -> SUBSET (Nat \X Chunks)]
    BY <2>3 DEF TypeOK
  <2>6. \A v \in Units : IsFiniteSet(staging'[v])
    BY <2>3, FS_EmptySet DEF TypeOK, WritingInv
  <2>7. read' \in 0..Len(out') /\ pending' \subseteq DOMAIN out' /\ out' \in Seq(Chunks)
    BY <2>2, <2>3, <2>4
  <2>8. TypeOK'
    BY <2>3, <2>5, <2>7 DEF TypeOK, Labels, Outcomes
  <2>9. WritingInv'
    BY <2>3, <2>6 DEF WritingInv
  <2> QED
    BY <2>8, <2>9
<1>2. CASE ScanBytes
  <2>1. CASE Fail("corrupt") /\ UNCHANGED cache
    BY <1>0, <2>1, EndKeepsTypes DEF Fail, Outcomes
  <2>2. CASE /\ pc = "scan" /\ pending' = Absent(out)
             /\ pc' = "decide"
             /\ UNCHANGED <<disk, cache, route, unit, out, read, receipts, outcome, crashes>>
    <3>1. pending' \subseteq DOMAIN out
      BY <2>2 DEF Absent
    <3>2. TypeOK'
      BY <2>2, <3>1 DEF TypeOK, Labels
    <3>3. WritingInv'
      BY <2>2 DEF WritingInv
    <3> QED
      BY <3>2, <3>3
  <2> QED
    BY <1>2, <2>1, <2>2 DEF ScanBytes
<1>3. CASE StageChunk
  <2>1. CASE Fail("corrupt") /\ UNCHANGED cache
    BY <1>0, <2>1, EndKeepsTypes DEF Fail, Outcomes
  <2>2. CASE ~(Fail("corrupt") /\ UNCHANGED cache)
    <3>1. PICK i, c : i = read + 1 /\ c = out[i]
      OBVIOUS
    <3>2. /\ pc = "scan" /\ read < Len(out)
          /\ read' = i
          /\ staging' = IF c \in cas THEN staging
                        ELSE [staging EXCEPT ![unit] = @ \cup {<<i, c>>}]
          /\ pending' = IF c \in cas THEN pending ELSE pending \cup {i}
          /\ UNCHANGED <<cas, bad, manifests, tmpChunks, tmpUnits, cache, pc,
                         route, unit, out, receipts, outcome, crashes>>
      BY <1>3, <2>2, <3>1 DEF StageChunk
    <3>3. out \in Seq(Chunks) /\ read \in 0..Len(out) /\ unit \in Units
      BY DEF TypeOK
    <3>4. i \in Nat /\ i \in 1..Len(out) /\ i \in DOMAIN out /\ c \in Chunks
      BY <3>1, <3>2, <3>3
    <3>5. staging' \in [Units -> SUBSET (Nat \X Chunks)]
      <4>1. <<i, c>> \in Nat \X Chunks
        BY <3>4
      <4> QED
        BY <3>2, <3>3, <4>1 DEF TypeOK
    <3>6. \A v \in Units : IsFiniteSet(staging'[v])
      <4> TAKE v \in Units
      <4>1. staging'[v] = staging[v] \/ staging'[v] = staging[v] \cup {<<i, c>>}
        BY <3>2, <3>3 DEF TypeOK
      <4>2. IsFiniteSet(staging[v])
        BY DEF WritingInv
      <4>3. IsFiniteSet(staging[v] \cup {<<i, c>>})
        BY <4>2, FS_AddElement
      <4> QED
        BY <4>1, <4>2, <4>3
    <3>7. pending' \subseteq DOMAIN out /\ read' \in 0..Len(out)
      <4>1. pending \subseteq DOMAIN out
        BY DEF TypeOK
      <4>2. pending' \subseteq DOMAIN out
        BY <3>2, <3>4, <4>1
      <4>3. read' \in 0..Len(out)
        BY <3>2, <3>3, <3>4
      <4> QED
        BY <4>2, <4>3
    <3>8. TypeOK'
      BY <3>2, <3>5, <3>7 DEF TypeOK
    <3>9. WritingInv'
      BY <3>2, <3>6 DEF WritingInv
    <3> QED
      BY <3>8, <3>9
  <2> QED
    BY <2>1, <2>2
<1>4. CASE StagedAll
  <2>1. TypeOK'
    BY <1>4 DEF StagedAll, TypeOK, Labels
  <2>2. WritingInv'
    BY <1>4 DEF StagedAll, WritingInv
  <2> QED
    BY <2>1, <2>2
<1>5. CASE Decide
  <2>1. CASE Fail("history_rewrite") /\ UNCHANGED cache
    BY <1>0, <2>1, EndKeepsTypes DEF Fail, Outcomes
  <2>2. CASE Fail("capacity") /\ cache' = Held
    BY <1>0, <2>2, HeldType, EndKeepsTypes DEF Fail, Outcomes
  <2>3. CASE /\ pc = "decide"
             /\ \/ pc' = "verify" /\ cache' = cache
                \/ pc' = "put" /\ cache' = Held
             /\ UNCHANGED <<disk, route, unit, out, read, pending, receipts, outcome, crashes>>
    <3>1. Held # Unscanned
      BY HeldType DEF Unscanned
    <3>2. cache' \in Nat \cup {Unscanned}
      BY <1>0, <2>3, HeldType
    <3>3. TypeOK'
      BY <2>3, <3>2 DEF TypeOK, Labels
    <3>4. WritingInv'
      BY <2>3, <3>1 DEF WritingInv
    <3> QED
      BY <3>3, <3>4
  <2> QED
    BY <1>5, <2>1, <2>2, <2>3 DEF Decide
<1>6. CASE WriteChunkTmp
  <2>1. PICK c : c = out[Min(pending)]
    OBVIOUS
  <2>2. /\ pc = "put" /\ pc' = "swap" /\ pending # {} /\ tmpChunks' = tmpChunks \cup {c}
        /\ UNCHANGED <<cas, bad, manifests, tmpUnits, staging, cache, route, unit, out,
                       read, pending, receipts, outcome, crashes>>
    BY <1>6, <2>1 DEF WriteChunkTmp
  <2>3. c \in Chunks
    BY <2>1, <2>2, NextChunk
  <2>4. IsFiniteSet(tmpChunks')
    BY <2>2, FS_AddElement DEF WritingInv
  <2>5. TypeOK'
    BY <2>2, <2>3 DEF TypeOK, Labels
  <2>6. WritingInv'
    BY <2>2, <2>4 DEF WritingInv
  <2> QED
    BY <2>5, <2>6
<1>7. CASE SwapChunk
  <2>1. PICK i, c : i = Min(pending) /\ c = out[i]
    OBVIOUS
  <2>2. /\ pc = "swap" /\ pc' = "put" /\ tmpChunks' = tmpChunks \ {c}
        /\ cas' = cas \cup {c} /\ bad' = bad \ {c} /\ cache' = cache + Size[c]
        /\ pending' = pending \ {i}
        /\ UNCHANGED <<manifests, tmpUnits, staging, route, unit, out, read, receipts,
                       outcome, crashes>>
    BY <1>7, <2>1 DEF SwapChunk, Recorded
  <2>3. cache # Unscanned /\ pending # {}
    BY <2>2 DEF WritingInv
  <2>4. c \in Chunks
    BY <2>1, <2>3, NextChunk
  <2>5. cache' \in Nat
    BY <1>0, <2>2, <2>3, <2>4, SizeAssumption
  <2>6. IsFiniteSet(tmpChunks') /\ IsFiniteSet(cas')
    BY <2>2, FS_AddElement, FS_RemoveElement DEF WritingInv
  <2>7. TypeOK'
    BY <2>2, <2>4, <2>5 DEF TypeOK, Labels
  <2>8. cache' # Unscanned
    BY <2>5 DEF Unscanned
  <2>9. WritingInv'
    BY <2>2, <2>6, <2>8 DEF WritingInv
  <2> QED
    BY <2>7, <2>9
<1>8. CASE MoveChunk
  <2>1. PICK i, c : i = Min(pending) /\ c = out[i]
    OBVIOUS
  <2>2. /\ pc = "put" /\ pending # {}
        /\ staging' = [staging EXCEPT ![unit] = @ \ {<<i, c>>}]
        /\ cas' = cas \cup {c}
        /\ cache' = IF c \in cas THEN cache ELSE cache + Size[c]
        /\ pending' = pending \ {i}
        /\ UNCHANGED <<bad, manifests, tmpChunks, tmpUnits, pc, route, unit, out, read,
                       receipts, outcome, crashes>>
    BY <1>8, <2>1 DEF MoveChunk, Recorded
  <2>3. cache # Unscanned
    BY <2>2 DEF WritingInv
  <2>4. c \in Chunks
    BY <2>1, <2>2, NextChunk
  <2>5. cache' \in Nat
    BY <1>0, <2>2, <2>3, <2>4, SizeAssumption
  <2>6. IsFiniteSet(cas')
    BY <2>2, FS_AddElement DEF WritingInv
  <2>7. staging' \in [Units -> SUBSET (Nat \X Chunks)]
    BY <2>2 DEF TypeOK
  <2>8. \A v \in Units : IsFiniteSet(staging'[v])
    <3> TAKE v \in Units
    <3>1. staging'[v] = staging[v] \/ staging'[v] = staging[v] \ {<<i, c>>}
      BY <2>2 DEF TypeOK
    <3>2. IsFiniteSet(staging[v])
      BY DEF WritingInv
    <3>3. IsFiniteSet(staging[v] \ {<<i, c>>})
      BY <3>2, FS_RemoveElement
    <3> QED
      BY <3>1, <3>2, <3>3
  <2>9. TypeOK'
    BY <2>2, <2>4, <2>5, <2>7 DEF TypeOK, Labels
  <2>10. cache' # Unscanned
    BY <2>5 DEF Unscanned
  <2>11. WritingInv'
    BY <2>2, <2>6, <2>8, <2>10 DEF WritingInv
  <2> QED
    BY <2>9, <2>11
<1>9. CASE WriteManifestTmp
  <2>1. TypeOK'
    BY <1>9 DEF WriteManifestTmp, TypeOK, Labels
  <2>2. WritingInv'
    BY <1>9 DEF WriteManifestTmp, WritingInv
  <2> QED
    BY <2>1, <2>2
<1>10. CASE PublishManifest
  <2>1. /\ pc = "publish" /\ pc' = "verify" /\ tmpUnits' = tmpUnits \ {unit}
        /\ manifests' = [u \in DOMAIN manifests \cup {unit} |->
                           IF u = unit THEN out ELSE manifests[u]]
        /\ cache' = cache + ManifestSize
        /\ UNCHANGED <<cas, bad, tmpChunks, staging, route, unit, out, read, pending,
                       receipts, outcome, crashes>>
    BY <1>10 DEF PublishManifest, Recorded
  <2>2. cache # Unscanned /\ out \in Outputs[unit] /\ unit \in Units
    BY <2>1 DEF WritingInv, StoreInv, CallInv
  <2>3. cache' \in Nat
    BY <1>0, <2>1, <2>2, SizeAssumption
  <2>4. /\ DOMAIN manifests' \subseteq Units
        /\ \A u \in DOMAIN manifests' : manifests'[u] \in Outputs[u]
    BY <2>1, <2>2 DEF TypeOK
  <2>5. TypeOK'
    BY <2>1, <2>3, <2>4 DEF TypeOK, Labels
  <2>6. WritingInv'
    BY <2>1 DEF WritingInv
  <2> QED
    BY <2>5, <2>6
<1>11. CASE Verify
  <2>1. PICK why \in {"receipt", "corrupt"} :
          /\ End(why)
          /\ receipts' = receipts \cup {<<unit, out>>} \/ receipts' = receipts
          /\ UNCHANGED <<cas, bad, manifests, tmpChunks, tmpUnits, cache, crashes>>
    BY <1>11 DEF Verify
  <2>2. <<unit, out>> \in Units \X Seq(Chunks)
    BY DEF TypeOK
  <2>3. receipts' \subseteq Units \X Seq(Chunks) /\ cache' \in Nat \cup {Unscanned}
    BY <1>0, <2>1, <2>2
  <2>4. why \in Outcomes
    BY DEF Outcomes
  <2> QED
    BY <2>1, <2>3, <2>4, EndKeepsTypes
<1>12. CASE Crash
  <2>1. (CHOOSE u \in Units : TRUE) \in Units
    BY OutputAssumption
  <2>2. /\ out' \in Seq(Chunks) /\ read' \in 0..Len(out') /\ pending' \subseteq DOMAIN out'
        /\ unit' \in Units
    BY <1>12, <2>1 DEF Crash
  <2>3. crashes' \in 0..MaxCrashes
    BY <1>12, SizeAssumption DEF Crash, TypeOK
  <2>4. /\ pc' = "idle" /\ route' = "none" /\ pending' = {} /\ outcome' = "none"
        /\ cache' = Unscanned /\ UNCHANGED <<disk, receipts>>
    BY <1>12 DEF Crash
  <2>5. TypeOK'
    BY <2>2, <2>3, <2>4 DEF TypeOK, Labels, Outcomes
  <2>6. WritingInv'
    BY <2>4 DEF WritingInv
  <2> QED
    BY <2>5, <2>6
<1>13. CASE Damage
  <2>1. PICK c \in cas \ bad : bad' = bad \cup {c}
    BY <1>13 DEF Damage
  <2>2. UNCHANGED <<cas, manifests, tmpChunks, tmpUnits, staging, cache, call, receipts,
                    outcome, crashes>>
    BY <1>13 DEF Damage
  <2>3. TypeOK'
    BY <2>1, <2>2 DEF TypeOK
  <2>4. WritingInv'
    BY <2>2 DEF WritingInv
  <2> QED
    BY <2>3, <2>4
<1>14. CASE UNCHANGED vars
  <2>1. TypeOK'
    BY <1>14 DEF vars, TypeOK
  <2>2. WritingInv'
    BY <1>14 DEF vars, WritingInv
  <2> QED
    BY <2>1, <2>2
<1> QED
  BY <1>1, <1>2, <1>3, <1>4, <1>5, <1>6, <1>7, <1>8, <1>9, <1>10, <1>11, <1>12, <1>13,
     <1>14 DEF Next, Step

LEMMA InitTypes == Init => TypeOK /\ WritingInv
<1> SUFFICES ASSUME Init PROVE TypeOK /\ WritingInv
  OBVIOUS
<1>1. (CHOOSE u \in Units : TRUE) \in Units
  BY OutputAssumption
<1>2. DOMAIN manifests = {} /\ staging \in [Units -> SUBSET (Nat \X Chunks)]
  BY DEF Init
<1>3. /\ out \in Seq(Chunks) /\ read \in 0..Len(out) /\ pending \subseteq DOMAIN out
  BY DEF Init
<1>4. crashes \in 0..MaxCrashes
  BY SizeAssumption DEF Init
<1>5. TypeOK
  BY <1>1, <1>2, <1>3, <1>4 DEF Init, TypeOK, Labels, Outcomes
<1>6. WritingInv
  BY FS_EmptySet DEF Init, WritingInv
<1> QED
  BY <1>5, <1>6

\* Every file set and every local of a call keeps the shape the code gives it, and the
\* size cache is a natural whenever a call adds to it.
THEOREM TypeCorrect == Spec => []TypeOK
BY InitTypes, StoreInvariant, TypeStep, PTL DEF Spec

(***************************************************************************)
(* The byte budget.                                                        *)
(***************************************************************************)

\* Staging directories that do not change keep their bytes.
LEMMA StagingFrame ==
  ASSUME TypeOK, WritingInv, NEW us, us \subseteq Units,
         \A v \in us : staging'[v] = staging[v]
  PROVE  StagingBytes(us)' = StagingBytes(us)
<1>1. PICK w, v : /\ w = [u \in Units |-> StagedBytes(u)]
                  /\ v = [u \in Units |-> StagedBytes(u)]'
  OBVIOUS
<1>2. \A u \in us : w[u] = v[u]
  <2> TAKE u \in us
  <2>1. StagedBytes(u)' = StagedBytes(u)
    BY DEF StagedBytes
  <2> QED
    BY <1>1, <2>1
<1>3. IsFiniteSet(us)
  BY StagingType
<1>4. SumFunctionOnSet(w, us) = SumFunctionOnSet(v, us)
  BY <1>2, <1>3, SumExtensional
<1> QED
  BY <1>1, <1>4 DEF StagingBytes

\* One staging directory and the others.
LEMMA StagingSplit ==
  ASSUME TypeOK, WritingInv, NEW x \in Units
  PROVE  /\ StagingBytes(Units) = StagedBytes(x) + StagingBytes(Units \ {x})
         /\ StagedBytes(x) \in Nat /\ StagingBytes(Units \ {x}) \in Nat
<1> DEFINE w == [u \in Units |-> StagedBytes(u)]
<1>1. \A u \in Units : w[u] \in Nat /\ w[u] = StagedBytes(u)
  BY StagedBytesType
<1>2. IsFiniteSet(Units)
  BY OutputAssumption
<1> HIDE DEF w
<1>3. /\ SumFunctionOnSet(w, Units) = w[x] + SumFunctionOnSet(w, Units \ {x})
      /\ SumFunctionOnSet(w, Units \ {x}) \in Nat
  BY <1>1, <1>2, SumRemove
<1>4. w[x] = StagedBytes(x) /\ StagedBytes(x) \in Nat
  BY <1>1
<1> QED
  BY <1>3, <1>4 DEF StagingBytes, w

\* An empty staging directory adds nothing.
EmptyAddsNothing ==
  \A x \in Units : staging[x] = {} => StagingBytes(Units) = StagingBytes(Units \ {x})

LEMMA StagingEmpty == TypeOK /\ WritingInv => EmptyAddsNothing
<1> SUFFICES ASSUME TypeOK, WritingInv, NEW x \in Units, staging[x] = {}
             PROVE  StagingBytes(Units) = StagingBytes(Units \ {x})
  BY DEF EmptyAddsNothing
<1>1. StagedBytes(x) = 0
  <2>1. PICK w : w = [f \in staging[x] |-> Size[f[2]]]
    OBVIOUS
  <2>2. DOMAIN w = {}
    BY <2>1
  <2>3. SumFunctionOnSet(w, {}) = 0
    BY SumOfNone
  <2> QED
    BY <2>1, <2>2, <2>3 DEF StagedBytes, SumFunction
<1> QED
  BY <1>1, StagingSplit

\* A stored or temporary chunk more.
LEMMA OneMoreChunk ==
  ASSUME NEW cs, cs \subseteq Chunks, IsFiniteSet(cs), NEW c \in Chunks
  PROVE  /\ ChunkBytes(cs \cup {c}) =
              IF c \in cs THEN ChunkBytes(cs) ELSE ChunkBytes(cs) + Size[c]
         /\ ChunkBytes(cs) \in Nat /\ Size[c] \in Nat
<1>1. \A x \in cs \cup {c} : Size[x] \in Nat
  BY SizeAssumption
<1> QED
  BY <1>1, SumAdd, ChunkBytesType DEF ChunkBytes

\* A temporary chunk less.
LEMMA OneChunkLess ==
  ASSUME NEW cs, cs \subseteq Chunks, IsFiniteSet(cs), NEW c
  PROVE  ChunkBytes(cs \ {c}) \in Nat /\ ChunkBytes(cs \ {c}) <= ChunkBytes(cs)
<1>0. IsFiniteSet(cs \ {c}) /\ cs \ {c} \subseteq Chunks
  BY FS_RemoveElement
<1>1. ChunkBytes(cs \ {c}) \in Nat /\ ChunkBytes(cs) \in Nat
  BY <1>0, ChunkBytesType
<1>2. CASE c \in cs
  <2>1. (cs \ {c}) \cup {c} = cs /\ c \in Chunks /\ c \notin cs \ {c}
    BY <1>2
  <2>2. ChunkBytes(cs) = ChunkBytes(cs \ {c}) + Size[c] /\ Size[c] \in Nat
    <3>1. PICK r : r = cs \ {c}
      OBVIOUS
    <3>2. ChunkBytes(r \cup {c}) = ChunkBytes(r) + Size[c] /\ Size[c] \in Nat
      BY <1>0, <2>1, <3>1, OneMoreChunk
    <3> QED
      BY <2>1, <3>1, <3>2
  <2> QED
    BY <1>1, <2>2
<1>3. CASE c \notin cs
  <2>1. cs \ {c} = cs
    BY <1>3
  <2> QED
    BY <1>1, <2>1
<1> QED
  BY <1>2, <1>3

LEMMA ProductFacts ==
  ASSUME NEW m \in Nat, NEW n \in Nat, NEW k \in Nat
  PROVE  m * n \in Nat /\ m * (n + 1) = m * n + m /\ (k <= n => m * k <= m * n)
OBVIOUS

\* A manifest less, and one more.
LEMMA OneManifestLess ==
  ASSUME NEW us, us \subseteq Units, NEW u
  PROVE  ManifestSize * Cardinality(us \ {u}) <= ManifestSize * Cardinality(us)
<1>1. /\ IsFiniteSet(us) /\ Cardinality(us) \in Nat
      /\ Cardinality(us \ {u}) \in Nat /\ us \ {u} \subseteq us
  BY ManifestBytesType
<1>2. Cardinality(us \ {u}) <= Cardinality(us)
  BY <1>1, FS_Subset
<1> QED
  BY <1>1, <1>2, SizeAssumption, ProductFacts

LEMMA OneMoreManifest ==
  ASSUME NEW us, us \subseteq Units, NEW u, u \notin us
  PROVE  ManifestSize * Cardinality(us \cup {u}) = ManifestSize * Cardinality(us) + ManifestSize
<1>1. IsFiniteSet(us) /\ Cardinality(us) \in Nat
  BY ManifestBytesType
<1>2. Cardinality(us \cup {u}) = Cardinality(us) + 1
  BY <1>1, FS_AddElement
<1> QED
  BY <1>1, <1>2, SizeAssumption, ProductFacts

\* The parts of CountedBytes.
LEMMA CountedParts ==
  TypeOK /\ WritingInv =>
    /\ CommittedBytes \in Nat
    /\ ChunkBytes(tmpChunks \ OwnChunk) \in Nat
    /\ ChunkBytes(tmpChunks \ OwnChunk) <= ChunkBytes(tmpChunks)
    /\ ManifestSize * Cardinality(tmpUnits \ OwnManifest) \in Nat
    /\ ManifestSize * Cardinality(tmpUnits \ OwnManifest) <= ManifestSize * Cardinality(tmpUnits)
    /\ StagingBytes(Units \ OwnStaging) \in Nat
    /\ StagingBytes(Units \ OwnStaging) <= StagingBytes(Units)
<1> SUFFICES ASSUME TypeOK, WritingInv
    PROVE /\ CommittedBytes \in Nat
          /\ ChunkBytes(tmpChunks \ OwnChunk) \in Nat
          /\ ChunkBytes(tmpChunks \ OwnChunk) <= ChunkBytes(tmpChunks)
          /\ ManifestSize * Cardinality(tmpUnits \ OwnManifest) \in Nat
          /\ ManifestSize * Cardinality(tmpUnits \ OwnManifest)
               <= ManifestSize * Cardinality(tmpUnits)
          /\ StagingBytes(Units \ OwnStaging) \in Nat
          /\ StagingBytes(Units \ OwnStaging) <= StagingBytes(Units)
  OBVIOUS
<1>0. \A S : S \ {} = S
  OBVIOUS
<1>1. tmpChunks \subseteq Chunks /\ IsFiniteSet(tmpChunks) /\ tmpUnits \subseteq Units
      /\ unit \in Units
  BY DEF TypeOK, WritingInv
<1>2. /\ ChunkBytes(tmpChunks \ OwnChunk) \in Nat
      /\ ChunkBytes(tmpChunks \ OwnChunk) <= ChunkBytes(tmpChunks)
  <2>1. CASE pc = "swap"
    <3>1. OwnChunk = {out[Min(pending)]}
      BY <2>1 DEF OwnChunk
    <3> QED
      BY <1>1, <3>1, OneChunkLess
  <2>2. CASE pc # "swap"
    <3>1. tmpChunks \ OwnChunk = tmpChunks
      BY <1>0, <2>2 DEF OwnChunk
    <3>2. ChunkBytes(tmpChunks) \in Nat
      BY <1>1, ChunkBytesType
    <3> QED
      BY <3>1, <3>2
  <2> QED
    BY <2>1, <2>2
<1>3. /\ ManifestSize * Cardinality(tmpUnits \ OwnManifest) \in Nat
      /\ ManifestSize * Cardinality(tmpUnits \ OwnManifest) <= ManifestSize * Cardinality(tmpUnits)
  <2>1. tmpUnits \ OwnManifest \subseteq Units
    BY <1>1
  <2>2. ManifestSize * Cardinality(tmpUnits \ OwnManifest) \in Nat
    BY <2>1, ManifestBytesType
  <2>3. CASE pc = "publish"
    <3>1. OwnManifest = {unit}
      BY <2>3 DEF OwnManifest
    <3> QED
      BY <1>1, <2>2, <3>1, OneManifestLess
  <2>4. CASE pc # "publish"
    <3>1. tmpUnits \ OwnManifest = tmpUnits
      BY <1>0, <2>4 DEF OwnManifest
    <3>2. PICK n : n = ManifestSize * Cardinality(tmpUnits \ OwnManifest)
      OBVIOUS
    <3>3. n = ManifestSize * Cardinality(tmpUnits) /\ n \in Nat
      BY ONLY <2>2, <3>1, <3>2
    <3>4. n <= n
      BY <3>3
    <3> QED
      BY ONLY <3>2, <3>3, <3>4, Zenon
  <2> QED
    BY <2>3, <2>4
<1>4. /\ StagingBytes(Units \ OwnStaging) \in Nat
      /\ StagingBytes(Units \ OwnStaging) <= StagingBytes(Units)
  <2>1. CASE route = "file"
    <3>1. PICK x \in Units : OwnStaging = {x}
      BY <1>1, <2>1 DEF OwnStaging
    <3>2. /\ StagingBytes(Units) = StagedBytes(x) + StagingBytes(Units \ {x})
          /\ StagedBytes(x) \in Nat /\ StagingBytes(Units \ {x}) \in Nat
      BY StagingSplit
    <3>3. StagingBytes(Units \ {x}) <= StagingBytes(Units)
      BY <3>2
    <3> QED
      BY <3>1, <3>2, <3>3
  <2>2. CASE route # "file"
    <3>1. Units \ OwnStaging = Units
      BY <1>0, <2>2 DEF OwnStaging
    <3>2. StagingBytes(Units) \in Nat
      BY StagingType
    <3> QED
      BY <3>1, <3>2
  <2> QED
    BY <2>1, <2>2
<1> QED
  BY <1>2, <1>3, <1>4, CommittedType

LEMMA CountedBounds ==
  TypeOK /\ WritingInv =>
    /\ CommittedBytes \in Nat /\ CountedBytes \in Nat
    /\ CommittedBytes <= CountedBytes /\ CountedBytes <= ScannedBytes
    /\ ScannedBytes \in Nat /\ Held \in Nat
<1> SUFFICES ASSUME TypeOK, WritingInv
    PROVE /\ CommittedBytes \in Nat /\ CountedBytes \in Nat
          /\ CommittedBytes <= CountedBytes /\ CountedBytes <= ScannedBytes
          /\ ScannedBytes \in Nat /\ Held \in Nat
  OBVIOUS
<1>1. PICK a, c, d, e, cc, dd, ee :
        /\ a = CommittedBytes
        /\ c = ChunkBytes(tmpChunks \ OwnChunk) /\ cc = ChunkBytes(tmpChunks)
        /\ d = ManifestSize * Cardinality(tmpUnits \ OwnManifest)
        /\ dd = ManifestSize * Cardinality(tmpUnits)
        /\ e = StagingBytes(Units \ OwnStaging) /\ ee = StagingBytes(Units)
  OBVIOUS
<1>2. a \in Nat /\ c \in Nat /\ d \in Nat /\ e \in Nat /\ c <= cc /\ d <= dd /\ e <= ee
  BY <1>1, CountedParts
<1>3. cc \in Nat /\ dd \in Nat /\ ee \in Nat
  BY <1>1, ChunkBytesType, ManifestBytesType, StagingType DEF TypeOK, WritingInv
<1>4. CountedBytes = a + c + d + e /\ ScannedBytes = a + cc + dd + ee
  BY <1>1 DEF CountedBytes, ScannedBytes
<1> QED
  BY <1>1, <1>2, <1>3, <1>4, HeldType

\* total_bytes covers what is counted.
LEMMA HeldCovers ==
  ASSUME TypeOK, WritingInv, BudgetInv
  PROVE  CountedBytes <= Held
BY CountedBounds DEF BudgetInv, Held

\* A step that writes nothing the budget counts, outside the writing part of a call.
LEMMA BudgetKept ==
  ASSUME TypeOK, WritingInv, BudgetInv, TypeOK', WritingInv',
         UNCHANGED <<cas, manifests>>,
         CountedBytes' <= CountedBytes, cache' = cache \/ cache' = Held,
         pc' \notin {"put", "swap", "publish"}
  PROVE  BudgetInv'
<1>1. CommittedBytes' = CommittedBytes
  BY DEF CommittedBytes
<1>2. CountedBytes \in Nat /\ CountedBytes' \in Nat /\ Held \in Nat
  <2>1. (TypeOK /\ WritingInv => CountedBytes \in Nat)'
    BY CountedBounds, PTL
  <2> QED
    BY <2>1, CountedBounds
<1>3. CountedBytes <= Held
  BY HeldCovers
<1>4. CommittedWithinLimit'
  BY <1>1 DEF BudgetInv, CommittedWithinLimit
<1>5. cache' # Unscanned => CountedBytes' <= cache'
  <2>1. CASE cache' = cache
    <3>1. cache # Unscanned => CountedBytes <= cache /\ cache \in Nat
      BY DEF BudgetInv, TypeOK
    <3> QED
      BY <1>2, <2>1, <3>1
  <2>2. CASE cache' = Held
    BY <1>2, <1>3, <2>2
  <2> QED
    BY <2>1, <2>2
<1> QED
  BY <1>4, <1>5 DEF BudgetInv

\* A call that ends with an answer or an exception: its staging directory, which was not
\* counted, is gone.
LEMMA EndKeepsBudget ==
  ASSUME TypeOK, WritingInv, BudgetInv, TypeOK', WritingInv', NEW why, End(why),
         UNCHANGED <<cas, manifests, tmpChunks, tmpUnits>>,
         pc \notin {"swap", "publish"}, cache' = cache \/ cache' = Held
  PROVE  BudgetInv'
<1>1. /\ pc' = "idle" /\ route' = "none"
      /\ staging' = IF route = "file" THEN [staging EXCEPT ![unit] = {}] ELSE staging
  BY DEF End
<1>2. CommittedBytes' = CommittedBytes
  BY DEF CommittedBytes
<1>3. (tmpChunks \ OwnChunk)' = tmpChunks \ OwnChunk
  BY <1>1 DEF OwnChunk
<1>4. (tmpUnits \ OwnManifest)' = tmpUnits \ OwnManifest
  BY <1>1 DEF OwnManifest
<1>5. (Units \ OwnStaging)' = Units
  BY <1>1 DEF OwnStaging
<1>6. StagingBytes(Units)' = StagingBytes(Units \ OwnStaging)
  <2>1. CASE route = "file"
    <3>1. PICK x \in Units : x = unit
      BY DEF TypeOK
    <3>2. staging'[x] = {} /\ \A v \in Units \ {x} : staging'[v] = staging[v]
      BY <1>1, <2>1, <3>1 DEF TypeOK
    <3>3. EmptyAddsNothing'
      BY StagingEmpty, PTL
    <3>4. StagingBytes(Units)' = StagingBytes(Units \ {x})'
      BY <3>2, <3>3 DEF EmptyAddsNothing
    <3>5. StagingBytes(Units \ {x})' = StagingBytes(Units \ {x})
      BY <3>2, StagingFrame
    <3>6. OwnStaging = {x}
      BY <2>1, <3>1 DEF OwnStaging
    <3> QED
      BY <3>4, <3>5, <3>6
  <2>2. CASE route # "file"
    <3>1. Units \ OwnStaging = Units
      BY <2>2 DEF OwnStaging
    <3>2. StagingBytes(Units)' = StagingBytes(Units)
      BY <1>1, <2>2, StagingFrame
    <3> QED
      BY <3>1, <3>2
  <2> QED
    BY <2>1, <2>2
<1>7. CountedBytes' = CountedBytes
  BY <1>2, <1>3, <1>4, <1>5, <1>6 DEF CountedBytes, ChunkBytes
<1>8. CountedBytes' <= CountedBytes
  BY <1>7, CountedBounds
<1> QED
  BY <1>1, <1>8, BudgetKept

\* The pending chunks after one of them is written.
LEMMA PendingLess ==
  ASSUME TypeOK, NEW i \in pending, pending' = pending \ {i}, out' = out
  PROVE  /\ PendingBytes = Size[out[i]] + PendingBytes'
         /\ PendingBytes' \in Nat /\ Size[out[i]] \in Nat
<1>1. PICK w, s : w = [k \in DOMAIN out |-> Size[out[k]]] /\ s = pending
  OBVIOUS
<1>2. IsFiniteSet(s) /\ \A k \in s : w[k] \in Nat /\ w[k] = Size[out[k]]
  BY <1>1, PendingBytesType DEF TypeOK
<1>3. /\ SumFunctionOnSet(w, s) = w[i] + SumFunctionOnSet(w, s \ {i})
      /\ SumFunctionOnSet(w, s \ {i}) \in Nat
  <2>1. i \in s
    BY <1>1
  <2> QED
    BY <1>2, <2>1, SumRemove
<1>4. PendingBytes = SumFunctionOnSet(w, s) /\ PendingBytes' = SumFunctionOnSet(w, s \ {i})
  BY <1>1 DEF PendingBytes
<1>5. w[i] = Size[out[i]] /\ w[i] \in Nat
  BY <1>1, <1>2
<1> QED
  BY <1>3, <1>4, <1>5

\* A chunk of the call is stored: it was reserved and is counted now.
LEMMA StoredKeepsBudget ==
  ASSUME TypeOK, WritingInv, BudgetInv, TypeOK', WritingInv',
         pc \in {"put", "swap"}, pc' = "put", pending # {},
         NEW c, c = out[Min(pending)],
         cas' = cas \cup {c}, pending' = pending \ {Min(pending)},
         cache' = (IF c \in cas THEN cache ELSE cache + Size[c]) \/ cache' = cache + Size[c],
         (tmpChunks \ OwnChunk)' = tmpChunks \ OwnChunk,
         (Units \ OwnStaging)' = Units \ OwnStaging,
         \A v \in Units \ OwnStaging : staging'[v] = staging[v],
         UNCHANGED <<manifests, tmpUnits, route, unit, out>>
  PROVE  BudgetInv'
<1>1. PICK i : i = Min(pending)
  OBVIOUS
<1>2. i \in pending /\ c \in Chunks /\ c = out[i]
  BY <1>1, NextChunk
<1>3. /\ PendingBytes = Size[c] + PendingBytes'
      /\ PendingBytes' \in Nat /\ Size[c] \in Nat
  BY <1>1, <1>2, PendingLess
<1>4. ChunkBytes(cas)' <= ChunkBytes(cas) + Size[c] /\ (c \in cas => ChunkBytes(cas)' = ChunkBytes(cas))
      /\ ChunkBytes(cas)' \in Nat /\ ChunkBytes(cas) \in Nat
  <2>1. /\ ChunkBytes(cas \cup {c}) =
             IF c \in cas THEN ChunkBytes(cas) ELSE ChunkBytes(cas) + Size[c]
        /\ ChunkBytes(cas) \in Nat /\ Size[c] \in Nat
    BY <1>2, OneMoreChunk DEF TypeOK, WritingInv
  <2>2. ChunkBytes(cas)' = ChunkBytes(cas \cup {c})
    BY DEF ChunkBytes
  <2> QED
    BY <2>1, <2>2
<1>5. PICK k \in Nat : /\ CountedBytes = ChunkBytes(cas) + k
                       /\ CountedBytes' = ChunkBytes(cas)' + k
  <2>1. PICK b, d, e, f : /\ b = ManifestSize * Cardinality(DOMAIN manifests)
                          /\ d = ChunkBytes(tmpChunks \ OwnChunk)
                          /\ e = ManifestSize * Cardinality(tmpUnits \ OwnManifest)
                          /\ f = StagingBytes(Units \ OwnStaging)
    OBVIOUS
  <2>2. b \in Nat /\ d \in Nat /\ e \in Nat /\ f \in Nat
    BY <2>1, CountedParts, ManifestBytesType DEF TypeOK
  <2>3. CountedBytes = ChunkBytes(cas) + b + d + e + f
    BY <2>1 DEF CountedBytes, CommittedBytes
  <2>4. (tmpUnits \ OwnManifest)' = tmpUnits \ OwnManifest
    BY DEF OwnManifest
  <2>5. StagingBytes(Units \ OwnStaging)' = f
    <3>1. PICK us : us = Units \ OwnStaging
      OBVIOUS
    <3>2. StagingBytes(us)' = StagingBytes(us)
      BY <3>1, StagingFrame
    <3>3. (Units \ OwnStaging)' = us
      BY <3>1
    <3>4. StagingBytes(Units \ OwnStaging)' = StagingBytes(us)'
      BY <3>3 DEF StagingBytes
    <3> QED
      BY <2>1, <3>1, <3>2, <3>4
  <2>6. CountedBytes' = ChunkBytes(cas)' + b + d + e + f
    <3>1. CommittedBytes' = ChunkBytes(cas)' + b
      BY <2>1 DEF CommittedBytes
    <3>2. ChunkBytes(tmpChunks \ OwnChunk)' = d
      BY <2>1 DEF ChunkBytes
    <3>3. (ManifestSize * Cardinality(tmpUnits \ OwnManifest))' = e
      BY <2>1, <2>4
    <3> QED
      BY <2>5, <3>1, <3>2, <3>3 DEF CountedBytes
  <2>7. PICK n, m : n = ChunkBytes(cas) /\ m = ChunkBytes(cas)'
    OBVIOUS
  <2>8. /\ n + b + d + e + f = n + (b + d + e + f) /\ m + b + d + e + f = m + (b + d + e + f)
        /\ b + d + e + f \in Nat
    BY <1>4, <2>2, <2>7
  <2> QED
    BY <2>3, <2>6, <2>7, <2>8
<1>6. /\ cache \in Nat /\ CountedBytes <= cache
      /\ cache + PendingBytes + ManifestSize <= MaxBytes
  BY DEF BudgetInv, WritingInv, TypeOK
<1>7. /\ CountedBytes' <= cache' /\ cache' \in Nat
      /\ cache' + PendingBytes' + ManifestSize <= MaxBytes
  <2>1. PICK n, m, z, p, q, h, g : /\ n = ChunkBytes(cas) /\ m = ChunkBytes(cas)'
                                   /\ z = Size[c] /\ p = PendingBytes /\ q = PendingBytes'
                                   /\ h = cache /\ g = cache'
    OBVIOUS
  <2>2. /\ n \in Nat /\ m \in Nat /\ z \in Nat /\ q \in Nat /\ h \in Nat
        /\ p = z + q /\ m <= n + z /\ n + k <= h /\ h + p + ManifestSize <= MaxBytes
    BY <1>3, <1>4, <1>5, <1>6, <2>1
  <2>3. g = h + z \/ (g = h /\ m = n)
    BY <1>4, <2>1
  <2>4. m + k <= g /\ g \in Nat /\ g + q + ManifestSize <= MaxBytes
    BY <2>2, <2>3, SizeAssumption
  <2> QED
    BY <1>5, <2>1, <2>4
<1>8. (TypeOK /\ WritingInv => CommittedBytes \in Nat /\ CommittedBytes <= CountedBytes)'
  BY CountedBounds, PTL
<1>9. CommittedWithinLimit'
  <2>1. PICK n, m, q, g : /\ n = CommittedBytes' /\ m = CountedBytes'
                          /\ q = PendingBytes' /\ g = cache'
    OBVIOUS
  <2>2. /\ n \in Nat /\ n <= m /\ m <= g /\ g \in Nat /\ q \in Nat /\ m \in Nat
        /\ g + q + ManifestSize <= MaxBytes
    BY <1>3, <1>4, <1>5, <1>7, <1>8, <2>1
  <2>3. n <= MaxBytes
    BY <2>2, SizeAssumption
  <2> QED
    BY <2>1, <2>3 DEF CommittedWithinLimit
<1> QED
  BY <1>7, <1>9 DEF BudgetInv

\* A call that is not writing changes only its own staging directory and its locals.
LEMMA ReadingKeepsBudget ==
  ASSUME TypeOK, WritingInv, BudgetInv, TypeOK', WritingInv',
         UNCHANGED <<cas, manifests, tmpChunks, tmpUnits, route, unit, cache>>,
         pc \notin {"swap", "publish"}, pc' \notin {"put", "swap", "publish"},
         \A v \in Units \ OwnStaging : staging'[v] = staging[v]
  PROVE  BudgetInv'
<1>1. CommittedBytes' = CommittedBytes
  BY DEF CommittedBytes
<1>2. (tmpChunks \ OwnChunk)' = tmpChunks \ OwnChunk
  BY DEF OwnChunk
<1>3. (tmpUnits \ OwnManifest)' = tmpUnits \ OwnManifest
  BY DEF OwnManifest
<1>4. PICK us : us = Units \ OwnStaging
  OBVIOUS
<1>5. (Units \ OwnStaging)' = us
  BY <1>4 DEF OwnStaging
<1>6. StagingBytes(us)' = StagingBytes(us)
  BY <1>4, StagingFrame
<1>7. StagingBytes(Units \ OwnStaging)' = StagingBytes(us)'
  BY <1>5 DEF StagingBytes
<1>8. CountedBytes' = CountedBytes
  BY <1>1, <1>2, <1>3, <1>4, <1>6, <1>7 DEF CountedBytes, ChunkBytes
<1>9. CountedBytes' <= CountedBytes
  BY <1>8, CountedBounds
<1> QED
  BY <1>9, BudgetKept

\* BudgetInv is inductive relative to the types.
LEMMA BudgetStep ==
  /\ StoreInv /\ TypeOK /\ WritingInv /\ BudgetInv /\ [Next]_vars
  /\ TypeOK' /\ WritingInv'
  => BudgetInv'
<1> SUFFICES ASSUME StoreInv, TypeOK, WritingInv, BudgetInv, [Next]_vars,
                    TypeOK', WritingInv'
             PROVE  BudgetInv'
  OBVIOUS
<1> USE DEF disk, call
<1>1. ASSUME NEW u \in Units, OpenUnit(u) PROVE BudgetInv'
  <2>1. PICK r \in Routes, o \in Outputs[u] : Open(r, u, o)
    BY <1>1 DEF OpenUnit
  <2>2. /\ pc = "idle" /\ pc' = "scan" /\ unit' = u /\ route' = r
        /\ staging' = IF r = "file" THEN [staging EXCEPT ![u] = {}] ELSE staging
        /\ UNCHANGED <<cas, manifests, tmpChunks, tmpUnits, cache>>
    BY <2>1 DEF Open
  <2>3. route = "none"
    BY <2>2 DEF WritingInv
  <2>4. CommittedBytes' = CommittedBytes
    BY <2>2 DEF CommittedBytes
  <2>5. (tmpChunks \ OwnChunk)' = tmpChunks \ OwnChunk
    BY <2>2 DEF OwnChunk
  <2>6. (tmpUnits \ OwnManifest)' = tmpUnits \ OwnManifest
    BY <2>2 DEF OwnManifest
  <2>7. Units \ OwnStaging = Units
    BY <2>3 DEF OwnStaging
  <2>8. PICK us : us = (Units \ OwnStaging)'
    OBVIOUS
  <2>9. (r = "file" /\ us = Units \ {u}) \/ (r # "file" /\ us = Units)
    BY <2>2, <2>8 DEF OwnStaging
  <2>10. us \subseteq Units /\ \A v \in us : staging'[v] = staging[v]
    BY <2>2, <2>9 DEF TypeOK
  <2>11. StagingBytes(us)' = StagingBytes(us)
    BY <2>10, StagingFrame
  <2>12. StagingBytes(us) <= StagingBytes(Units) /\ StagingBytes(us) \in Nat
         /\ StagingBytes(Units) \in Nat
    <3>1. /\ StagingBytes(Units) = StagedBytes(u) + StagingBytes(Units \ {u})
          /\ StagedBytes(u) \in Nat /\ StagingBytes(Units \ {u}) \in Nat
      BY StagingSplit
    <3>2. /\ StagingBytes(Units) \in Nat
          /\ StagingBytes(Units \ {u}) <= StagingBytes(Units)
          /\ StagingBytes(Units) <= StagingBytes(Units)
      BY <3>1
    <3> QED
      BY <2>9, <3>1, <3>2, Zenon
  <2>13. StagingBytes(Units \ OwnStaging)' = StagingBytes(us)'
    BY <2>8 DEF StagingBytes
  <2>14. PICK a, c, d, e, f : /\ a = CommittedBytes /\ c = ChunkBytes(tmpChunks \ OwnChunk)
                              /\ d = ManifestSize * Cardinality(tmpUnits \ OwnManifest)
                              /\ e = StagingBytes(Units) /\ f = StagingBytes(us)
    OBVIOUS
  <2>15. CountedBytes = a + c + d + e /\ CountedBytes' = a + c + d + f
    BY <2>4, <2>5, <2>6, <2>7, <2>11, <2>13, <2>14 DEF CountedBytes, ChunkBytes
  <2>16. a \in Nat /\ c \in Nat /\ d \in Nat /\ e \in Nat /\ f \in Nat /\ f <= e
    BY <2>12, <2>14, CountedParts
  <2>17. CountedBytes' <= CountedBytes
    BY <2>15, <2>16
  <2> QED
    BY <2>2, <2>17, BudgetKept
<1>2. CASE ScanBytes
  <2>1. CASE Fail("corrupt") /\ UNCHANGED cache
    BY <1>2, <2>1, EndKeepsBudget DEF Fail, ScanBytes
  <2>2. CASE /\ pc = "scan" /\ pc' = "decide"
             /\ UNCHANGED <<disk, cache, route, unit, out, read, receipts, outcome, crashes>>
    BY <2>2, ReadingKeepsBudget
  <2> QED
    BY <1>2, <2>1, <2>2 DEF ScanBytes
<1>3. CASE StageChunk
  <2>1. CASE Fail("corrupt") /\ UNCHANGED cache
    BY <1>3, <2>1, EndKeepsBudget DEF Fail, StageChunk
  <2>2. CASE ~(Fail("corrupt") /\ UNCHANGED cache)
    <3>1. PICK i, c : i = read + 1 /\ c = out[i]
      OBVIOUS
    <3>2. /\ pc = "scan" /\ route = "file"
          /\ staging' = IF c \in cas THEN staging
                        ELSE [staging EXCEPT ![unit] = @ \cup {<<i, c>>}]
          /\ UNCHANGED <<cas, manifests, tmpChunks, tmpUnits, cache, pc, route, unit>>
      BY <1>3, <2>2, <3>1 DEF StageChunk
    <3>3. \A v \in Units \ OwnStaging : staging'[v] = staging[v]
      BY <3>2 DEF OwnStaging, TypeOK
    <3> QED
      BY <3>2, <3>3, ReadingKeepsBudget
  <2> QED
    BY <2>1, <2>2
<1>4. CASE StagedAll
  BY <1>4, ReadingKeepsBudget DEF StagedAll
<1>5. CASE Decide
  <2>1. CASE Fail("history_rewrite") /\ UNCHANGED cache
    BY <1>5, <2>1, EndKeepsBudget DEF Fail, Decide
  <2>2. CASE Fail("capacity") /\ cache' = Held
    BY <1>5, <2>2, EndKeepsBudget DEF Fail, Decide
  <2>3. CASE /\ pc = "decide" /\ pc' = "verify"
             /\ UNCHANGED <<disk, cache, route, unit, out, read, pending, receipts, outcome,
                            crashes>>
    BY <2>3, ReadingKeepsBudget
  <2>4. CASE /\ pc = "decide" /\ pc' = "put" /\ cache' = Held /\ Reserved
             /\ UNCHANGED <<disk, route, unit, out, read, pending, receipts, outcome, crashes>>
    <3>1. CommittedBytes' = CommittedBytes /\ PendingBytes' = PendingBytes
      BY <2>4 DEF CommittedBytes, PendingBytes
    <3>2. /\ OwnChunk' = OwnChunk /\ OwnManifest' = OwnManifest /\ OwnStaging' = OwnStaging
      BY <2>4 DEF OwnChunk, OwnManifest, OwnStaging
    <3>3. StagingBytes(Units \ OwnStaging)' = StagingBytes(Units \ OwnStaging)
      BY <2>4, <3>2 DEF StagingBytes, StagedBytes
    <3>4. CountedBytes' = CountedBytes
      BY <2>4, <3>1, <3>2, <3>3 DEF CountedBytes, ChunkBytes
    <3>5. CountedBytes' <= cache'
      BY <2>4, <3>4, HeldCovers
    <3>6. CommittedWithinLimit'
      BY <3>1 DEF BudgetInv, CommittedWithinLimit
    <3>7. cache' + PendingBytes' + ManifestSize <= MaxBytes
      BY <2>4, <3>1 DEF Reserved
    <3> QED
      BY <3>5, <3>6, <3>7 DEF BudgetInv
  <2> QED
    BY <1>5, <2>1, <2>2, <2>3, <2>4 DEF Decide
<1>6. ASSUME UNCHANGED <<cas, manifests, staging, cache, route, unit, out, pending>>,
             pc = "put", pc' \in {"swap", "publish"},
             ChunkBytes(tmpChunks \ OwnChunk)' <= ChunkBytes(tmpChunks \ OwnChunk),
             (ManifestSize * Cardinality(tmpUnits \ OwnManifest))'
               <= ManifestSize * Cardinality(tmpUnits \ OwnManifest)
      PROVE  BudgetInv'
  <2>1. CommittedBytes' = CommittedBytes /\ PendingBytes' = PendingBytes
    BY <1>6 DEF CommittedBytes, PendingBytes
  <2>2. StagingBytes(Units \ OwnStaging)' = StagingBytes(Units \ OwnStaging)
    BY <1>6 DEF StagingBytes, StagedBytes, OwnStaging
  <2>3. PICK a, c, d, e, cc, dd :
          /\ a = CommittedBytes /\ c = ChunkBytes(tmpChunks \ OwnChunk)
          /\ d = ManifestSize * Cardinality(tmpUnits \ OwnManifest)
          /\ e = StagingBytes(Units \ OwnStaging)
          /\ cc = ChunkBytes(tmpChunks \ OwnChunk)'
          /\ dd = (ManifestSize * Cardinality(tmpUnits \ OwnManifest))'
    OBVIOUS
  <2>4. /\ a \in Nat /\ c \in Nat /\ d \in Nat /\ e \in Nat /\ cc <= c /\ dd <= d
    BY <1>6, <2>3, CountedParts
  <2>5. cc \in Nat /\ dd \in Nat
    <3>1. (TypeOK /\ WritingInv =>
             /\ ChunkBytes(tmpChunks \ OwnChunk) \in Nat
             /\ ManifestSize * Cardinality(tmpUnits \ OwnManifest) \in Nat)'
      BY CountedParts, PTL
    <3> QED
      BY <2>3, <3>1
  <2>6. CountedBytes = a + c + d + e /\ CountedBytes' = a + cc + dd + e
    BY <2>1, <2>2, <2>3 DEF CountedBytes
  <2>7. /\ cache \in Nat /\ CountedBytes <= cache
        /\ cache + PendingBytes + ManifestSize <= MaxBytes /\ CommittedWithinLimit
    BY <1>6 DEF BudgetInv, WritingInv, TypeOK
  <2>8. a + cc + dd + e <= cache
    BY <2>4, <2>5, <2>6, <2>7
  <2>9. CountedBytes' <= cache'
    BY <1>6, <2>6, <2>8
  <2>10. CommittedWithinLimit' /\ cache' + PendingBytes' + ManifestSize <= MaxBytes
    BY <1>6, <2>1, <2>7 DEF CommittedWithinLimit
  <2> QED
    BY <2>9, <2>10 DEF BudgetInv
<1>7. CASE WriteChunkTmp
  <2>1. PICK c : c = out[Min(pending)]
    OBVIOUS
  <2>2. /\ pc = "put" /\ pc' = "swap" /\ pending # {} /\ tmpChunks' = tmpChunks \cup {c}
        /\ UNCHANGED <<cas, manifests, tmpUnits, staging, cache, route, unit, out, pending>>
    BY <1>7, <2>1 DEF WriteChunkTmp
  <2>3. /\ tmpChunks \ OwnChunk = tmpChunks
        /\ (tmpChunks \ OwnChunk)' = tmpChunks \ {c}
        /\ (tmpUnits \ OwnManifest)' = tmpUnits \ OwnManifest
    BY <2>1, <2>2 DEF OwnChunk, OwnManifest
  <2>4. ChunkBytes(tmpChunks \ {c}) <= ChunkBytes(tmpChunks)
    BY OneChunkLess DEF TypeOK, WritingInv
  <2>5. ChunkBytes(tmpChunks \ OwnChunk)' <= ChunkBytes(tmpChunks \ OwnChunk)
    BY <2>3, <2>4 DEF ChunkBytes
  <2>6. PICK d : d = ManifestSize * Cardinality(tmpUnits \ OwnManifest)
    OBVIOUS
  <2>7. d \in Nat /\ (ManifestSize * Cardinality(tmpUnits \ OwnManifest))' = d
    BY <2>3, <2>6, CountedParts
  <2>8. d <= d
    BY <2>7
  <2> QED
    BY <1>6, <2>2, <2>5, <2>6, <2>7, <2>8
<1>8. CASE SwapChunk
  <2>1. PICK c : c = out[Min(pending)]
    OBVIOUS
  <2>2. /\ pc = "swap" /\ pc' = "put" /\ tmpChunks' = tmpChunks \ {c}
        /\ cas' = cas \cup {c} /\ cache' = cache + Size[c]
        /\ pending' = pending \ {Min(pending)}
        /\ UNCHANGED <<manifests, tmpUnits, staging, route, unit, out>>
    BY <1>8, <2>1 DEF SwapChunk, Recorded
  <2>3. pending # {}
    BY <2>2 DEF WritingInv
  <2>4. /\ (tmpChunks \ OwnChunk)' = tmpChunks \ OwnChunk
        /\ (Units \ OwnStaging)' = Units \ OwnStaging
    BY <2>1, <2>2 DEF OwnChunk, OwnStaging
  <2> QED
    BY <2>1, <2>2, <2>3, <2>4, StoredKeepsBudget
<1>9. CASE MoveChunk
  <2>1. PICK c : c = out[Min(pending)]
    OBVIOUS
  <2>2. /\ pc = "put" /\ pc' = "put" /\ pending # {} /\ route = "file"
        /\ staging' = [staging EXCEPT ![unit] = @ \ {<<Min(pending), c>>}]
        /\ cas' = cas \cup {c}
        /\ cache' = (IF c \in cas THEN cache ELSE cache + Size[c])
        /\ pending' = pending \ {Min(pending)}
        /\ UNCHANGED <<manifests, tmpChunks, tmpUnits, route, unit, out>>
    BY <1>9, <2>1 DEF MoveChunk, Recorded
  <2>3. /\ (tmpChunks \ OwnChunk)' = tmpChunks \ OwnChunk
        /\ (Units \ OwnStaging)' = Units \ OwnStaging
    BY <2>2 DEF OwnChunk, OwnStaging
  <2>4. \A v \in Units \ OwnStaging : staging'[v] = staging[v]
    BY <2>2 DEF OwnStaging, TypeOK
  <2> QED
    BY <2>1, <2>2, <2>3, <2>4, StoredKeepsBudget
<1>10. CASE WriteManifestTmp
  <2>1. /\ pc = "put" /\ pc' = "publish" /\ tmpUnits' = tmpUnits \cup {unit}
        /\ UNCHANGED <<cas, manifests, tmpChunks, staging, cache, route, unit, out, pending>>
    BY <1>10 DEF WriteManifestTmp
  <2>2. /\ tmpUnits \ OwnManifest = tmpUnits
        /\ (tmpUnits \ OwnManifest)' = tmpUnits \ {unit}
        /\ (tmpChunks \ OwnChunk)' = tmpChunks \ OwnChunk
    BY <2>1 DEF OwnChunk, OwnManifest
  <2>3. ManifestSize * Cardinality(tmpUnits \ {unit}) <= ManifestSize * Cardinality(tmpUnits)
    BY OneManifestLess DEF TypeOK
  <2>4. (ManifestSize * Cardinality(tmpUnits \ OwnManifest))'
          <= ManifestSize * Cardinality(tmpUnits \ OwnManifest)
    BY <2>2, <2>3
  <2>5. PICK d : d = ChunkBytes(tmpChunks \ OwnChunk)
    OBVIOUS
  <2>6. d \in Nat /\ ChunkBytes(tmpChunks \ OwnChunk)' = d
    BY <2>2, <2>5, CountedParts DEF ChunkBytes
  <2>7. d <= d
    BY <2>6
  <2> QED
    BY <1>6, <2>1, <2>4, <2>5, <2>6, <2>7
<1>11. CASE PublishManifest
  <2>1. /\ pc = "publish" /\ pc' = "verify" /\ tmpUnits' = tmpUnits \ {unit}
        /\ DOMAIN manifests' = DOMAIN manifests \cup {unit}
        /\ cache' = cache + ManifestSize
        /\ UNCHANGED <<cas, tmpChunks, staging, route, unit, out, pending>>
    BY <1>11 DEF PublishManifest, Recorded
  <2>2. unit \notin DOMAIN manifests /\ DOMAIN manifests \subseteq Units
    BY <2>1 DEF StoreInv, CallInv, TypeOK
  <2>3. PICK k : k = ManifestSize * Cardinality(DOMAIN manifests)
    OBVIOUS
  <2>4. (ManifestSize * Cardinality(DOMAIN manifests))' = k + ManifestSize /\ k \in Nat
    BY <2>1, <2>2, <2>3, OneMoreManifest, ManifestBytesType
  <2>5. PICK a, c, d, e : /\ a = ChunkBytes(cas) /\ c = ChunkBytes(tmpChunks \ OwnChunk)
                          /\ d = ManifestSize * Cardinality(tmpUnits \ OwnManifest)
                          /\ e = StagingBytes(Units \ OwnStaging)
    OBVIOUS
  <2>6. a \in Nat /\ c \in Nat /\ d \in Nat /\ e \in Nat
    BY <2>5, CountedParts, ChunkBytesType DEF TypeOK, WritingInv
  <2>7. /\ (tmpUnits \ OwnManifest)' = tmpUnits \ OwnManifest
        /\ (tmpChunks \ OwnChunk)' = tmpChunks \ OwnChunk
        /\ OwnStaging' = OwnStaging
    BY <2>1 DEF OwnChunk, OwnManifest, OwnStaging
  <2>8. CommittedBytes' = a + (k + ManifestSize)
    BY <2>1, <2>4, <2>5 DEF CommittedBytes, ChunkBytes
  <2>9. StagingBytes(Units \ OwnStaging)' = e
    BY <2>1, <2>5, <2>7 DEF StagingBytes, StagedBytes
  <2>10. /\ CountedBytes = (a + k) + c + d + e
         /\ CountedBytes' = (a + (k + ManifestSize)) + c + d + e
    BY <2>3, <2>5, <2>7, <2>8, <2>9 DEF CountedBytes, CommittedBytes, ChunkBytes
  <2>11. /\ cache \in Nat /\ CountedBytes <= cache
         /\ cache + PendingBytes + ManifestSize <= MaxBytes /\ PendingBytes \in Nat
    BY <2>1, PendingBytesType DEF BudgetInv, WritingInv, TypeOK
  <2>12. /\ (a + (k + ManifestSize)) + c + d + e <= cache + ManifestSize
         /\ a + (k + ManifestSize) <= MaxBytes
    BY <2>4, <2>6, <2>10, <2>11, SizeAssumption
  <2>13. CountedBytes' <= cache'
    BY <2>1, <2>10, <2>12
  <2>14. CommittedWithinLimit'
    BY <2>8, <2>12 DEF CommittedWithinLimit
  <2> QED
    BY <2>1, <2>13, <2>14 DEF BudgetInv
<1>12. CASE Verify
  <2>1. PICK why \in {"receipt", "corrupt"} :
          /\ End(why) /\ pc = "verify"
          /\ UNCHANGED <<cas, bad, manifests, tmpChunks, tmpUnits, cache, crashes>>
    BY <1>12 DEF Verify
  <2> QED
    BY <2>1, EndKeepsBudget
<1>13. CASE Crash
  <2>1. /\ pc' = "idle" /\ cache' = Unscanned /\ UNCHANGED <<cas, manifests>>
    BY <1>13 DEF Crash
  <2>2. CommittedWithinLimit'
    BY <2>1 DEF BudgetInv, CommittedWithinLimit, CommittedBytes
  <2> QED
    BY <2>1, <2>2 DEF BudgetInv
<1>14. CASE Damage \/ UNCHANGED vars
  <2>1. UNCHANGED <<cas, manifests, tmpChunks, tmpUnits, staging, cache, call>>
    BY <1>14 DEF Damage, vars
  <2>2. CommittedBytes' = CommittedBytes /\ PendingBytes' = PendingBytes
    BY <2>1 DEF CommittedBytes, PendingBytes
  <2>3. /\ OwnChunk' = OwnChunk /\ OwnManifest' = OwnManifest /\ OwnStaging' = OwnStaging
    BY <2>1 DEF OwnChunk, OwnManifest, OwnStaging
  <2>4. StagingBytes(Units \ OwnStaging)' = StagingBytes(Units \ OwnStaging)
    BY <2>1, <2>3 DEF StagingBytes, StagedBytes
  <2>5. CountedBytes' = CountedBytes
    BY <2>1, <2>2, <2>3, <2>4 DEF CountedBytes, ChunkBytes
  <2> QED
    BY <2>1, <2>2, <2>5 DEF BudgetInv, CommittedWithinLimit
<1> QED
  BY <1>1, <1>2, <1>3, <1>4, <1>5, <1>7, <1>8, <1>9, <1>10, <1>11, <1>12, <1>13, <1>14
     DEF Next, Step

\* max_external_bytes bounds what is committed, and between calls the cache covers the
\* disk: for all sizes, outputs, crashes and damage, whichever route the calls take.
THEOREM CapacityKept == Spec => []CapacityInv
<1>1. Init => TypeOK /\ WritingInv
  BY InitTypes
<1>2. Init => BudgetInv
  <2> SUFFICES ASSUME Init PROVE BudgetInv
    OBVIOUS
  <2>1. cas = {} /\ DOMAIN manifests = {} /\ cache = Unscanned /\ pc = "idle"
    BY DEF Init
  <2>2. ChunkBytes(cas) = 0
    BY <2>1, SumOfNone DEF ChunkBytes
  <2>3. ManifestSize * Cardinality(DOMAIN manifests) = 0
    BY <2>1, FS_EmptySet, SizeAssumption
  <2>4. CommittedWithinLimit
    BY <2>2, <2>3, SizeAssumption DEF CommittedWithinLimit, CommittedBytes
  <2> QED
    BY <2>1, <2>4 DEF BudgetInv
<1>3. WritingInv /\ BudgetInv => CapacityInv
  <2> SUFFICES ASSUME WritingInv, BudgetInv, pc = "idle", cache # Unscanned
               PROVE  ScannedBytes <= cache
    BY DEF CapacityInv, CacheCoversDisk, BudgetInv
  <2>1. OwnChunk = {} /\ OwnManifest = {} /\ OwnStaging = {}
    BY DEF OwnChunk, OwnManifest, OwnStaging, WritingInv
  <2>2. /\ tmpChunks \ OwnChunk = tmpChunks /\ tmpUnits \ OwnManifest = tmpUnits
        /\ Units \ OwnStaging = Units
    BY <2>1
  <2>3. CountedBytes = ScannedBytes
    BY <2>2 DEF CountedBytes, ScannedBytes
  <2> QED
    BY <2>3 DEF BudgetInv
<1> QED
  BY <1>1, <1>2, <1>3, StoreInvariant, TypeStep, BudgetStep, PTL DEF Spec
===============================================================================

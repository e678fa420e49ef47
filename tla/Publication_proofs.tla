-------------------------- MODULE Publication_proofs --------------------------
(***************************************************************************)
(* Publication: the remote store of evidence releases, the generations of  *)
(* the system atlas, the exports of compact evidence, the intake and       *)
(* recovery of source slices, and the freeze of a release, for any number  *)
(* of processes, files and contents.                                       *)
(***************************************************************************)
EXTENDS ReleaseFreeze, RemotePublication, AtlasGeneration, EvidenceExport, SourceRecovery,
  FiniteSetLemmas

(***************************************************************************)
(* RemotePublication                                                       *)
(***************************************************************************)

\* What a command has of the release, as long as nothing was changed under one.
Undisturbed(p) ==
  /\ call[p].doc = manifest
  /\ call[p].pc \in {"VERIFY", "COPY"} => manifest \in approved
  /\ call[p].pc = "VERIFY" => \A f \in DOMAIN call[p].doc \ Todo(p) : Holds(release, f, call[p].doc[f])
  /\ call[p].pc = "COPY" => /\ \A f \in DOMAIN call[p].doc : Holds(release, f, call[p].doc[f])
                            /\ \A f \in DOMAIN call[p].doc \ Todo(p) : Holds(objects, f, call[p].doc[f])
  /\ call[p].pc \in {"CAT", "READBACK"} => call[p].bytes = call[p].doc

\* What verify-remote has compared, whatever was changed.
ReadBack(p) ==
  /\ call[p].pc \in {"CAT", "READBACK"} => call[p].bytes \in Directories
  /\ call[p].pc = "READBACK" => /\ published = call[p].bytes
                                /\ \A f \in DOMAIN call[p].doc \ Todo(p) : Holds(objects, f, call[p].doc[f])

RemoteIInv ==
  /\ RemoteTypeOK
  /\ call \in [Publishers -> Calls \cup {NoCall}]
  /\ disturbed \in BOOLEAN
  /\ approval # NoObject => approval \in approved
  /\ \A p \in Publishers : call[p] # NoCall => ReadBack(p) /\ (disturbed \/ Undisturbed(p))
  /\ ReleaseExact
  /\ VerifiedExact
  /\ \A v \in verified : v.bytes \in Directories

\* rclone copyto --immutable: an object never changes, and a key is never freed.
LEMMA ObjectsKept ==
  ASSUME RemoteIInv, NEW f, NEW bytes, bytes # NoObject, Writable(Object(f), bytes), Put(f, bytes)
  PROVE  /\ \A g, b : Holds(objects, g, b) => Holds(objects', g, b)
         /\ Holds(objects', f, bytes)
         /\ \A g \in DOMAIN objects' : Holds(objects, g, objects'[g]) \/ (g = f /\ objects'[g] = bytes)
<1>1. f \in DOMAIN objects => objects[f] # NoObject
  BY ObjectAssumption DEF RemoteIInv, RemoteTypeOK, Holds
<1>2. f \in DOMAIN objects => objects[f] = bytes
  BY <1>1 DEF Writable, Object
<1>3. /\ DOMAIN objects' = DOMAIN objects \cup {f} /\ objects'[f] = bytes
      /\ \A g \in DOMAIN objects : g # f => objects'[g] = objects[g]
  BY DEF Put
<1> QED BY <1>2, <1>3 DEF Holds

CallsTyped == call \in [Publishers -> Calls \cup {NoCall}]

LEMMA CallParts ==
  ASSUME CallsTyped, NEW p \in Publishers, call[p] # NoCall
  PROVE  /\ call[p] \in Calls /\ call[p].doc \in Directories
         /\ call[p].pc \in {"APPROVAL", "VERIFY", "COPY", "EXPECT", "CAT", "READBACK"}
         /\ call[p].bytes \in Directories \cup {NoObject}
         /\ call[p].todo \in SUBSET UNION {DOMAIN d : d \in Directories}
BY DEF CallsTyped, Calls

\* Nothing of a command changes but how far it is.
Advanced(p, pc, todo) ==
  /\ CallsTyped' /\ call'[p] # NoCall
  /\ call'[p].pc = pc /\ call'[p].todo = todo
  /\ call'[p].doc = call[p].doc /\ call'[p].bytes = call[p].bytes
  /\ \A q \in Publishers \ {p} : call'[q] = call[q]

LEMMA EnterEffect ==
  ASSUME CallsTyped, NEW p \in Publishers, call[p] # NoCall,
         NEW pc \in {"APPROVAL", "VERIFY", "COPY", "EXPECT", "CAT", "READBACK"}, Enter(p, pc)
  PROVE  Advanced(p, pc, DOMAIN call[p].doc)
<1> DEFINE w == [call[p] EXCEPT !.pc = pc, !.todo = DOMAIN call[p].doc]
<1>1. call[p] \in Calls /\ call[p].doc \in Directories
  BY CallParts
<1>2. /\ w \in Calls /\ w.pc = pc /\ w.todo = DOMAIN call[p].doc /\ w.doc = call[p].doc
      /\ w.bytes = call[p].bytes
  BY <1>1 DEF Calls
<1>3. call' = [call EXCEPT ![p] = w]
  BY DEF Enter
<1> HIDE DEF w
<1> QED BY <1>2, <1>3, CallAssumption DEF CallsTyped, Advanced

LEMMA FileDoneEffect ==
  ASSUME CallsTyped, NEW p \in Publishers, call[p] # NoCall, FileDone(p)
  PROVE  Advanced(p, call[p].pc, Todo(p) \ {File(p)})
<1> DEFINE w == [call[p] EXCEPT !.todo = Todo(p) \ {File(p)}]
<1>1. call[p] \in Calls /\ Todo(p) \in SUBSET UNION {DOMAIN d : d \in Directories}
  BY CallParts DEF Todo
<1>2. /\ w \in Calls /\ w.pc = call[p].pc /\ w.todo = Todo(p) \ {File(p)} /\ w.doc = call[p].doc
      /\ w.bytes = call[p].bytes
  BY <1>1 DEF Calls
<1>3. call' = [call EXCEPT ![p] = w]
  BY DEF FileDone, Todo
<1> HIDE DEF w
<1> QED BY <1>2, <1>3, CallAssumption DEF CallsTyped, Advanced

LEMMA EndEffect ==
  ASSUME CallsTyped, NEW p \in Publishers, End(p)
  PROVE  CallsTyped' /\ call'[p] = NoCall /\ \A q \in Publishers \ {p} : call'[q] = call[q]
BY DEF CallsTyped, End

\* A step of a command on its own state; what it did so far is still true of its files.
LEMMA CallMoves ==
  ASSUME RemoteIInv, NEW p \in Publishers, UNCHANGED <<operatorVars, objects, published, verified>>,
         CallsTyped', \A q \in Publishers \ {p} : call'[q] = call[q],
         call'[p] # NoCall => /\ Todo(p)' \subseteq DOMAIN call'[p].doc
                              /\ ReadBack(p)' /\ (disturbed \/ Undisturbed(p)')
  PROVE  RemoteIInv'
<1>1. RemoteTypeOK'
  BY DEF RemoteIInv, RemoteTypeOK, operatorVars, Todo
<1>2. \A q \in Publishers \ {p} : /\ ReadBack(q)' <=> ReadBack(q)
                                  /\ Undisturbed(q)' <=> Undisturbed(q)
  BY DEF ReadBack, Undisturbed, Todo, operatorVars
<1>3. ReleaseExact' /\ VerifiedExact'
  BY DEF RemoteIInv, ReleaseExact, VerifiedExact, operatorVars
<1> QED BY <1>1, <1>2, <1>3 DEF RemoteIInv, operatorVars, CallsTyped

LEMMA RemoteOperatorStep ==
  ASSUME RemoteIInv, ChangeRelease \/ BuildManifest \/ Approve
  PROVE  RemoteIInv'
<1>1. CASE Approve
  <2>1. RemoteTypeOK'
    BY <1>1 DEF RemoteIInv, RemoteTypeOK, Approve, Todo
  <2>2. \A p \in Publishers : call[p] # NoCall => ReadBack(p)' /\ (disturbed \/ Undisturbed(p)')
    BY <1>1 DEF RemoteIInv, Approve, ReadBack, Undisturbed, Todo
  <2>3. ReleaseExact' /\ VerifiedExact'
    BY <1>1 DEF RemoteIInv, ReleaseExact, VerifiedExact, Approve
  <2> QED BY <1>1, <2>1, <2>2, <2>3 DEF RemoteIInv, Approve
<1>2. CASE ChangeRelease \/ BuildManifest
  <2>1. /\ release' \in Directories /\ manifest' \in Directories
        /\ UNCHANGED <<approval, objects, published, call, approved, verified>>
        /\ disturbed' = (disturbed \/ \E p \in Publishers : call[p] # NoCall)
    BY <1>2 DEF ChangeRelease, BuildManifest, Change, RemoteIInv, RemoteTypeOK
  <2>2. disturbed' \in BOOLEAN /\ (disturbed => disturbed')
        /\ \A p \in Publishers : call'[p] # NoCall => disturbed'
    BY <2>1
  <2>3. RemoteTypeOK'
    BY <2>1 DEF RemoteIInv, RemoteTypeOK, Todo
  <2>4. \A p \in Publishers : call'[p] # NoCall => ReadBack(p)'
    BY <2>1 DEF RemoteIInv, ReadBack, Todo
  <2>5. ReleaseExact' /\ VerifiedExact'
    BY <2>1, <2>2 DEF RemoteIInv, ReleaseExact, VerifiedExact
  <2> QED BY <2>1, <2>2, <2>3, <2>4, <2>5 DEF RemoteIInv
<1> QED BY <1>1, <1>2

\* Every step of a command but the two that copy: it changes the command alone, or adds
\* to what is verified.
LEMMA RemoteReadStep ==
  ASSUME RemoteIInv, NEW p \in Publishers,
         \/ BeginUpload(p) \/ LoadPublicationApproval(p) \/ VerifyLocal(p) \/ BreakOff(p)
         \/ BeginVerifyRemote(p) \/ ReadExpectedManifest(p) \/ CatManifest(p)
  PROVE  RemoteIInv'
<1>0. CallsTyped /\ manifest \in Directories /\ (disturbed \/ ~disturbed)
  BY DEF RemoteIInv, CallsTyped, RemoteTypeOK
<1>1. UNCHANGED <<operatorVars, objects, published, verified>>
  BY DEF BeginUpload, Begin, LoadPublicationApproval, VerifyLocal, BreakOff, BeginVerifyRemote,
    ReadExpectedManifest, CatManifest
<1>2. CASE End(p)
  BY <1>0, <1>1, <1>2, EndEffect, CallMoves
<1>3. CASE BeginUpload(p) \/ BeginVerifyRemote(p)
  <2>1. PICK pc \in {"APPROVAL", "EXPECT"} : Begin(p, pc)
    BY <1>3 DEF BeginUpload, BeginVerifyRemote
  <2> DEFINE w == [pc |-> pc, doc |-> manifest, bytes |-> NoObject, todo |-> DOMAIN manifest]
  <2>2. /\ w \in Calls /\ w.pc = pc /\ w.doc = manifest /\ w.todo = DOMAIN manifest
    BY <1>0 DEF Calls
  <2>3. call' = [call EXCEPT ![p] = w]
    BY <2>1 DEF Begin
  <2> HIDE DEF w
  <2>4. CallsTyped' /\ call'[p] = w /\ \A q \in Publishers \ {p} : call'[q] = call[q]
    BY <1>0, <2>2, <2>3 DEF CallsTyped
  <2>5. Todo(p)' \subseteq DOMAIN call'[p].doc /\ ReadBack(p)' /\ Undisturbed(p)'
    BY <1>1, <2>1, <2>2, <2>4 DEF Todo, ReadBack, Undisturbed, operatorVars
  <2> QED BY <1>1, <2>4, <2>5, CallMoves
<1>4. CASE LoadPublicationApproval(p) /\ ~End(p)
  <2>1. call[p] # NoCall /\ call[p].pc = "APPROVAL" /\ approval = manifest /\ Enter(p, "VERIFY")
    BY <1>4 DEF LoadPublicationApproval, In
  <2>2. Advanced(p, "VERIFY", DOMAIN call[p].doc)
    BY <1>0, <2>1, EnterEffect
  <2>3. manifest \in approved
    BY <1>0, <2>1, ObjectAssumption DEF RemoteIInv
  <2>4. Todo(p)' \subseteq DOMAIN call'[p].doc /\ ReadBack(p)'
    BY <2>2 DEF Todo, ReadBack, Advanced
  <2>5. disturbed \/ Undisturbed(p)'
    BY <1>1, <2>1, <2>2, <2>3 DEF RemoteIInv, Todo, Undisturbed, Advanced, operatorVars
  <2> QED BY <1>1, <2>2, <2>4, <2>5, CallMoves DEF Advanced
<1>5. CASE VerifyLocal(p) /\ ~End(p)
  <2>1. call[p] # NoCall /\ call[p].pc = "VERIFY"
    BY <1>5 DEF VerifyLocal, In
  <2>2. CASE Todo(p) = {} /\ Enter(p, "COPY")
    <3>1. Advanced(p, "COPY", DOMAIN call[p].doc)
      BY <1>0, <2>1, <2>2, EnterEffect
    <3>2. Todo(p)' \subseteq DOMAIN call'[p].doc /\ ReadBack(p)'
      BY <3>1 DEF Todo, ReadBack, Advanced
    <3>3. disturbed \/ Undisturbed(p)'
      BY <1>1, <2>1, <2>2, <3>1 DEF RemoteIInv, Todo, Undisturbed, Advanced, operatorVars
    <3> QED BY <1>1, <3>1, <3>2, <3>3, CallMoves DEF Advanced
  <2>3. CASE Holds(release, File(p), call[p].doc[File(p)]) /\ FileDone(p)
    <3>1. Advanced(p, "VERIFY", Todo(p) \ {File(p)})
      BY <1>0, <2>1, <2>3, FileDoneEffect
    <3>2. Todo(p) \subseteq DOMAIN call[p].doc
      BY <2>1 DEF RemoteIInv, RemoteTypeOK
    <3>3. Todo(p)' \subseteq DOMAIN call'[p].doc /\ ReadBack(p)'
      BY <3>1, <3>2 DEF Todo, ReadBack, Advanced
    <3>4. disturbed \/ Undisturbed(p)'
      BY <1>1, <2>1, <2>3, <3>1 DEF RemoteIInv, Todo, Undisturbed, Advanced, operatorVars
    <3> QED BY <1>1, <3>1, <3>3, <3>4, CallMoves DEF Advanced
  <2> QED BY <1>5, <2>2, <2>3 DEF VerifyLocal
<1>6. CASE ReadExpectedManifest(p)
  <2> DEFINE w == [call[p] EXCEPT !.pc = "CAT", !.bytes = manifest]
  <2>1. call[p] # NoCall /\ call[p].pc = "EXPECT" /\ call' = [call EXCEPT ![p] = w]
    BY <1>6 DEF ReadExpectedManifest, In
  <2>2. call[p] \in Calls
    BY <1>0, <2>1, CallParts
  <2>3. /\ w \in Calls /\ w.pc = "CAT" /\ w.bytes = manifest /\ w.doc = call[p].doc
        /\ w.todo = call[p].todo
    BY <1>0, <2>2 DEF Calls
  <2> HIDE DEF w
  <2>4. CallsTyped' /\ call'[p] = w /\ \A q \in Publishers \ {p} : call'[q] = call[q]
    BY <1>0, <2>1, <2>3 DEF CallsTyped
  <2>5. Todo(p)' \subseteq DOMAIN call'[p].doc /\ ReadBack(p)'
    BY <1>0, <2>1, <2>3, <2>4 DEF RemoteIInv, RemoteTypeOK, Todo, ReadBack
  <2>6. disturbed \/ Undisturbed(p)'
    BY <1>1, <2>1, <2>3, <2>4 DEF RemoteIInv, Undisturbed, operatorVars
  <2> QED BY <1>1, <2>4, <2>5, <2>6, CallMoves
<1>7. CASE CatManifest(p) /\ ~End(p)
  <2>1. call[p] # NoCall /\ call[p].pc = "CAT" /\ published = call[p].bytes /\ Enter(p, "READBACK")
    BY <1>7 DEF CatManifest, In
  <2>2. Advanced(p, "READBACK", DOMAIN call[p].doc)
    BY <1>0, <2>1, EnterEffect
  <2>3. Todo(p)' \subseteq DOMAIN call'[p].doc /\ ReadBack(p)'
    BY <1>1, <2>1, <2>2 DEF RemoteIInv, Todo, ReadBack, Advanced
  <2>4. disturbed \/ Undisturbed(p)'
    BY <1>1, <2>1, <2>2 DEF RemoteIInv, Undisturbed, Advanced, operatorVars
  <2> QED BY <1>1, <2>2, <2>3, <2>4, CallMoves DEF Advanced
<1> QED BY <1>2, <1>3, <1>4, <1>5, <1>6, <1>7 DEF BreakOff

LEMMA CatFileKeeps ==
  ASSUME RemoteIInv, NEW p \in Publishers, CatFile(p)
  PROVE  RemoteIInv'
<1>0. CallsTyped /\ call[p] # NoCall /\ call[p].pc = "READBACK"
  BY DEF RemoteIInv, CallsTyped, CatFile, In
<1>1. UNCHANGED <<operatorVars, objects, published>>
  BY DEF CatFile
<1>2. CASE verified' = verified /\ End(p)
  BY <1>0, <1>1, <1>2, EndEffect, CallMoves
<1>3. CASE verified' = verified /\ FileDone(p) /\ SameRemote(File(p), call[p].doc[File(p)])
  <2>1. Advanced(p, "READBACK", Todo(p) \ {File(p)})
    BY <1>0, <1>3, FileDoneEffect
  <2>2. Todo(p) \subseteq DOMAIN call[p].doc
    BY <1>0 DEF RemoteIInv, RemoteTypeOK
  <2>3. Todo(p)' \subseteq DOMAIN call'[p].doc /\ ReadBack(p)'
    BY <1>0, <1>1, <1>3, <2>1, <2>2 DEF RemoteIInv, Todo, ReadBack, Advanced, SameRemote
  <2>4. disturbed \/ Undisturbed(p)'
    BY <1>0, <1>1, <2>1 DEF RemoteIInv, Undisturbed, Advanced, operatorVars
  <2> QED BY <1>1, <1>3, <2>1, <2>3, <2>4, CallMoves DEF Advanced
<1>4. CASE /\ Todo(p) = {} /\ End(p)
           /\ verified' = verified \cup {[doc |-> call[p].doc, bytes |-> call[p].bytes]}
  <2> DEFINE v == [doc |-> call[p].doc, bytes |-> call[p].bytes]
  <2>1. CallsTyped' /\ call'[p] = NoCall /\ \A q \in Publishers \ {p} : call'[q] = call[q]
    BY <1>0, <1>4, EndEffect
  <2>2. /\ v.doc = call[p].doc /\ v.bytes = call[p].bytes /\ v.bytes \in Directories
        /\ published = v.bytes /\ \A f \in DOMAIN v.doc : Holds(objects, f, v.doc[f])
        /\ ~disturbed => v.doc = v.bytes
    BY <1>0, <1>4 DEF RemoteIInv, ReadBack, Undisturbed
  <2>3. verified' = verified \cup {v}
    BY <1>4
  <2> HIDE DEF v
  <2>4. RemoteTypeOK'
    BY <1>1, <2>1 DEF RemoteIInv, RemoteTypeOK, operatorVars, Todo
  <2>5. \A q \in Publishers \ {p} : /\ ReadBack(q)' <=> ReadBack(q)
                                    /\ Undisturbed(q)' <=> Undisturbed(q)
    BY <1>1, <2>1 DEF ReadBack, Undisturbed, Todo, operatorVars
  <2>6. ReleaseExact' /\ VerifiedExact'
    BY <1>1, <2>2, <2>3 DEF RemoteIInv, ReleaseExact, VerifiedExact, operatorVars
  <2> QED BY <1>1, <2>1, <2>2, <2>3, <2>4, <2>5, <2>6 DEF RemoteIInv, operatorVars, CallsTyped
<1> QED BY <1>2, <1>3, <1>4 DEF CatFile

LEMMA CopyFileKeeps ==
  ASSUME RemoteIInv, NEW p \in Publishers, CopyFile(p)
  PROVE  RemoteIInv'
<1> DEFINE f == File(p)
<1>0. /\ CallsTyped /\ call[p] # NoCall /\ call[p].pc = "COPY"
      /\ UNCHANGED <<operatorVars, published, verified>>
  BY DEF RemoteIInv, CallsTyped, CopyFile, In
<1>1. CASE objects' = objects /\ End(p)
  BY <1>0, <1>1, EndEffect, CallMoves
<1>2. CASE f \in DOMAIN release /\ Writable(Object(f), release[f]) /\ Put(f, release[f]) /\ FileDone(p)
  <2>1. Advanced(p, "COPY", Todo(p) \ {f})
    BY <1>0, <1>2, FileDoneEffect
  <2>2. release \in Directories /\ f \in DOMAIN release /\ release[f] # NoObject
    BY <1>2, ObjectAssumption DEF RemoteIInv, RemoteTypeOK
  <2> HIDE DEF f
  <2>3. /\ \A g, b : Holds(objects, g, b) => Holds(objects', g, b)
        /\ Holds(objects', f, release[f])
        /\ \A g \in DOMAIN objects' : Holds(objects, g, objects'[g]) \/ (g = f /\ objects'[g] = release[f])
    BY <1>2, <2>2, ObjectsKept
  <2>4. RemoteTypeOK'
    <3>1. \A g \in DOMAIN objects' : \E d \in Directories : Holds(d, g, objects'[g])
      <4> TAKE g \in DOMAIN objects'
      <4>1. CASE g = f /\ objects'[g] = release[f]
        BY <2>2, <4>1 DEF Holds
      <4>2. CASE Holds(objects, g, objects'[g])
        BY <4>2 DEF Holds, RemoteIInv, RemoteTypeOK
      <4> QED BY <2>3, <4>1, <4>2
    <3> QED BY <1>0, <2>1, <3>1 DEF RemoteIInv, RemoteTypeOK, operatorVars, Todo, Advanced
  <2>5. \A q \in Publishers : call[q] # NoCall => ReadBack(q)'
    <3>1. ReadBack(p)'
      BY <2>1 DEF ReadBack, Advanced
    <3>2. \A q \in Publishers \ {p} : call[q] # NoCall => ReadBack(q)'
      BY <1>0, <2>1, <2>3 DEF RemoteIInv, ReadBack, Todo, Advanced
    <3> QED BY <3>1, <3>2
  <2>6. \A q \in Publishers : call[q] # NoCall => disturbed \/ Undisturbed(q)'
    <3>1. disturbed \/ Undisturbed(p)'
      <4> SUFFICES ASSUME ~disturbed PROVE Undisturbed(p)'
        BY DEF RemoteIInv
      <4>1. Undisturbed(p)
        BY <1>0 DEF RemoteIInv
      <4>2. f \in DOMAIN call[p].doc => Holds(objects', f, call[p].doc[f])
        BY <1>0, <2>3, <4>1 DEF Undisturbed, Holds
      <4> QED BY <1>0, <2>1, <2>3, <4>1, <4>2 DEF Undisturbed, Todo, Advanced, operatorVars
    <3>2. \A q \in Publishers \ {p} : call[q] # NoCall => disturbed \/ Undisturbed(q)'
      BY <1>0, <2>1, <2>3 DEF RemoteIInv, Undisturbed, Todo, Advanced, operatorVars
    <3> QED BY <3>1, <3>2
  <2>7. ReleaseExact' /\ VerifiedExact'
    BY <1>0, <2>3 DEF RemoteIInv, ReleaseExact, VerifiedExact, operatorVars
  <2>8. \A q \in Publishers : call'[q] # NoCall => call[q] # NoCall
    BY <1>0, <2>1 DEF Advanced
  <2> QED BY <1>0, <2>1, <2>4, <2>5, <2>6, <2>7, <2>8 DEF RemoteIInv, operatorVars, CallsTyped, Advanced
<1> QED BY <1>1, <1>2 DEF CopyFile

LEMMA CopyManifestKeeps ==
  ASSUME RemoteIInv, NEW p \in Publishers, CopyManifest(p)
  PROVE  RemoteIInv'
<1>0. /\ CallsTyped /\ call[p] # NoCall /\ call[p].pc = "COPY" /\ Todo(p) = {} /\ End(p)
      /\ published' = IF Writable(published, manifest) THEN manifest ELSE published
      /\ UNCHANGED <<operatorVars, objects, verified>>
  BY DEF RemoteIInv, CallsTyped, CopyManifest, In, PayloadFirst
<1>1. CallsTyped' /\ call'[p] = NoCall /\ \A q \in Publishers \ {p} : call'[q] = call[q]
  BY <1>0, EndEffect
<1>2. published' = published \/ (published = NoObject /\ published' = manifest)
  BY <1>0 DEF Writable
<1>3. RemoteTypeOK'
  BY <1>0, <1>1, <1>2 DEF RemoteIInv, RemoteTypeOK, operatorVars, Todo
<1>4. \A q \in Publishers \ {p} : call[q] # NoCall => ReadBack(q)'
  BY <1>0, <1>1, <1>2, ObjectAssumption DEF RemoteIInv, ReadBack, Todo
<1>5. \A q \in Publishers \ {p} : call[q] # NoCall => disturbed \/ Undisturbed(q)'
  BY <1>0, <1>1 DEF RemoteIInv, Undisturbed, Todo, operatorVars
<1>6. ReleaseExact'
  BY <1>0, <1>2 DEF RemoteIInv, ReleaseExact, Undisturbed, operatorVars
<1>7. VerifiedExact'
  BY <1>0, <1>2, ObjectAssumption DEF RemoteIInv, VerifiedExact, operatorVars
<1> QED BY <1>0, <1>1, <1>3, <1>4, <1>5, <1>6, <1>7 DEF RemoteIInv, operatorVars, CallsTyped

\* Whoever uploads, verifies, breaks off or changes files, in any number: the manifest
\* object means an approved and complete release unless a file was changed under a
\* command, and what verify-remote confirmed stays so.
THEOREM RemoteCorrect == RemoteSpec => []RemoteInv
<1>1. RemoteInit => RemoteIInv
  <2> SUFFICES ASSUME RemoteInit PROVE RemoteIInv
    OBVIOUS
  <2>1. RemoteTypeOK
    BY FrozenAssumption DEF RemoteInit, RemoteTypeOK
  <2> QED BY <2>1 DEF RemoteInit, RemoteIInv, ReleaseExact, VerifiedExact
<1>2. RemoteIInv /\ [RemoteNext]_remoteVars => RemoteIInv'
  <2>1. RemoteIInv /\ UNCHANGED remoteVars => RemoteIInv'
    BY DEF remoteVars, RemoteIInv, RemoteTypeOK, Undisturbed, ReadBack, ReleaseExact, VerifiedExact, Todo
  <2>2. RemoteIInv /\ RemoteNext => RemoteIInv'
    BY RemoteOperatorStep, RemoteReadStep, CatFileKeeps, CopyFileKeeps, CopyManifestKeeps DEF RemoteNext
  <2> QED BY <2>1, <2>2
<1>3. RemoteIInv => RemoteInv
  BY DEF RemoteIInv, RemoteInv
<1> QED BY <1>1, <1>2, <1>3, PTL DEF RemoteSpec

(***************************************************************************)
(* AtlasGeneration                                                         *)
(***************************************************************************)

Whole(g) == \A f \in AtlasFiles : atlas[<<g, f>>] = "WHOLE"

\* All that CURRENT.json promises of a generation, unless it was opened again.
Published(g) ==
  \/ g \in retouched
  \/ /\ Whole(g) /\ SourceCommit[g] \in 1..LastMain
     /\ atlasReceipts[<<g, SourceCommit[g]>>] = "WHOLE"

\* What a call has done or found when it is past its files, and past its receipt.
CallKnows(p) ==
  /\ publication[p].pc \in {"LOAD", "OPEN", "FILL"} =>
       \/ Bundle(p) \in retouched
       \/ \A f \in AtlasFiles \ publication[p].todo : atlas[<<Bundle(p), f>>] = "WHOLE"
  /\ publication[p].pc \in {"COMPARE", "RECEIPT", "FILL_RECEIPT"} => Bundle(p) \in retouched \/ Whole(Bundle(p))
  /\ publication[p].pc \in {"PENDING", "FILL_PENDING", "REPLACE"} => Published(Bundle(p))
  /\ publication[p].pc \in {"RECHECK", "TARGET", "MKDIR"} => publication[p].todo = AtlasFiles

\* As long as no two calls met, the temporary file is its one user's.
PendingIsOwn ==
  ~metPending =>
    /\ \A p, q \in Atlases : UsesPending(p) /\ UsesPending(q) => p = q
    /\ \A p \in Atlases : /\ AtPublication(p, "FILL_PENDING") => publication[p].writes = "PENDING"
                          /\ AtPublication(p, "REPLACE") => pendingFile \in Generations

AtlasTypeOK ==
  /\ main \in 1..LastMain
  /\ atlas \in [Generations \X AtlasFiles -> {"ABSENT", "TORN", "WHOLE"}]
  /\ atlasReceipts \in [Generations \X (1..LastMain) -> {"ABSENT", "TORN", "WHOLE"}]
  /\ current \in Generations \cup {NoPointer, TornPointer}
  /\ pendingFile \in Generations \cup {NoPointer, TornPointer}
  /\ publication \in [Atlases -> PublicationCalls \cup {NoPublication}]
  /\ retouched \subseteq Generations
  /\ metPending \in BOOLEAN

AtlasIInv ==
  /\ AtlasTypeOK
  /\ current \in Generations => Published(current)
  /\ pendingFile \in Generations => Published(pendingFile)
  /\ \A p \in Atlases : publication[p] # NoPublication => CallKnows(p)
  /\ PendingIsOwn
  /\ PointerReadable

\* Nothing that was whole is opened again without the generation being retouched.
FilesKept ==
  /\ retouched \subseteq retouched'
  /\ \A g \in Generations \ retouched' :
       /\ \A f \in AtlasFiles : atlas[<<g, f>>] = "WHOLE" => atlas'[<<g, f>>] = "WHOLE"
       /\ \A c \in 1..LastMain : atlasReceipts[<<g, c>>] = "WHOLE" => atlasReceipts'[<<g, c>>] = "WHOLE"

LEMMA PublishedStays ==
  ASSUME FilesKept, NEW g \in Generations
  PROVE  /\ Published(g) => Published(g)'
         /\ g \in retouched \/ Whole(g) => g \in retouched' \/ Whole(g)'
BY DEF FilesKept, Published, Whole

PublicationsTyped == publication \in [Atlases -> PublicationCalls \cup {NoPublication}]

LEMMA PublicationParts ==
  ASSUME PublicationsTyped, NEW p \in Atlases, publication[p] # NoPublication
  PROVE  /\ publication[p] \in PublicationCalls /\ Bundle(p) \in Generations
         /\ publication[p].pre \in 1..LastMain /\ publication[p].rechecked \in 1..LastMain
         /\ publication[p].todo \subseteq AtlasFiles
BY DEF PublicationsTyped, PublicationCalls, Bundle

\* A call goes on with other values of pc, todo, rechecked and writes.
LEMMA PublicationMoves ==
  ASSUME PublicationsTyped, NEW p \in Atlases, publication[p] # NoPublication,
         NEW w, w \in PublicationCalls, publication' = [publication EXCEPT ![p] = w]
  PROVE  /\ PublicationsTyped' /\ publication'[p] = w /\ publication'[p] # NoPublication
         /\ \A q \in Atlases \ {p} : publication'[q] = publication[q]
BY AtlasAssumption DEF PublicationsTyped

PublicationSteps ==
  {"RECHECK", "TARGET", "LOAD", "MKDIR", "OPEN", "FILL", "COMPARE", "RECEIPT",
   "FILL_RECEIPT", "PENDING", "FILL_PENDING", "REPLACE"}

LEMMA GoToEffect ==
  ASSUME PublicationsTyped, NEW p \in Atlases, publication[p] # NoPublication,
         NEW pc \in PublicationSteps, GoTo(p, pc)
  PROVE  /\ PublicationsTyped' /\ publication'[p] # NoPublication /\ publication'[p].pc = pc
         /\ Bundle(p)' = Bundle(p) /\ publication'[p].todo = publication[p].todo
         /\ publication'[p].writes = publication[p].writes
         /\ \A q \in Atlases \ {p} : publication'[q] = publication[q]
<1> DEFINE w == [publication[p] EXCEPT !.pc = pc]
<1>1. publication[p] \in PublicationCalls
  BY PublicationParts
<1>2. /\ w \in PublicationCalls /\ w.pc = pc /\ w.bundle = publication[p].bundle
      /\ w.todo = publication[p].todo /\ w.writes = publication[p].writes
  BY <1>1 DEF PublicationCalls, PublicationSteps
<1>3. publication' = [publication EXCEPT ![p] = w]
  BY DEF GoTo
<1> HIDE DEF w
<1> QED BY <1>2, <1>3, PublicationMoves DEF Bundle

LEMMA FilesDoneEffect ==
  ASSUME PublicationsTyped, NEW p \in Atlases, publication[p] # NoPublication,
         NEW pc \in PublicationSteps, NEW rest, rest \subseteq AtlasFiles,
         publication' = [publication EXCEPT ![p].todo = rest, ![p].pc = pc]
  PROVE  /\ PublicationsTyped' /\ publication'[p] # NoPublication /\ publication'[p].pc = pc
         /\ Bundle(p)' = Bundle(p) /\ publication'[p].todo = rest
         /\ \A q \in Atlases \ {p} : publication'[q] = publication[q]
<1> DEFINE w == [publication[p] EXCEPT !.todo = rest, !.pc = pc]
<1>1. publication[p] \in PublicationCalls
  BY PublicationParts
<1>2. w \in PublicationCalls /\ w.pc = pc /\ w.bundle = publication[p].bundle /\ w.todo = rest
  BY <1>1 DEF PublicationCalls, PublicationSteps
<1>3. publication' = [publication EXCEPT ![p] = w]
  OBVIOUS
<1> HIDE DEF w
<1> QED BY <1>2, <1>3, PublicationMoves DEF Bundle

LEMMA EndPublicationEffect ==
  ASSUME PublicationsTyped, NEW p \in Atlases, EndPublication(p)
  PROVE  /\ PublicationsTyped' /\ publication'[p] = NoPublication
         /\ \A q \in Atlases \ {p} : publication'[q] = publication[q]
BY DEF PublicationsTyped, EndPublication

\* What other calls know stays true.
LEMMA OthersKnow ==
  ASSUME AtlasIInv, FilesKept, NEW q \in Atlases, publication[q] # NoPublication,
         publication'[q].pc = publication[q].pc, Bundle(q)' = Bundle(q),
         publication'[q].todo = publication[q].todo
  PROVE  CallKnows(q)'
<1>1. Bundle(q) \in Generations
  BY PublicationParts DEF AtlasIInv, AtlasTypeOK, PublicationsTyped
<1>2. CallKnows(q)
  BY DEF AtlasIInv
<1>3. PICK g \in Generations : Bundle(q) = g /\ Bundle(q)' = g
  BY <1>1
<1>4. /\ Published(g) => Published(g)'
      /\ g \in retouched \/ Whole(g) => g \in retouched' \/ Whole(g)'
  BY <1>3, PublishedStays
<1>5. ASSUME NEW F, \A f \in F : f \in AtlasFiles /\ atlas[<<g, f>>] = "WHOLE", g \notin retouched'
      PROVE  \A f \in F : atlas'[<<g, f>>] = "WHOLE"
  BY <1>3, <1>5 DEF FilesKept
<1> QED BY <1>2, <1>3, <1>4, <1>5 DEF CallKnows, FilesKept

\* A step of p that leaves CURRENT.json and its temporary file alone.
LEMMA QuietPublicationStep ==
  ASSUME AtlasIInv, NEW p \in Atlases, AtlasTypeOK', FilesKept,
         UNCHANGED <<current, pendingFile, metPending>>,
         \A q \in Atlases \ {p} : publication'[q] = publication[q],
         publication'[p] # NoPublication =>
           publication'[p].pc \notin {"FILL_PENDING", "REPLACE"} /\ CallKnows(p)'
  PROVE  AtlasIInv'
<1>1. /\ (current \in Generations => Published(current))'
      /\ (pendingFile \in Generations => Published(pendingFile))'
  <2>1. \A g \in Generations : Published(g) => Published(g)'
    BY PublishedStays
  <2> QED BY <2>1 DEF AtlasIInv
<1>2. \A q \in Atlases \ {p} : publication'[q] # NoPublication => CallKnows(q)'
  BY OthersKnow DEF Bundle
<1>3. \A q \in Atlases : UsesPending(q)' => q # p /\ UsesPending(q) /\ publication'[q] = publication[q]
  BY DEF UsesPending, AtPublication
<1>4. PendingIsOwn'
  BY <1>3 DEF AtlasIInv, PendingIsOwn, AtPublication, UsesPending
<1> QED BY <1>1, <1>2, <1>4 DEF AtlasIInv, PointerReadable

\* The steps that touch no file.
LEMMA AtlasCallerStep ==
  ASSUME AtlasIInv, NEW p \in Atlases,
         \/ \E g \in Generations : PrePublish(p, g)
         \/ Recheck(p) \/ CheckTarget(p) \/ LoadFile(p) \/ MakeDirectory(p)
         \/ ComparePre(p) \/ StopPublication(p)
  PROVE  AtlasIInv'
<1>0. PublicationsTyped /\ main \in 1..LastMain
  BY DEF AtlasIInv, AtlasTypeOK, PublicationsTyped
<1>1. UNCHANGED <<main, atlas, atlasReceipts, current, pendingFile, retouched, metPending>>
  BY DEF PrePublish, Recheck, CheckTarget, LoadFile, MakeDirectory, ComparePre, StopPublication,
    atlasFileVars
<1>2. FilesKept
  BY <1>1 DEF FilesKept
<1>3. PublicationsTyped' => AtlasTypeOK'
  BY <1>1 DEF AtlasIInv, AtlasTypeOK, PublicationsTyped
<1>4. CASE EndPublication(p)
  BY <1>0, <1>1, <1>2, <1>3, <1>4, EndPublicationEffect, QuietPublicationStep
<1>5. CASE \E g \in Generations : PrePublish(p, g)
  <2>1. PICK g \in Generations : PrePublish(p, g)
    BY <1>5
  <2> DEFINE w == [bundle |-> g, pre |-> main, rechecked |-> main, pc |-> "RECHECK",
                   todo |-> AtlasFiles, writes |-> "PENDING"]
  <2>2. w \in PublicationCalls /\ w.pc = "RECHECK" /\ w.todo = AtlasFiles
    BY <1>0 DEF PublicationCalls
  <2>3. publication' = [publication EXCEPT ![p] = w]
    BY <2>1 DEF PrePublish
  <2> HIDE DEF w
  <2>4. PublicationsTyped' /\ publication'[p] = w /\ \A q \in Atlases \ {p} : publication'[q] = publication[q]
    BY <1>0, <2>2, <2>3 DEF PublicationsTyped
  <2>5. CallKnows(p)'
    BY <2>2, <2>4 DEF CallKnows
  <2> QED BY <1>1, <1>2, <1>3, <2>2, <2>4, <2>5, QuietPublicationStep
<1>6. CASE Recheck(p)
  <2> DEFINE w == [publication[p] EXCEPT !.rechecked = main, !.pc = "TARGET"]
  <2>1. publication[p] # NoPublication /\ publication[p].pc = "RECHECK"
        /\ publication' = [publication EXCEPT ![p] = w]
    BY <1>6 DEF Recheck, AtPublication
  <2>2. publication[p] \in PublicationCalls
    BY <1>0, <2>1, PublicationParts
  <2>3. w \in PublicationCalls /\ w.pc = "TARGET" /\ w.todo = publication[p].todo
    BY <1>0, <2>2 DEF PublicationCalls
  <2> HIDE DEF w
  <2>4. PublicationsTyped' /\ publication'[p] = w /\ \A q \in Atlases \ {p} : publication'[q] = publication[q]
    BY <1>0, <2>1, <2>3, PublicationMoves
  <2>5. CallKnows(p)'
    BY <2>1, <2>3, <2>4 DEF AtlasIInv, CallKnows
  <2> QED BY <1>1, <1>2, <1>3, <2>3, <2>4, <2>5, QuietPublicationStep
<1>7. CASE CheckTarget(p) \/ MakeDirectory(p)
  <2>1. PICK pc \in {"LOAD", "MKDIR", "OPEN"} : GoTo(p, pc)
    BY <1>7 DEF CheckTarget, MakeDirectory
  <2>2. publication[p] # NoPublication /\ publication[p].pc \in {"TARGET", "MKDIR"}
    BY <1>7 DEF CheckTarget, MakeDirectory, AtPublication
  <2>3. /\ PublicationsTyped' /\ publication'[p] # NoPublication /\ publication'[p].pc = pc
        /\ publication'[p].todo = publication[p].todo
        /\ \A q \in Atlases \ {p} : publication'[q] = publication[q]
    BY <1>0, <2>1, <2>2, GoToEffect DEF PublicationSteps
  <2>4. publication[p].todo = AtlasFiles
    BY <2>2 DEF AtlasIInv, CallKnows
  <2>5. CallKnows(p)'
    BY <2>1, <2>3, <2>4 DEF CallKnows
  <2> QED BY <1>1, <1>2, <1>3, <2>1, <2>3, <2>5, QuietPublicationStep
<1>8. CASE LoadFile(p) /\ ~EndPublication(p)
  <2> DEFINE rest == publication[p].todo \ {NextFile(p)[2]}
             pc == IF rest = {} THEN "COMPARE" ELSE "LOAD"
  <2>1. publication[p] # NoPublication /\ publication[p].pc = "LOAD" /\ atlas[NextFile(p)] = "WHOLE"
        /\ publication' = [publication EXCEPT ![p].todo = rest, ![p].pc = pc]
    BY <1>8 DEF LoadFile, AtPublication
  <2>2. rest \subseteq AtlasFiles /\ Bundle(p) \in Generations
    BY <1>0, <2>1, PublicationParts
  <2>3. pc \in PublicationSteps /\ (pc = "COMPARE" => rest = {}) /\ pc \in {"COMPARE", "LOAD"}
    BY DEF PublicationSteps
  <2>4. \/ Bundle(p) \in retouched
        \/ \A f \in AtlasFiles \ rest : atlas[<<Bundle(p), f>>] = "WHOLE"
    BY <2>1 DEF AtlasIInv, CallKnows, NextFile
  <2> HIDE DEF rest, pc
  <2>5. /\ PublicationsTyped' /\ publication'[p] # NoPublication /\ publication'[p].pc = pc
        /\ Bundle(p)' = Bundle(p) /\ publication'[p].todo = rest
        /\ \A q \in Atlases \ {p} : publication'[q] = publication[q]
    BY <1>0, <2>1, <2>2, <2>3, FilesDoneEffect
  <2>6. CallKnows(p)'
    BY <1>1, <2>3, <2>4, <2>5 DEF CallKnows, Whole
  <2> QED BY <1>1, <1>2, <1>3, <2>3, <2>5, <2>6, QuietPublicationStep
<1>9. CASE ComparePre(p) /\ ~EndPublication(p)
  <2>1. publication[p] # NoPublication /\ publication[p].pc = "COMPARE" /\ GoTo(p, "RECEIPT")
    BY <1>9 DEF ComparePre, AtPublication
  <2>2. /\ PublicationsTyped' /\ publication'[p] # NoPublication /\ publication'[p].pc = "RECEIPT"
        /\ Bundle(p)' = Bundle(p)
        /\ \A q \in Atlases \ {p} : publication'[q] = publication[q]
    BY <1>0, <2>1, GoToEffect DEF PublicationSteps
  <2>3. CallKnows(p)'
    BY <1>1, <2>1, <2>2 DEF AtlasIInv, CallKnows, Whole
  <2> QED BY <1>1, <1>2, <1>3, <2>2, <2>3, QuietPublicationStep
<1> QED BY <1>4, <1>5, <1>6, <1>7, <1>8, <1>9 DEF StopPublication

\* The steps on the files of a generation and on its receipt.
LEMMA AtlasFileStep ==
  ASSUME AtlasIInv, NEW p \in Atlases,
         \/ OpenGenerationFile(p) \/ FillGenerationFile(p) \/ OpenReceipt(p) \/ FillReceipt(p)
  PROVE  AtlasIInv'
<1>0. PublicationsTyped /\ publication[p] # NoPublication
  BY DEF AtlasIInv, AtlasTypeOK, PublicationsTyped, OpenGenerationFile, FillGenerationFile,
    OpenReceipt, FillReceipt, AtPublication
<1>1. PICK g \in Generations : g = Bundle(p)
  BY <1>0, PublicationParts
<1>2. UNCHANGED <<main, current, pendingFile, metPending>>
  BY DEF OpenGenerationFile, FillGenerationFile, OpenReceipt, FillReceipt
<1>3. CallKnows(p) /\ publication[p].rechecked \in 1..LastMain /\ publication[p].todo \subseteq AtlasFiles
  BY <1>0, PublicationParts DEF AtlasIInv
<1>4. CASE OpenGenerationFile(p)
  <2>1. PICK f : f = Min(publication[p].todo)
    OBVIOUS
  <2>2. /\ atlas' = [atlas EXCEPT ![<<g, f>>] = "TORN"] /\ atlasReceipts' = atlasReceipts
        /\ retouched' = retouched \cup IF atlas[<<g, f>>] = "WHOLE" THEN {g} ELSE {}
        /\ GoTo(p, "FILL") /\ publication[p].pc = "OPEN"
    BY <1>1, <1>4, <2>1 DEF OpenGenerationFile, NextFile, Reopened, AtPublication
  <2>3. /\ PublicationsTyped' /\ publication'[p] # NoPublication /\ publication'[p].pc = "FILL"
        /\ Bundle(p)' = Bundle(p) /\ publication'[p].todo = publication[p].todo
        /\ \A q \in Atlases \ {p} : publication'[q] = publication[q]
    BY <1>0, <2>2, GoToEffect DEF PublicationSteps
  <2>4. AtlasTypeOK'
    BY <1>1, <1>2, <2>2, <2>3 DEF AtlasIInv, AtlasTypeOK, PublicationsTyped
  <2>5. FilesKept
    BY <1>1, <2>2 DEF FilesKept, AtlasIInv, AtlasTypeOK
  <2>6. CallKnows(p)'
    BY <1>1, <1>3, <2>2, <2>3, <2>5 DEF CallKnows, FilesKept
  <2> QED BY <1>2, <2>3, <2>4, <2>5, <2>6, QuietPublicationStep
<1>5. CASE FillGenerationFile(p)
  <2>1. PICK f : f = Min(publication[p].todo)
    OBVIOUS
  <2> DEFINE rest == publication[p].todo \ {f}
             pc == IF rest = {} THEN "COMPARE" ELSE "OPEN"
  <2>2. /\ atlas' = [atlas EXCEPT ![<<g, f>>] = "WHOLE"] /\ UNCHANGED <<atlasReceipts, retouched>>
        /\ publication' = [publication EXCEPT ![p].todo = rest, ![p].pc = pc]
        /\ publication[p].pc = "FILL"
    BY <1>1, <1>5, <2>1 DEF FillGenerationFile, NextFile, AtPublication
  <2>3. pc \in PublicationSteps /\ (pc = "COMPARE" => rest = {}) /\ pc \in {"COMPARE", "OPEN"}
    BY DEF PublicationSteps
  <2>4. rest \subseteq AtlasFiles
    BY <1>3
  <2>5. \A h \in AtlasFiles \ rest : h \in AtlasFiles \ publication[p].todo \/ h = f
    OBVIOUS
  <2> HIDE DEF rest, pc
  <2>6. /\ PublicationsTyped' /\ publication'[p] # NoPublication /\ publication'[p].pc = pc
        /\ Bundle(p)' = Bundle(p) /\ publication'[p].todo = rest
        /\ \A q \in Atlases \ {p} : publication'[q] = publication[q]
    BY <1>0, <2>2, <2>3, <2>4, FilesDoneEffect
  <2>7. AtlasTypeOK'
    BY <1>1, <1>2, <2>2, <2>6 DEF AtlasIInv, AtlasTypeOK, PublicationsTyped
  <2>8. FilesKept
    BY <1>1, <2>2 DEF FilesKept, AtlasIInv, AtlasTypeOK
  <2>9. \/ g \in retouched
        \/ \A h \in AtlasFiles \ rest : atlas'[<<g, h>>] = "WHOLE"
    BY <1>1, <1>3, <2>2, <2>5 DEF CallKnows, AtlasIInv, AtlasTypeOK
  <2>10. CallKnows(p)'
    BY <1>1, <2>2, <2>3, <2>6, <2>9 DEF CallKnows, Whole
  <2> QED BY <1>2, <2>3, <2>6, <2>7, <2>8, <2>10, QuietPublicationStep
<1>6. CASE OpenReceipt(p)
  <2>1. PICK c \in 1..LastMain : c = publication[p].rechecked
    BY <1>3
  <2>2. /\ atlasReceipts' = [atlasReceipts EXCEPT ![<<g, c>>] = "TORN"] /\ atlas' = atlas
        /\ retouched' = retouched \cup IF atlasReceipts[<<g, c>>] = "WHOLE" THEN {g} ELSE {}
        /\ GoTo(p, "FILL_RECEIPT") /\ publication[p].pc = "RECEIPT"
    BY <1>1, <1>6, <2>1 DEF OpenReceipt, ReceiptOf, Reopened, AtPublication
  <2>3. /\ PublicationsTyped' /\ publication'[p] # NoPublication /\ publication'[p].pc = "FILL_RECEIPT"
        /\ Bundle(p)' = Bundle(p)
        /\ \A q \in Atlases \ {p} : publication'[q] = publication[q]
    BY <1>0, <2>2, GoToEffect DEF PublicationSteps
  <2>4. AtlasTypeOK'
    BY <1>1, <1>2, <2>1, <2>2, <2>3 DEF AtlasIInv, AtlasTypeOK, PublicationsTyped
  <2>5. FilesKept
    BY <1>1, <2>1, <2>2 DEF FilesKept, AtlasIInv, AtlasTypeOK
  <2>6. CallKnows(p)'
    BY <1>1, <1>3, <2>2, <2>3 DEF CallKnows, Whole
  <2> QED BY <1>2, <2>3, <2>4, <2>5, <2>6, QuietPublicationStep
<1>7. CASE FillReceipt(p)
  <2>1. PICK c \in 1..LastMain : c = publication[p].rechecked
    BY <1>3
  <2>2. /\ atlasReceipts' = [atlasReceipts EXCEPT ![<<g, c>>] = "WHOLE"] /\ UNCHANGED <<atlas, retouched>>
        /\ publication[p].pc = "FILL_RECEIPT"
        /\ IF c = SourceCommit[g] THEN GoTo(p, "PENDING") ELSE EndPublication(p)
    BY <1>1, <1>7, <2>1 DEF FillReceipt, ReceiptOf, AtPublication, StillCurrent
  <2>3. FilesKept
    BY <1>1, <2>1, <2>2 DEF FilesKept, AtlasIInv, AtlasTypeOK
  <2>4. PublicationsTyped' => AtlasTypeOK'
    BY <1>1, <1>2, <2>1, <2>2 DEF AtlasIInv, AtlasTypeOK, PublicationsTyped
  <2>5. CASE EndPublication(p)
    BY <1>0, <1>2, <2>3, <2>4, <2>5, EndPublicationEffect, QuietPublicationStep
  <2>6. CASE c = SourceCommit[g] /\ GoTo(p, "PENDING")
    <3>1. /\ PublicationsTyped' /\ publication'[p] # NoPublication /\ publication'[p].pc = "PENDING"
          /\ Bundle(p)' = Bundle(p)
          /\ \A q \in Atlases \ {p} : publication'[q] = publication[q]
      BY <1>0, <2>6, GoToEffect DEF PublicationSteps
    <3>2. Published(g)'
      BY <1>1, <1>3, <2>1, <2>2, <2>6 DEF CallKnows, Whole, Published, AtlasIInv, AtlasTypeOK
    <3>3. CallKnows(p)'
      BY <1>1, <3>1, <3>2 DEF CallKnows
    <3> QED BY <1>2, <2>3, <2>4, <3>1, <3>3, QuietPublicationStep
  <2> QED BY <2>2, <2>5, <2>6
<1> QED BY <1>4, <1>5, <1>6, <1>7

LEMMA OpenPendingKeeps ==
  ASSUME AtlasIInv, NEW p \in Atlases, OpenPending(p)
  PROVE  AtlasIInv'
<1> DEFINE w == [publication[p] EXCEPT !.pc = "FILL_PENDING", !.writes = "PENDING"]
<1>1. /\ publication[p] # NoPublication /\ publication[p].pc = "PENDING" /\ pendingFile' = TornPointer
      /\ publication' = [publication EXCEPT ![p] = w]
      /\ metPending' = (metPending \/ \E q \in Atlases : UsesPending(q))
      /\ UNCHANGED <<main, atlas, atlasReceipts, current, retouched>>
  BY DEF OpenPending, AtPublication
<1>2. PublicationsTyped
  BY DEF AtlasIInv, AtlasTypeOK, PublicationsTyped
<1>3. publication[p] \in PublicationCalls
  BY <1>1, <1>2, PublicationParts
<1>4. /\ w \in PublicationCalls /\ w.pc = "FILL_PENDING" /\ w.writes = "PENDING"
      /\ w.bundle = publication[p].bundle
  BY <1>3 DEF PublicationCalls
<1> HIDE DEF w
<1>5. /\ PublicationsTyped' /\ publication'[p] = w
      /\ \A q \in Atlases \ {p} : publication'[q] = publication[q]
  BY <1>1, <1>2, <1>4, PublicationMoves
<1>6. metPending' \in BOOLEAN /\ (metPending => metPending')
      /\ (~metPending' => \A q \in Atlases : ~UsesPending(q))
  BY <1>1
<1>7. FilesKept
  BY <1>1 DEF FilesKept
<1>8. AtlasTypeOK'
  BY <1>1, <1>5, <1>6 DEF AtlasIInv, AtlasTypeOK, PublicationsTyped
<1>9. (current \in Generations => Published(current))'
  BY <1>1 DEF AtlasIInv, Published, Whole
<1>10. \A q \in Atlases : publication'[q] # NoPublication => CallKnows(q)'
  <2>1. CallKnows(p)'
    BY <1>1, <1>4, <1>5 DEF AtlasIInv, CallKnows, Bundle, Published, Whole
  <2>2. \A q \in Atlases \ {p} : publication'[q] # NoPublication => CallKnows(q)'
    BY <1>5, <1>7, OthersKnow DEF Bundle
  <2> QED BY <2>1, <2>2
<1>11. PendingIsOwn'
  BY <1>4, <1>5, <1>6 DEF PendingIsOwn, UsesPending, AtPublication
<1>12. PointerReadable'
  BY <1>1, <1>6 DEF AtlasIInv, PointerReadable
<1> QED BY <1>1, <1>8, <1>9, <1>10, <1>11, <1>12, AtlasAssumption DEF AtlasIInv

LEMMA FillPendingKeeps ==
  ASSUME AtlasIInv, NEW p \in Atlases, FillPending(p)
  PROVE  AtlasIInv'
<1>1. /\ publication[p] # NoPublication /\ publication[p].pc = "FILL_PENDING" /\ GoTo(p, "REPLACE")
      /\ UNCHANGED <<main, atlas, atlasReceipts, retouched, metPending>>
  BY DEF FillPending, AtPublication
<1>2. PublicationsTyped
  BY DEF AtlasIInv, AtlasTypeOK, PublicationsTyped
<1>3. PICK g \in Generations : g = Bundle(p) /\ Published(g)
  BY <1>1, <1>2, PublicationParts DEF AtlasIInv, CallKnows
<1>4. /\ pendingFile' = IF publication[p].writes = "PENDING" THEN g ELSE pendingFile
      /\ current' = IF publication[p].writes = "CURRENT" THEN g ELSE current
  BY <1>3 DEF FillPending
<1>5. /\ PublicationsTyped' /\ publication'[p] # NoPublication /\ publication'[p].pc = "REPLACE"
      /\ Bundle(p)' = Bundle(p)
      /\ \A q \in Atlases \ {p} : publication'[q] = publication[q]
  BY <1>1, <1>2, GoToEffect DEF PublicationSteps
<1>6. FilesKept
  BY <1>1 DEF FilesKept
<1>7. \A h \in Generations : Published(h) => Published(h)'
  BY <1>6, PublishedStays
<1>8. AtlasTypeOK'
  BY <1>1, <1>4, <1>5 DEF AtlasIInv, AtlasTypeOK, PublicationsTyped
<1>9. /\ (current \in Generations => Published(current))'
      /\ (pendingFile \in Generations => Published(pendingFile))'
  BY <1>3, <1>4, <1>7 DEF AtlasIInv
<1>10. \A q \in Atlases : publication'[q] # NoPublication => CallKnows(q)'
  <2>1. CallKnows(p)'
    BY <1>3, <1>5, <1>7 DEF CallKnows
  <2>2. \A q \in Atlases \ {p} : publication'[q] # NoPublication => CallKnows(q)'
    BY <1>5, <1>6, OthersKnow DEF Bundle
  <2> QED BY <2>1, <2>2
<1>11. PendingIsOwn'
  BY <1>1, <1>4, <1>5 DEF AtlasIInv, PendingIsOwn, UsesPending, AtPublication
<1>12. PointerReadable'
  BY <1>1, <1>3, <1>4, AtlasAssumption DEF AtlasIInv, PointerReadable
<1> QED BY <1>8, <1>9, <1>10, <1>11, <1>12 DEF AtlasIInv

LEMMA ReplacePointerKeeps ==
  ASSUME AtlasIInv, NEW p \in Atlases, ReplacePointer(p)
  PROVE  AtlasIInv'
<1>1. /\ publication[p] # NoPublication /\ publication[p].pc = "REPLACE"
      /\ UNCHANGED <<main, atlas, atlasReceipts, retouched, metPending>>
  BY DEF ReplacePointer, AtPublication
<1>2. PublicationsTyped
  BY DEF AtlasIInv, AtlasTypeOK, PublicationsTyped
<1>3. FilesKept
  BY <1>1 DEF FilesKept
<1>4. CASE pendingFile = NoPointer
  <2>1. EndPublication(p) /\ UNCHANGED <<current, pendingFile>>
    BY <1>4 DEF ReplacePointer
  <2>2. /\ PublicationsTyped' /\ publication'[p] = NoPublication
        /\ \A q \in Atlases \ {p} : publication'[q] = publication[q]
    BY <1>2, <2>1, EndPublicationEffect
  <2>3. AtlasTypeOK'
    BY <1>1, <2>1, <2>2 DEF AtlasIInv, AtlasTypeOK, PublicationsTyped
  <2> QED BY <1>1, <1>3, <2>1, <2>2, <2>3, QuietPublicationStep
<1>5. CASE pendingFile # NoPointer
  <2>1. /\ current' = pendingFile /\ pendingFile' = NoPointer
        /\ publication' = [q \in Atlases |->
               CASE q = p -> NoPublication
                 [] q # p /\ UsesPending(q) ->
                      [publication[q] EXCEPT !.writes = Renamed(publication[q].writes)]
                 [] OTHER -> publication[q]]
    BY <1>5 DEF ReplacePointer
  <2>2. publication'[p] = NoPublication
    BY <2>1
  <2>3. ASSUME NEW q \in Atlases \ {p}
        PROVE  /\ publication'[q] \in PublicationCalls \cup {NoPublication}
               /\ publication'[q] # NoPublication <=> publication[q] # NoPublication
               /\ ~UsesPending(q) => publication'[q] = publication[q]
               /\ publication'[q] # NoPublication =>
                    /\ publication'[q].pc = publication[q].pc /\ Bundle(q)' = Bundle(q)
                    /\ publication'[q].todo = publication[q].todo
    <3>1. CASE ~UsesPending(q)
      <4>1. publication'[q] = publication[q]
        BY <2>1, <3>1
      <4> QED BY <1>2, <4>1 DEF Bundle, PublicationsTyped
    <3>2. CASE UsesPending(q)
      <4> DEFINE w == [publication[q] EXCEPT !.writes = Renamed(publication[q].writes)]
      <4>1. publication'[q] = w /\ publication[q] # NoPublication
        BY <2>1, <3>2 DEF UsesPending, AtPublication
      <4>2. publication[q] \in PublicationCalls
        BY <1>2, <4>1, PublicationParts
      <4>3. /\ w \in PublicationCalls /\ w.pc = publication[q].pc /\ w.bundle = publication[q].bundle
            /\ w.todo = publication[q].todo
        BY <4>2 DEF PublicationCalls, Renamed
      <4> HIDE DEF w
      <4> QED BY <3>2, <4>1, <4>3, AtlasAssumption DEF Bundle
    <3> QED BY <3>1, <3>2
  <2>4. PublicationsTyped'
    <3>1. DOMAIN publication' = Atlases /\ publication' = [q \in Atlases |-> publication'[q]]
      BY <2>1
    <3>2. \A q \in Atlases : publication'[q] \in PublicationCalls \cup {NoPublication}
      BY <2>2, <2>3
    <3> QED BY <3>1, <3>2 DEF PublicationsTyped
  <2>5. AtlasTypeOK'
    BY <1>1, <2>1, <2>4 DEF AtlasIInv, AtlasTypeOK, PublicationsTyped
  <2>6. /\ (current \in Generations => Published(current))'
        /\ (pendingFile \in Generations => Published(pendingFile))'
    <3>1. \A h \in Generations : Published(h) => Published(h)'
      BY <1>3, PublishedStays
    <3> QED BY <2>1, <3>1, AtlasAssumption DEF AtlasIInv
  <2>7. \A q \in Atlases : publication'[q] # NoPublication => CallKnows(q)'
    BY <1>3, <2>2, <2>3, OthersKnow
  <2>8. UsesPending(p) /\ \A q \in Atlases : UsesPending(q)' <=> q # p /\ UsesPending(q)
    BY <1>1, <2>2, <2>3 DEF UsesPending, AtPublication
  <2>9. PendingIsOwn'
    <3> SUFFICES ASSUME ~metPending PROVE \A q \in Atlases : ~UsesPending(q)'
      BY <1>1 DEF PendingIsOwn, UsesPending
    <3> QED BY <2>8 DEF AtlasIInv, PendingIsOwn
  <2>10. PointerReadable'
    BY <1>1, <2>1, AtlasAssumption DEF AtlasIInv, PendingIsOwn, AtPublication, PointerReadable
  <2> QED BY <2>5, <2>6, <2>7, <2>9, <2>10 DEF AtlasIInv
<1> QED BY <1>4, <1>5

LEMMA MoveMainKeeps ==
  ASSUME AtlasIInv, MoveMain
  PROVE  AtlasIInv'
<1>1. main' \in 1..LastMain
  BY AtlasAssumption DEF AtlasIInv, AtlasTypeOK, MoveMain
<1>2. UNCHANGED <<atlas, atlasReceipts, current, pendingFile, publication, retouched, metPending>>
  BY DEF MoveMain, atlasFileVars
<1> QED BY <1>1, <1>2 DEF AtlasIInv, AtlasTypeOK, Published, Whole, CallKnows, Bundle, PendingIsOwn,
  UsesPending, AtPublication, PointerReadable

\* However many calls publish, meet and stop: the generation that CURRENT.json names is
\* complete and has the receipt of a call that found main at its commit twice, unless
\* one of its finished files was opened again, and CURRENT.json can be read unless two
\* calls had the temporary file in use.
THEOREM AtlasCorrect == AtlasSpec => []AtlasInv
<1>1. AtlasInit => AtlasIInv
  <2> SUFFICES ASSUME AtlasInit PROVE AtlasIInv
    OBVIOUS
  <2>1. AtlasTypeOK
    <3>1. main \in 1..LastMain
      BY AtlasAssumption DEF AtlasInit
    <3>4. metPending \in BOOLEAN
      BY DEF AtlasInit
    <3>2. /\ atlas \in [Generations \X AtlasFiles -> {"ABSENT", "TORN", "WHOLE"}]
          /\ atlasReceipts \in [Generations \X (1..LastMain) -> {"ABSENT", "TORN", "WHOLE"}]
      BY DEF AtlasInit
    <3>3. /\ current \in Generations \cup {NoPointer, TornPointer}
          /\ pendingFile \in Generations \cup {NoPointer, TornPointer}
          /\ publication \in [Atlases -> PublicationCalls \cup {NoPublication}]
          /\ retouched \subseteq Generations
      BY DEF AtlasInit
    <3> QED BY <3>1, <3>2, <3>3, <3>4 DEF AtlasTypeOK
  <2>2. \A p \in Atlases : publication[p] = NoPublication
    BY DEF AtlasInit
  <2>3. PendingIsOwn /\ PointerReadable
    BY <2>2, AtlasAssumption DEF AtlasInit, PendingIsOwn, UsesPending, AtPublication, PointerReadable
  <2> QED BY <2>1, <2>2, <2>3, AtlasAssumption DEF AtlasInit, AtlasIInv
<1>2. AtlasIInv /\ [AtlasNext]_atlasVars => AtlasIInv'
  <2>1. AtlasIInv /\ UNCHANGED atlasVars => AtlasIInv'
    BY DEF atlasVars, atlasFileVars, AtlasIInv, AtlasTypeOK, Published, Whole, CallKnows, Bundle,
      PendingIsOwn, UsesPending, AtPublication, PointerReadable
  <2>2. AtlasIInv /\ AtlasNext => AtlasIInv'
    BY MoveMainKeeps, AtlasCallerStep, AtlasFileStep, OpenPendingKeeps, FillPendingKeeps,
      ReplacePointerKeeps DEF AtlasNext
  <2> QED BY <2>1, <2>2
<1>3. AtlasIInv => AtlasInv
  BY DEF AtlasIInv, AtlasInv, CurrentIsPublished, Published, Whole
<1> QED BY <1>1, <1>2, <1>3, PTL DEF AtlasSpec

(***************************************************************************)
(* EvidenceExport                                                          *)
(***************************************************************************)

ExportTypeOK ==
  /\ made \in 0..MaxExportDirectories
  /\ bundle \in [1..MaxExportDirectories -> [BundleFiles -> {"ABSENT", "TORN", "GOOD", "BAD"}]]
  /\ staged \in (1..made) \cup {Nowhere} /\ inPlace \in (1..made) \cup {Nowhere}
  /\ export \in [Exporters -> ExportCalls \cup {NoExport}]
  /\ acknowledged \in BOOLEAN /\ sharing \in BOOLEAN

\* What is left to copy: everything up to the making of the staging directory, something
\* up to the check of the last copy.
StillToCopy(p) ==
  /\ export[p].pc \in {"DESTINATION", "STAGING", "QUARANTINE", "MKDIR"} => export[p].todo = ExportFiles
  /\ export[p].pc \in {"OPEN", "COPY"} => export[p].todo # {}

\* The names belong to two directories, and an open file is in one that was made.
DirectoriesApart ==
  /\ staged = inPlace => staged = Nowhere
  /\ \A p \in Exporters : AtExport(p, "COPY") \/ AtExport(p, "WRITE") => export[p].into \in 1..made
  /\ \A p \in Exporters : export[p] # NoExport => StillToCopy(p)

CopiedGood(p) == \A f \in ExportFiles \ export[p].todo : f = Manifest \/ bundle[staged][f] = "GOOD"

\* A call that is alone has the staging directory to itself, and the bundle's name is free.
AloneHolds(p) ==
  /\ export[p].pc \in {"STAGING", "QUARANTINE", "MKDIR", "OPEN", "COPY", "CHECK", "MANIFEST", "WRITE", "RENAME"} =>
       inPlace = Nowhere
  /\ export[p].pc \in {"OPEN", "COPY", "CHECK", "MANIFEST", "WRITE", "RENAME"} =>
       staged # Nowhere /\ CopiedGood(p)
  /\ export[p].pc \in {"COPY", "WRITE"} => export[p].into = staged
  /\ export[p].pc \in {"MANIFEST", "WRITE", "RENAME"} => export[p].todo = {}
  /\ export[p].pc = "RENAME" => bundle[staged][Manifest] = "GOOD"

Alone ==
  ~sharing =>
    /\ \A p, q \in Exporters : export[p] # NoExport /\ export[q] # NoExport => p = q
    /\ \A p \in Exporters : export[p] # NoExport => AloneHolds(p)

ExportIInv ==
  /\ ExportTypeOK
  /\ DirectoriesApart
  /\ Alone
  /\ InPlaceIsWhole
  /\ ReturnedStaysWhole

ExportsTyped == export \in [Exporters -> ExportCalls \cup {NoExport}]

LEMMA ExportParts ==
  ASSUME ExportsTyped, NEW p \in Exporters, export[p] # NoExport
  PROVE  /\ export[p] \in ExportCalls /\ export[p].todo \subseteq ExportFiles
         /\ export[p].pc \in {"DESTINATION", "STAGING", "QUARANTINE", "MKDIR", "OPEN", "COPY", "CHECK",
                              "MANIFEST", "WRITE", "RENAME", "VERIFY", "EXCEPT"}
BY DEF ExportsTyped, ExportCalls

\* The next file of a plan is one of those that are left.
LEMMA NextExportFileIsLeft ==
  ASSUME ExportsTyped, NEW p \in Exporters, export[p] # NoExport, export[p].todo # {}
  PROVE  NextExportFile(p) \in export[p].todo /\ NextExportFile(p) \in BundleFiles
<1> DEFINE T == export[p].todo
<1>1. T \subseteq ExportFiles /\ T # {}
  BY ExportParts
<1> HIDE DEF T
<1>2. IsFiniteSet(T) /\ T \subseteq Int
  BY <1>1, ExportFilesAssumption, FS_Subset
<1>3. Min(T) \in T
  BY <1>1, <1>2, MinIsLeast
<1> QED BY <1>1, <1>3 DEF T, NextExportFile, BundleFiles

LEMMA ExportMoves ==
  ASSUME ExportsTyped, NEW p \in Exporters, NEW w, w \in ExportCalls,
         export' = [export EXCEPT ![p] = w]
  PROVE  /\ ExportsTyped' /\ export'[p] = w /\ export'[p] # NoExport
         /\ \A q \in Exporters \ {p} : export'[q] = export[q]
BY ExportAssumption DEF ExportsTyped

LEMMA ExportToEffect ==
  ASSUME ExportsTyped, NEW p \in Exporters, export[p] # NoExport,
         NEW pc \in {"DESTINATION", "STAGING", "QUARANTINE", "MKDIR", "OPEN", "COPY", "CHECK",
                     "MANIFEST", "WRITE", "RENAME", "VERIFY", "EXCEPT"},
         ExportTo(p, pc)
  PROVE  /\ ExportsTyped' /\ export'[p] # NoExport /\ export'[p].pc = pc
         /\ export'[p].todo = export[p].todo /\ export'[p].into = export[p].into
         /\ \A q \in Exporters \ {p} : export'[q] = export[q]
<1> DEFINE w == [export[p] EXCEPT !.pc = pc]
<1>1. export[p] \in ExportCalls
  BY ExportParts
<1>2. w \in ExportCalls /\ w.pc = pc /\ w.todo = export[p].todo /\ w.into = export[p].into
  BY <1>1 DEF ExportCalls
<1>3. export' = [export EXCEPT ![p] = w]
  BY DEF ExportTo
<1> HIDE DEF w
<1> QED BY <1>2, <1>3, ExportMoves

LEMMA EndExportEffect ==
  ASSUME ExportsTyped, NEW p \in Exporters, EndExport(p)
  PROVE  /\ ExportsTyped' /\ export'[p] = NoExport
         /\ \A q \in Exporters \ {p} : export'[q] = export[q]
BY DEF ExportsTyped, EndExport

\* A step of a call that leaves the directories alone, but may take the staging name away.
LEMMA QuietExportStep ==
  ASSUME ExportIInv, NEW p \in Exporters, export[p] # NoExport, ExportsTyped',
         \A q \in Exporters \ {p} : export'[q] = export[q],
         UNCHANGED <<edited, bundle, made, inPlace, sharing>>, staged' \in {staged, Nowhere},
         acknowledged' \in BOOLEAN, acknowledged' => acknowledged \/ VerifiesBundle,
         export'[p] # NoExport =>
           /\ export'[p].pc \in {"COPY", "WRITE"} => export'[p].into \in 1..made
           /\ StillToCopy(p)'
           /\ sharing \/ AloneHolds(p)'
  PROVE  ExportIInv'
<1>1. ExportTypeOK'
  BY DEF ExportIInv, ExportTypeOK, ExportsTyped
<1>2. DirectoriesApart'
  BY DEF ExportIInv, DirectoriesApart, StillToCopy, AtExport
<1>3. Alone'
  BY DEF ExportIInv, Alone
<1>4. IsWhole(inPlace)' <=> IsWhole(inPlace)
  BY DEF IsWhole
<1>5. InPlaceIsWhole' /\ ReturnedStaysWhole'
  BY <1>4 DEF ExportIInv, InPlaceIsWhole, ReturnedStaysWhole, VerifiesBundle
<1> QED BY <1>1, <1>2, <1>3, <1>5 DEF ExportIInv

\* The steps of a call that write nothing.
LEMMA ExportLookStep ==
  ASSUME ExportIInv, NEW p \in Exporters,
         \/ CheckBundle(p) \/ CheckStaging(p) \/ QuarantineLeftover(p) \/ CheckCopy(p)
         \/ VerifyBundle(p) \/ HandleException(p) \/ ExportRaises(p) \/ StopExport(p)
  PROVE  ExportIInv'
<1>0. ExportsTyped /\ export[p] # NoExport
  BY DEF ExportIInv, ExportTypeOK, ExportsTyped, CheckBundle, CheckStaging, QuarantineLeftover,
    CheckCopy, VerifyBundle, HandleException, ExportRaises, StopExport, AtExport
<1>1. /\ UNCHANGED <<edited, bundle, made, inPlace, sharing>> /\ staged' \in {staged, Nowhere}
      /\ acknowledged' \in BOOLEAN /\ (acknowledged' => acknowledged \/ VerifiesBundle)
  <2>1. CASE CheckBundle(p) \/ VerifyBundle(p)
    BY <2>1 DEF CheckBundle, VerifyBundle, exportFileVars
  <2>2. CASE CheckStaging(p) \/ CheckCopy(p) \/ ExportRaises(p) \/ StopExport(p)
    BY <2>2 DEF CheckStaging, CheckCopy, ExportRaises, StopExport, exportFileVars, ExportIInv, ExportTypeOK
  <2>3. CASE QuarantineLeftover(p) \/ HandleException(p)
    BY <2>3 DEF QuarantineLeftover, HandleException, ExportIInv, ExportTypeOK
  <2> QED BY <2>1, <2>2, <2>3
<1>2. CASE EndExport(p)
  BY <1>0, <1>1, <1>2, EndExportEffect, QuietExportStep
<1>3. sharing \/ AloneHolds(p)
  BY <1>0 DEF ExportIInv, Alone
<1>4. CASE \E pc \in {"STAGING", "QUARANTINE", "MKDIR", "EXCEPT"} :
             ExportTo(p, pc) /\ (pc # "EXCEPT" => (sharing \/ inPlace = Nowhere) /\ export[p].todo = ExportFiles)
  <2>1. PICK pc \in {"STAGING", "QUARANTINE", "MKDIR", "EXCEPT"} :
             ExportTo(p, pc) /\ (pc # "EXCEPT" => (sharing \/ inPlace = Nowhere) /\ export[p].todo = ExportFiles)
    BY <1>4
  <2>2. /\ ExportsTyped' /\ export'[p] # NoExport /\ export'[p].pc = pc
        /\ export'[p].todo = export[p].todo
        /\ \A q \in Exporters \ {p} : export'[q] = export[q]
    BY <1>0, <2>1, ExportToEffect
  <2>3. sharing \/ AloneHolds(p)'
    BY <1>1, <2>1, <2>2 DEF AloneHolds
  <2>4. StillToCopy(p)'
    BY <2>1, <2>2 DEF StillToCopy
  <2> QED BY <1>0, <1>1, <2>1, <2>2, <2>3, <2>4, QuietExportStep
<1>5. CASE CheckCopy(p) /\ CopyMatches(p)
  <2> DEFINE f == NextExportFile(p)
             rest == export[p].todo \ {f}
             pc == IF rest = {} THEN "MANIFEST" ELSE "OPEN"
             w == [export[p] EXCEPT !.todo = rest, !.pc = pc]
  <2>1. export[p].pc = "CHECK" /\ export' = [export EXCEPT ![p] = w] /\ bundle[staged][f] = "GOOD"
        /\ staged' = staged
    BY <1>5 DEF CheckCopy, CopyMatches, AtExport, exportFileVars
  <2>2. export[p] \in ExportCalls /\ rest \subseteq ExportFiles
    BY <1>0, ExportParts
  <2>3. /\ pc \in {"MANIFEST", "OPEN"} /\ (pc = "MANIFEST" <=> rest = {})
        /\ \A g \in ExportFiles \ rest : g \in ExportFiles \ export[p].todo \/ g = f
    OBVIOUS
  <2> HIDE DEF f, rest, pc
  <2>4. w \in ExportCalls /\ w.pc = pc /\ w.todo = rest
    BY <2>2, <2>3 DEF ExportCalls
  <2> HIDE DEF w
  <2>5. /\ ExportsTyped' /\ export'[p] = w /\ export'[p] # NoExport
        /\ \A q \in Exporters \ {p} : export'[q] = export[q]
    BY <1>0, <2>1, <2>4, ExportMoves
  <2>6. sharing \/ AloneHolds(p)'
    BY <1>1, <1>3, <2>1, <2>3, <2>4, <2>5 DEF AloneHolds, CopiedGood
  <2>7. StillToCopy(p)'
    BY <2>3, <2>4, <2>5 DEF StillToCopy
  <2> QED BY <1>0, <1>1, <2>3, <2>4, <2>5, <2>6, <2>7, QuietExportStep
<1>6. CASE CheckBundle(p)
  <2>1. export[p].todo = ExportFiles
    BY <1>0, <1>6 DEF ExportIInv, DirectoriesApart, StillToCopy, CheckBundle, AtExport
  <2> QED BY <1>2, <1>4, <1>6, <2>1 DEF CheckBundle
<1>7. CASE CheckStaging(p) \/ QuarantineLeftover(p)
  <2>1. sharing \/ inPlace = Nowhere
    BY <1>3, <1>7 DEF CheckStaging, QuarantineLeftover, AtExport, AloneHolds
  <2>2. export[p].todo = ExportFiles
    BY <1>0, <1>7 DEF ExportIInv, DirectoriesApart, StillToCopy, CheckStaging, QuarantineLeftover, AtExport
  <2> QED BY <1>2, <1>4, <1>7, <2>1, <2>2 DEF CheckStaging, QuarantineLeftover
<1>8. CASE CheckCopy(p) /\ ~CopyMatches(p)
  BY <1>4, <1>8 DEF CheckCopy
<1>9. CASE VerifyBundle(p) \/ ExportRaises(p)
  BY <1>2, <1>4, <1>9 DEF VerifyBundle, ExportRaises
<1> QED BY <1>2, <1>5, <1>6, <1>7, <1>8, <1>9 DEF HandleException, StopExport

\* A call moves with its todo as it was, or sets into.
LEMMA ExportIntoEffect ==
  ASSUME ExportsTyped, NEW p \in Exporters, export[p] # NoExport,
         NEW pc \in {"COPY", "WRITE"}, NEW d \in 1..MaxExportDirectories,
         export' = [export EXCEPT ![p].pc = pc, ![p].into = d]
  PROVE  /\ ExportsTyped' /\ export'[p] # NoExport /\ export'[p].pc = pc
         /\ export'[p].todo = export[p].todo /\ export'[p].into = d
         /\ \A q \in Exporters \ {p} : export'[q] = export[q]
<1> DEFINE w == [export[p] EXCEPT !.pc = pc, !.into = d]
<1>1. export[p] \in ExportCalls
  BY ExportParts
<1>2. w \in ExportCalls /\ w.pc = pc /\ w.todo = export[p].todo /\ w.into = d
  BY <1>1 DEF ExportCalls
<1>3. export' = [export EXCEPT ![p] = w]
  OBVIOUS
<1> HIDE DEF w
<1> QED BY <1>2, <1>3, ExportMoves

LEMMA EditSourceKeeps ==
  ASSUME ExportIInv, NEW f \in ExportFiles, EditSource(f)
  PROVE  ExportIInv'
<1>1. UNCHANGED <<bundle, made, staged, inPlace, export, acknowledged, sharing>>
  BY DEF EditSource
<1>2. ExportTypeOK' /\ DirectoriesApart'
  BY <1>1 DEF ExportIInv, ExportTypeOK, DirectoriesApart, AtExport, StillToCopy
<1>3. Alone'
  BY <1>1 DEF ExportIInv, Alone, AloneHolds, CopiedGood
<1>4. InPlaceIsWhole' /\ ReturnedStaysWhole'
  BY <1>1 DEF ExportIInv, InPlaceIsWhole, ReturnedStaysWhole, IsWhole, EditSource
<1> QED BY <1>2, <1>3, <1>4 DEF ExportIInv

LEMMA BuildPlanKeeps ==
  ASSUME ExportIInv, NEW p \in Exporters, BuildPlan(p)
  PROVE  ExportIInv'
<1> DEFINE w == [pc |-> "DESTINATION", todo |-> ExportFiles, into |-> Nowhere]
<1>0. ExportsTyped /\ export' = [export EXCEPT ![p] = w]
  BY DEF ExportIInv, ExportTypeOK, ExportsTyped, BuildPlan
<1>1. w \in ExportCalls /\ w.pc = "DESTINATION" /\ w.todo = ExportFiles
  BY DEF ExportCalls
<1> HIDE DEF w
<1>2. /\ ExportsTyped' /\ export'[p] = w /\ export'[p] # NoExport
      /\ \A q \in Exporters \ {p} : export'[q] = export[q]
  BY <1>0, <1>1, ExportMoves
<1>3. UNCHANGED <<edited, bundle, made, staged, inPlace, acknowledged>>
  BY DEF BuildPlan, exportFileVars
<1>4. sharing' \in BOOLEAN
  BY DEF BuildPlan
<1>5. /\ sharing => sharing'
      /\ ~sharing' => \A q \in Exporters : export[q] = NoExport
  BY DEF BuildPlan
<1>6. ExportTypeOK'
  BY <1>2, <1>3, <1>4 DEF ExportIInv, ExportTypeOK, ExportsTyped
<1>7. DirectoriesApart'
  BY <1>1, <1>2, <1>3 DEF ExportIInv, DirectoriesApart, AtExport, StillToCopy
<1>8. Alone'
  BY <1>1, <1>2, <1>5 DEF Alone, AloneHolds
<1>9. InPlaceIsWhole' /\ ReturnedStaysWhole'
  BY <1>3, <1>5 DEF ExportIInv, InPlaceIsWhole, ReturnedStaysWhole, IsWhole
<1> QED BY <1>6, <1>7, <1>8, <1>9 DEF ExportIInv

\* A step of a call that writes a file of the directory d, which it may just have made.
\* The file is opened in the staging directory or written to the end.
LEMMA WriteExportStep ==
  ASSUME ExportIInv, NEW p \in Exporters, export[p] # NoExport,
         NEW d \in 1..MaxExportDirectories, NEW f, NEW s \in {"TORN", "GOOD", "BAD"},
         bundle' = [bundle EXCEPT ![d][f] = s],
         ExportsTyped', export'[p] # NoExport,
         \A q \in Exporters \ {p} : export'[q] = export[q],
         UNCHANGED <<edited, inPlace, acknowledged, sharing>>,
         made' \in made..MaxExportDirectories, staged' \in (1..made') \cup {Nowhere},
         staged' = inPlace => staged' = Nowhere,
         export'[p].pc \in {"COPY", "WRITE"} => export'[p].into \in 1..made',
         StillToCopy(p)',
         s = "TORN" => d # inPlace,
         s = "BAD" => edited # {},
         sharing \/ AloneHolds(p)',
         sharing \/ d # inPlace
  PROVE  ExportIInv'
<1>1. /\ bundle' \in [1..MaxExportDirectories -> [BundleFiles -> {"ABSENT", "TORN", "GOOD", "BAD"}]]
      /\ \A e \in 1..MaxExportDirectories : \A g \in BundleFiles :
           bundle'[e][g] = IF e = d /\ g = f THEN s ELSE bundle[e][g]
  <2>1. ExportTypeOK /\ s \in {"ABSENT", "TORN", "GOOD", "BAD"}
    BY DEF ExportIInv
  <2> QED BY <2>1 DEF ExportTypeOK
<1>2. made \in 0..MaxExportDirectories /\ 1..made \subseteq 1..made' /\ made' \in 0..MaxExportDirectories
  BY ExportAssumption DEF ExportIInv, ExportTypeOK
<1>3. ExportTypeOK'
  BY <1>1, <1>2 DEF ExportIInv, ExportTypeOK, ExportsTyped
<1>4. DirectoriesApart'
  BY <1>2 DEF ExportIInv, DirectoriesApart, AtExport, StillToCopy
<1>5. Alone'
  BY DEF ExportIInv, Alone
<1>6. inPlace = Nowhere \/ inPlace \in 1..MaxExportDirectories
  BY <1>2, ExportAssumption DEF ExportIInv, ExportTypeOK
<1>7. inPlace # Nowhere /\ IsWhole(inPlace) => IsWhole(inPlace)' \/ (sharing /\ edited # {})
  BY <1>1, <1>6 DEF IsWhole
<1>8. InPlaceIsWhole' /\ ReturnedStaysWhole'
  BY <1>7, <1>1, <1>6 DEF ExportIInv, InPlaceIsWhole, ReturnedStaysWhole, IsWhole
<1> QED BY <1>3, <1>4, <1>5, <1>8 DEF ExportIInv

LEMMA MakeStagingKeeps ==
  ASSUME ExportIInv, NEW p \in Exporters, MakeStaging(p)
  PROVE  ExportIInv'
<1>0. ExportsTyped /\ export[p] # NoExport /\ export[p].pc = "MKDIR"
  BY DEF ExportIInv, ExportTypeOK, ExportsTyped, MakeStaging, AtExport
<1>1. UNCHANGED <<edited, bundle, inPlace, acknowledged, sharing>>
  BY DEF MakeStaging
<1>2. CASE staged # Nowhere
  <2>1. EndExport(p) /\ staged' = staged /\ made' = made
    BY <1>2 DEF MakeStaging
  <2>2. acknowledged' \in BOOLEAN
    BY <1>1 DEF ExportIInv, ExportTypeOK
  <2> QED BY <1>0, <1>1, <2>1, <2>2, EndExportEffect, QuietExportStep
<1>3. CASE staged = Nowhere
  <2>1. made < MaxExportDirectories /\ made' = made + 1 /\ staged' = made + 1 /\ ExportTo(p, "OPEN")
    BY <1>3 DEF MakeStaging
  <2>2. /\ ExportsTyped' /\ export'[p] # NoExport /\ export'[p].pc = "OPEN"
        /\ export'[p].todo = export[p].todo
        /\ \A q \in Exporters \ {p} : export'[q] = export[q]
    BY <1>0, <2>1, ExportToEffect
  <2>3. export[p].todo = ExportFiles /\ export[p].todo # {}
    BY <1>0, ExportFilesAssumption DEF ExportIInv, DirectoriesApart, StillToCopy
  <2>4. made \in 0..MaxExportDirectories /\ 1..made \subseteq 1..made' /\ made' \in 0..MaxExportDirectories
        /\ staged' \in 1..made' /\ staged' \notin 1..made /\ staged' # Nowhere
    BY <2>1, ExportAssumption DEF ExportIInv, ExportTypeOK
  <2>5. ExportTypeOK'
    BY <1>1, <2>2, <2>4 DEF ExportIInv, ExportTypeOK, ExportsTyped
  <2>6. DirectoriesApart'
    BY <1>1, <2>2, <2>3, <2>4 DEF ExportIInv, ExportTypeOK, DirectoriesApart, AtExport, StillToCopy
  <2>7. sharing \/ AloneHolds(p)
    BY <1>0 DEF ExportIInv, Alone
  <2>8. sharing \/ AloneHolds(p)'
    BY <1>0, <1>1, <2>2, <2>3, <2>4, <2>7 DEF AloneHolds, CopiedGood
  <2>9. Alone'
    BY <1>0, <1>1, <2>2, <2>8 DEF ExportIInv, Alone
  <2>10. InPlaceIsWhole' /\ ReturnedStaysWhole'
    BY <1>1 DEF ExportIInv, InPlaceIsWhole, ReturnedStaysWhole, IsWhole
  <2> QED BY <2>5, <2>6, <2>9, <2>10 DEF ExportIInv
<1> QED BY <1>2, <1>3

LEMMA OpenCopyKeeps ==
  ASSUME ExportIInv, NEW p \in Exporters, OpenCopy(p)
  PROVE  ExportIInv'
<1>0. ExportsTyped /\ export[p] # NoExport /\ export[p].pc = "OPEN" /\ export[p].todo # {}
  BY DEF ExportIInv, ExportTypeOK, ExportsTyped, OpenCopy, AtExport, DirectoriesApart, StillToCopy
<1>1. PICK f : f = NextExportFile(p) /\ f \in export[p].todo /\ f \in BundleFiles
  BY <1>0, NextExportFileIsLeft
<1>2. PICK d : d = staged'
  OBVIOUS
<1>3. made \in 0..MaxExportDirectories /\ staged \in (1..made) \cup {Nowhere} /\ inPlace \in (1..made) \cup {Nowhere}
  BY DEF ExportIInv, ExportTypeOK
<1>4. /\ made' \in made..MaxExportDirectories /\ d \in 1..made' /\ d \in 1..MaxExportDirectories
      /\ d # Nowhere /\ d # inPlace /\ (staged # Nowhere => d = staged)
  <2>1. CASE staged = Nowhere
    BY <1>2, <1>3, <2>1, ExportAssumption DEF OpenCopy
  <2>2. CASE staged # Nowhere
    BY <1>2, <1>3, <2>2, ExportAssumption DEF OpenCopy, ExportIInv, DirectoriesApart
  <2> QED BY <2>1, <2>2
<1>5. /\ bundle' = [bundle EXCEPT ![d][f] = "TORN"]
      /\ export' = [export EXCEPT ![p].pc = "COPY", ![p].into = d]
      /\ UNCHANGED <<edited, inPlace, acknowledged, sharing>>
  BY <1>1, <1>2 DEF OpenCopy
<1>6. /\ ExportsTyped' /\ export'[p] # NoExport /\ export'[p].pc = "COPY"
      /\ export'[p].todo = export[p].todo /\ export'[p].into = d
      /\ \A q \in Exporters \ {p} : export'[q] = export[q]
  BY <1>0, <1>4, <1>5, ExportIntoEffect
<1>7. sharing \/ AloneHolds(p)
  BY <1>0 DEF ExportIInv, Alone
<1>8. sharing \/ AloneHolds(p)'
  <2> SUFFICES ASSUME ~sharing PROVE AloneHolds(p)'
    OBVIOUS
  <2>1. inPlace = Nowhere /\ staged # Nowhere /\ CopiedGood(p) /\ staged' = staged /\ d = staged
    BY <1>0, <1>2, <1>4, <1>7 DEF AloneHolds
  <2>2. \A g \in BundleFiles \ {f} : bundle'[d][g] = bundle[d][g]
    BY <1>4, <1>5 DEF ExportIInv, ExportTypeOK
  <2>3. CopiedGood(p)'
    BY <1>1, <1>6, <2>1, <2>2 DEF CopiedGood, BundleFiles
  <2> QED BY <1>5, <1>6, <2>1, <2>3 DEF AloneHolds
<1>9. StillToCopy(p)'
  BY <1>0, <1>6 DEF StillToCopy
<1> QED BY <1>0, <1>2, <1>4, <1>5, <1>6, <1>8, <1>9, WriteExportStep

LEMMA FillCopyKeeps ==
  ASSUME ExportIInv, NEW p \in Exporters, FillCopy(p)
  PROVE  ExportIInv'
<1>0. ExportsTyped /\ export[p] # NoExport /\ export[p].pc = "COPY" /\ export[p].todo # {}
      /\ export[p].into \in 1..made
  BY DEF ExportIInv, ExportTypeOK, ExportsTyped, FillCopy, AtExport, DirectoriesApart, StillToCopy
<1>1. PICK f : f = NextExportFile(p) /\ f \in export[p].todo /\ f \in BundleFiles
  BY <1>0, NextExportFileIsLeft
<1>2. PICK d \in 1..made : d = export[p].into
  BY <1>0
<1>3. PICK s \in {"GOOD", "BAD"} : s = IF f \in edited THEN "BAD" ELSE "GOOD"
  OBVIOUS
<1>4. /\ made \in 0..MaxExportDirectories /\ staged \in (1..made) \cup {Nowhere} /\ d \in 1..MaxExportDirectories
      /\ made \in made..MaxExportDirectories
  BY ExportAssumption DEF ExportIInv, ExportTypeOK
<1>5. /\ bundle' = [bundle EXCEPT ![d][f] = s]
      /\ ExportTo(p, "CHECK")
      /\ UNCHANGED <<edited, made, staged, inPlace, acknowledged, sharing>>
  BY <1>1, <1>2, <1>3 DEF FillCopy
<1>6. /\ ExportsTyped' /\ export'[p] # NoExport /\ export'[p].pc = "CHECK"
      /\ export'[p].todo = export[p].todo
      /\ \A q \in Exporters \ {p} : export'[q] = export[q]
  BY <1>0, <1>5, ExportToEffect
<1>7. sharing \/ AloneHolds(p)
  BY <1>0 DEF ExportIInv, Alone
<1>8. sharing \/ (AloneHolds(p)' /\ d # inPlace)
  <2> SUFFICES ASSUME ~sharing PROVE AloneHolds(p)' /\ d # inPlace
    OBVIOUS
  <2>1. inPlace = Nowhere /\ staged # Nowhere /\ CopiedGood(p) /\ d = staged
    BY <1>0, <1>2, <1>7 DEF AloneHolds
  <2>2. \A g \in BundleFiles \ {f} : bundle'[d][g] = bundle[d][g]
    BY <1>4, <1>5 DEF ExportIInv, ExportTypeOK
  <2>3. CopiedGood(p)'
    BY <1>1, <1>5, <1>6, <2>1, <2>2 DEF CopiedGood, BundleFiles
  <2> QED BY <1>5, <1>6, <2>1, <2>3 DEF AloneHolds
<1>9. StillToCopy(p)'
  BY <1>6 DEF StillToCopy
<1>10. /\ made' \in made..MaxExportDirectories /\ staged' \in (1..made') \cup {Nowhere}
       /\ (staged' = inPlace => staged' = Nowhere) /\ (s = "BAD" => edited # {})
  BY <1>3, <1>4, <1>5 DEF ExportIInv, DirectoriesApart
<1> QED BY <1>0, <1>4, <1>5, <1>6, <1>8, <1>9, <1>10, WriteExportStep

LEMMA OpenManifestKeeps ==
  ASSUME ExportIInv, NEW p \in Exporters, OpenManifest(p)
  PROVE  ExportIInv'
<1>0. ExportsTyped /\ export[p] # NoExport /\ export[p].pc = "MANIFEST"
  BY DEF ExportIInv, ExportTypeOK, ExportsTyped, OpenManifest, AtExport
<1>1. UNCHANGED <<edited, made, staged, inPlace, acknowledged, sharing>>
  BY DEF OpenManifest
<1>2. CASE staged = Nowhere
  <2>1. ExportTo(p, "EXCEPT") /\ bundle' = bundle
    BY <1>2 DEF OpenManifest
  <2>2. /\ ExportsTyped' /\ export'[p] # NoExport /\ export'[p].pc = "EXCEPT"
        /\ \A q \in Exporters \ {p} : export'[q] = export[q]
    BY <1>0, <2>1, ExportToEffect
  <2>3. StillToCopy(p)' /\ AloneHolds(p)'
    BY <2>2 DEF StillToCopy, AloneHolds
  <2>4. acknowledged' \in BOOLEAN
    BY <1>1 DEF ExportIInv, ExportTypeOK
  <2> QED BY <1>0, <1>1, <2>1, <2>2, <2>3, <2>4, QuietExportStep
<1>3. CASE staged # Nowhere
  <2>0. PICK d : d = staged
    OBVIOUS
  <2>1. /\ d \in 1..made /\ d \in 1..MaxExportDirectories /\ d # inPlace /\ made \in made..MaxExportDirectories
    BY <1>3, <2>0, ExportAssumption DEF ExportIInv, ExportTypeOK, DirectoriesApart
  <2>2. /\ bundle' = [bundle EXCEPT ![d][Manifest] = "TORN"]
        /\ export' = [export EXCEPT ![p].pc = "WRITE", ![p].into = d]
    BY <1>3, <2>0 DEF OpenManifest
  <2>3. /\ ExportsTyped' /\ export'[p] # NoExport /\ export'[p].pc = "WRITE"
        /\ export'[p].todo = export[p].todo /\ export'[p].into = d
        /\ \A q \in Exporters \ {p} : export'[q] = export[q]
    BY <1>0, <2>1, <2>2, ExportIntoEffect
  <2>4. sharing \/ AloneHolds(p)
    BY <1>0 DEF ExportIInv, Alone
  <2>5. sharing \/ AloneHolds(p)'
    <3> SUFFICES ASSUME ~sharing PROVE AloneHolds(p)'
      OBVIOUS
    <3>1. inPlace = Nowhere /\ CopiedGood(p) /\ export[p].todo = {}
      BY <1>0, <2>4 DEF AloneHolds
    <3>2. \A g \in BundleFiles \ {Manifest} : bundle'[d][g] = bundle[d][g]
      BY <2>1, <2>2 DEF ExportIInv, ExportTypeOK
    <3>3. CopiedGood(p)'
      BY <1>1, <2>0, <2>3, <3>1, <3>2 DEF CopiedGood, BundleFiles
    <3> QED BY <1>1, <1>3, <2>0, <2>3, <3>1, <3>3 DEF AloneHolds
  <2>6. StillToCopy(p)'
    BY <2>3 DEF StillToCopy
  <2>7. /\ made' \in made..MaxExportDirectories /\ staged' \in (1..made') \cup {Nowhere}
        /\ (staged' = inPlace => staged' = Nowhere)
    BY <1>1, <2>0, <2>1
  <2> QED BY <1>0, <1>1, <2>1, <2>2, <2>3, <2>5, <2>6, <2>7, WriteExportStep
<1> QED BY <1>2, <1>3

LEMMA FillManifestKeeps ==
  ASSUME ExportIInv, NEW p \in Exporters, FillManifest(p)
  PROVE  ExportIInv'
<1>0. ExportsTyped /\ export[p] # NoExport /\ export[p].pc = "WRITE" /\ export[p].into \in 1..made
  BY DEF ExportIInv, ExportTypeOK, ExportsTyped, FillManifest, AtExport, DirectoriesApart
<1>1. PICK d \in 1..made : d = export[p].into
  BY <1>0
<1>2. /\ made \in 0..MaxExportDirectories /\ staged \in (1..made) \cup {Nowhere} /\ d \in 1..MaxExportDirectories
      /\ made \in made..MaxExportDirectories
  BY ExportAssumption DEF ExportIInv, ExportTypeOK
<1>3. /\ bundle' = [bundle EXCEPT ![d][Manifest] = "GOOD"]
      /\ ExportTo(p, "RENAME")
      /\ UNCHANGED <<edited, made, staged, inPlace, acknowledged, sharing>>
  BY <1>1 DEF FillManifest
<1>4. /\ ExportsTyped' /\ export'[p] # NoExport /\ export'[p].pc = "RENAME"
      /\ export'[p].todo = export[p].todo
      /\ \A q \in Exporters \ {p} : export'[q] = export[q]
  BY <1>0, <1>3, ExportToEffect
<1>5. sharing \/ AloneHolds(p)
  BY <1>0 DEF ExportIInv, Alone
<1>6. sharing \/ (AloneHolds(p)' /\ d # inPlace)
  <2> SUFFICES ASSUME ~sharing PROVE AloneHolds(p)' /\ d # inPlace
    OBVIOUS
  <2>1. inPlace = Nowhere /\ staged # Nowhere /\ CopiedGood(p) /\ d = staged /\ export[p].todo = {}
    BY <1>0, <1>1, <1>5 DEF AloneHolds
  <2>2. /\ \A g \in BundleFiles \ {Manifest} : bundle'[d][g] = bundle[d][g]
        /\ bundle'[d][Manifest] = "GOOD"
    BY <1>2, <1>3 DEF ExportIInv, ExportTypeOK, BundleFiles
  <2>3. CopiedGood(p)'
    BY <1>3, <1>4, <2>1, <2>2 DEF CopiedGood, BundleFiles
  <2> QED BY <1>3, <1>4, <2>1, <2>2, <2>3 DEF AloneHolds
<1>7. StillToCopy(p)'
  BY <1>4 DEF StillToCopy
<1>8. /\ made' \in made..MaxExportDirectories /\ staged' \in (1..made') \cup {Nowhere}
      /\ (staged' = inPlace => staged' = Nowhere)
  BY <1>2, <1>3 DEF ExportIInv, DirectoriesApart
<1> QED BY <1>0, <1>2, <1>3, <1>4, <1>6, <1>7, <1>8, WriteExportStep

LEMMA RenameBundleKeeps ==
  ASSUME ExportIInv, NEW p \in Exporters, RenameBundle(p)
  PROVE  ExportIInv'
<1>0. ExportsTyped /\ export[p] # NoExport /\ export[p].pc = "RENAME"
  BY DEF ExportIInv, ExportTypeOK, ExportsTyped, RenameBundle, AtExport
<1>1. UNCHANGED <<edited, bundle, made, acknowledged, sharing>>
  BY DEF RenameBundle
<1>a. acknowledged' \in BOOLEAN
  BY <1>1 DEF ExportIInv, ExportTypeOK
<1>2. CASE ~(staged # Nowhere /\ (inPlace = Nowhere \/ IsEmpty(inPlace)))
  <2>1. ExportTo(p, "EXCEPT") /\ inPlace' = inPlace /\ staged' = staged
    BY <1>2 DEF RenameBundle
  <2>2. /\ ExportsTyped' /\ export'[p] # NoExport /\ export'[p].pc = "EXCEPT"
        /\ \A q \in Exporters \ {p} : export'[q] = export[q]
    BY <1>0, <2>1, ExportToEffect
  <2>3. StillToCopy(p)' /\ AloneHolds(p)'
    BY <2>2 DEF StillToCopy, AloneHolds
  <2> QED BY <1>0, <1>1, <1>a, <2>1, <2>2, <2>3, QuietExportStep
<1>3. CASE staged # Nowhere /\ (inPlace = Nowhere \/ IsEmpty(inPlace))
  <2>1. ExportTo(p, "VERIFY") /\ inPlace' = staged /\ staged' = Nowhere
    BY <1>3 DEF RenameBundle
  <2>2. /\ ExportsTyped' /\ export'[p] # NoExport /\ export'[p].pc = "VERIFY"
        /\ \A q \in Exporters \ {p} : export'[q] = export[q]
    BY <1>0, <2>1, ExportToEffect
  <2>3. StillToCopy(p)' /\ AloneHolds(p)'
    BY <2>2 DEF StillToCopy, AloneHolds
  <2>4. ExportTypeOK'
    BY <1>1, <2>1, <2>2 DEF ExportIInv, ExportTypeOK, ExportsTyped
  <2>5. DirectoriesApart'
    BY <1>1, <2>1, <2>2, <2>3 DEF ExportIInv, DirectoriesApart, AtExport, StillToCopy
  <2>6. Alone'
    BY <1>0, <1>1, <2>2, <2>3 DEF ExportIInv, Alone
  <2>7. sharing \/ AloneHolds(p)
    BY <1>0 DEF ExportIInv, Alone
  <2>8. sharing \/ IsWhole(staged)
    <3> SUFFICES ASSUME ~sharing PROVE IsWhole(staged)
      OBVIOUS
    <3>1. CopiedGood(p) /\ export[p].todo = {} /\ bundle[staged][Manifest] = "GOOD"
      BY <1>0, <2>7 DEF AloneHolds
    <3> QED BY <3>1 DEF CopiedGood, IsWhole, BundleFiles
  <2>9. IsWhole(inPlace)' <=> IsWhole(staged)
    BY <1>1, <2>1 DEF IsWhole
  <2>10. ~(IsWhole(inPlace) /\ IsEmpty(inPlace))
    BY DEF IsWhole, IsEmpty, BundleFiles
  <2>11. acknowledged => sharing /\ edited # {}
    BY <1>3, <2>10 DEF ExportIInv, ReturnedStaysWhole
  <2>12. InPlaceIsWhole' /\ ReturnedStaysWhole'
    BY <1>1, <1>3, <2>1, <2>8, <2>9, <2>11 DEF InPlaceIsWhole, ReturnedStaysWhole
  <2> QED BY <2>4, <2>5, <2>6, <2>12 DEF ExportIInv
<1> QED BY <1>2, <1>3

\* However many calls export the bundle, are edited under, fail and stop: calls that follow
\* each other put nothing but the whole bundle in place, and a bundle some call has
\* returned stays whole unless a source was edited under a copy another call had open.
THEOREM ExportCorrect == ExportSpec => []ExportInv
<1>1. ExportInit => ExportIInv
  <2> SUFFICES ASSUME ExportInit PROVE ExportIInv
    OBVIOUS
  <2>1. \A p \in Exporters : export[p] = NoExport
    BY DEF ExportInit
  <2>2. made \in 0..MaxExportDirectories
    BY ExportAssumption DEF ExportInit
  <2>6. acknowledged \in BOOLEAN /\ sharing \in BOOLEAN
    BY DEF ExportInit
  <2>3. ExportTypeOK
    BY <2>2, <2>6 DEF ExportInit, ExportTypeOK
  <2>4. DirectoriesApart /\ Alone
    BY <2>1 DEF ExportInit, DirectoriesApart, Alone, AtExport
  <2>5. InPlaceIsWhole /\ ReturnedStaysWhole
    BY DEF ExportInit, InPlaceIsWhole, ReturnedStaysWhole
  <2> QED BY <2>3, <2>4, <2>5 DEF ExportIInv
<1>2. ExportIInv /\ [ExportNext]_exportVars => ExportIInv'
  <2>1. ExportIInv /\ UNCHANGED exportVars => ExportIInv'
    <3> SUFFICES ASSUME ExportIInv, UNCHANGED exportVars PROVE ExportIInv'
      OBVIOUS
    <3>0. UNCHANGED <<edited, bundle, made, staged, inPlace, export, acknowledged, sharing>>
      BY DEF exportVars, exportFileVars
    <3>1. ExportTypeOK' /\ DirectoriesApart'
      BY <3>0 DEF ExportIInv, ExportTypeOK, DirectoriesApart, AtExport, StillToCopy
    <3>2. Alone'
      BY <3>0 DEF ExportIInv, Alone, AloneHolds, CopiedGood
    <3>3. InPlaceIsWhole' /\ ReturnedStaysWhole'
      BY <3>0 DEF ExportIInv, InPlaceIsWhole, ReturnedStaysWhole, IsWhole
    <3> QED BY <3>1, <3>2, <3>3 DEF ExportIInv
  <2>2. ExportIInv /\ ExportNext => ExportIInv'
    BY EditSourceKeeps, BuildPlanKeeps, ExportLookStep, MakeStagingKeeps, OpenCopyKeeps, FillCopyKeeps,
      OpenManifestKeeps, FillManifestKeeps, RenameBundleKeeps DEF ExportNext
  <2> QED BY <2>1, <2>2
<1>3. ExportIInv => ExportInv
  BY DEF ExportIInv, ExportInv
<1> QED BY <1>1, <1>2, <1>3, PTL DEF ExportSpec

(***************************************************************************)
(* SourceIntake and SourceRecovery                                         *)
(***************************************************************************)

IntakeCalls ==
  [profile : Profiles, absent : SUBSET (QuoteSides \X Days),
   pc : {"CLEAR", "FETCH", "AUDIT", "RENAME", "FAILED"}]

\* Rows are minutes of the window, in finite number.
LEMMA RowsAreMinutes ==
  ASSUME market \in Markets, NEW c, NEW quotes \in QuoteSides
  PROVE  /\ M1Rows(c, quotes) \subseteq market.m1[quotes]
         /\ M1Rows(c, quotes) \subseteq Minutes
         /\ H1Rows(c, quotes) \subseteq Days
         /\ M1Rows(c, quotes) \subseteq Int /\ IsFiniteSet(M1Rows(c, quotes))
         /\ \A t \in M1Rows(c, quotes) : t \in 1..(2 * LastDay)
<1>1. market.m1 \in [QuoteSides -> SUBSET Minutes] /\ market.h1 \in [QuoteSides -> SUBSET Days]
  BY IntakeAssumption
<1>2. Minutes \subseteq 1..(2 * LastDay)
  BY IntakeAssumption DEF Minutes, MinutesOf, Days
<1>3. M1Rows(c, quotes) \subseteq market.m1[quotes]
  BY DEF M1Rows
<1>4. M1Rows(c, quotes) \subseteq Minutes
  BY <1>1, <1>3
<1>5. H1Rows(c, quotes) \subseteq Days
  BY <1>1 DEF H1Rows, NativeRows, PostTarget, CompleteHours
<1>6. 2 * LastDay \in Nat
  BY IntakeAssumption
<1>7. IsFiniteSet(1..(2 * LastDay))
  BY <1>6, FS_Interval
<1>8. M1Rows(c, quotes) \subseteq 1..(2 * LastDay)
  BY <1>2, <1>4
<1>9. IsFiniteSet(M1Rows(c, quotes))
  BY <1>7, <1>8, FS_Subset
<1>10. M1Rows(c, quotes) \subseteq Int
  BY <1>6, <1>8
<1> QED BY <1>3, <1>4, <1>5, <1>8, <1>9, <1>10

\* The minutes of a day are the ones of that date.
LEMMA DayOfMinute ==
  ASSUME NEW t \in Int
  PROVE  /\ DayOf(t) \in Int
         /\ \A d \in Int : t \in MinutesOf(d) <=> DayOf(t) = d
         /\ \A v \in Int : t <= v => DayOf(t) <= DayOf(v)
BY DEF DayOf, MinutesOf

\* A wrong answer of a mirror is caught by the pairing of the two sides.
LEMMA AuditCatchesDenials ==
  ASSUME market \in Markets, NEW c, AuditsPass(c), NEW d \in Days,
         NEW quotes \in QuoteSides,
         MinutesOf(d) \cap market.m1[quotes] # MinutesOf(d) \cap M1Rows(c, quotes),
         NEW other \in QuoteSides, <<other, d>> \in Offered
  PROVE  <<other, d>> \in c.absent
<1>0. d \in Int
  BY IntakeAssumption DEF Days
<1>1. M1Rows(c, "BID") = M1Rows(c, "ASK")
  BY DEF AuditsPass, BidAskAudit, Paired
<1>2. M1Rows(c, quotes) = M1Rows(c, other)
  BY <1>1 DEF QuoteSides
<1>3. ASSUME NEW s \in QuoteSides PROVE market.m1[s] \subseteq Int
  <2>1. market.m1[s] \subseteq Minutes
    BY IntakeAssumption
  <2>2. Minutes \subseteq Int
    BY IntakeAssumption DEF Minutes, MinutesOf, Days
  <2> QED BY <2>1, <2>2
<1>4. PICK t \in MinutesOf(d) : t \in market.m1[quotes] /\ t \notin M1Rows(c, quotes)
  BY DEF M1Rows
<1>5. <<quotes, d>> \in c.absent
  BY <1>0, <1>3, <1>4, DayOfMinute DEF M1Rows
<1>6. PICK v \in MinutesOf(d) : v \in market.m1[other]
  BY DEF Offered
<1>7. DayOf(v) = d
  BY <1>0, <1>3, <1>6, DayOfMinute
<1>8. v \notin M1Rows(c, quotes)
  BY <1>5, <1>7 DEF M1Rows
<1> QED BY <1>2, <1>6, <1>7, <1>8 DEF M1Rows

\* An hour with all its minutes has an H1 row, the same on both sides.
LEMMA AuditGivesHours ==
  ASSUME market \in Markets, NEW c, c.profile \in Profiles, AuditsPass(c)
  PROVE  /\ M1Rows(c, "BID") = M1Rows(c, "ASK") /\ H1Rows(c, "BID") = H1Rows(c, "ASK")
         /\ CompleteHours(M1Rows(c, "BID")) # {}
         /\ CompleteHours(M1Rows(c, "BID")) \subseteq H1Rows(c, "BID")
         /\ c.profile # "RPS" =>
              H1Rows(c, "BID") \ CompleteHours(M1Rows(c, "BID")) \subseteq 1..TargetDays
<1>1. M1Rows(c, "BID") = M1Rows(c, "ASK") /\ H1Rows(c, "BID") = H1Rows(c, "ASK")
  BY DEF AuditsPass, BidAskAudit, Paired
<1>2. H1Reconciliation(c, "BID")
  BY DEF AuditsPass, QuoteSides
<1>3. CompleteHours(M1Rows(c, "BID")) # {}
  BY <1>2 DEF H1Reconciliation
<1>4. CompleteHours(M1Rows(c, "BID")) \subseteq H1Rows(c, "BID")
  BY <1>2 DEF H1Reconciliation, H1Rows, PostTarget
<1>5. c.profile # "RPS" =>
        H1Rows(c, "BID") \ CompleteHours(M1Rows(c, "BID")) \subseteq 1..TargetDays
  BY DEF H1Rows, PostTarget, NativeRows, NativeDays, FullMonth
<1> QED BY <1>1, <1>3, <1>4, <1>5

\* Rows without an unexpected gap have no hole within a session: around a hole there
\* would be two neighbouring rows without a weekend between them.
LEMMA SessionHasNoHole ==
  ASSUME NEW rows, rows \subseteq Int, IsFiniteSet(rows), NoUnexpectedGap(rows, "M1"),
         NEW l \in rows, NEW r \in rows, OneSession(DayOf(l), DayOf(r))
  PROVE  l..r \subseteq rows
<1> SUFFICES ASSUME NEW t \in l..r, t \notin rows PROVE FALSE
  OBVIOUS
<1>0. l \in Int /\ r \in Int /\ t \in Int /\ l < t /\ t < r
  OBVIOUS
<1> DEFINE below == {x \in rows : x < t}
           above == {x \in rows : x > t}
<1>1. below \subseteq rows /\ above \subseteq rows /\ l \in below /\ r \in above
  BY <1>0
<1>2. below \subseteq Int /\ above \subseteq Int /\ below # {} /\ above # {}
  BY <1>1
<1>3. IsFiniteSet(below) /\ IsFiniteSet(above)
  <2> HIDE DEF below, above
  <2> QED BY <1>1, FS_Subset
<1>4. /\ Max(below) \in below /\ \A y \in below : Max(below) >= y
      /\ Min(above) \in above /\ \A y \in above : Min(above) <= y
  <2> HIDE DEF below, above
  <2> QED BY <1>2, <1>3, MaxIsGreatest, MinIsLeast
<1>5. PICK a, b : a = Max(below) /\ b = Min(above)
  OBVIOUS
<1>6. /\ a \in rows /\ b \in rows /\ a < t /\ t < b /\ l <= a /\ b <= r
      /\ \A y \in rows : (y < t => y <= a) /\ (y > t => b <= y)
  BY <1>1, <1>2, <1>4, <1>5
<1>7. \A y \in rows : y <= a \/ b <= y
  BY <1>0, <1>6
<1>8. a + 1 < b /\ a \in Int /\ b \in Int
  BY <1>0, <1>6
<1>9. CrossesWeekend(DayOf(a), DayOf(b))
  BY <1>6, <1>7, <1>8 DEF NoUnexpectedGap, DateOf
<1>10. PICK d \in DayOf(a)..DayOf(b) : d \in WeekendDays
  BY <1>9 DEF CrossesWeekend
<1>11. /\ DayOf(l) \in Int /\ DayOf(r) \in Int /\ DayOf(a) \in Int /\ DayOf(b) \in Int
       /\ DayOf(l) <= DayOf(a) /\ DayOf(b) <= DayOf(r)
  BY <1>0, <1>6, <1>8, DayOfMinute
<1>12. d \in DayOf(l)..DayOf(r)
  BY <1>10, <1>11
<1> QED BY <1>10, <1>12 DEF OneSession

\* RPS and A1 freeze whole sessions.
LEMMA AuditGivesSessions ==
  ASSUME market \in Markets, NEW c, c.profile \in {"RPS", "A1"}, AuditsPass(c),
         NEW quotes \in QuoteSides, NEW rows, rows = M1Rows(c, quotes)
  PROVE  /\ \A l, r \in rows : OneSession(DayOf(l), DayOf(r)) => l..r \subseteq rows
         /\ \A t \in rows : /\ OneSession(1, DayOf(t)) => 1 \in rows
                            /\ OneSession(DayOf(t), LastDay) => Max(Minutes) \in rows
<1>1. rows \subseteq Int /\ IsFiniteSet(rows)
  BY RowsAreMinutes
<1>2. rows # {}
  BY DEF AuditsPass
<1>3. /\ NoUnexpectedGap(rows, "M1")
      /\ Min(rows) = 1 \/ CrossesWeekend(1, DayOf(Min(rows)))
      /\ Max(rows) = Max(Minutes) \/ CrossesWeekend(DayOf(Max(rows)), LastDay)
  <2>1. CASE c.profile = "RPS"
    <3>1. GapAudit(rows, "M1")
      BY <2>1 DEF AuditsPass, FullMonth
    <3> QED BY <3>1 DEF GapAudit, LastOf
  <2>2. CASE c.profile = "A1"
    <3>1. CoverageAudit("A1", rows, "M1")
      BY <2>2 DEF AuditsPass, FullMonth
    <3> QED BY <3>1 DEF CoverageAudit, StartAccepted, EndAccepted, LastOf, DateOf
  <2> QED BY <2>1, <2>2
<1>4. PICK a, b : a = Min(rows) /\ b = Max(rows)
  OBVIOUS
<1>5. a \in rows /\ b \in rows /\ \A y \in rows : a <= y /\ y <= b
  <2>1. Min(rows) \in rows /\ \A y \in rows : Min(rows) <= y
    BY <1>1, <1>2, MinIsLeast
  <2>2. Max(rows) \in rows /\ \A y \in rows : Max(rows) >= y
    BY <1>1, <1>2, MaxIsGreatest
  <2>3. \A y \in rows : y <= Max(rows)
    BY <1>1, <2>2
  <2> QED BY <1>4, <2>1, <2>2, <2>3
<1>6. ASSUME NEW l \in rows, NEW r \in rows, OneSession(DayOf(l), DayOf(r))
      PROVE  l..r \subseteq rows
  BY <1>1, <1>3, <1>6, SessionHasNoHole
<1>7. ASSUME NEW t \in rows, OneSession(1, DayOf(t)) PROVE 1 \in rows
  <2>1. CASE a = 1
    BY <1>5, <2>1
  <2>2. CASE CrossesWeekend(1, DayOf(a))
    <3>1. PICK d \in 1..DayOf(a) : d \in WeekendDays
      BY <2>2 DEF CrossesWeekend
    <3>2. DayOf(a) \in Int /\ DayOf(t) \in Int /\ DayOf(a) <= DayOf(t)
      BY <1>1, <1>5, DayOfMinute
    <3>3. d \in 1..DayOf(t)
      BY <3>1, <3>2
    <3> QED BY <1>7, <3>1, <3>3 DEF OneSession
  <2> QED BY <1>3, <1>4, <2>1, <2>2
<1>8. ASSUME NEW t \in rows, OneSession(DayOf(t), LastDay) PROVE Max(Minutes) \in rows
  <2>1. CASE b = Max(Minutes)
    BY <1>5, <2>1
  <2>2. CASE CrossesWeekend(DayOf(b), LastDay)
    <3>1. PICK d \in DayOf(b)..LastDay : d \in WeekendDays
      BY <2>2 DEF CrossesWeekend
    <3>2. DayOf(b) \in Int /\ DayOf(t) \in Int /\ DayOf(t) <= DayOf(b)
      BY <1>1, <1>5, DayOfMinute
    <3>3. d \in DayOf(t)..LastDay
      BY <3>1, <3>2, IntakeAssumption
    <3> QED BY <1>8, <3>1, <3>3 DEF OneSession
  <2> QED BY <1>3, <1>4, <2>1, <2>2
<1> QED BY <1>6, <1>7, <1>8

\* What a call returned: the rows it audited, or the files that were pinned.
CallOf(slice) == [profile |-> slice.profile, absent |-> slice.absent, pc |-> "RENAME"]

FromIntake(r) ==
  /\ r[2].profile \in Profiles
  /\ CallOf(r[2]) \in IntakeCalls
  /\ AuditsPass(CallOf(r[2]))
  /\ r = <<SliceId(r[2].profile), SliceOf(CallOf(r[2]))>>

FromRecovery(r) ==
  /\ r = <<"RPS", r[2]>> /\ r[2] \in Recovered
  /\ r[2].files = r[2].inventory
  /\ ~pinnedTwice => r[2].inventory = inventory /\ inventory # NoInventory

\* What a recovery has, from the inventory on.
RecoveryHolds(c) ==
  /\ c = [pc |-> c.pc, todo |-> c.todo, seen |-> c.seen, pinned |-> c.pinned,
          before |-> c.before, copy |-> c.copy]
  /\ c.pc \in {"COMPARE", "BEFORE", "COPY", "AFTER", "RENAME"} /\ ~pinnedTwice
       => c.pinned = inventory /\ inventory # NoInventory
  /\ c.pc \in {"AFTER", "RENAME"} => c.copy = c.pinned /\ c.copy \in Acceptable

IntakesHold ==
  /\ intake \in [Intakers -> IntakeCalls \cup {NoIntake}]
  /\ \A p \in Intakers : Stands(p, "RENAME") => AuditsPass(intake[p])

RecoveriesHold ==
  /\ recovery = [p \in Recoverers |-> recovery[p]]
  /\ \A p \in Recoverers : recovery[p] # NoRecovery => RecoveryHolds(recovery[p])

ReturnedHold ==
  /\ destination = [id \in SliceIds |-> destination[id]]
  /\ \A r \in returned : /\ FromIntake(r) \/ FromRecovery(r)
                         /\ r[1] \in SliceIds /\ destination[r[1]] = r[2]
  /\ OneSlicePerId

SourceIInv ==
  /\ market \in Markets
  /\ IntakesHold
  /\ RecoveriesHold
  /\ ReturnedHold

\* The audits look at the market and the call only, and the market does not change.
LEMMA MarketFrame ==
  ASSUME market' = market
  PROVE  \A c : (AuditsPass(c)' <=> AuditsPass(c)) /\ SliceOf(c)' = SliceOf(c)
<1> SUFFICES ASSUME NEW c PROVE (AuditsPass(c)' <=> AuditsPass(c)) /\ SliceOf(c)' = SliceOf(c)
  OBVIOUS
<1>1. \A quotes : M1Rows(c, quotes)' = M1Rows(c, quotes)
  BY DEF M1Rows
<1>2. \A quotes : /\ NativeRows(c, quotes)' = NativeRows(c, quotes)
                  /\ PostTarget(c, quotes)' = PostTarget(c, quotes)
  BY <1>1 DEF NativeRows, PostTarget
<1>3. \A quotes : H1Rows(c, quotes)' = H1Rows(c, quotes)
  BY <1>2 DEF H1Rows
<1>4. \A quotes : H1Reconciliation(c, quotes)' <=> H1Reconciliation(c, quotes)
  BY <1>1, <1>2 DEF H1Reconciliation
<1>5. \A quotes : PostTargetAudit(c, quotes)' <=> PostTargetAudit(c, quotes)
  BY <1>2 DEF PostTargetAudit
<1>6. BidAskAudit(c)' <=> BidAskAudit(c)
  BY <1>1, <1>3 DEF BidAskAudit
<1>7. AuditsPass(c)' <=> AuditsPass(c)
  BY <1>1, <1>3, <1>4, <1>5, <1>6 DEF AuditsPass
<1>8. SliceOf(c)' = SliceOf(c)
  BY <1>1, <1>3 DEF SliceOf
<1> QED BY <1>7, <1>8

\* What a call returned is no empty place.
LEMMA ReturnedIsSlice ==
  ASSUME market \in Markets, NEW r, FromIntake(r) \/ FromRecovery(r)
  PROVE  IsSlice(r[2])
<1>1. CASE FromIntake(r)
  <2>1. PICK c : c = CallOf(r[2])
    OBVIOUS
  <2>2. c \in IntakeCalls /\ r[2] = SliceOf(c)
    BY <1>1, <2>1 DEF FromIntake
  <2>3. /\ [quotes \in QuoteSides |-> M1Rows(c, quotes)] \in [QuoteSides -> SUBSET Minutes]
        /\ [quotes \in QuoteSides |-> H1Rows(c, quotes)] \in [QuoteSides -> SUBSET Days]
    BY RowsAreMinutes
  <2>4. SliceOf(c) \in Slices
    BY <2>2, <2>3 DEF SliceOf, Slices, IntakeCalls
  <2> QED BY <2>2, <2>4, IntakeAssumption DEF IsSlice
<1>2. CASE FromRecovery(r)
  BY <1>2, RecoveryAssumption DEF FromRecovery, IsSlice
<1> QED BY <1>1, <1>2

LEMMA IntakeTurn ==
  ASSUME IntakesHold, market' = market, NEW p \in Intakers, NEW v,
         intake' = [intake EXCEPT ![p] = v],
         v = NoIntake \/ (v \in IntakeCalls /\ (v.pc = "RENAME" => AuditsPass(v)))
  PROVE  IntakesHold'
<1>1. intake' \in [Intakers -> IntakeCalls \cup {NoIntake}]
  BY DEF IntakesHold
<1>2. ASSUME NEW q \in Intakers, Stands(q, "RENAME")' PROVE AuditsPass(intake[q])'
  <2>1. PICK c : c = intake'[q]
    OBVIOUS
  <2>2. c # NoIntake /\ c.pc = "RENAME"
    BY <1>2, <2>1 DEF Stands
  <2>3. AuditsPass(c)
    BY <2>1, <2>2 DEF IntakesHold, Stands
  <2>4. AuditsPass(c)'
    BY <2>3, MarketFrame
  <2> QED BY <2>1, <2>4
<1> QED BY <1>1, <1>2 DEF IntakesHold

LEMMA IntakesFrame ==
  ASSUME IntakesHold, UNCHANGED <<market, intake>>
  PROVE  IntakesHold'
<1>1. ASSUME NEW q \in Intakers, Stands(q, "RENAME")' PROVE AuditsPass(intake[q])'
  <2>1. PICK c : c = intake'[q]
    OBVIOUS
  <2>2. AuditsPass(c)
    BY <1>1, <2>1 DEF IntakesHold, Stands
  <2>3. AuditsPass(c)'
    BY <2>2, MarketFrame
  <2> QED BY <2>1, <2>3
<1> QED BY <1>1 DEF IntakesHold

\* The origin of what was returned outlasts a step that does not pin an inventory again.
LEMMA OriginKept ==
  ASSUME market' = market, NEW r, FromIntake(r) \/ FromRecovery(r),
         \/ UNCHANGED <<inventory, pinnedTwice>>
         \/ pinnedTwice' = (pinnedTwice \/ inventory # NoInventory)
  PROVE  FromIntake(r)' \/ FromRecovery(r)'
<1>1. CASE FromIntake(r)
  <2>1. AuditsPass(CallOf(r[2]))' /\ SliceOf(CallOf(r[2]))' = SliceOf(CallOf(r[2]))
    <3>1. PICK c : c = CallOf(r[2])
      OBVIOUS
    <3>2. AuditsPass(c)' /\ SliceOf(c)' = SliceOf(c)
      BY <1>1, <3>1, MarketFrame DEF FromIntake
    <3> QED BY <3>1, <3>2 DEF CallOf
  <2> QED BY <1>1, <2>1 DEF FromIntake, CallOf
<1>2. CASE FromRecovery(r)
  BY <1>2 DEF FromRecovery
<1> QED BY <1>1, <1>2

LEMMA ReturnedFrame ==
  ASSUME ReturnedHold, UNCHANGED <<market, destination, returned>>,
         \/ UNCHANGED <<inventory, pinnedTwice>>
         \/ pinnedTwice' = (pinnedTwice \/ inventory # NoInventory)
  PROVE  ReturnedHold'
<1>1. \A r \in returned : FromIntake(r)' \/ FromRecovery(r)'
  BY OriginKept DEF ReturnedHold
<1>2. OneSlicePerId'
  BY DEF ReturnedHold, OneSlicePerId, IsSlice
<1> QED BY <1>1, <1>2 DEF ReturnedHold

\* An empty directory is removed: nothing was returned for it.
LEMMA ReturnedCleared ==
  ASSUME market \in Markets, ReturnedHold, NEW id \in SliceIds, destination[id] = Vacant,
         destination' = [destination EXCEPT ![id] = NoDirectory],
         UNCHANGED <<market, returned, inventory, pinnedTwice>>
  PROVE  ReturnedHold'
<1>1. \A r \in returned : FromIntake(r)' \/ FromRecovery(r)'
  BY OriginKept DEF ReturnedHold
<1>2. \A r \in returned : r[1] # id
  BY ReturnedIsSlice DEF ReturnedHold, IsSlice
<1>3. \A r \in returned : r[1] \in SliceIds /\ destination'[r[1]] = r[2]
  BY <1>2 DEF ReturnedHold
<1>4. OneSlicePerId'
  BY <1>2 DEF ReturnedHold, OneSlicePerId, IsSlice
<1> QED BY <1>1, <1>3, <1>4 DEF ReturnedHold

\* A directory is renamed to a free place.
LEMMA ReturnedFrozen ==
  ASSUME market \in Markets, ReturnedHold, NEW id \in SliceIds, NEW slice,
         Renames(id), Freeze(id, slice),
         FromIntake(<<id, slice>>) \/ FromRecovery(<<id, slice>>),
         UNCHANGED <<market, inventory, pinnedTwice>>
  PROVE  ReturnedHold'
<1>1. PICK new : new = <<id, slice>>
  OBVIOUS
<1>2. new[1] = id /\ new[2] = slice /\ (FromIntake(new) \/ FromRecovery(new))
  BY <1>1
<1>3. IsSlice(slice)
  BY <1>2, ReturnedIsSlice
<1>4. returned' = returned \cup {new} /\ destination' = [destination EXCEPT ![id] = slice]
  BY <1>1 DEF Freeze
<1>5. \A r \in returned : r[1] # id
  BY ReturnedIsSlice DEF ReturnedHold, Renames
<1>6. \A r \in returned' : FromIntake(r)' \/ FromRecovery(r)'
  BY <1>2, <1>4, OriginKept DEF ReturnedHold
<1>7. \A r \in returned' : r[1] \in SliceIds /\ destination'[r[1]] = r[2]
  BY <1>2, <1>4, <1>5 DEF ReturnedHold
<1>8. destination' = [i \in SliceIds |-> destination'[i]]
  BY <1>4 DEF ReturnedHold
<1>9. OneSlicePerId'
  <2>1. \A r, q \in returned' : r[1] = q[1] => r = q
    BY <1>2, <1>4, <1>5 DEF ReturnedHold, OneSlicePerId
  <2>2. ASSUME NEW i \in SliceIds
        PROVE  IsSlice(destination'[i]) <=> \E r \in returned' : r = <<i, destination'[i]>>
    <3>1. CASE i = id
      BY <1>1, <1>3, <1>4, <3>1 DEF ReturnedHold
    <3>2. CASE i # id
      <4>1. destination'[i] = destination[i]
        BY <1>4, <3>2 DEF ReturnedHold
      <4>2. new # <<i, destination[i]>>
        BY <1>2, <3>2
      <4> QED BY <1>4, <4>1, <4>2 DEF ReturnedHold, OneSlicePerId
    <3> QED BY <3>1, <3>2
  <2> QED BY <2>1, <2>2 DEF OneSlicePerId, IsSlice
<1> QED BY <1>6, <1>7, <1>8, <1>9 DEF ReturnedHold

\* A step of one call that writes no inventory.
LEMMA RecoveryTurn ==
  ASSUME RecoveriesHold, NEW p \in Recoverers, NEW v, Turn(p, v),
         UNCHANGED <<inventory, pinnedTwice>>, v = NoRecovery \/ RecoveryHolds(v)
  PROVE  RecoveriesHold'
<1>1. recovery' = [q \in Recoverers |-> recovery'[q]] /\ recovery'[p] = v
  BY DEF Turn, RecoveriesHold
<1>2. \A q \in Recoverers \ {p} : recovery'[q] = recovery[q]
  BY DEF Turn, RecoveriesHold
<1>3. ASSUME NEW q \in Recoverers, recovery'[q] # NoRecovery PROVE RecoveryHolds(recovery[q])'
  <2>1. PICK c : c = recovery'[q]
    OBVIOUS
  <2>2. RecoveryHolds(c)
    BY <1>1, <1>2, <1>3, <2>1 DEF RecoveriesHold
  <2>3. RecoveryHolds(c)'
    BY <2>2 DEF RecoveryHolds
  <2> QED BY <2>1, <2>3
<1> QED BY <1>1, <1>3 DEF RecoveriesHold

LEMMA RecoveriesFrame ==
  ASSUME RecoveriesHold, UNCHANGED <<recovery, inventory, pinnedTwice>>
  PROVE  RecoveriesHold'
BY DEF RecoveriesHold, RecoveryHolds

\* The inventory is written.  Whoever has loaded one before sees that it is the second.
LEMMA RecoveryPins ==
  ASSUME RecoveriesHold, NEW p \in Recoverers, Abandon(p),
         pinnedTwice' = (pinnedTwice \/ inventory # NoInventory)
  PROVE  RecoveriesHold'
<1>1. recovery' = [q \in Recoverers |-> recovery'[q]] /\ recovery'[p] = NoRecovery
  BY DEF Abandon, Turn, RecoveriesHold
<1>2. \A q \in Recoverers \ {p} : recovery'[q] = recovery[q]
  BY DEF Abandon, Turn, RecoveriesHold
<1>3. ASSUME NEW q \in Recoverers, recovery'[q] # NoRecovery PROVE RecoveryHolds(recovery[q])'
  <2>1. PICK c : c = recovery'[q]
    OBVIOUS
  <2>2. RecoveryHolds(c)
    BY <1>1, <1>2, <1>3, <2>1 DEF RecoveriesHold
  <2>3. ~pinnedTwice' => ~pinnedTwice /\ inventory = NoInventory
    OBVIOUS
  <2>4. RecoveryHolds(c)'
    BY <2>2, <2>3 DEF RecoveryHolds
  <2> QED BY <2>1, <2>4
<1> QED BY <1>1, <1>3 DEF RecoveriesHold

\* The audits do not look at how far a call is.
LEMMA AuditsAlike ==
  ASSUME NEW c, NEW d, c.profile = d.profile, c.absent = d.absent
  PROVE  (AuditsPass(c) <=> AuditsPass(d)) /\ SliceOf(c) = SliceOf(d)
<1>1. \A quotes : M1Rows(c, quotes) = M1Rows(d, quotes)
  BY DEF M1Rows
<1>2. FullMonth(c) <=> FullMonth(d)
  BY DEF FullMonth
<1>3. NativeDays(c) = NativeDays(d)
  BY <1>2 DEF NativeDays
<1>4. \A quotes : /\ NativeRows(c, quotes) = NativeRows(d, quotes)
                  /\ PostTarget(c, quotes) = PostTarget(d, quotes)
  BY <1>1, <1>3 DEF NativeRows, PostTarget
<1>5. \A quotes : H1Rows(c, quotes) = H1Rows(d, quotes)
  BY <1>4 DEF H1Rows
<1>6. \A quotes : H1Reconciliation(c, quotes) <=> H1Reconciliation(d, quotes)
  BY <1>1, <1>3, <1>4 DEF H1Reconciliation
<1>7. \A quotes : PostTargetAudit(c, quotes) <=> PostTargetAudit(d, quotes)
  BY <1>3, <1>4 DEF PostTargetAudit
<1>8. BidAskAudit(c) <=> BidAskAudit(d)
  BY <1>1, <1>5 DEF BidAskAudit
<1>9. AuditsPass(c) <=> AuditsPass(d)
  BY <1>1, <1>2, <1>5, <1>6, <1>7, <1>8 DEF AuditsPass
<1>10. SliceOf(c) = SliceOf(d)
  BY <1>1, <1>5 DEF SliceOf
<1> QED BY <1>9, <1>10

\* A step of an intake before the rename, or after a failure.
LEMMA IntakeQuietStep ==
  ASSUME SourceIInv, NEW p \in Intakers, UNCHANGED recoveryVars,
         \/ \E profile \in Profiles : CheckDestination(p, profile)
         \/ FetchObjects(p) \/ AuditRows(p) \/ IntakeRaises(p)
         \/ QuarantineStaging(p) \/ StopIntake(p)
  PROVE  SourceIInv'
<1>1. UNCHANGED <<market, destination, returned, recovery, inventory, pinnedTwice>>
  BY DEF CheckDestination, FetchObjects, AuditRows, IntakeRaises, QuarantineStaging, StopIntake,
         recoveryVars, recoveryState
<1>2. ReturnedHold'
  BY <1>1, ReturnedFrame DEF SourceIInv
<1>3. RecoveriesHold'
  BY <1>1, RecoveriesFrame DEF SourceIInv
<1>4. intake \in [Intakers -> IntakeCalls \cup {NoIntake}] /\ IntakesHold
  BY DEF SourceIInv, IntakesHold
<1>5. IntakesHold'
  <2>1. ASSUME NEW profile \in Profiles, CheckDestination(p, profile) PROVE IntakesHold'
    <3>1. PICK v : /\ intake' = [intake EXCEPT ![p] = v]
                   /\ v = [profile |-> profile, absent |-> {},
                           pc |-> IF destination[SliceId(profile)] = Vacant THEN "CLEAR" ELSE "FETCH"]
      BY <2>1 DEF CheckDestination
    <3>2. v \in IntakeCalls /\ v.pc # "RENAME"
      BY <3>1 DEF IntakeCalls
    <3> QED BY <1>1, <1>4, <3>1, <3>2, IntakeTurn
  <2>2. CASE FetchObjects(p)
    <3>1. PICK absent \in NotPresent : intake' = [intake EXCEPT ![p].absent = absent, ![p].pc = "AUDIT"]
      BY <2>2 DEF FetchObjects
    <3>2. intake[p] \in IntakeCalls
      BY <1>4, <2>2 DEF FetchObjects, Stands
    <3>3. PICK v : v = [intake[p] EXCEPT !.absent = absent, !.pc = "AUDIT"]
      OBVIOUS
    <3>4. intake' = [intake EXCEPT ![p] = v]
      BY <1>4, <3>1, <3>2, <3>3 DEF IntakeCalls
    <3>5. absent \in SUBSET (QuoteSides \X Days)
      BY DEF NotPresent, Offered
    <3>6. v \in IntakeCalls /\ v.pc # "RENAME"
      BY <3>2, <3>3, <3>5 DEF IntakeCalls
    <3> QED BY <1>1, <1>4, <3>4, <3>6, IntakeTurn
  <2>3. ASSUME NEW pc \in {"RENAME", "FAILED"}, intake[p] # NoIntake, Step(p, pc),
               pc = "RENAME" => AuditsPass(intake[p])
        PROVE  IntakesHold'
    <3>1. PICK c : c = intake[p]
      OBVIOUS
    <3>2. c \in IntakeCalls
      BY <1>4, <2>3, <3>1
    <3>3. PICK v : v = [c EXCEPT !.pc = pc]
      OBVIOUS
    <3>4. intake' = [intake EXCEPT ![p] = v]
      BY <2>3, <3>1, <3>3 DEF Step
    <3>5. v \in IntakeCalls /\ v.pc = pc /\ v.profile = c.profile /\ v.absent = c.absent
      BY <3>2, <3>3 DEF IntakeCalls
    <3>6. AuditsPass(v) <=> AuditsPass(c)
      BY <3>5, AuditsAlike
    <3> QED BY <1>1, <1>4, <2>3, <3>1, <3>4, <3>5, <3>6, IntakeTurn
  <2>4. CASE AuditRows(p)
    BY <2>3, <2>4 DEF AuditRows, Stands
  <2>5. CASE IntakeRaises(p)
    BY <2>3, <2>5 DEF IntakeRaises, Stands
  <2>6. CASE QuarantineStaging(p) \/ StopIntake(p)
    BY <1>1, <1>4, <2>6, IntakeTurn DEF QuarantineStaging, StopIntake, EndIntake
  <2> QED BY <2>1, <2>2, <2>4, <2>5, <2>6
<1> QED BY <1>1, <1>2, <1>3, <1>5 DEF SourceIInv

LEMMA SliceIdType ==
  \A profile : SliceId(profile) \in SliceIds
BY DEF SliceId, SliceIds

\* rmdir of the empty directory at the destination.
LEMMA ClearDestinationKeeps ==
  ASSUME SourceIInv, NEW p \in Intakers, UNCHANGED recoveryVars, ClearDestination(p)
  PROVE  SourceIInv'
<1>1. UNCHANGED <<market, returned, recovery, inventory, pinnedTwice>>
  BY DEF ClearDestination, recoveryVars, recoveryState
<1>2. RecoveriesHold'
  BY <1>1, RecoveriesFrame DEF SourceIInv
<1>3. PICK c : c = intake[p]
  OBVIOUS
<1>4. IntakesHold /\ c \in IntakeCalls
  BY <1>3 DEF SourceIInv, IntakesHold, ClearDestination, Stands
<1>5. PICK id : id = SliceId(c.profile)
  OBVIOUS
<1>6. id \in SliceIds
  BY <1>5, SliceIdType
<1>7. CASE destination[id] = Vacant
  <2>1. destination' = [destination EXCEPT ![id] = NoDirectory] /\ Step(p, "FETCH")
    BY <1>3, <1>5, <1>7 DEF ClearDestination
  <2>2. PICK v : v = [c EXCEPT !.pc = "FETCH"]
    OBVIOUS
  <2>3. intake' = [intake EXCEPT ![p] = v]
    BY <1>3, <2>1, <2>2 DEF Step
  <2>4. v \in IntakeCalls /\ v.pc # "RENAME"
    BY <1>4, <2>2 DEF IntakeCalls
  <2>5. IntakesHold'
    BY <1>1, <1>4, <2>3, <2>4, IntakeTurn
  <2>6. ReturnedHold'
    BY <1>1, <1>6, <1>7, <2>1, ReturnedCleared DEF SourceIInv
  <2> QED BY <1>1, <1>2, <2>5, <2>6 DEF SourceIInv
<1>8. CASE destination[id] # Vacant
  <2>1. EndIntake(p) /\ UNCHANGED destination
    BY <1>3, <1>5, <1>8 DEF ClearDestination
  <2>2. IntakesHold'
    BY <1>1, <1>4, <2>1, IntakeTurn DEF EndIntake
  <2>3. ReturnedHold'
    BY <1>1, <2>1, ReturnedFrame DEF SourceIInv
  <2> QED BY <1>1, <1>2, <2>2, <2>3 DEF SourceIInv
<1> QED BY <1>7, <1>8

\* The rename of an audited staging directory.
LEMMA RenameStagingKeeps ==
  ASSUME SourceIInv, NEW p \in Intakers, UNCHANGED recoveryVars, RenameStaging(p)
  PROVE  SourceIInv'
<1>1. UNCHANGED <<market, recovery, inventory, pinnedTwice>>
  BY DEF RenameStaging, recoveryVars, recoveryState
<1>2. RecoveriesHold'
  BY <1>1, RecoveriesFrame DEF SourceIInv
<1>3. PICK c : c = intake[p]
  OBVIOUS
<1>4. IntakesHold /\ c \in IntakeCalls /\ c.pc = "RENAME" /\ AuditsPass(c)
  BY <1>3 DEF SourceIInv, IntakesHold, RenameStaging, Stands
<1>5. PICK id : id = SliceId(c.profile)
  OBVIOUS
<1>6. id \in SliceIds
  BY <1>5, SliceIdType
<1>7. CASE Renames(id)
  <2>1. Freeze(id, SliceOf(c)) /\ EndIntake(p)
    BY <1>3, <1>5, <1>7 DEF RenameStaging
  <2>2. PICK slice : slice = SliceOf(c)
    OBVIOUS
  <2>3. slice.profile = c.profile /\ slice.absent = c.absent
    BY <2>2 DEF SliceOf
  <2>4. CallOf(slice) = c
    BY <1>4, <2>3 DEF CallOf, IntakeCalls
  <2>5. c.profile \in Profiles
    BY <1>4 DEF IntakeCalls
  <2>6. FromIntake(<<id, slice>>)
    BY <1>4, <1>5, <2>2, <2>3, <2>4, <2>5 DEF FromIntake
  <2>7. ReturnedHold'
    BY <1>1, <1>6, <1>7, <2>1, <2>2, <2>6, ReturnedFrozen DEF SourceIInv
  <2>8. IntakesHold'
    BY <1>1, <1>4, <2>1, IntakeTurn DEF EndIntake
  <2> QED BY <1>1, <1>2, <2>7, <2>8 DEF SourceIInv
<1>8. CASE ~Renames(id)
  <2>1. Step(p, "FAILED") /\ UNCHANGED <<destination, returned>>
    BY <1>3, <1>5, <1>8 DEF RenameStaging
  <2>2. PICK v : v = [c EXCEPT !.pc = "FAILED"]
    OBVIOUS
  <2>3. intake' = [intake EXCEPT ![p] = v]
    BY <1>3, <2>1, <2>2 DEF Step
  <2>4. v \in IntakeCalls /\ v.pc # "RENAME"
    BY <1>4, <2>2 DEF IntakeCalls
  <2>5. IntakesHold'
    BY <1>1, <1>4, <2>3, <2>4, IntakeTurn
  <2>6. ReturnedHold'
    BY <1>1, <2>1, ReturnedFrame DEF SourceIInv
  <2> QED BY <1>1, <1>2, <2>5, <2>6 DEF SourceIInv
<1> QED BY <1>7, <1>8

\* A step of a recovery that moves its own call only.
LEMMA RecoveryQuietStep ==
  ASSUME SourceIInv, NEW p \in Recoverers, UNCHANGED <<recoveryState, intakeVars>>,
         \/ TakeFile(p) \/ BeginInventory(p) \/ CheckInventory(p) \/ BeginFreeze(p)
         \/ LoadInventory(p) \/ CompareInventory(p) \/ InspectBefore(p) \/ EvaluateCopies(p)
         \/ InspectAfter(p) \/ RecoveryRaises(p) \/ QuarantineRecovered(p)
  PROVE  SourceIInv'
<1>1. UNCHANGED <<market, destination, intake, returned, inventory, pinnedTwice>>
  BY DEF intakeVars, recoveryState
<1>2. ReturnedHold' /\ IntakesHold'
  BY <1>1, ReturnedFrame, IntakesFrame DEF SourceIInv
<1>3. PICK c : c = recovery[p]
  OBVIOUS
<1>4. RecoveriesHold /\ (c # NoRecovery => RecoveryHolds(c))
  BY <1>3 DEF SourceIInv, RecoveriesHold
<1>5. SUFFICES \E v : Turn(p, v) /\ (v = NoRecovery \/ RecoveryHolds(v))
  BY <1>1, <1>2, <1>4, RecoveryTurn DEF SourceIInv
<1>6. CASE TakeFile(p)
  <2>1. PICK v : Turn(p, v) /\ v = [c EXCEPT !.todo = v.todo, !.seen = v.seen]
    <3>1. PICK todo, seen : Turn(p, [c EXCEPT !.todo = todo, !.seen = seen])
      BY <1>3, <1>6 DEF TakeFile
    <3>2. c # NoRecovery
      BY <1>3, <1>6 DEF TakeFile
    <3>3. [c EXCEPT !.todo = todo, !.seen = seen].todo = todo
          /\ [c EXCEPT !.todo = todo, !.seen = seen].seen = seen
      BY <1>4, <3>2 DEF RecoveryHolds, NewCall
    <3> QED BY <3>1, <3>3
  <2>2. RecoveryHolds(c)
    BY <1>3, <1>4, <1>6 DEF TakeFile
  <2>3. RecoveryHolds(v)
    BY <2>1, <2>2 DEF RecoveryHolds, NewCall
  <2> QED BY <2>1, <2>3
<1>7. CASE BeginInventory(p)
  <2>1. Turn(p, NewCall("INVENTORY", PinnedFiles))
    BY <1>7 DEF BeginInventory
  <2>2. RecoveryHolds(NewCall("INVENTORY", PinnedFiles))
    BY DEF RecoveryHolds, NewCall
  <2> QED BY <2>1, <2>2
<1>8. CASE BeginFreeze(p)
  <2>1. PICK pc \in {"CLEAR", "LOAD"} : Turn(p, NewCall(pc, {}))
    BY <1>8 DEF BeginFreeze
  <2>2. RecoveryHolds(NewCall(pc, {}))
    BY DEF RecoveryHolds, NewCall
  <2> QED BY <2>1, <2>2
<1>9. CASE CheckInventory(p) \/ RecoveryRaises(p) \/ QuarantineRecovered(p)
  <2>1. RecoveryHolds(c)
    BY <1>3, <1>4, <1>9 DEF CheckInventory, RecoveryRaises, QuarantineRecovered, Passed, InPass
  <2>2. RecoveryHolds([c EXCEPT !.pc = "PIN"]) /\ RecoveryHolds([c EXCEPT !.pc = "FAILED", !.todo = {}])
    <3>1. PICK v, w : v = [c EXCEPT !.pc = "PIN"] /\ w = [c EXCEPT !.pc = "FAILED", !.todo = {}]
      OBVIOUS
    <3>2. RecoveryHolds(v) /\ RecoveryHolds(w)
      BY <2>1, <3>1 DEF RecoveryHolds
    <3> QED BY <3>1, <3>2
  <2>3. CASE CheckInventory(p)
    BY <1>3, <2>2, <2>3 DEF CheckInventory, Abandon
  <2>4. CASE RecoveryRaises(p)
    BY <1>3, <2>2, <2>4 DEF RecoveryRaises
  <2>5. CASE QuarantineRecovered(p)
    BY <2>5 DEF QuarantineRecovered, Abandon
  <2> QED BY <1>9, <2>3, <2>4, <2>5
<1>10. CASE LoadInventory(p)
  <2>1. RecoveryHolds(c)
    BY <1>3, <1>4, <1>10 DEF LoadInventory, InPass
  <2>2. CASE inventory \in {NoInventory, Torn}
    BY <1>10, <2>2 DEF LoadInventory, Abandon
  <2>3. CASE inventory \notin {NoInventory, Torn}
    <3>1. PICK v : Turn(p, v) /\ v = [NextPass(c, "COMPARE") EXCEPT !.pinned = inventory]
      BY <1>3, <1>10, <2>3 DEF LoadInventory
    <3>2. RecoveryHolds(v)
      BY <2>1, <2>3, <3>1 DEF RecoveryHolds, NewCall, NextPass
    <3> QED BY <3>1, <3>2
  <2> QED BY <2>2, <2>3
<1>11. CASE CompareInventory(p)
  <2>1. RecoveryHolds(c) /\ c.pc = "COMPARE"
    BY <1>3, <1>4, <1>11 DEF CompareInventory, Passed, InPass
  <2>2. PICK v : v = NextPass(c, "BEFORE")
    OBVIOUS
  <2>3. RecoveryHolds(v)
    BY <2>1, <2>2 DEF RecoveryHolds, NextPass
  <2> QED BY <1>3, <1>11, <2>2, <2>3 DEF CompareInventory, Abandon
<1>12. CASE InspectBefore(p)
  <2>1. RecoveryHolds(c) /\ c.pc = "BEFORE"
    BY <1>3, <1>4, <1>12 DEF InspectBefore, Passed, InPass
  <2>2. PICK v : Turn(p, v) /\ v = [NextPass(c, "COPY") EXCEPT !.before = c.seen]
    BY <1>3, <1>12 DEF InspectBefore
  <2>3. RecoveryHolds(v)
    BY <2>1, <2>2 DEF RecoveryHolds, NewCall, NextPass
  <2> QED BY <2>2, <2>3
<1>13. CASE EvaluateCopies(p)
  <2>1. RecoveryHolds(c) /\ c.pc = "COPY"
    BY <1>3, <1>4, <1>13 DEF EvaluateCopies, Passed, InPass
  <2>2. CASE CopiesVerify(c) /\ c.seen \in Acceptable
    <3>1. PICK v : Turn(p, v) /\ v = [NextPass(c, "AFTER") EXCEPT !.copy = c.seen]
      BY <1>3, <1>13, <2>2 DEF EvaluateCopies
    <3>2. RecoveryHolds(v)
      BY <2>1, <2>2, <3>1 DEF RecoveryHolds, NewCall, NextPass, CopiesVerify
    <3> QED BY <3>1, <3>2
  <2>3. CASE ~(CopiesVerify(c) /\ c.seen \in Acceptable)
    <3>1. PICK v : Turn(p, v) /\ v = [c EXCEPT !.pc = "FAILED"]
      BY <1>3, <1>13, <2>3 DEF EvaluateCopies
    <3>2. RecoveryHolds(v)
      BY <2>1, <3>1 DEF RecoveryHolds, NewCall
    <3> QED BY <3>1, <3>2
  <2> QED BY <2>2, <2>3
<1>14. CASE InspectAfter(p)
  <2>1. RecoveryHolds(c) /\ c.pc = "AFTER"
    BY <1>3, <1>4, <1>14 DEF InspectAfter, Passed, InPass
  <2>2. PICK pc \in {"RENAME", "FAILED"} : Turn(p, [c EXCEPT !.pc = pc])
    BY <1>3, <1>14 DEF InspectAfter
  <2>3. RecoveryHolds([c EXCEPT !.pc = pc])
    BY <2>1 DEF RecoveryHolds, NewCall
  <2> QED BY <2>2, <2>3
<1> QED BY <1>6, <1>7, <1>8, <1>9, <1>10, <1>11, <1>12, <1>13, <1>14

LEMMA RemoveVacantKeeps ==
  ASSUME SourceIInv, NEW p \in Recoverers, RemoveVacant(p)
  PROVE  SourceIInv'
<1>1. UNCHANGED <<market, intake, returned, inventory, pinnedTwice>>
  BY DEF RemoveVacant, recoveryState
<1>2. IntakesHold' /\ "RPS" \in SliceIds
  BY <1>1, IntakesFrame DEF SourceIInv, SliceIds
<1>3. PICK c : c = recovery[p]
  OBVIOUS
<1>4. RecoveriesHold /\ RecoveryHolds(c)
  BY <1>3 DEF SourceIInv, RecoveriesHold, RemoveVacant, InPass
<1>5. CASE destination["RPS"] = Vacant
  <2>1. PICK v : Turn(p, v) /\ v = [c EXCEPT !.pc = "LOAD"]
    BY <1>3, <1>5 DEF RemoveVacant
  <2>2. RecoveryHolds(v)
    BY <1>4, <2>1 DEF RecoveryHolds
  <2>3. RecoveriesHold'
    BY <1>1, <1>4, <2>1, <2>2, RecoveryTurn
  <2>4. ReturnedHold'
    BY <1>1, <1>2, <1>5, ReturnedCleared DEF SourceIInv, RemoveVacant
  <2> QED BY <1>1, <1>2, <2>3, <2>4 DEF SourceIInv
<1>6. CASE destination["RPS"] # Vacant
  <2>1. Turn(p, NoRecovery) /\ UNCHANGED destination
    BY <1>6 DEF RemoveVacant, Abandon
  <2>2. RecoveriesHold'
    BY <1>1, <1>4, <2>1, RecoveryTurn
  <2>3. ReturnedHold'
    BY <1>1, <2>1, ReturnedFrame DEF SourceIInv
  <2> QED BY <1>1, <1>2, <2>2, <2>3 DEF SourceIInv
<1> QED BY <1>5, <1>6

\* The rename of the copies.
LEMMA RenameRecoveredKeeps ==
  ASSUME SourceIInv, NEW p \in Recoverers, RenameRecovered(p)
  PROVE  SourceIInv'
<1>1. UNCHANGED <<market, intake, inventory, pinnedTwice>>
  BY DEF RenameRecovered, recoveryState
<1>2. IntakesHold' /\ "RPS" \in SliceIds
  BY <1>1, IntakesFrame DEF SourceIInv, SliceIds
<1>3. PICK c : c = recovery[p]
  OBVIOUS
<1>4. RecoveriesHold /\ RecoveryHolds(c) /\ c.pc = "RENAME"
  BY <1>3 DEF SourceIInv, RecoveriesHold, RenameRecovered, InPass
<1>5. CASE Renames("RPS")
  <2>1. PICK slice : /\ slice = [profile |-> "G1B", files |-> c.copy, inventory |-> c.pinned]
                     /\ Freeze("RPS", slice)
    BY <1>3, <1>5 DEF RenameRecovered
  <2>2. slice \in Recovered /\ slice.files = slice.inventory
    BY <1>4, <2>1 DEF RecoveryHolds, Recovered
  <2>3. ~pinnedTwice => slice.inventory = inventory /\ inventory # NoInventory
    BY <1>4, <2>1 DEF RecoveryHolds
  <2>4. FromRecovery(<<"RPS", slice>>)
    BY <2>2, <2>3 DEF FromRecovery
  <2>5. ReturnedHold'
    BY <1>1, <1>2, <1>5, <2>1, <2>4, ReturnedFrozen DEF SourceIInv
  <2>6. RecoveriesHold'
    BY <1>1, <1>4, <1>5, RecoveryTurn DEF RenameRecovered, Abandon
  <2> QED BY <1>1, <1>2, <2>5, <2>6 DEF SourceIInv
<1>6. CASE ~Renames("RPS")
  <2>1. PICK v : Turn(p, v) /\ v = [c EXCEPT !.pc = "FAILED"]
    BY <1>3, <1>6 DEF RenameRecovered
  <2>2. RecoveryHolds(v)
    BY <1>4, <2>1 DEF RecoveryHolds
  <2>3. RecoveriesHold'
    BY <1>1, <1>4, <2>1, <2>2, RecoveryTurn
  <2>4. ReturnedHold'
    BY <1>1, <1>6, ReturnedFrame DEF SourceIInv, RenameRecovered
  <2> QED BY <1>1, <1>2, <2>3, <2>4 DEF SourceIInv
<1> QED BY <1>5, <1>6

\* A command writes the inventory, in whole or in part, or ends.
LEMMA PinOrStopKeeps ==
  ASSUME SourceIInv, NEW p \in Recoverers, WriteInventory(p) \/ StopRecovery(p)
  PROVE  SourceIInv'
<1>1. UNCHANGED <<market, destination, intake, returned>> /\ Abandon(p)
  BY DEF WriteInventory, StopRecovery, intakeVars
<1>2. \/ UNCHANGED <<inventory, pinnedTwice>>
      \/ pinnedTwice' = (pinnedTwice \/ inventory # NoInventory)
  BY DEF WriteInventory, StopRecovery
<1>3. IntakesHold'
  BY <1>1, IntakesFrame DEF SourceIInv
<1>4. ReturnedHold'
  BY <1>1, <1>2, ReturnedFrame DEF SourceIInv
<1>5. RecoveriesHold'
  <2>1. CASE UNCHANGED <<inventory, pinnedTwice>>
    BY <1>1, <2>1, RecoveryTurn DEF SourceIInv, Abandon
  <2>2. CASE pinnedTwice' = (pinnedTwice \/ inventory # NoInventory)
    BY <1>1, <2>2, RecoveryPins DEF SourceIInv
  <2> QED BY <1>2, <2>1, <2>2
<1> QED BY <1>1, <1>3, <1>4, <1>5 DEF SourceIInv

\* What the invariant says of the slices that were returned.
LEMMA SourceHolds ==
  ASSUME SourceIInv
  PROVE  SourceInv
<1>1. ASSUME NEW slice \in IntakeSlices
      PROVE  \E c : /\ AuditsPass(c) /\ c.profile \in Profiles /\ slice = SliceOf(c)
                    /\ slice.profile = c.profile /\ slice.absent = c.absent
                    /\ \A quotes \in QuoteSides : /\ slice.m1[quotes] = M1Rows(c, quotes)
                                                  /\ slice.h1[quotes] = H1Rows(c, quotes)
  <2>1. PICK r \in returned : slice = r[2] /\ slice.profile \in Profiles
    BY DEF IntakeSlices
  <2>2. FromIntake(r)
    BY <2>1, IntakeAssumption DEF SourceIInv, ReturnedHold, FromRecovery, Recovered
  <2>3. PICK c : c = CallOf(slice)
    OBVIOUS
  <2>4. AuditsPass(c) /\ slice = SliceOf(c)
    BY <2>1, <2>2, <2>3 DEF FromIntake
  <2>5. c.profile = slice.profile /\ c.absent = slice.absent
    BY <2>3 DEF CallOf
  <2>6. \A quotes \in QuoteSides : /\ slice.m1[quotes] = M1Rows(c, quotes)
                                   /\ slice.h1[quotes] = H1Rows(c, quotes)
    BY <2>4 DEF SliceOf
  <2> QED BY <2>1, <2>4, <2>5, <2>6
<1>2. OneSlicePerId /\ market \in Markets
  BY DEF SourceIInv, ReturnedHold
<1>3. OneDenialIsCaught
  <2> SUFFICES ASSUME NEW slice \in IntakeSlices, NEW d \in Days, NEW quotes \in QuoteSides,
                      MinutesOf(d) \cap market.m1[quotes] # MinutesOf(d) \cap slice.m1[quotes],
                      NEW other \in QuoteSides, <<other, d>> \in Offered
               PROVE  <<other, d>> \in slice.absent
    BY DEF OneDenialIsCaught
  <2>1. PICK c : /\ AuditsPass(c) /\ slice.absent = c.absent
                 /\ slice.m1[quotes] = M1Rows(c, quotes)
    BY <1>1
  <2> QED BY <1>2, <2>1, AuditCatchesDenials
<1>4. SessionsWhole
  <2> SUFFICES ASSUME NEW slice \in IntakeSlices, slice.profile # "A2", NEW quotes \in QuoteSides,
                      NEW rows, rows = slice.m1[quotes]
               PROVE  /\ \A l, r \in rows : OneSession(DayOf(l), DayOf(r)) => l..r \subseteq rows
                      /\ \A t \in rows : /\ OneSession(1, DayOf(t)) => 1 \in rows
                                         /\ OneSession(DayOf(t), LastDay) => Max(Minutes) \in rows
    BY DEF SessionsWhole
  <2>1. PICK c : /\ AuditsPass(c) /\ c.profile \in Profiles /\ slice.profile = c.profile
                 /\ slice.m1[quotes] = M1Rows(c, quotes)
    BY <1>1
  <2>2. c.profile \in {"RPS", "A1"}
    BY <2>1, IntakeAssumption
  <2> QED BY <1>2, <2>1, <2>2, AuditGivesSessions
<1>5. HoursFollowMinutes
  <2> SUFFICES ASSUME NEW slice \in IntakeSlices, NEW whole,
                      whole = {d \in Days : MinutesOf(d) \subseteq slice.m1["BID"]}
               PROVE  /\ slice.m1["BID"] = slice.m1["ASK"] /\ slice.h1["BID"] = slice.h1["ASK"]
                      /\ whole # {} /\ whole \subseteq slice.h1["BID"]
                      /\ slice.profile # "RPS" => slice.h1["BID"] \ whole \subseteq 1..TargetDays
    BY DEF HoursFollowMinutes
  <2>1. PICK c : /\ AuditsPass(c) /\ c.profile \in Profiles /\ slice.profile = c.profile
                 /\ \A quotes \in QuoteSides : /\ slice.m1[quotes] = M1Rows(c, quotes)
                                               /\ slice.h1[quotes] = H1Rows(c, quotes)
    BY <1>1
  <2>2. /\ slice.m1["BID"] = M1Rows(c, "BID") /\ slice.m1["ASK"] = M1Rows(c, "ASK")
        /\ slice.h1["BID"] = H1Rows(c, "BID") /\ slice.h1["ASK"] = H1Rows(c, "ASK")
    BY <2>1 DEF QuoteSides
  <2>3. whole = CompleteHours(M1Rows(c, "BID"))
    BY <2>2 DEF CompleteHours
  <2> QED BY <1>2, <2>1, <2>2, <2>3, AuditGivesHours
<1>6. RecoveredAsPinned
  <2> SUFFICES ASSUME NEW r \in returned, r[2].profile = "G1B"
               PROVE  /\ r[2].files = r[2].inventory
                      /\ r[2].files \in Acceptable
                      /\ ~pinnedTwice => r[2].inventory = inventory
    BY DEF RecoveredAsPinned
  <2>1. FromRecovery(r)
    BY IntakeAssumption DEF SourceIInv, ReturnedHold, FromIntake
  <2> QED BY <2>1 DEF FromRecovery, Recovered
<1> QED BY <1>2, <1>3, <1>4, <1>5, <1>6 DEF SourceInv

\* Any number of intakes of any profiles and recoveries, on one set of destinations:
\* a destination is frozen once, and what was frozen there keeps what the audits of
\* execute_intake and the comparisons of freeze promise of it (SourceInv).
THEOREM SourceCorrect == SourceSpec => []SourceInv
<1>1. IntakeInit /\ RecoveryInit => SourceIInv
  <2> SUFFICES ASSUME IntakeInit, RecoveryInit PROVE SourceIInv
    OBVIOUS
  <2>1. IntakesHold
    BY DEF IntakeInit, IntakesHold, Stands
  <2>2. RecoveriesHold
    BY DEF RecoveryInit, RecoveriesHold
  <2>3. ReturnedHold
    BY DEF IntakeInit, ReturnedHold, OneSlicePerId, IsSlice
  <2> QED BY <2>1, <2>2, <2>3 DEF SourceIInv, IntakeInit
<1>2. SourceIInv /\ [SourceNext]_sourceVars => SourceIInv'
  <2> SUFFICES ASSUME SourceIInv, [SourceNext]_sourceVars PROVE SourceIInv'
    OBVIOUS
  <2>1. CASE UNCHANGED sourceVars
    <3>1. UNCHANGED <<market, destination, intake, returned, recovery, inventory, pinnedTwice>>
      BY <2>1 DEF sourceVars, intakeVars, recoveryVars, recoveryState
    <3> QED BY <3>1, IntakesFrame, RecoveriesFrame, ReturnedFrame DEF SourceIInv
  <2>2. ASSUME NEW p \in Intakers, IntakeStep(p), UNCHANGED recoveryVars PROVE SourceIInv'
    BY <2>2, IntakeQuietStep, ClearDestinationKeeps, RenameStagingKeeps DEF IntakeStep
  <2>3. CASE Touch
    <3>1. UNCHANGED <<market, destination, intake, returned, recovery, inventory, pinnedTwice>>
      BY <2>3 DEF Touch, intakeVars
    <3> QED BY <3>1, IntakesFrame, RecoveriesFrame, ReturnedFrame DEF SourceIInv
  <2>4. ASSUME NEW p \in Recoverers,
               \/ TakeFile(p) \/ BeginInventory(p) \/ CheckInventory(p) \/ BeginFreeze(p)
               \/ LoadInventory(p) \/ CompareInventory(p) \/ InspectBefore(p) \/ EvaluateCopies(p)
               \/ InspectAfter(p) \/ RecoveryRaises(p) \/ QuarantineRecovered(p)
        PROVE  SourceIInv'
    <3>1. UNCHANGED <<recoveryState, intakeVars>>
      BY <2>4 DEF TakeFile, BeginInventory, CheckInventory, BeginFreeze, LoadInventory,
                  CompareInventory, InspectBefore, EvaluateCopies, InspectAfter,
                  RecoveryRaises, QuarantineRecovered
    <3> QED BY <2>4, <3>1, RecoveryQuietStep
  <2>5. ASSUME NEW p \in Recoverers,
               \/ RemoveVacant(p) \/ RenameRecovered(p) \/ WriteInventory(p) \/ StopRecovery(p)
        PROVE  SourceIInv'
    BY <2>5, RemoveVacantKeeps, RenameRecoveredKeeps, PinOrStopKeeps
  <2> QED BY <2>1, <2>2, <2>3, <2>4, <2>5 DEF SourceNext, RecoveryNext
<1> QED BY <1>1, <1>2, SourceHolds, PTL DEF SourceSpec

(***************************************************************************)
(* ReleaseFreeze: type correctness for any number of freezers and, with    *)
(* one freezer at a time, the agreement of receipt and release and their   *)
(* immutability, for every workspace, inventory, edit, error and crash.    *)
(***************************************************************************)

\* A call has its workspace and, while it copies, its temporary directory.
FreezeTypeInv ==
  /\ TypeOK
  /\ \A p \in Freezers :
       /\ freezerAt[p] = "copy" => tmp[p] \in Contents
       /\ freezerAt[p] # "idle" => workspace[inv[p].ws] # None

LEMMA EmptyContents == Empty \in Contents
  BY DEF Empty, Contents

LEMMA SetFile ==
  ASSUME NEW d \in Contents, NEW f \in Files, NEW b \in Bytes \cup {NoFile}
  PROVE  [d EXCEPT ![f] = b] \in Contents
  BY DEF Contents

LEMMA FreezeTypeStep == FreezeTypeInv /\ [Next]_vars => FreezeTypeInv'
<1> SUFFICES ASSUME FreezeTypeInv, [Next]_vars PROVE FreezeTypeInv'
  OBVIOUS
<1> USE FreezeAssumption, EmptyContents DEF FreezeTypeInv, TypeOK, Dirs, Labels, Goto, bounds
<1>1. ASSUME NEW w \in Workspaces, InitWorkspace(w) PROVE FreezeTypeInv'
  BY <1>1 DEF InitWorkspace, locals
<1>2. ASSUME NEW w \in Workspaces, EditWorkspace(w) PROVE FreezeTypeInv'
  <2>1. PICK f \in Files, b \in Bytes \cup {NoFile} :
          workspace' = [workspace EXCEPT ![w][f] = b]
    BY <1>2 DEF EditWorkspace
  <2>2. [workspace[w] EXCEPT ![f] = b] \in Contents
    BY <1>2, SetFile DEF EditWorkspace
  <2>3. workspace' \in [Workspaces -> Dirs]
    BY <2>1, <2>2
  <2>4. \A v \in Workspaces : workspace[v] # None => workspace'[v] # None
    BY <2>1, <2>2
  <2>5. \A p \in Freezers : inv[p].ws \in Workspaces
    BY DEF Inventories
  <2>6. UNCHANGED <<releaseDir, receipt, freezerAt, inv, handled, tmp, crashes, faults>> /\ edits' \in Nat
    BY <1>2 DEF EditWorkspace, locals
  <2>7. \A p \in Freezers : freezerAt'[p] # "idle" => workspace'[inv'[p].ws] # None
    BY <2>4, <2>5, <2>6
  <2> QED BY <2>3, <2>6, <2>7
<1>3. ASSUME NEW p \in Freezers, Request(p) PROVE FreezeTypeInv'
  BY <1>3 DEF Request, Open
<1>4. ASSUME NEW p \in Freezers, VerifyFile(p) PROVE FreezeTypeInv'
  BY <1>4 DEF VerifyFile
<1>5. ASSUME NEW p \in Freezers, CheckRelease(p) PROVE FreezeTypeInv'
  BY <1>5 DEF CheckRelease
<1>6. ASSUME NEW p \in Freezers, CheckReceipt(p) PROVE FreezeTypeInv'
  BY <1>6 DEF CheckReceipt
<1>7. ASSUME NEW p \in Freezers, CopyInventory(p) PROVE FreezeTypeInv'
  <2>1. PICK f \in Files :
          \/ Goto(p, "undo") /\ UNCHANGED <<handled, tmp>>
          \/ /\ workspace[inv[p].ws][f] # NoFile
             /\ tmp' = [tmp EXCEPT ![p][f] = workspace[inv[p].ws][f]]
             /\ handled' = [handled EXCEPT ![p] = @ \cup {f}]
             /\ UNCHANGED freezerAt
    BY <1>7 DEF CopyInventory, Listed
  <2>2. freezerAt[p] = "copy" /\ UNCHANGED <<workspace, releaseDir, receipt, inv, edits, crashes, faults>>
    BY <1>7 DEF CopyInventory
  <2>3. CASE Goto(p, "undo") /\ UNCHANGED <<handled, tmp>>
    BY <2>2, <2>3
  <2>4. CASE /\ tmp' = [tmp EXCEPT ![p][f] = workspace[inv[p].ws][f]]
             /\ handled' = [handled EXCEPT ![p] = @ \cup {f}]
             /\ UNCHANGED freezerAt
    <3>1. workspace[inv[p].ws][f] \in Bytes \cup {NoFile}
      <4>1. inv[p].ws \in Workspaces
        BY DEF Inventories
      <4>2. workspace[inv[p].ws] \in Contents
        BY <1>7, <4>1 DEF CopyInventory
      <4> QED BY <4>2 DEF Contents
    <3>2. [tmp[p] EXCEPT ![f] = workspace[inv[p].ws][f]] \in Contents
      BY <1>7, <3>1, SetFile DEF CopyInventory
    <3>3. tmp' \in [Freezers -> Dirs]
          /\ \A q \in Freezers : freezerAt[q] = "copy" => tmp'[q] \in Contents
      BY <2>4, <3>2
    <3>4. handled' \in [Freezers -> SUBSET Files]
      BY <2>4
    <3> QED BY <2>2, <2>4, <3>3, <3>4
  <2> QED BY <2>1, <2>3, <2>4
<1>8. ASSUME NEW p \in Freezers, VerifyCopy(p) PROVE FreezeTypeInv'
  BY <1>8 DEF VerifyCopy
<1>9. ASSUME NEW p \in Freezers, Replace(p) PROVE FreezeTypeInv'
  BY <1>9 DEF Replace
<1>10. ASSUME NEW p \in Freezers, WriteReceipt(p) PROVE FreezeTypeInv'
  BY <1>10 DEF WriteReceipt, ReceiptFor
<1>11. ASSUME NEW p \in Freezers, Fault(p) PROVE FreezeTypeInv'
  BY <1>11 DEF Fault
<1>12. ASSUME NEW p \in Freezers, Undo(p) PROVE FreezeTypeInv'
  BY <1>12 DEF Undo
<1>13. ASSUME NEW p \in Freezers, RemoveFile(p) PROVE FreezeTypeInv'
  <2>1. PICK f \in Files : releaseDir' = [releaseDir EXCEPT ![f] = NoFile]
    BY <1>13 DEF RemoveFile
  <2>2. releaseDir' \in Contents
    BY <1>13, <2>1, SetFile DEF RemoveFile
  <2> QED BY <1>13, <2>2 DEF RemoveFile, locals
<1>14. ASSUME NEW p \in Freezers, RemoveDirectory(p) PROVE FreezeTypeInv'
  BY <1>14 DEF RemoveDirectory
<1>15. ASSUME NEW p \in Freezers, RemoveFails(p) PROVE FreezeTypeInv'
  BY <1>15 DEF RemoveFails
<1>16. ASSUME NEW p \in Freezers, Crash(p) PROVE FreezeTypeInv'
  BY <1>16 DEF Crash
<1>17. ASSUME UNCHANGED vars PROVE FreezeTypeInv'
  BY <1>17 DEF vars, locals
<1> QED
  BY <1>1, <1>2, <1>3, <1>4, <1>5, <1>6, <1>7, <1>8, <1>9, <1>10, <1>11, <1>12,
     <1>13, <1>14, <1>15, <1>16, <1>17 DEF Next, FreezerStep

\* Directories, receipts and the locals of every call keep their shape.
THEOREM FreezeTypeCorrect == Spec => []TypeOK
<1>1. Init => FreezeTypeInv
  BY FreezeAssumption, EmptyContents DEF Init, FreezeTypeInv, TypeOK, Dirs, Labels
<1>2. Spec => []FreezeTypeInv
  BY <1>1, FreezeTypeStep, PTL DEF Spec
<1> QED BY <1>2, PTL DEF FreezeTypeInv

(***************************************************************************)
(* One freezer at a time                                                   *)
(***************************************************************************)

SoleFreezer == \A p, q \in Freezers : p = q

Inv == FreezeTypeInv /\ FreezeInv

LEMMA FreezeStep == SoleFreezer /\ Inv /\ [Next]_vars => FreezeInv'
<1> SUFFICES ASSUME SoleFreezer, Inv, [Next]_vars PROVE FreezeInv'
  OBVIOUS
<1> USE DEF Inv, FreezeTypeInv, TypeOK, FreezeInv, FrozenExact, CopyExact, Working, Goto, SoleFreezer
<1>1. ASSUME NEW w \in Workspaces, InitWorkspace(w) \/ EditWorkspace(w) PROVE FreezeInv'
  BY <1>1 DEF InitWorkspace, EditWorkspace, locals
<1>2. ASSUME NEW p \in Freezers, Request(p) PROVE FreezeInv'
  BY <1>2 DEF Request, Open
<1>3. ASSUME NEW p \in Freezers, VerifyFile(p) \/ CheckRelease(p) PROVE FreezeInv'
  BY <1>3 DEF VerifyFile, CheckRelease
<1>4. ASSUME NEW p \in Freezers, CheckReceipt(p) PROVE FreezeInv'
  BY <1>4 DEF CheckReceipt
<1>5. ASSUME NEW p \in Freezers, CopyInventory(p) \/ VerifyCopy(p) PROVE FreezeInv'
  BY <1>5 DEF CopyInventory, VerifyCopy
<1>6. ASSUME NEW p \in Freezers, Replace(p) PROVE FreezeInv'
  BY <1>6 DEF Replace
<1>7. ASSUME NEW p \in Freezers, WriteReceipt(p) PROVE FreezeInv'
  BY <1>7 DEF WriteReceipt, ReceiptFor
<1>8. ASSUME NEW p \in Freezers, Fault(p) \/ RemoveFails(p) \/ Crash(p) PROVE FreezeInv'
  BY <1>8 DEF Fault, RemoveFails, Crash
<1>9. ASSUME NEW p \in Freezers, Undo(p) PROVE FreezeInv'
  BY <1>9 DEF Undo
<1>10. ASSUME NEW p \in Freezers, RemoveFile(p) \/ RemoveDirectory(p) PROVE FreezeInv'
  BY <1>10 DEF RemoveFile, RemoveDirectory, locals
<1>11. ASSUME UNCHANGED vars PROVE FreezeInv'
  BY <1>11 DEF vars, locals
<1> QED
  BY <1>1, <1>2, <1>3, <1>4, <1>5, <1>6, <1>7, <1>8, <1>9, <1>10, <1>11 DEF Next, FreezerStep

LEMMA InvHolds == ASSUME SoleFreezer PROVE Spec => []Inv
<1>1. Init => Inv
  BY FreezeAssumption, EmptyContents
     DEF Init, Inv, FreezeTypeInv, TypeOK, Dirs, Labels, FreezeInv, FrozenExact, Working
<1>2. Inv /\ [Next]_vars => Inv'
  BY FreezeTypeStep, FreezeStep DEF Inv
<1> QED BY <1>1, <1>2, PTL DEF Spec

\* The inductive invariant of one freezer at a time.
THEOREM SoleFreezeInvariant ==
  ASSUME SoleFreezer
  PROVE  Spec => []FreezeInv
BY InvHolds, PTL DEF Inv

\* The receipt is for exactly the files of the release.
THEOREM SoleFrozenExact ==
  ASSUME SoleFreezer
  PROVE  Spec => []FrozenExact
BY InvHolds, PTL DEF Inv, FreezeInv

\* A frozen release and its receipt never change again.
THEOREM SoleNeverOverwritten ==
  ASSUME SoleFreezer
  PROVE  Spec => NeverOverwritten
<1>1. Inv /\ [Next]_vars => [receipt # None => receipt' = receipt /\ releaseDir' = releaseDir]_vars
  <2> SUFFICES ASSUME Inv, [Next]_vars, receipt # None
               PROVE  (receipt' = receipt /\ releaseDir' = releaseDir) \/ UNCHANGED vars
    OBVIOUS
  <2> USE DEF Inv, FreezeInv, Working
  <2>1. ASSUME NEW w \in Workspaces, InitWorkspace(w) \/ EditWorkspace(w)
        PROVE  receipt' = receipt /\ releaseDir' = releaseDir
    BY <2>1 DEF InitWorkspace, EditWorkspace
  <2>2. ASSUME NEW p \in Freezers,
               Request(p) \/ FreezerStep(p) \/ Fault(p) \/ RemoveFails(p) \/ Crash(p)
        PROVE  receipt' = receipt /\ releaseDir' = releaseDir
    BY <2>2 DEF FreezerStep, Request, Open, VerifyFile, CheckRelease, CheckReceipt, CopyInventory,
                VerifyCopy, Replace, WriteReceipt, Fault, Undo, RemoveFile,
                RemoveDirectory, RemoveFails, Crash
  <2> QED BY <2>1, <2>2 DEF Next
<1> QED BY <1>1, InvHolds, PTL DEF Spec, NeverOverwritten

\* How far a call that fails by one error gets: what is in the release's place was put
\* there by the call itself, and it is removed again only after an error.
OneErrorInv ==
  crashes = 0 /\ faults <= 1 =>
    /\ (\A p \in Freezers : freezerAt[p] \in {"idle", "verify"}) => (releaseDir = None <=> receipt = None)
    /\ \A p \in Freezers :
         /\ freezerAt[p] \in {"check_receipt", "copy", "replace"} => releaseDir = None /\ receipt = None
         /\ (freezerAt[p] = "undo" /\ releaseDir # None) \/ freezerAt[p] = "rmtree" => faults = 1

LEMMA OneErrorStep == SoleFreezer /\ Inv /\ OneErrorInv /\ [Next]_vars => OneErrorInv'
<1> SUFFICES ASSUME SoleFreezer, Inv, OneErrorInv, [Next]_vars PROVE OneErrorInv'
  OBVIOUS
<1>0. /\ faults \in Nat /\ crashes \in Nat /\ freezerAt \in [Freezers -> Labels]
      /\ \A p \in Freezers : inv[p] \in Inventories /\ inv[p] # None
      /\ \A p \in Freezers : freezerAt[p] = "receipt" => releaseDir = inv[p].files /\ releaseDir # None
      /\ \A p \in Freezers : freezerAt[p] \in Working => receipt = None
  BY FreezeAssumption DEF Inv, FreezeTypeInv, TypeOK, FreezeInv, Inventories
<1>1. ASSUME UNCHANGED <<releaseDir, receipt, freezerAt, faults, crashes>> PROVE OneErrorInv'
  BY <1>1 DEF OneErrorInv
<1>2. ASSUME NEW p \in Freezers,
             Request(p) \/ VerifyFile(p) \/ CheckRelease(p) \/ CheckReceipt(p) \/ VerifyCopy(p)
      PROVE  OneErrorInv'
  BY <1>0, <1>2 DEF OneErrorInv, SoleFreezer, Goto, bounds, Request, Open, VerifyFile, CheckRelease,
    CheckReceipt, VerifyCopy, Labels, Working
<1>3. ASSUME NEW p \in Freezers, CopyInventory(p) PROVE OneErrorInv'
  <2>1. /\ freezerAt[p] = "copy" /\ UNCHANGED <<releaseDir, receipt, faults, crashes>>
        /\ freezerAt' = freezerAt \/ Goto(p, "undo")
    BY <1>3 DEF CopyInventory, bounds
  <2> QED BY <1>0, <2>1 DEF OneErrorInv, SoleFreezer, Goto
<1>4. ASSUME NEW p \in Freezers, Replace(p) \/ WriteReceipt(p) PROVE OneErrorInv'
  BY <1>0, <1>4 DEF OneErrorInv, SoleFreezer, Goto, bounds, Replace, ReplaceSucceeds, WriteReceipt, ReceiptFor
<1>5. ASSUME NEW p \in Freezers, Fault(p) \/ RemoveFails(p) \/ Crash(p) PROVE OneErrorInv'
  BY <1>0, <1>5 DEF OneErrorInv, SoleFreezer, Goto, Fault, RemoveFails, Crash
<1>6. ASSUME NEW p \in Freezers, Undo(p) \/ RemoveDirectory(p) PROVE OneErrorInv'
  BY <1>0, <1>6 DEF OneErrorInv, SoleFreezer, Goto, bounds, Undo, Unfinished, RemoveDirectory, Working
<1>7. ASSUME NEW p \in Freezers, RemoveFile(p) PROVE OneErrorInv'
  <2>1. freezerAt[p] = "rmtree" /\ UNCHANGED <<receipt, freezerAt, faults, crashes>>
    BY <1>7 DEF RemoveFile, locals, bounds
  <2> QED BY <1>0, <2>1 DEF OneErrorInv, SoleFreezer
<1>8. ASSUME NEW w \in Workspaces, InitWorkspace(w) \/ EditWorkspace(w) PROVE OneErrorInv'
  BY <1>1, <1>8 DEF InitWorkspace, EditWorkspace, locals, bounds
<1> QED BY <1>1, <1>2, <1>3, <1>4, <1>5, <1>6, <1>7, <1>8 DEF Next, FreezerStep, vars, locals, bounds

\* A freeze that fails by one error leaves no release without a receipt: the id is free
\* again, whatever was edited meanwhile.
THEOREM SoleFailureLeavesNothing ==
  ASSUME SoleFreezer
  PROVE  Spec => []FailedFreezeLeavesNothing
<1>1. Init => OneErrorInv
  BY DEF Init, OneErrorInv
<1>2. OneErrorInv => FailedFreezeLeavesNothing
  BY DEF OneErrorInv, FailedFreezeLeavesNothing
<1> QED BY <1>1, <1>2, InvHolds, OneErrorStep, PTL DEF Spec
===============================================================================

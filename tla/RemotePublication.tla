--------------------------- MODULE RemotePublication ---------------------------
(***************************************************************************)
(* Publication of a release to the remote store: the commands upload and   *)
(* verify-remote of ovc_evidence_store.                                    *)
(*                                                                         *)
(* A manifest is the function from the paths it lists to their digests, so *)
(* a manifest and the directory it describes are equal.  All manifests     *)
(* have one release_id, manifest_id and repository_commit: this is the     *)
(* case in which their keys in the remote store, which name no content,    *)
(* are the same.  Every command reads the manifest file more than once and *)
(* the release files more than once, and the operator may change them.     *)
(***************************************************************************)
EXTENDS Naturals, FiniteSets, FiniteSetsExt

CONSTANTS
  Publishers,      \* processes that run upload or verify-remote
  Directories,     \* what a release, and so a manifest, may hold
  Frozen,          \* the release as it was frozen
  NoObject,        \* no object under a key, no approval
  NoCall,          \* a publisher between two commands
  MaxChanges       \* bound on the changes of the release and of the manifest file

ASSUME FrozenAssumption == Frozen \in Directories
ASSUME ObjectAssumption ==
  /\ NoObject \notin Directories
  /\ \A d \in Directories : \A f \in DOMAIN d : d[f] # NoObject

VARIABLES
  release,         \* the files below --root
  manifest,        \* the file at --manifest
  approval,        \* the manifest whose SHA-256 the approval record has
  objects,         \* the payload objects of the remote store
  published,       \* its manifest object
  call,            \* of each publisher, the command it is in
  approved,        \* every manifest that was ever approved
  verified,        \* document and manifest bytes of every verify-remote that returned
  disturbed,       \* the release or the manifest file changed during a command
  changes

remoteVars ==
  <<release, manifest, approval, objects, published, call, approved, verified, disturbed, changes>>
operatorVars == <<release, manifest, approval, approved, disturbed, changes>>

\* A command under way: the manifest as it was parsed, the manifest file as it was read
\* again, and the files that are left.
Calls ==
  [pc : {"APPROVAL", "VERIFY", "COPY", "EXPECT", "CAT", "READBACK"}, doc : Directories,
   bytes : Directories \cup {NoObject}, todo : SUBSET UNION {DOMAIN d : d \in Directories}]

ASSUME CallAssumption == NoCall \notin Calls

In(p, pc) == call[p] # NoCall /\ call[p].pc = pc

\* The files a command has not come to yet, in the order of the manifest.
Todo(p) == call[p].todo
File(p) == Min(Todo(p))

Enter(p, pc) == call' = [call EXCEPT ![p].pc = pc, ![p].todo = DOMAIN call[p].doc]
FileDone(p) == call' = [call EXCEPT ![p].todo = @ \ {File(p)}]
End(p) == call' = [call EXCEPT ![p] = NoCall]

-------------------------------------------------------------------------------
(* The operator *)

Change ==
  /\ changes < MaxChanges
  /\ changes' = changes + 1
  /\ disturbed' = (disturbed \/ \E p \in Publishers : call[p] # NoCall)
  /\ UNCHANGED <<approval, objects, published, call, approved, verified>>

\* Nothing keeps the release from being changed after it was frozen.
ChangeRelease == Change /\ release' \in Directories /\ UNCHANGED manifest

\* --root and --output are arguments: the manifest may be of any directory.
BuildManifest == Change /\ manifest' \in Directories /\ UNCHANGED release

Approve ==
  /\ approval' = manifest
  /\ approved' = approved \cup {manifest}
  /\ UNCHANGED <<release, manifest, objects, published, call, verified, disturbed, changes>>

-------------------------------------------------------------------------------
(* rclone copyto --immutable *)

Holds(dir, f, bytes) == f \in DOMAIN dir /\ dir[f] = bytes

\* Mutant of Writable: without --immutable.
MutWritable(old, new) == TRUE

\* What is under a key stays; the same content again is no error.
Writable(old, new) == old \in {NoObject, new}

Object(f) == IF f \in DOMAIN objects THEN objects[f] ELSE NoObject

Put(f, bytes) ==
  objects' = [g \in DOMAIN objects \cup {f} |-> IF g = f THEN bytes ELSE objects[g]]

-------------------------------------------------------------------------------
(* upload: any failure ends the command *)

Begin(p, pc) ==
  /\ call[p] = NoCall
  /\ call' = [call EXCEPT ![p] = [pc |-> pc, doc |-> manifest, bytes |-> NoObject,
                                  todo |-> DOMAIN manifest]]
  /\ UNCHANGED <<operatorVars, objects, published, verified>>

\* load_manifest
BeginUpload(p) == Begin(p, "APPROVAL")

\* The approval is compared with the manifest file, the document is older.
LoadPublicationApproval(p) ==
  /\ In(p, "APPROVAL")
  /\ IF approval = manifest THEN Enter(p, "VERIFY") ELSE End(p)
  /\ UNCHANGED <<operatorVars, objects, published, verified>>

VerifyLocal(p) ==
  /\ In(p, "VERIFY")
  /\ IF Todo(p) = {} THEN Enter(p, "COPY")
     ELSE IF Holds(release, File(p), call[p].doc[File(p)]) THEN FileDone(p)
     ELSE End(p)
  /\ UNCHANGED <<operatorVars, objects, published, verified>>

\* One rclone per file, from the release as it is now.
CopyFile(p) ==
  /\ In(p, "COPY") /\ Todo(p) # {}
  /\ LET f == File(p)
     IN IF f \in DOMAIN release /\ Writable(Object(f), release[f])
        THEN Put(f, release[f]) /\ FileDone(p)
        ELSE UNCHANGED objects /\ End(p)
  /\ UNCHANGED <<operatorVars, published, verified>>

\* Mutant of PayloadFirst: the manifest does not wait for the payload.
MutPayloadFirst(p) == TRUE
PayloadFirst(p) == Todo(p) = {}

\* The manifest goes last, from its file as it is now.
CopyManifest(p) ==
  /\ In(p, "COPY") /\ PayloadFirst(p)
  /\ published' = IF Writable(published, manifest) THEN manifest ELSE published
  /\ End(p)
  /\ UNCHANGED <<operatorVars, objects, verified>>

\* rclone fails, or the process is interrupted.
BreakOff(p) ==
  /\ call[p] # NoCall /\ End(p)
  /\ UNCHANGED <<operatorVars, objects, published, verified>>

-------------------------------------------------------------------------------
(* verify-remote *)

BeginVerifyRemote(p) == Begin(p, "EXPECT")

ReadExpectedManifest(p) ==
  /\ In(p, "EXPECT")
  /\ call' = [call EXCEPT ![p].pc = "CAT", ![p].bytes = manifest]
  /\ UNCHANGED <<operatorVars, objects, published, verified>>

CatManifest(p) ==
  /\ In(p, "CAT")
  /\ IF published = call[p].bytes THEN Enter(p, "READBACK") ELSE End(p)
  /\ UNCHANGED <<operatorVars, objects, published, verified>>

\* Mutant of SameRemote: only the size is compared.
MutSameRemote(f, bytes) == f \in DOMAIN objects
SameRemote(f, bytes) == Holds(objects, f, bytes)

CatFile(p) ==
  /\ In(p, "READBACK")
  /\ IF Todo(p) = {}
     THEN End(p) /\ verified' = verified \cup {[doc |-> call[p].doc, bytes |-> call[p].bytes]}
     ELSE /\ IF SameRemote(File(p), call[p].doc[File(p)]) THEN FileDone(p) ELSE End(p)
          /\ UNCHANGED verified
  /\ UNCHANGED <<operatorVars, objects, published>>

-------------------------------------------------------------------------------
RemoteInit ==
  /\ release = Frozen /\ manifest = Frozen
  /\ approval = NoObject /\ objects = [f \in {} |-> NoObject] /\ published = NoObject
  /\ call = [p \in Publishers |-> NoCall]
  /\ approved = {} /\ verified = {} /\ disturbed = FALSE /\ changes = 0

RemoteNext ==
  \/ ChangeRelease \/ BuildManifest \/ Approve
  \/ \E p \in Publishers :
       \/ BeginUpload(p) \/ LoadPublicationApproval(p) \/ VerifyLocal(p)
       \/ CopyFile(p) \/ CopyManifest(p) \/ BreakOff(p)
       \/ BeginVerifyRemote(p) \/ ReadExpectedManifest(p) \/ CatManifest(p) \/ CatFile(p)

RemoteSpec == RemoteInit /\ [][RemoteNext]_remoteVars

-------------------------------------------------------------------------------
\* Type invariant.
RemoteTypeOK ==
  /\ release \in Directories /\ manifest \in Directories
  /\ {approval, published} \subseteq Directories \cup {NoObject}
  /\ \A f \in DOMAIN objects : \E d \in Directories : Holds(d, f, objects[f])
  /\ \A p \in Publishers : call[p] # NoCall => Todo(p) \subseteq DOMAIN call[p].doc

\* The manifest object means a complete release: it was approved and every payload
\* object it lists is there with the listed content, whatever was broken off, retried
\* or run at the same time, unless the operator changed a file under a command.
ReleaseExact ==
  published # NoObject /\ ~disturbed =>
    published \in approved /\ \A f \in DOMAIN published : Holds(objects, f, published[f])

\* What verify-remote has confirmed stays so: even if files were changed under the
\* upload or the verification, the payload is the document's and the manifest object
\* is the one compared; only a manifest file changed under it can tell the two apart.
VerifiedExact ==
  \A v \in verified :
    /\ \A f \in DOMAIN v.doc : Holds(objects, f, v.doc[f])
    /\ published = v.bytes
    /\ ~disturbed => v.doc = v.bytes

\* What the remote store shows is what was approved, and what was verified stays.
RemoteInv ==
  /\ RemoteTypeOK
  /\ ReleaseExact
  /\ VerifiedExact
================================================================================

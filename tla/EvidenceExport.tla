----------------------------- MODULE EvidenceExport -----------------------------
(***************************************************************************)
(* The export of compact evidence.  execute_export copies the files of a   *)
(* plan into a staging directory, checks each copy, adds the manifest and  *)
(* renames the directory to the bundle's.  Both names depend on the bundle *)
(* only, so all exports of a bundle share them, and a staging directory    *)
(* that is there is moved into quarantine, whoever is using it.            *)
(*                                                                         *)
(* One bundle is modelled: a plan's hashes are those of its request, and   *)
(* plans with other hashes have other names.  Directories are numbered,    *)
(* since a file stays open when its directory is renamed.  A file is       *)
(* empty between the opening and the writing of its copy.                  *)
(***************************************************************************)
EXTENDS Integers, FiniteSets, FiniteSetsExt

CONSTANTS
  Exporters,     \* processes that call execute_export for the bundle
  ExportFiles,   \* the plan's files: integers, in their order
  NoExport,
  Nowhere,       \* the directory does not exist
  MaxExports,    \* bound: calls
  MaxExportDirectories \* bound: staging directories ever made

ASSUME ExportFilesAssumption ==
  ExportFiles \subseteq Int /\ IsFiniteSet(ExportFiles) /\ ExportFiles # {}

Manifest == Max(ExportFiles) + 1
BundleFiles == ExportFiles \cup {Manifest}

VARIABLES
  edited,        \* source files that were changed after the plan was made
  bundle,        \* [directory number -> [BundleFiles -> "ABSENT", "TORN", "GOOD" or "BAD"]]
  made,          \* directories made so far
  staged,        \* directory with the staging name, or Nowhere
  inPlace,       \* directory with the bundle's name, or Nowhere
  export,        \* [Exporters -> NoExport or the call]
  exports,       \* number of calls so far
  acknowledged,  \* history: a call returned PASS or IDEMPOTENT_REUSE
  sharing        \* history: two calls were under way at a time

exportFileVars == <<edited, bundle, made, staged, inPlace>>
exportVars == <<exportFileVars, export, exports, acknowledged, sharing>>

\* A call of execute_export under way; into is the directory its open file is in.
ExportCalls ==
  [pc : {"DESTINATION", "STAGING", "QUARANTINE", "MKDIR", "OPEN", "COPY", "CHECK", "MANIFEST",
         "WRITE", "RENAME", "VERIFY", "EXCEPT"},
   todo : SUBSET ExportFiles, into : (1..MaxExportDirectories) \cup {Nowhere}]

ASSUME ExportAssumption ==
  /\ MaxExportDirectories \in Nat
  /\ Nowhere \notin 1..MaxExportDirectories
  /\ NoExport \notin ExportCalls

AtExport(p, pc) == export[p] # NoExport /\ export[p].pc = pc
ExportTo(p, pc) == export' = [export EXCEPT ![p].pc = pc]
EndExport(p) == export' = [export EXCEPT ![p] = NoExport]

NextExportFile(p) == Min(export[p].todo)
IsEmpty(d) == \A f \in BundleFiles : bundle[d][f] = "ABSENT"
IsWhole(d) == \A f \in BundleFiles : bundle[d][f] = "GOOD"

ExportInit ==
  /\ edited = {}
  /\ bundle = [d \in 1..MaxExportDirectories |-> [f \in BundleFiles |-> "ABSENT"]]
  /\ made = 0
  /\ staged = Nowhere /\ inPlace = Nowhere
  /\ export = [p \in Exporters |-> NoExport]
  /\ exports = 0
  /\ acknowledged = FALSE /\ sharing = FALSE

EditSource(f) ==
  /\ edited' = edited \cup {f}
  /\ edited' # edited
  /\ UNCHANGED <<bundle, made, staged, inPlace, export, exports, acknowledged, sharing>>

(***************************************************************************)
(* Before the copying                                                      *)
(***************************************************************************)

\* build_plan: raises when a source differs from the request.
BuildPlan(p) ==
  /\ export[p] = NoExport
  /\ exports < MaxExports
  /\ edited = {}
  /\ exports' = exports + 1
  /\ export' = [export EXCEPT ![p] = [pc |-> "DESTINATION", todo |-> ExportFiles, into |-> Nowhere]]
  /\ sharing' = (sharing \/ \E q \in Exporters : export[q] # NoExport)
  /\ UNCHANGED <<exportFileVars, acknowledged>>

\* Mutant of VerifiesBundle: the manifest alone is compared.
MutVerifiesBundle == inPlace # Nowhere /\ bundle[inPlace][Manifest] = "GOOD"

\* verify_bundle.  Its reads are one step: what may still happen to a bundle that is
\* in place, the end of a write, can happen after it as well.
VerifiesBundle == inPlace # Nowhere /\ IsWhole(inPlace)

\* A bundle that exists is verified: the call returns IDEMPOTENT_REUSE or raises.
CheckBundle(p) ==
  /\ AtExport(p, "DESTINATION")
  /\ IF inPlace = Nowhere THEN ExportTo(p, "STAGING") ELSE EndExport(p)
  /\ acknowledged' = (acknowledged \/ VerifiesBundle)
  /\ UNCHANGED <<exportFileVars, exports, sharing>>

CheckStaging(p) ==
  /\ AtExport(p, "STAGING")
  /\ ExportTo(p, IF staged = Nowhere THEN "MKDIR" ELSE "QUARANTINE")
  /\ UNCHANGED <<exportFileVars, exports, acknowledged, sharing>>

\* _quarantine_staging: raises when the directory has gone meanwhile.
QuarantineLeftover(p) ==
  /\ AtExport(p, "QUARANTINE")
  /\ IF staged = Nowhere THEN EndExport(p) ELSE ExportTo(p, "MKDIR")
  /\ staged' = Nowhere
  /\ UNCHANGED <<edited, bundle, made, inPlace, exports, acknowledged, sharing>>

\* mkdir raises when the directory has come meanwhile.
MakeStaging(p) ==
  /\ AtExport(p, "MKDIR")
  /\ IF staged # Nowhere
     THEN EndExport(p) /\ UNCHANGED <<made, staged>>
     ELSE /\ made < MaxExportDirectories
          /\ made' = made + 1 /\ staged' = made + 1
          /\ ExportTo(p, "OPEN")
  /\ UNCHANGED <<edited, bundle, inPlace, exports, acknowledged, sharing>>

(***************************************************************************)
(* Inside the try                                                          *)
(***************************************************************************)

\* The parent directories are made again if the staging directory has gone.
OpenCopy(p) ==
  /\ AtExport(p, "OPEN")
  /\ staged = Nowhere => made < MaxExportDirectories
  /\ made' = made + (IF staged = Nowhere THEN 1 ELSE 0)
  /\ staged' = IF staged = Nowhere THEN made + 1 ELSE staged
  /\ bundle' = [bundle EXCEPT ![staged'][NextExportFile(p)] = "TORN"]
  /\ export' = [export EXCEPT ![p].pc = "COPY", ![p].into = staged']
  /\ UNCHANGED <<edited, inPlace, exports, acknowledged, sharing>>

FillCopy(p) ==
  /\ AtExport(p, "COPY")
  /\ bundle' = [bundle EXCEPT ![export[p].into][NextExportFile(p)] =
                  IF NextExportFile(p) \in edited THEN "BAD" ELSE "GOOD"]
  /\ ExportTo(p, "CHECK")
  /\ UNCHANGED <<edited, made, staged, inPlace, exports, acknowledged, sharing>>

\* Mutant of CopyMatches: the size is enough.
MutCopyMatches(p) == staged # Nowhere /\ bundle[staged][NextExportFile(p)] \in {"GOOD", "BAD"}

\* The copy is looked up by its path again.
CopyMatches(p) == staged # Nowhere /\ bundle[staged][NextExportFile(p)] = "GOOD"

CheckCopy(p) ==
  /\ AtExport(p, "CHECK")
  /\ LET rest == export[p].todo \ {NextExportFile(p)} IN
     IF ~CopyMatches(p) THEN ExportTo(p, "EXCEPT")
     ELSE export' = [export EXCEPT ![p].todo = rest, ![p].pc = IF rest = {} THEN "MANIFEST" ELSE "OPEN"]
  /\ UNCHANGED <<exportFileVars, exports, acknowledged, sharing>>

OpenManifest(p) ==
  /\ AtExport(p, "MANIFEST")
  /\ IF staged = Nowhere
     THEN ExportTo(p, "EXCEPT") /\ UNCHANGED bundle
     ELSE /\ bundle' = [bundle EXCEPT ![staged][Manifest] = "TORN"]
          /\ export' = [export EXCEPT ![p].pc = "WRITE", ![p].into = staged]
  /\ UNCHANGED <<edited, made, staged, inPlace, exports, acknowledged, sharing>>

FillManifest(p) ==
  /\ AtExport(p, "WRITE")
  /\ bundle' = [bundle EXCEPT ![export[p].into][Manifest] = "GOOD"]
  /\ ExportTo(p, "RENAME")
  /\ UNCHANGED <<edited, made, staged, inPlace, exports, acknowledged, sharing>>

\* os.replace of a directory: onto nothing, or an empty directory.
RenameBundle(p) ==
  /\ AtExport(p, "RENAME")
  /\ IF staged # Nowhere /\ (inPlace = Nowhere \/ IsEmpty(inPlace))
     THEN inPlace' = staged /\ staged' = Nowhere /\ ExportTo(p, "VERIFY")
     ELSE ExportTo(p, "EXCEPT") /\ UNCHANGED <<inPlace, staged>>
  /\ UNCHANGED <<edited, bundle, made, exports, acknowledged, sharing>>

VerifyBundle(p) ==
  /\ AtExport(p, "VERIFY")
  /\ IF VerifiesBundle THEN EndExport(p) ELSE ExportTo(p, "EXCEPT")
  /\ acknowledged' = (acknowledged \/ VerifiesBundle)
  /\ UNCHANGED <<exportFileVars, exports, sharing>>

\* The handler: what has the staging name goes into quarantine.
HandleException(p) ==
  /\ AtExport(p, "EXCEPT")
  /\ staged' = Nowhere
  /\ EndExport(p)
  /\ UNCHANGED <<edited, bundle, made, inPlace, exports, acknowledged, sharing>>

\* A file cannot be made, read, written or renamed, at any place inside the try.  Such
\* an error outside of it ends the call, as StopExport does.
ExportRaises(p) ==
  /\ \E pc \in {"OPEN", "COPY", "CHECK", "MANIFEST", "WRITE", "RENAME", "VERIFY"} : AtExport(p, pc)
  /\ ExportTo(p, "EXCEPT")
  /\ UNCHANGED <<exportFileVars, exports, acknowledged, sharing>>

\* The process stops.
StopExport(p) ==
  /\ export[p] # NoExport
  /\ EndExport(p)
  /\ UNCHANGED <<exportFileVars, exports, acknowledged, sharing>>

ExportNext ==
  \/ \E f \in ExportFiles : EditSource(f)
  \/ \E p \in Exporters :
       \/ BuildPlan(p)
       \/ CheckBundle(p)
       \/ CheckStaging(p)
       \/ QuarantineLeftover(p)
       \/ MakeStaging(p)
       \/ OpenCopy(p)
       \/ FillCopy(p)
       \/ CheckCopy(p)
       \/ OpenManifest(p)
       \/ FillManifest(p)
       \/ RenameBundle(p)
       \/ VerifyBundle(p)
       \/ HandleException(p)
       \/ ExportRaises(p)
       \/ StopExport(p)

ExportSpec == ExportInit /\ [][ExportNext]_exportVars

(***************************************************************************)
(* Properties                                                              *)
(***************************************************************************)

\* Calls that follow each other, wherever they stop or fail and whatever is edited,
\* never put anything but the whole bundle in place: what one of them leaves
\* never blocks the name, which nothing ever removes.
InPlaceIsWhole == inPlace # Nowhere => IsWhole(inPlace) \/ sharing

\* A bundle some call has returned stays whole, also when calls take each other's
\* staging directory away, unless a source was edited under a copy that was still
\* open when its directory came into place.
ReturnedStaysWhole ==
  acknowledged => inPlace # Nowhere /\ (IsWhole(inPlace) \/ (sharing /\ edited # {}))

\* What the exports of a bundle keep: see the parts.
ExportInv == InPlaceIsWhole /\ ReturnedStaysWhole
================================================================================

---------------------------- MODULE AtlasGeneration ----------------------------
(***************************************************************************)
(* The publication of system atlas generations.  A generation is a         *)
(* directory named after its root hash; its files are written one by one,  *)
(* manifest.json first, unless the directory exists, which is then loaded  *)
(* and verified.  A receipt is written, and if main has not moved between  *)
(* the caller's two looks, CURRENT.json is replaced through a temporary    *)
(* file whose name all calls share.                                        *)
(*                                                                         *)
(* Bundles are built and verified in memory, so a call begins with a good  *)
(* one.  Files opened for writing are empty until they are filled; all     *)
(* pointers have the same length, so the last one written stands.          *)
(***************************************************************************)
EXTENDS Integers, FiniteSets, FiniteSetsExt

CONSTANTS
  Atlases,       \* processes that call publish_current_generation
  Generations,   \* root hashes
  SourceCommit,  \* [Generations -> commit the graph was taken from]
  AtlasFiles,    \* integers, in the order of sorted(bundle.files)
  LastMain,      \* bound: main is at one of the commits 1..LastMain
  MaxPublications, \* bound: calls
  NoPublication,
  NoPointer,
  TornPointer

VARIABLES
  main,          \* the repository's main, seen by the callers
  directories,   \* generations whose directory exists
  atlas,         \* [Generations \X AtlasFiles -> "ABSENT", "TORN" or "WHOLE"]
  atlasReceipts, \* [Generations \X commits rechecked -> the same]
  current,       \* CURRENT.json: NoPointer, TornPointer or a generation
  pendingFile,   \* CURRENT.json.pending
  publication,   \* [Atlases -> NoPublication or the call]
  publications,  \* number of calls so far
  retouched,     \* history: generations with a whole file, or receipt, opened again
  metPending     \* history: two calls had the temporary file in use

atlasFileVars == <<directories, atlas, atlasReceipts, current, pendingFile>>
atlasVars == <<main, atlasFileVars, publication, publications, retouched, metPending>>

\* A call of publish_current_generation under way; writes names the file behind its
\* handle of the temporary file.
PublicationCalls ==
  [bundle : Generations, pre : 1..LastMain, rechecked : 1..LastMain,
   pc : {"RECHECK", "TARGET", "LOAD", "MKDIR", "OPEN", "FILL", "COMPARE", "RECEIPT",
         "FILL_RECEIPT", "PENDING", "FILL_PENDING", "REPLACE"},
   todo : SUBSET AtlasFiles, writes : {"PENDING", "CURRENT", "REPLACED"}]

ASSUME AtlasAssumption ==
  /\ LastMain \in Nat \ {0}
  /\ {NoPointer, TornPointer} \cap Generations = {} /\ NoPointer # TornPointer
  /\ NoPublication \notin PublicationCalls

AtPublication(p, pc) == publication[p] # NoPublication /\ publication[p].pc = pc
GoTo(p, pc) == publication' = [publication EXCEPT ![p].pc = pc]
EndPublication(p) == publication' = [publication EXCEPT ![p] = NoPublication]

Bundle(p) == publication[p].bundle
NextFile(p) == <<Bundle(p), Min(publication[p].todo)>>
ReceiptOf(p) == <<Bundle(p), publication[p].rechecked>>

\* A whole file that is opened again belongs to a generation that is retouched.
Reopened(p, state) ==
  retouched' = retouched \cup IF state = "WHOLE" THEN {Bundle(p)} ELSE {}

AtlasInit ==
  /\ main = 1
  /\ directories = {}
  /\ atlas = [file \in Generations \X AtlasFiles |-> "ABSENT"]
  /\ atlasReceipts = [receipt \in Generations \X (1..LastMain) |-> "ABSENT"]
  /\ current = NoPointer /\ pendingFile = NoPointer
  /\ publication = [p \in Atlases |-> NoPublication]
  /\ publications = 0
  /\ retouched = {}
  /\ metPending = FALSE

MoveMain ==
  /\ main < LastMain
  /\ main' = main + 1
  /\ UNCHANGED <<atlasFileVars, publication, publications, retouched, metPending>>

(***************************************************************************)
(* The caller looks at main twice before it calls.                         *)
(***************************************************************************)

PrePublish(p, g) ==
  /\ publication[p] = NoPublication
  /\ publications < MaxPublications
  /\ publications' = publications + 1
  /\ publication' = [publication EXCEPT ![p] =
       [bundle |-> g, pre |-> main, rechecked |-> main, pc |-> "RECHECK",
        todo |-> AtlasFiles, writes |-> "PENDING"]]
  /\ UNCHANGED <<main, atlasFileVars, retouched, metPending>>

Recheck(p) ==
  /\ AtPublication(p, "RECHECK")
  /\ publication' = [publication EXCEPT ![p].rechecked = main, ![p].pc = "TARGET"]
  /\ UNCHANGED <<main, atlasFileVars, publications, retouched, metPending>>

(***************************************************************************)
(* materialize_generation                                                  *)
(***************************************************************************)

\* Mutant of CheckTarget: a directory that exists is taken as it is.
MutCheckTarget(p) ==
  /\ AtPublication(p, "TARGET")
  /\ GoTo(p, IF Bundle(p) \in directories THEN "COMPARE" ELSE "MKDIR")
  /\ UNCHANGED <<main, atlasFileVars, publications, retouched, metPending>>

CheckTarget(p) ==
  /\ AtPublication(p, "TARGET")
  /\ GoTo(p, IF Bundle(p) \in directories THEN "LOAD" ELSE "MKDIR")
  /\ UNCHANGED <<main, atlasFileVars, publications, retouched, metPending>>

\* load_generation_bundle: a file that is missing or short raises.
LoadFile(p) ==
  /\ AtPublication(p, "LOAD")
  /\ LET rest == publication[p].todo \ {NextFile(p)[2]} IN
     IF atlas[NextFile(p)] # "WHOLE" THEN EndPublication(p)
     ELSE publication' = [publication EXCEPT ![p].todo = rest,
                            ![p].pc = IF rest = {} THEN "COMPARE" ELSE "LOAD"]
  /\ UNCHANGED <<main, atlasFileVars, publications, retouched, metPending>>

MakeDirectory(p) ==
  /\ AtPublication(p, "MKDIR")
  /\ directories' = directories \cup {Bundle(p)}
  /\ GoTo(p, "OPEN")
  /\ UNCHANGED <<main, atlas, atlasReceipts, current, pendingFile, publications, retouched, metPending>>

OpenGenerationFile(p) ==
  /\ AtPublication(p, "OPEN")
  /\ atlas' = [atlas EXCEPT ![NextFile(p)] = "TORN"]
  /\ Reopened(p, atlas[NextFile(p)])
  /\ GoTo(p, "FILL")
  /\ UNCHANGED <<main, directories, atlasReceipts, current, pendingFile, publications, metPending>>

FillGenerationFile(p) ==
  /\ AtPublication(p, "FILL")
  /\ atlas' = [atlas EXCEPT ![NextFile(p)] = "WHOLE"]
  /\ LET rest == publication[p].todo \ {NextFile(p)[2]} IN
     publication' = [publication EXCEPT ![p].todo = rest,
                       ![p].pc = IF rest = {} THEN "COMPARE" ELSE "OPEN"]
  /\ UNCHANGED <<main, directories, atlasReceipts, current, pendingFile, publications, retouched, metPending>>

(***************************************************************************)
(* publish_current_generation                                              *)
(***************************************************************************)

\* The first look must have been at the bundle's commit.
ComparePre(p) ==
  /\ AtPublication(p, "COMPARE")
  /\ IF publication[p].pre = SourceCommit[Bundle(p)] THEN GoTo(p, "RECEIPT") ELSE EndPublication(p)
  /\ UNCHANGED <<main, atlasFileVars, publications, retouched, metPending>>

\* The receipt is written again when it is there.
OpenReceipt(p) ==
  /\ AtPublication(p, "RECEIPT")
  /\ atlasReceipts' = [atlasReceipts EXCEPT ![ReceiptOf(p)] = "TORN"]
  /\ Reopened(p, atlasReceipts[ReceiptOf(p)])
  /\ GoTo(p, "FILL_RECEIPT")
  /\ UNCHANGED <<main, directories, atlas, current, pendingFile, publications, metPending>>

\* Mutant of StillCurrent: only the first look counts.
MutStillCurrent(p) == publication[p].pre = SourceCommit[Bundle(p)]

StillCurrent(p) == publication[p].rechecked = SourceCommit[Bundle(p)]

\* When main moved, the call returns with the generation retained.
FillReceipt(p) ==
  /\ AtPublication(p, "FILL_RECEIPT")
  /\ atlasReceipts' = [atlasReceipts EXCEPT ![ReceiptOf(p)] = "WHOLE"]
  /\ IF StillCurrent(p) THEN GoTo(p, "PENDING") ELSE EndPublication(p)
  /\ UNCHANGED <<main, directories, atlas, current, pendingFile, publications, retouched, metPending>>

UsesPending(p) == AtPublication(p, "FILL_PENDING") \/ AtPublication(p, "REPLACE")

\* Mutant of OpenPending: the pointer itself is written.
MutOpenPending(p) ==
  /\ AtPublication(p, "PENDING")
  /\ current' = TornPointer
  /\ publication' = [publication EXCEPT ![p].pc = "FILL_PENDING", ![p].writes = "CURRENT"]
  /\ metPending' = (metPending \/ \E q \in Atlases : UsesPending(q))
  /\ UNCHANGED <<main, directories, atlas, atlasReceipts, pendingFile, publications, retouched>>

OpenPending(p) ==
  /\ AtPublication(p, "PENDING")
  /\ pendingFile' = TornPointer
  /\ publication' = [publication EXCEPT ![p].pc = "FILL_PENDING", ![p].writes = "PENDING"]
  /\ metPending' = (metPending \/ \E q \in Atlases : UsesPending(q))
  /\ UNCHANGED <<main, directories, atlas, atlasReceipts, current, publications, retouched>>

\* The open file may have become CURRENT.json, or been replaced there, meanwhile.
FillPending(p) ==
  /\ AtPublication(p, "FILL_PENDING")
  /\ pendingFile' = IF publication[p].writes = "PENDING" THEN Bundle(p) ELSE pendingFile
  /\ current' = IF publication[p].writes = "CURRENT" THEN Bundle(p) ELSE current
  /\ GoTo(p, "REPLACE")
  /\ UNCHANGED <<main, directories, atlas, atlasReceipts, publications, retouched, metPending>>

\* What another call has open after a rename.
Renamed(file) == IF file = "PENDING" THEN "CURRENT" ELSE "REPLACED"

\* os.replace raises when another call has taken the temporary file away.
ReplacePointer(p) ==
  /\ AtPublication(p, "REPLACE")
  /\ IF pendingFile = NoPointer
     THEN EndPublication(p) /\ UNCHANGED <<current, pendingFile>>
     ELSE /\ current' = pendingFile
          /\ pendingFile' = NoPointer
          /\ publication' = [q \in Atlases |->
               CASE q = p -> NoPublication
                 [] q # p /\ UsesPending(q) ->
                      [publication[q] EXCEPT !.writes = Renamed(publication[q].writes)]
                 [] OTHER -> publication[q]]
  /\ UNCHANGED <<main, directories, atlas, atlasReceipts, publications, retouched, metPending>>

\* The process stops, or the disk is full.
StopPublication(p) ==
  /\ publication[p] # NoPublication
  /\ EndPublication(p)
  /\ UNCHANGED <<main, atlasFileVars, publications, retouched, metPending>>

AtlasNext ==
  \/ MoveMain
  \/ \E p \in Atlases :
       \/ \E g \in Generations : PrePublish(p, g)
       \/ Recheck(p)
       \/ CheckTarget(p)
       \/ LoadFile(p)
       \/ MakeDirectory(p)
       \/ OpenGenerationFile(p)
       \/ FillGenerationFile(p)
       \/ ComparePre(p)
       \/ OpenReceipt(p)
       \/ FillReceipt(p)
       \/ OpenPending(p)
       \/ FillPending(p)
       \/ ReplacePointer(p)
       \/ StopPublication(p)

AtlasSpec == AtlasInit /\ [][AtlasNext]_atlasVars

(***************************************************************************)
(* Properties                                                              *)
(***************************************************************************)

\* The generation CURRENT.json names can be loaded and has the receipt of a call
\* that found main at its commit twice, wherever calls stopped, unless a later
\* call opened one of its finished files again.
CurrentIsPublished ==
  current \in Generations \ retouched =>
    /\ \A f \in AtlasFiles : atlas[current, f] = "WHOLE"
    /\ atlasReceipts[current, SourceCommit[current]] = "WHOLE"

\* CURRENT.json can be read unless two calls had the temporary file in use.
PointerReadable == current = TornPointer => metPending

\* What the publication of the atlas keeps: see the parts.
AtlasInv == CurrentIsPublished /\ PointerReadable
================================================================================

---------------------------- MODULE ReleaseFreeze ----------------------------
(***************************************************************************)
(* The local half of the evidence lifecycle: init_workspace creates a      *)
(* mutable workspace, the operator edits it, and freeze_release copies the *)
(* files of an approved inventory into releases/<release_id> and writes    *)
(* the freeze receipt.                                                     *)
(*                                                                         *)
(* One release id is modelled: different ids share no path.  Freezers are  *)
(* processes running `freeze-release` for that id.  A directory is a       *)
(* function from file names to bytes, or None if it does not exist.  The   *)
(* temporary directory of a call has a fresh name, so only that call sees  *)
(* it.                                                                     *)
(***************************************************************************)
EXTENDS Integers, FiniteSets

CONSTANTS
  Freezers,    \* processes
  Workspaces,  \* workspace ids
  Files,       \* file names, numbers in canonical order
  Bytes,       \* file contents
  NoFile,      \* a name without a file
  None,        \* a missing directory or receipt
  RenamesOverEmpty, \* platform: a directory may be renamed over an empty one
  MaxEdits,    \* bound: workspace edits
  MaxCrashes,  \* bound: killed processes
  MaxFaults    \* bound: operating system errors

Contents == [Files -> Bytes \cup {NoFile}]
Inventories == [ws : Workspaces, files : Contents]
Empty == [f \in Files |-> NoFile]

ASSUME FreezeAssumption ==
  /\ Files \subseteq Nat
  /\ NoFile \notin Bytes
  /\ None \notin Contents
  /\ None \notin Inventories
  /\ RenamesOverEmpty \in BOOLEAN
  /\ MaxEdits \in Nat /\ MaxCrashes \in Nat /\ MaxFaults \in Nat

VARIABLES
  workspace,  \* workspace/<id>
  releaseDir, \* releases/<release_id>
  receipt,    \* receipts/freeze/<release_id>.json, the inventory it is for
  freezerAt,  \* where each freezer is
  inv,        \* its `inventory`
  handled,    \* files it has hashed or copied
  tmp,        \* its temporary directory
  edits, crashes, faults

bounds == <<edits, crashes, faults>>
locals == <<freezerAt, inv, handled, tmp>>
vars == <<workspace, releaseDir, receipt, locals, bounds>>

Goto(p, l) == freezerAt' = [freezerAt EXCEPT ![p] = l]
Listed(p) == {f \in Files : inv[p].files[f] # NoFile}

Init ==
  /\ workspace = [w \in Workspaces |-> None]
  /\ releaseDir = None /\ receipt = None
  /\ freezerAt = [p \in Freezers |-> "idle"]
  /\ inv \in [Freezers -> {i \in Inventories : i.files = Empty}]
  /\ handled = [p \in Freezers |-> {}]
  /\ tmp = [p \in Freezers |-> None]
  /\ edits = 0 /\ crashes = 0 /\ faults = 0

(***************************************************************************)
(* The workspace                                                           *)
(***************************************************************************)

\* init_workspace: mkdir fails if the directory exists.
InitWorkspace(w) ==
  /\ workspace[w] = None
  /\ workspace' = [workspace EXCEPT ![w] = Empty]
  /\ UNCHANGED <<releaseDir, receipt, locals, bounds>>

\* The operator writes or removes a file of the workspace, at any time.
EditWorkspace(w) ==
  /\ edits < MaxEdits
  /\ workspace[w] # None
  /\ \E f \in Files, b \in Bytes \cup {NoFile} :
       /\ workspace[w][f] # b
       /\ workspace' = [workspace EXCEPT ![w][f] = b]
  /\ edits' = edits + 1
  /\ UNCHANGED <<releaseDir, receipt, locals, crashes, faults>>

(***************************************************************************)
(* freeze_release                                                          *)
(***************************************************************************)

\* The call: qa-state PASS, an inventory of this workspace, the workspace exists.
Open(p, qa, w, i) ==
  /\ freezerAt[p] = "idle"
  /\ qa = "PASS"
  /\ i.ws = w
  /\ workspace[w] # None
  /\ Goto(p, "verify")
  /\ inv' = [inv EXCEPT ![p] = i]
  /\ handled' = [handled EXCEPT ![p] = {}]
  /\ UNCHANGED <<workspace, releaseDir, receipt, tmp, bounds>>

\* _verify_inventory(workspace): the files are hashed one after the other.
VerifyFile(p) ==
  /\ freezerAt[p] = "verify"
  /\ \E f \in Files \ handled[p] :
       IF workspace[inv[p].ws][f] = inv[p].files[f]
         THEN handled' = [handled EXCEPT ![p] = @ \cup {f}] /\ UNCHANGED freezerAt
         ELSE Goto(p, "idle") /\ UNCHANGED handled
  /\ UNCHANGED <<workspace, releaseDir, receipt, inv, tmp, bounds>>

\* Mutant of CheckRelease: neither the release nor the receipt is looked for.
MutCheckRelease(p) ==
  /\ freezerAt[p] = "verify" /\ handled[p] = Files
  /\ Goto(p, "copy")
  /\ tmp' = [tmp EXCEPT ![p] = Empty]
  /\ handled' = [handled EXCEPT ![p] = {}]
  /\ UNCHANGED <<workspace, releaseDir, receipt, inv, bounds>>

\* "release already exists"
CheckRelease(p) ==
  /\ freezerAt[p] = "verify" /\ handled[p] = Files
  /\ Goto(p, IF releaseDir = None THEN "check_receipt" ELSE "idle")
  /\ UNCHANGED <<workspace, releaseDir, receipt, inv, handled, tmp, bounds>>

\* "freeze receipt already exists"; then mkdtemp.
CheckReceipt(p) ==
  /\ freezerAt[p] = "check_receipt"
  /\ \/ /\ receipt # None
        /\ Goto(p, "idle") /\ UNCHANGED <<handled, tmp>>
     \/ /\ receipt = None
        /\ Goto(p, "copy")
        /\ tmp' = [tmp EXCEPT ![p] = Empty]
        /\ handled' = [handled EXCEPT ![p] = {}]
  /\ UNCHANGED <<workspace, releaseDir, receipt, inv, bounds>>

\* _copy_inventory: the next listed file; it may be gone or changed by now.
CopyInventory(p) ==
  /\ freezerAt[p] = "copy"
  /\ \E f \in Listed(p) \ handled[p] :
       /\ \A g \in Listed(p) \ handled[p] : f <= g
       /\ LET b == workspace[inv[p].ws][f]
          IN \/ /\ b = NoFile
                /\ Goto(p, "undo") /\ UNCHANGED <<handled, tmp>>
             \/ /\ b # NoFile
                /\ tmp' = [tmp EXCEPT ![p][f] = b]
                /\ handled' = [handled EXCEPT ![p] = @ \cup {f}]
                /\ UNCHANGED freezerAt
  /\ UNCHANGED <<workspace, releaseDir, receipt, inv, bounds>>

\* _verify_inventory(temporary)
CopyExact(p) == tmp[p] = inv[p].files

VerifyCopy(p) ==
  /\ freezerAt[p] = "copy" /\ Listed(p) \subseteq handled[p]
  /\ Goto(p, IF CopyExact(p) THEN "replace" ELSE "undo")
  /\ UNCHANGED <<workspace, releaseDir, receipt, inv, handled, tmp, bounds>>

\* A rename fails on a directory with files and, on Windows, on an empty one.
ReplaceSucceeds == releaseDir = None \/ (RenamesOverEmpty /\ releaseDir = Empty)

\* os.replace(temporary, release)
Replace(p) ==
  /\ freezerAt[p] = "replace"
  /\ \/ /\ ReplaceSucceeds
        /\ releaseDir' = tmp[p]
        /\ tmp' = [tmp EXCEPT ![p] = None]
        /\ Goto(p, "receipt")
     \/ /\ ~ReplaceSucceeds
        /\ Goto(p, "undo") /\ UNCHANGED <<releaseDir, tmp>>
  /\ UNCHANGED <<workspace, receipt, inv, handled, bounds>>

ReceiptFor(p) == inv[p]

\* atomic_write_json(receipt_path, receipt); the call returns.
WriteReceipt(p) ==
  /\ freezerAt[p] = "receipt"
  /\ receipt' = ReceiptFor(p)
  /\ Goto(p, "idle")
  /\ UNCHANGED <<workspace, releaseDir, inv, handled, tmp, bounds>>

\* An OSError while copying, renaming or writing the receipt.
Fault(p) ==
  /\ freezerAt[p] \in {"copy", "replace", "receipt"}
  /\ faults < MaxFaults
  /\ faults' = faults + 1
  /\ Goto(p, "undo")
  /\ UNCHANGED <<workspace, releaseDir, receipt, inv, handled, tmp, edits, crashes>>

\* Mutant of Unfinished: nothing is removed.
MutUnfinished == FALSE

\* release.exists() and not receipt_path.exists()
Unfinished == releaseDir # None /\ receipt = None

\* The handler: the temporary directory goes, and so does a release that has no
\* receipt.
Undo(p) ==
  /\ freezerAt[p] = "undo"
  /\ tmp' = [tmp EXCEPT ![p] = None]
  /\ Goto(p, IF Unfinished THEN "rmtree" ELSE "idle")
  /\ UNCHANGED <<workspace, releaseDir, receipt, inv, handled, bounds>>

\* shutil.rmtree(release): file by file, then the directory.
RemoveFile(p) ==
  /\ freezerAt[p] = "rmtree"
  /\ releaseDir \notin {None, Empty}
  /\ \E f \in Files :
       /\ releaseDir[f] # NoFile
       /\ releaseDir' = [releaseDir EXCEPT ![f] = NoFile]
  /\ UNCHANGED <<workspace, receipt, locals, bounds>>

RemoveDirectory(p) ==
  /\ freezerAt[p] = "rmtree"
  /\ releaseDir \in {None, Empty}
  /\ releaseDir' = None
  /\ Goto(p, "idle")
  /\ UNCHANGED <<workspace, receipt, inv, handled, tmp, bounds>>

\* rmtree runs with ignore_errors=True: an error leaves what is left.
RemoveFails(p) ==
  /\ freezerAt[p] = "rmtree"
  /\ faults < MaxFaults
  /\ faults' = faults + 1
  /\ Goto(p, "idle")
  /\ UNCHANGED <<workspace, releaseDir, receipt, inv, handled, tmp, edits, crashes>>

\* The process dies; its temporary directory stays behind and nobody reads it.
Crash(p) ==
  /\ freezerAt[p] # "idle"
  /\ crashes < MaxCrashes
  /\ crashes' = crashes + 1
  /\ Goto(p, "idle")
  /\ tmp' = [tmp EXCEPT ![p] = None]
  /\ UNCHANGED <<workspace, releaseDir, receipt, inv, handled, edits, faults>>

FreezerStep(p) ==
  \/ VerifyFile(p) \/ CheckRelease(p) \/ CheckReceipt(p)
  \/ CopyInventory(p) \/ VerifyCopy(p) \/ Replace(p) \/ WriteReceipt(p)
  \/ Undo(p) \/ RemoveFile(p) \/ RemoveDirectory(p)

Request(p) ==
  \E qa \in {"PASS", "FAIL"}, w \in Workspaces, i \in Inventories : Open(p, qa, w, i)

Next ==
  \/ \E w \in Workspaces : InitWorkspace(w) \/ EditWorkspace(w)
  \/ \E p \in Freezers :
       Request(p) \/ FreezerStep(p) \/ Fault(p) \/ RemoveFails(p) \/ Crash(p)

Spec == Init /\ [][Next]_vars

\* The operator freezes workspace w as it is.
RequestExact(p, w) ==
  \E i \in Inventories : i.files = workspace[w] /\ Open(p, "PASS", w, i)

\* A call goes on, workspaces get created, and the operator asks again for the
\* release with an exact inventory as long as there is no receipt.
FairSpec ==
  /\ Spec
  /\ \A p \in Freezers : WF_vars(FreezerStep(p))
  /\ \A w \in Workspaces : WF_vars(InitWorkspace(w))
  /\ \A p \in Freezers, w \in Workspaces :
       SF_vars(receipt = None /\ RequestExact(p, w))

(***************************************************************************)
(* Properties                                                              *)
(***************************************************************************)

Labels == {"idle", "verify", "check_receipt", "copy", "replace", "receipt", "undo", "rmtree"}
Dirs == Contents \cup {None}

\* Type invariant: directories map every name to bytes or nothing and a call
\* keeps a well-formed inventory.
TypeOK ==
  /\ workspace \in [Workspaces -> Dirs]
  /\ releaseDir \in Dirs
  /\ receipt \in Inventories \cup {None}
  /\ freezerAt \in [Freezers -> Labels]
  /\ inv \in [Freezers -> Inventories]
  /\ handled \in [Freezers -> SUBSET Files]
  /\ tmp \in [Freezers -> Dirs]
  /\ edits \in Nat /\ crashes \in Nat /\ faults \in Nat

\* The receipt of a release is for exactly the files that are in it, although
\* the workspace is edited while it is hashed and copied and the process dies or
\* fails anywhere.
FrozenExact == receipt # None => releaseDir = receipt.files

\* "Existing releases and receipts are never overwritten": once there is a
\* receipt, neither it nor the release changes.
NeverOverwritten ==
  [][receipt # None => receipt' = receipt /\ releaseDir' = releaseDir]_vars

\* A freeze that fails by one error, not by a crash, leaves nothing that blocks the
\* release id: with nobody at work there is a release exactly if there is a receipt.
FailedFreezeLeavesNothing ==
  crashes = 0 /\ faults <= 1 /\ (\A p \in Freezers : freezerAt[p] = "idle") =>
    (releaseDir = None <=> receipt = None)

\* One process from the checks on: no receipt exists while it works, and before
\* it writes one the release is its inventory.  The inductive strengthening of
\* FrozenExact for one freezer at a time.
Working == {"copy", "replace", "receipt", "undo", "rmtree"}
FreezeInv ==
  /\ FrozenExact
  /\ \A p \in Freezers :
       /\ freezerAt[p] \in Working => receipt = None
       /\ freezerAt[p] = "replace" => CopyExact(p)
       /\ freezerAt[p] = "receipt" => releaseDir = inv[p].files

\* With an operator who retries the release is frozen: no attempt that failed by an
\* edit of the workspace or by one error may block the id.  A crash, or a second
\* error in the clean-up, may: then a release without a receipt stays.
EventuallyFrozen == <>(receipt # None \/ crashes > 0 \/ faults > 1)
===============================================================================

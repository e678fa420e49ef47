---------------------------- MODULE SourceRecovery ----------------------------
(***************************************************************************)
(* The recovery G1B: a quarantined intake is pinned by a checksum          *)
(* inventory and later frozen, by copies that are checked against it, into *)
(* the destination an RPS intake has too.  Nothing protects the quarantine *)
(* directory, and every pass over it takes its files one by one.  A file   *)
(* is its version; all versions have the size EXPECTED_SIZES wants.  The   *)
(* incident report, which is inspected and not copied, is left out.        *)
(***************************************************************************)
EXTENDS SourceIntake, TLC

CONSTANTS
  Recoverers,    \* processes that run inventory or freeze
  PinnedFiles,   \* expected_files: integers, in their sort order
  Versions,
  Acceptable,    \* contents of which evaluate accepts the rows
  NoRecovery,
  NoInventory,
  Torn,          \* an inventory whose writer stopped
  MaxTouches     \* bound: changes of the quarantine directory

VARIABLES
  quarantine,    \* [PinnedFiles -> Versions]
  inventory,     \* quarantine-checksum-inventory.json
  recovery,      \* [Recoverers -> NoRecovery or the call]
  touches,       \* number of changes so far
  pinnedTwice    \* history: two commands wrote the inventory

\* What a recovery freezes.
Recovered == [profile : {"G1B"}, files : Acceptable, inventory : Acceptable]

ASSUME RecoveryAssumption == NoDirectory \notin Recovered /\ Vacant \notin Recovered

recoveryState == <<quarantine, inventory, touches, pinnedTwice>>
recoveryVars == <<recoveryState, recovery>>
sourceVars == <<intakeVars, recoveryVars>>

InPass(p, pc) == recovery[p] # NoRecovery /\ recovery[p].pc = pc

\* A pass over the files ends with pc.
Passed(p, pc) == InPass(p, pc) /\ recovery[p].todo = {}

\* A call that has nothing yet.
NewCall(pc, todo) ==
  [pc |-> pc, todo |-> todo, seen |-> <<>>, pinned |-> <<>>, before |-> <<>>, copy |-> <<>>]

\* The next pass of call c.
NextPass(c, pc) == [c EXCEPT !.pc = pc, !.todo = PinnedFiles, !.seen = <<>>]

Turn(p, c) == recovery' = [recovery EXCEPT ![p] = c]
Abandon(p) == Turn(p, NoRecovery)

RecoveryInit ==
  /\ quarantine = [f \in PinnedFiles |-> CHOOSE v \in Versions : TRUE]
  /\ inventory = NoInventory
  /\ recovery = [p \in Recoverers |-> NoRecovery]
  /\ touches = 0
  /\ pinnedTwice = FALSE

Touch ==
  /\ touches < MaxTouches
  /\ touches' = touches + 1
  /\ \E f \in PinnedFiles, v \in Versions : quarantine' = [quarantine EXCEPT ![f] = v]
  /\ UNCHANGED <<inventory, recovery, pinnedTwice, intakeVars>>

\* One file of inspect, or of copy_pinned.
TakeFile(p) ==
  /\ recovery[p] # NoRecovery
  /\ recovery[p].todo # {}
  /\ LET f == Min(recovery[p].todo) IN
     Turn(p, [recovery[p] EXCEPT !.todo = @ \ {f}, !.seen = (f :> quarantine[f]) @@ @])
  /\ UNCHANGED <<recoveryState, intakeVars>>

\* build_inventory
BeginInventory(p) ==
  /\ recovery[p] = NoRecovery
  /\ Turn(p, NewCall("INVENTORY", PinnedFiles))
  /\ UNCHANGED <<recoveryState, intakeVars>>

\* write_json refuses to overwrite.
CheckInventory(p) ==
  /\ Passed(p, "INVENTORY")
  /\ IF inventory = NoInventory
     THEN Turn(p, [recovery[p] EXCEPT !.pc = "PIN"])
     ELSE Abandon(p)
  /\ UNCHANGED <<recoveryState, intakeVars>>

WriteInventory(p) ==
  /\ InPass(p, "PIN")
  /\ inventory' = recovery[p].seen
  /\ pinnedTwice' = (pinnedTwice \/ inventory # NoInventory)
  /\ Abandon(p)
  /\ UNCHANGED <<quarantine, touches, intakeVars>>

\* freeze: the destination is looked at first, as in an intake.
BeginFreeze(p) ==
  /\ recovery[p] = NoRecovery
  /\ ~IsSlice(destination["RPS"])
  /\ Turn(p, NewCall(IF destination["RPS"] = Vacant THEN "CLEAR" ELSE "LOAD", {}))
  /\ UNCHANGED <<recoveryState, intakeVars>>

RemoveVacant(p) ==
  /\ InPass(p, "CLEAR")
  /\ IF destination["RPS"] = Vacant
     THEN /\ destination' = [destination EXCEPT !["RPS"] = NoDirectory]
          /\ Turn(p, [recovery[p] EXCEPT !.pc = "LOAD"])
     ELSE Abandon(p) /\ UNCHANGED destination
  /\ UNCHANGED <<recoveryState, market, intake, denials, returned>>

\* load_inventory reads the file first: a missing or a torn one raises.
LoadInventory(p) ==
  /\ InPass(p, "LOAD")
  /\ IF inventory \in {NoInventory, Torn} THEN Abandon(p)
     ELSE Turn(p, [NextPass(recovery[p], "COMPARE") EXCEPT !.pinned = inventory])
  /\ UNCHANGED <<recoveryState, intakeVars>>

\* Then it raises unless that is what inspect sees.
CompareInventory(p) ==
  /\ Passed(p, "COMPARE")
  /\ IF recovery[p].pinned = recovery[p].seen
     THEN Turn(p, NextPass(recovery[p], "BEFORE"))
     ELSE Abandon(p)
  /\ UNCHANGED <<recoveryState, intakeVars>>

\* before = inspect(paths), and then the staging directory.
InspectBefore(p) ==
  /\ Passed(p, "BEFORE")
  /\ Turn(p, [NextPass(recovery[p], "COPY") EXCEPT !.before = recovery[p].seen])
  /\ UNCHANGED <<recoveryState, intakeVars>>

\* Mutant of CopiesVerify: only their number is compared.
MutCopiesVerify(c) == Cardinality(DOMAIN c.seen) = Cardinality(DOMAIN c.before)

CopiesVerify(c) == c.seen = c.pinned

\* copy_pinned, decode_rows and evaluate, and most receipts
EvaluateCopies(p) ==
  /\ Passed(p, "COPY")
  /\ Turn(p, LET c == recovery[p] IN
       IF CopiesVerify(c) /\ c.seen \in Acceptable
       THEN [NextPass(c, "AFTER") EXCEPT !.copy = c.seen]
       ELSE [c EXCEPT !.pc = "FAILED"])
  /\ UNCHANGED <<recoveryState, intakeVars>>

\* before != inspect(paths)
InspectAfter(p) ==
  /\ Passed(p, "AFTER")
  /\ Turn(p, [recovery[p] EXCEPT !.pc =
       IF recovery[p].before = recovery[p].seen THEN "RENAME" ELSE "FAILED"])
  /\ UNCHANGED <<recoveryState, intakeVars>>

RenameRecovered(p) ==
  /\ InPass(p, "RENAME")
  /\ IF Renames("RPS")
     THEN /\ Freeze("RPS", [profile |-> "G1B", files |-> recovery[p].copy,
                            inventory |-> recovery[p].pinned])
          /\ Abandon(p)
     ELSE Turn(p, [recovery[p] EXCEPT !.pc = "FAILED"]) /\ UNCHANGED <<destination, returned>>
  /\ UNCHANGED <<recoveryState, market, intake, denials>>

\* An exception after the staging directory was made.
RecoveryRaises(p) ==
  /\ recovery[p] # NoRecovery
  /\ recovery[p].pc \in {"COPY", "AFTER", "RENAME"}
  /\ Turn(p, [recovery[p] EXCEPT !.pc = "FAILED", !.todo = {}])
  /\ UNCHANGED <<recoveryState, intakeVars>>

\* failure_quarantine, after which freeze raises
QuarantineRecovered(p) ==
  /\ InPass(p, "FAILED")
  /\ Abandon(p)
  /\ UNCHANGED <<recoveryState, intakeVars>>

\* An exception before that, or the end of the process: possibly in the middle of
\* the inventory.
StopRecovery(p) ==
  /\ recovery[p] # NoRecovery
  /\ Abandon(p)
  /\ \/ UNCHANGED <<inventory, pinnedTwice>>
     \/ /\ InPass(p, "PIN")
        /\ inventory' = Torn
        /\ pinnedTwice' = (pinnedTwice \/ inventory # NoInventory)
  /\ UNCHANGED <<quarantine, touches, intakeVars>>

RecoveryNext ==
  \/ Touch
  \/ \E p \in Recoverers :
       \/ TakeFile(p)
       \/ BeginInventory(p)
       \/ CheckInventory(p)
       \/ WriteInventory(p)
       \/ BeginFreeze(p)
       \/ RemoveVacant(p)
       \/ LoadInventory(p)
       \/ CompareInventory(p)
       \/ InspectBefore(p)
       \/ EvaluateCopies(p)
       \/ InspectAfter(p)
       \/ RenameRecovered(p)
       \/ RecoveryRaises(p)
       \/ QuarantineRecovered(p)
       \/ StopRecovery(p)

\* Intakes and recoveries work on the same destinations.
SourceNext ==
  \/ \E p \in Intakers : IntakeStep(p) /\ UNCHANGED recoveryVars
  \/ RecoveryNext

SourceSpec == IntakeInit /\ RecoveryInit /\ [][SourceNext]_sourceVars

(***************************************************************************)
(* Properties                                                              *)
(***************************************************************************)

\* A recovered slice has exactly the files its inventory pinned, whatever happened
\* to the quarantine while they were copied; the inventory on disk is still that
\* one unless a second command wrote it.
RecoveredAsPinned ==
  \A slice \in {r[2] : r \in returned} : slice.profile = "G1B" =>
    /\ slice.files = slice.inventory
    /\ slice.files \in Acceptable
    /\ ~pinnedTwice => slice.inventory = inventory

\* What source intake and recovery keep: see the parts.
SourceInv ==
  /\ OneSlicePerId
  /\ OneDenialIsCaught
  /\ SessionsWhole
  /\ HoursFollowMinutes
  /\ RecoveredAsPinned
===============================================================================

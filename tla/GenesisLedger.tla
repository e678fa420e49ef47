----------------------------- MODULE GenesisLedger -----------------------------
(***************************************************************************)
(* AppendOnlyLedger of programme genesis: a JSONL file to which append     *)
(* adds a line after reading the whole file for a duplicate event_id, and  *)
(* which inventory describes.  Nothing is locked; a writer may stop in the *)
(* middle of a line.  An event is its id and its body; every event below   *)
(* is one validate_event accepts.                                          *)
(***************************************************************************)
EXTENDS Integers, Sequences, SequencesExt

CONSTANTS
  Recorders,       \* processes that use the ledger
  EventIds,
  Bodies,
  NoProgrammeEvent,
  MaxLines         \* bound: no append begins on a file of this many lines

VARIABLES
  portfolio,   \* the whole lines of the file, in order
  cut,         \* "NO", "OPEN": the last line was cut short, "BURIED": and others follow
  doing,       \* [Recorders -> "IDLE", "CHECKED" (append read the file) or "COUNTED" (inventory did)]
  subject,     \* [Recorders -> event being appended, or NoProgrammeEvent]
  read,        \* [Recorders -> the events read_all returned]
  digests,     \* events whose append returned their digest
  inventories, \* [events, bytes] pairs inventory returned
  causes       \* history: what could have made the file unreadable

ledgerFile == <<portfolio, cut>>
recorder == <<doing, subject, read>>
genesisVars == <<ledgerFile, recorder, digests, inventories, causes>>

ProgrammeEvents == EventIds \X Bodies

Ids(lines) == {line[1] : line \in Range(lines)}

\* Mutant of Terminated: a last line without its newline is skipped.
MutTerminated == cut # "BURIED"

Terminated == cut = "NO"

\* read_all returns.
Reads == Terminated /\ IsInjective([i \in DOMAIN portfolio |-> portfolio[i][1]])

LedgerBusy(p, activity) ==
  /\ doing[p] = "IDLE"
  /\ Reads
  /\ doing' = [doing EXCEPT ![p] = activity]
  /\ read' = [read EXCEPT ![p] = portfolio]

Return(p) ==
  /\ doing' = [doing EXCEPT ![p] = "IDLE"]
  /\ subject' = [subject EXCEPT ![p] = NoProgrammeEvent]
  /\ read' = [read EXCEPT ![p] = <<>>]

\* Mutant of NewId: an event is a duplicate only if all of it is the same.
MutNewId(e) == e \notin Range(portfolio)

NewId(e) == e[1] \notin Ids(portfolio)

\* append up to line 95; an event_id that is there raises and changes nothing.
CheckDuplicate(p) ==
  /\ Len(portfolio) < MaxLines
  /\ \E e \in ProgrammeEvents :
       /\ NewId(e)
       /\ LedgerBusy(p, "CHECKED")
       /\ subject' = [subject EXCEPT ![p] = e]
  /\ UNCHANGED <<ledgerFile, digests, inventories, causes>>

\* Another process has read the file and is about to append the same event_id.
Rival(p) ==
  \E q \in Recorders \ {p} : doing[q] = "CHECKED" /\ subject[q][1] = subject[p][1]

AppendProgrammeEvent(p) ==
  /\ doing[p] = "CHECKED"
  /\ IF cut = "OPEN"
     THEN cut' = "BURIED" /\ UNCHANGED portfolio
     ELSE portfolio' = Append(portfolio, subject[p]) /\ UNCHANGED cut
  /\ digests' = digests \cup {subject[p]}
  /\ causes' = causes \cup IF Rival(p) THEN {"RIVAL"} ELSE {}
  /\ Return(p)
  /\ UNCHANGED inventories

StopMidLine(p) ==
  /\ doing[p] = "CHECKED"
  /\ cut' = "OPEN"
  /\ causes' = causes \cup {"STOP"}
  /\ Return(p)
  /\ UNCHANGED <<portfolio, digests, inventories>>

\* inventory: the events are read first and the bytes hashed afterwards.
CountEvents(p) ==
  /\ LedgerBusy(p, "COUNTED")
  /\ UNCHANGED <<ledgerFile, subject, digests, inventories, causes>>

\* Mutant of HashBytes: the bytes are read before the events.
MutHashBytes(p) ==
  /\ doing[p] = "COUNTED"
  /\ inventories' = inventories \cup {[events |-> portfolio, bytes |-> <<read[p], cut>>]}
  /\ Return(p)
  /\ UNCHANGED <<ledgerFile, digests, causes>>

HashBytes(p) ==
  /\ doing[p] = "COUNTED"
  /\ inventories' = inventories \cup {[events |-> read[p], bytes |-> ledgerFile]}
  /\ Return(p)
  /\ UNCHANGED <<ledgerFile, digests, causes>>

GenesisInit ==
  /\ portfolio = <<>> /\ cut = "NO"
  /\ doing = [p \in Recorders |-> "IDLE"]
  /\ subject = [p \in Recorders |-> NoProgrammeEvent]
  /\ read = [p \in Recorders |-> <<>>]
  /\ digests = {} /\ inventories = {} /\ causes = {}

GenesisNext ==
  \E p \in Recorders :
    \/ CheckDuplicate(p) \/ AppendProgrammeEvent(p) \/ StopMidLine(p)
    \/ CountEvents(p) \/ HashBytes(p)

GenesisSpec == GenesisInit /\ [][GenesisNext]_genesisVars

\* Type invariant: only an append has an event in hand.
GenesisTypeOK ==
  /\ portfolio \in Seq(ProgrammeEvents) /\ cut \in {"NO", "OPEN", "BURIED"}
  /\ doing \in [Recorders -> {"IDLE", "CHECKED", "COUNTED"}]
  /\ \A p \in Recorders :
       IF doing[p] = "CHECKED" THEN subject[p] \in ProgrammeEvents
                               ELSE subject[p] = NoProgrammeEvent
  /\ digests \subseteq ProgrammeEvents

\* A ledger that read_all accepts has every event whose append returned a digest,
\* however appends overlapped and stopped: damage is never read as a shorter history.
ReadableIsComplete == Reads => digests \subseteq Range(portfolio)

\* The ledger stops being readable only when a writer stopped inside a line or two
\* appends of one event_id overlapped between the duplicate check and the write.
UnreadableHasCause == Reads \/ causes # {}

\* inventory hashes the file it counted, or that file with lines appended since:
\* its event list is a prefix of the hashed bytes, which is all it guarantees.
InventoryIsPrefix == \A i \in inventories : IsPrefix(i.events, i.bytes[1])

\* What append, read_all and inventory leave behind in any order, stops included: a
\* ledger that reads is complete, one that does not has a cause, and an inventory
\* counts events that are in the bytes it hashes.
GenesisInv ==
  /\ GenesisTypeOK
  /\ ReadableIsComplete
  /\ UnreadableHasCause
  /\ InventoryIsPrefix
===============================================================================

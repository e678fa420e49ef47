----------------------------- MODULE EventJournal -----------------------------
(***************************************************************************)
(* The C2P event journal: EventJournal appends a line to a JSONL file and  *)
(* then replaces a seal file that describes the ledger it believes the     *)
(* file to hold.  Neither file is locked, and an appender may stop between *)
(* any two steps or in the middle of a line.                               *)
(*                                                                         *)
(* An event names its predecessor by hash, so it is determined by the      *)
(* history it ends: an event is a stream and the sequence of event types   *)
(* up to and including its own.  from_events sorts the lines and drops     *)
(* equal ones, so the journal file is the set of its whole lines and what  *)
(* became of a line that was cut short.  A ledger is a set of events; the   *)
(* seal and a checkpoint are functions of a ledger that contain its        *)
(* digest, and are modelled by that ledger.  RETIRED and SUPERSEDED have   *)
(* one guard and one effect, and are one type here.                        *)
(***************************************************************************)
EXTENDS Integers, Sequences, FiniteSets

CONSTANTS
  Appenders,   \* processes that use the journal
  Streams,     \* object assertions
  NoEvent,
  NoLedger,    \* a file that does not exist
  MaxEvents    \* bound: no event is built on a ledger of this size

ASSUME JournalAssumption == MaxEvents \in Nat

VARIABLES
  lines,       \* whole lines of the journal file
  torn,        \* "NO", "OPEN": the last line was cut short, "BURIED": and others follow
  seal,        \* ledger of the frontier seal file, or NoLedger
  checkpoint,  \* ledger of a checkpoint that was handed out, or NoLedger
  step,        \* [Appenders -> where load_ledger or append_event is]
  ledger,      \* [Appenders -> ledger in memory]
  event,       \* [Appenders -> event being appended, or NoEvent]
  acked,       \* events for which append_event has written the seal
  stuck        \* history: the journal did not load while nobody was appending

files == <<lines, torn, seal>>
appender == <<step, ledger, event>>
journalVars == <<files, checkpoint, appender, acked, stuck>>

Types == {"ASSERTION_GENESIS", "ENTER_DORMANT", "REAPPEARED", "RETIRED"}
Events == Streams \X UNION {[1..n -> Types] : n \in 1..MaxEvents}
Ledgers == SUBSET Events

Stream(e) == e[1]
History(e) == e[2]

(***************************************************************************)
(* Ledger and projection                                                   *)
(***************************************************************************)

\* One step of project_assertion_stream on the lifecycle axis.
AfterEvent(state, type) ==
  CASE type = "ENTER_DORMANT" /\ state = "ACTIVE" -> "DORMANT"
    [] type = "REAPPEARED" /\ state = "DORMANT" -> "ACTIVE"
    [] type = "RETIRED" /\ state \in {"ACTIVE", "DORMANT"} -> "RETIRED"
    [] OTHER -> "ILLEGAL"

Lifecycle(e) ==
  LET after[n \in 1..Len(History(e))] ==
        IF n = 1
        THEN IF History(e)[1] = "ASSERTION_GENESIS" THEN "ACTIVE" ELSE "ILLEGAL"
        ELSE AfterEvent(after[n - 1], History(e)[n])
  IN after[Len(History(e))]

\* The event whose hash e carries as prior_event_hash.
Prior(e) == <<Stream(e), SubSeq(History(e), 1, Len(History(e)) - 1)>>

SamePosition(e, f) == Stream(e) = Stream(f) /\ Len(History(e)) = Len(History(f))

\* CanonicalEventLedger.append: the next position of its stream, on the right prior.
Extends(e, L) ==
  /\ ~\E f \in L : SamePosition(e, f)
  /\ Len(History(e)) > 1 => Prior(e) \in L

\* from_events and verify_integrity accept the events.
Sound(L) == \A e \in L : Extends(e, {f \in L : Len(History(f)) < Len(History(e))})
                         /\ ~\E f \in L : f # e /\ SamePosition(e, f)

Frontier(e, L) == e \in L /\ ~\E f \in L : Stream(f) = Stream(e) /\ Len(History(f)) > Len(History(e))

(***************************************************************************)
(* load_ledger: the events are read, then the seal                         *)
(***************************************************************************)

\* Mutant of SealMatches: the seal must exist but is not compared.
MutSealMatches(L) == L # {} => seal # NoLedger

SealMatches(L) ==
  /\ L # {} => seal # NoLedger
  /\ seal # NoLedger => seal = L

Readable == torn = "NO" /\ Sound(lines)

\* An operation of a ends here, with an error.
Raise(a) ==
  /\ step' = [step EXCEPT ![a] = "IDLE"]
  /\ event' = [event EXCEPT ![a] = NoEvent]

\* The caller only wants the ledger (event[a] = NoEvent), or append_event begins.
ReadEvents(a, e) ==
  /\ step[a] = "IDLE"
  /\ Readable
  /\ step' = [step EXCEPT ![a] = "SEAL_UNREAD"]
  /\ ledger' = [ledger EXCEPT ![a] = lines]
  /\ event' = [event EXCEPT ![a] = e]
  /\ UNCHANGED <<files, checkpoint, acked>>

AfterLoad(a) == IF event[a] = NoEvent THEN "IDLE" ELSE "LOADED"

\* Mutant of ReadSeal: a seal that does not match is written anew.
MutReadSeal(a) ==
  /\ step[a] = "SEAL_UNREAD"
  /\ step' = [step EXCEPT ![a] = AfterLoad(a)]
  /\ seal' = ledger[a]
  /\ UNCHANGED <<lines, torn, checkpoint, ledger, event, acked>>

ReadSeal(a) ==
  /\ step[a] = "SEAL_UNREAD"
  /\ IF SealMatches(ledger[a])
     THEN /\ step' = [step EXCEPT ![a] = AfterLoad(a)]
          /\ UNCHANGED <<ledger, event>>
     ELSE Raise(a) /\ ledger' = [ledger EXCEPT ![a] = {}]
  /\ UNCHANGED <<files, checkpoint, acked>>

LoadLedger(a) == ReadEvents(a, NoEvent)

(***************************************************************************)
(* append_event, for an event built from the ledger a holds                *)
(***************************************************************************)

\* Mutant of MayFollow: nothing but the ledger restricts a lifecycle event.
MutMayFollow(type, state) == TRUE

\* enter_dormant, reappear, retire and supersede look at the projected state.
MayFollow(type, state) ==
  CASE type = "ENTER_DORMANT" -> state = "ACTIVE"
    [] type = "REAPPEARED" -> state = "DORMANT"
    [] type = "RETIRED" -> state \in {"ACTIVE", "DORMANT"}
    [] OTHER -> FALSE

\* The events a can build: a genesis, or a lifecycle event on the frontier of the
\* stream in the ledger it holds, which may be old.
Buildable(a) ==
  {<<s, <<"ASSERTION_GENESIS">> >> : s \in Streams}
  \cup {<<Stream(next[1]), Append(History(next[1]), next[2])>> :
          next \in {p \in ledger[a] \X Types :
                      /\ Frontier(p[1], ledger[a])
                      /\ MayFollow(p[2], Lifecycle(p[1]))}}

AppendEvent(a) == /\ Cardinality(ledger[a]) < MaxEvents
                  /\ \E e \in Buildable(a) : ReadEvents(a, e)

WriteLine(a) ==
  /\ step[a] = "LOADED"
  /\ event[a] \notin ledger[a]
  /\ Extends(event[a], ledger[a])
  /\ IF torn = "OPEN"    \* the bytes join the line that was cut short
     THEN torn' = "BURIED" /\ UNCHANGED lines
     ELSE lines' = lines \cup {event[a]} /\ UNCHANGED torn
  /\ ledger' = [ledger EXCEPT ![a] = @ \cup {event[a]}]
  /\ step' = [step EXCEPT ![a] = "UNSEALED"]
  /\ UNCHANGED <<seal, checkpoint, event, acked>>

\* The disposition is IDEMPOTENT: no line is written, the seal is.
AlreadyAppended(a) ==
  /\ step[a] = "LOADED"
  /\ event[a] \in ledger[a]
  /\ step' = [step EXCEPT ![a] = "UNSEALED"]
  /\ UNCHANGED <<files, checkpoint, ledger, event, acked>>

\* The ledger quarantines itself and append_event raises.
Quarantine(a) ==
  /\ step[a] = "LOADED"
  /\ event[a] \notin ledger[a]
  /\ ~Extends(event[a], ledger[a])
  /\ Raise(a)
  /\ UNCHANGED <<files, checkpoint, ledger, acked>>

WriteSeal(a) ==
  /\ step[a] = "UNSEALED"
  /\ seal' = ledger[a]
  /\ acked' = acked \cup {event[a]}
  /\ Raise(a)
  /\ UNCHANGED <<lines, torn, checkpoint, ledger>>

\* The process stops; in the middle of write() it leaves a line without its end.
Stop(a) ==
  /\ step[a] # "IDLE" \/ ledger[a] # {}
  /\ Raise(a)
  /\ ledger' = [ledger EXCEPT ![a] = {}]
  /\ \/ torn' = torn
     \/ step[a] = "LOADED" /\ Extends(event[a], ledger[a]) /\ torn' = "OPEN"
  /\ UNCHANGED <<lines, seal, checkpoint, acked>>

(***************************************************************************)
(* Checkpoints and checkpoint of the ledger a holds                       *)
(***************************************************************************)

\* rebuild_snapshots raises unless every stream projects.
Projects(L) == \A e \in L : Lifecycle(e) # "ILLEGAL"

BuildCheckpoint(a) ==
  /\ step[a] = "IDLE"
  /\ Projects(ledger[a])
  /\ checkpoint' = ledger[a]
  /\ UNCHANGED <<files, appender, acked>>

RestoreCheckpoint(a) ==
  /\ step[a] = "IDLE"
  /\ checkpoint # NoLedger
  /\ ledger' = [ledger EXCEPT ![a] = checkpoint]
  /\ UNCHANGED <<files, checkpoint, step, event, acked>>

JournalInit ==
  /\ lines = {} /\ torn = "NO" /\ seal = NoLedger
  /\ checkpoint = NoLedger
  /\ step = [a \in Appenders |-> "IDLE"]
  /\ ledger = [a \in Appenders |-> {}]
  /\ event = [a \in Appenders |-> NoEvent]
  /\ acked = {} /\ stuck = FALSE

Loadable == Readable /\ SealMatches(lines)

Quiet == \A a \in Appenders : step[a] = "IDLE"

JournalNext ==
  /\ \E a \in Appenders :
       \/ LoadLedger(a) \/ AppendEvent(a) \/ ReadSeal(a)
       \/ WriteLine(a) \/ AlreadyAppended(a) \/ Quarantine(a) \/ WriteSeal(a)
       \/ Stop(a)
       \/ BuildCheckpoint(a) \/ RestoreCheckpoint(a)
  /\ stuck' = (stuck \/ (Quiet' /\ ~Loadable'))

JournalSpec == JournalInit /\ [][JournalNext]_journalVars

(***************************************************************************)
(* Properties                                                              *)
(***************************************************************************)

\* Type invariant: files hold ledgers, and an appender's step has its event.
JournalTypeOK ==
  /\ stuck \in BOOLEAN
  /\ lines \in Ledgers /\ acked \in Ledgers /\ torn \in {"NO", "OPEN", "BURIED"}
  /\ seal \in Ledgers \cup {NoLedger}
  /\ checkpoint \in Ledgers \cup {NoLedger}
  /\ step \in [Appenders -> {"IDLE", "SEAL_UNREAD", "LOADED", "UNSEALED"}]
  /\ ledger \in [Appenders -> Ledgers]
  /\ event \in [Appenders -> Events \cup {NoEvent}]
  /\ \A a \in Appenders : step[a] \in {"LOADED", "UNSEALED"} => event[a] # NoEvent

\* Whatever appenders interleave or stop, a journal that loads holds exactly the
\* events whose append_event reached its seal: none is missing, and no event that
\* was written and not sealed is taken for one that was.
LoadedIsAcknowledged == Loadable => lines = acked

\* Seal, checkpoint and every ledger in use hold acknowledged events
\* only: no projection is a second authority that runs ahead of the journal.
NothingAheadOfJournal ==
  /\ torn = "NO" => acked \subseteq lines
  /\ \A L \in {seal, checkpoint} \ {NoLedger} : L \subseteq acked
  /\ \A a \in Appenders : step[a] \in {"IDLE", "LOADED"} => ledger[a] \subseteq acked

\* Every acknowledged stream projects: an event built on a ledger that is out of
\* date by the time it is appended never makes rebuild_snapshots fail.
AcknowledgedProjects == Projects(acked)

\* A journal that does not load while nobody is inside append_event never loads
\* again: append_event loads first, so no operation writes the missing seal.
SealedForEver == stuck => ~Loadable

\* What the journal, its seal, the checkpoints and the ledgers in memory have to do
\* with each other at every step of load_ledger, append_event and their stops: what
\* loads was acknowledged, nothing runs ahead of it, all of it projects, and what
\* does not load stays so.
JournalInv ==
  /\ JournalTypeOK
  /\ LoadedIsAcknowledged
  /\ NothingAheadOfJournal
  /\ AcknowledgedProjects
  /\ SealedForEver
===============================================================================

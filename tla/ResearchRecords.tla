---------------------------- MODULE ResearchRecords ----------------------------
(***************************************************************************)
(* The record stores of research operations behind ResearchWriteService:   *)
(* mutable drafts, append-only frozen records, and an audit record after   *)
(* every mutation.  A store is a directory; files are created exclusively, *)
(* except that a draft is replaced through a temporary file with a fixed   *)
(* name.  Identities are hashes, so a path is what the hash covers:        *)
(*   <<"draft", first content>>, <<"frozen", content, time, superseded>>,  *)
(*   <<"audit", action, path of the object, time>>.                        *)
(***************************************************************************)
EXTENDS Integers, Sequences, FiniteSets, Functions

CONSTANTS
  Operators,   \* processes with a ResearchWriteService
  Contents,    \* validated record contents
  Times,       \* values of the `at` and `frozen_at` arguments
  Missing,     \* no file, no superseded record
  Broken,      \* bytes that do not parse
  NoWrite,
  MaxFiles     \* bound: no mutation begins with this many files

VARIABLES
  disk,        \* [paths in use -> content or Broken]
  tmp,         \* [draft paths with a .tmp file -> content or Broken]
  write,       \* [Operators -> NoWrite or the mutation under way]
  hasOpen,     \* [Operators -> "TMP" or "FINAL": the name of the file it writes to]
  unlucky      \* history: objects whose creation stopped, or whose updates met

recordVars == <<disk, tmp, write, hasOpen, unlucky>>

DraftPath(content) == <<"draft", content>>
FrozenPath(content, at, superseded) == <<"frozen", content, at, superseded>>
AuditPath(w) == <<"audit", w.action, w.target, w.at>>

Drafts == {DraftPath(c) : c \in Contents}
RootRecords == {FrozenPath(c, t, Missing) : c \in Contents, t \in Times}
Successors == {FrozenPath(c, t, r) : c \in Contents, t \in Times, r \in RootRecords}
Objects == Drafts \cup RootRecords \cup Successors
OnDisk == DOMAIN disk \cap Objects

Writes == [action : {"CREATE", "UPDATE", "FREEZE", "SUPERSEDE"}, target : Objects,
           content : Contents, at : Times,
           pc : {"OPEN", "FILL", "RENAME", "AUDIT", "AUDIT_FILL"}]

\* Bytes that do not parse are no validated content; NoWrite stands for no mutation.
ASSUME RecordsAssumption == Broken \notin Contents /\ NoWrite \notin Writes

With(f, path, bytes) == [p \in DOMAIN f \cup {path} |-> IF p = path THEN bytes ELSE f[p]]

\* Mutant of Start: the audit record comes first.
MutStart(o, action, target, content, at) ==
  /\ write[o] = NoWrite
  /\ Cardinality(DOMAIN disk) < MaxFiles
  /\ write' = [write EXCEPT ![o] = [action |-> action, target |-> target,
                                    content |-> content, at |-> at, pc |-> "AUDIT"]]
  /\ UNCHANGED <<disk, tmp, hasOpen, unlucky>>

Start(o, action, target, content, at) ==
  /\ write[o] = NoWrite
  /\ Cardinality(DOMAIN disk) < MaxFiles
  /\ write' = [write EXCEPT ![o] = [action |-> action, target |-> target,
                                    content |-> content, at |-> at, pc |-> "OPEN"]]
  /\ UNCHANGED <<disk, tmp, hasOpen, unlucky>>

(***************************************************************************)
(* The public mutations                                                    *)
(***************************************************************************)

CreateDraft(o) ==
  \E c \in Contents, t \in Times : Start(o, "CREATE", DraftPath(c), c, t)

UpdateDraft(o) ==
  \E d \in Drafts \cap DOMAIN disk, c \in Contents, t \in Times :
    Start(o, "UPDATE", d, c, t)

\* The draft is read here; it may be updated before the record is written.
FreezeDraft(o) ==
  \E d \in Drafts \cap DOMAIN disk, t \in Times :
    /\ disk[d] # Broken
    /\ Start(o, "FREEZE", FrozenPath(disk[d], t, Missing), disk[d], t)

FreezeNew(o) ==
  \E c \in Contents, t \in Times : Start(o, "FREEZE", FrozenPath(c, t, Missing), c, t)

\* Nothing looks whether the original has a successor already.
Supersede(o) ==
  \E r \in RootRecords \cap DOMAIN disk, c \in Contents, t \in Times :
    /\ disk[r] # Broken
    /\ Start(o, "SUPERSEDE", FrozenPath(c, t, r), c, t)

(***************************************************************************)
(* Their steps                                                             *)
(***************************************************************************)

At(o, pc) == write[o] # NoWrite /\ write[o].pc = pc
Proceed(o, pc) == write' = [write EXCEPT ![o].pc = pc]
Leave(o) == write' = [write EXCEPT ![o] = NoWrite]

Updates(o) == write[o].action = "UPDATE"

\* Another update has this draft's temporary file in use.
Collides(o) ==
  \E p \in Operators \ {o} :
    write[p] # NoWrite /\ Updates(p) /\ write[p].target = write[o].target
    /\ write[p].pc \in {"FILL", "RENAME"}

\* Mutant of Exists: the file is opened without O_EXCL.
MutExists(path) == FALSE

\* os.open with O_EXCL fails.
Exists(path) == path \in DOMAIN disk

\* _exclusive_write creates the file, then fills it; if it exists, that is an error.
CreateExclusive(o) ==
  /\ At(o, "OPEN") /\ ~Updates(o)
  /\ IF Exists(write[o].target)
     THEN Leave(o) /\ UNCHANGED disk
     ELSE Proceed(o, "FILL") /\ disk' = With(disk, write[o].target, Broken)
  /\ UNCHANGED <<tmp, hasOpen, unlucky>>

\* Mutant of FillExclusive: a draft, which has no authority, is not audited.
MutFillExclusive(o) ==
  /\ At(o, "FILL") /\ ~Updates(o)
  /\ disk' = With(disk, write[o].target, write[o].content)
  /\ IF write[o].action = "CREATE" THEN Leave(o) ELSE Proceed(o, "AUDIT")
  /\ UNCHANGED <<tmp, hasOpen, unlucky>>

FillExclusive(o) ==
  /\ At(o, "FILL") /\ ~Updates(o)
  /\ disk' = With(disk, write[o].target, write[o].content)
  /\ Proceed(o, "AUDIT")
  /\ UNCHANGED <<tmp, hasOpen, unlucky>>

\* Mutant of OpenTmp: the draft itself is emptied and written.
MutOpenTmp(o) ==
  /\ At(o, "OPEN") /\ Updates(o)
  /\ disk' = With(disk, write[o].target, Broken)
  /\ hasOpen' = [hasOpen EXCEPT ![o] = "FINAL"]
  /\ unlucky' = unlucky \cup IF Collides(o) THEN {write[o].target} ELSE {}
  /\ Proceed(o, "FILL")
  /\ UNCHANGED tmp

\* _atomic_replace: the temporary file is emptied, filled and renamed.
OpenTmp(o) ==
  /\ At(o, "OPEN") /\ Updates(o)
  /\ tmp' = With(tmp, write[o].target, Broken)
  /\ hasOpen' = [hasOpen EXCEPT ![o] = "TMP"]
  /\ unlucky' = unlucky \cup IF Collides(o) THEN {write[o].target} ELSE {}
  /\ Proceed(o, "FILL")
  /\ UNCHANGED disk

\* Bytes written over those of another update may be neither text.
Overwritten(o, old) ==
  {write[o].content} \cup IF old \in {Broken, write[o].content} THEN {} ELSE {Broken}

FillTmp(o) ==
  /\ At(o, "FILL") /\ Updates(o)
  /\ LET d == write[o].target IN
       IF hasOpen[o] = "TMP"
       THEN \E bytes \in Overwritten(o, tmp[d]) : tmp' = With(tmp, d, bytes) /\ UNCHANGED disk
       ELSE \E bytes \in Overwritten(o, disk[d]) : disk' = With(disk, d, bytes) /\ UNCHANGED tmp
  /\ Proceed(o, "RENAME")
  /\ UNCHANGED <<hasOpen, unlucky>>

\* Whoever still has the temporary file open goes on writing to the draft.
RenameTmp(o) ==
  /\ At(o, "RENAME")
  /\ LET d == write[o].target IN
       IF d \in DOMAIN tmp
       THEN /\ disk' = With(disk, d, tmp[d])
            /\ tmp' = Restrict(tmp, DOMAIN tmp \ {d})
            /\ hasOpen' = [p \in Operators |->
                             IF write[p] # NoWrite /\ write[p].target = d THEN "FINAL" ELSE hasOpen[p]]
            /\ Proceed(o, "AUDIT")
       ELSE Leave(o) /\ UNCHANGED <<disk, tmp, hasOpen>>
  /\ UNCHANGED unlucky

\* The same action on the same object at the same time is the same audit record.
CreateAudit(o) ==
  /\ At(o, "AUDIT")
  /\ IF Exists(AuditPath(write[o]))
     THEN Leave(o) /\ UNCHANGED disk
     ELSE Proceed(o, "AUDIT_FILL") /\ disk' = With(disk, AuditPath(write[o]), Broken)
  /\ UNCHANGED <<tmp, hasOpen, unlucky>>

FillAudit(o) ==
  /\ At(o, "AUDIT_FILL")
  /\ disk' = With(disk, AuditPath(write[o]), write[o].content)
  /\ Leave(o)
  /\ UNCHANGED <<tmp, hasOpen, unlucky>>

\* The process stops.
Halt(o) ==
  /\ write[o] # NoWrite
  /\ Leave(o)
  /\ unlucky' = unlucky \cup IF Updates(o) \/ At(o, "OPEN") THEN {} ELSE {write[o].target}
  /\ UNCHANGED <<disk, tmp, hasOpen>>

RecordsInit ==
  /\ disk = <<>> /\ tmp = <<>>
  /\ write = [o \in Operators |-> NoWrite]
  /\ hasOpen = [o \in Operators |-> "FINAL"]
  /\ unlucky = {}

RecordsNext ==
  \E o \in Operators :
    \/ CreateDraft(o) \/ UpdateDraft(o) \/ FreezeDraft(o) \/ FreezeNew(o) \/ Supersede(o)
    \/ CreateExclusive(o) \/ FillExclusive(o)
    \/ OpenTmp(o) \/ FillTmp(o) \/ RenameTmp(o)
    \/ CreateAudit(o) \/ FillAudit(o) \/ Halt(o)

RecordsSpec == RecordsInit /\ [][RecordsNext]_recordVars

(***************************************************************************)
(* Properties                                                              *)
(***************************************************************************)

Audits == {p \in DOMAIN disk : p[1] = "audit"}
Intact(p) == p \in DOMAIN disk /\ disk[p] # Broken
Audited(object) == \E p \in Audits : Intact(p) /\ p[3] = object
UnderWay(object) == \E o \in Operators : write[o] # NoWrite /\ write[o].target = object

\* Type invariant: files and the mutations under way.
RecordsTypeOK ==
  /\ \A p \in DOMAIN disk : disk[p] \in Contents \cup {Broken}
  /\ OnDisk \cup Audits = DOMAIN disk
  /\ DOMAIN tmp \subseteq Drafts
  /\ write \in [Operators -> Writes \cup {NoWrite}]
  /\ hasOpen \in [Operators -> {"TMP", "FINAL"}]
  /\ unlucky \subseteq Objects

\* An audit record is never about something that is not there.
AuditHasObject == \A p \in Audits : p[3] \in OnDisk

\* "Every public mutation emits a frozen AuditEvent": an object without an audit
\* record has its writer still under way, or that writer was stopped.
MutationsAudited ==
  \A object \in OnDisk : Audited(object) \/ UnderWay(object) \/ object \in unlucky

\* A draft can be read unless a writer is at it, its creation was stopped, or two
\* updates of it met in the temporary file: an update that stops leaves it whole.
DraftsReadable ==
  \A d \in OnDisk \cap Drafts : Intact(d) \/ UnderWay(d) \/ d \in unlucky

\* Frozen records and audit records are never changed once they are whole.
FrozenImmutable ==
  [][\A p \in DOMAIN disk \ Drafts : Intact(p) => p \in DOMAIN disk' /\ disk'[p] = disk[p]]_recordVars

\* A record whose writer stopped before the audit record was whole never gets one:
\* the retry finds the file and raises before it comes to the audit.
OrphansStayUnaudited == \A r \in unlucky \ Drafts : ~Audited(r)

\* Records and audit trail agree at every step of two operators who may stop: what
\* is audited exists, what exists unaudited has a cause and stays so, and a draft
\* is readable unless two updates shared its temporary file.
RecordsInv ==
  /\ RecordsTypeOK
  /\ AuditHasObject
  /\ MutationsAudited
  /\ DraftsReadable
  /\ OrphansStayUnaudited
===============================================================================

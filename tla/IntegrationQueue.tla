--------------------------- MODULE IntegrationQueue ---------------------------
(***************************************************************************)
(* The serial integration queue: candidates admitted by their facts, in    *)
(* the order of a ready sequence, and one final-integration lease.  Every  *)
(* operation of siq_core returns a new QueueState; the queue is the one    *)
(* the caller goes on with.  A candidate's checks are abstracted to what   *)
(* evaluate_ready_admission makes of them, its reason codes to whether one *)
(* is about lineage and whether there is another.                          *)
(***************************************************************************)
EXTENDS Integers, FiniteSetsExt

CONSTANTS
  Packets,      \* packet ids: integers, in their sort order
  NoPacket,
  Offered       \* what may be enqueued: see Candidates

ASSUME PacketsAssumption == Packets \subseteq Int /\ NoPacket \notin Packets

VARIABLES
  rows,         \* [enqueued packets -> candidate]
  holder        \* lease_holder_packet_id

queueVars == <<rows, holder>>

Facts == {"COMPLETE", "INCOMPLETE", "OPERATOR", "NO_LINEAGE"}
QueueStates == {"READY", "WAIT", "BLOCKED", "QUARANTINED", "OPERATOR_REQUIRED", "INTEGRATED"}
Codes == {"LINEAGE", "OTHER"}
Candidates == [state : QueueStates \cup {"BUILD"}, sequence : Nat, facts : Facts, codes : SUBSET Codes]

\* A ready_sequence below 0 is one of 0.
ASSUME OfferedAssumption == Offered \subseteq Candidates

\* The blockers of a candidate: its reason codes, and what its facts add.
Blockers(row) ==
  row.codes \cup (IF row.facts = "NO_LINEAGE" THEN {"LINEAGE"} ELSE {})
            \cup (IF row.facts \in {"INCOMPLETE", "OPERATOR"} THEN {"OTHER"} ELSE {})

\* Mutant of Admitted: what an earlier evaluation found is not held against the row.
MutAdmitted(row) ==
  [row EXCEPT !.state = IF row.facts = "COMPLETE" THEN "READY" ELSE "WAIT"]

\* evaluate_ready_admission
Admitted(row) ==
  IF row.state \in {"QUARANTINED", "BLOCKED"}
  THEN [row EXCEPT !.codes = @ \cup {"OTHER"}]
  ELSE [row EXCEPT
          !.state = IF "LINEAGE" \in Blockers(row) THEN "WAIT"
                    ELSE IF row.facts = "OPERATOR" THEN "OPERATOR_REQUIRED"
                    ELSE IF Blockers(row) # {} THEN "WAIT" ELSE "READY",
          !.codes = Blockers(row)]

Queued == DOMAIN rows
Before(p, q) == \/ rows[p].sequence < rows[q].sequence
                \/ rows[p].sequence = rows[q].sequence /\ p < q

\* queue_head
IsHead(p) ==
  /\ p \in Queued /\ rows[p].state = "READY"
  /\ \A q \in Queued \ {p} : rows[q].state = "READY" => Before(p, q)

NextSequence == Max({rows[p].sequence : p \in Queued} \cup {0}) + 1

\* A candidate comes with any state and reason codes; an explicit ready_sequence may
\* go before the lease holder's.
Enqueue(p, candidate) ==
  /\ p \notin Queued
  /\ LET row == [candidate EXCEPT !.sequence = IF @ <= 0 THEN NextSequence ELSE @]
     IN rows' = [q \in Queued \cup {p} |-> IF q = p THEN Admitted(row) ELSE rows[q]]
  /\ UNCHANGED holder

\* Mutant of LeaseFree: the lease passes to the head whoever has it.
MutLeaseFree(p) == TRUE

LeaseFree(p) == holder \in {NoPacket, p}

AcquireLease(p) ==
  /\ IsHead(p)
  /\ LeaseFree(p)
  /\ holder' = p
  /\ UNCHANGED rows

ReleaseLease(p) ==
  /\ holder = p
  /\ holder' = NoPacket
  /\ UNCHANGED rows

\* Mutant of EndLease: the row is changed and the lease is not given up.
MutEndLease(p, state) ==
  /\ holder = p
  /\ rows' = [rows EXCEPT ![p].state = state, ![p].codes = @ \cup {"OTHER"}]
  /\ UNCHANGED holder

\* The holder gives up the lease, and its row gets a state and a reason code.
EndLease(p, state) ==
  /\ holder = p
  /\ rows' = [rows EXCEPT ![p].state = state, ![p].codes = @ \cup {"OTHER"}]
  /\ holder' = NoPacket

\* handle_lease_elapsed past LEASE_RELEASE_REQUEUE_SECONDS; before, it only warns.
LeaseElapsed(p, checkActive) == ~checkActive /\ EndLease(p, "READY")

TerminateLease(p, disposition) ==
  /\ disposition \in {"REQUEUE", "BLOCKED", "QUARANTINED", "OPERATOR_REQUIRED"}
  /\ EndLease(p, IF disposition = "REQUEUE" THEN "READY" ELSE disposition)

MarkIntegrated(p) == EndLease(p, "INTEGRATED")

\* build_queue_state from the rows of an earlier state: the lease is not among them.
BuildQueueState ==
  /\ Queued # {}
  /\ rows' = [p \in Queued |-> Admitted(rows[p])]
  /\ holder' = NoPacket

QueueInit == rows = <<>> /\ holder = NoPacket

QueueNext ==
  \/ \E p \in Packets :
       \/ \E candidate \in Offered : Enqueue(p, candidate)
       \/ AcquireLease(p) \/ ReleaseLease(p) \/ MarkIntegrated(p)
       \/ \E active \in BOOLEAN : LeaseElapsed(p, active)
       \/ \E d \in {"REQUEUE", "BLOCKED", "QUARANTINED", "OPERATOR_REQUIRED"} : TerminateLease(p, d)
  \/ BuildQueueState

QueueSpec == QueueInit /\ [][QueueNext]_queueVars

(***************************************************************************)
(* Properties                                                              *)
(***************************************************************************)

\* Type invariant: rows of queued packets, and a holder that is one of them.
QueueTypeOK ==
  /\ Queued \subseteq Packets
  /\ \A p \in Queued : rows[p] \in Candidates /\ rows[p].state # "BUILD"
  /\ holder \in Queued \cup {NoPacket}

\* The holder of the lease is READY and complete, whoever was enqueued before it
\* since: no operation on another packet, and no end of its own, leaves it the lease.
HolderReady ==
  holder # NoPacket =>
    /\ rows[holder].state = "READY"
    /\ rows[holder].facts = "COMPLETE"
    /\ "LINEAGE" \notin rows[holder].codes

\* The lease goes from one packet to another only through nobody: a packet that
\* jumps the queue by its ready_sequence waits for the holder.
LeaseNotTaken == holder # NoPacket => holder' \in {holder, NoPacket}

\* A packet that is not READY never becomes so, not even when the queue is rebuilt
\* from its rows: whatever stopped it left a reason code, which still blocks it.  So
\* nothing integrated, blocked or quarantined is ever integrated again.
NeverReadyAgain == \A p \in Queued : rows[p].state # "READY" => rows'[p].state # "READY"

\* What no step of the queue does: see the parts.
QueueSteps == [][LeaseNotTaken /\ NeverReadyAgain]_queueVars

\* What every sequence of queue operations keeps of a QueueState.
QueueInv ==
  /\ QueueTypeOK
  /\ HolderReady
===============================================================================

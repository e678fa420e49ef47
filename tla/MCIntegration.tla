----------------------------- MODULE MCIntegration -----------------------------
(***************************************************************************)
(* The way of a change to main: the queue, the admission under the lease   *)
(* of the base branch, and the files of the completion.  No code of the    *)
(* repository calls two of them on shared state, so a behaviour is one of  *)
(* them running while the others rest: the states are the sum of theirs.   *)
(***************************************************************************)
EXTENDS IntegrationQueue, FinalAdmission, PhysicalCompletion

VARIABLE running

vars == <<running, queueVars, finalVars, completionVars>>

\* Candidates in their first state, with an explicit ready_sequence or none, and some that
\* claim to be further or come with a reason code.
MCOffered ==
  [state : {"BUILD"}, sequence : 0..2, facts : Facts, codes : {{}}]
  \cup [state : {"READY", "INTEGRATED", "QUARANTINED"}, sequence : {1}, facts : {"COMPLETE"},
        codes : {{}, {"LINEAGE"}}]

MCChanges == (PullRequests \X (1..(MaxEdits + 1))) \cup Others

Init ==
  /\ running \in {"queue", "admission", "completion"}
  /\ QueueInit /\ FinalInit /\ CompletionInit

Next ==
  /\ UNCHANGED running
  /\ \/ running = "queue" /\ QueueNext /\ UNCHANGED <<finalVars, completionVars>>
     \/ running = "admission" /\ FinalNext /\ UNCHANGED <<queueVars, completionVars>>
     \/ running = "completion" /\ CompletionNext /\ UNCHANGED <<queueVars, finalVars>>

Spec == Init /\ [][Next]_vars /\ FinalFairness
================================================================================

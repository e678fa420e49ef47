------------------------ MODULE MCPersistentSupervisor ------------------------
(***************************************************************************)
(* A small instance of PersistentSupervisor: two processes that share one  *)
(* holder identity.                                                        *)
(***************************************************************************)
EXTENDS PersistentSupervisor, TLC

CONSTANTS s1, s2, h1, w1, w2, r1

MCIdentity == [p \in Procs |-> h1]
WorkerSymmetry == Permutations({w1, w2})

\* The event ledger and the dispatches share only the lease: they are filled in turn.
EventsOrDispatches ==
  \/ /\ \A s \in Sources : watermark[s] = -1
     /\ sweeps = {} /\ \A v \in Providers : attempts[v] = 0
  \/ \A d \in Dispatches : txn[d] = NoTxn /\ owner[d] = NoOwner
===============================================================================

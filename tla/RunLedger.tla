------------------------------- MODULE RunLedger -------------------------------
(***************************************************************************)
(* What a durable run promises: a log of work-unit receipts that starts    *)
(* empty and grows by one planned unit at a time, in plan order, whatever  *)
(* processes, crashes and resumes happen below.                            *)
(***************************************************************************)
EXTENDS Naturals, Sequences

CONSTANTS Plan, Results

VARIABLE log

Init == log = << >>

\* The next planned unit is committed with one of its possible outputs.
Commit ==
  /\ Len(log) < Len(Plan)
  /\ \E o \in Results[Plan[Len(log) + 1]] :
       log' = Append(log, <<Plan[Len(log) + 1], o>>)

Spec == Init /\ [][Commit]_log
===============================================================================

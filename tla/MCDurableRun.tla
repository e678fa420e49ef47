----------------------------- MODULE MCDurableRun -----------------------------
(***************************************************************************)
(* Small instances of DurableRun.  Three units: u2 needs the artifact of   *)
(* u1, u3 needs both.  MCResults is a reproducible worker; MCDrifting is   *)
(* one whose second unit comes out differently when it is recomputed.      *)
(***************************************************************************)
EXTENDS DurableRun, TLC

CONSTANTS u1, u2, u3, a, b, c, d

MCPlan == <<u1, u2, u3>>
MCNeeds == (u1 :> {}) @@ (u2 :> {u1}) @@ (u3 :> {u1, u2})
MCResults == (u1 :> {a}) @@ (u2 :> {b}) @@ (u3 :> {c})
MCDrifting == (u1 :> {a}) @@ (u2 :> {b, d}) @@ (u3 :> {c})
MCBytes == [o \in Outputs |-> IF o = d THEN 2 ELSE 1]

===============================================================================

--------------------------- MODULE MCArtifactStore ---------------------------
(***************************************************************************)
(* Small instances of ArtifactStore: two units that share chunks; in       *)
(* MCOutputs a chunk occurs twice in the first unit and the second unit    *)
(* may be recomputed with another output.                                  *)
(***************************************************************************)
EXTENDS ArtifactStore, TLC

CONSTANTS u1, u2, ka, kb, kc

MCOutputs == (u1 :> {<<ka, kb, ka>>}) @@ (u2 :> {<<kb, kc>>, <<kc>>})
MCDistinct == (u1 :> {<<ka, kb>>}) @@ (u2 :> {<<kb, kc>>})
MCSize == (ka :> 1) @@ (kb :> 1) @@ (kc :> 4)
===============================================================================

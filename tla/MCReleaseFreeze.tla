--------------------------- MODULE MCReleaseFreeze ---------------------------
(***************************************************************************)
(* Small instances of ReleaseFreeze: two file names, two file contents.    *)
(***************************************************************************)
EXTENDS ReleaseFreeze, TLC

CONSTANTS p1, p2, w1, b1, b2

===============================================================================

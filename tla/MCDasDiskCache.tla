--------------------------- MODULE MCDasDiskCache ---------------------------
(***************************************************************************)
(* Instances of DasDiskCache for TLC.  The processes are interchangeable,  *)
(* so the safety run uses their permutations as a symmetry set.                *)
(***************************************************************************)
EXTENDS DasDiskCache, TLC

Symmetry == Permutations(Process)
=============================================================================

----------------------------- MODULE MCStoreLock -----------------------------
(* Instances of StoreLock for TLC.                                         *)
EXTENDS StoreLock, TLC

Symmetry == Permutations(Callers)
=============================================================================

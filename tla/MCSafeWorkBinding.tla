-------------------------- MODULE MCSafeWorkBinding --------------------------
(* Instances of SafeWorkBinding for TLC.                                   *)
EXTENDS SafeWorkBinding, TLC

Symmetry == Permutations(Prepares) \cup Permutations(ToolCalls)
                \cup Permutations(Cancels) \cup Permutations(Items)
=============================================================================

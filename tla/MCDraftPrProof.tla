---------------------------- MODULE MCDraftPrProof ----------------------------
(* Instances of DraftPrProof for TLC.                                      *)
EXTENDS DraftPrProof, TLC

Symmetry == Permutations(Dispatches) \cup Permutations(Afters) \cup Permutations(ToolCalls)
===============================================================================

--------------------------- MODULE MCAgentIdentity ---------------------------
(* Instances of AgentIdentity for TLC.                                     *)
EXTENDS AgentIdentity, TLC

Symmetry == Permutations(Agents) \cup Permutations(Loads) \cup Permutations(Dirs \ {Legacy})
=============================================================================

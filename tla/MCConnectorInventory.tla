------------------------- MODULE MCConnectorInventory -------------------------
(* Instances of ConnectorInventory for TLC.                                *)
EXTENDS ConnectorInventory, TLC

Symmetry == Permutations(Tools) \cup Permutations(Refreshes)
=============================================================================

------------------------ MODULE MCActionIntentStore ------------------------
(* Instances of ActionIntentStore for TLC.                                 *)
EXTENDS ActionIntentStore, TLC

CONSTANTS i1, i2, i3, p1, p2

\* i1 and i2 carry the same payload, i3 another one.
SamePayload == [i \in Intents |-> p1]
TwoPayloads == [i \in Intents |-> IF i = i3 THEN p2 ELSE p1]

Symmetry == Permutations(Commands)
=============================================================================

----------------------- MODULE MCIdempotencyGateway -------------------------
(* IdempotencyGateway on a small instance; see the .cfg files.             *)
EXTENDS IdempotencyGateway, TLC

Symmetry == Permutations(Requests) \cup Permutations(Fingerprints)
=============================================================================

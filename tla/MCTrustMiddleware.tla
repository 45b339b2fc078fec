-------------------------- MODULE MCTrustMiddleware --------------------------
(* Instances of TrustMiddleware for TLC.                                   *)
EXTENDS TrustMiddleware, TLC
=============================================================================

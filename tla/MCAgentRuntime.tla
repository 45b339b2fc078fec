---------------------------- MODULE MCAgentRuntime ----------------------------
(* Instances of AgentRuntime for TLC.  Calls that are permuted, or names     *)
(* that are, give the same behaviours: one order of the kinds and one name   *)
(* for the first call are enough.                                            *)
EXTENDS AgentRuntime

Place == [enter |-> 1, commit |-> 2, claimInvite |-> 3, claimLease |-> 4]

UpToSymmetry ==
    /\ \A c, d \in Calls : c < d => Place[call[c].kind] <= Place[call[d].kind]
    /\ call[CHOOSE c \in Calls : TRUE].name = CHOOSE n \in Names : TRUE

MCInit == Init /\ UpToSymmetry

MCSpec == MCInit /\ [][Next]_vars /\ Fairness
=============================================================================

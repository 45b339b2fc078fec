--------------------------- MODULE MCAuthorityChain ---------------------------
(* Instances of AuthorityChain for TLC.                                    *)
EXTENDS AuthorityChain, TLC

MCLimits ==
    {[ttl |-> 1, actions |-> 1, cost |-> None],
     [ttl |-> 2, actions |-> 2, cost |-> 1]}

Receipt(kind, status, at) == [kind |-> kind, status |-> status, recorded |-> at]
Dispatch(status, at) == Receipt("dispatch", status, at)

\* Dispatches that disagree, the resolution of a lost one, and chains that are refused: a
\* dispatch that no binding outlives, a resolution of what was known, one that is no
\* later, and one without its dispatch.
MCChains == LET resolution == Receipt("reconciliation", "failed", 1)
            IN  {<<Dispatch("committed", 0)>>, <<Dispatch("failed", 1)>>,
                 <<Dispatch("unknown", 2)>>,
                 <<Dispatch("unknown", 0), resolution>>,
                 <<Dispatch("committed", 0), resolution>>,
                 <<Dispatch("unknown", 1), resolution>>, <<resolution>>}

Symmetry == Permutations(RequestIds) \cup Permutations(DecisionIds)
                \cup Permutations(LeaseIds) \cup Permutations(IntentIds)
=============================================================================

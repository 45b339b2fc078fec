----------------------------- MODULE MCPolicySync -----------------------------
(***************************************************************************)
(* Instances of PolicySync and of GovernedDispatch for TLC.  The two share *)
(* no variable, and a product would only repeat each at every state of the *)
(* other: one moves while the other rests where it began.                  *)
(***************************************************************************)
EXTENDS PolicySync, GovernedDispatch, TLC

-----------------------------------------------------------------------------
(* Controllers that compete.                                               *)

CONSTANTS b1, b2, x2, b3

\* Two bundles have sequence 2; b3 follows one of them.
Number == (b1 :> 1) @@ (b2 :> 2) @@ (x2 :> 2) @@ (b3 :> 3)
Parent == (b1 :> None) @@ (b2 :> b1) @@ (x2 :> b1) @@ (b3 :> b2)

-----------------------------------------------------------------------------
(* From a policy to a dispatch: two policies, one alive until the other is, *)
(* of which the second has a profile for one tool more.  The registry that  *)
(* is compiled in has the versions of the first policy's.                   *)

CONSTANTS draft, other, own, github, elsewhere, right, wrong, builtin, first, second

Tool(owner, schema, declared) == [owner |-> owner, schema |-> schema, declared |-> declared]
Catalog(d, o) == (draft :> d) @@ (other :> o) @@ (own :> Tool(elsewhere, Absent, "nothing"))

Good == Tool(github, right, "nothing")
Reads == Tool(elsewhere, wrong, "harmless")

MCCatalogs == {
    Catalog(Good, Reads),
    Catalog(Good, Tool(elsewhere, wrong, "as_profile")),
    Catalog(Tool(elsewhere, right, "nothing"), Reads),
    Catalog(Tool(github, wrong, "nothing"), Reads),
    Catalog(Tool(github, right, "harmless"), Absent)}

Profiles(o) == (draft :> right) @@ (other :> o) @@ (own :> Absent)
MCExpected == (builtin :> Profiles(Absent)) @@ (first :> Profiles(Absent))
                  @@ (second :> Profiles(wrong))
MCVersion == (builtin :> first) @@ (first :> first) @@ (second :> second)

MCRegistry == (1 :> first) @@ (2 :> second)
MCOwner == [b \in 1..2 |-> (draft :> github) @@ (other :> elsewhere) @@ (own :> elsewhere)]
MCNotBefore == (1 :> 0) @@ (2 :> 1)
MCExpires == (1 :> 1) @@ (2 :> 3)

-----------------------------------------------------------------------------
PolicyInit == Init /\ GovernedInit

\* Nothing that comes after the dispatch changes the plan or the dispatch.
PolicyStep ==
    \/ /\ GovernedInit /\ host = Catalog(Good, Reads)
       /\ Next /\ UNCHANGED governedVars
    \/ /\ dispatch = Absent
       /\ Init /\ at = [s \in Syncs |-> CHOOSE c \in Controllers : TRUE]
       /\ GovernedNext /\ UNCHANGED vars

PolicySpec == PolicyInit /\ [][PolicyStep]_<<vars, governedVars>>
===============================================================================

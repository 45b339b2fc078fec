----------------------------- MODULE AgreedPolicy -----------------------------
(***************************************************************************)
(* What the controllers of a signed policy promise together: the bundles   *)
(* that were agreed on follow one another, each controller has one of them *)
(* or none, and a binding is made of the bundle that its controller has    *)
(* and goes with it.                                                       *)
(*                                                                         *)
(* A controller may have a bundle that others have moved on from. It does  *)
(* not have one that was never agreed on.                                  *)
(***************************************************************************)
CONSTANTS
    Controllers, Bundles,
    Successors,     \* the pairs of a bundle, or None, and one that may follow it
    None

VARIABLES
    newest,         \* the bundle that was agreed on last
    agreed,         \* all that ever were
    has,            \* the bundle that each controller has
    bound           \* the bundle of the last binding that it made

abstractVars == <<newest, agreed, has, bound>>

AbstractInit ==
    /\ newest = None
    /\ agreed = {}
    /\ has = [c \in Controllers |-> None]
    /\ bound = [c \in Controllers |-> None]

Agree(b) ==
    /\ <<newest, b>> \in Successors
    /\ newest' = b
    /\ agreed' = agreed \cup {b}

\* A controller that gets another bundle, or loses the one it has, has no binding.
Get(c, b) ==
    /\ has' = [has EXCEPT ![c] = b]
    /\ bound' = [bound EXCEPT ![c] = None]

Bind(c) ==
    /\ has[c] # None
    /\ bound' = [bound EXCEPT ![c] = has[c]]
    /\ UNCHANGED <<newest, agreed, has>>

AbstractNext ==
    \/ \E b \in Bundles :
          Agree(b) /\ (UNCHANGED <<has, bound>> \/ \E c \in Controllers : Get(c, b))
    \/ \E c \in Controllers, b \in agreed \cup {None} : Get(c, b) /\ UNCHANGED <<newest, agreed>>
    \/ \E c \in Controllers : Bind(c)

AbstractSpec == AbstractInit /\ [][AbstractNext]_abstractVars
===============================================================================

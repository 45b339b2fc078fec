------------------------------ MODULE PolicySync ------------------------------
(***************************************************************************)
(* Controllers that keep a signed connector policy in memory and agree on  *)
(* a checkpoint which they share (src/canonical-connector-policy-sync.js). *)
(*                                                                         *)
(* A sync loads the checkpoint, reads a bundle from the source, decides,   *)
(* and compares and sets; other syncs, of the same or another controller,  *)
(* and clearRuntimeCache may come between any two of these. The source may *)
(* answer with any bundle that was ever signed, or with an error; a bundle *)
(* that does not validate (origin, time, key, signature, registry) counts  *)
(* as an error.                                                            *)
(*                                                                         *)
(* The fingerprint of a checkpoint covers its bundle and the time when it  *)
(* was accepted. No bundle is accepted twice, so the bundle stands for it. *)
(***************************************************************************)
EXTENDS Naturals

CONSTANTS
    Controllers,
    Syncs,          \* calls of sync that find no other to share
    Bundles,        \* policy bundles with the signature of the trust anchor
    Sequence, Previous,     \* sequence and predecessor of a bundle
    MinimumSequence,
    MaxClears,      \* how often the cache of a controller is cleared
    None

ASSUME PolicyAssumption ==
    /\ Sequence \in [Bundles -> Nat \ {0}]
    /\ Previous \in [Bundles -> Bundles \cup {None}]
    /\ MinimumSequence \in Nat \ {0}
    /\ MaxClears \in Nat
    /\ None \notin Bundles \cup Syncs

VARIABLES
    checkpoint,     \* the bundle of the shared checkpoint
    accepted,       \* every bundle that the checkpoint ever had
    currentBundle, lastError, latestBinding, syncPromise, epoch,
    pc, at, begun, previous, bundle     \* the local variables of a sync

controller == <<currentBundle, lastError, latestBinding, syncPromise, epoch>>
sync == <<pc, at, begun, previous, bundle>>
vars == <<checkpoint, accepted, currentBundle, lastError, latestBinding,
          syncPromise, epoch, pc, at, begun, previous, bundle>>

Labels == {"idle", "loading", "reading", "storing", "stored", "failing", "ended", "done"}
InFlight == {"loading", "reading", "storing", "stored", "failing"}
Maybe(S) == S \cup {None}

PolicyTypeOK ==
    /\ checkpoint \in Maybe(Bundles)
    /\ accepted \subseteq Bundles
    /\ currentBundle \in [Controllers -> Maybe(Bundles)]
    /\ lastError \in [Controllers -> BOOLEAN]
    /\ \A c \in Controllers : lastError[c] => currentBundle[c] = None
    /\ latestBinding \in [Controllers -> Maybe(Bundles)]
    /\ syncPromise \in [Controllers -> Maybe(Syncs)]
    /\ epoch \in [Controllers -> 0..MaxClears]
    /\ pc \in [Syncs -> Labels]
    /\ at \in [Syncs -> Controllers]
    /\ begun \in [Syncs -> 0..MaxClears]
    /\ previous \in [Syncs -> Maybe(accepted)]
    /\ bundle \in [Syncs -> Maybe(Bundles)]

Init ==
    /\ checkpoint = None
    /\ accepted = {}
    /\ currentBundle = [c \in Controllers |-> None]
    /\ lastError = [c \in Controllers |-> FALSE]
    /\ latestBinding = [c \in Controllers |-> None]
    /\ syncPromise = [c \in Controllers |-> None]
    /\ epoch = [c \in Controllers |-> 0]
    /\ pc = [s \in Syncs |-> "idle"]
    /\ at \in [Syncs -> Controllers]
    /\ begun = [s \in Syncs |-> 0]
    /\ previous = [s \in Syncs |-> None]
    /\ bundle = [s \in Syncs |-> None]

-----------------------------------------------------------------------------
(* The two ways in which a sync ends, unless the cache was cleared since it *)
(* began: then it changes nothing.                                          *)

\* Mutant of Superseded: the epoch is not looked at.
NeverSuperseded(s) == FALSE

Superseded(s) == begun[s] # epoch[at[s]]

\* The locals of a sync that ended do not matter.
Ends(s) ==
    /\ pc' = [pc EXCEPT ![s] = "ended"]
    /\ previous' = [previous EXCEPT ![s] = None]
    /\ bundle' = [bundle EXCEPT ![s] = None]

Unbound(s, ok) == [latestBinding EXCEPT ![at[s]] = None]

Held(s, b) == [currentBundle EXCEPT ![at[s]] = b]

\* What a sync leaves: the bundle b and no error, or no bundle and an error.
Leaves(s, b) ==
    /\ Ends(s)
    /\ IF Superseded(s) THEN UNCHANGED <<currentBundle, lastError, latestBinding>>
       ELSE /\ currentBundle' = Held(s, b)
            /\ lastError' = [lastError EXCEPT ![at[s]] = (b = None)]
            /\ latestBinding' = Unbound(s, b # None)

-----------------------------------------------------------------------------
(* The steps of sync.                                                      *)

MayBegin(c) == syncPromise[c] = None

\* A call that finds a promise shares it and changes nothing.
Begin(s) ==
    /\ pc[s] = "idle"
    /\ MayBegin(at[s])
    /\ syncPromise' = [syncPromise EXCEPT ![at[s]] = s]
    /\ begun' = [begun EXCEPT ![s] = epoch[at[s]]]
    /\ pc' = [pc EXCEPT ![s] = "loading"]
    /\ UNCHANGED <<checkpoint, accepted, currentBundle, lastError, latestBinding, epoch,
                   at, previous, bundle>>

Load(s) ==
    /\ pc[s] = "loading"
    /\ previous' = [previous EXCEPT ![s] = checkpoint]
    /\ pc' = [pc EXCEPT ![s] = "reading"]
    /\ UNCHANGED <<checkpoint, accepted, controller, at, begun, bundle>>

\* Mutant of IsRepeat: the same sequence is enough.
IsRepeatBySequence(p, b) == p # None /\ Sequence[b] = Sequence[p]

IsRepeat(p, b) == p # None /\ b = p

IsNext(p, b) ==
    IF p = None THEN Sequence[b] = MinimumSequence /\ Previous[b] = None
    ELSE Sequence[b] = Sequence[p] + 1 /\ Previous[b] = p

\* The source answers with a bundle. A repeat of the checkpoint becomes current
\* without another look at the store.
Read(s) ==
    /\ pc[s] = "reading"
    /\ \E b \in Bundles :
          IF ~Superseded(s) /\ ~IsRepeat(previous[s], b) /\ IsNext(previous[s], b)
          THEN /\ bundle' = [bundle EXCEPT ![s] = b]
               /\ pc' = [pc EXCEPT ![s] = "storing"]
               /\ UNCHANGED <<currentBundle, lastError, latestBinding, previous>>
          ELSE Leaves(s, IF IsRepeat(previous[s], b) THEN b ELSE None)
    /\ UNCHANGED <<checkpoint, accepted, syncPromise, epoch, at, begun>>

\* Mutant of Unmoved: the checkpoint is set without a comparison.
UnmovedOrNot(s) == TRUE

Unmoved(s) == checkpoint = previous[s]

\* compareAndSet of the store: it succeeds, or it succeeds and its answer is lost,
\* or it finds another checkpoint.
CompareAndSet(s) ==
    /\ pc[s] = "storing"
    /\ \/ /\ Unmoved(s)
          /\ checkpoint' = bundle[s]
          /\ accepted' = accepted \cup {bundle[s]}
          /\ \E label \in {"stored", "failing"} : pc' = [pc EXCEPT ![s] = label]
       \/ /\ ~Unmoved(s)
          /\ pc' = [pc EXCEPT ![s] = "failing"]
          /\ UNCHANGED <<checkpoint, accepted>>
    /\ UNCHANGED <<controller, at, begun, previous, bundle>>

\* sync goes on after its bundle was stored.
Accept(s) ==
    /\ pc[s] = "stored"
    /\ Leaves(s, bundle[s])
    /\ UNCHANGED <<checkpoint, accepted, syncPromise, epoch, at, begun>>

\* The catch clause: an error of the store or of the source, or a conflict.
Fail(s) ==
    /\ pc[s] \in {"loading", "reading", "storing", "failing"}
    /\ Leaves(s, None)
    /\ UNCHANGED <<checkpoint, accepted, syncPromise, epoch, at, begun>>

\* The finally clause, a turn of the event loop later; it does not look whose
\* promise it takes away.
Finally(s) ==
    /\ pc[s] = "ended"
    /\ syncPromise' = [syncPromise EXCEPT ![at[s]] = None]
    /\ pc' = [pc EXCEPT ![s] = "done"]
    /\ UNCHANGED <<checkpoint, accepted, currentBundle, lastError, latestBinding, epoch,
                   at, begun, previous, bundle>>

-----------------------------------------------------------------------------
bindInventory(c) ==
    /\ currentBundle[c] # None /\ ~lastError[c]
    /\ latestBinding' = [latestBinding EXCEPT ![c] = currentBundle[c]]
    /\ UNCHANGED <<checkpoint, accepted, currentBundle, lastError, syncPromise, epoch, sync>>

clearRuntimeCache(c) ==
    /\ epoch[c] < MaxClears
    /\ epoch' = [epoch EXCEPT ![c] = @ + 1]
    /\ currentBundle' = [currentBundle EXCEPT ![c] = None]
    /\ latestBinding' = [latestBinding EXCEPT ![c] = None]
    /\ lastError' = [lastError EXCEPT ![c] = FALSE]
    /\ syncPromise' = [syncPromise EXCEPT ![c] = None]
    /\ UNCHANGED <<checkpoint, accepted, sync>>

Next ==
    \/ \E s \in Syncs : \/ Begin(s) \/ Load(s) \/ Read(s) \/ CompareAndSet(s)
                        \/ Accept(s) \/ Fail(s) \/ Finally(s)
    \/ \E c \in Controllers : bindInventory(c) \/ clearRuntimeCache(c)

Spec == Init /\ [][Next]_vars

-----------------------------------------------------------------------------
\* Whatever controllers compete, and whatever the source answers, the checkpoint
\* starts at the pinned floor and goes from a bundle to a successor of that bundle.
CheckpointIsAChain ==
    [][checkpoint' # checkpoint => checkpoint' # None /\ IsNext(checkpoint, checkpoint')]_vars

\* No controller ever has a policy that was not accepted by all: also when two
\* bundles are signed with one sequence, every controller has the same one of them.
PolicyIsAgreed ==
    \A c \in Controllers : currentBundle[c] # None =>
        /\ currentBundle[c] \in accepted
        /\ \A b \in accepted : Sequence[b] = Sequence[currentBundle[c]] => b = currentBundle[c]

\* A sync that clearRuntimeCache overtook never brings a policy back: what a
\* controller has was put there by a sync of its present epoch.
ClearedStaysCleared ==
    [][\A c \in Controllers : currentBundle'[c] \notin {currentBundle[c], None} =>
         \E s \in Syncs : at[s] = c /\ pc[s] \in InFlight /\ pc'[s] = "ended" /\ begun[s] = epoch[c]]_vars

Agreement == INSTANCE AgreedPolicy WITH
    Successors <- {pair \in Maybe(Bundles) \X Bundles : IsNext(pair[1], pair[2])},
    newest <- checkpoint, agreed <- accepted, has <- currentBundle, bound <- latestBinding

\* All of sync, with its awaits, its lost answers and its races on the checkpoint, looks
\* as if the bundles were agreed on one by one, and every controller took one of them:
\* a bundle that lost a race, that a superseded or failed sync read, or that the source
\* made up, is never had by anyone, and a binding does not outlive its policy.
KeepsAgreement == Agreement!AbstractSpec

\* A ready binding is one of the policy that the controller has, and there is none
\* after a sync that failed.
BindingIsHealthy ==
    \A c \in Controllers : latestBinding[c] # None =>
        latestBinding[c] = currentBundle[c] /\ ~lastError[c]

\* Calls of sync share one read, until the cache is cleared under a sync: its finally
\* clause then takes the promise of a later one, and a third begins beside it.
OneSyncAtATime ==
    \A s, t \in Syncs :
        /\ at[s] = at[t] /\ epoch[at[s]] = 0
        /\ pc[s] \in InFlight /\ pc[t] \in InFlight
        => s = t
===============================================================================

--------------------------- MODULE PolicySyncProofs ---------------------------
(***************************************************************************)
(* Proofs about PolicySync for any number of controllers, syncs, clears,   *)
(* and any set of signed bundles.                                          *)
(***************************************************************************)
EXTENDS PolicySync, TLAPS

\* What was accepted is one chain, of which the checkpoint is the end.
ChainInv ==
    /\ accepted = {} <=> checkpoint = None
    /\ checkpoint # None => checkpoint \in accepted
    /\ \A b \in accepted : Sequence[b] <= Sequence[checkpoint]
    /\ \A a, b \in accepted : Sequence[a] = Sequence[b] => a = b

\* What a sync that wants to store has checked, and what one that stored has stored.
SyncInv ==
    /\ \A s \in Syncs : pc[s] = "storing" =>
            bundle[s] \in Bundles /\ IsNext(previous[s], bundle[s])
    /\ \A s \in Syncs : pc[s] = "stored" => bundle[s] \in accepted

HeldInv == \A c \in Controllers : currentBundle[c] # None => currentBundle[c] \in accepted

\* The promise of a controller is that of its sync, until the cache is cleared.
PromiseInv ==
    \A s \in Syncs :
        epoch[at[s]] = 0 /\ pc[s] \in InFlight \cup {"ended"} => syncPromise[at[s]] = s

PolicyInv ==
    PolicyTypeOK /\ ChainInv /\ SyncInv /\ HeldInv /\ BindingIsHealthy /\ PromiseInv

LEMMA InitPolicy == Init => PolicyInv
<1> SUFFICES ASSUME Init PROVE PolicyInv  OBVIOUS
<1>1. 0 \in 0..MaxClears
  BY PolicyAssumption
<1>2. PolicyTypeOK
  BY <1>1 DEF Init, PolicyTypeOK, Maybe, Labels
<1>3. ChainInv /\ SyncInv /\ HeldInv /\ BindingIsHealthy /\ PromiseInv
  BY DEF Init, ChainInv, SyncInv, HeldInv, BindingIsHealthy, PromiseInv, InFlight
<1> QED  BY <1>2, <1>3 DEF PolicyInv

-----------------------------------------------------------------------------
(* A sync that ends.                                                       *)

\* What every ending sync does, with the bundle b or with none.
LEMMA EndingPolicy ==
    ASSUME PolicyInv, NEW s \in Syncs, pc[s] \in InFlight,
           NEW b \in Maybe(accepted), Leaves(s, b),
           UNCHANGED <<checkpoint, accepted, syncPromise, epoch, at, begun>>
    PROVE  PolicyInv'
<1> USE DEF PolicyInv, Maybe
<1>0. /\ at[s] \in Controllers
      /\ None \notin Bundles
      /\ pc' = [pc EXCEPT ![s] = "ended"]
      /\ previous' = [previous EXCEPT ![s] = None]
      /\ bundle' = [bundle EXCEPT ![s] = None]
  BY PolicyAssumption DEF PolicyTypeOK, Leaves, Ends
<1>1. \/ UNCHANGED <<currentBundle, lastError, latestBinding>>
      \/ /\ currentBundle' = [currentBundle EXCEPT ![at[s]] = b]
         /\ lastError' = [lastError EXCEPT ![at[s]] = (b = None)]
         /\ latestBinding' = [latestBinding EXCEPT ![at[s]] = None]
  BY DEF Leaves, Held, Unbound
<1>2. PolicyTypeOK'
  <2>1. /\ currentBundle' \in [Controllers -> Bundles \cup {None}]
        /\ latestBinding' \in [Controllers -> Bundles \cup {None}]
    BY <1>0, <1>1 DEF PolicyTypeOK
  <2>4. lastError' \in [Controllers -> BOOLEAN]
    <3>1. lastError \in [Controllers -> BOOLEAN] /\ (b = None) \in BOOLEAN
      BY DEF PolicyTypeOK
    <3> QED  BY <1>1, <3>1
  <2>2. \A c \in Controllers : lastError'[c] => currentBundle'[c] = None
    BY <1>0, <1>1 DEF PolicyTypeOK
  <2>3. pc' \in [Syncs -> Labels] /\ previous' \in [Syncs -> accepted \cup {None}]
        /\ bundle' \in [Syncs -> Bundles \cup {None}]
    BY <1>0 DEF PolicyTypeOK, Labels
  <2> QED  BY <2>1, <2>2, <2>3, <2>4 DEF PolicyTypeOK
<1>3. ChainInv'
  BY DEF ChainInv
<1>4. SyncInv'
  BY <1>0 DEF SyncInv, IsNext, PolicyTypeOK
<1>5. HeldInv'
  BY <1>0, <1>1 DEF HeldInv, PolicyTypeOK
<1>6. BindingIsHealthy'
  BY <1>0, <1>1 DEF BindingIsHealthy, PolicyTypeOK
<1>7. PromiseInv'
  BY <1>0 DEF PromiseInv, PolicyTypeOK, InFlight
<1> QED  BY <1>2, <1>3, <1>4, <1>5, <1>6, <1>7

-----------------------------------------------------------------------------
(* The other steps of a sync.                                              *)

LEMMA BeginPolicy == ASSUME NEW s \in Syncs PROVE PolicyInv /\ Begin(s) => PolicyInv'
<1> SUFFICES ASSUME PolicyInv, Begin(s) PROVE PolicyInv'  OBVIOUS
<1> USE DEF PolicyInv, Begin, Maybe
<1>1. PolicyTypeOK'
  <2>1. at[s] \in Controllers /\ epoch[at[s]] \in 0..MaxClears /\ "loading" \in Labels
    BY DEF PolicyTypeOK, Labels
  <2> QED  BY <2>1 DEF PolicyTypeOK
<1>2. ChainInv' /\ HeldInv' /\ BindingIsHealthy'
  BY DEF ChainInv, HeldInv, BindingIsHealthy
<1>3. SyncInv'
  BY DEF SyncInv, IsNext, PolicyTypeOK
<1>4. PromiseInv'
  BY PolicyAssumption DEF PromiseInv, PolicyTypeOK, MayBegin, InFlight
<1> QED  BY <1>1, <1>2, <1>3, <1>4

LEMMA LoadPolicy == ASSUME NEW s \in Syncs PROVE PolicyInv /\ Load(s) => PolicyInv'
<1> SUFFICES ASSUME PolicyInv, Load(s) PROVE PolicyInv'  OBVIOUS
<1> USE DEF PolicyInv, Load, Maybe, controller
<1>1. PolicyTypeOK'
  <2>1. checkpoint \in accepted \cup {None} /\ "reading" \in Labels
    BY DEF ChainInv, Labels
  <2> QED  BY <2>1 DEF PolicyTypeOK
<1>2. ChainInv' /\ HeldInv' /\ BindingIsHealthy'
  BY DEF ChainInv, HeldInv, BindingIsHealthy
<1>3. SyncInv'
  BY DEF SyncInv, IsNext, PolicyTypeOK
<1>4. PromiseInv'
  BY DEF PromiseInv, PolicyTypeOK, InFlight
<1> QED  BY <1>1, <1>2, <1>3, <1>4

LEMMA ReadPolicy == ASSUME NEW s \in Syncs PROVE PolicyInv /\ Read(s) => PolicyInv'
<1> SUFFICES ASSUME PolicyInv, Read(s) PROVE PolicyInv'  OBVIOUS
<1>1. PICK b \in Bundles :
        \/ /\ IsNext(previous[s], b)
           /\ bundle' = [bundle EXCEPT ![s] = b]
           /\ pc' = [pc EXCEPT ![s] = "storing"]
           /\ UNCHANGED <<currentBundle, lastError, latestBinding, previous>>
        \/ Leaves(s, IF IsRepeat(previous[s], b) THEN b ELSE None)
  BY DEF Read
<1>2. UNCHANGED <<checkpoint, accepted, syncPromise, epoch, at, begun>> /\ pc[s] = "reading"
  BY DEF Read
<1>3. CASE Leaves(s, IF IsRepeat(previous[s], b) THEN b ELSE None)
  <2>1. (IF IsRepeat(previous[s], b) THEN b ELSE None) \in Maybe(accepted)
    BY DEF IsRepeat, PolicyInv, PolicyTypeOK, Maybe
  <2> QED  BY <1>2, <1>3, <2>1, EndingPolicy DEF InFlight
<1>4. CASE ~Leaves(s, IF IsRepeat(previous[s], b) THEN b ELSE None)
  <2> USE DEF PolicyInv, Maybe
  <2>1. PolicyTypeOK'
    BY <1>1, <1>2, <1>4 DEF PolicyTypeOK, Labels
  <2>2. ChainInv' /\ HeldInv' /\ BindingIsHealthy'
    BY <1>1, <1>2, <1>4 DEF ChainInv, HeldInv, BindingIsHealthy
  <2>3. SyncInv'
    BY <1>1, <1>2, <1>4 DEF SyncInv, IsNext, PolicyTypeOK
  <2>4. PromiseInv'
    BY <1>1, <1>2, <1>4 DEF PromiseInv, PolicyTypeOK, InFlight
  <2> QED  BY <2>1, <2>2, <2>3, <2>4
<1> QED  BY <1>3, <1>4

LEMMA SetPolicy == ASSUME NEW s \in Syncs PROVE PolicyInv /\ CompareAndSet(s) => PolicyInv'
<1> SUFFICES ASSUME PolicyInv, CompareAndSet(s) PROVE PolicyInv'  OBVIOUS
<1> USE DEF PolicyInv, Maybe, controller
<1>0. /\ pc[s] = "storing" /\ UNCHANGED <<controller, at, begun, previous, bundle>>
      /\ \E l \in {"stored", "failing"} : pc' = [pc EXCEPT ![s] = l]
  BY DEF CompareAndSet
<1>1. CASE UNCHANGED <<checkpoint, accepted>>
  <2>1. pc' = [pc EXCEPT ![s] = "failing"] \/ bundle[s] \in accepted
    BY <1>1 DEF CompareAndSet
  <2>2. PolicyTypeOK'
    BY <1>0, <1>1 DEF PolicyTypeOK, Labels
  <2>3. ChainInv' /\ HeldInv' /\ BindingIsHealthy'
    BY <1>0, <1>1 DEF ChainInv, HeldInv, BindingIsHealthy
  <2>4. SyncInv'
    BY <1>0, <1>1, <2>1 DEF SyncInv, IsNext, PolicyTypeOK
  <2>5. PromiseInv'
    BY <1>0 DEF PromiseInv, PolicyTypeOK, InFlight
  <2> QED  BY <2>2, <2>3, <2>4, <2>5
<1>2. CASE ~UNCHANGED <<checkpoint, accepted>>
  <2> DEFINE b == bundle[s]
  <2>1. checkpoint = previous[s] /\ checkpoint' = b /\ accepted' = accepted \cup {b}
    BY <1>2 DEF CompareAndSet, Unmoved
  <2>2. b \in Bundles /\ b # None /\ IsNext(checkpoint, b)
    BY <1>0, <2>1, PolicyAssumption DEF SyncInv
  <2>3. \A a \in accepted : Sequence[a] < Sequence[b]
    <3>1. SUFFICES ASSUME NEW a \in accepted PROVE Sequence[a] < Sequence[b]  OBVIOUS
    <3>2. a \in Bundles /\ checkpoint \in Bundles /\ Sequence[a] <= Sequence[checkpoint]
      BY PolicyAssumption DEF ChainInv, PolicyTypeOK
    <3>3. Sequence[b] = Sequence[checkpoint] + 1
      BY <2>2, <3>2, PolicyAssumption DEF IsNext
    <3>4. Sequence[a] \in Nat /\ Sequence[checkpoint] \in Nat
      BY <3>2, PolicyAssumption
    <3> QED  BY <3>2, <3>3, <3>4
  <2>4. \A a \in accepted' : a \in Bundles /\ Sequence[a] \in Nat
    BY <2>1, <2>2, PolicyAssumption DEF PolicyTypeOK
  <2>5. ChainInv'
    BY <2>1, <2>2, <2>3, <2>4 DEF ChainInv
  <2>6. PolicyTypeOK'
    BY <1>0, <2>1, <2>2 DEF PolicyTypeOK, Labels
  <2>7. HeldInv' /\ BindingIsHealthy'
    BY <1>0, <2>1 DEF HeldInv, BindingIsHealthy
  <2>8. SyncInv'
    BY <1>0, <2>1 DEF SyncInv, IsNext, PolicyTypeOK
  <2>9. PromiseInv'
    BY <1>0 DEF PromiseInv, PolicyTypeOK, InFlight
  <2> QED  BY <2>5, <2>6, <2>7, <2>8, <2>9
<1> QED  BY <1>1, <1>2

LEMMA AcceptPolicy == ASSUME NEW s \in Syncs PROVE PolicyInv /\ (Accept(s) \/ Fail(s)) => PolicyInv'
<1> SUFFICES ASSUME PolicyInv, Accept(s) \/ Fail(s) PROVE PolicyInv'  OBVIOUS
<1>1. CASE Accept(s)
  <2>1. bundle[s] \in Maybe(accepted) /\ pc[s] \in InFlight
    BY <1>1 DEF Accept, PolicyInv, SyncInv, Maybe, InFlight
  <2> QED  BY <1>1, <2>1, EndingPolicy DEF Accept
<1>2. CASE Fail(s)
  <2>1. None \in Maybe(accepted) /\ pc[s] \in InFlight
    BY <1>2 DEF Fail, Maybe, InFlight
  <2> QED  BY <1>2, <2>1, EndingPolicy DEF Fail
<1> QED  BY <1>1, <1>2

LEMMA FinallyPolicy == ASSUME NEW s \in Syncs PROVE PolicyInv /\ Finally(s) => PolicyInv'
<1> SUFFICES ASSUME PolicyInv, Finally(s) PROVE PolicyInv'  OBVIOUS
<1> USE DEF PolicyInv, Finally, Maybe
<1>1. PolicyTypeOK'
  BY DEF PolicyTypeOK, Labels
<1>2. ChainInv' /\ HeldInv' /\ BindingIsHealthy'
  BY DEF ChainInv, HeldInv, BindingIsHealthy
<1>3. SyncInv'
  BY DEF SyncInv, IsNext, PolicyTypeOK
<1>4. PromiseInv'
  BY DEF PromiseInv, PolicyTypeOK, InFlight
<1> QED  BY <1>1, <1>2, <1>3, <1>4

LEMMA ControllerPolicy ==
    ASSUME NEW c \in Controllers
    PROVE  PolicyInv /\ (bindInventory(c) \/ clearRuntimeCache(c)) => PolicyInv'
<1> SUFFICES ASSUME PolicyInv, bindInventory(c) \/ clearRuntimeCache(c) PROVE PolicyInv'  OBVIOUS
<1> USE DEF PolicyInv, Maybe, sync
<1>1. CASE bindInventory(c)
  <2>1. PolicyTypeOK'
    BY <1>1 DEF bindInventory, PolicyTypeOK
  <2>2. ChainInv' /\ HeldInv' /\ SyncInv' /\ PromiseInv'
    BY <1>1 DEF bindInventory, ChainInv, HeldInv, SyncInv, PromiseInv, IsNext
  <2>3. BindingIsHealthy'
    BY <1>1 DEF bindInventory, BindingIsHealthy, PolicyTypeOK
  <2> QED  BY <2>1, <2>2, <2>3
<1>2. CASE clearRuntimeCache(c)
  <2>1. epoch[c] + 1 \in 0..MaxClears /\ epoch[c] + 1 # 0 /\ epoch \in [Controllers -> 0..MaxClears]
    BY <1>2, PolicyAssumption DEF clearRuntimeCache, PolicyTypeOK
  <2>2. PolicyTypeOK'
    BY <1>2, <2>1 DEF clearRuntimeCache, PolicyTypeOK
  <2>3. ChainInv' /\ SyncInv'
    BY <1>2 DEF clearRuntimeCache, ChainInv, SyncInv, IsNext
  <2>4. HeldInv' /\ BindingIsHealthy'
    BY <1>2 DEF clearRuntimeCache, HeldInv, BindingIsHealthy, PolicyTypeOK
  <2>5. PromiseInv'
    BY <1>2, <2>1 DEF clearRuntimeCache, PromiseInv, PolicyTypeOK
  <2> QED  BY <2>2, <2>3, <2>4, <2>5
<1> QED  BY <1>1, <1>2

-----------------------------------------------------------------------------
LEMMA StepPolicy == PolicyInv /\ [Next]_vars => PolicyInv'
<1> SUFFICES ASSUME PolicyInv, [Next]_vars PROVE PolicyInv'  OBVIOUS
<1>1. CASE UNCHANGED vars
  BY <1>1 DEF vars, PolicyInv, PolicyTypeOK, ChainInv, SyncInv, HeldInv, BindingIsHealthy,
              PromiseInv, IsNext, Maybe
<1> QED
  BY <1>1, BeginPolicy, LoadPolicy, ReadPolicy, SetPolicy, AcceptPolicy, FinallyPolicy,
     ControllerPolicy DEF Next

\* The invariant holds of every reachable state.
THEOREM PolicyInvariant == Spec => []PolicyInv
  BY InitPolicy, StepPolicy, PTL DEF Spec

\* Type correctness of the controllers, and no policy after a failed sync.
THEOREM PolicyTypeCorrect == Spec => []PolicyTypeOK
<1>1. PolicyInv => PolicyTypeOK
  BY DEF PolicyInv
<1> QED  BY PolicyInvariant, <1>1, PTL

\* Controllers never disagree about the policy of a sequence.
THEOREM PolicyIsAgreedByAll == Spec => []PolicyIsAgreed
<1>1. PolicyInv => PolicyIsAgreed
  BY DEF PolicyInv, PolicyIsAgreed, ChainInv, HeldInv
<1> QED  BY PolicyInvariant, <1>1, PTL

\* A ready binding is one of the present, healthy policy.
THEOREM PolicyBindingIsHealthy == Spec => []BindingIsHealthy
<1>1. PolicyInv => BindingIsHealthy
  BY DEF PolicyInv
<1> QED  BY PolicyInvariant, <1>1, PTL

\* One sync of a controller at a time, until its cache is cleared.
THEOREM PolicySyncsOnce == Spec => []OneSyncAtATime
<1>1. PolicyInv => OneSyncAtATime
  BY DEF PolicyInv, PromiseInv, OneSyncAtATime
<1> QED  BY PolicyInvariant, <1>1, PTL

\* The checkpoint goes from bundle to successor, whoever sets it.
THEOREM PolicyIsAChain == Spec => CheckpointIsAChain
<1>1. PolicyInv /\ [Next]_vars =>
         (checkpoint' # checkpoint => checkpoint' # None /\ IsNext(checkpoint, checkpoint'))
  <2> SUFFICES ASSUME PolicyInv, [Next]_vars, checkpoint' # checkpoint
               PROVE  checkpoint' # None /\ IsNext(checkpoint, checkpoint')
    OBVIOUS
  <2>1. PICK s \in Syncs : CompareAndSet(s)
    BY DEF Next, Begin, Load, Read, Accept, Fail, Finally, bindInventory, clearRuntimeCache, vars
  <2>2. checkpoint = previous[s] /\ checkpoint' = bundle[s] /\ pc[s] = "storing"
    BY <2>1 DEF CompareAndSet, Unmoved
  <2> QED  BY <2>2, PolicyAssumption DEF PolicyInv, SyncInv
<1>2. PolicyInv /\ [Next]_vars =>
         [checkpoint' # checkpoint => checkpoint' # None /\ IsNext(checkpoint, checkpoint')]_vars
  BY <1>1
<1> QED  BY PolicyInvariant, <1>2, PTL DEF CheckpointIsAChain, Spec

\* No policy comes back after clearRuntimeCache but by a sync that began later.
THEOREM PolicyClearedStaysCleared == Spec => ClearedStaysCleared
<1> DEFINE A == \A c \in Controllers : currentBundle'[c] \notin {currentBundle[c], None} =>
                  \E s \in Syncs : at[s] = c /\ pc[s] \in InFlight /\ pc'[s] = "ended" /\ begun[s] = epoch[c]
<1>1. PolicyInv /\ [Next]_vars => A
  <2> SUFFICES ASSUME PolicyInv, [Next]_vars, NEW c \in Controllers,
                      currentBundle'[c] \notin {currentBundle[c], None}
               PROVE  \E s \in Syncs : at[s] = c /\ pc[s] \in InFlight /\ pc'[s] = "ended"
                                       /\ begun[s] = epoch[c]
    OBVIOUS
  <2>0. currentBundle \in [Controllers -> Maybe(Bundles)] /\ pc \in [Syncs -> Labels]
    BY DEF PolicyInv, PolicyTypeOK
  <2>1. PICK s \in Syncs : Read(s) \/ Accept(s) \/ Fail(s)
    BY <2>0 DEF Next, Begin, Load, CompareAndSet, Finally, bindInventory, clearRuntimeCache, vars,
                controller
  <2>2. PICK b : Leaves(s, b)
    BY <2>1 DEF Read, Accept, Fail
  <2>3. pc[s] \in InFlight
    BY <2>1 DEF Read, Accept, Fail, InFlight
  <2>4. ~Superseded(s) /\ currentBundle' = [currentBundle EXCEPT ![at[s]] = b]
        /\ pc' = [pc EXCEPT ![s] = "ended"]
    BY <2>2 DEF Leaves, Ends, Held
  <2> QED  BY <2>0, <2>3, <2>4 DEF Superseded
<1>2. PolicyInv /\ [Next]_vars => [A]_vars
  BY <1>1
<1> QED  BY PolicyInvariant, <1>2, PTL DEF ClearedStaysCleared, Spec

-----------------------------------------------------------------------------
(* What the controllers promise together (AgreedPolicy).                   *)

\* A sync that ends gets a bundle that was agreed on, or none, or leaves everything.
LEMMA LeavesAgrees ==
    ASSUME PolicyInv, NEW s \in Syncs, NEW b \in Maybe(accepted), Leaves(s, b),
           UNCHANGED <<checkpoint, accepted>>
    PROVE  Agreement!AbstractNext \/ UNCHANGED <<checkpoint, accepted, currentBundle, latestBinding>>
<1>1. at[s] \in Controllers
  BY DEF PolicyInv, PolicyTypeOK
<1>2. CASE Superseded(s)
  BY <1>2 DEF Leaves
<1>3. CASE ~Superseded(s)
  BY <1>1, <1>3 DEF Leaves, Held, Unbound, Maybe, Agreement!AbstractNext, Agreement!Get
<1> QED  BY <1>2, <1>3

\* A bundle is agreed on when the checkpoint takes it, whoever hears of it.
LEMMA SetAgrees ==
    ASSUME PolicyInv, NEW s \in Syncs, CompareAndSet(s)
    PROVE  Agreement!AbstractNext \/ UNCHANGED <<checkpoint, accepted, currentBundle, latestBinding>>
<1>1. CASE UNCHANGED <<checkpoint, accepted>>
  BY <1>1 DEF CompareAndSet, controller
<1>2. CASE ~UNCHANGED <<checkpoint, accepted>>
  <2>1. /\ checkpoint = previous[s] /\ checkpoint' = bundle[s]
        /\ accepted' = accepted \cup {bundle[s]} /\ UNCHANGED <<currentBundle, latestBinding>>
    BY <1>2 DEF CompareAndSet, Unmoved, controller
  <2>2. bundle[s] \in Bundles /\ IsNext(checkpoint, bundle[s]) /\ checkpoint \in Maybe(Bundles)
    BY <1>2, <2>1 DEF CompareAndSet, PolicyInv, SyncInv, PolicyTypeOK
  <2>3. <<checkpoint, bundle[s]>> \in {pair \in Maybe(Bundles) \X Bundles : IsNext(pair[1], pair[2])}
    BY <2>2
  <2> QED  BY <2>1, <2>2, <2>3 DEF Agreement!AbstractNext, Agreement!Agree
<1> QED  BY <1>1, <1>2

\* Every sync of every controller, with its awaits, lost answers and lost races, looks as
\* if bundles were agreed on one by one and each controller took one of them.
THEOREM PolicyKeepsAgreement == Spec => KeepsAgreement
<1>1. Init => Agreement!AbstractInit
  BY DEF Init, Agreement!AbstractInit
<1>2. PolicyInv /\ [Next]_vars
        => [Agreement!AbstractNext]_<<checkpoint, accepted, currentBundle, latestBinding>>
  <2> SUFFICES ASSUME PolicyInv, [Next]_vars
               PROVE  \/ Agreement!AbstractNext
                      \/ UNCHANGED <<checkpoint, accepted, currentBundle, latestBinding>>
    OBVIOUS
  <2>1. ASSUME NEW s \in Syncs, Begin(s) \/ Load(s) \/ Finally(s)
        PROVE  UNCHANGED <<checkpoint, accepted, currentBundle, latestBinding>>
    BY <2>1 DEF Begin, Load, Finally, controller
  <2>2. ASSUME NEW s \in Syncs, Read(s) \/ Accept(s) \/ Fail(s)
        PROVE  \/ Agreement!AbstractNext
               \/ UNCHANGED <<checkpoint, accepted, currentBundle, latestBinding>>
    <3>1. UNCHANGED <<checkpoint, accepted>>
      BY <2>2 DEF Read, Accept, Fail
    <3>2. CASE Read(s)
      <4>1. PICK b \in Bundles :
              \/ UNCHANGED <<currentBundle, latestBinding>>
              \/ Leaves(s, IF IsRepeat(previous[s], b) THEN b ELSE None)
        BY <3>2 DEF Read
      <4>2. (IF IsRepeat(previous[s], b) THEN b ELSE None) \in Maybe(accepted)
        BY DEF IsRepeat, PolicyInv, PolicyTypeOK, Maybe
      <4> QED  BY <3>1, <4>1, <4>2, LeavesAgrees
    <3>3. CASE Accept(s)
      <4>1. bundle[s] \in Maybe(accepted)
        BY <3>3 DEF Accept, PolicyInv, SyncInv, Maybe
      <4> QED  BY <3>1, <3>3, <4>1, LeavesAgrees DEF Accept
    <3>4. CASE Fail(s)
      BY <3>1, <3>4, LeavesAgrees DEF Fail, Maybe
    <3> QED  BY <2>2, <3>2, <3>3, <3>4
  <2>3. ASSUME NEW c \in Controllers, bindInventory(c) PROVE Agreement!AbstractNext
    BY <2>3 DEF bindInventory, Agreement!AbstractNext, Agreement!Bind
  <2>4. ASSUME NEW c \in Controllers, clearRuntimeCache(c) PROVE Agreement!AbstractNext
    BY <2>4 DEF clearRuntimeCache, Agreement!AbstractNext, Agreement!Get
  <2> QED
    BY <2>1, <2>2, <2>3, <2>4, SetAgrees DEF Next, vars
<1> QED
  BY <1>1, <1>2, PolicyInvariant, PTL
  DEF Spec, KeepsAgreement, Agreement!AbstractSpec, Agreement!abstractVars
===============================================================================

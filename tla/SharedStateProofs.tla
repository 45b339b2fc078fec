-------------------------- MODULE SharedStateProofs --------------------------
(***************************************************************************)
(* Proofs about what concurrent calls share: the lock file of a state file *)
(* (StoreLock), for any number of callers, attempts and crashes; the trust *)
(* ledger and its queue (TrustMiddleware), for any number of calls and any *)
(* bound of the log; and the inventory of tools (ConnectorInventory), for  *)
(* any number of tools, refreshes and gateway_stops.                       *)
(***************************************************************************)
EXTENDS StoreLock, TrustMiddleware, ConnectorInventory, FiniteSetTheorems, SequenceTheorems,
        WellFoundedInduction, TLAPS

-----------------------------------------------------------------------------
(* StoreLock.                                                              *)

\* Until somebody is robbed, a caller inside has its own lock file in place.
InsideHoldsLock == ~robbed => \A p \in Callers : Inside(p) => lock = p

LockInv == LockTypeOK /\ InsideHoldsLock /\ UpdatesAreKept

LEMMA InitLock == Init => LockInv
<1>1. 0 \in 0..StaleAge /\ 0 \in 0..(Retries - 1) /\ 0 \in 0..MaxCrashes
  BY LockAssumption
<1>2. Init => LockTypeOK
  BY <1>1 DEF Init, LockTypeOK, Labels
<1> QED  BY <1>2 DEF Init, LockInv, InsideHoldsLock, UpdatesAreKept, Inside

LEMMA LockTypeStep == LockTypeOK /\ [Next]_vars => LockTypeOK'
<1> SUFFICES ASSUME LockTypeOK, [Next]_vars PROVE LockTypeOK'  OBVIOUS
<1> USE LockAssumption DEF LockTypeOK, Labels, Goto, NextAttempt,
          AttemptsLeft, Unlink
<1>1. CASE UNCHANGED vars
  BY <1>1 DEF vars
<1>2. CASE Tick
  BY <1>2 DEF Tick
<1>3. ASSUME NEW p \in Callers, Step(p) \/ Crash(p) PROVE LockTypeOK'
  <2>1. CASE Enter(p)      BY <2>1 DEF Enter
  <2>2. CASE Open(p)       BY <2>2 DEF Open
  <2>3. CASE Look(p)       BY <2>3 DEF Look
  <2>4. CASE RemoveStale(p)     BY <2>4 DEF RemoveStale
  <2>5. CASE Stamp(p)      BY <2>5 DEF Stamp
  <2>6. CASE Load(p)       BY <2>6 DEF Load
  <2>7. CASE Save(p)       BY <2>7 DEF Save
  <2>8. CASE Leave(p)      BY <2>8 DEF Leave
  <2>9. CASE Release(p)    BY <2>9 DEF Release
  <2>10. CASE Crash(p)     BY <2>10 DEF Crash
  <2> QED  BY <1>3, <2>1, <2>2, <2>3, <2>4, <2>5, <2>6, <2>7, <2>8, <2>9, <2>10 DEF Step
<1> QED  BY <1>1, <1>2, <1>3 DEF Next

LEMMA LockStep == LockInv /\ [Next]_vars => LockInv'
<1> SUFFICES ASSUME LockInv, [Next]_vars PROVE LockInv'  OBVIOUS
<1>1. LockTypeOK'
  BY LockTypeStep DEF LockInv
<1>2. ASSUME NEW p \in Callers, Step(p) \/ Crash(p)
      PROVE  InsideHoldsLock' /\ UpdatesAreKept'
  <2> USE <1>2, <1>1, LockAssumption DEF LockInv, LockTypeOK, InsideHoldsLock, UpdatesAreKept, Inside,
          Labels, Goto, NextAttempt,
          AttemptsLeft, Unlink
  <2>1. CASE Enter(p)      BY <2>1 DEF Enter
  <2>2. CASE Open(p)       BY <2>2 DEF Open, Creatable
  <2>3. CASE Look(p)       BY <2>3 DEF Look
  <2>4. CASE RemoveStale(p)     BY <2>4 DEF RemoveStale
  <2>5. CASE Stamp(p)      BY <2>5 DEF Stamp
  <2>6. CASE Load(p)       BY <2>6 DEF Load
  <2>7. CASE Save(p)       BY <2>7 DEF Save
  <2>8. CASE Leave(p)      BY <2>8 DEF Leave
  <2>9. CASE Release(p)    BY <2>9 DEF Release
  <2>10. CASE Crash(p)     BY <2>10 DEF Crash
  <2> QED  BY <1>2, <2>1, <2>2, <2>3, <2>4, <2>5, <2>6, <2>7, <2>8, <2>9, <2>10 DEF Step
<1>3. CASE UNCHANGED vars \/ Tick
  BY <1>1, <1>3 DEF vars, Tick, LockInv, InsideHoldsLock, UpdatesAreKept, Inside
<1> QED  BY <1>1, <1>2, <1>3 DEF Next, LockInv

\* LockInv holds in every reachable state.
THEOREM LockInvariant == Spec => []LockInv
  BY InitLock, LockStep, PTL DEF Spec

\* Type correctness of the lock protocol.
THEOREM LockTypeCorrect == Spec => []LockTypeOK
  BY LockInvariant, PTL DEF LockInv

\* withLock excludes, through any crashes, until it takes the lock file of a
\* caller that is still inside.
THEOREM LockExcludesUntilRobbed == Spec => []ExclusionUntilRobbed
<1>1. LockInv => ExclusionUntilRobbed
  BY DEF LockInv, InsideHoldsLock, ExclusionUntilRobbed, LockProtects
<1> QED  BY <1>1, LockInvariant, PTL

\* Until then no saved change of the state file is lost.
THEOREM LockKeepsUpdates == Spec => []UpdatesAreKept
  BY LockInvariant, PTL DEF LockInv

\* withFileLock, which never removes a stale lock, always excludes.
THEOREM LockWithoutStealingExcludes ==
    ASSUME ~StealsStale PROVE Spec => []LockProtects
<1> DEFINE NoThief == ~robbed /\ \A p \in Callers : pc[p] \notin {"look", "remove"}
<1>1. Init => NoThief
  BY DEF Init
<1>2. LockInv /\ NoThief /\ [Next]_vars => NoThief'
  <2> SUFFICES ASSUME LockInv, NoThief, [Next]_vars PROVE NoThief'  OBVIOUS
  <2> USE DEF LockInv, LockTypeOK, Goto, NextAttempt, AttemptsLeft, Unlink
  <2>1. CASE UNCHANGED vars \/ Tick
    BY <2>1 DEF vars, Tick
  <2>2. ASSUME NEW p \in Callers, Step(p) \/ Crash(p) PROVE NoThief'
    <3>1. CASE Enter(p)      BY <3>1 DEF Enter
    <3>2. CASE Open(p)       BY <3>2 DEF Open
    <3>3. CASE Look(p)       BY <3>3 DEF Look
    <3>4. CASE RemoveStale(p)     BY <3>4 DEF RemoveStale
    <3>5. CASE Stamp(p)      BY <3>5 DEF Stamp
    <3>6. CASE Load(p)       BY <3>6 DEF Load
    <3>7. CASE Save(p)       BY <3>7 DEF Save
    <3>8. CASE Leave(p)      BY <3>8 DEF Leave
    <3>9. CASE Release(p)    BY <3>9 DEF Release, InsideHoldsLock, Inside
    <3>10. CASE Crash(p)     BY <3>10 DEF Crash
    <3> QED  BY <2>2, <3>1, <3>2, <3>3, <3>4, <3>5, <3>6, <3>7, <3>8, <3>9, <3>10 DEF Step
  <2> QED  BY <2>1, <2>2 DEF Next
<1>3. LockInv /\ NoThief => LockProtects
  BY DEF LockInv, InsideHoldsLock, LockProtects
<1> QED  BY <1>1, <1>2, <1>3, LockInvariant, PTL DEF Spec

-----------------------------------------------------------------------------
(* ConnectorInventory.                                                      *)

\* What an answer can be, and the refreshes of this epoch.
AnswersInv ==
    /\ \A r \in Refreshes : refreshed[r] # "idle" => begun[r] <= epoch
    /\ \A r \in Refreshes : answer[r] <= Len(catalogs)

\* While refreshes do not overlap there is one at most, and its answer is not older
\* than the snapshot.
OneRefreshInv ==
    ~overlapped => /\ \A r, s \in UnderWay : r = s
                   /\ \A r \in UnderWay : refreshed[r] = "answered" => snapshot <= answer[r]

ObservedInv == crowded \/ observedUnlisted = unlisted

InventoryInv == InventoryTypeOK /\ AnswersInv /\ OneRefreshInv /\ ObservedInv

LEMMA CatalogAdded ==
    ASSUME NEW S, NEW s \in Seq(S), NEW e \in S
    PROVE  /\ Append(s, e) \in Seq(S)
           /\ Len(Append(s, e)) = Len(s) + 1
  OBVIOUS

LEMMA InventoryInitially == InventoryInit => InventoryInv
<1> SUFFICES ASSUME InventoryInit PROVE InventoryInv
  OBVIOUS
<1>1. /\ catalogs \in Seq(SUBSET Tools) /\ Len(catalogs) = 1
      /\ snapshot = 0 /\ epoch = 0 /\ answer = [r \in Refreshes |-> 0]
  BY DEF InventoryInit
<1>2. 1 \in 1..MaxCatalogs /\ 0 \in 0..1 /\ 0 \in 0..MaxClears /\ 0 \in 0..MaxCatalogs
  BY InventoryAssumption
<1>3. Cardinality({}) <= MaxObserved
  BY FS_EmptySet, InventoryAssumption
<1>4. InventoryTypeOK
  BY <1>1, <1>2, <1>3 DEF InventoryInit, InventoryTypeOK
<1> QED
  BY <1>1, <1>4 DEF InventoryInit, InventoryInv, AnswersInv, OneRefreshInv, ObservedInv, UnderWay

\* Refresh, asked for by GatewayStart or InspectCoverage.
LEMMA RefreshStep ==
    ASSUME InventoryInv, NEW r \in Refreshes, Refresh(r), started' \in BOOLEAN
    PROVE  InventoryInv'
<1>1. InventoryTypeOK'
  BY DEF Refresh, InventoryInv, InventoryTypeOK
<1>2. AnswersInv' /\ ObservedInv'
  BY DEF Refresh, InventoryInv, InventoryTypeOK, AnswersInv, ObservedInv
<1>3. OneRefreshInv'
  <2> SUFFICES ASSUME ~overlapped', NEW s \in Refreshes, s \in UnderWay' 
               PROVE  s = r /\ refreshed'[s] = "asked"
    BY DEF OneRefreshInv, UnderWay
  <2>1. UnderWay = {}
    BY DEF Refresh, MayRefresh
  <2> QED
    BY <2>1 DEF Refresh, UnderWay, InventoryInv, InventoryTypeOK
<1> QED
  BY <1>1, <1>2, <1>3 DEF InventoryInv

LEMMA ObserveStep ==
    ASSUME InventoryInv, NEW t \in Tools, observeBeforeToolCall(t)
    PROVE  InventoryInv'
<1>1. UNCHANGED <<catalogs, snapshot, lastError, refreshPromise, epoch, refreshed, begun,
                  answer, started, overlapped>>
  BY DEF observeBeforeToolCall, refreshes
<1>2. AnswersInv' /\ OneRefreshInv'
  BY <1>1 DEF InventoryInv, AnswersInv, OneRefreshInv, UnderWay
<1>3. /\ IsFiniteSet(observedUnlisted) /\ IsFiniteSet(unlisted)
      /\ Cardinality(observedUnlisted) \in Nat
  BY FS_Subset, FS_CardinalityType, InventoryAssumption DEF InventoryInv, InventoryTypeOK
<1>4. Cardinality(observedUnlisted \cup {t}) =
          IF t \in observedUnlisted THEN Cardinality(observedUnlisted)
          ELSE Cardinality(observedUnlisted) + 1
  BY <1>3, FS_AddElement
<1>5. CASE t \in Listed
  <2>1. UNCHANGED <<observedUnlisted, unlisted, crowded>>
    BY <1>5 DEF observeBeforeToolCall
  <2> QED
    BY <1>1, <1>2, <2>1 DEF InventoryInv, InventoryTypeOK, ObservedInv
<1>6. CASE t \notin Listed /\ Cardinality(observedUnlisted) < MaxObserved
  <2>1. observedUnlisted' = observedUnlisted \cup {t} /\ unlisted' = unlisted \cup {t}
        /\ crowded' = (crowded \/ Cardinality(unlisted') > MaxObserved)
    BY <1>6 DEF observeBeforeToolCall
  <2>2. Cardinality(observedUnlisted') <= MaxObserved
    BY <1>3, <1>4, <1>6, <2>1, InventoryAssumption
  <2>3. crowded' \in BOOLEAN
    BY <2>1 DEF InventoryInv, InventoryTypeOK
  <2> QED
    BY <1>1, <1>2, <2>1, <2>2, <2>3 DEF InventoryInv, InventoryTypeOK, ObservedInv
<1>7. CASE t \notin Listed /\ ~(Cardinality(observedUnlisted) < MaxObserved)
  <2>1. observedUnlisted' = observedUnlisted /\ unlisted' = unlisted \cup {t}
        /\ crowded' = (crowded \/ Cardinality(unlisted') > MaxObserved)
    BY <1>7 DEF observeBeforeToolCall
  <2>2. crowded' \in BOOLEAN
    BY <2>1 DEF InventoryInv, InventoryTypeOK
  <2>3. ObservedInv'
    <3>1. CASE crowded
      BY <2>1, <3>1 DEF ObservedInv
    <3>2. CASE ~crowded /\ t \in observedUnlisted
      BY <2>1, <3>2 DEF InventoryInv, ObservedInv
    <3>3. CASE ~crowded /\ t \notin observedUnlisted
      <4>1. unlisted = observedUnlisted
        BY <3>3 DEF InventoryInv, ObservedInv
      <4>2. Cardinality(unlisted') = Cardinality(observedUnlisted) + 1
        BY <1>4, <2>1, <3>3, <4>1
      <4>3. Cardinality(unlisted') > MaxObserved
        BY <1>3, <1>7, <4>2, InventoryAssumption
      <4> QED
        BY <2>1, <4>3 DEF ObservedInv
    <3> QED
      BY <3>1, <3>2, <3>3
  <2> QED
    BY <1>1, <1>2, <2>1, <2>2, <2>3 DEF InventoryInv, InventoryTypeOK
<1> QED
  BY <1>5, <1>6, <1>7

LEMMA TakeSnapshotStep ==
    ASSUME InventoryInv, NEW r \in Refreshes, TakeSnapshot(r)
    PROVE  InventoryInv'
<1>1. /\ UNCHANGED <<catalogs, epoch, begun, answer, started, crowded, overlapped>>
      /\ refreshed' = [refreshed EXCEPT ![r] = "done"]
      /\ refreshPromise' = NoRefresh
      /\ refreshed[r] = "answered"
  BY DEF TakeSnapshot, Ends
<1>2. answer[r] \in 0..Len(catalogs)
  BY DEF InventoryInv, InventoryTypeOK, AnswersInv
<1>3. InventoryTypeOK'
  <2>1. CASE ~IsCurrent(r)
    BY <1>1, <2>1 DEF TakeSnapshot, InventoryInv, InventoryTypeOK
  <2>2. CASE IsCurrent(r)
    <3>1. snapshot' = answer[r] /\ lastError' = FALSE
      BY <2>2 DEF TakeSnapshot
    <3>2. observedUnlisted' \subseteq observedUnlisted /\ unlisted' \subseteq unlisted
      BY <2>2 DEF TakeSnapshot, StillUnlisted
    <3>3. /\ IsFiniteSet(observedUnlisted) /\ Cardinality(observedUnlisted) \in Nat
          /\ IsFiniteSet(observedUnlisted') /\ Cardinality(observedUnlisted') \in Nat
          /\ Cardinality(observedUnlisted') <= Cardinality(observedUnlisted)
      BY <3>2, FS_Subset, FS_CardinalityType, InventoryAssumption
         DEF InventoryInv, InventoryTypeOK
    <3>4. Cardinality(observedUnlisted') <= MaxObserved
      BY <3>3, InventoryAssumption DEF InventoryInv, InventoryTypeOK
    <3> QED
      BY <1>1, <1>2, <3>1, <3>2, <3>4 DEF InventoryInv, InventoryTypeOK
  <2> QED
    BY <2>1, <2>2
<1>4. AnswersInv'
  BY <1>1 DEF InventoryInv, InventoryTypeOK, AnswersInv
<1>5. ObservedInv'
  BY <1>1 DEF TakeSnapshot, StillUnlisted, InventoryInv, ObservedInv
<1>6. OneRefreshInv'
  <2>1. \A s \in UnderWay' : s \in UnderWay /\ s # r /\ refreshed'[s] = refreshed[s]
    BY <1>1 DEF UnderWay, InventoryInv, InventoryTypeOK
  <2>2. CASE ~IsCurrent(r)
    BY <1>1, <2>1, <2>2 DEF TakeSnapshot, InventoryInv, OneRefreshInv
  <2>3. CASE IsCurrent(r)
    <3>1. r \in UnderWay
      BY <1>1, <2>3 DEF UnderWay, IsCurrent
    <3> QED
      BY <1>1, <2>1, <3>1 DEF InventoryInv, OneRefreshInv
  <2> QED
    BY <2>2, <2>3
<1> QED
  BY <1>3, <1>4, <1>5, <1>6 DEF InventoryInv

LEMMA InventoryStep ==
    ASSUME InventoryInv, [InventoryNext]_inventoryVars
    PROVE  InventoryInv'
<1> USE DEF refreshes, history
<1>1. CASE GatewayStart
  <2>1. ASSUME NEW r \in Refreshes, Refresh(r) PROVE InventoryInv'
    BY <1>1, <2>1, RefreshStep DEF GatewayStart
  <2>2. CASE ~\E r \in Refreshes : Refresh(r)
    BY <1>1, <2>2 DEF GatewayStart, InventoryInv, InventoryTypeOK, AnswersInv, OneRefreshInv,
                      ObservedInv, UnderWay
  <2> QED
    BY <2>1, <2>2
<1>2. CASE GatewayStop
  <2>1. Cardinality({}) <= MaxObserved
    BY FS_EmptySet, InventoryAssumption
  <2>2. InventoryTypeOK'
    <3>1. epoch + 1 \in 0..MaxClears /\ 0 \in 0..Len(catalogs)
      BY <1>2, InventoryAssumption DEF GatewayStop, InventoryInv, InventoryTypeOK
    <3> QED
      BY <1>2, <2>1, <3>1 DEF GatewayStop, InventoryInv, InventoryTypeOK
  <2>3. AnswersInv' /\ ObservedInv'
    BY <1>2 DEF GatewayStop, InventoryInv, InventoryTypeOK, AnswersInv, ObservedInv
  <2>4. UnderWay' = {}
    <3>1. epoch' = epoch + 1 /\ begun' = begun /\ refreshed' = refreshed
      BY <1>2 DEF GatewayStop
    <3>2. ASSUME NEW r \in Refreshes, r \in UnderWay' PROVE FALSE
      <4>1. refreshed[r] # "idle" /\ begun[r] = epoch + 1
        BY <3>1, <3>2 DEF UnderWay
      <4>2. begun[r] <= epoch /\ begun[r] \in Int /\ epoch \in Int
        BY <4>1, InventoryAssumption DEF InventoryInv, InventoryTypeOK, AnswersInv
      <4> QED
        BY <4>1, <4>2
    <3> QED
      BY <3>2 DEF UnderWay
  <2> QED
    BY <2>2, <2>3, <2>4 DEF InventoryInv, OneRefreshInv
<1>3. CASE HostChanges
  <2>1. PICK tools \in SUBSET Tools : catalogs' = Append(catalogs, tools)
    BY <1>3 DEF HostChanges
  <2>2. catalogs' \in Seq(SUBSET Tools) /\ Len(catalogs') = Len(catalogs) + 1
    BY <2>1, CatalogAdded DEF InventoryInv, InventoryTypeOK
  <2>3. InventoryTypeOK'
    BY <1>3, <2>2, InventoryAssumption DEF HostChanges, InventoryInv, InventoryTypeOK
  <2>4. AnswersInv' /\ ObservedInv' /\ OneRefreshInv'
    BY <1>3, <2>2, InventoryAssumption
       DEF HostChanges, InventoryInv, InventoryTypeOK, AnswersInv, ObservedInv, OneRefreshInv,
           UnderWay
  <2> QED
    BY <2>3, <2>4 DEF InventoryInv
<1>4. ASSUME NEW r \in Refreshes, InspectCoverage(r) PROVE InventoryInv'
  BY <1>4, RefreshStep DEF InspectCoverage, InventoryInv, InventoryTypeOK
<1>5. ASSUME NEW r \in Refreshes, HostAnswers(r) PROVE InventoryInv'
  <2>1. InventoryTypeOK'
    BY <1>5, InventoryAssumption DEF HostAnswers, InventoryInv, InventoryTypeOK
  <2>2. AnswersInv' /\ ObservedInv'
    BY <1>5, InventoryAssumption
       DEF HostAnswers, InventoryInv, InventoryTypeOK, AnswersInv, ObservedInv
  <2>3. OneRefreshInv'
    BY <1>5, InventoryAssumption
       DEF HostAnswers, InventoryInv, InventoryTypeOK, OneRefreshInv, UnderWay
  <2> QED
    BY <2>1, <2>2, <2>3 DEF InventoryInv
<1>6. ASSUME NEW r \in Refreshes, TakeSnapshot(r) PROVE InventoryInv'
  BY <1>6, TakeSnapshotStep
<1>7. ASSUME NEW r \in Refreshes, RefreshFails(r) PROVE InventoryInv'
  <2>1. InventoryTypeOK'
    BY <1>7 DEF RefreshFails, Ends, IsCurrent, InventoryInv, InventoryTypeOK
  <2>2. AnswersInv' /\ ObservedInv'
    BY <1>7 DEF RefreshFails, Ends, InventoryInv, InventoryTypeOK, AnswersInv, ObservedInv
  <2>3. OneRefreshInv'
    BY <1>7 DEF RefreshFails, Ends, InventoryInv, InventoryTypeOK, OneRefreshInv, UnderWay
  <2> QED
    BY <2>1, <2>2, <2>3 DEF InventoryInv
<1>8. ASSUME NEW t \in Tools, observeBeforeToolCall(t) PROVE InventoryInv'
  BY <1>8, ObserveStep
<1>9. CASE UNCHANGED inventoryVars
  BY <1>9 DEF inventoryVars, InventoryInv, InventoryTypeOK, AnswersInv, ObservedInv,
              OneRefreshInv, UnderWay
<1> QED
  BY <1>1, <1>2, <1>3, <1>4, <1>5, <1>6, <1>7, <1>8, <1>9 DEF InventoryNext

\* InventoryInv holds in every reachable state.
THEOREM InventoryInvariant == InventorySpec => []InventoryInv
  BY InventoryInitially, InventoryStep, PTL DEF InventorySpec

\* The type invariant of ConnectorInventory.
THEOREM InventoryTypeCorrect == InventorySpec => []InventoryTypeOK
<1>1. InventoryInv => InventoryTypeOK
  BY DEF InventoryInv
<1> QED
  BY <1>1, InventoryInvariant, PTL

\* A call of a tool that the inventory does not list is not forgotten by any
\* refresh that ends later, unless too many such tools were called.
THEOREM UnlistedAreFlagged == InventorySpec => []UnlistedIsFlagged
<1>1. InventoryInv => UnlistedIsFlagged
  BY DEF InventoryInv, ObservedInv, UnlistedIsFlagged, RefreshRequired
<1> QED
  BY <1>1, InventoryInvariant, PTL

\* Between two gateway_stops the snapshot follows the host's catalogs, until two
\* refreshes are under way at once.
THEOREM InventoryFollowsHost == InventorySpec => InventoryMovesForward
<1>1. InventoryInv /\ [InventoryNext]_inventoryVars =>
          (snapshot' >= snapshot \/ epoch' # epoch \/ overlapped)
  <2> SUFFICES ASSUME InventoryInv, [InventoryNext]_inventoryVars, snapshot' # snapshot,
                      epoch' = epoch, ~overlapped
               PROVE  snapshot' >= snapshot
    BY DEF InventoryInv, InventoryTypeOK
  <2>1. PICK r \in Refreshes : TakeSnapshot(r) /\ IsCurrent(r)
    BY InventoryAssumption
       DEF InventoryNext, inventoryVars, GatewayStart, GatewayStop, HostChanges, InspectCoverage,
           Refresh, HostAnswers, TakeSnapshot, RefreshFails, observeBeforeToolCall,
           InventoryInv, InventoryTypeOK
  <2>2. r \in UnderWay /\ refreshed[r] = "answered" /\ snapshot' = answer[r]
    BY <2>1 DEF TakeSnapshot, IsCurrent, UnderWay
  <2> QED
    BY <2>2 DEF InventoryInv, InventoryTypeOK, OneRefreshInv
<1> QED
  BY <1>1, InventoryInvariant, PTL DEF InventorySpec, InventoryMovesForward

-----------------------------------------------------------------------------
(* TrustMiddleware: the bounded log.                                       *)

\* The newest MaxEntries events of a log.
LogEnd(log) ==
    LET kept == IF Len(log) < MaxEntries THEN Len(log) ELSE MaxEntries
    IN  SubSeq(log, Len(log) - kept + 1, Len(log))

LEMMA LastIsPart ==
    ASSUME NEW log \in Seq(Events)
    PROVE  /\ LogEnd(log) \in Seq(Events)
           /\ Len(LogEnd(log)) = IF Len(log) < MaxEntries THEN Len(log) ELSE MaxEntries
           /\ \A i \in 1..Len(LogEnd(log)) : LogEnd(log)[i] = log[Len(log) - Len(LogEnd(log)) + i]
<1> DEFINE kept == IF Len(log) < MaxEntries THEN Len(log) ELSE MaxEntries
           m == Len(log) - kept + 1
<1>1. Len(log) \in Nat /\ kept \in Nat /\ kept <= Len(log) /\ m \in Int /\ 1 <= m
      /\ Len(log) - m + 1 = kept
  BY LenProperties, TrustAssumption
<1>2. \A i \in m..Len(log) : log[i] \in Events
  BY <1>1, ElementOfSeq
<1> HIDE DEF m
<1>3. /\ SubSeq(log, m, Len(log)) \in Seq(Events)
      /\ Len(SubSeq(log, m, Len(log))) = IF m <= Len(log) THEN Len(log) - m + 1 ELSE 0
      /\ \A i \in 1..(Len(log) - m + 1) : SubSeq(log, m, Len(log))[i] = log[m + i - 1]
  BY <1>1, <1>2, SubSeqProperties
<1>4. LogEnd(log) = SubSeq(log, m, Len(log))
  BY DEF LogEnd, m
<1>5. Len(LogEnd(log)) = kept
  BY <1>1, <1>3, <1>4
<1>6. \A i \in 1..kept : m + i - 1 = Len(log) - kept + i
  BY <1>1 DEF m
<1> QED
  BY <1>1, <1>3, <1>4, <1>5, <1>6

LEMMA NewestIsLast ==
    ASSUME NEW s \in Seq(Events) PROVE Newest(s) = LogEnd(s)
<1>1. Len(s) \in Nat
  BY LenProperties
<1> DEFINE kept == IF Len(s) < MaxEntries THEN Len(s) ELSE MaxEntries
<1>2. MaxEntries \in Nat
  BY TrustAssumption
<1>3. CASE Len(s) > MaxEntries
  <2>1. kept = MaxEntries
    BY <1>1, <1>2, <1>3
  <2> QED
    BY <1>3, <2>1 DEF Newest, LogEnd
<1>4. CASE ~(Len(s) > MaxEntries)
  <2>1. kept = Len(s)
    BY <1>1, <1>2, <1>4
  <2>2. Len(s) - kept + 1 = 1
    BY <1>1, <2>1
  <2> HIDE DEF kept
  <2>3. Newest(s) = SubSeq(s, 1, Len(s))
    BY <1>4 DEF Newest
  <2>4. LogEnd(s) = SubSeq(s, Len(s) - kept + 1, Len(s))
    BY DEF LogEnd, kept
  <2> QED
    BY <2>2, <2>3, <2>4
<1> QED
  BY <1>3, <1>4

\* What slice(-maxEntries) drops may be dropped before or after the append.
LEMMA LastOfAppend ==
    ASSUME NEW log \in Seq(Events), NEW e \in Events
    PROVE  LogEnd(Append(LogEnd(log), e)) = LogEnd(Append(log, e))
<1> DEFINE s == Append(LogEnd(log), e)
           t == Append(log, e)
<1>1. /\ LogEnd(log) \in Seq(Events) /\ Len(log) \in Nat /\ Len(LogEnd(log)) \in Nat
      /\ Len(LogEnd(log)) = IF Len(log) < MaxEntries THEN Len(log) ELSE MaxEntries
      /\ \A i \in 1..Len(LogEnd(log)) : LogEnd(log)[i] = log[Len(log) - Len(LogEnd(log)) + i]
  BY LastIsPart, LenProperties
<1>2. /\ s \in Seq(Events) /\ Len(s) = Len(LogEnd(log)) + 1 /\ s[Len(LogEnd(log)) + 1] = e
      /\ \A i \in 1..Len(LogEnd(log)) : s[i] = LogEnd(log)[i]
  BY <1>1, AppendProperties
<1>3. /\ t \in Seq(Events) /\ Len(t) = Len(log) + 1 /\ t[Len(log) + 1] = e
      /\ \A i \in 1..Len(log) : t[i] = log[i]
  BY AppendProperties
<1>4. /\ LogEnd(s) \in Seq(Events)
      /\ Len(LogEnd(s)) = IF Len(s) < MaxEntries THEN Len(s) ELSE MaxEntries
      /\ \A i \in 1..Len(LogEnd(s)) : LogEnd(s)[i] = s[Len(s) - Len(LogEnd(s)) + i]
  BY <1>2, LastIsPart
<1>5. /\ LogEnd(t) \in Seq(Events)
      /\ Len(LogEnd(t)) = IF Len(t) < MaxEntries THEN Len(t) ELSE MaxEntries
      /\ \A i \in 1..Len(LogEnd(t)) : LogEnd(t)[i] = t[Len(t) - Len(LogEnd(t)) + i]
  BY <1>3, LastIsPart
<1> HIDE DEF s, t
<1>6. Len(LogEnd(s)) = Len(LogEnd(t)) /\ Len(LogEnd(s)) \in Nat
  BY <1>1, <1>2, <1>3, <1>4, <1>5, TrustAssumption
<1>7. ASSUME NEW i \in 1..Len(LogEnd(s)) PROVE LogEnd(s)[i] = LogEnd(t)[i]
  <2> DEFINE j == Len(s) - Len(LogEnd(s)) + i
             k == Len(t) - Len(LogEnd(t)) + i
  <2>1. LogEnd(s)[i] = s[j] /\ LogEnd(t)[i] = t[k]
    BY <1>4, <1>5, <1>6
  <2>2. /\ Len(s) \in Nat /\ Len(t) \in Nat /\ Len(LogEnd(s)) <= Len(s)
        /\ Len(t) - Len(s) = Len(log) - Len(LogEnd(log))
    BY <1>1, <1>2, <1>3, <1>4, <1>6, TrustAssumption
  <2>5. j \in 1..Len(s)
    BY <1>6, <2>2
  <2>6. k = j + (Len(log) - Len(LogEnd(log)))
    BY <1>1, <1>6, <2>2
  <2> HIDE DEF j, k
  <2>3. CASE j = Len(s)
    <3>1. k = Len(log) + 1 /\ j = Len(LogEnd(log)) + 1
      BY <1>1, <1>2, <2>3, <2>6
    <3> QED
      BY <1>2, <1>3, <2>1, <3>1
  <2>4. CASE j # Len(s)
    <3>1. j \in 1..Len(LogEnd(log)) /\ k \in 1..Len(log)
      BY <1>1, <1>2, <2>4, <2>5, <2>6, TrustAssumption
    <3>2. s[j] = LogEnd(log)[j] /\ t[k] = log[k]
      BY <1>2, <1>3, <3>1
    <3>3. LogEnd(log)[j] = log[Len(log) - Len(LogEnd(log)) + j]
      BY <1>1, <3>1
    <3>4. Len(log) - Len(LogEnd(log)) + j = k
      BY <1>1, <2>5, <2>6, <3>1
    <3> QED
      BY <2>1, <3>2, <3>3, <3>4
  <2> QED
    BY <2>3, <2>4
<1>8. LogEnd(s) = LogEnd(t)
  BY <1>4, <1>5, <1>6, <1>7, SeqEqual
<1> QED
  BY <1>8 DEF s, t

LEMMA ContainsAppended ==
    ASSUME NEW s \in Seq(Events), NEW e \in Events
    PROVE  /\ Contains(Append(s, e), e)
           /\ \A f : Contains(s, f) => Contains(Append(s, e), f)
<1>1. /\ Len(s) \in Nat /\ Len(Append(s, e)) = Len(s) + 1 /\ Append(s, e)[Len(s) + 1] = e
      /\ \A i \in 1..Len(s) : Append(s, e)[i] = s[i]
  BY AppendProperties, LenProperties
<1>2. Len(s) + 1 \in 1..Len(Append(s, e)) /\ 1..Len(s) \subseteq 1..Len(Append(s, e))
  BY <1>1
<1> QED
  BY <1>1, <1>2 DEF Contains

-----------------------------------------------------------------------------
(* TrustMiddleware: the queue of appends.                                  *)

Pending(e) == append[e] \in {"queued", "read"}
Waits(e) == waitsFor[e] # NoAppend /\ Pending(waitsFor[e])

\* What is chained to, and who has read, whatever gateway_stops came in between.
ChainInv ==
    /\ queue # NoAppend => append[queue] # "none"
    /\ \A e \in Events :
           /\ waitsFor[e] # NoAppend => append[waitsFor[e]] # "none"
           /\ append[e] = "read" => waitsFor[e] = NoAppend

\* The appends under way form one line, in the order of r: the first waits for none,
\* each waits for the one right before it, and queue is the last.
InLine(r) ==
    /\ \A e, f \in Events : Pending(e) /\ Pending(f) /\ r[e] = r[f] => e = f
    /\ \A e \in Events : Pending(e) => /\ queue # NoAppend /\ Pending(queue)
                                       /\ r[e] <= r[queue]
    /\ \A e, f \in Events : Pending(e) /\ Pending(f) /\ ~Waits(e) => r[e] <= r[f]
    /\ \A e \in Events : Pending(e) /\ Waits(e) => r[waitsFor[e]] < r[e]
    /\ \A e, f \in Events : Pending(e) /\ Waits(e) /\ Pending(f) =>
           r[f] <= r[waitsFor[e]] \/ r[e] <= r[f]

OneLine == \E r \in [Events -> Int] : InLine(r)

\* Who has read holds what is in the file, which is the end of the log.
LogInv ==
    /\ ledger = LogEnd(appended)
    /\ \A e \in Events : append[e] = "read" => copy[e] = ledger


\* What the hook position of a call says of its appends.
HookInv ==
    \A c \in ToolCalls :
        /\ hook[c] = "idle" => append[<<c, "before">>] = "none"
        /\ hook[c] \in {"idle", "recording", "asked"} => append[<<c, "approval">>] = "none"
        /\ hook[c] # "done" /\ hook[c] # "finishing" => append[<<c, "after">>] = "none"

StoredInv == \A e \in Events : append[e] = "stored" => Contains(appended, e)

GovernInv ==
    mode = "enforce" =>
        \A c \in ToolCalls :
            /\ hook[c] # "idle" => decision[c] # "none"
            /\ hook[c] \in {"asked", "resolving", "running", "finishing", "done"} =>
                   append[<<c, "before">>] = "stored"
            /\ hook[c] \in {"running", "finishing", "done"} =>
                   /\ decision[c] = "allow"
                   /\ append[<<c, "approval">>] \in {"none", "stored"}

TrustInv ==
    /\ TrustTypeOK
    /\ ChainInv
    /\ ~lossy => OneLine /\ LogInv
    /\ HookInv
    /\ StoredInv
    /\ GovernInv

\* What a step of a hook does to the ledger: nothing, or one append more.
Asks(e) == append[e] = "none" /\ Enqueue(e)

LEMMA EventTypes ==
    \A c \in ToolCalls : <<c, "before">> \in Events /\ <<c, "approval">> \in Events
                         /\ <<c, "after">> \in Events
  BY DEF Events

LEMMA AsksStep ==
    ASSUME TrustInv, NEW e \in Events, Asks(e),
           UNCHANGED <<ledger, appended, lossy>>
    PROVE  /\ queue' \in Events \cup {NoAppend}
           /\ waitsFor' \in [Events -> Events \cup {NoAppend}]
           /\ append' \in [Events -> {"none", "queued", "read"} \cup Settled]
           /\ copy' \in [Events -> Seq(Events)]
           /\ ChainInv'
           /\ ~lossy' => OneLine' /\ LogInv'
           /\ StoredInv'
<1>1. /\ waitsFor' = [waitsFor EXCEPT ![e] = queue] /\ append' = [append EXCEPT ![e] = "queued"]
      /\ queue' = e /\ copy' = copy /\ append[e] = "none"
  BY DEF Asks, Enqueue
<1> USE DEF TrustInv, TrustTypeOK
<1>2. e # NoAppend /\ \A f \in Events : f # NoAppend
  BY TrustAssumption DEF Events
<1>3. /\ queue' \in Events \cup {NoAppend} /\ waitsFor' \in [Events -> Events \cup {NoAppend}]
      /\ append' \in [Events -> {"none", "queued", "read"} \cup Settled]
      /\ copy' \in [Events -> Seq(Events)]
  BY <1>1
<1>4. ChainInv' /\ StoredInv'
  BY <1>1, <1>2 DEF ChainInv, StoredInv
<1>5. ASSUME ~lossy PROVE LogInv'
  BY <1>1, <1>5 DEF LogInv
<1>6. ASSUME ~lossy PROVE OneLine'
  <2>1. PICK r \in [Events -> Int] : InLine(r)
    BY <1>6 DEF OneLine
  <2>2. PICK last \in Int : last = IF queue = NoAppend THEN 0 ELSE r[queue] + 1
    <3>1. CASE queue = NoAppend
      BY <3>1
    <3>2. CASE queue # NoAppend
      <4>1. r[queue] + 1 \in Int
        BY <3>2
      <4> QED
        BY <3>2, <4>1
    <3> QED
      BY <3>1, <3>2
  <2>3. PICK q \in [Events -> Int] :
            q[e] = last /\ \A f \in Events : f # e => q[f] = r[f]
    <3> DEFINE s == [r EXCEPT ![e] = last]
    <3>1. s \in [Events -> Int] /\ s[e] = last /\ \A f \in Events : f # e => s[f] = r[f]
      OBVIOUS
    <3> QED
      BY <3>1
  <2>4. /\ \A f \in Events : f # e => append'[f] = append[f] /\ waitsFor'[f] = waitsFor[f]
        /\ append'[e] = "queued" /\ waitsFor'[e] = queue
    BY <1>1
  <2>5. \A f \in Events : f # e /\ append'[f] \in {"queued", "read"} =>
            /\ queue # NoAppend /\ queue \in Events /\ queue # e
            /\ append[queue] \in {"queued", "read"} /\ r[f] <= r[queue]
            /\ r[f] \in Int /\ r[queue] \in Int
            /\ waitsFor'[f] # e
    BY <1>1, <1>2, <2>1, <2>4 DEF InLine, Pending, ChainInv
  <2>6. \A f \in Events : f # e /\ append'[f] \in {"queued", "read"} => q[f] < q[e]
    BY <2>2, <2>3, <2>5
  <2>7. InLine(q)'
    <3> DEFINE Held(f) == append'[f] \in {"queued", "read"}
               Behind(f) == waitsFor'[f] # NoAppend /\ Held(waitsFor'[f])
    <3>1. ASSUME NEW f \in Events, Held(f), f # e
          PROVE  /\ Pending(f) /\ q[f] = r[f] /\ q[f] < q[e] /\ waitsFor'[f] = waitsFor[f]
                 /\ Behind(f) <=> Waits(f)
                 /\ Behind(f) => /\ waitsFor[f] \in Events /\ waitsFor[f] # e
                                 /\ Held(waitsFor[f])
      BY <2>3, <2>4, <2>5, <2>6, <3>1 DEF Pending, Waits
    <3>2. ASSUME NEW f \in Events, Held(f), NEW g \in Events, Held(g), q[f] = q[g]
          PROVE  f = g
      <4>1. CASE f = e \/ g = e
        BY <3>1, <3>2, <4>1, <2>3
      <4>2. CASE f # e /\ g # e
        BY <3>1, <3>2, <4>2, <2>1 DEF InLine
      <4> QED
        BY <4>1, <4>2
    <3>3. ASSUME NEW f \in Events, Held(f)
          PROVE  queue' # NoAppend /\ Held(queue') /\ q[f] <= q[queue']
      BY <1>1, <1>2, <2>4, <3>1, <3>3
    <3>4. ASSUME NEW f \in Events, Held(f), NEW g \in Events, Held(g), ~Behind(f)
          PROVE  q[f] <= q[g]
      <4>1. CASE f = e
        <5>1. g = e
          BY <1>2, <2>4, <2>5, <3>4, <4>1
        <5> QED
          BY <4>1, <5>1
      <4>2. CASE f # e /\ g = e
        BY <3>1, <3>4, <4>2
      <4>3. CASE f # e /\ g # e
        BY <3>1, <3>4, <4>3, <2>1 DEF InLine
      <4> QED
        BY <4>1, <4>2, <4>3
    <3>5. ASSUME NEW f \in Events, Held(f), Behind(f)
          PROVE  q[waitsFor'[f]] < q[f]
      <4>1. CASE f = e
        <5>1. queue \in Events /\ Held(queue) /\ waitsFor'[f] = queue
          BY <2>4, <3>5, <4>1
        <5>2. queue # e
          BY <1>1, <1>2, <3>5, <4>1, <5>1 DEF ChainInv
        <5> QED
          BY <2>6, <4>1, <5>1, <5>2
      <4>2. CASE f # e
        BY <2>1, <2>3, <3>1, <3>5, <4>2 DEF InLine
      <4> QED
        BY <4>1, <4>2
    <3>6. ASSUME NEW f \in Events, Held(f), Behind(f), NEW g \in Events, Held(g)
          PROVE  q[g] <= q[waitsFor'[f]] \/ q[f] <= q[g]
      <4>1. CASE g = e
        <5>1. f = e \/ q[f] < q[e]
          BY <2>6, <3>6
        <5> QED
          BY <4>1, <5>1
      <4>2. CASE f = e /\ g # e
        <5>1. queue \in Events /\ waitsFor'[f] = queue /\ queue # e /\ r[g] <= r[queue]
          BY <2>4, <2>5, <3>6, <4>2
        <5> QED
          BY <2>3, <4>2, <5>1
      <4>3. CASE f # e /\ g # e
        <5>1. r[g] <= r[waitsFor[f]] \/ r[f] <= r[g]
          BY <2>1, <3>1, <3>6, <4>3 DEF InLine
        <5> QED
          BY <2>3, <3>1, <3>6, <4>3, <5>1
      <4> QED
        BY <4>1, <4>2, <4>3
    <3> QED
      BY <3>2, <3>3, <3>4, <3>5, <3>6 DEF InLine, Pending, Waits
  <2> QED
    BY <2>7 DEF OneLine
<1> QED
  BY <1>3, <1>4, <1>5, <1>6

\* The first of the line leaves it.
LEMMA SettleKeepsLine ==
    ASSUME TrustTypeOK, ChainInv, OneLine, NEW e \in Events, Pending(e), ~Waits(e),
           NEW x \in Settled, append' = [append EXCEPT ![e] = x],
           waitsFor' = [waitsFor EXCEPT ![e] = NoAppend], queue' = queue
    PROVE  OneLine'
<1> USE DEF TrustTypeOK
<1>1. PICK r \in [Events -> Int] : InLine(r)
  BY DEF OneLine
<1> DEFINE Held(f) == append'[f] \in {"queued", "read"}
           Behind(f) == waitsFor'[f] # NoAppend /\ Held(waitsFor'[f])
<1>2. ASSUME NEW f \in Events, Held(f)
      PROVE  /\ f # e /\ Pending(f) /\ waitsFor'[f] = waitsFor[f]
             /\ r[e] <= r[f] /\ r[f] # r[e] /\ r[e] \in Int /\ r[f] \in Int
  <2>1. f # e /\ Pending(f) /\ waitsFor'[f] = waitsFor[f]
    BY <1>2 DEF Pending, Settled
  <2> QED
    BY <1>1, <2>1 DEF InLine
<1>3. ASSUME NEW f \in Events, Held(f), Behind(f) PROVE Waits(f)
  <2>1. waitsFor[f] \in Events
    BY <1>2, <1>3
  <2> QED
    BY <1>2, <1>3, <2>1 DEF Waits
<1>4. ASSUME NEW f \in Events, Held(f), Waits(f), ~Behind(f) PROVE waitsFor[f] = e
  BY <1>2, <1>4 DEF Waits, Pending
<1>5. ASSUME NEW f \in Events, Held(f)
      PROVE  queue' # NoAppend /\ Held(queue') /\ r[f] <= r[queue']
  <2>1. queue # NoAppend /\ queue \in Events /\ Pending(queue) /\ r[f] <= r[queue]
    BY <1>1, <1>2, <1>5 DEF InLine
  <2>2. queue # e
    BY <1>2, <1>5, <2>1
  <2> QED
    BY <2>1, <2>2 DEF Pending
<1>6. ASSUME NEW f \in Events, Held(f), NEW g \in Events, Held(g), ~Behind(f)
      PROVE  r[f] <= r[g]
  <2>1. CASE ~Waits(f)
    BY <1>1, <1>2, <1>6, <2>1 DEF InLine
  <2>2. CASE Waits(f)
    <3>1. waitsFor[f] = e
      BY <1>4, <1>6, <2>2
    <3>2. r[g] <= r[e] \/ r[f] <= r[g]
      BY <1>1, <1>2, <1>6, <2>2, <3>1 DEF InLine
    <3> QED
      BY <1>2, <1>6, <3>2
  <2> QED
    BY <2>1, <2>2
<1>7. ASSUME NEW f \in Events, Held(f), Behind(f) PROVE r[waitsFor'[f]] < r[f]
  BY <1>1, <1>2, <1>3, <1>7 DEF InLine
<1>8. ASSUME NEW f \in Events, Held(f), Behind(f), NEW g \in Events, Held(g)
      PROVE  r[g] <= r[waitsFor'[f]] \/ r[f] <= r[g]
  BY <1>1, <1>2, <1>3, <1>8 DEF InLine
<1>9. ASSUME NEW f \in Events, Held(f), NEW g \in Events, Held(g), r[f] = r[g] PROVE f = g
  BY <1>1, <1>2, <1>9 DEF InLine
<1>10. InLine(r)'
  BY <1>5, <1>6, <1>7, <1>8, <1>9 DEF InLine, Pending, Waits
<1> QED
  BY <1>10 DEF OneLine

\* Only the first reads, and while it has read nobody else stores.
LEMMA FirstIsAlone ==
    ASSUME TrustTypeOK, OneLine, NEW e \in Events, NEW f \in Events,
           Pending(e), Pending(f), ~Waits(e), ~Waits(f)
    PROVE  e = f
<1>1. PICK r \in [Events -> Int] : InLine(r)
  BY DEF OneLine
<1>2. r[e] <= r[f] /\ r[f] <= r[e] /\ r[e] \in Int /\ r[f] \in Int
  BY <1>1 DEF InLine
<1> QED
  BY <1>1, <1>2 DEF InLine

LEMMA TurnMeansFirst ==
    ASSUME TrustInv, NEW e \in Events, MyTurn(e) PROVE ~Waits(e)
  BY DEF MyTurn, Waits, Pending, Settled

LEMMA ReaderIsFirst ==
    ASSUME TrustInv, NEW e \in Events, append[e] = "read"
    PROVE  waitsFor[e] = NoAppend /\ ~Waits(e) /\ Pending(e)
  BY DEF TrustInv, ChainInv, Waits, Pending

\* What a step of the ledger leaves alone.
LEMMA LedgerKeeps ==
    ASSUME TrustInv, NEW e \in Events, append[e] \in {"queued", "read"},
           NEW x \in {"read"} \cup Settled, append' = [append EXCEPT ![e] = x],
           UNCHANGED <<mode, hook, decision>>,
           \A f \in Events : Contains(appended, f) => Contains(appended', f),
           x = "stored" => Contains(appended', e)
    PROVE  HookInv' /\ StoredInv' /\ GovernInv'
<1> USE DEF TrustInv, TrustTypeOK
<1>1. \A f \in Events : /\ append[f] = "none" => append'[f] = "none"
                        /\ append[f] = "stored" => append'[f] = "stored"
                        /\ append'[f] = "stored" => f = e \/ append[f] = "stored"
  OBVIOUS
<1>2. HookInv'
  BY <1>1, EventTypes DEF HookInv
<1>3. GovernInv'
  BY <1>1, EventTypes DEF GovernInv
<1>4. StoredInv'
  BY <1>1 DEF StoredInv
<1> QED
  BY <1>2, <1>3, <1>4

LEMMA ReadStep ==
    ASSUME TrustInv, NEW e \in Events, ReadLedger(e) PROVE TrustInv'
<1> USE DEF TrustInv
<1>1. /\ append[e] = "queued" /\ MyTurn(e)
      /\ append' = [append EXCEPT ![e] = "read"]
      /\ waitsFor' = [waitsFor EXCEPT ![e] = NoAppend]
      /\ UNCHANGED <<mode, ledger, queue, ledgerHealthy, hook, decision, appended>>
  BY DEF ReadLedger
<1>2. Pending(e) /\ ~Waits(e)
  BY <1>1, TurnMeansFirst DEF Pending
<1>3. TrustTypeOK'
  <2>1. copy' \in [Events -> Seq(Events)] /\ mishaps' \in 0..MaxMishaps /\ lossy' \in BOOLEAN
    <3>1. CASE copy' = [copy EXCEPT ![e] = ledger] /\ UNCHANGED <<mishaps, lossy>>
      BY <3>1 DEF TrustTypeOK
    <3>2. CASE /\ mishaps < MaxMishaps /\ mishaps' = mishaps + 1
               /\ copy' = [copy EXCEPT ![e] = <<>>] /\ lossy' = TRUE
      <4>1. mishaps' \in 0..MaxMishaps
        BY <3>2, TrustAssumption DEF TrustTypeOK
      <4>2. copy' \in [Events -> Seq(Events)]
        BY <3>2 DEF TrustTypeOK
      <4> QED
        BY <3>2, <4>1, <4>2
    <3> QED
      BY <3>1, <3>2 DEF ReadLedger
  <2> QED
    BY <1>1, <2>1 DEF TrustTypeOK
<1>4. ChainInv'
  BY <1>1 DEF ChainInv, TrustTypeOK
<1>5. ASSUME ~lossy' PROVE OneLine' /\ LogInv'
  <2>1. ~lossy /\ copy' = [copy EXCEPT ![e] = ledger]
    BY <1>5 DEF ReadLedger
  <2>2. LogInv'
    BY <1>1, <2>1 DEF LogInv, TrustTypeOK
  <2>3. PICK r \in [Events -> Int] : InLine(r)
    BY <2>1 DEF OneLine
  <2>4. /\ \A f \in Events : append'[f] \in {"queued", "read"} <=> append[f] \in {"queued", "read"}
        /\ \A f \in Events : f # e => waitsFor'[f] = waitsFor[f]
        /\ waitsFor'[e] = NoAppend
    BY <1>1 DEF TrustTypeOK
  <2>5. /\ \A f \in Events : waitsFor[f] # NoAppend => waitsFor[f] \in Events
        /\ queue # NoAppend => queue \in Events
    BY DEF TrustTypeOK
  <2> DEFINE Held(f) == append'[f] \in {"queued", "read"}
             Behind(f) == waitsFor'[f] # NoAppend /\ Held(waitsFor'[f])
  <2>6. ASSUME NEW f \in Events
        PROVE  /\ Held(f) <=> Pending(f)
               /\ Behind(f) <=> Waits(f)
               /\ Behind(f) => waitsFor'[f] = waitsFor[f]
    <3>1. CASE f = e
      BY <1>2, <2>4, <3>1 DEF Pending
    <3>2. CASE f # e
      <4>1. waitsFor'[f] = waitsFor[f] /\ (Held(f) <=> Pending(f))
        BY <2>4, <3>2 DEF Pending
      <4>2. ASSUME waitsFor[f] # NoAppend PROVE Held(waitsFor[f]) <=> Pending(waitsFor[f])
        <5>1. waitsFor[f] \in Events
          BY <2>5, <4>2
        <5> QED
          BY <2>4, <5>1 DEF Pending
      <4> QED
        BY <4>1, <4>2 DEF Waits
    <3> QED
      BY <3>1, <3>2
  <2>7. ASSUME NEW f \in Events, Held(f)
        PROVE  queue' # NoAppend /\ Held(queue') /\ r[f] <= r[queue']
    <3>1. queue # NoAppend /\ Pending(queue) /\ r[f] <= r[queue]
      BY <2>3, <2>6, <2>7 DEF InLine
    <3>2. queue \in Events
      BY <2>5, <2>7, <3>1
    <3>3. Held(queue)
      BY <2>6, <3>1, <3>2
    <3> QED
      BY <1>1, <3>1, <3>3
  <2>8. InLine(r)'
    BY <2>3, <2>6, <2>7 DEF InLine, Pending, Waits
  <2> QED
    BY <2>2, <2>8 DEF OneLine
<1>6. HookInv' /\ StoredInv' /\ GovernInv'
  BY <1>1, LedgerKeeps
<1> QED
  BY <1>3, <1>4, <1>5, <1>6

LEMMA StoreStep ==
    ASSUME TrustInv, NEW e \in Events, StoreLedger(e) PROVE TrustInv'
<1> USE DEF TrustInv
<1>1. /\ append[e] = "read" /\ append' = [append EXCEPT ![e] = "stored"]
      /\ copy' = [copy EXCEPT ![e] = <<>>]
      /\ ledger' = Newest(Append(copy[e], e)) /\ appended' = Append(appended, e)
      /\ UNCHANGED <<mode, queue, waitsFor, ledgerHealthy, hook, decision, mishaps, lossy>>
  BY DEF StoreLedger
<1>2. waitsFor[e] = NoAppend /\ ~Waits(e) /\ Pending(e)
  BY <1>1, ReaderIsFirst
<1>3. /\ Append(copy[e], e) \in Seq(Events) /\ Append(appended, e) \in Seq(Events)
  BY AppendProperties DEF TrustTypeOK
<1>4. ledger' = LogEnd(Append(copy[e], e))
  BY <1>1, <1>3, NewestIsLast
<1>5. ledger' \in Seq(Events) /\ Len(ledger') <= MaxEntries
  <2> DEFINE s == Append(copy[e], e)
  <2>1. LogEnd(s) \in Seq(Events) /\ Len(s) \in Nat
        /\ Len(LogEnd(s)) = IF Len(s) < MaxEntries THEN Len(s) ELSE MaxEntries
    BY <1>3, LastIsPart, LenProperties
  <2> HIDE DEF s
  <2>2. Len(LogEnd(s)) <= MaxEntries
    BY <2>1, TrustAssumption
  <2> QED
    BY <1>4, <2>1, <2>2 DEF s
<1>6. TrustTypeOK'
  BY <1>1, <1>3, <1>5 DEF TrustTypeOK, Settled
<1>7. ChainInv'
  BY <1>1 DEF ChainInv, TrustTypeOK
<1>8. ASSUME ~lossy' PROVE OneLine' /\ LogInv'
  <2>1. ~lossy
    BY <1>1, <1>8
  <2>2. waitsFor' = [waitsFor EXCEPT ![e] = NoAppend]
    BY <1>1, <1>2 DEF TrustTypeOK
  <2>3. OneLine'
    BY <1>1, <1>2, <2>1, <2>2, SettleKeepsLine DEF Settled
  <2>4. ledger' = LogEnd(appended')
    BY <1>1, <1>4, <2>1, LastOfAppend DEF LogInv, TrustTypeOK
  <2>5. ASSUME NEW f \in Events, append'[f] = "read" PROVE FALSE
    <3>1. f # e /\ append[f] = "read"
      BY <1>1, <2>5 DEF TrustTypeOK
    <3> QED
      BY <1>2, <2>1, <3>1, ReaderIsFirst, FirstIsAlone
  <2> QED
    BY <2>3, <2>4, <2>5 DEF LogInv
<1>9. HookInv' /\ StoredInv' /\ GovernInv'
  <2>1. /\ Contains(appended', e)
        /\ \A f \in Events : Contains(appended, f) => Contains(appended', f)
    BY <1>1, ContainsAppended DEF TrustTypeOK
  <2> QED
    BY <1>1, <2>1, LedgerKeeps DEF Settled
<1> QED
  BY <1>6, <1>7, <1>8, <1>9

LEMMA FailStep ==
    ASSUME TrustInv, NEW e \in Events, AppendFails(e) PROVE TrustInv'
<1> USE DEF TrustInv
<1>1. /\ append[e] \in {"queued", "read"} /\ MyTurn(e)
      /\ append' = [append EXCEPT ![e] = "failed"]
      /\ copy' = [copy EXCEPT ![e] = <<>>]
      /\ waitsFor' = [waitsFor EXCEPT ![e] = NoAppend]
      /\ ledgerHealthy' = FALSE
      /\ UNCHANGED <<mode, ledger, queue, hook, decision, appended, lossy>>
  BY DEF AppendFails
<1>2. Pending(e) /\ ~Waits(e)
  BY <1>1, TurnMeansFirst DEF Pending
<1>3. mishaps' \in 0..MaxMishaps /\ <<>> \in Seq(Events)
  BY TrustAssumption DEF AppendFails, TrustTypeOK
<1>4. TrustTypeOK'
  BY <1>1, <1>3 DEF TrustTypeOK, Settled
<1>5. ChainInv'
  BY <1>1 DEF ChainInv, TrustTypeOK
<1>6. ASSUME ~lossy' PROVE OneLine' /\ LogInv'
  <2>1. OneLine'
    BY <1>1, <1>2, <1>6, SettleKeepsLine DEF Settled
  <2>2. LogInv'
    BY <1>1, <1>6 DEF LogInv, TrustTypeOK
  <2> QED
    BY <2>1, <2>2
<1>7. HookInv' /\ StoredInv' /\ GovernInv'
  BY <1>1, LedgerKeeps DEF Settled
<1> QED
  BY <1>4, <1>5, <1>6, <1>7

\* A hook that does not touch the ledger.
LEMMA QuietHook ==
    ASSUME TrustInv, UNCHANGED <<mode, ledger, appends, ledgerHealthy, appended, mishaps, lossy>>,
           hook' \in [ToolCalls -> HookLabels], decision' \in [ToolCalls -> Decisions],
           HookInv', GovernInv'
    PROVE  TrustInv'
<1>1. UNCHANGED <<mode, ledger, queue, waitsFor, append, copy, ledgerHealthy, appended,
                  mishaps, lossy>>
  BY DEF appends
<1>2. TrustTypeOK' /\ ChainInv' /\ StoredInv'
  BY <1>1 DEF TrustInv, TrustTypeOK, ChainInv, StoredInv
<1>3. ASSUME ~lossy' PROVE OneLine' /\ LogInv'
  BY <1>1, <1>3 DEF TrustInv, OneLine, InLine, Pending, Waits, LogInv
<1> QED
  BY <1>2, <1>3 DEF TrustInv

\* A hook that asks for an append.
LEMMA AskingHook ==
    ASSUME TrustInv, NEW e \in Events, Asks(e),
           UNCHANGED <<mode, ledger, ledgerHealthy, appended, mishaps, lossy>>,
           hook' \in [ToolCalls -> HookLabels], decision' \in [ToolCalls -> Decisions],
           HookInv', GovernInv'
    PROVE  TrustInv'
<1>1. /\ queue' \in Events \cup {NoAppend}
      /\ waitsFor' \in [Events -> Events \cup {NoAppend}]
      /\ append' \in [Events -> {"none", "queued", "read"} \cup Settled]
      /\ copy' \in [Events -> Seq(Events)]
      /\ ChainInv' /\ StoredInv'
      /\ ~lossy' => OneLine' /\ LogInv'
  BY AsksStep
<1>2. TrustTypeOK'
  BY <1>1 DEF TrustInv, TrustTypeOK
<1> QED
  BY <1>1, <1>2 DEF TrustInv

\* A step of one hook is all that GovernInv has to look at.
LEMMA GovernStep ==
    ASSUME TrustInv, NEW c \in ToolCalls, mode' = mode,
           \A b \in ToolCalls : b # c =>
               /\ hook'[b] = hook[b] /\ decision'[b] = decision[b]
               /\ append'[<<b, "before">>] = append[<<b, "before">>]
               /\ append'[<<b, "approval">>] = append[<<b, "approval">>],
           mode = "enforce" =>
               /\ hook'[c] # "idle" => decision'[c] # "none"
               /\ hook'[c] \in {"asked", "resolving", "running", "finishing", "done"} =>
                      append'[<<c, "before">>] = "stored"
               /\ hook'[c] \in {"running", "finishing", "done"} =>
                      /\ decision'[c] = "allow"
                      /\ append'[<<c, "approval">>] \in {"none", "stored"}
    PROVE  GovernInv'
<1>1. mode' = "enforce" =>
          \A b \in ToolCalls :
            /\ hook'[b] # "idle" => decision'[b] # "none"
            /\ hook'[b] \in {"asked", "resolving", "running", "finishing", "done"} =>
                   append'[<<b, "before">>] = "stored"
            /\ hook'[b] \in {"running", "finishing", "done"} =>
                   /\ decision'[b] = "allow"
                   /\ append'[<<b, "approval">>] \in {"none", "stored"}
  <2> SUFFICES ASSUME mode = "enforce", NEW b \in ToolCalls
               PROVE  /\ hook'[b] # "idle" => decision'[b] # "none"
                      /\ hook'[b] \in {"asked", "resolving", "running", "finishing", "done"} =>
                             append'[<<b, "before">>] = "stored"
                      /\ hook'[b] \in {"running", "finishing", "done"} =>
                             /\ decision'[b] = "allow"
                             /\ append'[<<b, "approval">>] \in {"none", "stored"}
    OBVIOUS
  <2>1. CASE b = c
    BY <2>1
  <2>2. CASE b # c
    BY <2>2 DEF TrustInv, GovernInv
  <2> QED
    BY <2>1, <2>2
<1> QED
  BY <1>1 DEF GovernInv

\* The same of what a call has recorded by its place.
LEMMA RecordStep ==
    ASSUME TrustInv, NEW c \in ToolCalls,
           \A b \in ToolCalls : b # c =>
               /\ hook'[b] = hook[b]
               /\ append'[<<b, "before">>] = append[<<b, "before">>]
               /\ append'[<<b, "approval">>] = append[<<b, "approval">>]
               /\ append'[<<b, "after">>] = append[<<b, "after">>],
           hook'[c] = "idle" => append'[<<c, "before">>] = "none",
           hook'[c] \in {"idle", "recording", "asked"} => append'[<<c, "approval">>] = "none",
           hook'[c] # "done" /\ hook'[c] # "finishing" => append'[<<c, "after">>] = "none"
    PROVE  HookInv'
<1>1. \A b \in ToolCalls :
         /\ hook'[b] = "idle" => append'[<<b, "before">>] = "none"
         /\ hook'[b] \in {"idle", "recording", "asked"} => append'[<<b, "approval">>] = "none"
         /\ hook'[b] # "done" /\ hook'[b] # "finishing" => append'[<<b, "after">>] = "none"
  <2> SUFFICES ASSUME NEW b \in ToolCalls
               PROVE  /\ hook'[b] = "idle" => append'[<<b, "before">>] = "none"
                      /\ hook'[b] \in {"idle", "recording", "asked"} =>
                             append'[<<b, "approval">>] = "none"
                      /\ hook'[b] # "done" /\ hook'[b] # "finishing" =>
                             append'[<<b, "after">>] = "none"
    OBVIOUS
  <2>1. CASE b = c
    BY <2>1
  <2>2. CASE b # c
    BY <2>2 DEF TrustInv, HookInv
  <2> QED
    BY <2>1, <2>2
<1> QED
  BY <1>1 DEF HookInv

LEMMA HookStep ==
    ASSUME TrustInv, NEW c \in ToolCalls,
           BeforeToolCall(c) \/ Resolve(c) \/ AfterToolCall(c) \/ HookReturns(c)
    PROVE  TrustInv'
<1> USE DEF TrustInv, TrustTypeOK, HookLabels, Decisions
<1>1. CASE BeforeToolCall(c)
  <2>1. PICK d \in {"allow", "block", "require_approval"} :
            decision' = [decision EXCEPT ![c] = d]
    BY <1>1 DEF BeforeToolCall, evaluateTrustDecision
  <2>2. /\ hook[c] = "idle" /\ hook' = [hook EXCEPT ![c] = "recording"]
        /\ Enqueue(<<c, "before">>) /\ append[<<c, "before">>] = "none"
        /\ append' = [append EXCEPT ![<<c, "before">>] = "queued"]
        /\ UNCHANGED <<mode, ledger, ledgerHealthy, appended, mishaps, lossy>>
    BY <1>1 DEF BeforeToolCall, Enqueue, HookInv
  <2>3. hook' \in [ToolCalls -> HookLabels] /\ decision' \in [ToolCalls -> Decisions]
    BY <2>1, <2>2
  <2>4. HookInv' /\ GovernInv'
    <3>1. HookInv'
      <4>1. /\ hook'[c] = "recording"
            /\ append'[<<c, "approval">>] = append[<<c, "approval">>]
            /\ append'[<<c, "after">>] = append[<<c, "after">>]
            /\ \A b \in ToolCalls : b # c =>
                   /\ hook'[b] = hook[b]
                   /\ append'[<<b, "before">>] = append[<<b, "before">>]
                   /\ append'[<<b, "approval">>] = append[<<b, "approval">>]
                   /\ append'[<<b, "after">>] = append[<<b, "after">>]
        BY <2>1, <2>2, EventTypes
      <4>2. append[<<c, "approval">>] = "none" /\ append[<<c, "after">>] = "none"
        BY <2>2 DEF HookInv
      <4> QED
        BY <4>1, <4>2, RecordStep
    <3>2. /\ hook'[c] = "recording" /\ decision'[c] # "none"
          /\ \A b \in ToolCalls : b # c =>
                 /\ hook'[b] = hook[b] /\ decision'[b] = decision[b]
                 /\ append'[<<b, "before">>] = append[<<b, "before">>]
                 /\ append'[<<b, "approval">>] = append[<<b, "approval">>]
      BY <2>1, <2>2, EventTypes
    <3>3. GovernInv'
      BY <2>2, <3>2, GovernStep
    <3> QED
      BY <3>1, <3>3
  <2> QED
    BY <2>2, <2>3, <2>4, EventTypes, AskingHook DEF Asks
<1>2. CASE Resolve(c)
  <2>1. PICK d \in {"allow", "block"} : decision' = [decision EXCEPT ![c] = d]
    BY <1>2 DEF Resolve
  <2>2. /\ hook[c] = "asked" /\ hook' = [hook EXCEPT ![c] = "resolving"]
        /\ Enqueue(<<c, "approval">>) /\ append[<<c, "approval">>] = "none"
        /\ append' = [append EXCEPT ![<<c, "approval">>] = "queued"]
        /\ UNCHANGED <<mode, ledger, ledgerHealthy, appended, mishaps, lossy>>
    BY <1>2 DEF Resolve, Enqueue, HookInv
  <2>3. hook' \in [ToolCalls -> HookLabels] /\ decision' \in [ToolCalls -> Decisions]
    BY <2>1, <2>2
  <2>4. HookInv' /\ GovernInv'
    <3>1. \A b \in ToolCalls : /\ append'[<<b, "before">>] = append[<<b, "before">>]
                               /\ append'[<<b, "after">>] = append[<<b, "after">>]
                               /\ b # c => append'[<<b, "approval">>] = append[<<b, "approval">>]
      BY <2>2, EventTypes
    <3>2. HookInv'
      <4>1. /\ hook'[c] = "resolving"
            /\ \A b \in ToolCalls : b # c => hook'[b] = hook[b]
        BY <2>2
      <4>2. append[<<c, "after">>] = "none"
        BY <2>2 DEF HookInv
      <4> QED
        BY <3>1, <4>1, <4>2, RecordStep
    <3>3. /\ hook'[c] = "resolving" /\ decision'[c] # "none"
          /\ append'[<<c, "before">>] = append[<<c, "before">>]
          /\ mode = "enforce" => append[<<c, "before">>] = "stored"
          /\ \A b \in ToolCalls : b # c => hook'[b] = hook[b] /\ decision'[b] = decision[b]
      BY <2>1, <2>2, <3>1 DEF GovernInv
    <3>4. GovernInv'
      BY <2>2, <3>1, <3>3, GovernStep
    <3> QED
      BY <3>2, <3>4
  <2> QED
    BY <2>2, <2>3, <2>4, EventTypes, AskingHook DEF Asks
<1>3. CASE AfterToolCall(c)
  <2>2. /\ hook[c] = "running" /\ hook' = [hook EXCEPT ![c] = "finishing"]
        /\ Enqueue(<<c, "after">>) /\ append[<<c, "after">>] = "none"
        /\ append' = [append EXCEPT ![<<c, "after">>] = "queued"]
        /\ UNCHANGED <<mode, ledger, ledgerHealthy, decision, appended, mishaps, lossy>>
    BY <1>3 DEF AfterToolCall, Enqueue, HookInv
  <2>3. hook' \in [ToolCalls -> HookLabels] /\ decision' \in [ToolCalls -> Decisions]
    BY <2>2
  <2>4. /\ hook'[c] = "finishing" /\ decision' = decision
        /\ append'[<<c, "before">>] = append[<<c, "before">>]
        /\ append'[<<c, "approval">>] = append[<<c, "approval">>]
        /\ \A b \in ToolCalls : b # c =>
               /\ hook'[b] = hook[b]
               /\ append'[<<b, "before">>] = append[<<b, "before">>]
               /\ append'[<<b, "approval">>] = append[<<b, "approval">>]
               /\ append'[<<b, "after">>] = append[<<b, "after">>]
    BY <2>2, EventTypes
  <2>5. HookInv'
    BY <2>4, RecordStep
  <2>6. GovernInv'
    <3>1. mode = "enforce" =>
             /\ append[<<c, "before">>] = "stored" /\ decision[c] = "allow"
             /\ append[<<c, "approval">>] \in {"none", "stored"}
      BY <2>2 DEF GovernInv
    <3> QED
      BY <2>2, <2>4, <3>1, GovernStep
  <2> QED
    BY <2>2, <2>3, <2>5, <2>6, EventTypes, AskingHook DEF Asks
<1>4. CASE Respond(c)
  <2>1. /\ hook[c] = "recording" /\ hook' = [hook EXCEPT ![c] = Answer(c)]
        /\ UNCHANGED <<mode, ledger, appends, ledgerHealthy, decision, appended, mishaps, lossy>>
        /\ append' = append
    BY <1>4 DEF Respond, appends
  <2>2. /\ Answer(c) \in {"running", "blocked", "asked"}
        /\ mode = "enforce" /\ Answer(c) # "blocked" => append[<<c, "before">>] = "stored"
        /\ mode = "enforce" /\ Answer(c) = "running" =>
               decision[c] \notin {"block", "require_approval"}
    BY DEF Answer, Recorded
  <2>3. hook' \in [ToolCalls -> HookLabels] /\ decision' \in [ToolCalls -> Decisions]
    BY <2>1, <2>2
  <2>4. HookInv' /\ GovernInv'
    <3>1. HookInv'
      BY <2>1, <2>2 DEF HookInv
    <3>2. ASSUME mode = "enforce", NEW b \in ToolCalls
          PROVE  /\ hook'[b] # "idle" => decision'[b] # "none"
                 /\ hook'[b] \in {"asked", "resolving", "running", "finishing", "done"} =>
                        append'[<<b, "before">>] = "stored"
                 /\ hook'[b] \in {"running", "finishing", "done"} =>
                        /\ decision'[b] = "allow"
                        /\ append'[<<b, "approval">>] \in {"none", "stored"}
      <4>1. CASE b # c
        BY <2>1, <3>2, <4>1 DEF GovernInv
      <4>2. CASE b = c
        <5>1. hook'[c] = Answer(c) /\ decision'[c] = decision[c] /\ decision[c] \in Decisions
          BY <2>1
        <5>2. decision[c] # "none" /\ append[<<c, "approval">>] = "none"
          BY <2>1, <3>2 DEF GovernInv, HookInv
        <5> QED
          BY <2>1, <2>2, <3>2, <4>2, <5>1, <5>2
      <4> QED
        BY <4>1, <4>2
    <3>3. GovernInv'
      BY <2>1, <3>2 DEF GovernInv
    <3> QED
      BY <3>1, <3>3
  <2> QED
    BY <2>1, <2>3, <2>4, QuietHook
<1>5. CASE Resolved(c)
  <2>1. /\ hook[c] = "resolving"
        /\ \/ hook' = [hook EXCEPT ![c] = "blocked"]
           \/ /\ hook' = [hook EXCEPT ![c] = "running"]
              /\ append[<<c, "approval">>] = "stored" /\ decision[c] = "allow"
        /\ UNCHANGED <<mode, ledger, appends, ledgerHealthy, decision, appended, mishaps, lossy>>
        /\ append' = append
    BY <1>5 DEF Resolved, ApprovalRecorded, appends
  <2>2. hook' \in [ToolCalls -> HookLabels] /\ decision' \in [ToolCalls -> Decisions]
    BY <2>1
  <2>3. HookInv' /\ GovernInv'
    <3>2. \A b \in ToolCalls : b # c => hook'[b] = hook[b] /\ decision'[b] = decision[b]
      BY <2>1
    <3>1. HookInv'
      <4>1. hook'[c] \in {"blocked", "running"} /\ append[<<c, "after">>] = "none"
        BY <2>1 DEF HookInv
      <4> QED
        BY <2>1, <3>2, <4>1, RecordStep
    <3>3. mode = "enforce" => append[<<c, "before">>] = "stored" /\ decision[c] # "none"
      BY <2>1 DEF GovernInv
    <3>4. GovernInv'
      BY <2>1, <3>2, <3>3, GovernStep
    <3> QED
      BY <3>1, <3>4
  <2> QED
    BY <2>1, <2>2, <2>3, QuietHook
<1>6. CASE Finished(c)
  <2>1. /\ hook[c] = "finishing" /\ hook' = [hook EXCEPT ![c] = "done"]
        /\ UNCHANGED <<mode, ledger, appends, ledgerHealthy, decision, appended, mishaps, lossy>>
        /\ append' = append
    BY <1>6 DEF Finished, appends
  <2>2. hook' \in [ToolCalls -> HookLabels] /\ decision' \in [ToolCalls -> Decisions]
    BY <2>1
  <2>3. HookInv' /\ GovernInv'
    BY <2>1, EventTypes DEF HookInv, GovernInv
  <2> QED
    BY <2>1, <2>2, <2>3, QuietHook
<1> QED
  BY <1>1, <1>2, <1>3, <1>4, <1>5, <1>6 DEF HookReturns

LEMMA ClearStep ==
    ASSUME TrustInv, ClearLedger PROVE TrustInv'
<1>1. /\ queue' = NoAppend
      /\ lossy' = (lossy \/ \E e \in Events : append[e] \in {"queued", "read"})
      /\ UNCHANGED <<mode, ledger, waitsFor, append, copy, ledgerHealthy, hook, decision,
                     appended, mishaps>>
  BY DEF ClearLedger
<1>2. lossy' \in BOOLEAN
  BY <1>1 DEF TrustInv, TrustTypeOK
<1>3. TrustTypeOK' /\ ChainInv' /\ StoredInv' /\ HookInv' /\ GovernInv'
  BY <1>1, <1>2 DEF TrustInv, TrustTypeOK, ChainInv, StoredInv, HookInv, GovernInv
<1>4. ASSUME ~lossy' PROVE OneLine' /\ LogInv'
  <2>1. ~lossy /\ \A e \in Events : append'[e] \notin {"queued", "read"}
    BY <1>1, <1>4
  <2>2. LogInv'
    BY <1>1, <2>1 DEF TrustInv, LogInv
  <2>3. PICK r \in [Events -> Int] : InLine(r)
    BY <2>1 DEF TrustInv, OneLine
  <2>4. InLine(r)'
    BY <2>1 DEF InLine, Pending
  <2> QED
    BY <2>2, <2>4 DEF OneLine
<1> QED
  BY <1>3, <1>4 DEF TrustInv

LEMMA TrustInitially == TrustInit => TrustInv
<1> SUFFICES ASSUME TrustInit PROVE TrustInv
  OBVIOUS
<1>1. <<>> \in Seq(Events) /\ Len(<<>>) = 0 /\ 0 <= MaxEntries /\ 0 \in 0..MaxMishaps
  BY TrustAssumption
<1>2. TrustTypeOK
  BY <1>1 DEF TrustInit, TrustTypeOK, Settled, Decisions, HookLabels
<1>3. ChainInv /\ StoredInv /\ GovernInv
  BY DEF TrustInit, ChainInv, StoredInv, GovernInv
<1>4. HookInv
  BY EventTypes DEF TrustInit, HookInv
<1>5. OneLine
  <2>1. [e \in Events |-> 0] \in [Events -> Int]
    OBVIOUS
  <2>2. InLine([e \in Events |-> 0])
    BY DEF TrustInit, InLine, Pending
  <2> QED
    BY <2>1, <2>2 DEF OneLine
<1>6. LogInv
  <2>1. LogEnd(<<>>) \in Seq(Events) /\ Len(LogEnd(<<>>)) = 0
    <3>1. /\ LogEnd(<<>>) \in Seq(Events)
          /\ Len(LogEnd(<<>>)) = IF Len(<<>>) < MaxEntries THEN Len(<<>>) ELSE MaxEntries
      BY <1>1, LastIsPart
    <3> QED
      BY <1>1, <3>1, TrustAssumption
  <2>2. LogEnd(<<>>) = <<>>
    BY <2>1, EmptySeq
  <2> QED
    BY <2>2 DEF TrustInit, LogInv
<1> QED
  BY <1>2, <1>3, <1>4, <1>5, <1>6 DEF TrustInv

LEMMA TrustStep == TrustInv /\ [TrustNext]_trustVars => TrustInv'
<1> SUFFICES ASSUME TrustInv, [TrustNext]_trustVars PROVE TrustInv'
  OBVIOUS
<1>1. ASSUME NEW c \in ToolCalls,
             BeforeToolCall(c) \/ Resolve(c) \/ AfterToolCall(c) \/ HookReturns(c)
      PROVE  TrustInv'
  BY <1>1, HookStep
<1>2. ASSUME NEW e \in Events, LedgerStep(e) PROVE TrustInv'
  BY <1>2, ReadStep, StoreStep, FailStep DEF LedgerStep
<1>3. CASE ClearLedger
  BY <1>3, ClearStep
<1>4. CASE UNCHANGED trustVars
  <2>1. UNCHANGED <<mode, ledger, appends, ledgerHealthy, hook, decision, appended, mishaps, lossy>>
        /\ append' = append
    BY <1>4 DEF trustVars, appends
  <2> QED
    BY <2>1, QuietHook DEF TrustInv, TrustTypeOK, HookInv, GovernInv
<1> QED
  BY <1>1, <1>2, <1>3, <1>4 DEF TrustNext

\* TrustInv holds in every reachable state.
THEOREM TrustInvariant == TrustSpec => []TrustInv
  BY TrustInitially, TrustStep, PTL DEF TrustSpec

\* The type invariant of TrustMiddleware.
THEOREM TrustTypeCorrect == TrustSpec => []TrustTypeOK
<1>1. TrustInv => TrustTypeOK
  BY DEF TrustInv
<1> QED
  BY <1>1, TrustInvariant, PTL

\* The file is the end of the log for any number of calls and appends, whatever
\* appends fail, until an event is lost to a gateway_stop or to a failed read.
THEOREM LedgerIsLog == TrustSpec => []LedgerIsTheLog
<1>1. TrustInv => LedgerIsTheLog
  BY DEF TrustInv, LogInv, LogEnd, LedgerIsTheLog
<1> QED
  BY <1>1, TrustInvariant, PTL

\* On the enforce path no call runs that is not in the log, or whose approval is
\* not, or that the policy did not allow.
THEOREM GovernedAreAudited == TrustSpec => []GovernedCallsAreAudited
<1>1. TrustInv => GovernedCallsAreAudited
  BY EventTypes DEF TrustInv, GovernInv, StoredInv, GovernedCallsAreAudited
<1> QED
  BY <1>1, TrustInvariant, PTL

-----------------------------------------------------------------------------
(* TrustMiddleware: no append waits in a circle.                           *)

\* The appends in the order in which they were asked for: each waits for an older
\* one. With n, the rank of the next.
RankedBy(rank, n) ==
    /\ \A e \in Events : append[e] # "none" => rank[e] < n
    /\ \A e \in Events : waitsFor[e] # NoAppend => rank[waitsFor[e]] < rank[e]

RankInv == \E n \in Nat, rank \in [Events -> Nat] : RankedBy(rank, n)

\* What a hook awaits was asked for.
AskedInv == \A c \in ToolCalls, e \in Events : Awaits(c, e) => append[e] # "none"

LEMMA RankAsked ==
    ASSUME TrustInv, RankInv, NEW e \in Events, Asks(e) PROVE RankInv'
<1>1. PICK n \in Nat, rank \in [Events -> Nat] : RankedBy(rank, n)
  BY DEF RankInv
<1>2. /\ append[e] = "none" /\ append' = [append EXCEPT ![e] = "queued"]
      /\ waitsFor' = [waitsFor EXCEPT ![e] = queue]
  BY DEF Asks, Enqueue
<1>3. PICK q \in [Events -> Nat] : q[e] = n /\ \A f \in Events : f # e => q[f] = rank[f]
  <2> DEFINE s == [rank EXCEPT ![e] = n]
  <2>1. s \in [Events -> Nat] /\ s[e] = n /\ \A f \in Events : f # e => s[f] = rank[f]
    OBVIOUS
  <2> QED  BY <2>1
<1>4. /\ append'[e] = "queued" /\ waitsFor'[e] = queue
      /\ \A f \in Events : f # e => append'[f] = append[f] /\ waitsFor'[f] = waitsFor[f]
  BY <1>2 DEF TrustInv, TrustTypeOK
<1>5. n + 1 \in Nat /\ \A f \in Events : q[f] \in Nat /\ rank[f] \in Nat
  OBVIOUS
<1>6. ASSUME NEW f \in Events, append'[f] # "none" PROVE q[f] < n + 1
  <2>1. CASE f = e
    BY <1>3, <2>1
  <2>2. CASE f # e
    <3>1. rank[f] < n /\ q[f] = rank[f]
      BY <1>1, <1>3, <1>4, <1>6, <2>2 DEF RankedBy
    <3> QED  BY <1>5, <3>1
  <2> QED  BY <2>1, <2>2
<1>7. ASSUME NEW f \in Events, waitsFor'[f] # NoAppend PROVE q[waitsFor'[f]] < q[f]
  <2>1. CASE f = e
    <3>1. queue \in Events /\ append[queue] # "none" /\ queue # e
      BY <1>2, <1>4, <1>7, <2>1 DEF TrustInv, TrustTypeOK, ChainInv
    <3>2. q[queue] = rank[queue] /\ rank[queue] < n
      BY <1>1, <1>3, <3>1 DEF RankedBy
    <3> QED  BY <1>3, <1>4, <2>1, <3>2
  <2>2. CASE f # e
    <3>1. waitsFor'[f] = waitsFor[f] /\ waitsFor[f] \in Events /\ waitsFor[f] # e
      BY <1>2, <1>4, <1>7, <2>2 DEF TrustInv, TrustTypeOK, ChainInv
    <3>2. rank[waitsFor[f]] < rank[f]
      BY <1>1, <1>4, <1>7, <2>2 DEF RankedBy
    <3> QED  BY <1>3, <2>2, <3>1, <3>2
  <2> QED  BY <2>1, <2>2
<1> QED  BY <1>5, <1>6, <1>7 DEF RankInv, RankedBy

\* A step that asks for nothing leaves the ranks as they are.
LEMMA RankKept ==
    ASSUME RankInv,
           \A e \in Events : append[e] = "none" => append'[e] = "none",
           \A e \in Events : waitsFor'[e] = waitsFor[e] \/ waitsFor'[e] = NoAppend
    PROVE  RankInv'
<1>1. PICK n \in Nat, rank \in [Events -> Nat] : RankedBy(rank, n)
  BY DEF RankInv
<1>2. \A e \in Events : append'[e] # "none" => rank[e] < n
  BY <1>1 DEF RankedBy
<1>3. \A e \in Events : waitsFor'[e] # NoAppend => rank[waitsFor'[e]] < rank[e]
  BY <1>1 DEF RankedBy
<1> QED  BY <1>2, <1>3 DEF RankInv, RankedBy

LEMMA RankStep ==
    ASSUME TrustInv, RankInv, AskedInv, [TrustNext]_trustVars PROVE RankInv' /\ AskedInv'
<1>0. /\ append \in [Events -> {"none", "queued", "read"} \cup Settled]
      /\ waitsFor \in [Events -> Events \cup {NoAppend}]
      /\ hook \in [ToolCalls -> HookLabels]
  BY DEF TrustInv, TrustTypeOK
<1>1. ASSUME NEW e \in Events, LedgerStep(e) PROVE RankInv' /\ AskedInv'
  <2>1. /\ \E l \in {"read", "stored", "failed"} : append' = [append EXCEPT ![e] = l]
        /\ waitsFor' = waitsFor \/ waitsFor' = [waitsFor EXCEPT ![e] = NoAppend]
        /\ append[e] # "none" /\ hook' = hook
    BY <1>1 DEF LedgerStep, ReadLedger, StoreLedger, AppendFails
  <2>2. \A f \in Events : append[f] = "none" <=> append'[f] = "none"
    BY <1>0, <2>1
  <2>3. \A f \in Events : waitsFor'[f] = waitsFor[f] \/ waitsFor'[f] = NoAppend
    BY <1>0, <2>1
  <2>4. AskedInv'
    BY <2>1, <2>2 DEF AskedInv, Awaits
  <2> QED  BY <2>2, <2>3, <2>4, RankKept
<1>2. ASSUME NEW c \in ToolCalls, NEW e \in Events, Asks(e),
             \A b \in ToolCalls, f \in Events : Awaits(b, f)' => f = e \/ Awaits(b, f)
      PROVE  RankInv' /\ AskedInv'
  <2>1. \A f \in Events : append[f] # "none" \/ f = e => append'[f] # "none"
    BY <1>0, <1>2 DEF Asks, Enqueue
  <2>2. AskedInv'
    BY <1>2, <2>1 DEF AskedInv
  <2> QED  BY <1>2, <2>2, RankAsked
<1>3. ASSUME NEW c \in ToolCalls, BeforeToolCall(c) \/ Resolve(c) \/ AfterToolCall(c)
      PROVE  RankInv' /\ AskedInv'
  <2>1. CASE BeforeToolCall(c)
    <3>1. Asks(<<c, "before">>) /\ hook' = [hook EXCEPT ![c] = "recording"]
      BY <2>1, EventTypes DEF BeforeToolCall, Asks, TrustInv, HookInv
    <3>2. \A b \in ToolCalls, f \in Events : Awaits(b, f)' => f = <<c, "before">> \/ Awaits(b, f)
      BY <1>0, <3>1 DEF Awaits
    <3> QED  BY <1>2, <3>1, <3>2, EventTypes
  <2>2. CASE Resolve(c)
    <3>1. Asks(<<c, "approval">>) /\ hook' = [hook EXCEPT ![c] = "resolving"]
      BY <2>2, EventTypes DEF Resolve, Asks, TrustInv, HookInv
    <3>2. \A b \in ToolCalls, f \in Events : Awaits(b, f)' => f = <<c, "approval">> \/ Awaits(b, f)
      BY <1>0, <3>1 DEF Awaits
    <3> QED  BY <1>2, <3>1, <3>2, EventTypes
  <2>3. CASE AfterToolCall(c)
    <3>1. Asks(<<c, "after">>) /\ hook' = [hook EXCEPT ![c] = "finishing"]
      BY <2>3, EventTypes DEF AfterToolCall, Asks, TrustInv, HookInv
    <3>2. \A b \in ToolCalls, f \in Events : Awaits(b, f)' => f = <<c, "after">> \/ Awaits(b, f)
      BY <1>0, <3>1 DEF Awaits
    <3> QED  BY <1>2, <3>1, <3>2, EventTypes
  <2> QED  BY <1>3, <2>1, <2>2, <2>3
<1>4. ASSUME append' = append, waitsFor' = waitsFor,
             \A b \in ToolCalls, f \in Events : Awaits(b, f)' => Awaits(b, f)
      PROVE  RankInv' /\ AskedInv'
  <2>1. AskedInv'
    BY <1>4 DEF AskedInv
  <2>2. RankInv'
    BY <1>4, RankKept
  <2> QED  BY <2>1, <2>2
<1>5. ASSUME NEW c \in ToolCalls, HookReturns(c) PROVE RankInv' /\ AskedInv'
  <2>1. append' = append /\ waitsFor' = waitsFor
    BY <1>5 DEF HookReturns, Respond, Resolved, Finished, appends
  <2>2. \E l \in {"running", "blocked", "asked", "done"} : hook' = [hook EXCEPT ![c] = l]
    BY <1>5 DEF HookReturns, Respond, Resolved, Finished, Answer
  <2>3. \A b \in ToolCalls, f \in Events : Awaits(b, f)' => Awaits(b, f)
    BY <1>0, <2>2 DEF Awaits
  <2> QED  BY <1>4, <2>1, <2>3
<1>6. CASE ClearLedger \/ UNCHANGED trustVars
  <2>1. append' = append /\ waitsFor' = waitsFor /\ hook' = hook
    BY <1>6 DEF ClearLedger, trustVars, appends
  <2> QED  BY <1>4, <2>1 DEF Awaits
<1> QED  BY <1>1, <1>3, <1>5, <1>6 DEF TrustNext

\* The oldest of the appends under way waits for none that is.
LEMMA OldestMoves ==
    ASSUME TrustInv, RankInv, NEW e \in Events, Pending(e)
    PROVE  \E f \in Events : CanMove(f)
<1>1. PICK n \in Nat, rank \in [Events -> Nat] : RankedBy(rank, n)
  BY DEF RankInv
<1> DEFINE T == {rank[f] : f \in {g \in Events : Pending(g)}}
<1>2. T \subseteq Nat /\ T # {}
  OBVIOUS
<1>3. PICK x \in T : \A y \in T : ~(<<y, x>> \in OpToRel(<, Nat))
  BY <1>2, NatLessThanWellFounded, WFMin
<1>4. PICK f \in Events : Pending(f) /\ rank[f] = x
  BY <1>3
<1>5. ASSUME waitsFor[f] # NoAppend PROVE append[waitsFor[f]] \in Settled
  <2>1. /\ waitsFor[f] \in Events /\ append[waitsFor[f]] # "none"
        /\ rank[waitsFor[f]] < rank[f]
    BY <1>1, <1>5 DEF TrustInv, TrustTypeOK, ChainInv, RankedBy
  <2>2. ~Pending(waitsFor[f])
    <3> SUFFICES ASSUME Pending(waitsFor[f]) PROVE FALSE  OBVIOUS
    <3>1. rank[waitsFor[f]] \in T
      BY <2>1
    <3>2. <<rank[waitsFor[f]], x>> \in OpToRel(<, Nat)
      BY <1>2, <1>4, <2>1, <3>1 DEF OpToRel
    <3> QED  BY <1>3, <3>1, <3>2
  <2> QED  BY <2>1, <2>2 DEF Pending, TrustInv, TrustTypeOK
<1>6. CanMove(f)
  BY <1>4, <1>5 DEF CanMove, MyTurn, Pending
<1> QED  BY <1>6

\* The queue of appends has no deadlock, whatever fails, and whatever gateway_stops
\* begin a new chain beside an old one.
THEOREM TrustQueueMoves == TrustSpec => []NoHookIsStuck
<1>1. TrustInit => RankInv /\ AskedInv
  <2> SUFFICES ASSUME TrustInit PROVE RankInv /\ AskedInv  OBVIOUS
  <2>1. RankedBy([e \in Events |-> 0], 0) /\ [e \in Events |-> 0] \in [Events -> Nat]
    BY DEF TrustInit, RankedBy
  <2>2. AskedInv
    BY DEF TrustInit, AskedInv, Awaits
  <2> QED  BY <2>1, <2>2 DEF RankInv
<1>2. TrustInv /\ RankInv /\ AskedInv /\ [TrustNext]_trustVars => RankInv' /\ AskedInv'
  BY RankStep
<1>3. TrustInv /\ RankInv /\ AskedInv => NoHookIsStuck
  BY OldestMoves DEF NoHookIsStuck, AskedInv, Pending, TrustInv, TrustTypeOK
<1> QED  BY <1>1, <1>2, <1>3, TrustInvariant, PTL DEF TrustSpec
=============================================================================

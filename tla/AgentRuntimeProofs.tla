-------------------------- MODULE AgentRuntimeProofs --------------------------
(***************************************************************************)
(* Proofs about what an Agent has: its secrets (AgentRuntime), for any     *)
(* number of calls, names and runtimes, and its key file (AgentIdentity),  *)
(* for any number of Agents, directories and loads.                        *)
(***************************************************************************)
EXTENDS AgentRuntime, AgentIdentity, TLAPS

\* Where the fields of a call come from.
CallShape ==
    \A c \in Calls :
        /\ pc[c] # "idle" => runtime[c] \in Runtimes
        /\ asked[c] = 1 => pc[c] # "idle" /\ epoch[runtime[c]] = 1
        /\ pc[c] \in {"sharing", "waiting"} => joined[c] \in Calls
        /\ pc[c] = "sharing" => call[joined[c]].name = call[c].name

RegisteredIsFresh == registered # None => epoch[registered] = 0

\* A pass was stored by a call of this runtime that will not ask again.
PassHasOwner ==
    \A r \in Runtimes : pass[r] # None =>
        /\ pass[r] \in Calls /\ runtime[pass[r]] = r
        /\ pc[pass[r]] \in {"sent", "done"}

RuntimeInv ==
    /\ RuntimeTypeOK /\ CallShape /\ RegisteredIsFresh /\ PassHasOwner
    /\ OneEntryAtATime /\ PassWasAskedSinceCleanup /\ EntryHasOwnName

LEMMA InitRuntime == Init => RuntimeInv
  BY RuntimeAssumption
     DEF Init, RuntimeInv, RuntimeTypeOK, Labels, Epochs, CallShape, RegisteredIsFresh,
         PassHasOwner, OneEntryAtATime, PassWasAskedSinceCleanup, EntryHasOwnName

LEMMA StepRuntimeType ==
    ASSUME NEW c \in Calls PROVE RuntimeInv /\ Step(c) => RuntimeTypeOK'
<1> SUFFICES ASSUME RuntimeTypeOK, CallShape, Step(c) PROVE RuntimeTypeOK'
  BY DEF RuntimeInv
<1> USE DEF RuntimeTypeOK, Labels, Epochs, Goto, AfterEntry, calls, secrets
<1>0. ASSUME SingleFlight(c), pc[c] # "idle" PROVE RuntimeTypeOK'
  <2>1. runtime[c] \in Runtimes
    BY <1>0 DEF CallShape
  <2>2. /\ inFlight' \in [Runtimes -> Calls \cup {None}]
        /\ joined' \in [Calls -> Calls \cup {None}]
    <3>1. inFlight[runtime[c]] \in Calls \cup {None}
      BY <2>1
    <3>2. CASE inFlight[runtime[c]] = None
      BY <1>0, <3>2 DEF SingleFlight
    <3>3. CASE inFlight[runtime[c]] # None
      BY <1>0, <3>1, <3>3 DEF SingleFlight
    <3> QED  BY <3>2, <3>3
  <2>3. asked' \in [Calls -> Epochs] /\ pc' \in [Calls -> Labels]
    BY <1>0, <2>1 DEF SingleFlight
  <2> QED  BY <1>0, <2>2, <2>3 DEF SingleFlight
<1>1. CASE Begin(c)
  <2>1. pc' \in [Calls -> Labels]
    BY <1>1, RuntimeAssumption DEF Begin
  <2>2. registered' \in Runtimes
    BY <1>1 DEF Begin
  <2>3. UNCHANGED <<call, epoch, inFlight, pass, session, lease, joined, asked, outcome>>
    BY <1>1 DEF Begin
  <2>4. runtime' \in [Calls -> Runtimes \cup {None}]
    BY <1>1, <2>2 DEF Begin
  <2> QED  BY <2>1, <2>2, <2>3, <2>4
<1>2. CASE Ask(c)              BY <1>2, <1>0 DEF Ask
<1>3. CASE FinishEntry(c)
  <2>1. inFlight' \in [Runtimes -> Calls \cup {None}]
    BY <1>3 DEF FinishEntry, Cleared
  <2>2. pass' \in [Runtimes -> Calls \cup {None}] /\ call[c].name \in Names
    BY <1>3 DEF FinishEntry
  <2>4. outcome' \in [Calls -> Names \cup {None, "failed"}]
    BY <1>3, <2>2 DEF FinishEntry
  <2>3. pc' \in [Calls -> Labels]
    BY <1>3 DEF FinishEntry
  <2> QED  BY <1>3, <2>1, <2>2, <2>3, <2>4 DEF FinishEntry
<1>4. CASE FinishShared(c)      BY <1>4 DEF FinishShared, CallShape
<1>5. CASE FinishWait(c)
  <2>1. CASE SingleFlight(c)
    BY <1>5, <2>1, <1>0 DEF FinishWait
  <2>2. CASE ~SingleFlight(c)
    <3>1. outcome' \in [Calls -> Names \cup {None, "failed"}] /\ pc' \in [Calls -> Labels]
      BY <1>5, <2>2 DEF FinishWait
    <3> QED  BY <1>5, <2>2, <3>1 DEF FinishWait
  <2> QED  BY <2>1, <2>2
<1>6. CASE Authorize(c)
  <2>1. CASE SingleFlight(c)
    BY <1>6, <2>1, <1>0 DEF Authorize
  <2>2. CASE ~SingleFlight(c)
    BY <1>6, <2>2 DEF Authorize
  <2> QED  BY <2>1, <2>2
<1>7. CASE FinishClaim(c)       BY <1>7 DEF FinishClaim
<1>8. CASE FinishAssertion(c)   BY <1>8 DEF FinishAssertion
<1>9. CASE FinishLease(c)       BY <1>9 DEF FinishLease
<1>10. CASE Fail(c)             BY <1>10 DEF Fail
<1> QED  BY <1>1, <1>2, <1>3, <1>4, <1>5, <1>6, <1>7, <1>8, <1>9, <1>10 DEF Step, EntryStep

LEMMA StepRuntime == ASSUME NEW c \in Calls PROVE RuntimeInv /\ Step(c) => RuntimeInv'
<1> SUFFICES ASSUME RuntimeInv, Step(c) PROVE RuntimeInv'  OBVIOUS
<1>0. RuntimeTypeOK'
  BY StepRuntimeType
<1> USE RuntimeAssumption, <1>0
    DEF RuntimeInv, RuntimeTypeOK, Labels, Epochs, CallShape, RegisteredIsFresh, PassHasOwner,
        OneEntryAtATime, PassWasAskedSinceCleanup, EntryHasOwnName, StillCurrent,
        Goto, calls, secrets
<1>11. ASSUME SingleFlight(c), pc[c] \in {"ask", "waiting", "protocol"} PROVE RuntimeInv'
  <2>2. CallShape'
    BY <1>11 DEF SingleFlight, SharesName
  <2>3. RegisteredIsFresh' /\ PassHasOwner'
    BY <1>11 DEF SingleFlight
  <2>4. OneEntryAtATime'
    BY <1>11 DEF SingleFlight
  <2>5. PassWasAskedSinceCleanup' /\ EntryHasOwnName'
    BY <1>11 DEF SingleFlight
  <2> QED  BY <2>2, <2>3, <2>4, <2>5
<1>1. CASE Begin(c)
  <2>2. CallShape'
    BY <1>1 DEF Begin
  <2>3. RegisteredIsFresh' /\ PassHasOwner'
    BY <1>1 DEF Begin
  <2>4. OneEntryAtATime'
    BY <1>1 DEF Begin
  <2>5. PassWasAskedSinceCleanup' /\ EntryHasOwnName'
    BY <1>1 DEF Begin
  <2> QED  BY <2>2, <2>3, <2>4, <2>5
<1>2. CASE Ask(c)               BY <1>2, <1>11 DEF Ask
<1>3. CASE FinishEntry(c)
  <2>2. CallShape'
    BY <1>3 DEF FinishEntry, AfterEntry, Cleared
  <2>3. RegisteredIsFresh' /\ PassHasOwner'
    BY <1>3 DEF FinishEntry, AfterEntry, Cleared
  <2>4. OneEntryAtATime'
    BY <1>3 DEF FinishEntry, AfterEntry, Cleared
  <2>5. PassWasAskedSinceCleanup'
    BY <1>3 DEF FinishEntry
  <2>6. EntryHasOwnName'
    BY <1>3 DEF FinishEntry
  <2> QED  BY <2>2, <2>3, <2>4, <2>5, <2>6
<1>4. CASE FinishShared(c)      BY <1>4 DEF FinishShared, AfterEntry
<1>5. CASE FinishWait(c)
  <2>1. CASE SingleFlight(c)
    BY <1>5, <2>1, <1>11 DEF FinishWait
  <2>2. CASE ~SingleFlight(c)
    BY <1>5, <2>2 DEF FinishWait
  <2> QED  BY <2>1, <2>2
<1>6. CASE Authorize(c)
  <2>1. CASE SingleFlight(c)
    BY <1>6, <2>1, <1>11 DEF Authorize
  <2>2. CASE ~SingleFlight(c)
    BY <1>6, <2>2 DEF Authorize
  <2> QED  BY <2>1, <2>2
<1>7. CASE FinishClaim(c)       BY <1>7 DEF FinishClaim
<1>8. CASE FinishAssertion(c)   BY <1>8 DEF FinishAssertion
<1>9. CASE FinishLease(c)       BY <1>9 DEF FinishLease
<1>10. CASE Fail(c)             BY <1>10 DEF Fail
<1> QED  BY <1>1, <1>2, <1>3, <1>4, <1>5, <1>6, <1>7, <1>8, <1>9, <1>10 DEF Step, EntryStep

LEMMA GatewayStopRuntime == RuntimeInv /\ GatewayStop => RuntimeInv'
  BY RuntimeAssumption
     DEF RuntimeInv, RuntimeTypeOK, Labels, Epochs, CallShape, RegisteredIsFresh, PassHasOwner,
         OneEntryAtATime, PassWasAskedSinceCleanup, EntryHasOwnName, StillCurrent,
         GatewayStop, RegisteredAfterStop

LEMMA ExpireRuntime ==
    ASSUME NEW r \in Runtimes PROVE RuntimeInv /\ Expire(r) => RuntimeInv'
<1> SUFFICES ASSUME RuntimeInv, Expire(r) PROVE RuntimeInv'  OBVIOUS
<1> USE RuntimeAssumption DEF RuntimeInv, RuntimeTypeOK, Expire, calls
<1>1. RuntimeTypeOK'
  OBVIOUS
<1>2. CallShape' /\ RegisteredIsFresh' /\ OneEntryAtATime' /\ EntryHasOwnName'
  BY DEF CallShape, RegisteredIsFresh, OneEntryAtATime, EntryHasOwnName, StillCurrent
<1>3. PassHasOwner' /\ PassWasAskedSinceCleanup'
  <2>1. \A q \in Runtimes : pass'[q] = pass[q] \/ pass'[q] = None
    OBVIOUS
  <2>2. epoch' = epoch /\ pc' = pc /\ runtime' = runtime /\ asked' = asked
    OBVIOUS
  <2>3. PassHasOwner'
    BY <2>1, <2>2 DEF PassHasOwner
  <2>4. PassWasAskedSinceCleanup'
    BY <2>1, <2>2 DEF PassWasAskedSinceCleanup
  <2> QED  BY <2>3, <2>4
<1> QED  BY <1>1, <1>2, <1>3

LEMMA NextRuntime == RuntimeInv /\ [Next]_vars => RuntimeInv'
<1>1. RuntimeInv /\ UNCHANGED vars => RuntimeInv'
  BY DEF vars, RuntimeInv, RuntimeTypeOK, CallShape, RegisteredIsFresh, PassHasOwner,
         OneEntryAtATime, PassWasAskedSinceCleanup, EntryHasOwnName, StillCurrent
<1> QED  BY <1>1, StepRuntime, ExpireRuntime, GatewayStopRuntime DEF Next

\* RuntimeInv holds in every reachable state.
THEOREM RuntimeInvariant == Spec => []RuntimeInv
  BY InitRuntime, NextRuntime, PTL DEF Spec

\* Type correctness of the runtime.
THEOREM RuntimeTypeCorrect == Spec => []RuntimeTypeOK
  BY RuntimeInvariant, PTL DEF RuntimeInv

\* Of the entries under way in a runtime only the one in flight can store a pass
\* (the single flight and the epoch of enterSingleFlight and performEnter).
THEOREM RuntimeEntersOnce == Spec => []OneEntryAtATime
  BY RuntimeInvariant, PTL DEF RuntimeInv

\* No entry that was asked for before a cleanup restores a Guest Pass after it.
THEOREM RuntimeCleanupCancels == Spec => []PassWasAskedSinceCleanup
  BY RuntimeInvariant, PTL DEF RuntimeInv

\* No call gets the result of an entry under another name.
THEOREM RuntimeSharesByName == Spec => []EntryHasOwnName
  BY RuntimeInvariant, PTL DEF RuntimeInv

\* A session or a lease was stored by a call of this runtime that is done.
ClaimsHaveOwners ==
    \A r \in Runtimes : \A c \in {session[r], lease[r]} \ {None} :
        c \in Calls /\ runtime[c] = r /\ pc[c] = "done"

\* The entry in flight is one under way in this runtime.
FlightIsUnderWay ==
    \A r \in Runtimes : inFlight[r] # None =>
        /\ inFlight[r] \in Calls /\ runtime[inFlight[r]] = r
        /\ pc[inFlight[r]] = "entering"

WaitInv == ClaimsHaveOwners /\ FlightIsUnderWay /\ NoEntryIsStuck

\* The part of WaitInv that a step that joins or starts an entry can disturb.
LEMMA SingleFlightWait ==
    ASSUME RuntimeInv, WaitInv, NEW c \in Calls, SingleFlight(c),
           pc[c] \in {"ask", "waiting", "protocol"}
    PROVE  WaitInv'
<1> USE RuntimeAssumption DEF RuntimeInv, RuntimeTypeOK, Goto, calls, secrets
<1>1. ClaimsHaveOwners'
  BY DEF SingleFlight, WaitInv, ClaimsHaveOwners
<1>2. runtime[c] \in Runtimes
  BY DEF CallShape
<1>3. FlightIsUnderWay'
  BY <1>2 DEF SingleFlight, WaitInv, FlightIsUnderWay
<1>4. ASSUME NEW d \in Calls, pc'[d] \in {"sharing", "waiting"}
      PROVE  pc'[joined'[d]] = "entering" \/ outcome'[joined'[d]] # None
  <2>1. CASE d = c
    BY <1>2, <1>4, <2>1 DEF SingleFlight, WaitInv, FlightIsUnderWay
  <2>2. CASE d # c
    <3>1. joined'[d] = joined[d] /\ pc'[d] = pc[d] /\ outcome' = outcome
      BY <2>2 DEF SingleFlight
    <3>2. pc[joined[d]] = "entering" \/ outcome[joined[d]] # None
      BY <3>1, <1>4 DEF WaitInv, NoEntryIsStuck
    <3>3. pc[joined[d]] = "entering" => joined[d] # c
      OBVIOUS
    <3> QED  BY <3>1, <3>2, <3>3, <1>4 DEF SingleFlight, CallShape
  <2> QED  BY <2>1, <2>2
<1> QED  BY <1>1, <1>3, <1>4 DEF WaitInv, NoEntryIsStuck

LEMMA StepWait ==
    ASSUME RuntimeInv, WaitInv, NEW c \in Calls, Step(c)
    PROVE  WaitInv'
<1> USE RuntimeAssumption DEF RuntimeInv, RuntimeTypeOK, Goto, calls, secrets
\* A step that leaves the entries alone, or ends one, keeps the waits.
<1>0. ASSUME joined' = joined, NEW label \in Labels, pc' = [pc EXCEPT ![c] = label],
             label \notin {"sharing", "waiting"},
             \A d \in Calls : outcome[d] # None => outcome'[d] # None,
             pc[c] = "entering" => outcome'[c] # None
      PROVE  NoEntryIsStuck'
  BY <1>0 DEF WaitInv, NoEntryIsStuck, CallShape
<1>1. CASE Begin(c)
  <2>1. PICK label \in Labels : pc' = [pc EXCEPT ![c] = label] /\ label \notin {"sharing", "waiting"}
    BY <1>1 DEF Begin, Labels
  <2>2. NoEntryIsStuck'
    BY <1>0, <1>1, <2>1 DEF Begin
  <2> QED  BY <1>1, <2>1, <2>2 DEF Begin, WaitInv, ClaimsHaveOwners, FlightIsUnderWay
<1>2. CASE Ask(c)               BY <1>2, SingleFlightWait DEF Ask
<1>3. CASE FinishEntry(c)
  <2>1. PICK label \in {"sent", "done"} : pc' = [pc EXCEPT ![c] = label]
    BY <1>3 DEF FinishEntry, AfterEntry
  <2>2. outcome' = [outcome EXCEPT ![c] = outcome'[c]] /\ outcome'[c] # None
    BY <1>3 DEF FinishEntry
  <2>3. NoEntryIsStuck'
    BY <1>0, <1>3, <2>1, <2>2 DEF FinishEntry, Labels
  <2>4. FlightIsUnderWay'
    BY <1>3, <2>1 DEF FinishEntry, Cleared, WaitInv, FlightIsUnderWay
  <2>5. ClaimsHaveOwners'
    BY <1>3, <2>1 DEF FinishEntry, WaitInv, ClaimsHaveOwners
  <2> QED  BY <2>3, <2>4, <2>5 DEF WaitInv
<1>4. CASE FinishShared(c)
  <2>1. PICK label \in {"sent", "done"} : pc' = [pc EXCEPT ![c] = label]
    BY <1>4 DEF FinishShared, AfterEntry
  <2>2. NoEntryIsStuck'
    BY <1>0, <1>4, <2>1 DEF FinishShared, Labels
  <2> QED  BY <1>4, <2>1, <2>2 DEF FinishShared, WaitInv, ClaimsHaveOwners, FlightIsUnderWay
<1>5. CASE FinishWait(c)
  <2>1. CASE SingleFlight(c)    BY <1>5, <2>1, SingleFlightWait DEF FinishWait
  <2>2. CASE ~SingleFlight(c)
    <3>1. NoEntryIsStuck'
      BY <1>0, <1>5, <2>2 DEF FinishWait, Labels
    <3> QED  BY <1>5, <2>2, <3>1 DEF FinishWait, WaitInv, ClaimsHaveOwners, FlightIsUnderWay
  <2> QED  BY <2>1, <2>2
<1>6. CASE Authorize(c)
  <2>1. CASE SingleFlight(c)    BY <1>6, <2>1, SingleFlightWait DEF Authorize
  <2>2. CASE ~SingleFlight(c)
    <3>1. NoEntryIsStuck'
      BY <1>0, <1>6, <2>2 DEF Authorize, Labels
    <3> QED  BY <1>6, <2>2, <3>1 DEF Authorize, WaitInv, ClaimsHaveOwners, FlightIsUnderWay
  <2> QED  BY <2>1, <2>2
<1>7. CASE FinishClaim(c)
  <2>1. NoEntryIsStuck'
    BY <1>0, <1>7 DEF FinishClaim, Labels
  <2> QED  BY <1>7, <2>1 DEF FinishClaim, WaitInv, ClaimsHaveOwners, FlightIsUnderWay
<1>8. CASE FinishAssertion(c)
  <2>1. NoEntryIsStuck'
    BY <1>0, <1>8 DEF FinishAssertion, Labels
  <2> QED  BY <1>8, <2>1 DEF FinishAssertion, WaitInv, ClaimsHaveOwners, FlightIsUnderWay
<1>9. CASE FinishLease(c)
  <2>1. NoEntryIsStuck'
    BY <1>0, <1>9 DEF FinishLease, Labels
  <2> QED  BY <1>9, <2>1 DEF FinishLease, WaitInv, ClaimsHaveOwners, FlightIsUnderWay
<1>10. CASE Fail(c)
  <2>1. NoEntryIsStuck'
    BY <1>0, <1>10 DEF Fail, Labels
  <2> QED  BY <1>10, <2>1 DEF Fail, WaitInv, ClaimsHaveOwners, FlightIsUnderWay
<1> QED  BY <1>1, <1>2, <1>3, <1>4, <1>5, <1>6, <1>7, <1>8, <1>9, <1>10 DEF Step, EntryStep

LEMMA NextWait == RuntimeInv /\ WaitInv /\ [Next]_vars => WaitInv'
<1> SUFFICES ASSUME RuntimeInv, WaitInv, [Next]_vars PROVE WaitInv'  OBVIOUS
<1> USE DEF RuntimeInv, RuntimeTypeOK, calls, secrets, WaitInv,
            ClaimsHaveOwners, FlightIsUnderWay, NoEntryIsStuck
<1>1. CASE UNCHANGED vars                               BY <1>1 DEF vars
<1>2. ASSUME NEW c \in Calls, Step(c) PROVE WaitInv'    BY <1>2, StepWait
<1>3. ASSUME NEW r \in Runtimes, Expire(r) PROVE WaitInv'
  BY <1>3, RuntimeAssumption DEF Expire
<1>4. CASE GatewayStop                                  BY <1>4 DEF GatewayStop
<1> QED  BY <1>1, <1>2, <1>3, <1>4 DEF Next

LEMMA WaitInvariant == Spec => []WaitInv
<1>1. Init => WaitInv
  BY RuntimeAssumption
     DEF Init, WaitInv, ClaimsHaveOwners, FlightIsUnderWay, NoEntryIsStuck
<1> QED  BY <1>1, NextWait, RuntimeInvariant, PTL DEF Spec

\* What a claim that a cleanup cut off stores after it is out of the reach of the
\* calls that begin later (claimInvite and claimRunLease, clearAll, resolve).
THEOREM RuntimeForgetsItsClaims == Spec => []LateSecretsAreOutOfReach
<1>1. RuntimeInv /\ WaitInv => LateSecretsAreOutOfReach
  BY DEF RuntimeInv, RuntimeTypeOK, WaitInv, RegisteredIsFresh, PassHasOwner,
         ClaimsHaveOwners, LateSecretsAreOutOfReach
<1> QED  BY <1>1, RuntimeInvariant, WaitInvariant, PTL

\* The calls never wait on each other in a circle, nor for an entry that nobody
\* makes (enterSingleFlight): what a call waits for is under way or was answered.
THEOREM RuntimeEntriesMove == Spec => []NoEntryIsStuck
  BY WaitInvariant, PTL DEF WaitInv

-----------------------------------------------------------------------------
(* The key files.                                                          *)

\* Where the fields of a load come from, and that one life of the registry ties
\* an Agent to one directory and a directory to one Agent.
RuntimesApart ==
    /\ \A a, b \in Agents : a # b /\ registry[a] # Nothing => registry[a] # registry[b]
    /\ \A l \in Loads :
        /\ born[l] <= life
        /\ agent[l] # Nothing => dir[l] # Nothing
        /\ stage[l] \in Working \cup {"resolved"} \/ key[l] \in KeyIds => agent[l] # Nothing
        /\ key[l] \in KeyIds => stage[l] = "done"
        /\ agent[l] # Nothing /\ born[l] = life => registry[agent[l]] = dir[l]
    /\ \A l, m \in Loads :
        agent[l] # Nothing /\ agent[m] # Nothing /\ born[l] = born[m] =>
            (agent[l] = agent[m] <=> dir[l] = dir[m])

\* Two loads that can get in each other's way have marked their directories.
LoadsApart ==
    \A l, m \in Loads :
        /\ l # m /\ stage[l] \in Working /\ stage[m] \in Working
        /\ agent[l] = agent[m] \/ dir[l] = dir[m]
        => {dir[l], dir[m]} \subseteq overlapped

OwnerMigrates ==
    \A l \in Loads : stage[l] \in {"legacy", "move", "unlink"} =>
        agent[l] = owner /\ dir[l] # Legacy

\* What a load has read is still so when it acts on it.
ReadIsFresh ==
    \A l \in Loads :
        /\ /\ stage[l] \in {"legacy", "move", "create"}
           /\ dir[l] \notin overlapped \cup removed
           => file[dir[l]] = Nothing
        /\ /\ stage[l] = "unlink"
           /\ {dir[l], Legacy} \cap (overlapped \cup removed) = {}
           => file[dir[l]] = file[Legacy] /\ file[dir[l]] # Nothing

KeysAreOld ==
    /\ \A d \in Dirs : file[d] \in KeyIds => file[d] <= made
    /\ \A l \in Loads : key[l] \in KeyIds => key[l] <= made

\* A key is in one file, but for a move that is between its two halves.
KeyIsInOneFile ==
    \A d, e \in Dirs : d # e /\ file[d] \in KeyIds /\ file[d] = file[e] =>
        \/ split
        \/ {d, e} \cap (overlapped \ {Legacy}) # {}
        \/ Legacy \in {d, e} /\ \E l \in Loads : stage[l] = "unlink" /\ dir[l] \in {d, e}

\* A key that was signed with stays in the directory where it was read.
SignedKeyStays ==
    \A l \in Loads : \A e \in Dirs \ {dir[l]} :
        key[l] \in KeyIds /\ file[e] = key[l] =>
            \/ split
            \/ dir[l] \in overlapped \cup {Legacy}
            \/ e \in overlapped \ {Legacy}

IdentityInv ==
    /\ IdentityTypeOK /\ RuntimesApart /\ LoadsApart /\ OwnerMigrates /\ ReadIsFresh
    /\ KeysAreOld /\ KeyIsInOneFile /\ SignedKeyStays /\ AgentsDoNotShareKeys

LEMMA InitIdentity == IdentityInit => IdentityInv
<1> SUFFICES ASSUME IdentityInit PROVE IdentityInv  OBVIOUS
<1>1. 0 \in 0..MaxStops /\ 0 \in 0..MaxChanges /\ 0 \in 0..MaxRemovals /\ 1 \in KeyIds
  BY IdentityAssumption DEF KeyIds
<1>2. IdentityTypeOK
  <2>1. file \in [Dirs -> KeyIds \cup {Nothing, Corrupt}]
    BY <1>1 DEF IdentityInit
  <2>2. life \in 0..MaxStops /\ changes \in 0..MaxChanges /\ removals \in 0..MaxRemovals
        /\ made \in 1..MaxKeys
    BY <1>1 DEF IdentityInit, KeyIds
  <2>3. born \in [Loads -> 0..MaxStops]
    BY <1>1 DEF IdentityInit
  <2> QED
    BY <2>1, <2>2, <2>3 DEF IdentityInit, IdentityTypeOK, LoadLabels, Working
<1>3. \A l \in Loads : key[l] \notin KeyIds /\ agent[l] = Nothing /\ stage[l] = "idle"
  BY IdentityAssumption DEF IdentityInit, KeyIds
<1>4. RuntimesApart
  BY <1>3, <1>1 DEF RuntimesApart, IdentityInit, Working
<1>5. KeysAreOld /\ KeyIsInOneFile
  BY <1>3, IdentityAssumption DEF KeysAreOld, KeyIsInOneFile, IdentityInit, KeyIds
<1> QED
  BY <1>2, <1>3, <1>4, <1>5
     DEF IdentityInv, LoadsApart, OwnerMigrates, ReadIsFresh, SignedKeyStays,
         AgentsDoNotShareKeys, Working

\* The steps of a load that has its runtime.
WorkStep(l) ==
    Load(l) \/ ReadTarget(l) \/ ReadLegacy(l) \/ Move(l) \/ Unlink(l) \/ ReadBack(l) \/ Create(l)

\* Such a step is about its load only: where it is and what it returns.
LEMMA WorkFrame ==
    ASSUME IdentityTypeOK, NEW l \in Loads, WorkStep(l)
    PROVE  /\ UNCHANGED <<default, dirOf, changes, owner, registry, life, removals, removed,
                          agent, dir, born>>
           /\ stage[l] \in Working \cup {"resolved"} /\ stage'[l] \in Working \cup {"done"}
           /\ stage' = [stage EXCEPT ![l] = stage'[l]]
           /\ \/ UNCHANGED key
              \/ /\ stage'[l] = "done" /\ key'[l] \in KeyIds \cup {Failed}
                 /\ key' = [key EXCEPT ![l] = key'[l]]
<1> USE DEF IdentityTypeOK, At, Return, Working, config, process, load, ghosts
<1>k. Corrupt \notin KeyIds /\ Nothing \notin KeyIds /\ Nothing # Corrupt
  BY IdentityAssumption DEF KeyIds
<1>1. CASE Load(l)        BY <1>1 DEF Load
<1>2. CASE ReadTarget(l)
  <2>1. CASE file[dir[l]] \in KeyIds
    BY <1>2, <2>1, <1>k DEF ReadTarget, AfterRead
  <2>2. CASE file[dir[l]] = Corrupt
    BY <1>2, <2>2, <1>k DEF ReadTarget, AfterRead
  <2>3. CASE file[dir[l]] \notin KeyIds \cup {Corrupt}
    BY <1>2, <2>3, <1>k DEF ReadTarget, AfterRead
  <2> QED  BY <2>1, <2>2, <2>3
<1>3. CASE ReadLegacy(l)
  <2>1. CASE file[Legacy] \in KeyIds
    BY <1>3, <2>1, <1>k DEF ReadLegacy
  <2>2. CASE file[Legacy] = Corrupt
    BY <1>3, <2>2, <1>k DEF ReadLegacy
  <2>3. CASE file[Legacy] \notin KeyIds \cup {Corrupt}
    BY <1>3, <2>3, <1>k DEF ReadLegacy
  <2> QED  BY <2>1, <2>2, <2>3
<1>4. CASE Move(l)        BY <1>4 DEF Move
<1>5. CASE Unlink(l)      BY <1>5 DEF Unlink
<1>6. CASE ReadBack(l)    BY <1>6 DEF ReadBack
<1>7. CASE Create(l)
  <2>1. made + 1 \in KeyIds
    BY <1>7, IdentityAssumption DEF Create, KeyIds
  <2> QED  BY <1>7, <2>1 DEF Create
<1> QED  BY <1>1, <1>2, <1>3, <1>4, <1>5, <1>6, <1>7 DEF WorkStep

LEMMA IdentityTypeStep ==
    IdentityTypeOK /\ RuntimesApart /\ [IdentityNext]_identityVars => IdentityTypeOK'
<1> SUFFICES ASSUME IdentityTypeOK, RuntimesApart, [IdentityNext]_identityVars
             PROVE  IdentityTypeOK'
  OBVIOUS
<1> USE DEF IdentityTypeOK, config, process, load, ghosts
<1>1. CASE UNCHANGED identityVars
  BY <1>1 DEF identityVars
<1>2. ASSUME NEW l \in Loads, NEW a \in Agents, Resolve(l, a) PROVE IdentityTypeOK'
  BY <1>2 DEF Resolve, Return, At, LoadLabels
<1>3. ASSUME NEW l \in Loads, WorkStep(l) PROVE IdentityTypeOK'
  <2>1. stage' \in [Loads -> LoadLabels] /\ key' \in [Loads -> KeyIds \cup {Nothing, Failed}]
    BY <1>3, WorkFrame DEF LoadLabels
  <2>2. dir[l] \in Dirs
    BY <1>3, WorkFrame DEF RuntimesApart
  <2>3. file' \in [Dirs -> KeyIds \cup {Nothing, Corrupt}] /\ made' \in 1..MaxKeys
    <3>1. CASE Load(l)        BY <3>1 DEF Load
    <3>2. CASE ReadTarget(l)  BY <3>2 DEF ReadTarget
    <3>3. CASE ReadLegacy(l)  BY <3>3 DEF ReadLegacy
    <3>4. CASE Move(l)
      BY <3>4, <2>2, IdentityAssumption DEF Move, AfterMove
    <3>5. CASE Unlink(l)      BY <3>5 DEF Unlink
    <3>6. CASE ReadBack(l)    BY <3>6 DEF ReadBack
    <3>7. CASE Create(l)
      <4>1. made + 1 \in KeyIds
        BY <3>7, IdentityAssumption DEF Create, KeyIds
      <4> QED  BY <3>7, <4>1 DEF Create, KeyIds
    <3> QED  BY <1>3, <3>1, <3>2, <3>3, <3>4, <3>5, <3>6, <3>7 DEF WorkStep
  <2>4. overlapped' \subseteq Dirs
    <3>1. CASE Load(l)
      <4>1. \A m \in OtherLoads(l) : {dir[l], dir[m]} \subseteq Dirs
        BY <2>2 DEF OtherLoads, RuntimesApart
      <4> QED  BY <3>1, <4>1 DEF Load
    <3>2. CASE ~Load(l)
      BY <1>3, <3>2 DEF WorkStep, ReadTarget, ReadLegacy, Move, Unlink, ReadBack, Create
    <3> QED  BY <3>1, <3>2
  <2>5. split' \in BOOLEAN
    BY <1>3 DEF WorkStep, Load, ReadTarget, ReadLegacy, Move, Unlink, ReadBack, Create
  <2> QED  BY <1>3, <2>1, <2>3, <2>4, <2>5, WorkFrame
<1>4. CASE StopRuntimes    BY <1>4, IdentityAssumption DEF StopRuntimes
<1>5. CASE Restart         BY <1>5, IdentityAssumption DEF Restart, LoadLabels
<1>6. CASE Reconfigure     BY <1>6, IdentityAssumption DEF Reconfigure
<1>7. ASSUME NEW d \in Dirs, RemoveFile(d) PROVE IdentityTypeOK'
  BY <1>7, IdentityAssumption DEF RemoveFile
<1> QED
  BY <1>1, <1>2, <1>3, <1>4, <1>5, <1>6, <1>7 DEF IdentityNext, LoadStep, WorkStep

LEMMA RuntimesApartStep ==
    IdentityTypeOK /\ RuntimesApart /\ [IdentityNext]_identityVars => RuntimesApart'
<1> SUFFICES ASSUME IdentityTypeOK, RuntimesApart, [IdentityNext]_identityVars
             PROVE  RuntimesApart'
  OBVIOUS
<1> USE DEF config, process, load, ghosts
<1>1. CASE UNCHANGED identityVars
  BY <1>1 DEF identityVars, RuntimesApart
<1>2. ASSUME NEW l \in Loads, NEW a \in Agents, Resolve(l, a) PROVE RuntimesApart'
  <2>1. a # Nothing /\ Nothing \notin Dirs /\ Failed \notin KeyIds /\ Nothing \notin KeyIds
    BY IdentityAssumption DEF KeyIds
  <2>2. CASE Resolvable(a) /\ OwnerAgrees
    <3>1. /\ registry' = [registry EXCEPT ![a] = dirOf[a]]
          /\ agent' = [agent EXCEPT ![l] = a] /\ dir' = [dir EXCEPT ![l] = dirOf[a]]
          /\ born' = [born EXCEPT ![l] = life]
          /\ stage' = [stage EXCEPT ![l] = "resolved"] /\ stage[l] = "idle"
          /\ UNCHANGED <<key, life>> /\ dirOf[a] \in Dirs
      BY <1>2, <2>2 DEF Resolve, At, IdentityTypeOK
    <3>2. \A b \in Agents : b # a /\ registry[b] # Nothing => registry[b] # dirOf[a]
      BY <2>2 DEF Resolvable, RuntimesApart, IdentityTypeOK
    <3>3. \A b \in Agents : registry[b] # Nothing => registry'[b] = registry[b]
      BY <3>1, <2>2 DEF Resolvable, IdentityTypeOK
    <3>4. \A m \in Loads : agent[m] # Nothing /\ born[m] = life =>
              registry'[agent[m]] = dir[m]
      BY <3>3 DEF RuntimesApart, IdentityTypeOK
    <3>5. \A b, c \in Agents : b # c /\ registry'[b] # Nothing => registry'[b] # registry'[c]
      BY <3>1, <3>2, <2>1 DEF RuntimesApart, IdentityTypeOK
    <3>6. \A m \in Loads :
        /\ born'[m] <= life'
        /\ agent'[m] # Nothing => dir'[m] # Nothing
        /\ stage'[m] \in Working \cup {"resolved"} \/ key'[m] \in KeyIds => agent'[m] # Nothing
        /\ key'[m] \in KeyIds => stage'[m] = "done"
        /\ agent'[m] # Nothing /\ born'[m] = life' => registry'[agent'[m]] = dir'[m]
      BY <3>1, <3>4, <2>1 DEF RuntimesApart, IdentityTypeOK
    <3>7. \A m, n \in Loads :
        agent'[m] # Nothing /\ agent'[n] # Nothing /\ born'[m] = born'[n] =>
            (agent'[m] = agent'[n] <=> dir'[m] = dir'[n])
      <4> TAKE m, n \in Loads
      <4>1. CASE m # l /\ n # l
        BY <4>1, <3>1 DEF RuntimesApart, IdentityTypeOK
      <4>2. CASE (m = l \/ n = l) /\ born'[m] = born'[n]
                 /\ agent'[m] # Nothing /\ agent'[n] # Nothing
        <5>1. /\ born'[m] = life' /\ born'[n] = life'
              /\ agent'[m] \in Agents /\ agent'[n] \in Agents
          BY <4>2, <3>1 DEF IdentityTypeOK
        <5>2. registry'[agent'[m]] = dir'[m] /\ registry'[agent'[n]] = dir'[n]
              /\ dir'[m] # Nothing
          BY <5>1, <3>6, <4>2
        <5> QED  BY <5>1, <5>2, <3>5
      <4> QED  BY <4>1, <4>2
    <3> QED  BY <3>5, <3>6, <3>7 DEF RuntimesApart
  <2>3. CASE ~(Resolvable(a) /\ OwnerAgrees)
    <3>1. /\ UNCHANGED <<registry, agent, dir, born, life>> /\ stage[l] = "idle"
          /\ key' = [key EXCEPT ![l] = Failed] /\ stage' = [stage EXCEPT ![l] = "done"]
      BY <1>2, <2>3 DEF Resolve, Return, At
    <3> QED  BY <3>1, <2>1 DEF RuntimesApart, IdentityTypeOK, Working
  <2> QED  BY <2>2, <2>3
<1>3. ASSUME NEW l \in Loads, WorkStep(l) PROVE RuntimesApart'
  <2>1. /\ UNCHANGED <<registry, life, agent, dir, born>>
        /\ stage[l] \in Working \cup {"resolved"} /\ stage'[l] \in Working \cup {"done"}
        /\ \A m \in Loads \ {l} : stage'[m] = stage[m] /\ key'[m] = key[m]
        /\ key'[l] = key[l] \/ stage'[l] = "done"
    BY <1>3, WorkFrame DEF IdentityTypeOK
  <2>2. key[l] \notin KeyIds /\ agent[l] # Nothing
    BY <2>1 DEF RuntimesApart, Working
  <2> QED  BY <2>1, <2>2 DEF RuntimesApart, Working
<1>4. ASSUME life' = life + 1, registry' = [a \in Agents |-> Nothing],
             UNCHANGED <<agent, dir, born>>,
             \A l \in Loads : /\ stage'[l] = stage[l] \/ stage'[l] = "done"
                              /\ key'[l] = key[l] \/ key'[l] = Failed
      PROVE  RuntimesApart'
  <2>2. \A l \in Loads : born[l] <= life /\ born[l] \in Nat /\ life \in Nat
    BY DEF RuntimesApart, IdentityTypeOK
  <2>3. \A l \in Loads : born'[l] < life' /\ born'[l] <= life'
    BY <1>4, <2>2
  <2>4. \A l \in Loads : key'[l] \in KeyIds => key'[l] = key[l]
    BY <1>4, IdentityAssumption DEF KeyIds
  <2>5. \A a \in Agents : registry'[a] = Nothing
    BY <1>4
  <2>6. \A l \in Loads : born'[l] # life'
    BY <2>3, <2>2, <1>4
  <2> QED  BY <1>4, <2>3, <2>4, <2>5, <2>6 DEF RuntimesApart, Working
<1>5. CASE StopRuntimes
  BY <1>5, <1>4 DEF StopRuntimes
<1>6. CASE Restart
  <2>1. \A l \in Loads : /\ stage'[l] = stage[l] \/ stage'[l] = "done"
                         /\ key'[l] = key[l] \/ key'[l] = Failed
    BY <1>6 DEF Restart
  <2>2. life' = life + 1 /\ registry' = [a \in Agents |-> Nothing] /\ UNCHANGED <<agent, dir, born>>
    BY <1>6 DEF Restart
  <2> QED  BY <1>4, <2>1, <2>2
<1>7. CASE Reconfigure     BY <1>7 DEF Reconfigure, RuntimesApart
<1>8. ASSUME NEW d \in Dirs, RemoveFile(d) PROVE RuntimesApart'
  BY <1>8 DEF RemoveFile, RuntimesApart
<1> QED
  BY <1>1, <1>2, <1>3, <1>5, <1>6, <1>7, <1>8 DEF IdentityNext, LoadStep, WorkStep

\* Taking a runtime changes no file, and nothing about the other loads.
LEMMA ResolveFrame ==
    ASSUME IdentityTypeOK, RuntimesApart, NEW l \in Loads, NEW a \in Agents, Resolve(l, a)
    PROVE  /\ UNCHANGED <<file, made, overlapped, removed, split>>
           /\ stage[l] = "idle" /\ stage'[l] \in {"resolved", "done"} /\ key'[l] \notin KeyIds
           /\ \A m \in Loads \ {l} : /\ stage'[m] = stage[m] /\ key'[m] = key[m]
                                     /\ agent'[m] = agent[m] /\ dir'[m] = dir[m]
                                     /\ born'[m] = born[m]
           /\ owner # Nothing => owner' = owner
<1>1. Failed \notin KeyIds /\ Nothing \notin KeyIds
  BY IdentityAssumption DEF KeyIds
<1>2. stage[l] = "idle" /\ key[l] \notin KeyIds
  BY DEF Resolve, RuntimesApart
<1>3. owner # Nothing => owner' = owner
  BY DEF Resolve, OwnerAgrees
<1>4. CASE Resolvable(a) /\ OwnerAgrees
  BY <1>1, <1>2, <1>3, <1>4 DEF Resolve, At, ghosts, IdentityTypeOK
<1>5. CASE ~(Resolvable(a) /\ OwnerAgrees)
  BY <1>1, <1>2, <1>3, <1>5 DEF Resolve, At, Return, ghosts, IdentityTypeOK
<1> QED  BY <1>4, <1>5

\* What the directories of a working load mean.
LEMMA WorkingDirs ==
    ASSUME IdentityTypeOK, RuntimesApart, NEW l \in Loads, stage[l] \in Working \cup {"resolved"}
    PROVE  agent[l] \in Agents /\ dir[l] \in Dirs
BY DEF IdentityTypeOK, RuntimesApart

LEMMA LoadsApartStep == IdentityInv /\ [IdentityNext]_identityVars => LoadsApart'
<1> SUFFICES ASSUME IdentityInv, [IdentityNext]_identityVars PROVE LoadsApart'  OBVIOUS
<1> USE DEF config, process, load, ghosts
<1>i. IdentityTypeOK /\ RuntimesApart /\ LoadsApart
  BY DEF IdentityInv
<1>1. ASSUME UNCHANGED <<agent, dir>>, overlapped \subseteq overlapped',
             \A l \in Loads : stage'[l] \in Working => stage[l] \in Working
      PROVE  LoadsApart'
  BY <1>1, <1>i DEF LoadsApart
<1>2. ASSUME NEW l \in Loads, NEW a \in Agents, Resolve(l, a) PROVE LoadsApart'
  <2>1. stage'[l] \notin Working
    BY <1>2, <1>i, ResolveFrame DEF Working
  <2> QED  BY <1>2, <1>i, <2>1, ResolveFrame DEF LoadsApart
<1>3. ASSUME NEW l \in Loads, Load(l) PROVE LoadsApart'
  <2>1. WorkStep(l)
    BY <1>3 DEF WorkStep
  <2>2. /\ UNCHANGED <<agent, dir, born>>
        /\ \A m \in Loads \ {l} : stage'[m] = stage[m]
    BY <2>1, <1>i, WorkFrame DEF IdentityTypeOK
  <2>3. overlapped \subseteq overlapped'
    BY <1>3 DEF Load
  <2>4. ASSUME NEW m \in Loads \ {l}, stage[m] \in Working, agent[l] = agent[m] \/ dir[l] = dir[m]
        PROVE  {dir[l], dir[m]} \subseteq overlapped'
    <3>1. m \in OtherLoads(l)
      BY <2>4 DEF OtherLoads
    <3>2. ~SameRuntime(l, m)
      BY <3>1, <1>3 DEF Load, MayLoad
    <3> QED  BY <3>1, <3>2, <1>3 DEF Load
  <2> QED  BY <2>2, <2>3, <2>4, <1>i DEF LoadsApart
<1>4. ASSUME NEW l \in Loads, WorkStep(l), ~Load(l) PROVE LoadsApart'
  <2>1. stage[l] \in Working /\ overlapped' = overlapped
    BY <1>4 DEF WorkStep, ReadTarget, ReadLegacy, Move, Unlink, ReadBack, Create, Working
  <2>2. UNCHANGED <<agent, dir>> /\ \A m \in Loads \ {l} : stage'[m] = stage[m]
    BY <1>4, <1>i, WorkFrame DEF IdentityTypeOK
  <2> QED  BY <2>1, <2>2, <1>1
<1>5. CASE UNCHANGED identityVars    BY <1>5, <1>1 DEF identityVars
<1>6. CASE StopRuntimes              BY <1>6, <1>1 DEF StopRuntimes
<1>7. CASE Restart
  <2>1. \A l \in Loads : stage'[l] \notin Working
    BY <1>7 DEF Restart, Working
  <2> QED  BY <2>1 DEF LoadsApart
<1>8. CASE Reconfigure               BY <1>8, <1>1 DEF Reconfigure
<1>9. ASSUME NEW d \in Dirs, RemoveFile(d) PROVE LoadsApart'
  BY <1>9, <1>1 DEF RemoveFile
<1> QED
  BY <1>2, <1>3, <1>4, <1>5, <1>6, <1>7, <1>8, <1>9 DEF IdentityNext, LoadStep, WorkStep

LEMMA OwnerMigratesStep == IdentityInv /\ [IdentityNext]_identityVars => OwnerMigrates'
<1> SUFFICES ASSUME IdentityInv, [IdentityNext]_identityVars PROVE OwnerMigrates'  OBVIOUS
<1> USE DEF config, process, load, ghosts
<1>i. IdentityTypeOK /\ RuntimesApart /\ OwnerMigrates
  BY DEF IdentityInv
<1>1. ASSUME UNCHANGED <<agent, dir, owner>>,
             \A l \in Loads : stage'[l] \in {"legacy", "move", "unlink"} =>
                 stage[l] \in {"legacy", "move", "unlink"}
      PROVE  OwnerMigrates'
  BY <1>1, <1>i DEF OwnerMigrates
<1>2. ASSUME NEW l \in Loads, NEW a \in Agents, Resolve(l, a) PROVE OwnerMigrates'
  <2>1. stage'[l] \notin {"legacy", "move", "unlink"}
    BY <1>2, <1>i, ResolveFrame
  <2>2. \A m \in Loads \ {l} : stage[m] \in {"legacy", "move", "unlink"} => owner # Nothing
    BY <1>i, WorkingDirs, IdentityAssumption DEF OwnerMigrates, Working
  <2> QED  BY <1>2, <1>i, <2>1, <2>2, ResolveFrame DEF OwnerMigrates
<1>3. ASSUME NEW l \in Loads, WorkStep(l) PROVE OwnerMigrates'
  <2>1. /\ UNCHANGED <<agent, dir, owner>>
        /\ \A m \in Loads \ {l} : stage'[m] = stage[m]
    BY <1>3, <1>i, WorkFrame DEF IdentityTypeOK
  <2>2. \/ stage'[l] \notin {"legacy", "move", "unlink"}
        \/ stage[l] \in {"legacy", "move", "unlink"}
        \/ agent[l] = owner /\ dir[l] # Legacy
    <3>0. l \in DOMAIN stage
      BY <1>i DEF IdentityTypeOK
    <3>1. CASE Load(l)        BY <3>1, <3>0 DEF Load, At
    <3>2. CASE ReadTarget(l)
      BY <3>2, <3>0 DEF ReadTarget, AfterRead, At, Return, MayMigrate
    <3>3. CASE ReadLegacy(l)  BY <3>3 DEF ReadLegacy
    <3>4. CASE Move(l)        BY <3>4 DEF Move
    <3>5. CASE Unlink(l)      BY <3>5 DEF Unlink
    <3>6. CASE ReadBack(l)    BY <3>6, <3>0 DEF ReadBack, Return, At
    <3>7. CASE Create(l)      BY <3>7, <3>0 DEF Create, Return, At
    <3> QED  BY <1>3, <3>1, <3>2, <3>3, <3>4, <3>5, <3>6, <3>7 DEF WorkStep
  <2> QED  BY <2>1, <2>2, <1>i DEF OwnerMigrates
<1>5. CASE UNCHANGED identityVars    BY <1>5, <1>1 DEF identityVars
<1>6. CASE StopRuntimes              BY <1>6, <1>1 DEF StopRuntimes
<1>7. CASE Restart
  <2>1. \A l \in Loads : stage'[l] \notin {"legacy", "move", "unlink"}
    BY <1>7 DEF Restart
  <2> QED  BY <2>1 DEF OwnerMigrates
<1>8. CASE Reconfigure               BY <1>8, <1>1 DEF Reconfigure
<1>9. ASSUME NEW d \in Dirs, RemoveFile(d) PROVE OwnerMigrates'
  BY <1>9, <1>1 DEF RemoveFile
<1> QED
  BY <1>2, <1>3, <1>5, <1>6, <1>7, <1>8, <1>9 DEF IdentityNext, LoadStep, WorkStep

LEMMA ReadIsFreshStep == IdentityInv /\ [IdentityNext]_identityVars => ReadIsFresh'
<1> SUFFICES ASSUME IdentityInv, [IdentityNext]_identityVars PROVE ReadIsFresh'  OBVIOUS
<1> USE DEF config, process, load, ghosts
<1>i. IdentityTypeOK /\ RuntimesApart /\ LoadsApart /\ OwnerMigrates /\ ReadIsFresh
  BY DEF IdentityInv
<1>k. Nothing \notin KeyIds /\ Corrupt \notin KeyIds /\ Legacy \in Dirs
  BY IdentityAssumption DEF KeyIds
<1>1. ASSUME UNCHANGED <<dir, file>>,
             overlapped \subseteq overlapped', removed \subseteq removed',
             \A l \in Loads : stage'[l] \in {"legacy", "move", "create", "unlink"} =>
                 stage'[l] = stage[l]
      PROVE  ReadIsFresh'
  BY <1>1, <1>i DEF ReadIsFresh
<1>2. ASSUME NEW l \in Loads, NEW a \in Agents, Resolve(l, a) PROVE ReadIsFresh'
  BY <1>2, <1>i, ResolveFrame DEF ReadIsFresh
<1>3. ASSUME NEW l \in Loads, WorkStep(l), UNCHANGED <<file, overlapped>>,
             \/ stage'[l] \notin {"legacy", "move", "create", "unlink"}
             \/ /\ stage[l] \in {"legacy", "move", "create"}
                /\ stage'[l] \in {"legacy", "move", "create"}
             \/ file[dir[l]] = Nothing /\ stage'[l] # "unlink"
      PROVE  ReadIsFresh'
  <2>1. /\ UNCHANGED <<dir, removed>>
        /\ \A m \in Loads \ {l} : stage'[m] = stage[m]
    BY <1>3, <1>i, WorkFrame DEF IdentityTypeOK
  <2>2. UNCHANGED <<file, overlapped>>
    BY <1>3
  <2>3. ASSUME NEW m \in Loads, m # l
        PROVE  /\ /\ stage'[m] \in {"legacy", "move", "create"}
                  /\ dir'[m] \notin overlapped' \cup removed'
                  => file'[dir'[m]] = Nothing
               /\ /\ stage'[m] = "unlink"
                  /\ {dir'[m], Legacy} \cap (overlapped' \cup removed') = {}
                  => file'[dir'[m]] = file'[Legacy] /\ file'[dir'[m]] # Nothing
    BY <2>1, <2>2, <2>3, <1>i DEF ReadIsFresh
  <2>4. /\ stage'[l] # "unlink"
        /\ /\ stage'[l] \in {"legacy", "move", "create"}
           /\ dir'[l] \notin overlapped' \cup removed'
           => file'[dir'[l]] = Nothing
    BY <2>1, <2>2, <1>3, <1>i DEF ReadIsFresh
  <2> QED  BY <2>3, <2>4 DEF ReadIsFresh
<1>4. ASSUME NEW l \in Loads, Load(l) PROVE ReadIsFresh'
  <2>1. /\ UNCHANGED <<dir, removed, file>> /\ overlapped \subseteq overlapped'
        /\ stage'[l] = "read"
        /\ \A m \in Loads \ {l} : stage'[m] = stage[m]
    BY <1>4, <1>i DEF Load, At, IdentityTypeOK
  <2> QED  BY <2>1, <1>1
<1>5. ASSUME NEW l \in Loads, ReadTarget(l) PROVE ReadIsFresh'
  <2>1. WorkStep(l) /\ UNCHANGED <<file, overlapped>>
    BY <1>5 DEF WorkStep, ReadTarget
  <2>2. stage'[l] = "done" \/ (file[dir[l]] = Nothing /\ stage'[l] # "unlink")
    BY <1>5, <1>i DEF ReadTarget, AfterRead, Return, At, IdentityTypeOK
  <2> QED  BY <2>1, <2>2, <1>3
<1>6. ASSUME NEW l \in Loads, ReadLegacy(l) PROVE ReadIsFresh'
  <2>1. WorkStep(l) /\ UNCHANGED <<file, overlapped>> /\ stage[l] = "legacy"
    BY <1>6 DEF WorkStep, ReadLegacy
  <2>2. stage'[l] \in {"done", "move", "create"}
    BY <1>6, <1>i DEF ReadLegacy, Return, At, IdentityTypeOK
  <2> QED  BY <2>1, <2>2, <1>3
<1>7. ASSUME NEW l \in Loads, Move(l) PROVE ReadIsFresh'
  <2>0. stage[l] = "move" /\ WorkStep(l)
    BY <1>7 DEF Move, WorkStep
  <2>1. /\ dir[l] \in Dirs /\ dir[l] # Legacy /\ agent[l] = owner
        /\ UNCHANGED <<dir, removed, overlapped>>
        /\ \A m \in Loads \ {l} : stage'[m] = stage[m]
    BY <2>0, <1>i, <1>7, WorkFrame, WorkingDirs DEF OwnerMigrates, Move, Working, IdentityTypeOK
  <2>2. CASE UNCHANGED file /\ Return(l, Failed)
    <3>1. stage'[l] = "done"
      BY <2>2, <1>i DEF Return, At, IdentityTypeOK
    <3> QED  BY <2>0, <2>1, <2>2, <3>1, <1>3
  <2>3. CASE ~(UNCHANGED file /\ Return(l, Failed))
    <3>1. /\ file[Legacy] # Nothing /\ file'[dir[l]] = file[Legacy]
          /\ stage'[l] \in {"unlink", "readback"}
          /\ stage'[l] = "unlink" => file'[Legacy] = file[Legacy]
          /\ \A d \in Dirs \ {dir[l], Legacy} : file'[d] = file[d]
          /\ file'[Legacy] \in {Nothing, file[Legacy]}
      BY <1>7, <2>1, <2>3, <1>i, <1>k DEF Move, AfterMove, At, IdentityTypeOK
    <3>2. ASSUME NEW m \in Loads, m # l, stage[m] \in {"legacy", "move", "create", "unlink"},
                 dir[m] \notin overlapped \cup removed
          PROVE  /\ dir[m] \in Dirs /\ dir[m] # dir[l]
                 /\ stage[m] \notin {"legacy", "move", "unlink"}
      BY <3>2, <2>0, <2>1, <1>i, WorkingDirs DEF LoadsApart, OwnerMigrates, Working
    <3>3. ASSUME NEW m \in Loads, m # l, stage'[m] \in {"legacy", "move", "create"},
                 dir'[m] \notin overlapped' \cup removed'
          PROVE  file'[dir'[m]] = Nothing
      <4>1. stage[m] = "create" /\ dir[m] \in Dirs /\ dir[m] # dir[l] /\ file[dir[m]] = Nothing
        BY <3>3, <3>2, <2>1, <1>i DEF ReadIsFresh
      <4> QED  BY <4>1, <3>1, <2>1
    <3>4. ASSUME NEW m \in Loads, m # l, stage'[m] = "unlink",
                 {dir'[m], Legacy} \cap (overlapped' \cup removed') = {}
          PROVE  FALSE
      BY <3>4, <3>2, <2>1
    <3> QED  BY <3>1, <3>3, <3>4, <2>1 DEF ReadIsFresh
  <2> QED  BY <2>2, <2>3
<1>8. ASSUME NEW l \in Loads, Unlink(l) PROVE ReadIsFresh'
  <2>0. stage[l] = "unlink" /\ WorkStep(l)
    BY <1>8 DEF Unlink, WorkStep
  <2>1. /\ dir[l] \in Dirs /\ dir[l] # Legacy /\ agent[l] = owner
        /\ UNCHANGED <<dir, removed, overlapped>>
        /\ stage'[l] \in {"readback", "done"}
        /\ \A m \in Loads \ {l} : stage'[m] = stage[m]
        /\ \A d \in Dirs : file'[d] = file[d] \/ file'[d] = Nothing
    BY <2>0, <1>i, <1>8, WorkFrame, WorkingDirs
       DEF OwnerMigrates, Unlink, Working, IdentityTypeOK, Return, At
  <2>2. ASSUME NEW m \in Loads, m # l, stage[m] = "unlink"
        PROVE  dir[m] \in overlapped
    BY <2>2, <2>0, <2>1, <1>i DEF LoadsApart, OwnerMigrates, Working
  <2>3. \A m \in Loads : stage[m] \in Working => dir[m] \in Dirs
    BY <1>i, WorkingDirs
  <2> QED  BY <2>1, <2>2, <2>3, <1>i DEF ReadIsFresh, Working
<1>9. ASSUME NEW l \in Loads, ReadBack(l) PROVE ReadIsFresh'
  <2>1. WorkStep(l) /\ UNCHANGED <<file, overlapped>> /\ stage'[l] = "done"
    BY <1>9, <1>i DEF WorkStep, ReadBack, Return, At, IdentityTypeOK
  <2> QED  BY <2>1, <1>3
<1>10. ASSUME NEW l \in Loads, Create(l) PROVE ReadIsFresh'
  <2>0. stage[l] = "create" /\ WorkStep(l)
    BY <1>10 DEF Create, WorkStep
  <2>1. /\ dir[l] \in Dirs
        /\ UNCHANGED <<dir, removed, overlapped>>
        /\ stage'[l] = "done"
        /\ \A m \in Loads \ {l} : stage'[m] = stage[m]
        /\ \A d \in Dirs \ {dir[l]} : file'[d] = file[d]
    BY <2>0, <1>i, <1>10, WorkFrame, WorkingDirs
       DEF Create, Working, IdentityTypeOK, Return, At
  <2>2. ASSUME NEW m \in Loads, m # l, stage[m] \in Working, dir[m] \notin overlapped
        PROVE  dir[m] # dir[l] /\ dir[m] \in Dirs
    BY <2>2, <2>0, <2>1, <1>i, WorkingDirs DEF LoadsApart, Working
  <2>3. ASSUME NEW m \in Loads, stage[m] = "unlink",
               {dir[m], Legacy} \cap (overlapped \cup removed) = {}
        PROVE  dir[l] # Legacy
    BY <2>3, <2>0, <1>i DEF ReadIsFresh
  <2>4. ASSUME NEW m \in Loads, stage'[m] \in {"legacy", "move", "create"},
               dir'[m] \notin overlapped' \cup removed'
        PROVE  file'[dir'[m]] = Nothing
    BY <2>4, <2>1, <2>2, <1>i DEF ReadIsFresh, Working
  <2>5. ASSUME NEW m \in Loads, stage'[m] = "unlink",
               {dir'[m], Legacy} \cap (overlapped' \cup removed') = {}
        PROVE  file'[dir'[m]] = file'[Legacy] /\ file'[dir'[m]] # Nothing
    <3>1. /\ m # l /\ stage[m] = "unlink" /\ dir'[m] = dir[m]
          /\ {dir[m], Legacy} \cap (overlapped \cup removed) = {}
      BY <2>5, <2>1
    <3>2. dir[l] # Legacy /\ dir[m] # dir[l] /\ dir[m] \in Dirs
      BY <3>1, <2>2, <2>3 DEF Working
    <3>3. file[dir[m]] = file[Legacy] /\ file[dir[m]] # Nothing
      BY <3>1, <1>i DEF ReadIsFresh
    <3> QED  BY <3>1, <3>2, <3>3, <2>1, <1>k
  <2> QED  BY <2>4, <2>5 DEF ReadIsFresh
<1>11. CASE UNCHANGED identityVars    BY <1>11, <1>1 DEF identityVars
<1>12. CASE StopRuntimes              BY <1>12, <1>1 DEF StopRuntimes
<1>13. CASE Restart
  <2>1. \A l \in Loads : stage'[l] \in {"idle", "done"}
    BY <1>13 DEF Restart
  <2> QED  BY <2>1 DEF ReadIsFresh
<1>14. CASE Reconfigure               BY <1>14, <1>1 DEF Reconfigure
<1>15. ASSUME NEW d \in Dirs, RemoveFile(d) PROVE ReadIsFresh'
  <2>1. /\ UNCHANGED <<dir, overlapped, stage>> /\ removed' = removed \cup {d}
        /\ \A e \in Dirs : file'[e] = IF e = d THEN Nothing ELSE file[e]
    BY <1>15, <1>i DEF RemoveFile, IdentityTypeOK
  <2>2. \A m \in Loads : stage[m] \in Working => dir[m] \in Dirs
    BY <1>i, WorkingDirs
  <2> QED  BY <2>1, <2>2, <1>i, <1>k DEF ReadIsFresh, Working
<1> QED
  BY <1>2, <1>4, <1>5, <1>6, <1>7, <1>8, <1>9, <1>10, <1>11, <1>12, <1>13, <1>14, <1>15
     DEF IdentityNext, LoadStep

\* Where the key that a load returns comes from.
LEMMA ReturnedKey ==
    ASSUME IdentityInv, NEW l \in Loads, WorkStep(l), key'[l] \in KeyIds
    PROVE  \/ file[dir[l]] = key'[l] /\ UNCHANGED <<file, made, overlapped, split>>
           \/ Create(l) /\ key'[l] = made + 1
<1>i. IdentityTypeOK /\ RuntimesApart
  BY DEF IdentityInv
<1>1. key[l] \notin KeyIds /\ Failed \notin KeyIds
  BY <1>i, WorkFrame, IdentityAssumption DEF RuntimesApart, Working, KeyIds
<1> QED
  BY <1>i, <1>1 DEF WorkStep, Load, ReadTarget, AfterRead, ReadLegacy, Move, Unlink, ReadBack,
     Create, Return, At, IdentityTypeOK, load, ghosts

\* What a step of a load does to the files.
LEMMA FilesChange ==
    ASSUME IdentityInv, NEW l \in Loads, WorkStep(l)
    PROVE  \/ UNCHANGED <<file, made>> /\ (split => split')
           \/ /\ Move(l) /\ dir[l] # Legacy /\ dir[l] \in Dirs /\ UNCHANGED <<made, overlapped, split>>
              /\ stage[l] = "move" /\ agent[l] = owner
              /\ \A d \in Dirs : file'[d] = IF d = dir[l] THEN file[Legacy]
                                            ELSE IF d = Legacy /\ stage'[l] # "unlink" THEN Nothing
                                            ELSE file[d]
           \/ /\ Unlink(l) /\ UNCHANGED <<made, overlapped, split>>
              /\ \A d \in Dirs : file'[d] = IF d = Legacy THEN Nothing ELSE file[d]
           \/ /\ Create(l) /\ made' = made + 1 /\ UNCHANGED <<overlapped, split>>
              /\ dir[l] \in Dirs /\ stage[l] = "create"
              /\ \A d \in Dirs : file'[d] = IF d = dir[l] THEN made + 1 ELSE file[d]
<1>i. IdentityTypeOK /\ RuntimesApart /\ OwnerMigrates
  BY DEF IdentityInv
<1>0. dir[l] \in Dirs
  BY <1>i, WorkFrame, WorkingDirs
<1> USE DEF load, ghosts
<1>1. CASE Load(l)          BY <1>1 DEF Load
<1>2. CASE ReadTarget(l)    BY <1>2 DEF ReadTarget
<1>3. CASE ReadLegacy(l)    BY <1>3 DEF ReadLegacy
<1>4. CASE Move(l)
  <2>1. dir[l] # Legacy /\ agent[l] = owner
    BY <1>4, <1>i DEF Move, OwnerMigrates
  <2> QED  BY <1>4, <1>0, <2>1, <1>i DEF Move, AfterMove, At, IdentityTypeOK
<1>5. CASE Unlink(l)        BY <1>5, <1>i DEF Unlink, IdentityTypeOK
<1>6. CASE ReadBack(l)      BY <1>6 DEF ReadBack
<1>7. CASE Create(l)        BY <1>7, <1>0, <1>i DEF Create, IdentityTypeOK
<1> QED  BY <1>1, <1>2, <1>3, <1>4, <1>5, <1>6, <1>7 DEF WorkStep

LEMMA KeysAreOldStep == IdentityInv /\ [IdentityNext]_identityVars => KeysAreOld'
<1> SUFFICES ASSUME IdentityInv, [IdentityNext]_identityVars PROVE KeysAreOld'  OBVIOUS
<1> USE DEF config, process, load, ghosts
<1>i. IdentityTypeOK /\ RuntimesApart /\ KeysAreOld
  BY DEF IdentityInv
<1>k. /\ Failed \notin KeyIds /\ Nothing \notin KeyIds /\ Legacy \in Dirs
      /\ \A k \in KeyIds : k \in Nat
  BY IdentityAssumption DEF KeyIds
<1>m. made \in Nat
  BY <1>i DEF IdentityTypeOK
<1>1. ASSUME UNCHANGED made,
             \A d \in Dirs : file'[d] = file[d] \/ file'[d] = Nothing,
             \A l \in Loads : key'[l] = key[l] \/ key'[l] \notin KeyIds
      PROVE  KeysAreOld'
  BY <1>1, <1>i, <1>k DEF KeysAreOld
<1>2. ASSUME NEW l \in Loads, NEW a \in Agents, Resolve(l, a) PROVE KeysAreOld'
  BY <1>2, <1>i, <1>1, ResolveFrame
<1>3. ASSUME NEW l \in Loads, WorkStep(l) PROVE KeysAreOld'
  <2>1. \A d \in Dirs : \/ file'[d] \notin KeyIds
                        \/ \E e \in Dirs : file'[d] = file[e]
                        \/ file'[d] = made + 1 /\ made' = made + 1
    BY <1>3, <1>k, FilesChange
  <2>2. made' \in {made, made + 1}
    BY <1>3, FilesChange
  <2>3. \A d \in Dirs : file'[d] \in KeyIds => file'[d] <= made'
    BY <2>1, <2>2, <1>i, <1>k, <1>m DEF KeysAreOld
  <2>4. \A m \in Loads \ {l} : key'[m] = key[m]
    BY <1>3, <1>i, WorkFrame DEF IdentityTypeOK
  <2>5. key'[l] \in KeyIds => key'[l] <= made'
    <3>1. dir[l] \in Dirs
      BY <1>3, <1>i, WorkFrame, WorkingDirs
    <3>2. ASSUME key'[l] \in KeyIds PROVE key'[l] <= made'
      <4>1. CASE file[dir[l]] = key'[l] /\ UNCHANGED made
        BY <4>1, <3>1, <3>2, <1>i DEF KeysAreOld
      <4>2. CASE Create(l) /\ key'[l] = made + 1
        BY <4>2, <1>m DEF Create
      <4> QED  BY <4>1, <4>2, <3>2, <1>3, ReturnedKey
    <3> QED  BY <3>2
  <2> QED  BY <2>2, <2>3, <2>4, <2>5, <1>i, <1>k, <1>m DEF KeysAreOld
<1>5. CASE UNCHANGED identityVars    BY <1>5, <1>1 DEF identityVars
<1>6. CASE StopRuntimes              BY <1>6, <1>1 DEF StopRuntimes
<1>7. CASE Restart
  <2>1. \A l \in Loads : key'[l] = key[l] \/ key'[l] \notin KeyIds
    BY <1>7, <1>k DEF Restart
  <2> QED  BY <2>1, <1>7, <1>1 DEF Restart
<1>8. CASE Reconfigure               BY <1>8, <1>1 DEF Reconfigure
<1>9. ASSUME NEW d \in Dirs, RemoveFile(d) PROVE KeysAreOld'
  BY <1>9, <1>1, <1>i DEF RemoveFile, IdentityTypeOK
<1> QED
  BY <1>2, <1>3, <1>5, <1>6, <1>7, <1>8, <1>9 DEF IdentityNext, LoadStep, WorkStep

\* Two loads of one directory, or of the owner, are in marked directories.
LEMMA Marked ==
    ASSUME IdentityInv, NEW l \in Loads, NEW m \in Loads, l # m,
           stage[l] \in Working, stage[m] \in Working,
           dir[l] = dir[m] \/ agent[l] = agent[m]
    PROVE  dir[l] \in overlapped /\ dir[m] \in overlapped
BY DEF IdentityInv, LoadsApart

LEMMA KeyIsInOneFileStep == IdentityInv /\ [IdentityNext]_identityVars => KeyIsInOneFile'
<1> SUFFICES ASSUME IdentityInv, [IdentityNext]_identityVars PROVE KeyIsInOneFile'  OBVIOUS
<1> USE DEF config, process, load, ghosts
<1>i. /\ IdentityTypeOK /\ RuntimesApart /\ OwnerMigrates /\ KeysAreOld /\ KeyIsInOneFile
      /\ LoadsApart
  BY DEF IdentityInv
<1>k. Nothing \notin KeyIds /\ Legacy \in Dirs /\ \A k \in KeyIds : k \in Nat
  BY IdentityAssumption DEF KeyIds
<1>m. made \in Nat
  BY <1>i DEF IdentityTypeOK
<1>1. ASSUME UNCHANGED dir, \A d \in Dirs : file'[d] = file[d] \/ file'[d] = Nothing,
             overlapped \subseteq overlapped', split => split',
             \A l \in Loads : stage[l] = "unlink" =>
                 stage'[l] = "unlink" \/ split' \/ file'[Legacy] = Nothing
      PROVE  KeyIsInOneFile'
  BY <1>1, <1>i, <1>k DEF KeyIsInOneFile
<1>2. ASSUME NEW l \in Loads, NEW a \in Agents, Resolve(l, a) PROVE KeyIsInOneFile'
  <2>1. \A m \in Loads : stage[m] = "unlink" => stage'[m] = "unlink" /\ dir'[m] = dir[m]
    BY <1>2, <1>i, ResolveFrame
  <2> QED  BY <1>2, <1>i, <2>1, ResolveFrame DEF KeyIsInOneFile
<1>3. ASSUME NEW l \in Loads, WorkStep(l) PROVE KeyIsInOneFile'
  <2>0. UNCHANGED dir /\ (\A m \in Loads \ {l} : stage'[m] = stage[m])
    BY <1>3, <1>i, WorkFrame DEF IdentityTypeOK
  <2>1. CASE Move(l) /\ dir[l] # Legacy /\ UNCHANGED <<overlapped, split>>
             /\ stage[l] = "move" /\ agent[l] = owner /\ dir[l] \in Dirs
             /\ \A d \in Dirs : file'[d] = IF d = dir[l] THEN file[Legacy]
                                           ELSE IF d = Legacy /\ stage'[l] # "unlink" THEN Nothing
                                           ELSE file[d]
    <3>1. \A m \in Loads : stage[m] = "unlink" => m # l /\ dir[m] \in overlapped /\ dir[m] # Legacy
      BY <2>1, <1>i, Marked DEF OwnerMigrates, Working
    <3>2. ASSUME NEW d \in Dirs, NEW e \in Dirs, d # e, file'[d] \in KeyIds, file'[d] = file'[e],
                 ~split, {d, e} \cap (overlapped \ {Legacy}) = {}
          PROVE  Legacy \in {d, e} /\ \E m \in Loads : stage'[m] = "unlink" /\ dir[m] \in {d, e}
      <4>1. \A x, y \in Dirs \ {dir[l]} : x # y /\ {x, y} = {d, e} =>
                Legacy \in {d, e} /\ \E m \in Loads : stage'[m] = "unlink" /\ dir[m] \in {d, e}
        <5> SUFFICES ASSUME d # dir[l], e # dir[l]
                     PROVE  Legacy \in {d, e} /\ \E m \in Loads : stage'[m] = "unlink" /\ dir[m] \in {d, e}
          OBVIOUS
        <5>1. file[d] = file'[d] /\ file[e] = file'[e]
          BY <2>1, <3>2, <1>k
        <5>2. Legacy \in {d, e} /\ \E m \in Loads : stage[m] = "unlink" /\ dir[m] \in {d, e}
          BY <5>1, <3>2, <1>i DEF KeyIsInOneFile
        <5> QED  BY <5>2, <3>1, <2>0
      <4>2. ASSUME NEW x \in Dirs, x # dir[l], {d, e} = {x, dir[l]}
            PROVE  Legacy \in {d, e} /\ \E m \in Loads : stage'[m] = "unlink" /\ dir[m] \in {d, e}
        <5>1. file'[x] = file[Legacy] /\ file[Legacy] \in KeyIds
          BY <4>2, <3>2, <2>1, <1>k
        <5>2. CASE x = Legacy
          BY <5>1, <5>2, <2>1, <4>2, <1>k
        <5>3. CASE x # Legacy
          <6>1. file[x] = file[Legacy]
            BY <5>1, <5>3, <4>2, <2>1
          <6>2. \E m \in Loads : stage[m] = "unlink" /\ dir[m] \in {x, Legacy}
            BY <6>1, <5>1, <5>3, <4>2, <3>2, <1>i, <1>k DEF KeyIsInOneFile
          <6> QED  BY <6>2, <3>1, <3>2, <4>2
        <5> QED  BY <5>2, <5>3
      <4> QED  BY <4>1, <4>2, <3>2, <2>1
    <3> QED  BY <3>2, <2>0, <2>1 DEF KeyIsInOneFile
  <2>2. CASE Create(l) /\ dir[l] \in Dirs /\ UNCHANGED <<overlapped, split>> /\ stage[l] = "create"
             /\ \A d \in Dirs : file'[d] = IF d = dir[l] THEN made + 1 ELSE file[d]
    <3>1. \A d \in Dirs : file[d] \in KeyIds => file[d] # made + 1
      BY <1>i, <1>k, <1>m DEF KeysAreOld
    <3>2. \A d, e \in Dirs : d # e /\ file'[d] \in KeyIds /\ file'[d] = file'[e] =>
              file[d] = file'[d] /\ file[e] = file'[e]
      BY <2>2, <3>1
    <3> QED  BY <3>2, <2>0, <2>2, <1>i DEF KeyIsInOneFile
  <2>3. CASE \A d \in Dirs : file'[d] = IF d = Legacy THEN Nothing ELSE file[d]
    <3>1. overlapped \subseteq overlapped' /\ (split => split')
      BY <1>3, <1>i DEF WorkStep, Load, ReadTarget, ReadLegacy, Move, Unlink, ReadBack, Create
    <3> QED  BY <2>3, <3>1, <2>0, <1>1, <1>k
  <2>4. CASE UNCHANGED file
    <3>1. overlapped \subseteq overlapped' /\ (split => split')
      BY <1>3, <1>i DEF WorkStep, Load, ReadTarget, ReadLegacy, Move, Unlink, ReadBack, Create
    <3>2. stage[l] = "unlink" => split' \/ file'[Legacy] = Nothing
      BY <1>3, <1>i, <1>k DEF WorkStep, Load, ReadTarget, ReadLegacy, Move, Unlink, ReadBack,
         Create, IdentityTypeOK
    <3> QED  BY <2>4, <3>1, <3>2, <2>0, <1>1
  <2> QED  BY <1>3, <2>1, <2>2, <2>3, <2>4, FilesChange
<1>5. CASE UNCHANGED identityVars    BY <1>5, <1>1 DEF identityVars
<1>6. CASE StopRuntimes              BY <1>6, <1>1 DEF StopRuntimes
<1>7. CASE Restart                   BY <1>7, <1>1 DEF Restart
<1>8. CASE Reconfigure               BY <1>8, <1>1 DEF Reconfigure
<1>9. ASSUME NEW d \in Dirs, RemoveFile(d) PROVE KeyIsInOneFile'
  BY <1>9, <1>1, <1>i DEF RemoveFile, IdentityTypeOK
<1> QED
  BY <1>2, <1>3, <1>5, <1>6, <1>7, <1>8, <1>9 DEF IdentityNext, LoadStep, WorkStep

LEMMA SignedKeyStaysStep == IdentityInv /\ [IdentityNext]_identityVars => SignedKeyStays'
<1> SUFFICES ASSUME IdentityInv, [IdentityNext]_identityVars PROVE SignedKeyStays'  OBVIOUS
<1> USE DEF config, process, load, ghosts
<1>i. /\ IdentityTypeOK /\ RuntimesApart /\ KeysAreOld /\ KeyIsInOneFile /\ SignedKeyStays
  BY DEF IdentityInv
<1>k. /\ Failed \notin KeyIds /\ Nothing \notin KeyIds /\ Legacy \in Dirs
      /\ \A k \in KeyIds : k \in Nat
  BY IdentityAssumption DEF KeyIds
<1>m. made \in Nat
  BY <1>i DEF IdentityTypeOK
<1>1. ASSUME UNCHANGED dir, \A d \in Dirs : file'[d] = file[d] \/ file'[d] = Nothing,
             overlapped \subseteq overlapped', split => split',
             \A l \in Loads : key'[l] = key[l] \/ key'[l] \notin KeyIds
      PROVE  SignedKeyStays'
  BY <1>1, <1>i, <1>k DEF SignedKeyStays
<1>2. ASSUME NEW l \in Loads, NEW a \in Agents, Resolve(l, a) PROVE SignedKeyStays'
  BY <1>2, <1>i, ResolveFrame DEF SignedKeyStays
<1>3. ASSUME NEW l \in Loads, WorkStep(l) PROVE SignedKeyStays'
  <2>0. /\ UNCHANGED dir /\ (\A m \in Loads \ {l} : key'[m] = key[m])
        /\ dir[l] \in Dirs /\ stage[l] \in Working \cup {"resolved"} /\ key[l] \notin KeyIds
        /\ overlapped \subseteq overlapped' /\ (split => split')
    <3>1. overlapped \subseteq overlapped' /\ (split => split')
      BY <1>3 DEF WorkStep, Load, ReadTarget, ReadLegacy, Move, Unlink, ReadBack, Create
    <3>2. /\ UNCHANGED dir /\ (\A m \in Loads \ {l} : key'[m] = key[m])
          /\ stage[l] \in Working \cup {"resolved"}
      BY <1>3, <1>i, WorkFrame DEF IdentityTypeOK
    <3> QED  BY <3>1, <3>2, <1>i, WorkingDirs DEF RuntimesApart, Working
  \* The keys that others returned.
  <2>1. ASSUME NEW m \in Loads, m # l, NEW e \in Dirs, e # dir[m],
               key[m] \in KeyIds, file'[e] = key[m], ~split', dir[m] \notin overlapped \cup {Legacy}
        PROVE  e \in overlapped \ {Legacy}
    <3>1. key[m] <= made
      BY <2>1, <1>i DEF KeysAreOld
    <3>2. \A d \in Dirs \ {dir[m]} : file[d] = key[m] => d \in overlapped \ {Legacy}
      BY <2>1, <2>0, <1>i DEF SignedKeyStays
    <3>3. file[e] = key[m] \/ file[Legacy] = key[m]
      BY <1>3, <2>1, <3>1, <1>k, <1>m, FilesChange
    <3>4. file[Legacy] # key[m]
      BY <3>2, <2>1, <1>k
    <3> QED  BY <3>2, <3>3, <3>4, <2>1
  \* The key that this one returns.
  <2>2. ASSUME NEW e \in Dirs, e # dir[l], key'[l] \in KeyIds, file'[e] = key'[l],
               ~split', dir[l] \notin overlapped \cup {Legacy}
        PROVE  e \in overlapped \ {Legacy}
    <3>1. CASE Create(l) /\ key'[l] = made + 1
      <4>1. file[e] = made + 1
        BY <3>1, <2>2, <1>i DEF Create, IdentityTypeOK
      <4> QED  BY <4>1, <3>1, <2>2, <1>i, <1>m DEF KeysAreOld
    <3>2. CASE file[dir[l]] = key'[l] /\ UNCHANGED <<file, made, overlapped, split>>
      <4>1. file[e] = file[dir[l]] /\ file[e] \in KeyIds
        BY <3>2, <2>2
      <4>2. \/ e \in overlapped \ {Legacy}
            \/ e = Legacy /\ \E m \in Loads : stage[m] = "unlink" /\ dir[m] \in {e, dir[l]}
        BY <4>1, <3>2, <2>0, <2>2, <1>i DEF KeyIsInOneFile
      <4>3. ASSUME NEW m \in Loads, stage[m] = "unlink", dir[m] \in {Legacy, dir[l]} PROVE FALSE
        <5>1. dir[m] = dir[l]
          BY <4>3 DEF IdentityInv, OwnerMigrates
        <5>2. stage[l] \in {"read", "readback"}
          BY <1>3, <2>0, <2>2, <3>2, <1>i, <1>k, <4>1
             DEF WorkStep, Load, ReadTarget, ReadLegacy, Move, Unlink, ReadBack, Create, Return,
                 IdentityTypeOK
        <5> QED  BY <5>1, <5>2, <4>3, <2>2, Marked DEF Working
      <4> QED  BY <4>2, <4>3
    <3> QED  BY <3>1, <3>2, <2>2, <1>3, ReturnedKey
  <2> QED  BY <2>0, <2>1, <2>2 DEF SignedKeyStays
<1>5. CASE UNCHANGED identityVars    BY <1>5, <1>1 DEF identityVars
<1>6. CASE StopRuntimes              BY <1>6, <1>1 DEF StopRuntimes
<1>7. CASE Restart
  <2>1. \A l \in Loads : key'[l] = key[l] \/ key'[l] \notin KeyIds
    BY <1>7, <1>k DEF Restart
  <2> QED  BY <2>1, <1>7, <1>1 DEF Restart
<1>8. CASE Reconfigure               BY <1>8, <1>1 DEF Reconfigure
<1>9. ASSUME NEW d \in Dirs, RemoveFile(d) PROVE SignedKeyStays'
  BY <1>9, <1>1, <1>i DEF RemoveFile, IdentityTypeOK
<1> QED
  BY <1>2, <1>3, <1>5, <1>6, <1>7, <1>8, <1>9 DEF IdentityNext, LoadStep, WorkStep

LEMMA AgentsDoNotShareKeysStep ==
    IdentityInv /\ [IdentityNext]_identityVars => AgentsDoNotShareKeys'
<1> SUFFICES ASSUME IdentityInv, [IdentityNext]_identityVars PROVE AgentsDoNotShareKeys'
  OBVIOUS
<1> USE DEF config, process, load, ghosts
<1>i. /\ IdentityTypeOK /\ RuntimesApart /\ KeysAreOld /\ SignedKeyStays /\ AgentsDoNotShareKeys
  BY DEF IdentityInv
<1>k. /\ Failed \notin KeyIds /\ Nothing \notin KeyIds /\ \A k \in KeyIds : k \in Nat
  BY IdentityAssumption DEF KeyIds
<1>m. made \in Nat
  BY <1>i DEF IdentityTypeOK
<1>1. ASSUME UNCHANGED <<agent, dir, born>>, overlapped \subseteq overlapped', split => split',
             \A l \in Loads : key'[l] = key[l] \/ key'[l] \notin KeyIds
      PROVE  AgentsDoNotShareKeys'
  BY <1>1, <1>i DEF AgentsDoNotShareKeys
<1>2. ASSUME NEW l \in Loads, NEW a \in Agents, Resolve(l, a) PROVE AgentsDoNotShareKeys'
  BY <1>2, <1>i, ResolveFrame DEF AgentsDoNotShareKeys
<1>3. ASSUME NEW l \in Loads, WorkStep(l) PROVE AgentsDoNotShareKeys'
  <2>0. /\ UNCHANGED <<agent, dir, born>> /\ (\A m \in Loads \ {l} : key'[m] = key[m])
        /\ stage[l] \in Working \cup {"resolved"}
    BY <1>3, <1>i, WorkFrame DEF IdentityTypeOK
  <2>d. dir[l] \in Dirs /\ agent[l] \in Agents
    BY <2>0, <1>i, WorkingDirs
  <2>g. overlapped \subseteq overlapped' /\ (split => split')
    BY <1>3 DEF WorkStep, Load, ReadTarget, ReadLegacy, Move, Unlink, ReadBack, Create
  <2>1. ASSUME NEW m \in Loads, m # l, agent[m] # agent[l], key'[l] \in KeyIds, key'[l] = key[m],
               ~split, {dir[l], dir[m]} \cap (overlapped \cup {Legacy}) = {}
        PROVE  dir[l] = dir[m] /\ born[l] # born[m]
    <3>1. key[m] <= made /\ agent[m] # Nothing
      BY <2>1, <1>i DEF KeysAreOld, RuntimesApart
    <3>2. file[dir[l]] = key[m]
      BY <2>1, <3>1, <1>3, <1>m, ReturnedKey
    <3>3. dir[l] = dir[m]
      BY <2>1, <2>d, <3>2, <1>i DEF SignedKeyStays
    <3> QED  BY <3>1, <3>3, <2>d, <2>1, <1>i, IdentityAssumption DEF RuntimesApart
  <2>2. ASSUME NEW m \in Loads, NEW n \in Loads, agent[m] # agent[n],
               key'[m] \in KeyIds, key'[m] = key'[n]
        PROVE  \/ dir[m] = dir[n] /\ born[m] # born[n]
               \/ {dir[m], dir[n]} \cap (overlapped' \cup {Legacy}) # {}
               \/ split'
    <3>1. CASE m = l
      BY <3>1, <2>0, <2>1, <2>2, <2>g
    <3>2. CASE n = l
      BY <3>2, <2>0, <2>1, <2>2, <2>g
    <3>3. CASE m # l /\ n # l
      BY <3>3, <2>0, <2>2, <2>g, <1>i DEF AgentsDoNotShareKeys
    <3> QED  BY <3>1, <3>2, <3>3
  <2> QED  BY <2>0, <2>2 DEF AgentsDoNotShareKeys
<1>5. CASE UNCHANGED identityVars    BY <1>5, <1>1 DEF identityVars
<1>6. CASE StopRuntimes              BY <1>6, <1>1 DEF StopRuntimes
<1>7. CASE Restart
  <2>1. \A l \in Loads : key'[l] = key[l] \/ key'[l] \notin KeyIds
    BY <1>7, <1>k DEF Restart
  <2> QED  BY <2>1, <1>7, <1>1 DEF Restart
<1>8. CASE Reconfigure               BY <1>8, <1>1 DEF Reconfigure
<1>9. ASSUME NEW d \in Dirs, RemoveFile(d) PROVE AgentsDoNotShareKeys'
  BY <1>9, <1>1 DEF RemoveFile
<1> QED
  BY <1>2, <1>3, <1>5, <1>6, <1>7, <1>8, <1>9 DEF IdentityNext, LoadStep, WorkStep

\* Every reachable state satisfies the invariant that the properties rest on.
THEOREM IdentityInvariant == IdentitySpec => []IdentityInv
<1>1. IdentityInv /\ [IdentityNext]_identityVars => IdentityInv'
  BY IdentityTypeStep, RuntimesApartStep, LoadsApartStep, OwnerMigratesStep, ReadIsFreshStep,
     KeysAreOldStep, KeyIsInOneFileStep, SignedKeyStaysStep, AgentsDoNotShareKeysStep
     DEF IdentityInv
<1> QED  BY InitIdentity, <1>1, PTL DEF IdentitySpec

\* The variables of the identity files have their types (src/guest-identity.js).
THEOREM IdentityTypeCorrect == IdentitySpec => []IdentityTypeOK
BY IdentityInvariant, PTL DEF IdentityInv

\* For any number of Agents, directories, loads and stops, no two Agents sign with
\* one key, but for the conditions that the property names.
THEOREM IdentityKeysApart == IdentitySpec => []AgentsDoNotShareKeys
BY IdentityInvariant, PTL DEF IdentityInv

\* For any number of them, no load replaces a key file, and a legacy key that goes
\* is in the directory of the Agent it was moved for.
THEOREM IdentityFilesStay == IdentitySpec => IdentityIsNotReplaced
<1> DEFINE Kept(d) ==
        file[d] # Nothing /\ d \notin overlapped \cup removed' =>
           \/ file'[d] = file[d]
           \/ /\ d = Legacy /\ file'[d] = Nothing
              /\ \E e \in Dirs \ {d} : file'[e] = file[d] \/ e \in overlapped \cup removed
<1>1. ASSUME IdentityInv, [IdentityNext]_identityVars, NEW d \in Dirs PROVE Kept(d)
  <2> USE DEF config, process, load, ghosts
  <2>i. IdentityTypeOK /\ RuntimesApart /\ LoadsApart /\ OwnerMigrates /\ ReadIsFresh
    BY <1>1 DEF IdentityInv
  <2>k. Legacy \in Dirs
    BY IdentityAssumption
  <2>1. ASSUME UNCHANGED file PROVE Kept(d)
    BY <2>1
  <2>2. ASSUME NEW l \in Loads, NEW a \in Agents, Resolve(l, a) PROVE Kept(d)
    BY <2>2, <2>i, ResolveFrame
  <2>3. ASSUME NEW l \in Loads, WorkStep(l) PROVE Kept(d)
    <3>0. UNCHANGED removed
      BY <2>3, <2>i, WorkFrame
    <3> SUFFICES ASSUME file[d] # Nothing, d \notin overlapped \cup removed, file'[d] # file[d]
                 PROVE  /\ d = Legacy /\ file'[d] = Nothing
                        /\ \E e \in Dirs \ {d} : file'[e] = file[d] \/ e \in overlapped \cup removed
      BY <3>0
    <3>1. CASE Move(l) /\ dir[l] # Legacy /\ dir[l] \in Dirs /\ stage[l] = "move"
               /\ \A e \in Dirs : file'[e] = IF e = dir[l] THEN file[Legacy]
                                             ELSE IF e = Legacy /\ stage'[l] # "unlink" THEN Nothing
                                             ELSE file[e]
      <4>1. d # dir[l]
        BY <3>1, <2>i DEF ReadIsFresh
      <4> QED  BY <3>1, <4>1
    <3>2. CASE Unlink(l) /\ \A e \in Dirs : file'[e] = IF e = Legacy THEN Nothing ELSE file[e]
      <4>1. /\ stage[l] = "unlink" /\ dir[l] # Legacy /\ dir[l] \in Dirs /\ d = Legacy
        BY <3>2, <2>i, WorkingDirs DEF Unlink, OwnerMigrates, Working
      <4>2. file[dir[l]] = file[Legacy] \/ dir[l] \in overlapped \cup removed
        BY <4>1, <2>i DEF ReadIsFresh
      <4> QED  BY <3>2, <4>1, <4>2
    <3>3. CASE Create(l) /\ dir[l] \in Dirs /\ stage[l] = "create"
               /\ \A e \in Dirs : file'[e] = IF e = dir[l] THEN made + 1 ELSE file[e]
      BY <3>3, <2>i DEF ReadIsFresh
    <3> QED  BY <3>1, <3>2, <3>3, <1>1, <2>3, FilesChange
  <2>4. ASSUME NEW e \in Dirs, RemoveFile(e) PROVE Kept(d)
    BY <2>4, <2>i DEF RemoveFile, IdentityTypeOK
  <2> QED
    BY <1>1, <2>1, <2>2, <2>3, <2>4
       DEF IdentityNext, LoadStep, WorkStep, identityVars, StopRuntimes, Restart, Reconfigure
<1>2. IdentityInv /\ [IdentityNext]_identityVars =>
          [\A d \in Dirs : Kept(d)]_identityVars
  BY <1>1
<1> QED  BY <1>2, IdentityInvariant, PTL DEF IdentitySpec, IdentityIsNotReplaced
=============================================================================

-------------------------- MODULE ConnectorInventory --------------------------
(***************************************************************************)
(* The inventory of the host's tools: refresh, which asks the Gateway for  *)
(* its catalog, observeBeforeToolCall, which marks the inventory stale     *)
(* when a tool is called that it does not list, and clearRuntimeCache      *)
(* (UniversalConnectorInventoryController of                               *)
(* src/universal-connector-engine.js).                                     *)
(*                                                                         *)
(* A catalog is the set of its tools; what the inventory says of each tool *)
(* is a function of it and of the registry.  The host's catalogs are       *)
(* numbered in their order, and a snapshot is the number of its catalog.   *)
(***************************************************************************)
EXTENDS Naturals, Sequences, FiniteSets

CONSTANTS
    Tools,          \* tools that are not of the plugin's own
    Refreshes,      \* calls of refresh that find none to share
    MaxObserved,    \* MAX_OBSERVED_UNLISTED
    MaxClears,      \* bound: gateway_stops
    MaxCatalogs,    \* bound: catalogs of the host
    NoRefresh

ASSUME InventoryAssumption ==
    /\ MaxObserved \in Nat \ {0} /\ MaxClears \in Nat /\ MaxCatalogs \in Nat \ {0}
    /\ IsFiniteSet(Tools) /\ NoRefresh \notin Refreshes

VARIABLES
    catalogs,           \* the catalogs that the host has had
    snapshot,           \* the catalog of the snapshot, 0 for none
    lastError, refreshPromise, observedUnlisted, epoch,
    refreshed, begun, answer,   \* where each refresh is, its epoch, the host's answer
    started,            \* the Gateway runs: gateway_start, then gateway_stop
    unlisted,           \* history: tools called since the last clear while the snapshot
                        \* did not list them, and that no snapshot has listed since
    crowded,            \* history: since the last clear, there were too many of them
    overlapped          \* history: since the last clear, two refreshes were under way at once

refreshes == <<refreshed, begun, answer>>
history == <<unlisted, crowded, overlapped>>
inventoryVars == <<catalogs, snapshot, lastError, refreshPromise, observedUnlisted, epoch,
                   refreshes, started, history>>

Listed == IF snapshot = 0 THEN {} ELSE catalogs[snapshot]

InventoryTypeOK ==
    /\ catalogs \in Seq(SUBSET Tools) /\ Len(catalogs) \in 1..MaxCatalogs
    /\ snapshot \in 0..Len(catalogs)
    /\ lastError \in BOOLEAN
    /\ refreshPromise \in Refreshes \cup {NoRefresh}
    /\ observedUnlisted \subseteq Tools /\ Cardinality(observedUnlisted) <= MaxObserved
    /\ epoch \in 0..MaxClears
    /\ refreshed \in [Refreshes -> {"idle", "asked", "answered", "done"}]
    /\ begun \in [Refreshes -> 0..MaxClears]
    /\ answer \in [Refreshes -> 0..MaxCatalogs]
    /\ started \in BOOLEAN
    /\ unlisted \subseteq Tools /\ crowded \in BOOLEAN /\ overlapped \in BOOLEAN

InventoryInit ==
    /\ \E tools \in SUBSET Tools : catalogs = <<tools>>
    /\ snapshot = 0
    /\ lastError = FALSE
    /\ refreshPromise = NoRefresh
    /\ observedUnlisted = {}
    /\ epoch = 0
    /\ refreshed = [r \in Refreshes |-> "idle"]
    /\ begun = [r \in Refreshes |-> 0]
    /\ answer = [r \in Refreshes |-> 0]
    /\ started = FALSE
    /\ unlisted = {} /\ crowded = FALSE /\ overlapped = FALSE

UnderWay == {r \in Refreshes : refreshed[r] \in {"asked", "answered"} /\ begun[r] = epoch}

\* Mutant of MayRefresh: a refresh begins beside the one under way.
MayAlwaysRefresh == TRUE

MayRefresh == refreshPromise = NoRefresh

\* refresh.  A call that finds a promise shares it and changes nothing.
Refresh(r) ==
    /\ refreshed[r] = "idle"
    /\ MayRefresh
    /\ refreshPromise' = r
    /\ refreshed' = [refreshed EXCEPT ![r] = "asked"]
    /\ begun' = [begun EXCEPT ![r] = epoch]
    /\ overlapped' = (overlapped \/ (refreshPromise = NoRefresh /\ UnderWay # {}))
    /\ UNCHANGED <<catalogs, snapshot, lastError, observedUnlisted, epoch, answer,
                   unlisted, crowded>>

GatewayStart ==
    /\ ~started
    /\ started' = TRUE
    /\ IF MayRefresh
       THEN \E r \in Refreshes : Refresh(r)
       ELSE UNCHANGED <<catalogs, snapshot, lastError, refreshPromise, observedUnlisted,
                        epoch, refreshes, history>>

\* /noderooms coverage and connectors refresh only where there is no snapshot, even
\* when status asks for a refresh.
InspectCoverage(r) ==
    /\ snapshot = 0
    /\ Refresh(r)
    /\ UNCHANGED started

\* The host reads its catalog; the answer is still under way.
HostAnswers(r) ==
    /\ refreshed[r] = "asked"
    /\ refreshed' = [refreshed EXCEPT ![r] = "answered"]
    /\ answer' = [answer EXCEPT ![r] = Len(catalogs)]
    /\ UNCHANGED <<catalogs, snapshot, lastError, refreshPromise, observedUnlisted, epoch,
                   begun, started, history>>

\* The end of refreshInternal and the finally clause of refresh, which does not
\* look whose promise it takes away.
Ends(r) ==
    /\ refreshed' = [refreshed EXCEPT ![r] = "done"]
    /\ refreshPromise' = NoRefresh
    /\ UNCHANGED <<catalogs, epoch, begun, answer, started, crowded, overlapped>>

IsCurrent(r) == begun[r] = epoch

\* Mutant of StillUnlisted: a new snapshot settles all that was observed before it.
SettledAll(r) == {}

StillUnlisted(r) == observedUnlisted \ catalogs[answer[r]]

TakeSnapshot(r) ==
    /\ refreshed[r] = "answered"
    /\ IF IsCurrent(r)
       THEN /\ snapshot' = answer[r]
            /\ lastError' = FALSE
            /\ observedUnlisted' = StillUnlisted(r)
            /\ unlisted' = unlisted \ catalogs[answer[r]]
       ELSE UNCHANGED <<snapshot, lastError, observedUnlisted, unlisted>>
    /\ Ends(r)

\* The request fails, or the catalog is not valid.  The old snapshot stays.
RefreshFails(r) ==
    /\ refreshed[r] \in {"asked", "answered"}
    /\ lastError' = (lastError \/ IsCurrent(r))
    /\ UNCHANGED <<snapshot, observedUnlisted, unlisted>>
    /\ Ends(r)

observeBeforeToolCall(t) ==
    /\ IF t \in Listed
       THEN UNCHANGED <<observedUnlisted, unlisted, crowded>>
       ELSE /\ observedUnlisted' = IF Cardinality(observedUnlisted) < MaxObserved
                                   THEN observedUnlisted \cup {t} ELSE observedUnlisted
            /\ unlisted' = unlisted \cup {t}
            /\ crowded' = (crowded \/ Cardinality(unlisted') > MaxObserved)
    /\ UNCHANGED <<catalogs, snapshot, lastError, refreshPromise, epoch, refreshes, started,
                   overlapped>>

\* clearRuntimeCache at gateway_stop.  A refresh that is under way goes on.
GatewayStop ==
    /\ started
    /\ started' = FALSE
    /\ epoch < MaxClears
    /\ epoch' = epoch + 1
    /\ snapshot' = 0
    /\ lastError' = FALSE
    /\ refreshPromise' = NoRefresh
    /\ observedUnlisted' = {}
    /\ unlisted' = {} /\ crowded' = FALSE /\ overlapped' = FALSE
    /\ UNCHANGED <<catalogs, refreshes>>

\* The host loads, unloads or changes tools.
HostChanges ==
    /\ Len(catalogs) < MaxCatalogs
    /\ \E tools \in SUBSET Tools : catalogs' = Append(catalogs, tools)
    /\ UNCHANGED <<snapshot, lastError, refreshPromise, observedUnlisted, epoch, refreshes,
                   started, history>>

InventoryNext ==
    \/ GatewayStart
    \/ GatewayStop
    \/ HostChanges
    \/ \E r \in Refreshes :
           InspectCoverage(r) \/ HostAnswers(r) \/ TakeSnapshot(r) \/ RefreshFails(r)
    \/ \E t \in Tools : observeBeforeToolCall(t)

InventorySpec == InventoryInit /\ [][InventoryNext]_inventoryVars

-----------------------------------------------------------------------------
(* Properties.                                                             *)

\* What status tells the Owner.
RefreshRequired == snapshot = 0 \/ observedUnlisted # {}

\* "An unknown tool observed later is recorded by name only and marks the
\* inventory stale" (ADR 004A): as long as a tool was called that the inventory did
\* not list, and no inventory since lists it, status asks for a refresh, whatever
\* refreshes end in between.  The set that remembers them is bounded, and a tool
\* that found it full is forgotten.
UnlistedIsFlagged == unlisted # {} => RefreshRequired \/ crowded

\* The inventory follows the host: between two gateway_stops no snapshot is replaced
\* by one of an older catalog, however late an answer comes.  The sharing of
\* refreshPromise is what protects it, and a refresh left over from before a
\* gateway_stop takes the promise of the next away: two are then under way at once.
InventoryMovesForward ==
    [][snapshot' >= snapshot \/ epoch' # epoch \/ overlapped]_inventoryVars
=============================================================================

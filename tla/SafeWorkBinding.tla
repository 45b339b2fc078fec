--------------------------- MODULE SafeWorkBinding ---------------------------
(***************************************************************************)
(* The shadow bindings of safe work items to one managed Task Flow and one *)
(* Workboard card (src/safe-work-runtime-binding.js): prepare, the hooks   *)
(* around the guarded workboard_create call, the Owner's cancel and        *)
(* gateway_stop, over a bounded file.                                      *)
(*                                                                         *)
(* A section under withLock is one step (StoreLock says when that is so).  *)
(* Such a section may not start, may fail to save, or may save and report  *)
(* a failure, as saveStore does when chmod fails after the rename.  What   *)
(* happens between two sections of an operation can be anything that other *)
(* operations do, the eviction of its record included.                     *)
(***************************************************************************)
EXTENDS FiniteSets, Naturals

CONSTANTS
    Items,          \* work items of one Owner; each determines a bindingId
    Prepares,       \* calls of prepare
    ToolCalls,      \* calls of workboard_create
    Cancels,        \* commands /noderooms work cancel
    MaxEntries,
    None

States == {"creating_flow", "prepared", "creating_card", "bound",
           "reconcile_required", "cancelled"}

\* A binding: whether taskFlowId is set, and activeToolCallId.
Binding == [state: States, flow: BOOLEAN, call: ToolCalls \cup {None}]

ASSUME BindingAssumption ==
    /\ MaxEntries \in Nat \ {0}
    /\ IsFiniteSet(Items)
    /\ None \notin Binding \cup ToolCalls
    /\ \A S, T \in {Prepares, ToolCalls, Cancels} : S # T => S \cap T = {}

VARIABLES
    record,         \* the bindings on file
    flow,           \* the Task Flow of the binding, kept by OpenClaw
    card,           \* the call that made the card of the binding
    dispatched,     \* the calls let through to Workboard for the binding
    activeFlows,    \* activeFlowBindings
    activeCalls,    \* activeCardCalls
    pc,             \* where each operation is
    target          \* the work item that each operation is about

external == <<flow, card, dispatched>>
memory == <<activeFlows, activeCalls>>
vars == <<record, flow, card, dispatched, activeFlows, activeCalls, pc, target>>

Operations == Prepares \cup ToolCalls \cup Cancels

Labels == {"idle", "creating", "completing", "calling", "called", "failing",
           "marking", "done"}

OnFile == {i \in Items : record[i] # None}

BindingTypeOK ==
    /\ record \in [Items -> Binding \cup {None}]
    /\ Cardinality(OnFile) <= MaxEntries
    /\ flow \in [Items -> {"none", "waiting", "cancelling"}]
    /\ card \in [Items -> ToolCalls \cup {None}]
    /\ dispatched \in [Items -> SUBSET ToolCalls]
    /\ activeFlows \in SUBSET Items
    /\ activeCalls \in SUBSET ToolCalls
    /\ pc \in [Operations -> Labels]
    /\ target \in [Operations -> Items]

Init ==
    /\ record = [i \in Items |-> None]
    /\ flow = [i \in Items |-> "none"]
    /\ card = [i \in Items |-> None]
    /\ dispatched = [i \in Items |-> {}]
    /\ activeFlows = {}
    /\ activeCalls = {}
    /\ pc = [o \in Operations |-> "idle"]
    /\ target \in [Operations -> Items]

Goto(o, label) == pc' = [pc EXCEPT ![o] = label]

Has(i, state) == record[i] # None /\ record[i].state = state
HasFlow(i) == record[i] # None /\ record[i].flow

\* A locked section that wants to write r: it succeeds and the operation goes on
\* at ok, or there is an error, which may come before or after the rename.
Section(o, r, ok, error) ==
    \/ record' = r /\ Goto(o, ok)
    \/ record' = r /\ Goto(o, error)
    \/ record' = record /\ Goto(o, error)

\* A locked section that ends in an error of its own.
Refused(o, error) == record' = record /\ Goto(o, error)

-----------------------------------------------------------------------------
(* prepare.                                                                *)

\* enforceCapacity looks for what is settled.
Removable == {i \in OnFile : record[i].state \in {"bound", "cancelled"}}

Full == Cardinality(OnFile) >= MaxEntries

\* enforceCapacity lets the oldest of the settled bindings go; the order of
\* updatedAtMs is that of a clock that may be set back, so it can be any of them.
WithRoom ==
    IF ~Full THEN {record}
    ELSE {[record EXCEPT ![i] = None] : i \in Removable}

\* reserve: a binding that is there is returned as it is.
Reserve(q) ==
    LET i == target[q] IN
    /\ pc[q] = "idle"
    /\ \/ /\ record[i] = None
          /\ \E r \in WithRoom :
                Section(q, [r EXCEPT ![i] = [state |-> "creating_flow", flow |-> FALSE,
                                             call |-> None]],
                        "creating", "done")
       \/ Refused(q, "done")
    /\ flow' = IF record'[i] # record[i] THEN [flow EXCEPT ![i] = "none"] ELSE flow
    /\ card' = IF record'[i] # record[i] THEN [card EXCEPT ![i] = None] ELSE card
    /\ dispatched' = IF record'[i] # record[i] THEN [dispatched EXCEPT ![i] = {}] ELSE dispatched
    /\ UNCHANGED <<activeCalls, target>>
    /\ activeFlows' = IF pc'[q] = "creating" THEN activeFlows \cup {i} ELSE activeFlows

\* createManaged creates the flow, or throws before or after it has done so.
CreateFlow(q) ==
    /\ pc[q] = "creating"
    /\ \/ flow' = [flow EXCEPT ![target[q]] = "waiting"] /\ Goto(q, "completing")
       \/ flow' = [flow EXCEPT ![target[q]] = "waiting"] /\ Goto(q, "failing")
       \/ UNCHANGED flow /\ Goto(q, "failing")
    /\ UNCHANGED <<record, card, dispatched, memory, target>>

\* The finally clause of prepare.
PrepareEnds(q) ==
    activeFlows' = IF pc'[q] = "done" THEN activeFlows \ {target[q]} ELSE activeFlows

CompleteFlow(q) ==
    LET i == target[q] IN
    /\ pc[q] = "completing"
    /\ \/ /\ Has(i, "creating_flow")
          /\ Section(q, [record EXCEPT ![i].state = "prepared", ![i].flow = TRUE],
                     "done", "failing")
       \/ ~Has(i, "creating_flow") /\ Refused(q, "failing")
    /\ PrepareEnds(q)
    /\ UNCHANGED <<external, activeCalls, target>>

\* Mutant of Uncertain: what was settled becomes uncertain too.
AlwaysUncertain(b) == [b EXCEPT !.state = "reconcile_required", !.call = None]

\* markUncertain leaves what others have settled meanwhile.
Uncertain(b) ==
    IF b.state \in {"bound", "cancelled"} THEN b
    ELSE [b EXCEPT !.state = "reconcile_required", !.call = None]

MarkUncertain(q) ==
    LET i == target[q] IN
    /\ pc[q] = "failing" /\ q \in Prepares
    /\ \/ record[i] # None /\ Section(q, [record EXCEPT ![i] = Uncertain(@)], "done", "done")
       \/ record[i] = None /\ Refused(q, "done")
    /\ PrepareEnds(q)
    /\ UNCHANGED <<external, activeCalls, target>>

-----------------------------------------------------------------------------
(* The hooks around workboard_create.                                      *)

\* Mutant of Claimable: a create of unknown outcome may be tried again.
ClaimableAgain(i) == Has(i, "prepared") \/ Has(i, "reconcile_required")

Claimable(i) == Has(i, "prepared")

\* beforeToolCall: the call is let through when its claim is on file.  A call
\* with other parameters or from elsewhere is blocked.
BeforeToolCall(t) ==
    LET i == target[t] IN
    /\ pc[t] = "idle"
    /\ \/ /\ Claimable(i)
          /\ Section(t, [record EXCEPT ![i].state = "creating_card", ![i].call = t],
                     "calling", "done")
       \/ Refused(t, "done")
    /\ dispatched' = IF pc'[t] = "calling"
                     THEN [dispatched EXCEPT ![i] = @ \cup {t}] ELSE dispatched
    /\ activeCalls' = IF pc'[t] = "calling" THEN activeCalls \cup {t} ELSE activeCalls
    /\ UNCHANGED <<flow, card, activeFlows, target>>

\* Workboard creates the card, or the call ends without.
CallWorkboard(t) ==
    LET i == target[t] IN
    /\ pc[t] = "calling"
    /\ \/ card' = IF t \in dispatched[i] /\ card[i] = None
                  THEN [card EXCEPT ![i] = t] ELSE card
       \/ UNCHANGED card
    /\ Goto(t, "called")
    /\ UNCHANGED <<record, flow, dispatched, memory, target>>

\* The bindings that a completion under this call id finds.
Claimed(t) == {i \in Items : Has(i, "creating_card") /\ record[i].call = t}

\* Mutant of ShowsCard: a result without an error will do.
ShowsAnything(t) == TRUE

\* The result of the call is the very card that was reserved.
ShowsCard(t) == \E i \in Items : card[i] = t

\* Mutant of CallEnds: there is no finally clause.
CallStays(t) == UNCHANGED activeCalls

\* The finally clause of afterToolCall.
CallEnds(t) ==
    activeCalls' = IF pc'[t] = "done" THEN activeCalls \ {t} ELSE activeCalls

\* afterToolCall: completeCardCreate when the result is as it should be;
\* anything else goes to markToolCallUncertain.
AfterToolCall(t) ==
    /\ pc[t] = "called"
    /\ \/ t \notin activeCalls /\ Refused(t, "done")
       \/ /\ t \in activeCalls /\ ShowsCard(t)
          /\ \/ \E i \in Claimed(t) :
                   Section(t, [record EXCEPT ![i].state = "bound", ![i].call = None],
                           "done", "failing")
             \/ Claimed(t) = {} /\ Refused(t, "done")
       \/ t \in activeCalls /\ Refused(t, "failing")
    /\ CallEnds(t)
    /\ UNCHANGED <<external, activeFlows, target>>

MarkToolCallUncertain(t) ==
    /\ pc[t] = "failing" /\ t \in ToolCalls
    /\ \/ \E i \in Claimed(t) :
             Section(t, [record EXCEPT ![i].state = "reconcile_required", ![i].call = None],
                     "done", "done")
       \/ Claimed(t) = {} /\ Refused(t, "done")
    /\ CallEnds(t)
    /\ UNCHANGED <<external, activeFlows, target>>

-----------------------------------------------------------------------------
(* cancel.                                                                 *)

\* cancel reads the binding without the lock, and asks OpenClaw to cancel its flow.
RequestCancel(x) ==
    LET i == target[x] IN
    /\ pc[x] = "idle"
    /\ \/ /\ HasFlow(i)
          /\ flow' = [flow EXCEPT ![i] = "cancelling"]
          /\ Goto(x, "marking")
       \/ UNCHANGED flow /\ Goto(x, "done")
    /\ UNCHANGED <<record, card, dispatched, memory, target>>

\* markCancelled: validateStoredRecord refuses a binding without a flow.
MarkCancelled(x) ==
    LET i == target[x] IN
    /\ pc[x] = "marking"
    /\ \/ /\ HasFlow(i)
          /\ Section(x, [record EXCEPT ![i].state = "cancelled", ![i].call = None],
                     "done", "done")
       \/ ~HasFlow(i) /\ Refused(x, "done")
    /\ UNCHANGED <<external, memory, target>>

-----------------------------------------------------------------------------

\* gateway_stop clears what is in memory; operations that wait go on.
ClearRuntimeCache ==
    /\ activeFlows' = {} /\ activeCalls' = {}
    /\ UNCHANGED <<record, external, pc, target>>

\* The process ends: operations that had begun are gone with their memory.
Restart ==
    /\ activeFlows' = {} /\ activeCalls' = {}
    /\ pc' = [o \in Operations |-> IF pc[o] = "idle" THEN "idle" ELSE "done"]
    /\ UNCHANGED <<record, external, target>>

PrepareStep(q) == Reserve(q) \/ CreateFlow(q) \/ CompleteFlow(q) \/ MarkUncertain(q)
CallStep(t) ==
    BeforeToolCall(t) \/ CallWorkboard(t) \/ AfterToolCall(t) \/ MarkToolCallUncertain(t)
CancelStep(x) == RequestCancel(x) \/ MarkCancelled(x)

Next ==
    \/ \E q \in Prepares : PrepareStep(q)
    \/ \E t \in ToolCalls : CallStep(t)
    \/ \E x \in Cancels : CancelStep(x)
    \/ ClearRuntimeCache \/ Restart

Spec == Init /\ [][Next]_vars

\* Every call that OpenClaw lets through returns, and a lock is never waited for
\* longer than its retries.
FairSpec ==
    Spec /\ \A q \in Prepares : WF_vars(PrepareStep(q))
         /\ \A t \in ToolCalls : WF_vars(CallStep(t))

-----------------------------------------------------------------------------
(* Properties.                                                             *)

\* "Duplicate or uncertain create is blocked" (claimCardCreate): whatever fails
\* and whoever repeats it, one call at most is let through for a binding.
OneCreatePerBinding == \A i \in Items : Cardinality(dispatched[i]) <= 1

\* A binding says that it is bound only if its own call has made the card.
BoundHasItsCard ==
    \A i \in Items : Has(i, "bound") => card[i] # None /\ card[i] \in dispatched[i]

\* What was let through is not forgotten: create_attempted of the summary is true
\* as long as the binding is on file.
AttemptIsAdmitted ==
    \A i \in OnFile : dispatched[i] # {} =>
        record[i].state \in {"creating_card", "bound", "reconcile_required", "cancelled"}

\* A binding that was settled stays so, until it makes room for another: no late
\* answer and no late error turns a card that is there, or the Owner's cancel,
\* into something uncertain.
SettledStaysSettled ==
    [][\A i \in Items :
         /\ Has(i, "cancelled") => Has(i, "cancelled")' \/ record'[i] = None
         /\ Has(i, "bound") => Has(i, "bound")' \/ Has(i, "cancelled")' \/ record'[i] = None]_vars

\* Room is made only by what is settled (enforceCapacity).
UnresolvedIsKept ==
    [][\A i \in OnFile :
         record'[i] = None => record[i].state \in {"bound", "cancelled"}]_vars

\* publicState
PublicState(i) ==
    IF \/ Has(i, "creating_flow") /\ i \notin activeFlows
       \/ Has(i, "creating_card") /\ record[i].call \notin activeCalls
    THEN "reconcile_required" ELSE record[i].state

\* Where a binding stands for whoever looks at its card from outside.
Phase(b) ==
    IF b = None THEN "absent"
    ELSE CASE b.state \in {"creating_flow", "prepared"} -> "waiting"
           [] b.state \in {"creating_card", "reconcile_required"} -> "uncertain"
           [] b.state = "bound" -> "done"
           [] b.state = "cancelled" -> "closed"

phaseOf == [i \in Items |-> Phase(record[i])]
cards == [i \in Items |-> IF card[i] = None THEN 0 ELSE 1]

Guard == INSTANCE GuardedEffect WITH
            Keys <- Items, Calls <- ToolCalls, Renewed <- Items,
            phase <- phaseOf, passed <- dispatched, effects <- cards, setbacks <- 0

\* The bindings are a gate before the cards: however prepares, hooks, cancels,
\* failures and restarts interleave, at most one create is let through for a binding,
\* only from the prepared state, the binding is bound only if the card is there, and
\* only a bound or cancelled binding is forgotten ("Duplicate or uncertain create is
\* blocked", claimCardCreate).
GuardsItsCard == Guard!AbstractSpec

\* What is shown as being created comes to an end: a creation that failed, also
\* in writing down that it failed, is shown as reconcile_required.
EveryCreationSettles ==
    \A i \in Items :
        (i \in OnFile /\ PublicState(i) \in {"creating_flow", "creating_card"})
            ~> ~(i \in OnFile /\ PublicState(i) \in {"creating_flow", "creating_card"})
=============================================================================

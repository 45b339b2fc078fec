------------------------ MODULE SafeWorkBindingProofs ------------------------
(***************************************************************************)
(* Proofs about SafeWorkBinding for any number of items, operations and    *)
(* entries.                                                                *)
(***************************************************************************)
EXTENDS SafeWorkBinding, FiniteSetTheorems, TLAPS

\* Who is named by a binding, its ghosts and its card.
NamesFit ==
    /\ \A i \in Items : \A t \in dispatched[i] : target[t] = i
    /\ \A i \in Items : card[i] # None => card[i] \in dispatched[i]
    /\ \A i \in Items : record[i] # None /\ record[i].call # None =>
            target[record[i].call] = i

BindingInv ==
    /\ BindingTypeOK /\ NamesFit
    /\ OneCreatePerBinding /\ BoundHasItsCard /\ AttemptIsAdmitted

LEMMA InitBinding == Init => BindingInv
<1> SUFFICES ASSUME Init PROVE BindingInv  OBVIOUS
<1>1. OnFile = {}
  BY DEF Init, OnFile
<1>2. Cardinality(OnFile) = 0 /\ Cardinality({}) = 0
  BY <1>1, FS_EmptySet
<1>3. BindingTypeOK
  BY <1>2, BindingAssumption DEF Init, BindingTypeOK, Labels
<1> QED  BY <1>2, <1>3 DEF Init, BindingInv, NamesFit, OneCreatePerBinding, BoundHasItsCard,
                          AttemptIsAdmitted, Has, OnFile

-----------------------------------------------------------------------------
(* What an operation may write.                                            *)

Admitted == {"creating_card", "bound", "reconcile_required", "cancelled"}

\* The parts of the invariant that speak of the file.
FileInv ==
    /\ record \in [Items -> Binding \cup {None}]
    /\ Cardinality(OnFile) <= MaxEntries
    /\ NamesFit /\ OneCreatePerBinding /\ BoundHasItsCard /\ AttemptIsAdmitted

LEMMA FinitelyMany ==
    ASSUME NEW S \in SUBSET Items PROVE IsFiniteSet(S) /\ Cardinality(S) \in Nat
  BY FS_Subset, FS_CardinalityType, BindingAssumption

\* A step that writes nothing.
LEMMA KeptBinding ==
    ASSUME BindingInv, UNCHANGED <<record, external, target>> PROVE FileInv'
  BY DEF BindingInv, BindingTypeOK, FileInv, NamesFit, OneCreatePerBinding, BoundHasItsCard,
         AttemptIsAdmitted, OnFile, Has, external

\* A step that writes a binding which is on file.
LEMMA WrittenBinding ==
    ASSUME BindingInv, UNCHANGED <<external, target>>,
           NEW i \in OnFile, NEW b \in Binding, record' = [record EXCEPT ![i] = b],
           b.call # None => target[b.call] = i,
           b.state = "bound" => card[i] # None,
           dispatched[i] # {} => b.state \in Admitted
    PROVE  FileInv'
<1>1. record \in [Items -> Binding \cup {None}] /\ i \in Items /\ b # None
  BY BindingAssumption DEF BindingInv, BindingTypeOK, OnFile
<1>2. record' \in [Items -> Binding \cup {None}] /\ OnFile' = OnFile
  BY <1>1 DEF OnFile
<1>3. Cardinality(OnFile') <= MaxEntries
  BY <1>2 DEF BindingInv, BindingTypeOK
<1>4. NamesFit'
  BY <1>1 DEF BindingInv, NamesFit, external
<1>5. OneCreatePerBinding'
  BY DEF BindingInv, OneCreatePerBinding, external
<1>6. BoundHasItsCard'
  BY <1>1 DEF BindingInv, BoundHasItsCard, NamesFit, Has, external
<1>7. AttemptIsAdmitted'
  BY <1>1, <1>2 DEF BindingInv, AttemptIsAdmitted, Admitted, OnFile, external
<1> QED  BY <1>2, <1>3, <1>4, <1>5, <1>6, <1>7 DEF FileInv

\* The rest of the type invariant.
Rest ==
    /\ flow \in [Items -> {"none", "waiting", "cancelling"}]
    /\ card \in [Items -> ToolCalls \cup {None}]
    /\ dispatched \in [Items -> SUBSET ToolCalls]
    /\ activeFlows \in SUBSET Items
    /\ activeCalls \in SUBSET ToolCalls
    /\ pc \in [Operations -> Labels]
    /\ target \in [Operations -> Items]

LEMMA TogetherBinding == FileInv' /\ Rest' => BindingInv'
  BY DEF FileInv, Rest, BindingInv, BindingTypeOK

LEMMA SectionLabels ==
    ASSUME NEW o \in Operations, NEW r, NEW ok \in Labels, NEW error \in Labels,
           BindingInv, Section(o, r, ok, error) \/ Refused(o, error)
    PROVE  pc' \in [Operations -> Labels] /\ (record' = r \/ record' = record)
  BY DEF BindingInv, BindingTypeOK, Section, Refused, Goto

-----------------------------------------------------------------------------
(* Every operation preserves the invariant.                                *)

LEMMA ReserveBinding == ASSUME NEW q \in Prepares PROVE BindingInv /\ Reserve(q) => BindingInv'
<1> SUFFICES ASSUME BindingInv, Reserve(q) PROVE BindingInv'  OBVIOUS
<1> DEFINE i == target[q]
<1> DEFINE new == [state |-> "creating_flow", flow |-> FALSE, call |-> None]
<1>0. q \in Operations /\ i \in Items
  BY DEF Operations, BindingInv, BindingTypeOK
<1>1. new \in Binding /\ new # None
  <2>1. new \in Binding
    BY DEF Binding, States
  <2> QED  BY <2>1, BindingAssumption
<1>2. CASE record[i] = None /\ record' # record
  <2>1. PICK r \in WithRoom : record' = [r EXCEPT ![i] = new]
    BY <1>2 DEF Reserve, Section, Refused
  <2>2. PICK d \in SUBSET (Items \ {i}) :
            /\ r = [j \in Items |-> IF j \in d THEN None ELSE record[j]]
            /\ Cardinality(OnFile \ d) + 1 <= MaxEntries
    <3>1. Cardinality(OnFile) \in Nat /\ IsFiniteSet(OnFile)
      BY FinitelyMany DEF OnFile
    <3>2. CASE ~Full
      <4>1. r = [j \in Items |-> IF j \in {} THEN None ELSE record[j]]
        BY <2>1, <3>2 DEF WithRoom, BindingInv, BindingTypeOK
      <4>2. OnFile \ {} = OnFile
        OBVIOUS
      <4>3. Cardinality(OnFile) + 1 <= MaxEntries /\ MaxEntries \in Nat
        BY <3>1, <3>2, BindingAssumption DEF Full
      <4> QED  BY <4>1, <4>2, <4>3
    <3>3. CASE Full
      <4>1. PICK j \in Removable : r = [record EXCEPT ![j] = None]
        BY <2>1, <3>3 DEF WithRoom
      <4>2. j \in OnFile /\ j \in Items /\ j # i
        BY <1>2 DEF Removable, OnFile
      <4>3. r = [k \in Items |-> IF k \in {j} THEN None ELSE record[k]]
        BY <4>1, <4>2 DEF BindingInv, BindingTypeOK
      <4>4. Cardinality(OnFile \ {j}) = Cardinality(OnFile) - 1
        BY <3>1, <4>2, FS_RemoveElement
      <4>5. Cardinality(OnFile \ {j}) + 1 <= MaxEntries
        BY <3>1, <4>4, BindingAssumption DEF BindingInv, BindingTypeOK
      <4> QED  BY <4>2, <4>3, <4>5
    <3> QED  BY <3>2, <3>3
  <2>3. record' = [j \in Items |-> IF j = i THEN new ELSE IF j \in d THEN None ELSE record[j]]
    BY <2>1, <2>2, <1>0
  <2>4. record' \in [Items -> Binding \cup {None}]
    BY <2>3, <1>1 DEF BindingInv, BindingTypeOK
  <2>5. Cardinality(OnFile') <= MaxEntries
    <3>1. OnFile' = (OnFile \ d) \cup {i} /\ i \notin OnFile \ d
      BY <1>0, <1>1, <1>2, <2>2, <2>3 DEF OnFile
    <3>2. IsFiniteSet(OnFile \ d) /\ Cardinality(OnFile \ d) \in Nat
      BY FinitelyMany DEF OnFile
    <3>3. Cardinality((OnFile \ d) \cup {i}) = Cardinality(OnFile \ d) + 1
      BY <3>1, <3>2, FS_AddElement
    <3> QED  BY <3>1, <3>3, <2>2
  <2>6. record'[i] = new /\ new # record[i]
    BY <1>0, <1>1, <1>2, <2>3
  <2>7. /\ flow' = [flow EXCEPT ![i] = "none"]
        /\ card' = [card EXCEPT ![i] = None]
        /\ dispatched' = [dispatched EXCEPT ![i] = {}]
        /\ target' = target
    BY <2>6 DEF Reserve
  <2>8. NamesFit'
    BY <1>0, <2>3, <2>7 DEF BindingInv, BindingTypeOK, NamesFit
  <2>9. OneCreatePerBinding'
    <3>1. Cardinality({}) = 0  BY FS_EmptySet
    <3> QED  BY <1>0, <3>1, <2>7 DEF BindingInv, BindingTypeOK, OneCreatePerBinding
  <2>10. BoundHasItsCard'
    BY <1>0, <2>3, <2>7 DEF BindingInv, BindingTypeOK, BoundHasItsCard, Has
  <2>11. AttemptIsAdmitted'
    BY <1>0, <2>3, <2>7 DEF BindingInv, BindingTypeOK, AttemptIsAdmitted, OnFile
  <2> HIDE DEF i
  <2>12. pc' \in [Operations -> Labels] /\ activeFlows' \in SUBSET Items
         /\ activeCalls' = activeCalls
    <3>1. pc' \in [Operations -> Labels]
      BY <1>0 DEF Reserve, Section, Refused, Goto, BindingInv, BindingTypeOK, Labels
    <3>2. activeFlows' \in SUBSET Items
      BY <1>0 DEF Reserve, BindingInv, BindingTypeOK, i
    <3> QED  BY <3>1, <3>2 DEF Reserve
  <2>13. Rest'
    BY <1>0, <2>7, <2>12 DEF Rest, BindingInv, BindingTypeOK
  <2> QED  BY <2>4, <2>5, <2>8, <2>9, <2>10, <2>11, <2>13, TogetherBinding DEF FileInv, Rest
<1>3. CASE record' = record
  <2>1. UNCHANGED <<record, external, target>>
    BY <1>3 DEF Reserve, external
  <2>2. pc' \in [Operations -> Labels]
    BY <1>0 DEF Reserve, Section, Refused, Goto, BindingInv, BindingTypeOK, Labels
  <2>3. activeFlows' \in SUBSET Items /\ activeCalls' = activeCalls
    BY <1>0 DEF Reserve, BindingInv, BindingTypeOK
  <2>4. Rest'
    BY <2>1, <2>2, <2>3 DEF Rest, BindingInv, BindingTypeOK, external
  <2> QED  BY <2>1, <2>4, KeptBinding, TogetherBinding
<1>4. record[i] # None => record' = record
  BY DEF Reserve, Refused
<1> QED  BY <1>2, <1>3, <1>4

\* What all operations but reserve and claimCardCreate leave alone is external and
\* target; they write one binding that is on file, or nothing.
LEMMA QuietBinding ==
    ASSUME BindingInv, UNCHANGED <<card, dispatched, target>>, FileInv',
           flow' \in [Items -> {"none", "waiting", "cancelling"}],
           pc' \in [Operations -> Labels],
           activeFlows' \in SUBSET Items, activeCalls' \in SUBSET ToolCalls
    PROVE  BindingInv'
<1>1. Rest'
  BY DEF Rest, BindingInv, BindingTypeOK
<1> QED  BY <1>1, TogetherBinding

LEMMA CreateFlowBinding ==
    ASSUME NEW q \in Prepares PROVE BindingInv /\ CreateFlow(q) => BindingInv'
<1> SUFFICES ASSUME BindingInv, CreateFlow(q) PROVE BindingInv'  OBVIOUS
<1>0. q \in Operations /\ target[q] \in Items
  BY DEF Operations, BindingInv, BindingTypeOK
<1>1. FileInv'
  BY DEF CreateFlow, BindingInv, BindingTypeOK, FileInv, NamesFit, OneCreatePerBinding,
         BoundHasItsCard, AttemptIsAdmitted, OnFile, Has
<1>2. flow' \in [Items -> {"none", "waiting", "cancelling"}]
  BY <1>0 DEF CreateFlow, BindingInv, BindingTypeOK
<1>3. pc' \in [Operations -> Labels]
  BY <1>0 DEF CreateFlow, Goto, Labels, BindingInv, BindingTypeOK
<1>4. UNCHANGED <<card, dispatched, target, activeFlows, activeCalls>>
  BY DEF CreateFlow, memory
<1> QED  BY <1>1, <1>2, <1>3, <1>4, QuietBinding DEF BindingInv, BindingTypeOK

LEMMA CompleteFlowBinding ==
    ASSUME NEW q \in Prepares PROVE BindingInv /\ CompleteFlow(q) => BindingInv'
<1> SUFFICES ASSUME BindingInv, CompleteFlow(q) PROVE BindingInv'  OBVIOUS
<1> DEFINE i == target[q]
<1>0. q \in Operations /\ i \in Items
  BY DEF Operations, BindingInv, BindingTypeOK
<1>1. FileInv'
  <2>1. CASE record' = record
    BY <2>1, KeptBinding DEF CompleteFlow
  <2>2. CASE record' # record
    <3> DEFINE b == [record[i] EXCEPT !.state = "prepared", !.flow = TRUE]
    <3>1. Has(i, "creating_flow") /\ record' = [record EXCEPT ![i] = b]
      BY <2>2 DEF CompleteFlow, Section, Refused
    <3>2. i \in OnFile /\ record[i] \in Binding /\ record[i].state = "creating_flow"
      BY <1>0, <3>1 DEF Has, OnFile, BindingInv, BindingTypeOK
    <3>3. b \in Binding /\ b.state = "prepared" /\ b.call = record[i].call
      BY <3>2 DEF Binding, States
    <3>4. dispatched[i] = {}
      BY <3>2 DEF BindingInv, AttemptIsAdmitted
    <3>5. b.call # None => target[b.call] = i
      BY <1>0, <3>2, <3>3, BindingAssumption DEF BindingInv, NamesFit, OnFile
    <3> HIDE DEF b
    <3> QED  BY <3>1, <3>2, <3>3, <3>4, <3>5, WrittenBinding DEF CompleteFlow
  <2> QED  BY <2>1, <2>2
<1>2. pc' \in [Operations -> Labels]
  BY <1>0 DEF CompleteFlow, Section, Refused, Goto, Labels, BindingInv, BindingTypeOK
<1>3. activeFlows' \in SUBSET Items
  BY <1>0 DEF CompleteFlow, PrepareEnds, BindingInv, BindingTypeOK
<1> QED  BY <1>1, <1>2, <1>3, QuietBinding DEF CompleteFlow, external, BindingInv, BindingTypeOK

LEMMA MarkUncertainBinding ==
    ASSUME NEW q \in Prepares PROVE BindingInv /\ MarkUncertain(q) => BindingInv'
<1> SUFFICES ASSUME BindingInv, MarkUncertain(q) PROVE BindingInv'  OBVIOUS
<1> DEFINE i == target[q]
<1>0. q \in Operations /\ i \in Items
  BY DEF Operations, BindingInv, BindingTypeOK
<1>1. FileInv'
  <2>1. CASE record' = record
    BY <2>1, KeptBinding DEF MarkUncertain
  <2>2. CASE record' # record
    <3> DEFINE b == Uncertain(record[i])
    <3>1. record[i] # None /\ record' = [record EXCEPT ![i] = b]
      BY <2>2 DEF MarkUncertain, Section, Refused
    <3>2. i \in OnFile /\ record[i] \in Binding
      BY <1>0, <3>1 DEF OnFile, BindingInv, BindingTypeOK
    <3>3. /\ b \in Binding
          /\ b = record[i] \/ (b.state = "reconcile_required" /\ b.call = None)
      BY <3>2 DEF Binding, States, Uncertain
    <3>4. b.call # None => target[b.call] = i
      BY <1>0, <3>1, <3>3 DEF BindingInv, NamesFit
    <3>5. b.state = "bound" => card[i] # None
      BY <1>0, <3>1, <3>3 DEF BindingInv, BoundHasItsCard, Has
    <3>6. dispatched[i] # {} => b.state \in Admitted
      BY <1>0, <3>2, <3>3 DEF BindingInv, AttemptIsAdmitted, Admitted
    <3> HIDE DEF b
    <3> QED  BY <3>1, <3>2, <3>3, <3>4, <3>5, <3>6, WrittenBinding DEF MarkUncertain
  <2> QED  BY <2>1, <2>2
<1>2. pc' \in [Operations -> Labels]
  BY <1>0 DEF MarkUncertain, Section, Refused, Goto, Labels, BindingInv, BindingTypeOK
<1>3. activeFlows' \in SUBSET Items
  BY <1>0 DEF MarkUncertain, PrepareEnds, BindingInv, BindingTypeOK
<1> QED  BY <1>1, <1>2, <1>3, QuietBinding DEF MarkUncertain, external, BindingInv, BindingTypeOK

LEMMA BeforeToolCallBinding ==
    ASSUME NEW t \in ToolCalls PROVE BindingInv /\ BeforeToolCall(t) => BindingInv'
<1> SUFFICES ASSUME BindingInv, BeforeToolCall(t) PROVE BindingInv'  OBVIOUS
<1> DEFINE i == target[t]
<1>0. t \in Operations /\ i \in Items /\ t # None
  BY BindingAssumption DEF Operations, BindingInv, BindingTypeOK
<1>1. pc' \in [Operations -> Labels]
  BY <1>0 DEF BeforeToolCall, Section, Refused, Goto, Labels, BindingInv, BindingTypeOK
<1>2. activeCalls' \in SUBSET ToolCalls /\ dispatched' \in [Items -> SUBSET ToolCalls]
  BY <1>0 DEF BeforeToolCall, BindingInv, BindingTypeOK
<1>3. Rest'
  BY <1>1, <1>2 DEF BeforeToolCall, Rest, BindingInv, BindingTypeOK
<1>4. CASE record' = record
  <2>1. dispatched' = dispatched
    <3>1. CASE pc'[t] # "calling"
      BY <3>1 DEF BeforeToolCall
    <3>2. CASE pc'[t] = "calling"
      <4>1. /\ Claimable(i)
            /\ record' = [record EXCEPT ![i].state = "creating_card", ![i].call = t]
        BY <1>0, <3>2 DEF BeforeToolCall, Section, Refused, Goto, BindingInv, BindingTypeOK
      <4>2. record[i] \in Binding /\ record[i].state = "prepared"
        BY <1>0, <4>1 DEF Claimable, Has, BindingInv, BindingTypeOK
      <4>3. record'[i].state = "creating_card"
        BY <1>0, <4>1, <4>2 DEF BindingInv, BindingTypeOK, Binding
      <4> QED  BY <1>4, <4>2, <4>3
    <3> QED  BY <3>1, <3>2
  <2> QED  BY <1>3, <1>4, <2>1, KeptBinding, TogetherBinding DEF BeforeToolCall, external
<1>5. CASE record' # record
  <2> DEFINE b == [record[i] EXCEPT !.state = "creating_card", !.call = t]
  <2>1. Claimable(i) /\ record' = [record EXCEPT ![i] = b]
    BY <1>5 DEF BeforeToolCall, Section, Refused
  <2>2. i \in OnFile /\ record[i] \in Binding /\ record[i].state = "prepared"
    BY <1>0, <2>1 DEF Claimable, Has, OnFile, BindingInv, BindingTypeOK
  <2>3. b \in Binding /\ b.state = "creating_card" /\ b.call = t /\ b # None
    <3>1. b \in Binding
      BY <2>2 DEF Binding, States
    <3> QED  BY <2>2, <3>1, BindingAssumption DEF Binding
  <2>4. dispatched[i] = {}
    BY <2>2 DEF BindingInv, AttemptIsAdmitted
  <2>5. dispatched' = dispatched \/ dispatched' = [dispatched EXCEPT ![i] = {t}]
    BY <2>4 DEF BeforeToolCall
  <2> HIDE DEF b
  <2>6. record' \in [Items -> Binding \cup {None}] /\ OnFile' = OnFile
    BY <1>0, <2>1, <2>2, <2>3 DEF OnFile, BindingInv, BindingTypeOK
  <2>7. NamesFit'
    BY <1>0, <2>1, <2>3, <2>4, <2>5
       DEF BeforeToolCall, BindingInv, BindingTypeOK, NamesFit
  <2>8. OneCreatePerBinding'
    <3>1. Cardinality({t}) = 1  BY FS_Singleton
    <3> QED  BY <1>0, <2>5, <3>1 DEF BindingInv, BindingTypeOK, OneCreatePerBinding
  <2>9. BoundHasItsCard'
    BY <1>0, <2>1, <2>3, <2>4, <2>5 DEF BeforeToolCall, BindingInv, BindingTypeOK,
                                         BoundHasItsCard, Has
  <2>10. AttemptIsAdmitted'
    <3> SUFFICES ASSUME NEW j \in OnFile, dispatched'[j] # {}
                 PROVE  record'[j].state \in Admitted
      BY <2>6 DEF AttemptIsAdmitted, Admitted
    <3>1. j \in Items  BY DEF OnFile
    <3>2. CASE j = i
      BY <1>0, <2>1, <2>3, <3>2 DEF Admitted, BindingInv, BindingTypeOK
    <3>3. CASE j # i
      BY <1>0, <2>1, <2>5, <3>1, <3>3 DEF Admitted, BindingInv, BindingTypeOK, AttemptIsAdmitted
    <3> QED  BY <3>2, <3>3
  <2>11. Cardinality(OnFile') <= MaxEntries
    BY <2>6 DEF BindingInv, BindingTypeOK
  <2> QED  BY <1>3, <2>6, <2>7, <2>8, <2>9, <2>10, <2>11, TogetherBinding DEF FileInv
<1> QED  BY <1>4, <1>5

LEMMA CallWorkboardBinding ==
    ASSUME NEW t \in ToolCalls PROVE BindingInv /\ CallWorkboard(t) => BindingInv'
<1> SUFFICES ASSUME BindingInv, CallWorkboard(t) PROVE BindingInv'  OBVIOUS
<1> DEFINE i == target[t]
<1>0. t \in Operations /\ i \in Items /\ t # None
  BY BindingAssumption DEF Operations, BindingInv, BindingTypeOK
<1>1. UNCHANGED <<record, flow, dispatched, activeFlows, activeCalls, target>>
  BY DEF CallWorkboard, memory
<1>2. card' = card \/ (t \in dispatched[i] /\ card' = [card EXCEPT ![i] = t])
  BY DEF CallWorkboard
<1>3. Rest'
  BY <1>0, <1>1, <1>2 DEF Rest, CallWorkboard, Goto, Labels, BindingInv, BindingTypeOK
<1>4. NamesFit'
  BY <1>0, <1>1, <1>2 DEF BindingInv, BindingTypeOK, NamesFit
<1>5. BoundHasItsCard'
  BY <1>0, <1>1, <1>2 DEF BindingInv, BindingTypeOK, BoundHasItsCard, Has
<1>6. OneCreatePerBinding' /\ AttemptIsAdmitted' /\ OnFile' = OnFile
  BY <1>1 DEF BindingInv, OneCreatePerBinding, AttemptIsAdmitted, OnFile
<1> QED  BY <1>1, <1>3, <1>4, <1>5, <1>6, TogetherBinding DEF FileInv, BindingInv, BindingTypeOK

LEMMA AfterToolCallBinding ==
    ASSUME NEW t \in ToolCalls
    PROVE  BindingInv /\ (AfterToolCall(t) \/ MarkToolCallUncertain(t)) => BindingInv'
<1> SUFFICES ASSUME BindingInv, AfterToolCall(t) \/ MarkToolCallUncertain(t) PROVE BindingInv'
  OBVIOUS
<1>0. t \in Operations /\ t # None
  BY BindingAssumption DEF Operations
<1>1. UNCHANGED <<external, activeFlows, target>> /\ activeCalls' \in SUBSET ToolCalls
  BY DEF AfterToolCall, MarkToolCallUncertain, CallEnds, BindingInv, BindingTypeOK
<1>2. pc' \in [Operations -> Labels]
  <2>1. CASE AfterToolCall(t)
    BY <1>0, <2>1 DEF AfterToolCall, Section, Refused, Goto, Labels, BindingInv, BindingTypeOK
  <2>2. CASE MarkToolCallUncertain(t)
    BY <1>0, <2>2 DEF MarkToolCallUncertain, Section, Refused, Goto, Labels, BindingInv,
                      BindingTypeOK
  <2> QED  BY <2>1, <2>2
<1>3. FileInv'
  <2>1. CASE record' = record
    BY <1>1, <2>1, KeptBinding
  <2>2. CASE record' # record
    <3>1. PICK i \in Claimed(t), s \in {"bound", "reconcile_required"} :
              /\ record' = [record EXCEPT ![i].state = s, ![i].call = None]
              /\ s = "bound" => ShowsCard(t)
      BY <2>2 DEF AfterToolCall, MarkToolCallUncertain, Section, Refused
    <3> DEFINE b == [record[i] EXCEPT !.state = s, !.call = None]
    <3>2. i \in OnFile /\ i \in Items /\ record[i] \in Binding /\ record[i].call = t
      BY <3>1 DEF Claimed, Has, OnFile, BindingInv, BindingTypeOK
    <3>3. b \in Binding /\ b.state = s /\ b.call = None
      BY <3>1, <3>2 DEF Binding, States
    <3>4. s = "bound" => card[i] # None
      <4> SUFFICES ASSUME s = "bound" PROVE card[i] # None  OBVIOUS
      <4>1. PICK j \in Items : card[j] = t
        BY <3>1 DEF ShowsCard
      <4>2. target[t] = j
        BY <1>0, <4>1 DEF BindingInv, NamesFit
      <4>3. target[t] = i
        BY <1>0, <3>2 DEF BindingInv, NamesFit, OnFile
      <4> QED  BY <1>0, <4>1, <4>2, <4>3
    <3>5. record' = [record EXCEPT ![i] = b]
      BY <3>1
    <3> HIDE DEF b
    <3> QED  BY <1>1, <3>2, <3>3, <3>4, <3>5, WrittenBinding DEF Admitted
  <2> QED  BY <2>1, <2>2
<1> QED  BY <1>1, <1>2, <1>3, QuietBinding DEF external, BindingInv, BindingTypeOK

LEMMA CancelBinding ==
    ASSUME NEW x \in Cancels PROVE BindingInv /\ CancelStep(x) => BindingInv'
<1> SUFFICES ASSUME BindingInv, CancelStep(x) PROVE BindingInv'  OBVIOUS
<1> DEFINE i == target[x]
<1>0. x \in Operations /\ i \in Items
  BY DEF Operations, BindingInv, BindingTypeOK
<1>1. UNCHANGED <<card, dispatched, target, activeFlows, activeCalls>>
  BY DEF CancelStep, RequestCancel, MarkCancelled, memory, external
<1>2. flow' \in [Items -> {"none", "waiting", "cancelling"}]
  BY <1>0 DEF CancelStep, RequestCancel, MarkCancelled, external, BindingInv, BindingTypeOK
<1>3. pc' \in [Operations -> Labels]
  BY <1>0 DEF CancelStep, RequestCancel, MarkCancelled, Section, Refused, Goto, Labels,
              BindingInv, BindingTypeOK
<1>4. FileInv'
  <2>1. CASE record' = record
    BY <1>1, <2>1 DEF BindingInv, BindingTypeOK, FileInv, NamesFit, OneCreatePerBinding,
         BoundHasItsCard, AttemptIsAdmitted, OnFile, Has
  <2>2. CASE record' # record
    <3> DEFINE b == [record[i] EXCEPT !.state = "cancelled", !.call = None]
    <3>1. HasFlow(i) /\ record' = [record EXCEPT ![i] = b] /\ UNCHANGED <<external, target>>
      BY <2>2 DEF CancelStep, RequestCancel, MarkCancelled, Section, Refused
    <3>2. i \in OnFile /\ record[i] \in Binding
      BY <1>0, <3>1 DEF HasFlow, OnFile, BindingInv, BindingTypeOK
    <3>3. b \in Binding /\ b.state = "cancelled" /\ b.call = None
      BY <3>2 DEF Binding, States
    <3> HIDE DEF b
    <3> QED  BY <3>1, <3>2, <3>3, WrittenBinding DEF Admitted
  <2> QED  BY <2>1, <2>2
<1> QED  BY <1>1, <1>2, <1>3, <1>4, QuietBinding DEF BindingInv, BindingTypeOK

LEMMA StopBinding == BindingInv /\ (ClearRuntimeCache \/ Restart) => BindingInv'
<1> SUFFICES ASSUME BindingInv, ClearRuntimeCache \/ Restart PROVE BindingInv'  OBVIOUS
<1>1. UNCHANGED <<record, external, target>> /\ activeFlows' = {} /\ activeCalls' = {}
  BY DEF ClearRuntimeCache, Restart
<1>2. pc' \in [Operations -> Labels]
  BY DEF ClearRuntimeCache, Restart, Labels, BindingInv, BindingTypeOK
<1>3. FileInv'
  BY <1>1, KeptBinding
<1> QED  BY <1>1, <1>2, <1>3, QuietBinding DEF external, BindingInv, BindingTypeOK

LEMMA NextBinding == BindingInv /\ [Next]_vars => BindingInv'
<1> SUFFICES ASSUME BindingInv, [Next]_vars PROVE BindingInv'  OBVIOUS
<1>1. CASE UNCHANGED vars
  <2>1. FileInv'
    BY <1>1, KeptBinding DEF vars, external
  <2> QED  BY <1>1, <2>1, QuietBinding DEF vars, BindingInv, BindingTypeOK
<1>2. ASSUME NEW q \in Prepares, PrepareStep(q) PROVE BindingInv'
  BY <1>2, ReserveBinding, CreateFlowBinding, CompleteFlowBinding, MarkUncertainBinding
     DEF PrepareStep
<1>3. ASSUME NEW t \in ToolCalls, CallStep(t) PROVE BindingInv'
  BY <1>3, BeforeToolCallBinding, CallWorkboardBinding, AfterToolCallBinding DEF CallStep
<1> QED  BY <1>1, <1>2, <1>3, CancelBinding, StopBinding DEF Next

\* BindingInv holds in every reachable state.
THEOREM BindingInvariant == Spec => []BindingInv
  BY InitBinding, NextBinding, PTL DEF Spec

\* Type correctness, and never more than MaxEntries bindings on file.
THEOREM BindingTypeCorrect == Spec => []BindingTypeOK
  BY BindingInvariant, PTL DEF BindingInv

\* At most one workboard_create is let through for a binding.
THEOREM BindingCreatesOnce == Spec => []OneCreatePerBinding
  BY BindingInvariant, PTL DEF BindingInv

\* A bound binding has the card that its own call made.
THEOREM BindingIsBoundToItsCard == Spec => []BoundHasItsCard
  BY BindingInvariant, PTL DEF BindingInv

\* A create that was let through is never forgotten while the binding is on file.
THEOREM BindingAdmitsAttempts == Spec => []AttemptIsAdmitted
  BY BindingInvariant, PTL DEF BindingInv

-----------------------------------------------------------------------------
(* What may become of a binding in one step.                               *)

Follows(a, b) ==
    a # None =>
        /\ b = None => a.state \in {"bound", "cancelled"}
        /\ b # None /\ a.state = "bound" => b.state \in {"bound", "cancelled"}
        /\ b # None /\ a.state = "cancelled" => b.state = "cancelled"

LEMMA WrittenFollows ==
    ASSUME BindingInv, NEW i \in Items, NEW b \in Binding, Follows(record[i], b),
           record' = [record EXCEPT ![i] = b]
    PROVE  \A j \in Items : Follows(record[j], record'[j])
  BY DEF Follows, BindingInv, BindingTypeOK

LEMMA NextFollows ==
    BindingInv /\ [Next]_vars => \A j \in Items : Follows(record[j], record'[j])
<1> SUFFICES ASSUME BindingInv, [Next]_vars PROVE \A j \in Items : Follows(record[j], record'[j])
  OBVIOUS
<1> USE DEF BindingInv, BindingTypeOK
<1>1. CASE record' = record
  BY <1>1 DEF Follows
<1>2. ASSUME NEW q \in Prepares, Reserve(q), record' # record
      PROVE  \A j \in Items : Follows(record[j], record'[j])
  <2> DEFINE new == [state |-> "creating_flow", flow |-> FALSE, call |-> None]
  <2>1. PICK r \in WithRoom : record' = [r EXCEPT ![target[q]] = new]
    BY <1>2 DEF Reserve, Section, Refused
  <2>2. record[target[q]] = None /\ target[q] \in Items
    BY <1>2 DEF Reserve, Refused, Operations
  <2>3. new # None
    <3>1. new \in Binding  BY DEF Binding, States
    <3> QED  BY <3>1, BindingAssumption
  <2>4. CASE r = record
    BY <2>1, <2>2, <2>3, <2>4 DEF Follows
  <2>5. CASE \E k \in Removable : r = [record EXCEPT ![k] = None]
    BY <2>1, <2>2, <2>3, <2>5 DEF Follows, Removable, OnFile
  <2> QED  BY <2>1, <2>4, <2>5 DEF WithRoom
<1>3. ASSUME NEW q \in Prepares, CompleteFlow(q) \/ MarkUncertain(q), record' # record
      PROVE  \A j \in Items : Follows(record[j], record'[j])
  <2> DEFINE i == target[q]
  <2>1. i \in Items /\ record[i] \in Binding
    BY <1>3 DEF CompleteFlow, MarkUncertain, Refused, Operations, Has
  <2>2. CASE CompleteFlow(q)
    <3> DEFINE b == [record[i] EXCEPT !.state = "prepared", !.flow = TRUE]
    <3>0. /\ Has(i, "creating_flow")
          /\ record' = [record EXCEPT ![i].state = "prepared", ![i].flow = TRUE]
      BY <1>3, <2>2 DEF CompleteFlow, Section, Refused
    <3>1. Has(i, "creating_flow") /\ record' = [record EXCEPT ![i] = b]
      BY <2>1, <3>0
    <3>2. b \in Binding /\ b # None
      <4>1. b \in Binding  BY <2>1 DEF Binding, States
      <4> QED  BY <4>1, BindingAssumption
    <3>3. Follows(record[i], b)
      BY <3>1, <3>2 DEF Follows, Has
    <3> HIDE DEF b
    <3> QED  BY <2>1, <3>1, <3>2, <3>3, WrittenFollows
  <2>3. CASE MarkUncertain(q)
    <3> DEFINE b == Uncertain(record[i])
    <3>1. record' = [record EXCEPT ![i] = b]
      BY <1>3, <2>3 DEF MarkUncertain, Section, Refused
    <3>2. b \in Binding /\ b # None
      <4>1. b \in Binding  BY <2>1 DEF Binding, States, Uncertain
      <4> QED  BY <4>1, BindingAssumption
    <3>3. Follows(record[i], b)
      BY <3>2 DEF Follows, Uncertain
    <3> HIDE DEF b
    <3> QED  BY <2>1, <3>1, <3>2, <3>3, WrittenFollows
  <2> QED  BY <1>3, <2>2, <2>3
<1>4. ASSUME NEW t \in ToolCalls, CallStep(t), record' # record
      PROVE  \A j \in Items : Follows(record[j], record'[j])
  <2>1. PICK i \in Items, s \in States, c \in ToolCalls \cup {None} :
            /\ record' = [record EXCEPT ![i].state = s, ![i].call = c]
            /\ Has(i, "prepared") \/ Has(i, "creating_card")
    <3>1. CASE BeforeToolCall(t)
      <4>1. target[t] \in Items  BY DEF Operations
      <4> QED  BY <1>4, <3>1, <4>1 DEF BeforeToolCall, Section, Refused, Claimable, States
    <3>2. CASE AfterToolCall(t) \/ MarkToolCallUncertain(t)
      BY <1>4, <3>2 DEF AfterToolCall, MarkToolCallUncertain, Section, Refused, Claimed, States
    <3>3. CASE CallWorkboard(t)
      BY <1>4, <3>3 DEF CallWorkboard
    <3> QED  BY <1>4, <3>1, <3>2, <3>3 DEF CallStep
  <2> DEFINE b == [record[i] EXCEPT !.state = s, !.call = c]
  <2>2. record[i] \in Binding
    BY <2>1 DEF Has
  <2>3. b \in Binding /\ b # None
    <3>1. b \in Binding  BY <2>2 DEF Binding
    <3> QED  BY <3>1, BindingAssumption
  <2>4. Follows(record[i], b) /\ record' = [record EXCEPT ![i] = b]
    BY <2>1, <2>3 DEF Follows, Has
  <2> HIDE DEF b
  <2> QED  BY <2>3, <2>4, WrittenFollows
<1>5. ASSUME NEW x \in Cancels, CancelStep(x), record' # record
      PROVE  \A j \in Items : Follows(record[j], record'[j])
  <2> DEFINE i == target[x]
  <2> DEFINE b == [record[i] EXCEPT !.state = "cancelled", !.call = None]
  <2>1. HasFlow(i) /\ record' = [record EXCEPT ![i] = b] /\ i \in Items
    BY <1>5 DEF CancelStep, RequestCancel, MarkCancelled, Section, Refused, Operations
  <2>2. record[i] \in Binding
    BY <2>1 DEF HasFlow
  <2>3. b \in Binding /\ b # None /\ b.state = "cancelled"
    <3>1. b \in Binding /\ b.state = "cancelled"  BY <2>2 DEF Binding, States
    <3> QED  BY <3>1, BindingAssumption
  <2>4. Follows(record[i], b)
    BY <2>3 DEF Follows
  <2> HIDE DEF b
  <2> QED  BY <2>1, <2>3, <2>4, WrittenFollows
<1>6. ASSUME NEW q \in Prepares, CreateFlow(q) PROVE record' = record
  BY <1>6 DEF CreateFlow
<1> QED  BY <1>1, <1>2, <1>3, <1>4, <1>5, <1>6
         DEF Next, PrepareStep, ClearRuntimeCache, Restart, vars

\* A binding that was settled, by its card or by the Owner's cancel, stays so until
\* it makes room for another.
THEOREM BindingSettlesForGood == Spec => SettledStaysSettled
<1>1. BindingInv /\ [Next]_vars =>
        [\A i \in Items :
            /\ Has(i, "cancelled") => Has(i, "cancelled")' \/ record'[i] = None
            /\ Has(i, "bound") => Has(i, "bound")' \/ Has(i, "cancelled")' \/ record'[i] = None]_vars
  BY NextFollows DEF Follows, Has
<1> QED  BY <1>1, BindingInvariant, PTL DEF Spec, SettledStaysSettled

\* Making room takes nothing that is unresolved.
THEOREM BindingKeepsUnresolved == Spec => UnresolvedIsKept
<1>1. BindingInv /\ [Next]_vars =>
        [\A i \in OnFile : record'[i] = None => record[i].state \in {"bound", "cancelled"}]_vars
  BY NextFollows DEF Follows, OnFile
<1> QED  BY <1>1, BindingInvariant, PTL DEF Spec, UnresolvedIsKept

-----------------------------------------------------------------------------
(* The bindings are a gate before the cards.                               *)

\* The moves of a key that let nothing through and have no effect.
Legal(a, b, n) ==
    \/ a = b
    \/ a = "waiting" /\ b = "uncertain"
    \/ a = "uncertain" /\ b = "done" /\ n = 1
    \/ a # "absent" /\ b = "closed"
    \/ a \in {"done", "closed"} /\ b = "absent"

LEMMA PhaseIsPhase ==
    ASSUME NEW b \in Binding \cup {None} PROVE Phase(b) \in Guard!Phases
  BY DEF Phase, Guard!Phases, Binding, States

\* A key whose calls and card stay as they are.
LEMMA LegalStep ==
    ASSUME NEW i \in Items, Legal(Phase(record[i]), Phase(record'[i]), cards[i]),
           dispatched'[i] = dispatched[i], card'[i] = card[i]
    PROVE  Guard!Step(i)
<1>1. phaseOf[i] = Phase(record[i]) /\ phaseOf'[i] = Phase(record'[i])
  BY DEF phaseOf
<1>2. cards'[i] = cards[i]
  BY DEF cards
<1> QED  BY <1>1, <1>2 DEF Legal, Guard!Step, Guard!Rest, Guard!Doubt, Guard!Settle, Guard!Close,
                          Guard!Forget, Guard!Move, Guard!Kept

LEMMA TogetherGuard ==
    ASSUME BindingInv', \A i \in Items : Guard!Step(i)
    PROVE  Guard!AbstractNext
<1>1. phaseOf' \in [Items -> Guard!Phases]
  BY PhaseIsPhase DEF BindingInv, BindingTypeOK, phaseOf
<1> QED  BY <1>1 DEF Guard!AbstractNext

\* An operation that writes one binding.
LEMMA WrittenStep ==
    ASSUME BindingInv, BindingInv', NEW i \in Items, NEW b,
           record' = record \/ record' = [record EXCEPT ![i] = b],
           Legal(Phase(record[i]), Phase(b), cards[i]),
           UNCHANGED <<dispatched, card>>
    PROVE  Guard!AbstractNext
<1>1. ASSUME NEW j \in Items PROVE Guard!Step(j)
  <2>1. Legal(Phase(record[j]), Phase(record'[j]), cards[j])
    <3>1. record'[j] = record[j] \/ (j = i /\ record'[j] = b)
      BY DEF BindingInv, BindingTypeOK
    <3>2. Legal(Phase(record[j]), Phase(record[j]), cards[j])
      BY DEF Legal
    <3> QED  BY <3>1, <3>2
  <2> QED  BY <2>1, LegalStep
<1> QED  BY <1>1, TogetherGuard

\* A settled binding makes room, and a new one starts without calls and card.
LEMMA ReserveGuard ==
    ASSUME BindingInv, BindingInv', NEW q \in Prepares, Reserve(q) PROVE Guard!AbstractNext
<1> DEFINE i == target[q]
<1> DEFINE new == [state |-> "creating_flow", flow |-> FALSE, call |-> None]
<1>0. i \in Items
  BY DEF Operations, BindingInv, BindingTypeOK
<1>1. CASE record' = record
  <2>1. UNCHANGED <<dispatched, card>>
    BY <1>1 DEF Reserve
  <2> QED  BY <1>0, <1>1, <2>1, WrittenStep DEF Legal
<1>2. CASE record' # record
  <2>1. PICK r \in WithRoom : record' = [r EXCEPT ![i] = new] /\ record[i] = None
    BY <1>2 DEF Reserve, Section, Refused
  <2>2. new # None /\ Phase(new) = "waiting" /\ Phase(record[i]) = "absent"
    <3>1. new \in Binding  BY DEF Binding, States
    <3> QED  BY <2>1, <3>1, BindingAssumption DEF Phase
  <2>3. \A j \in Items \ {i} : record'[j] = record[j] \/ (j \in Removable /\ record'[j] = None)
    BY <1>0, <2>1 DEF WithRoom, BindingInv, BindingTypeOK
  <2>4. record'[i] = new
    BY <1>0, <2>1 DEF WithRoom, BindingInv, BindingTypeOK
  <2> HIDE DEF new
  <2>5. /\ dispatched' = [dispatched EXCEPT ![i] = {}]
        /\ card' = [card EXCEPT ![i] = None]
    BY <2>1, <2>2, <2>4 DEF Reserve
  <2> HIDE DEF i
  <2>6. Guard!Step(i)
    <3>1. phaseOf[i] = "absent" /\ phaseOf'[i] = "waiting"
      BY <1>0, <2>2, <2>4 DEF phaseOf
    <3>2. dispatched'[i] = {} /\ cards'[i] = 0
      BY <1>0, <2>5 DEF cards, BindingInv, BindingTypeOK
    <3> QED  BY <1>0, <3>1, <3>2 DEF Guard!Step, Guard!Register, Guard!Move
  <2>7. ASSUME NEW j \in Items \ {i} PROVE Guard!Step(j)
    <3>1. dispatched'[j] = dispatched[j] /\ card'[j] = card[j]
      BY <2>5 DEF BindingInv, BindingTypeOK
    <3>2. Legal(Phase(record[j]), Phase(record'[j]), cards[j])
      <4>1. CASE record'[j] = record[j]
        BY <4>1 DEF Legal
      <4>2. CASE j \in Removable /\ record'[j] = None
        BY <4>2 DEF Legal, Phase, Removable, OnFile
      <4> QED  BY <2>3, <4>1, <4>2
    <3> QED  BY <3>1, <3>2, LegalStep
  <2> QED  BY <2>6, <2>7, TogetherGuard
<1> QED  BY <1>1, <1>2

LEMMA PrepareGuard ==
    ASSUME BindingInv, BindingInv', NEW q \in Prepares, PrepareStep(q)
    PROVE  Guard!AbstractNext
<1> DEFINE i == target[q]
<1>0. i \in Items
  BY DEF Operations, BindingInv, BindingTypeOK
<1>1. CASE CreateFlow(q)
  <2>1. UNCHANGED <<record, dispatched, card>>
    BY <1>1 DEF CreateFlow
  <2> QED  BY <1>0, <2>1, WrittenStep DEF Legal
<1>2. CASE CompleteFlow(q)
  <2> DEFINE b == [record[i] EXCEPT !.state = "prepared", !.flow = TRUE]
  <2>1. /\ record' = record \/ (Has(i, "creating_flow") /\ record' = [record EXCEPT ![i] = b])
        /\ UNCHANGED <<dispatched, card>>
    BY <1>2 DEF CompleteFlow, Section, Refused, external
  <2>2. Has(i, "creating_flow") => Legal(Phase(record[i]), Phase(b), cards[i])
    <3> SUFFICES ASSUME Has(i, "creating_flow") PROVE Phase(b) = "waiting" /\ Phase(record[i]) = "waiting"
      BY DEF Legal
    <3>1. record[i] \in Binding /\ record[i] # None
      BY <1>0 DEF Has, BindingInv, BindingTypeOK
    <3>2. b \in Binding /\ b.state = "prepared"
      BY <3>1 DEF Binding, States
    <3> QED  BY <3>1, <3>2, BindingAssumption DEF Phase, Has
  <2>3. Legal(Phase(record[i]), Phase(record[i]), cards[i])
    BY DEF Legal
  <2> HIDE DEF b, i
  <2> QED  BY <1>0, <2>1, <2>2, <2>3, WrittenStep
<1>3. CASE MarkUncertain(q)
  <2> DEFINE b == Uncertain(record[i])
  <2>1. /\ record' = record \/ (record[i] # None /\ record' = [record EXCEPT ![i] = b])
        /\ UNCHANGED <<dispatched, card>>
    BY <1>3 DEF MarkUncertain, Section, Refused, external
  <2>2. record[i] # None => Legal(Phase(record[i]), Phase(b), cards[i])
    <3> SUFFICES ASSUME record[i] # None, b # record[i]
                 PROVE Phase(b) = "uncertain" /\ Phase(record[i]) \in {"waiting", "uncertain"}
      BY DEF Legal
    <3>1. record[i] \in Binding
      BY <1>0 DEF BindingInv, BindingTypeOK
    <3>2. b \in Binding /\ b.state = "reconcile_required"
      BY <3>1 DEF Binding, States, Uncertain
    <3>3. record[i].state \in States \ {"bound", "cancelled"}
      BY <3>1 DEF Binding, Uncertain
    <3> QED  BY <3>1, <3>2, <3>3, BindingAssumption DEF Phase, States
  <2>3. Legal(Phase(record[i]), Phase(record[i]), cards[i])
    BY DEF Legal
  <2> HIDE DEF b, i
  <2> QED  BY <1>0, <2>1, <2>2, <2>3, WrittenStep
<1> QED  BY <1>1, <1>2, <1>3, ReserveGuard DEF PrepareStep

\* The call is let through in the step that writes its claim.
LEMMA BeforeToolCallGuard ==
    ASSUME BindingInv, BindingInv', NEW t \in ToolCalls, BeforeToolCall(t)
    PROVE  Guard!AbstractNext
<1> DEFINE i == target[t]
<1> DEFINE b == [record[i] EXCEPT !.state = "creating_card", !.call = t]
<1>0. t \in Operations /\ i \in Items
  BY DEF Operations, BindingInv, BindingTypeOK
<1>1. CASE pc'[t] # "calling"
  <2>1. UNCHANGED <<dispatched, card>>
    BY <1>1 DEF BeforeToolCall
  <2>2. record' = record \/ (Claimable(i) /\ record' = [record EXCEPT ![i] = b])
    BY DEF BeforeToolCall, Section, Refused
  <2>3. Claimable(i) => Phase(record[i]) = "waiting" /\ Phase(b) = "uncertain"
    <3> SUFFICES ASSUME Claimable(i)
                 PROVE  Phase(record[i]) = "waiting" /\ Phase(b) = "uncertain"  OBVIOUS
    <3>1. record[i] \in Binding /\ record[i] # None /\ record[i].state = "prepared"
      BY <1>0 DEF Claimable, Has, BindingInv, BindingTypeOK
    <3>2. b \in Binding /\ b.state = "creating_card"
      BY <3>1 DEF Binding, States
    <3> QED  BY <3>1, <3>2, BindingAssumption DEF Phase
  <2>4. Legal(Phase(record[i]), Phase(record[i]), cards[i])
    BY DEF Legal
  <2>5. Claimable(i) => Legal(Phase(record[i]), Phase(b), cards[i])
    BY <2>3 DEF Legal
  <2> HIDE DEF b, i
  <2> QED  BY <1>0, <2>1, <2>2, <2>4, <2>5, WrittenStep
<1>2. CASE pc'[t] = "calling"
  <2>1. /\ Claimable(i)
        /\ record' = [record EXCEPT ![i] = b]
        /\ dispatched' = [dispatched EXCEPT ![i] = @ \cup {t}]
        /\ card' = card
    <3>1. "done" # "calling"  OBVIOUS
    <3>2. pc \in [Operations -> Labels]
      BY DEF BindingInv, BindingTypeOK
    <3>3. ~Goto(t, "done")
      BY <1>0, <1>2, <3>2 DEF Goto
    <3> QED  BY <1>2, <3>3 DEF BeforeToolCall, Section, Refused
  <2>2. record[i] \in Binding /\ record[i] # None /\ record[i].state = "prepared"
    BY <1>0, <2>1 DEF Claimable, Has, BindingInv, BindingTypeOK
  <2>3. b \in Binding /\ b.state = "creating_card"
    BY <2>2 DEF Binding, States
  <2>4. Phase(record[i]) = "waiting" /\ Phase(b) = "uncertain"
    BY <2>2, <2>3, BindingAssumption DEF Phase
  <2>5. dispatched[i] = {}
    BY <1>0, <2>2 DEF BindingInv, AttemptIsAdmitted, OnFile
  <2> HIDE DEF b, i
  <2>6. Guard!Step(i)
    <3>1. phaseOf[i] = "waiting" /\ phaseOf'[i] = "uncertain"
      BY <1>0, <2>1, <2>4 DEF phaseOf, BindingInv, BindingTypeOK
    <3>2. dispatched'[i] = {t} /\ cards'[i] = cards[i]
      BY <1>0, <2>1, <2>5 DEF cards, BindingInv, BindingTypeOK
    <3> QED  BY <1>0, <2>5, <3>1, <3>2 DEF Guard!Step, Guard!Pass, Guard!Move
  <2>7. ASSUME NEW j \in Items \ {i} PROVE Guard!Step(j)
    <3>1. dispatched'[j] = dispatched[j] /\ card'[j] = card[j] /\ record'[j] = record[j]
      BY <2>1 DEF BindingInv, BindingTypeOK
    <3> QED  BY <3>1, LegalStep DEF Legal
  <2> QED  BY <2>6, <2>7, TogetherGuard
<1> QED  BY <1>1, <1>2

\* A card is made for a binding that let its call through and has none.
LEMMA CallWorkboardGuard ==
    ASSUME BindingInv, BindingInv', NEW t \in ToolCalls, CallWorkboard(t)
    PROVE  Guard!AbstractNext
<1> DEFINE i == target[t]
<1>0. i \in Items /\ t # None
  BY BindingAssumption DEF Operations, BindingInv, BindingTypeOK
<1>1. UNCHANGED <<record, dispatched>>
  BY DEF CallWorkboard
<1>2. CASE card' = card
  BY <1>0, <1>1, <1>2, WrittenStep DEF Legal
<1>3. CASE card' # card
  <2>1. t \in dispatched[i] /\ card[i] = None /\ card' = [card EXCEPT ![i] = t]
    BY <1>3 DEF CallWorkboard
  <2>2. Guard!Step(i)
    <3>1. cards[i] = 0 /\ cards'[i] = 1 /\ phaseOf'[i] = phaseOf[i]
      BY <1>0, <1>1, <2>1 DEF cards, phaseOf, BindingInv, BindingTypeOK
    <3> QED  BY <1>1, <2>1, <3>1 DEF Guard!Step, Guard!Happen
  <2>3. ASSUME NEW j \in Items \ {i} PROVE Guard!Step(j)
    <3>1. dispatched'[j] = dispatched[j] /\ card'[j] = card[j] /\ record'[j] = record[j]
      BY <1>1, <2>1 DEF BindingInv, BindingTypeOK
    <3> QED  BY <3>1, LegalStep DEF Legal
  <2> QED  BY <2>2, <2>3, TogetherGuard
<1> QED  BY <1>2, <1>3

\* A binding is bound because of the card that its own call made.
LEMMA AfterToolCallGuard ==
    ASSUME BindingInv, BindingInv', NEW t \in ToolCalls,
           AfterToolCall(t) \/ MarkToolCallUncertain(t)
    PROVE  Guard!AbstractNext
<1>1. UNCHANGED <<dispatched, card, external>>
  BY DEF AfterToolCall, MarkToolCallUncertain, external
<1>2. CASE record' = record
  <2> SUFFICES ASSUME NEW j \in Items PROVE Guard!Step(j)  BY TogetherGuard
  <2> QED  BY <1>1, <1>2, LegalStep DEF Legal
<1>3. CASE record' # record
  <2>1. PICK i \in Claimed(t), s \in {"bound", "reconcile_required"} :
            record' = [record EXCEPT ![i].state = s, ![i].call = None]
    BY <1>3 DEF AfterToolCall, MarkToolCallUncertain, Section, Refused
  <2> DEFINE b == [record[i] EXCEPT !.state = s, !.call = None]
  <2>2. i \in Items /\ record[i] \in Binding /\ record[i] # None /\ record[i].state = "creating_card"
    BY <2>1 DEF Claimed, Has, BindingInv, BindingTypeOK
  <2>3. b \in Binding /\ b.state = s /\ record' = [record EXCEPT ![i] = b]
    BY <2>1, <2>2 DEF Binding, States
  <2>4. b # None
    BY <2>3, BindingAssumption
  <2>5. s = "bound" => cards[i] = 1
    <3> SUFFICES ASSUME s = "bound" PROVE cards[i] = 1  OBVIOUS
    <3>1. record'[i] = b
      BY <2>2, <2>3 DEF BindingInv, BindingTypeOK
    <3>2. card'[i] # None
      BY <2>2, <2>3, <2>4, <3>1 DEF BindingInv, BoundHasItsCard, Has
    <3> QED  BY <1>1, <2>2, <3>2 DEF cards
  <2>6. /\ Phase(record[i]) = "uncertain"
        /\ Phase(b) = IF s = "bound" THEN "done" ELSE "uncertain"
    BY <2>2, <2>3, <2>4 DEF Phase
  <2>7. Legal(Phase(record[i]), Phase(b), cards[i])
    BY <2>5, <2>6 DEF Legal
  <2> HIDE DEF b
  <2> QED  BY <1>1, <2>2, <2>3, <2>7, WrittenStep
<1> QED  BY <1>2, <1>3

LEMMA CancelGuard ==
    ASSUME BindingInv, BindingInv', NEW x \in Cancels, CancelStep(x)
    PROVE  Guard!AbstractNext
<1> DEFINE i == target[x]
<1> DEFINE b == [record[i] EXCEPT !.state = "cancelled", !.call = None]
<1>0. i \in Items
  BY DEF Operations, BindingInv, BindingTypeOK
<1>1. /\ record' = record \/ (HasFlow(i) /\ record' = [record EXCEPT ![i] = b])
      /\ UNCHANGED <<dispatched, card>>
  BY DEF CancelStep, RequestCancel, MarkCancelled, Section, Refused, external
<1>2. HasFlow(i) => Legal(Phase(record[i]), Phase(b), cards[i])
  <2> SUFFICES ASSUME HasFlow(i) PROVE Phase(record[i]) # "absent" /\ Phase(b) = "closed"
    BY DEF Legal
  <2>1. record[i] \in Binding /\ record[i] # None
    BY <1>0 DEF HasFlow, BindingInv, BindingTypeOK
  <2>2. b \in Binding /\ b.state = "cancelled"
    BY <2>1 DEF Binding, States
  <2> QED  BY <2>1, <2>2, BindingAssumption DEF Phase, Binding, States
<1>3. Legal(Phase(record[i]), Phase(record[i]), cards[i])
  BY DEF Legal
<1> HIDE DEF b, i
<1> QED  BY <1>0, <1>1, <1>2, <1>3, WrittenStep

\* Every step of the bindings is a step of the gate, or leaves it alone.
LEMMA NextGuard ==
    ASSUME BindingInv, BindingInv', [Next]_vars PROVE Guard!AbstractNext
<1>1. ASSUME UNCHANGED <<record, dispatched, card>> PROVE Guard!AbstractNext
  <2> SUFFICES ASSUME NEW j \in Items PROVE Guard!Step(j)  BY TogetherGuard
  <2> QED  BY <1>1, LegalStep DEF Legal
<1>2. CASE UNCHANGED vars
  BY <1>1, <1>2 DEF vars
<1>3. CASE ClearRuntimeCache \/ Restart
  BY <1>1, <1>3 DEF ClearRuntimeCache, Restart, external
<1>4. ASSUME NEW t \in ToolCalls, CallStep(t) PROVE Guard!AbstractNext
  BY <1>4, BeforeToolCallGuard, CallWorkboardGuard, AfterToolCallGuard DEF CallStep
<1> QED  BY <1>2, <1>3, <1>4, PrepareGuard, CancelGuard DEF Next

\* safe-work-runtime-binding.js implements the gate: at most one create is let through
\* for a binding and only from the prepared state, bound is said only of a card that is
\* there, and only what is bound or cancelled is forgotten.
THEOREM BindingGuardsItsCard == Spec => GuardsItsCard
<1>1. Init => Guard!AbstractInit
  BY DEF Init, Guard!AbstractInit, phaseOf, cards, Phase
<1>2. BindingInv /\ BindingInv' /\ [Next]_vars
        => [Guard!AbstractNext]_<<phaseOf, dispatched, cards, 0>>
  BY NextGuard
<1> QED  BY <1>1, <1>2, BindingInvariant, PTL
         DEF Spec, GuardsItsCard, Guard!AbstractSpec, Guard!abstractVars

\* What the gate promises is enough: from it alone follow the two properties by which
\* the bindings are usually described.
THEOREM GateMeansOneCreate == GuardsItsCard => []OneCreatePerBinding
<1> DEFINE One == \A i \in Items : dispatched[i] = {} \/ \E c \in ToolCalls : dispatched[i] = {c}
<1>1. Guard!AbstractInit => One
  BY DEF Guard!AbstractInit
<1>2. One /\ [Guard!AbstractNext]_<<phaseOf, dispatched, cards, 0>> => One'
  <2> SUFFICES ASSUME One, [Guard!AbstractNext]_<<phaseOf, dispatched, cards, 0>>,
                      NEW i \in Items
               PROVE  dispatched'[i] = {} \/ \E c \in ToolCalls : dispatched'[i] = {c}
    OBVIOUS
  <2>1. CASE dispatched'[i] = dispatched[i]
    BY <2>1
  <2>2. CASE Guard!Step(i)
    BY <2>2 DEF Guard!Step, Guard!Register, Guard!Pass, Guard!Doubt, Guard!Happen, Guard!Settle,
                Guard!Close, Guard!Forget, Guard!Rest, Guard!Kept
  <2>3. CASE Guard!Mistake(i)
    BY <2>3 DEF Guard!Mistake, Guard!Kept
  <2> QED  BY <2>1, <2>2, <2>3 DEF Guard!AbstractNext
<1>3. One => OneCreatePerBinding
  <2>1. Cardinality({}) = 0 /\ \A c \in ToolCalls : Cardinality({c}) = 1
    BY FS_EmptySet, FS_Singleton
  <2> QED  BY <2>1 DEF OneCreatePerBinding
<1> QED  BY <1>1, <1>2, <1>3, PTL DEF GuardsItsCard, Guard!AbstractSpec, Guard!abstractVars

THEOREM GateMeansUnresolvedIsKept == GuardsItsCard /\ []BindingTypeOK => UnresolvedIsKept
<1>1. BindingTypeOK /\ BindingTypeOK' /\ [Guard!AbstractNext]_<<phaseOf, dispatched, cards, 0>>
        => [\A i \in OnFile : record'[i] = None => record[i].state \in {"bound", "cancelled"}]_vars
  <2> SUFFICES ASSUME BindingTypeOK, [Guard!AbstractNext]_<<phaseOf, dispatched, cards, 0>>,
                      NEW i \in OnFile, record'[i] = None
               PROVE  record[i].state \in {"bound", "cancelled"}
    OBVIOUS
  <2>1. i \in Items /\ record[i] \in Binding /\ record[i] # None /\ record[i].state \in States
    BY DEF OnFile, BindingTypeOK, Binding
  <2>2. phaseOf'[i] = "absent" /\ phaseOf[i] = Phase(record[i])
    BY <2>1 DEF phaseOf, Phase
  <2>3. phaseOf[i] # "absent"
    BY <2>1, <2>2 DEF Phase, States
  <2>4. Guard!Step(i)
    BY <2>1, <2>2, <2>3 DEF Guard!AbstractNext
  <2>5. Phase(record[i]) \in {"done", "closed"}
    BY <2>2, <2>3, <2>4 DEF Guard!Step, Guard!Register, Guard!Pass, Guard!Doubt, Guard!Happen,
         Guard!Settle, Guard!Close, Guard!Forget, Guard!Rest, Guard!Move
  <2> QED  BY <2>1, <2>5 DEF Phase, States
<1> QED  BY <1>1, PTL DEF GuardsItsCard, Guard!AbstractSpec, Guard!abstractVars, UnresolvedIsKept
=============================================================================

---------------------- MODULE IdempotencyGatewayProofs ----------------------
(***************************************************************************)
(* Proofs about IdempotencyGateway, for any number of requests, keys and   *)
(* payloads and any thresholds: its safety, that a key is claimed again    *)
(* only after its record was retained in full, and that the gateway        *)
(* implements AtMostOnceAction, every step of a request, of the cleanup    *)
(* hook or of time being a step of the promise or a stutter.               *)
(***************************************************************************)
EXTENDS IdempotencyGateway, TLAPS

\* Ages stay natural numbers.
LEMMA OlderIsNat == ASSUME NEW n \in Nat PROVE Older(n) \in Nat
BY ThresholdAssumption DEF Older

\* Storing a state in a row leaves a row.
LEMMA StampIsRow ==
    ASSUME NEW row \in Row, NEW s \in RowStates
    PROVE  /\ Stamp(row, s) \in Row
           /\ Stamp(row, s).id = row.id
           /\ Stamp(row, s).fp = row.fp
           /\ Stamp(row, s).state = s
           /\ Stamp(row, s).dispatched = row.dispatched
           /\ Stamp(row, s).age = 0
BY DEF Stamp, Row

\* Sealing leaves rows rows, and does not touch their identity.
LEMMA SealedRow ==
    ASSUME NEW k \in Keys, table[k] \in Row \cup {NoRow}
    PROVE  /\ Sealed(k) \in Row \cup {NoRow}
           /\ Sealed(k) = NoRow <=> ~Present(k)
           /\ Present(k) => /\ Sealed(k).id = table[k].id
                            /\ Sealed(k).fp = table[k].fp
                            /\ Sealed(k).dispatched = table[k].dispatched
                            /\ \/ Sealed(k) = table[k]
                               \/ /\ Expired(table[k])
                                  /\ Sealed(k).state = "failed"
                                  /\ Sealed(k).age = 0
                               \/ /\ Stale(table[k])
                                  /\ Sealed(k).state = "unknown"
                                  /\ Sealed(k).age = 0
<1>1. CASE ~Present(k)
  BY <1>1 DEF Sealed, Present
<1>2. CASE Present(k)
  <2>1. table[k] \in Row
    BY <1>2 DEF Present
  <2>2. /\ Stamp(table[k], "failed") \in Row
        /\ Stamp(table[k], "unknown") \in Row
    BY <2>1, StampIsRow DEF RowStates
  <2> QED
    BY <1>2, <2>1, <2>2, StampIsRow, NoRowAssumption DEF Sealed, Present, RowStates
<1> QED
  BY <1>1, <1>2

\* A sealing UPDATE may fail, and leaves a row as it is then.
LEMMA SealedInCases ==
    ASSUME NEW k \in Keys, NEW states
    PROVE  SealedIn(states, k) = Sealed(k) \/ SealedIn(states, k) = table[k]
BY DEF SealedIn

\* A request's own variables keep their types when it answers.
LEMMA AnswerType ==
    ASSUME GatewayTypeOK, NEW r \in Requests, NEW a \in Answers, Answer(r, a)
    PROVE  /\ pc' \in [Requests -> Labels]
           /\ want' \in [Requests -> Wants]
           /\ outcome' \in [Requests -> Outcomes]
           /\ answer' \in [Requests -> Answers]
           /\ effect' \in [Requests -> BOOLEAN]
           /\ quiet' \in [Keys -> Nat]
BY DEF GatewayTypeOK, Answer, Goto, Labels

LEMMA ActionStatusIsAnswer ==
    ASSUME NEW row \in Row PROVE ActionStatus(row) \in Answers
BY DEF Row, RowStates, ActionStatus, Answers

LEMMA InitType == Init => GatewayTypeOK
BY ThresholdAssumption
   DEF Init, GatewayTypeOK, Labels, Outcomes, Answers

LEMMA StepType ==
    ASSUME GatewayTypeOK, NEW r \in Requests, Arrive(r) \/ Step(r) \/ Die(r)
    PROVE  GatewayTypeOK'
<1> USE DEF GatewayTypeOK
<1>k. Key(r) \in Keys
  BY DEF Key, Wants
<1>1. CASE Arrive(r)
  BY <1>1, AnswerType DEF Arrive, Goto, Labels, Answers, local
<1>2. CASE SealOnEntry(r) \/ SealAfterLostClaim(r)
  <2>1. table' \in [Keys -> Row \cup {NoRow}]
    BY <1>2, SealedRow, SealedInCases
       DEF SealOnEntry, SealAfterLostClaim, SealStaleRecords
  <2> QED
    BY <1>2, <2>1 DEF SealOnEntry, SealAfterLostClaim, Goto, Labels, local
<1>3. CASE Reserve(r)
  <2>1. [id |-> r, fp |-> want[r].fp, state |-> "reserved",
         dispatched |-> 0, age |-> 0, life |-> 0] \in Row
    BY DEF Row, RowStates, Wants
  <2> QED
    BY <1>3, <1>k, <2>1, AnswerType DEF Reserve, Goto, Labels, local, Answers
<1>4. CASE ReadReservation(r)
  <2>1. Present(Key(r)) => table[Key(r)] \in Row /\ table[Key(r)].id \in Requests
    BY <1>k DEF Present, Row
  <2> QED
    BY <1>4, <2>1, AnswerType, ActionStatusIsAnswer
       DEF ReadReservation, Goto, Labels, local, Answers
<1>5. CASE ClaimDispatch(r)
  <2>1. ASSUME Claimable(Key(r), rid[r]),
               table' = [table EXCEPT ![Key(r)].state = "processing",
                                      ![Key(r)].dispatched = 1,
                                      ![Key(r)].age = 0]
        PROVE  table' \in [Keys -> Row \cup {NoRow}]
    <3>1. [table[Key(r)] EXCEPT !.state = "processing", !.dispatched = 1,
                                !.age = 0] \in Row
      BY <1>k, <2>1 DEF Claimable, Present, Row, RowStates
    <3> QED
      BY <1>k, <2>1, <3>1
  <2>2. table' \in [Keys -> Row \cup {NoRow}]
    BY <1>5, <2>1, AnswerType DEF ClaimDispatch, local
  <2>3. quiet' \in [Keys -> Nat]
    BY <1>5, <1>k, AnswerType DEF ClaimDispatch, Answers
  <2>4. /\ pc' \in [Requests -> Labels]
        /\ answer' \in [Requests -> Answers]
    BY <1>5, AnswerType DEF ClaimDispatch, Answers, Goto, Labels, local
  <2>5. /\ want' \in [Requests -> Wants]
        /\ rid' \in [Requests -> Requests]
        /\ outcome' \in [Requests -> Outcomes]
        /\ effect' \in [Requests -> BOOLEAN]
    BY <1>5, AnswerType DEF ClaimDispatch, Answers, local
  <2> QED
    BY <2>2, <2>3, <2>4, <2>5
<1>6. CASE AnswerFromTable(r)
  <2>1. Present(Key(r)) => table[Key(r)] \in Row /\ table[Key(r)].id \in Requests
    BY <1>k DEF Present, Row
  <2> QED
    BY <1>6, <2>1, AnswerType, ActionStatusIsAnswer DEF AnswerFromTable, Answers
<1>7. CASE VerifyClaim(r)
  <2>1. Present(Key(r)) => table[Key(r)].id \in Requests
    BY <1>k DEF Present, Row
  <2> QED
    BY <1>7, <2>1, AnswerType DEF VerifyClaim, Goto, Labels, Answers
<1>8. CASE DispatchAction(r)
  BY <1>8 DEF DispatchAction, Goto, Labels
<1>9. CASE MarkOutcome(r) \/ MarkUnsavedUnknown(r)
  <2>1. Markable(Key(r), rid[r]) =>
            /\ Stamp(table[Key(r)], outcome[r]) \in Row
            /\ Stamp(table[Key(r)], "unknown") \in Row
    BY <1>k, StampIsRow DEF Markable, Present, Outcomes, RowStates
  <2> QED
    BY <1>9, <1>k, <2>1
       DEF MarkOutcome, MarkUnsavedUnknown, Goto, Labels, local, Outcomes
<1>10. CASE Die(r)
  BY <1>10 DEF Die, Goto, Labels, Outcomes
<1> QED
  BY <1>1, <1>2, <1>3, <1>4, <1>5, <1>6, <1>7, <1>8, <1>9, <1>10 DEF Step

LEMMA CleanupType == GatewayTypeOK /\ Cleanup => GatewayTypeOK'
BY SealedRow, SealedInCases
   DEF GatewayTypeOK, Cleanup, CleanupAfter, SealStaleRecords, Retained, local

LEMMA TickType == GatewayTypeOK /\ Tick => GatewayTypeOK'
<1> SUFFICES ASSUME GatewayTypeOK, Tick PROVE GatewayTypeOK'
  OBVIOUS
<1>1. ASSUME NEW k \in Keys, Present(k)
      PROVE  [table[k] EXCEPT !.age = Older(@), !.life = Older(@)] \in Row
  BY <1>1, OlderIsNat DEF GatewayTypeOK, Present, Row
<1> QED
  BY <1>1, OlderIsNat DEF Tick, GatewayTypeOK, local

\* The table holds at most well-formed rows and every request stays within the
\* statements of its handler.
THEOREM GatewayTypeCorrect == Spec => []GatewayTypeOK
<1>1. GatewayTypeOK /\ UNCHANGED vars => GatewayTypeOK'
  BY DEF GatewayTypeOK, vars
<1>2. GatewayTypeOK /\ [Next]_vars => GatewayTypeOK'
  BY <1>1, StepType, CleanupType, TickType DEF Next
<1> QED
  BY InitType, <1>2, PTL DEF Spec

-----------------------------------------------------------------------------
(* The inductive invariant.                                                *)

\* r can already have inserted its row, whose id is then r.
Inserted(r) == pc[r] \notin {"idle", "seal", "insert"}
\* r works on a row it has read, and on one whose claim it won.
Attached(r) == pc[r] \in {"claim", "reseal", "reread", "verify", "dispatch",
                          "mark", "remark", "final"}
Holding(r)  == pc[r] \in {"verify", "dispatch", "mark", "remark", "final"}
Claimant(r) == Holding(r) \/ effect[r]

\* A row carries the key and the payload of the request that inserted it.
RowIdentity ==
    \A k \in Keys : Present(k) =>
        /\ Inserted(table[k].id)
        /\ Key(table[k].id) = k
        /\ table[k].fp = want[table[k].id].fp

RowDispatched ==
    \A k \in Keys : Present(k) =>
        /\ table[k].state \in {"processing", "committed", "unknown"}
              => table[k].dispatched = 1
        /\ table[k].state = "reserved" => table[k].dispatched = 0

\* The row a request knows is one for its own key, and no row is known before
\* it was inserted.
RidIdentity ==
    \A r \in Requests :
        /\ Key(rid[r]) = Key(r)
        /\ rid[r] = r \/ Inserted(rid[r])

\* While a request works on a row, that row stays in the table.
AttachedRow ==
    \A r \in Requests : Attached(r) =>
        /\ Present(Key(r))
        /\ table[Key(r)].id = rid[r]
        /\ want[rid[r]].fp = want[r].fp
        /\ table[Key(r)].state # "reserved" => table[Key(r)].age <= RetainFor
        /\ Holding(r) => table[Key(r)].dispatched = 1

\* Where a request that published can be, and what it published.
EffectPlace ==
    \A r \in Requests :
        /\ effect[r] => /\ pc[r] \in {"mark", "remark", "final", "done"}
                        /\ want[rid[r]].fp = want[r].fp
        /\ pc[r] = "mark" => /\ outcome[r] = "committed" => effect[r]
                             /\ outcome[r] = "failed" => ~effect[r]

OneClaimant ==
    \A r1, r2 \in Requests :
        Claimant(r1) /\ Claimant(r2) /\ rid[r1] = rid[r2] => r1 = r2

\* A row that was never dispatched has no claimant, and a row that failed has
\* none that could publish.
UndispatchedRow ==
    \A k \in Keys, r \in Requests :
        Present(k) /\ table[k].dispatched = 0 /\ rid[r] = table[k].id
            => ~Claimant(r)
FailedRow ==
    \A k \in Keys, r \in Requests :
        Present(k) /\ table[k].state = "failed" /\ rid[r] = table[k].id
            => ~MayPublish(r)
CommittedRow ==
    \A k \in Keys : Present(k) /\ table[k].state = "committed" =>
        \E p \in Requests : effect[p] /\ rid[p] = table[k].id

\* What was answered stays true, also when the row is gone.
AnswerPlace ==
    \A r \in Requests :
        /\ answer[r] # "none" => pc[r] = "done"
        /\ answer[r] = "failed" =>
              \A k \in Keys : Present(k) /\ table[k].id = rid[r]
                                  => table[k].state = "failed"

GatewayIInv ==
    /\ GatewayTypeOK
    /\ RowIdentity /\ RowDispatched /\ RidIdentity /\ AttachedRow
    /\ EffectPlace /\ OneClaimant /\ UndispatchedRow /\ FailedRow
    /\ CommittedRow /\ AnswerPlace /\ ReceiptsTellTheTruth

-----------------------------------------------------------------------------
(* Each step keeps the inductive invariant.                                *)

\* A true answer stays true in a step that takes nothing back and lets nobody
\* near the write of a record whose failure was answered.
LEMMA AnswerStaysTrue ==
    ASSUME NEW q \in Requests, TrueAnswer(q),
           want' = want, answer'[q] = answer[q], rid'[q] = rid[q],
           \A p \in Requests : effect[p] => effect'[p] /\ rid'[p] = rid[p],
           \A p \in Requests :
               answer[q] = "failed" /\ MayPublish(p)' /\ rid'[p] = rid[q]
                   => MayPublish(p) /\ rid[p] = rid[q]
    PROVE  TrueAnswer(q)'
BY DEF TrueAnswer, Key

LEMMA InitInv == Init => GatewayIInv
<1> SUFFICES ASSUME Init PROVE GatewayIInv
  OBVIOUS
<1>1. GatewayTypeOK
  BY InitType
<1>2. \A k \in Keys : ~Present(k)
  BY DEF Init, Present
<1>3. \A r \in Requests : /\ ~Attached(r) /\ ~Holding(r) /\ ~Claimant(r)
                          /\ ~effect[r] /\ answer[r] = "none" /\ rid[r] = r
                          /\ pc[r] = "idle"
  BY DEF Init, Attached, Holding, Claimant
<1>4. RowIdentity /\ RowDispatched /\ CommittedRow
  BY <1>2 DEF RowIdentity, RowDispatched, CommittedRow
<1>5. UndispatchedRow /\ FailedRow
  BY <1>2 DEF UndispatchedRow, FailedRow
<1>6. RidIdentity /\ AttachedRow /\ OneClaimant
  BY <1>3 DEF RidIdentity, AttachedRow, OneClaimant
<1>7. EffectPlace /\ AnswerPlace /\ ReceiptsTellTheTruth
  BY <1>3 DEF EffectPlace, AnswerPlace, ReceiptsTellTheTruth, TrueAnswer
<1> QED
  BY <1>1, <1>4, <1>5, <1>6, <1>7 DEF GatewayIInv

\* Storing a verdict changes the state and the age of one row, nothing else.
LEMMA VerdictStored ==
    ASSUME table \in [Keys -> Row \cup {NoRow}], NEW c \in Keys, Present(c),
           NEW s \in Outcomes, table' = [table EXCEPT ![c] = Stamp(@, s)]
    PROVE  \A k \in Keys :
             /\ Present(k)' <=> Present(k)
             /\ Present(k) => /\ table'[k].id = table[k].id
                              /\ table'[k].fp = table[k].fp
                              /\ table'[k].dispatched = table[k].dispatched
             /\ k # c => table'[k] = table[k]
             /\ k = c => table'[k].state = s /\ table'[k].age = 0
<1>1. Outcomes \subseteq RowStates /\ table[c] \in Row
  BY DEF Outcomes, RowStates, Present
<1>2. Stamp(table[c], s) # NoRow
  BY <1>1, StampIsRow, NoRowAssumption
<1> QED
  BY <1>1, <1>2, StampIsRow DEF Present

\* A verdict stored by the request that holds the record keeps the invariant,
\* if it is "unknown" or agrees with what was published.
LEMMA VerdictKeepsInv ==
    ASSUME GatewayIInv, NEW r \in Requests, NEW s \in Outcomes,
           pc[r] \in {"mark", "remark"}, pc'[r] \in {"remark", "final"},
           pc' = [pc EXCEPT ![r] = pc'[r]],
           s = "committed" => effect[r], s = "failed" => ~effect[r],
           UNCHANGED <<want, rid, answer, effect, quiet>>, GatewayTypeOK',
           \A q \in Requests : q # r => outcome'[q] = outcome[q],
           \/ UNCHANGED table
           \/ /\ Markable(Key(r), rid[r])
              /\ table' = [table EXCEPT ![Key(r)] = Stamp(@, s)]
    PROVE  GatewayIInv'
<1> USE DEF GatewayIInv, GatewayTypeOK
<1>f. /\ want' = want /\ rid' = rid /\ effect' = effect /\ answer' = answer
      /\ \A q \in Requests : pc'[q] = "mark" => outcome'[q] = outcome[q]
  OBVIOUS
<1>p. \A p \in Requests : /\ Inserted(p)' <=> Inserted(p)
                          /\ Holding(p)' <=> Holding(p)
                          /\ Attached(p)' <=> Attached(p)
                          /\ Claimant(p)' <=> Claimant(p)
                          /\ MayPublish(p)' <=> MayPublish(p)
                          /\ Key(p)' = Key(p) /\ Key(p) \in Keys
  BY <1>f DEF Inserted, Holding, Attached, Claimant, MayPublish, Key, Wants
<1>t. \A k \in Keys :
        /\ Present(k)' <=> Present(k)
        /\ Present(k) => /\ table'[k].id = table[k].id
                         /\ table'[k].fp = table[k].fp
                         /\ table'[k].dispatched = table[k].dispatched
        /\ \/ table'[k] = table[k]
           \/ /\ k = Key(r) /\ table[k].id = rid[r]
              /\ table[k].state = "processing"
              /\ table'[k].state = s /\ table'[k].age = 0
  <2>1. CASE UNCHANGED table
    BY <2>1 DEF Present
  <2>2. CASE /\ Markable(Key(r), rid[r])
             /\ table' = [table EXCEPT ![Key(r)] = Stamp(@, s)]
    <3>1. /\ Key(r) \in Keys /\ Present(Key(r)) /\ table[Key(r)].id = rid[r]
          /\ table[Key(r)].state = "processing"
      BY <1>p, <2>2 DEF Markable
    <3>2. PICK c \in Keys : c = Key(r)
      BY <3>1
    <3>3. Present(c) /\ table' = [table EXCEPT ![c] = Stamp(@, s)]
      BY <2>2, <3>1, <3>2 DEF Present
    <3>4. \A k \in Keys :
             /\ Present(k)' <=> Present(k)
             /\ Present(k) => /\ table'[k].id = table[k].id
                              /\ table'[k].fp = table[k].fp
                              /\ table'[k].dispatched = table[k].dispatched
             /\ k # c => table'[k] = table[k]
             /\ k = c => table'[k].state = s /\ table'[k].age = 0
      BY <3>3, VerdictStored
    <3> QED
      BY <3>1, <3>2, <3>4
  <2> QED BY <2>1, <2>2
<1>i. \A k \in Keys : Present(k) => table[k].id \in Requests
  BY DEF Present, Row
<1>1. RowIdentity'
  BY <1>f, <1>p, <1>t, <1>i DEF RowIdentity
<1>2. RowDispatched'
  BY <1>t DEF RowDispatched, Outcomes
<1>3. RidIdentity'
  BY <1>f, <1>p DEF RidIdentity
<1>4. AttachedRow'
  <2> SUFFICES ASSUME NEW q \in Requests, Attached(q)
               PROVE  /\ Present(Key(q))'
                      /\ table'[Key(q)].id = rid[q]
                      /\ want[rid[q]].fp = want[q].fp
                      /\ table'[Key(q)].state # "reserved" => table'[Key(q)].age <= RetainFor
                      /\ Holding(q) => table'[Key(q)].dispatched = 1
    BY <1>f, <1>p DEF AttachedRow
  <2> QED
    BY <1>p, <1>t, ThresholdAssumption DEF AttachedRow
<1>5. EffectPlace'
  BY <1>f DEF EffectPlace
<1>6. OneClaimant'
  BY <1>f, <1>p DEF OneClaimant
<1>7. UndispatchedRow'
  BY <1>f, <1>p, <1>t DEF UndispatchedRow
<1>8. FailedRow'
  <2>1. ASSUME NEW q \in Requests, rid[q] = rid[r], s = "failed" PROVE ~MayPublish(q)
    BY <2>1 DEF MayPublish, OneClaimant, Claimant, Holding
  <2> QED
    BY <1>f, <1>p, <1>t, <2>1 DEF FailedRow
<1>9. CommittedRow'
  BY <1>f, <1>t DEF CommittedRow
<1>10. AnswerPlace'
  <2>1. ASSUME NEW q \in Requests, NEW k \in Keys, answer[q] = "failed", Present(k),
               table[k].id = rid[q]
        PROVE  table'[k].state = "failed"
    BY <1>t, <2>1 DEF AnswerPlace
  <2>2. \A q \in Requests : answer[q] # "none" => pc'[q] = "done"
    BY DEF AnswerPlace
  <2> QED
    BY <1>f, <1>p, <1>t, <2>1, <2>2 DEF AnswerPlace
<1>11. ASSUME NEW q \in Requests PROVE TrueAnswer(q)'
  BY <1>f, <1>p, AnswerStaysTrue DEF ReceiptsTellTheTruth
<1> QED
  BY <1>1, <1>2, <1>3, <1>4, <1>5, <1>6, <1>7, <1>8, <1>9, <1>10, <1>11
     DEF ReceiptsTellTheTruth

\* Sealing, deleting and aging rows keeps the invariant, when only rows that no
\* request works on disappear or pass the retention threshold.
LEMMA SweepKeepsInv ==
    ASSUME GatewayIInv, GatewayTypeOK', UNCHANGED local,
           \A r \in Requests :
              /\ Inserted(r) => Inserted(r)'
              /\ Holding(r)' <=> Holding(r)
              /\ Attached(r)' <=> Attached(r)
              /\ MayPublish(r)' <=> MayPublish(r)
              /\ pc[r] \in {"mark", "remark", "final", "done"}
                    <=> pc'[r] \in {"mark", "remark", "final", "done"}
              /\ pc[r] = "done" => pc'[r] = "done"
              /\ pc'[r] = "mark" => pc[r] = "mark",
           \A k \in Keys : Present(k)' =>
              /\ Present(k)
              /\ table'[k].id = table[k].id
              /\ table'[k].fp = table[k].fp
              /\ table'[k].dispatched = table[k].dispatched
              /\ \/ table'[k].state = table[k].state
                 \/ table[k].state = "reserved" /\ table'[k].state = "failed"
                 \/ table[k].state = "processing" /\ table'[k].state = "unknown",
           \A r \in Requests : Attached(r) =>
              /\ table'[Key(r)] # NoRow
              /\ table'[Key(r)].state # "reserved" => table'[Key(r)].age <= RetainFor
    PROVE  GatewayIInv'
<1>u. want' = want /\ rid' = rid /\ effect' = effect /\ answer' = answer
      /\ outcome' = outcome
  BY DEF local
<1>c. \A r \in Requests : /\ Claimant(r)' <=> Claimant(r)
                          /\ Key(r)' = Key(r) /\ Key(r) \in Keys
  BY <1>u DEF Claimant, Key, GatewayIInv, GatewayTypeOK, Wants
<1>1. RowIdentity'
  BY <1>u DEF RowIdentity, Inserted, Key, GatewayIInv, GatewayTypeOK, Row, Present
<1>2. RowDispatched'
  BY DEF RowDispatched, GatewayIInv
<1>3. RidIdentity'
  BY <1>u DEF RidIdentity, Inserted, Key, GatewayIInv, GatewayTypeOK
<1>4. AttachedRow'
  BY <1>u, <1>c DEF AttachedRow, GatewayIInv, Present, Key
<1>5. EffectPlace'
  BY <1>u DEF EffectPlace, GatewayIInv
<1>6. OneClaimant'
  BY <1>u, <1>c DEF OneClaimant, GatewayIInv
<1>7. UndispatchedRow'
  BY <1>u, <1>c DEF UndispatchedRow, GatewayIInv
<1>8. FailedRow'
  BY <1>u DEF FailedRow, UndispatchedRow, RowDispatched, GatewayIInv,
              MayPublish, Claimant, Holding
<1>9. CommittedRow'
  BY <1>u DEF CommittedRow, GatewayIInv
<1>10. AnswerPlace'
  BY <1>u DEF AnswerPlace, GatewayIInv
<1>11. ReceiptsTellTheTruth'
  BY <1>u DEF ReceiptsTellTheTruth, TrueAnswer, Key, GatewayIInv
<1> QED
  BY <1>1, <1>2, <1>3, <1>4, <1>5, <1>6, <1>7, <1>8, <1>9, <1>10, <1>11
     DEF GatewayIInv

\* What sealing does to the row of a key, in terms of its fields.
LEMMA SealedFields ==
    ASSUME GatewayIInv, NEW k \in Keys, Present(k)
    PROVE  /\ Sealed(k) # NoRow
           /\ Sealed(k).id = table[k].id
           /\ Sealed(k).fp = table[k].fp
           /\ Sealed(k).dispatched = table[k].dispatched
           /\ \/ Sealed(k) = table[k]
              \/ /\ Sealed(k).age = 0
                 /\ \/ table[k].state = "reserved" /\ Sealed(k).state = "failed"
                    \/ table[k].state = "processing" /\ Sealed(k).state = "unknown"
BY SealedRow DEF GatewayIInv, GatewayTypeOK, Expired, Stale

LEMMA SealInv ==
    ASSUME GatewayIInv, NEW r \in Requests, SealOnEntry(r) \/ SealAfterLostClaim(r)
    PROVE  GatewayIInv'
<1>0. GatewayTypeOK'
  BY StepType DEF GatewayIInv, Step
<1>1. UNCHANGED local
  BY DEF SealOnEntry, SealAfterLostClaim
<1>2. ASSUME NEW p \in Requests
      PROVE  /\ Inserted(p) => Inserted(p)'
             /\ Holding(p)' <=> Holding(p)
             /\ Attached(p)' <=> Attached(p)
             /\ MayPublish(p)' <=> MayPublish(p)
             /\ pc[p] \in {"mark", "remark", "final", "done"}
                   <=> pc'[p] \in {"mark", "remark", "final", "done"}
             /\ pc[p] = "done" => pc'[p] = "done"
             /\ pc'[p] = "mark" => pc[p] = "mark"
  BY <1>1 DEF SealOnEntry, SealAfterLostClaim, Goto, local, Inserted, Holding,
              Attached, MayPublish, GatewayIInv, GatewayTypeOK
<1>3. \A k \in Keys : table'[k] = Sealed(k) \/ table'[k] = table[k]
  BY SealedInCases DEF SealOnEntry, SealAfterLostClaim, SealStaleRecords
<1>4. ASSUME NEW k \in Keys, Present(k)'
      PROVE  /\ Present(k)
             /\ table'[k].id = table[k].id
             /\ table'[k].fp = table[k].fp
             /\ table'[k].dispatched = table[k].dispatched
             /\ \/ table'[k].state = table[k].state
                \/ table[k].state = "reserved" /\ table'[k].state = "failed"
                \/ table[k].state = "processing" /\ table'[k].state = "unknown"
  <2>1. Present(k)
    BY <1>3, <1>4 DEF Sealed, Present
  <2> QED
    BY <1>3, <2>1, SealedFields
<1>5. ASSUME NEW p \in Requests, Attached(p)
      PROVE  /\ table'[Key(p)] # NoRow
             /\ table'[Key(p)].state # "reserved" => table'[Key(p)].age <= RetainFor
  <2>1. PICK k \in Keys : k = Key(p)
    BY DEF GatewayIInv, GatewayTypeOK, Key, Wants
  <2>2. Present(k) /\ (table[k].state # "reserved" => table[k].age <= RetainFor)
    BY <1>5, <2>1 DEF GatewayIInv, AttachedRow, Present
  <2> QED
    BY <1>3, <2>1, <2>2, SealedFields, ThresholdAssumption DEF Present
<1> QED
  BY <1>0, <1>1, <1>2, <1>4, <1>5, SweepKeepsInv

LEMMA CleanupInv == ASSUME GatewayIInv, Cleanup PROVE GatewayIInv'
<1>0. GatewayTypeOK'
  BY CleanupType DEF GatewayIInv
<1>1. UNCHANGED local /\ pc' = pc /\ effect' = effect
  BY DEF Cleanup, CleanupAfter, local
<1>r. ASSUME NEW k \in Keys
      PROVE  \/ table'[k] = Sealed(k) \/ table'[k] = table[k]
             \/ /\ table'[k] = NoRow /\ Present(k)
                /\ \/ Sealed(k).state \in Terminal /\ Sealed(k).age > RetainFor
                   \/ table[k].state \in Terminal /\ table[k].age > RetainFor
  BY SealedInCases DEF Cleanup, CleanupAfter, SealStaleRecords, Retained
<1>2. ASSUME NEW k \in Keys, Present(k)'
      PROVE  /\ Present(k)
             /\ table'[k].id = table[k].id
             /\ table'[k].fp = table[k].fp
             /\ table'[k].dispatched = table[k].dispatched
             /\ \/ table'[k].state = table[k].state
                \/ table[k].state = "reserved" /\ table'[k].state = "failed"
                \/ table[k].state = "processing" /\ table'[k].state = "unknown"
  <2>1. (table'[k] = Sealed(k) \/ table'[k] = table[k]) /\ Present(k)
    BY <1>2, <1>r DEF Sealed, Present
  <2> QED
    BY <2>1, SealedFields
<1>3. ASSUME NEW p \in Requests, Attached(p)
      PROVE  /\ table'[Key(p)] # NoRow
             /\ table'[Key(p)].state # "reserved" => table'[Key(p)].age <= RetainFor
  <2>1. PICK k \in Keys : k = Key(p)
    BY DEF GatewayIInv, GatewayTypeOK, Key, Wants
  <2>2. Present(k) /\ (table[k].state # "reserved" => table[k].age <= RetainFor)
    BY <1>3, <2>1 DEF GatewayIInv, AttachedRow, Present
  <2>3. table[k].age \in Nat
    BY <2>2 DEF GatewayIInv, GatewayTypeOK, Present, Row
  <2>4. Sealed(k).state # "reserved" => Sealed(k).age <= RetainFor
    BY <2>2, SealedFields, ThresholdAssumption
  <2>5. Sealed(k).state # "reserved" => Sealed(k).age \in Nat
    BY <2>2, <2>3, SealedFields
  <2>6. table'[k] = Sealed(k) \/ table'[k] = table[k]
    BY <1>r, <2>2, <2>3, <2>4, <2>5, ThresholdAssumption DEF Terminal
  <2> QED
    BY <2>1, <2>2, <2>4, <2>6, SealedFields DEF Present
<1> QED
  BY <1>0, <1>1, <1>2, <1>3, SweepKeepsInv
     DEF Inserted, Holding, Attached, MayPublish

LEMMA TickInv == ASSUME GatewayIInv, Tick PROVE GatewayIInv'
<1>0. GatewayTypeOK'
  BY TickType DEF GatewayIInv
<1>1. UNCHANGED local /\ pc' = pc /\ effect' = effect
  BY DEF Tick, local
<1>2. ASSUME NEW k \in Keys
      PROVE  /\ Present(k)' <=> Present(k)
             /\ Present(k) => /\ table'[k].id = table[k].id
                              /\ table'[k].fp = table[k].fp
                              /\ table'[k].dispatched = table[k].dispatched
                              /\ table'[k].state = table[k].state
                              /\ table'[k].age = Older(table[k].age)
                              /\ table[k].age \in Nat
  <2>1. CASE ~Present(k)
    BY <2>1 DEF Tick, Present
  <2>2. CASE Present(k)
    <3>1. table[k] \in Row
      BY <2>2 DEF GatewayIInv, GatewayTypeOK, Present
    <3>2. table'[k] = [table[k] EXCEPT !.age = Older(@), !.life = Older(@)]
      BY <2>2 DEF Tick
    <3>3. table'[k] \in Row
      BY <3>1, <3>2, OlderIsNat DEF Row
    <3> QED
      BY <2>2, <3>1, <3>2, <3>3, NoRowAssumption DEF Row, Present
  <2> QED BY <2>1, <2>2
<1>3. ASSUME NEW p \in Requests, Attached(p)
      PROVE  /\ table'[Key(p)] # NoRow
             /\ table'[Key(p)].state # "reserved" => table'[Key(p)].age <= RetainFor
  <2>1. PICK k \in Keys : k = Key(p)
    BY DEF GatewayIInv, GatewayTypeOK, Key, Wants
  <2>2. Present(k) /\ (table[k].state # "reserved" => table[k].age <= RetainFor)
    BY <1>3, <2>1 DEF GatewayIInv, AttachedRow, Present
  <2>3. table[k].age # RetainFor
    BY <1>3, <2>1, <2>2 DEF Tick, Active, Attached
  <2>4. table[k].age <= RetainFor => Older(table[k].age) <= RetainFor
    BY <1>2, <2>2, <2>3, ThresholdAssumption DEF Older
  <2> QED
    BY <1>2, <2>1, <2>2, <2>4 DEF Present
<1> QED
  BY <1>0, <1>1, <1>2, <1>3, SweepKeepsInv
     DEF Inserted, Holding, Attached, MayPublish

LEMMA MarkInv ==
    ASSUME GatewayIInv, NEW r \in Requests, MarkOutcome(r) \/ MarkUnsavedUnknown(r)
    PROVE  GatewayIInv'
<1>0. GatewayTypeOK'
  BY StepType DEF GatewayIInv, Step
<1>1. CASE MarkOutcome(r)
  <2>1. /\ pc[r] \in {"mark", "remark"} /\ pc'[r] \in {"remark", "final"}
        /\ pc' = [pc EXCEPT ![r] = pc'[r]]
        /\ outcome[r] = "committed" => effect[r]
        /\ outcome[r] = "failed" => ~effect[r]
        /\ outcome[r] \in Outcomes
        /\ \A q \in Requests : q # r => outcome'[q] = outcome[q]
    BY <1>1 DEF MarkOutcome, Goto, GatewayIInv, GatewayTypeOK, EffectPlace
  <2> QED
    BY <1>0, <1>1, <2>1, VerdictKeepsInv DEF MarkOutcome, Markable, Key
<1>2. CASE MarkUnsavedUnknown(r)
  <2>1. /\ pc[r] \in {"mark", "remark"} /\ pc'[r] \in {"remark", "final"}
        /\ pc' = [pc EXCEPT ![r] = pc'[r]]
        /\ "unknown" \in Outcomes
        /\ UNCHANGED <<want, rid, outcome, answer, effect, quiet>>
    BY <1>2 DEF MarkUnsavedUnknown, Goto, GatewayIInv, GatewayTypeOK, Outcomes, local
  <2> QED
    BY <1>0, <1>2, <2>1, VerdictKeepsInv DEF MarkUnsavedUnknown, Markable, Key
<1> QED
  BY <1>1, <1>2

\* A step in which one request only reads the table, and at most answers what
\* the row it read says, keeps the invariant.
LEMMA ReadKeepsInv ==
    ASSUME GatewayIInv, GatewayTypeOK', NEW r \in Requests,
           UNCHANGED <<table, want, outcome, effect>>,
           pc' = [pc EXCEPT ![r] = pc'[r]],
           rid' = [rid EXCEPT ![r] = rid'[r]],
           answer' = [answer EXCEPT ![r] = answer'[r]],
           Inserted(r) => Inserted(r)',
           pc'[r] # "mark", effect[r] => pc'[r] = "done",
           Holding(r)' => Holding(r),
           MayPublish(r)' => MayPublish(r),
           \/ rid'[r] = rid[r]
           \/ ~Claimant(r) /\ Present(Key(r)) /\ rid'[r] = table[Key(r)].id,
           Attached(r)' => /\ Present(Key(r)) /\ rid'[r] = table[Key(r)].id
                           /\ table[Key(r)].fp = want[r].fp
                           /\ Holding(r) \/ table[Key(r)].state = "reserved",
           answer'[r] # "none" => pc'[r] = "done",
           answer'[r] \in {"committed", "failed"} =>
              /\ Present(Key(r)) /\ rid'[r] = table[Key(r)].id
              /\ table[Key(r)].state = answer'[r]
              /\ Matches(r, table[Key(r)])
    PROVE  GatewayIInv'
<1> USE DEF GatewayIInv, GatewayTypeOK
<1>k. \A p \in Requests : Key(p)' = Key(p) /\ Key(p) \in Keys
  BY DEF Key, Wants
<1>p. \A p \in Requests :
        /\ Inserted(p) => Inserted(p)'
        /\ Holding(p)' => Holding(p)
        /\ Claimant(p)' => Claimant(p) /\ rid'[p] = rid[p]
        /\ MayPublish(p)' => MayPublish(p) /\ rid'[p] = rid[p]
  <2>1. \A p \in Requests : p # r => /\ pc'[p] = pc[p] /\ rid'[p] = rid[p]
    OBVIOUS
  <2>2. MayPublish(r) => Claimant(r)
    BY DEF MayPublish, Claimant, Holding
  <2>3. Claimant(r) => rid'[r] = rid[r]
    BY DEF Claimant, Holding, Attached, AttachedRow
  <2> QED
    BY <2>1, <2>2, <2>3 DEF Inserted, Holding, Claimant, MayPublish
<1>i. \A k \in Keys : Present(k)' = Present(k)
                      /\ (Present(k) => table[k].id \in Requests)
  BY DEF Present, Row
<1>1. RowIdentity'
  BY <1>p, <1>i DEF RowIdentity, Inserted, Key
<1>2. RowDispatched'
  BY DEF RowDispatched, Present
<1>3. RidIdentity'
  <2>1. /\ rid'[r] \in Requests /\ Key(rid'[r]) = Key(r)
        /\ rid'[r] = r \/ Inserted(rid'[r])
    BY <1>k, <1>i DEF RidIdentity, RowIdentity, Key
  <2>2. \A q \in Requests : q # r => rid'[q] = rid[q]
    OBVIOUS
  <2>3. \A q \in Requests : want'[q] = want[q]
    OBVIOUS
  <2>4. ASSUME NEW q \in Requests
        PROVE  /\ rid'[q] \in Requests /\ want[rid'[q]].key = want[q].key
               /\ rid'[q] = q \/ Inserted(rid'[q])
    BY <2>1, <2>2 DEF RidIdentity, Key
  <2>5. ASSUME NEW q \in Requests
        PROVE  (rid[q] = q \/ Inserted(rid[q]))'
    <3>1. PICK p \in Requests : p = rid'[q]
      BY <2>4
    <3>2. p = q \/ Inserted(p)'
      BY <1>p, <2>4, <3>1
    <3> QED
      BY <3>1, <3>2 DEF Inserted
  <2> QED
    BY <2>4, <2>5 DEF RidIdentity, Key
<1>4. AttachedRow'
  <2> SUFFICES ASSUME NEW q \in Requests, Attached(q)'
               PROVE  /\ Present(Key(q))
                      /\ table[Key(q)].id = rid'[q]
                      /\ want[rid'[q]].fp = want[q].fp
                      /\ table[Key(q)].state # "reserved" => table[Key(q)].age <= RetainFor
                      /\ Holding(q)' => table[Key(q)].dispatched = 1
    BY DEF AttachedRow, Present, Key
  <2>1. CASE q # r
    BY <1>p, <2>1 DEF AttachedRow, Attached
  <2>2. CASE q = r
    BY <1>k, <1>p, <2>2 DEF AttachedRow, Attached, Holding, RowIdentity
  <2> QED
    BY <2>1, <2>2
<1>5. EffectPlace'
  BY <1>p DEF EffectPlace, Claimant
<1>6. OneClaimant'
  BY <1>p DEF OneClaimant
<1>7. UndispatchedRow'
  BY <1>p DEF UndispatchedRow, Present
<1>8. FailedRow'
  BY <1>p DEF FailedRow, Present
<1>9. CommittedRow'
  BY <1>p DEF CommittedRow, Claimant, Present
<1>10. AnswerPlace'
  <2>1. ASSUME NEW q \in Requests, q # r, answer[q] = "failed", NEW k \in Keys,
               Present(k), table[k].id = rid[q]
        PROVE  table[k].state = "failed"
    BY <2>1 DEF AnswerPlace
  <2>2. ASSUME answer'[r] = "failed", NEW k \in Keys, Present(k),
               table[k].id = rid'[r]
        PROVE  table[k].state = "failed"
    BY <1>k, <2>2 DEF RowIdentity
  <2>3. \A q \in Requests : answer'[q] # "none" => pc'[q] = "done"
    BY DEF AnswerPlace
  <2> QED
    BY <2>1, <2>2, <2>3 DEF AnswerPlace, Present
<1>11. ASSUME NEW q \in Requests PROVE TrueAnswer(q)'
  <2>1. CASE q # r
    BY <1>p, <2>1, AnswerStaysTrue DEF ReceiptsTellTheTruth, Claimant
  <2>2. CASE q = r /\ answer'[r] = "committed"
    <3>1. PICK p \in Requests : effect[p] /\ rid[p] = table[Key(r)].id
      BY <1>k, <2>2 DEF CommittedRow
    <3>2. PICK k \in Keys : k = Key(r)
      BY <1>k
    <3>3. /\ Present(k) /\ table[k].id \in Requests /\ rid'[r] = table[k].id
          /\ want[r].kind # "bare_status" => table[k].fp = want[r].fp
      BY <2>2, <3>2, <1>i DEF Present, Key, Matches
    <3>4. want[table[k].id].key = k /\ table[k].fp = want[table[k].id].fp
      BY <3>3 DEF RowIdentity, Key
    <3>5. want[p].key = want[rid[p]].key /\ want[p].fp = want[rid[p]].fp
      BY <3>1 DEF EffectPlace, RidIdentity, Key
    <3>6. effect'[p] /\ rid'[p] = rid[p]
      <4>1. Claimant(p)
        BY <3>1 DEF Claimant
      <4>2. Claimant(p) => rid'[p] = rid[p]
        BY DEF Claimant, Holding, Attached, AttachedRow
      <4> QED
        BY <3>1, <4>1, <4>2
    <3> QED
      BY <2>2, <3>1, <3>2, <3>3, <3>4, <3>5, <3>6 DEF TrueAnswer, Key
  <2>3. CASE q = r /\ answer'[r] = "failed"
    BY <1>k, <1>p, <2>3 DEF TrueAnswer, FailedRow
  <2>4. CASE q = r /\ answer'[r] \notin {"committed", "failed"}
    BY <2>4 DEF TrueAnswer
  <2> QED BY <2>1, <2>2, <2>3, <2>4
<1> QED
  BY <1>1, <1>2, <1>3, <1>4, <1>5, <1>6, <1>7, <1>8, <1>9, <1>10, <1>11
     DEF ReceiptsTellTheTruth

LEMMA ArriveInv ==
    ASSUME GatewayIInv, NEW r \in Requests, Arrive(r) PROVE GatewayIInv'
<1>1. GatewayTypeOK'
  BY StepType DEF GatewayIInv
<1>2. ~effect[r] /\ answer[r] = "none" /\ pc[r] = "idle" /\ rid' = rid
  BY DEF GatewayIInv, EffectPlace, AnswerPlace, Arrive, local, Answer
<1> QED
  BY <1>1, <1>2, ReadKeepsInv
     DEF GatewayIInv, GatewayTypeOK, Arrive, Answer, Goto, local, Inserted,
         Holding, Attached, MayPublish

LEMMA ReadReservationInv ==
    ASSUME GatewayIInv, NEW r \in Requests, ReadReservation(r) PROVE GatewayIInv'
<1>1. GatewayTypeOK'
  BY StepType DEF GatewayIInv, Step
<1>2. ~Claimant(r) /\ ~effect[r] /\ answer[r] = "none" /\ pc[r] = "read"
  BY DEF GatewayIInv, EffectPlace, AnswerPlace, ReadReservation, Claimant, Holding
<1>3. Present(Key(r)) => table[Key(r)].state \in RowStates
  BY DEF GatewayIInv, GatewayTypeOK, Present, Row, Key, Wants
<1> QED
  BY <1>1, <1>2, <1>3, ReadKeepsInv
     DEF GatewayIInv, GatewayTypeOK, ReadReservation, Answer, Goto, local,
         Inserted, Holding, Attached, MayPublish, Claimant, ActionStatus, Matches, Present,
         Key

LEMMA AnswerFromTableInv ==
    ASSUME GatewayIInv, NEW r \in Requests, AnswerFromTable(r) PROVE GatewayIInv'
<1>1. GatewayTypeOK'
  BY StepType DEF GatewayIInv, Step
<1>2. answer[r] = "none" /\ (effect[r] => pc[r] = "final")
  BY DEF GatewayIInv, EffectPlace, AnswerPlace, AnswerFromTable
<1>3. pc[r] \in {"reread", "final"} =>
          Present(Key(r)) /\ table[Key(r)].id = rid[r] /\ table[Key(r)].fp = want[r].fp
  BY DEF GatewayIInv, GatewayTypeOK, AttachedRow, Attached, RowIdentity, Key, Wants
<1> QED
  BY <1>1, <1>2, <1>3, ReadKeepsInv
     DEF GatewayIInv, GatewayTypeOK, AnswerFromTable, Answer, Goto, local,
         Inserted, Holding, Attached, MayPublish, Claimant, ActionStatus, Matches, Present,
         Key

LEMMA VerifyClaimInv ==
    ASSUME GatewayIInv, NEW r \in Requests, VerifyClaim(r) PROVE GatewayIInv'
<1>1. GatewayTypeOK'
  BY StepType DEF GatewayIInv, Step
<1>2. ~effect[r] /\ answer[r] = "none" /\ pc[r] = "verify"
  BY DEF GatewayIInv, EffectPlace, AnswerPlace, VerifyClaim
<1>3. Present(Key(r)) /\ table[Key(r)].id = rid[r] /\ table[Key(r)].fp = want[r].fp
  BY <1>2 DEF GatewayIInv, GatewayTypeOK, AttachedRow, Attached, RowIdentity, Key, Wants
<1> QED
  BY <1>1, <1>2, <1>3, ReadKeepsInv
     DEF GatewayIInv, GatewayTypeOK, VerifyClaim, Answer, Goto, local,
         Inserted, Holding, Attached, MayPublish, Claimant, Present, Key

\* What a new reservation adds to the table.
LEMMA ReserveInv ==
    ASSUME GatewayIInv, NEW r \in Requests, Reserve(r) PROVE GatewayIInv'
<1>v. UNCHANGED <<want, rid, outcome, effect>>
  BY DEF Reserve, Answer, local
<1>u. /\ pc[r] = "insert" /\ pc' = [pc EXCEPT ![r] = pc'[r]]
      /\ pc'[r] \in {"read", "done"}
      /\ \A q \in Requests : \/ answer'[q] = answer[q]
                             \/ q = r /\ answer'[q] = "5xx"
      /\ answer'[r] # "none" => pc'[r] = "done"
  <2>0. pc \in [Requests -> Labels] /\ answer \in [Requests -> Answers]
    BY DEF GatewayIInv, GatewayTypeOK
  <2>1. pc[r] = "insert" /\ answer[r] = "none"
    BY DEF Reserve, Answer, local, AnswerPlace, GatewayIInv
  <2>2. CASE Goto(r, "read") /\ UNCHANGED answer
    BY <2>0, <2>1, <2>2 DEF Goto
  <2>3. CASE Answer(r, "5xx")
    BY <2>0, <2>1, <2>3 DEF Answer, Goto
  <2> QED
    BY <2>2, <2>3 DEF Reserve, local
<1> USE DEF GatewayIInv, GatewayTypeOK
<1>0. GatewayTypeOK'
  BY StepType DEF Step
<1>p. \A p \in Requests : /\ Inserted(p) => Inserted(p)'
                          /\ Inserted(r)' /\ ~Inserted(r)
                          /\ Holding(p)' <=> Holding(p)
                          /\ Attached(p)' <=> Attached(p)
                          /\ Claimant(p)' <=> Claimant(p)
                          /\ MayPublish(p)' <=> MayPublish(p)
                          /\ Key(p)' = Key(p) /\ Key(p) \in Keys
  BY <1>u, <1>v DEF Inserted, Holding, Attached, Claimant, MayPublish, Key, Wants
<1>q. \A q \in Requests : rid[q] = r => q = r /\ ~Claimant(q) /\ answer[q] = "none"
  BY <1>u, <1>v DEF RidIdentity, Inserted, Claimant, Holding, EffectPlace, AnswerPlace
<1>t. \A k \in Keys :
        \/ table'[k] = table[k]
        \/ /\ k = Key(r) /\ ~Present(k) /\ Present(k)'
           /\ table'[k].id = r /\ table'[k].fp = want[r].fp
           /\ table'[k].state = "reserved" /\ table'[k].dispatched = 0
  <2>1. ASSUME table' = [table EXCEPT ![Key(r)] =
                            [id |-> r, fp |-> want[r].fp, state |-> "reserved",
                             dispatched |-> 0, age |-> 0, life |-> 0]],
               ~Present(Key(r))
        PROVE  /\ table'[Key(r)] # NoRow
               /\ \A k \in Keys : k # Key(r) => table'[k] = table[k]
    <3>1. [id |-> r, fp |-> want[r].fp, state |-> "reserved",
           dispatched |-> 0, age |-> 0, life |-> 0] \in Row
      BY DEF Row, RowStates, Wants
    <3> QED
      BY <1>p, <2>1, <3>1, NoRowAssumption
  <2> QED
    BY <1>p, <2>1 DEF Reserve, Answer, Present
<1>i. \A k \in Keys : Present(k) => table[k].id \in Requests
  BY DEF Present, Row
<1>1. RowIdentity'
  <2> SUFFICES ASSUME NEW k \in Keys, Present(k)'
               PROVE  /\ pc'[table'[k].id] \notin {"idle", "seal", "insert"}
                      /\ want[table'[k].id].key = k
                      /\ table'[k].fp = want[table'[k].id].fp
    BY <1>u, <1>v DEF RowIdentity, Key, Inserted
  <2>1. CASE table'[k] = table[k]
    <3>1. Present(k) /\ table[k].id \in Requests
      BY <2>1, <1>i DEF Present
    <3>2. PICK p \in Requests : p = table[k].id
      BY <3>1
    <3> QED
      BY <1>p, <2>1, <3>1, <3>2 DEF RowIdentity, Key, Inserted
  <2>2. CASE k = Key(r) /\ table'[k].id = r /\ table'[k].fp = want[r].fp
    BY <1>p, <2>2 DEF Key, Inserted
  <2> QED
    BY <1>t, <2>1, <2>2
<1>2. RowDispatched'
  BY <1>t DEF RowDispatched, Present
<1>3. RidIdentity'
  BY <1>u, <1>v, <1>p DEF RidIdentity, Inserted, Key
<1>4. AttachedRow'
  <2> SUFFICES ASSUME NEW q \in Requests, Attached(q)
               PROVE  /\ table'[Key(q)] # NoRow
                      /\ table'[Key(q)].id = rid[q]
                      /\ want[rid[q]].fp = want[q].fp
                      /\ table'[Key(q)].state # "reserved"
                            => table'[Key(q)].age <= RetainFor
                      /\ Holding(q) => table'[Key(q)].dispatched = 1
    BY <1>u, <1>v, <1>p DEF AttachedRow, Present
  <2>1. PICK k \in Keys : k = Key(q)
    BY <1>p
  <2>2. Present(k) /\ table'[k] = table[k]
    BY <2>1, <1>t DEF AttachedRow, Present
  <2> QED
    BY <2>1, <2>2 DEF AttachedRow, Present
<1>5. EffectPlace'
  BY <1>u, <1>v DEF EffectPlace
<1>6. OneClaimant'
  BY <1>u, <1>v, <1>p DEF OneClaimant
<1>7. UndispatchedRow'
  BY <1>u, <1>v, <1>p, <1>q, <1>t DEF UndispatchedRow, Present
<1>8. FailedRow'
  BY <1>u, <1>v, <1>p, <1>t DEF FailedRow, Present
<1>9. CommittedRow'
  BY <1>u, <1>v, <1>t DEF CommittedRow, Present
<1>10. AnswerPlace'
  BY <1>u, <1>v, <1>q, <1>t DEF AnswerPlace, Present
<1>11. ASSUME NEW q \in Requests PROVE TrueAnswer(q)'
  <2>1. CASE answer'[q] = answer[q]
    BY <1>u, <1>v, <1>p, <2>1, AnswerStaysTrue DEF ReceiptsTellTheTruth
  <2>2. CASE answer'[q] = "5xx"
    BY <2>2 DEF TrueAnswer
  <2> QED BY <1>u, <1>v, <2>1, <2>2
<1> QED
  BY <1>0, <1>1, <1>2, <1>3, <1>4, <1>5, <1>6, <1>7, <1>8, <1>9, <1>10, <1>11
     DEF ReceiptsTellTheTruth

\* Claiming a row leaves a row of the same request and payload.
LEMMA ClaimedRow ==
    ASSUME NEW row \in Row, NEW new,
           new = [row EXCEPT !.state = "processing", !.dispatched = 1, !.age = 0]
    PROVE  /\ new \in Row
           /\ new.id = row.id /\ new.fp = row.fp
           /\ new.state = "processing" /\ new.dispatched = 1 /\ new.age = 0
<1>1. 1 \in 0..1 /\ 0 \in Nat /\ "processing" \in RowStates
  BY DEF RowStates
<1>2. new \in Row
  BY <1>1 DEF Row
<1> QED
  BY <1>2 DEF Row

\* The compare-and-set makes its request the only claimant of the row.
LEMMA ClaimDispatchInv ==
    ASSUME GatewayIInv, NEW r \in Requests, ClaimDispatch(r) PROVE GatewayIInv'
<1>v. UNCHANGED <<want, rid, outcome, effect>>
  BY DEF ClaimDispatch, Answer, local
<1>u. /\ pc[r] = "claim" /\ pc' = [pc EXCEPT ![r] = pc'[r]]
      /\ pc'[r] \in {"verify", "reseal", "done"}
      /\ \A q \in Requests : \/ answer'[q] = answer[q]
                             \/ q = r /\ answer'[q] = "5xx"
      /\ answer'[r] # "none" => pc'[r] = "done"
  <2>0. pc \in [Requests -> Labels] /\ answer \in [Requests -> Answers]
    BY DEF GatewayIInv, GatewayTypeOK
  <2>1. pc[r] = "claim" /\ answer[r] = "none"
    BY DEF ClaimDispatch, Answer, local, AnswerPlace, GatewayIInv
  <2>2. CASE (Goto(r, "verify") \/ Goto(r, "reseal")) /\ UNCHANGED answer
    BY <2>0, <2>1, <2>2 DEF Goto
  <2>3. CASE Goto(r, "done") /\ answer' = [answer EXCEPT ![r] = "5xx"]
    BY <2>0, <2>1, <2>3 DEF Goto
  <2> QED
    BY <2>2, <2>3 DEF ClaimDispatch, Answer, local
<1> USE DEF GatewayIInv, GatewayTypeOK
<1>0. GatewayTypeOK'
  BY StepType DEF Step
<1>k. PICK c \in Keys : c = Key(r)
  BY DEF Key, Wants
<1>t. \/ UNCHANGED table /\ pc'[r] # "verify"
      \/ /\ Claimable(c, rid[r])
         /\ \A k \in Keys : k # c => table'[k] = table[k]
         /\ Present(c)'
         /\ table'[c].id = table[c].id /\ table'[c].fp = table[c].fp
         /\ table'[c].state = "processing" /\ table'[c].dispatched = 1
         /\ table'[c].age = 0
  <2>1. ASSUME Claimable(c, rid[r]),
               table' = [table EXCEPT ![c].state = "processing",
                                      ![c].dispatched = 1, ![c].age = 0]
        PROVE  /\ \A k \in Keys : k # c => table'[k] = table[k]
               /\ Present(c)'
               /\ table'[c].id = table[c].id /\ table'[c].fp = table[c].fp
               /\ table'[c].state = "processing" /\ table'[c].dispatched = 1
               /\ table'[c].age = 0
    <3>1. table[c] \in Row
      BY <2>1 DEF Claimable, Present
    <3>2. table'[c] = [table[c] EXCEPT !.state = "processing", !.dispatched = 1,
                                       !.age = 0]
      BY <2>1
    <3>3. /\ table'[c] \in Row
          /\ table'[c].id = table[c].id /\ table'[c].fp = table[c].fp
          /\ table'[c].state = "processing" /\ table'[c].dispatched = 1
          /\ table'[c].age = 0
      BY <3>1, <3>2, ClaimedRow
    <3> QED
      BY <2>1, <3>1, <3>2, <3>3, NoRowAssumption DEF Present, Row
  <2> QED
    BY <1>k, <2>1 DEF ClaimDispatch, Answer, Goto, Claimable, Key, Present
<1>n. ~Claimant(r) /\ ~effect[r] /\ Attached(r) /\ answer[r] = "none"
  BY <1>u, <1>v DEF Claimant, Holding, EffectPlace, Attached, AnswerPlace
<1>p. \A p \in Requests : /\ Inserted(p)' <=> Inserted(p)
                          /\ p # r => /\ Holding(p)' <=> Holding(p)
                                      /\ MayPublish(p)' <=> MayPublish(p)
                                      /\ Claimant(p)' <=> Claimant(p)
                          /\ Holding(r)' => pc'[r] = "verify"
                          /\ MayPublish(r)' => pc'[r] = "verify"
                          /\ Claimant(r)' => pc'[r] = "verify"
                          /\ Attached(p)' => Attached(p)
                          /\ Key(p)' = Key(p) /\ Key(p) \in Keys
  BY <1>u, <1>v, <1>n DEF Inserted, Holding, Attached, Claimant, MayPublish, Key, Wants
<1>a. /\ Present(c) /\ table[c].id = rid[r]
      /\ want[rid[r]].fp = want[r].fp
  BY <1>k, <1>n DEF AttachedRow, Present, Key
<1>c. Claimable(c, rid[r]) =>
        /\ table[c].state = "reserved" /\ table[c].dispatched = 0
        /\ \A q \in Requests : rid[q] = rid[r] => ~Claimant(q)
  BY <1>a DEF Claimable, UndispatchedRow
<1>i. \A k \in Keys : Present(k) => table[k].id \in Requests
  BY DEF Present, Row
<1>s. \A k \in Keys : /\ Present(k)' <=> Present(k)
                      /\ Present(k) => /\ table'[k].id = table[k].id
                                       /\ table'[k].fp = table[k].fp
                      /\ \/ table'[k] = table[k]
                         \/ /\ k = c /\ Claimable(c, rid[r])
                            /\ table'[k].state = "processing"
                            /\ table'[k].dispatched = 1 /\ table'[k].age = 0
  BY <1>a, <1>t DEF Present
<1>1. RowIdentity'
  BY <1>u, <1>v, <1>p, <1>s, <1>i DEF RowIdentity, Inserted, Key
<1>2. RowDispatched'
  BY <1>s DEF RowDispatched, Present
<1>3. RidIdentity'
  BY <1>u, <1>v, <1>p DEF RidIdentity, Inserted, Key
<1>4. AttachedRow'
  <2> SUFFICES ASSUME NEW q \in Requests, Attached(q)'
               PROVE  /\ table'[Key(q)] # NoRow
                      /\ table'[Key(q)].id = rid[q]
                      /\ want[rid[q]].fp = want[q].fp
                      /\ table'[Key(q)].state # "reserved"
                            => table'[Key(q)].age <= RetainFor
                      /\ Holding(q)' => table'[Key(q)].dispatched = 1
    BY <1>u, <1>v, <1>p DEF AttachedRow, Present
  <2>1. PICK k \in Keys : k = Key(q)
    BY <1>p
  <2>2. /\ Present(k) /\ table[k].id = rid[q] /\ want[rid[q]].fp = want[q].fp
        /\ table[k].state # "reserved" => table[k].age <= RetainFor
        /\ Holding(q) => table[k].dispatched = 1
    BY <2>1, <1>p DEF AttachedRow, Present
  <2>3. Holding(q)' => table'[k].dispatched = 1
    BY <1>k, <1>p, <1>t, <1>s, <2>1, <2>2
  <2> QED
    BY <2>1, <2>2, <2>3, <1>s, ThresholdAssumption DEF Present
<1>5. EffectPlace'
  BY <1>u, <1>v, <1>n DEF EffectPlace
<1>6. OneClaimant'
  BY <1>u, <1>v, <1>p, <1>t, <1>c DEF OneClaimant
<1>7. UndispatchedRow'
  <2> SUFFICES ASSUME NEW k \in Keys, NEW q \in Requests, Present(k)',
                      table'[k].dispatched = 0, rid[q] = table'[k].id
               PROVE  ~Claimant(q)'
    BY <1>u, <1>v DEF UndispatchedRow
  <2>1. table'[k] = table[k] /\ Present(k)
    BY <1>s
  <2>2. ~Claimant(q)
    BY <2>1 DEF UndispatchedRow
  <2>3. q = r => k = c
    BY <2>1, <1>a, <1>k DEF RowIdentity, RidIdentity, Key
  <2> QED
    BY <2>1, <2>2, <2>3, <1>t, <1>p
<1>8. FailedRow'
  <2> SUFFICES ASSUME NEW k \in Keys, NEW q \in Requests, Present(k)',
                      table'[k].state = "failed", rid[q] = table'[k].id
               PROVE  ~MayPublish(q)'
    BY <1>u, <1>v DEF FailedRow
  <2>1. table'[k] = table[k] /\ Present(k)
    BY <1>s
  <2>2. ~MayPublish(q)
    BY <2>1 DEF FailedRow
  <2>3. q = r => k = c
    BY <2>1, <1>a, <1>k DEF RowIdentity, RidIdentity, Key
  <2> QED
    BY <2>1, <2>2, <2>3, <1>t, <1>p
<1>9. CommittedRow'
  BY <1>u, <1>v, <1>s DEF CommittedRow, Present
<1>10. AnswerPlace'
  <2>1. ASSUME NEW q \in Requests, NEW k \in Keys, answer'[q] = "failed",
               Present(k)', table'[k].id = rid[q]
        PROVE  table'[k].state = "failed"
    <3>1. answer[q] = "failed" /\ Present(k) /\ table[k].id = rid[q]
      BY <1>u, <1>v, <1>s, <2>1
    <3>2. table[k].state = "failed"
      BY <3>1 DEF AnswerPlace
    <3> QED
      BY <1>s, <1>c, <3>2
  <2>2. \A q \in Requests : answer'[q] # "none" => pc'[q] = "done"
    BY <1>u, <1>v DEF AnswerPlace
  <2> QED
    BY <1>u, <1>v, <2>1, <2>2 DEF AnswerPlace
<1>11. ASSUME NEW q \in Requests PROVE TrueAnswer(q)'
  <2>1. CASE answer'[q] = answer[q]
    <3>1. ASSUME NEW p \in Requests, answer[q] = "failed", MayPublish(p)',
                 rid[p] = rid[q]
          PROVE  MayPublish(p)
      <4>1. CASE p # r
        BY <1>p, <3>1, <4>1
      <4>2. CASE p = r
        <5>1. table[c].state = "reserved" /\ Present(c) /\ table[c].id = rid[q]
          BY <1>a, <1>c, <1>t, <1>p, <3>1, <4>2
        <5> QED
          BY <3>1, <5>1 DEF AnswerPlace
      <4> QED BY <4>1, <4>2
    <3> QED
      BY <1>u, <1>v, <2>1, <3>1, AnswerStaysTrue DEF ReceiptsTellTheTruth
  <2>2. CASE answer'[q] = "5xx"
    BY <2>2 DEF TrueAnswer
  <2> QED BY <1>u, <1>v, <2>1, <2>2
<1> QED
  BY <1>0, <1>1, <1>2, <1>3, <1>4, <1>5, <1>6, <1>7, <1>8, <1>9, <1>10, <1>11
     DEF ReceiptsTellTheTruth

\* A dispatch, or a death in it, may publish, and only the claimant of a
\* dispatched row that did not fail gets there.
LEMMA PublishKeepsInv ==
    ASSUME GatewayIInv, GatewayTypeOK', NEW r \in Requests,
           UNCHANGED <<table, want, rid, answer, quiet>>,
           pc' = [pc EXCEPT ![r] = pc'[r]],
           effect' = [effect EXCEPT ![r] = effect'[r]],
           \A q \in Requests : q # r => outcome'[q] = outcome[q],
           \/ /\ pc[r] = "dispatch" /\ pc'[r] \in {"mark", "done"}
              /\ pc'[r] = "mark" =>
                    /\ outcome'[r] = "committed" => effect'[r]
                    /\ outcome'[r] = "failed" => ~effect'[r]
           \/ Active(r) /\ pc'[r] = "done" /\ effect'[r] = effect[r]
    PROVE  GatewayIInv'
<1> USE DEF GatewayIInv, GatewayTypeOK
<1>n. effect[r] => effect'[r]
  BY DEF EffectPlace
<1>p. \A p \in Requests : /\ Inserted(p) => Inserted(p)'
                          /\ Holding(p)' => Holding(p)
                          /\ Attached(p)' => Attached(p)
                          /\ Claimant(p)' => Claimant(p)
                          /\ MayPublish(p)' => MayPublish(p)
                          /\ Key(p)' = Key(p) /\ Key(p) \in Keys
                          /\ effect[p] => effect'[p]
  <2>1. \A p \in Requests : p # r => pc'[p] = pc[p] /\ effect'[p] = effect[p]
    OBVIOUS
  <2>2. pc[r] # "idle" /\ (effect'[r] => effect[r] \/ pc[r] = "dispatch")
    BY DEF Active
  <2> QED
    BY <1>n, <2>1, <2>2
       DEF Inserted, Holding, Attached, Claimant, MayPublish, Key, Wants
<1>i. \A k \in Keys : Present(k) => table[k].id \in Requests
  BY DEF Present, Row
<1>1. RowIdentity'
  BY <1>p, <1>i DEF RowIdentity, Inserted, Key, Present
<1>2. RowDispatched'
  BY DEF RowDispatched, Present
<1>3. RidIdentity'
  BY <1>p DEF RidIdentity, Inserted, Key
<1>4. AttachedRow'
  BY <1>p DEF AttachedRow, Present, Key
<1>5. EffectPlace'
  <2>1. pc[r] = "dispatch" => want[rid[r]].fp = want[r].fp
    BY DEF AttachedRow, Attached
  <2> QED
    BY <2>1 DEF EffectPlace
<1>6. OneClaimant'
  BY <1>p DEF OneClaimant
<1>7. UndispatchedRow'
  BY <1>p DEF UndispatchedRow, Present
<1>8. FailedRow'
  BY <1>p DEF FailedRow, Present
<1>9. CommittedRow'
  BY <1>p DEF CommittedRow, Present
<1>10. AnswerPlace'
  BY DEF AnswerPlace, Present, Active
<1>11. ASSUME NEW q \in Requests PROVE TrueAnswer(q)'
  BY <1>p, AnswerStaysTrue DEF ReceiptsTellTheTruth
<1> QED
  BY <1>1, <1>2, <1>3, <1>4, <1>5, <1>6, <1>7, <1>8, <1>9, <1>10, <1>11
     DEF ReceiptsTellTheTruth

LEMMA DispatchActionInv ==
    ASSUME GatewayIInv, NEW r \in Requests, DispatchAction(r) PROVE GatewayIInv'
<1>1. GatewayTypeOK'
  BY StepType DEF GatewayIInv, Step
<1> QED
  BY <1>1, PublishKeepsInv DEF GatewayIInv, GatewayTypeOK, DispatchAction, Goto

LEMMA DieInv == ASSUME GatewayIInv, NEW r \in Requests, Die(r) PROVE GatewayIInv'
<1>1. GatewayTypeOK'
  BY StepType DEF GatewayIInv
<1>2. /\ UNCHANGED <<table, want, rid, answer, quiet>>
      /\ \A q \in Requests : q # r => outcome'[q] = outcome[q]
      /\ pc' = [pc EXCEPT ![r] = pc'[r]] /\ pc'[r] = "done" /\ Active(r)
  BY DEF GatewayIInv, GatewayTypeOK, Die, Goto
<1>3. CASE UNCHANGED effect
  <2>1. effect' = [effect EXCEPT ![r] = effect'[r]] /\ effect'[r] = effect[r]
    BY <1>3 DEF GatewayIInv, GatewayTypeOK
  <2> QED
    BY <1>1, <1>2, <2>1, PublishKeepsInv
<1>4. CASE pc[r] = "dispatch" /\ effect' = [effect EXCEPT ![r] = TRUE]
  <2>1. effect' = [effect EXCEPT ![r] = effect'[r]]
    BY <1>4 DEF GatewayIInv, GatewayTypeOK
  <2> QED
    BY <1>1, <1>2, <1>4, <2>1, PublishKeepsInv
<1> QED
  BY <1>3, <1>4 DEF Die

LEMMA StutterInv == GatewayIInv /\ UNCHANGED vars => GatewayIInv'
BY DEF GatewayIInv, vars, GatewayTypeOK, RowIdentity, RowDispatched, RidIdentity,
       AttachedRow, EffectPlace, OneClaimant, UndispatchedRow, FailedRow,
       CommittedRow, AnswerPlace, ReceiptsTellTheTruth, TrueAnswer, Present, Key,
       Inserted, Attached, Holding, Claimant, MayPublish

LEMMA NextInv == GatewayIInv /\ [Next]_vars => GatewayIInv'
BY ArriveInv, SealInv, ReserveInv, ReadReservationInv, ClaimDispatchInv,
   AnswerFromTableInv, VerifyClaimInv, DispatchActionInv, MarkInv, DieInv,
   CleanupInv, TickInv, StutterInv DEF Next, Step

\* The inductive invariant holds of every behaviour of the gateway.
THEOREM GatewayInvariant == Spec => []GatewayIInv
BY InitInv, NextInv, PTL DEF Spec

\* However many requests race for however many actions, at most one of them
\* gets past claim_dispatch for each row.
THEOREM GatewayPublishesAtMostOnce == Spec => []AtMostOnePublisher
<1>1. GatewayIInv => AtMostOnePublisher
  BY DEF GatewayIInv, OneClaimant, Claimant, Holding, AtMostOnePublisher, MayPublish
<1> QED
  BY <1>1, GatewayInvariant, PTL

\* Every receipt that create_action or get_action answers is true when it is
\* answered and stays true.
THEOREM GatewayReceiptsTellTheTruth == Spec => []ReceiptsTellTheTruth
<1>1. GatewayIInv => ReceiptsTellTheTruth
  BY DEF GatewayIInv
<1> QED
  BY <1>1, GatewayInvariant, PTL

-----------------------------------------------------------------------------
(* Redispatch only after retention.                                        *)

\* A key that was claimed within the retention window still has its dispatched
\* row, and that row is no older than the claim.
QuietKey ==
    \A k \in Keys : quiet[k] <= RetainFor =>
        /\ Present(k)
        /\ table[k].dispatched = 1
        /\ table[k].age <= quiet[k]

RetentionInv == GatewayIInv /\ QuietKey

LEMMA QuietAfterClaim ==
    ASSUME GatewayIInv, QuietKey, NEW r \in Requests, ClaimDispatch(r)
    PROVE  QuietKey'
<1>k. PICK c \in Keys : c = Key(r)
  BY DEF GatewayIInv, GatewayTypeOK, Key, Wants
<1>1. CASE /\ Claimable(c, rid[r])
           /\ table' = [table EXCEPT ![c].state = "processing",
                                     ![c].dispatched = 1, ![c].age = 0]
           /\ quiet' = [quiet EXCEPT ![c] = 0]
  <2>1. table[c] \in Row
    BY <1>1 DEF Claimable, Present, GatewayIInv, GatewayTypeOK
  <2>2. table'[c] = [table[c] EXCEPT !.state = "processing", !.dispatched = 1,
                                     !.age = 0]
    BY <1>1 DEF GatewayIInv, GatewayTypeOK
  <2>3. /\ table'[c] \in Row /\ table'[c].dispatched = 1 /\ table'[c].age = 0
    BY <2>1, <2>2, ClaimedRow
  <2>4. quiet'[c] = 0 /\ \A k \in Keys : k # c => /\ table'[k] = table[k]
                                                 /\ quiet'[k] = quiet[k]
    BY <1>1 DEF GatewayIInv, GatewayTypeOK
  <2> QED
    BY <2>3, <2>4, NoRowAssumption DEF QuietKey, Present
<1>2. CASE UNCHANGED <<table, quiet>>
  BY <1>2 DEF QuietKey, Present
<1> QED
  BY <1>k, <1>1, <1>2 DEF ClaimDispatch, Answer, Claimable, Key, Present

\* What a sealing or a cleanup can leave of the row of a key.
SweptRow(k) ==
    \/ table'[k] = Sealed(k)
    \/ table'[k] = table[k]
    \/ /\ Present(k) /\ table'[k] = NoRow
       /\ table[k].state \in Terminal
       /\ table[k].age > RetainFor

LEMMA SweepsRows ==
    ASSUME GatewayIInv,
           SealStaleRecords \/ \E states \in SUBSET Sealable : CleanupAfter(states)
    PROVE  \A k \in Keys : SweptRow(k)
<1>1. CASE SealStaleRecords
  BY <1>1, SealedInCases DEF SealStaleRecords, SweptRow
<1>2. ASSUME NEW states \in SUBSET Sealable, CleanupAfter(states), NEW k \in Keys
      PROVE  SweptRow(k)
  <2>1. CASE SealedIn(states, k) = table[k]
    BY <1>2, <2>1 DEF CleanupAfter, Retained, SweptRow
  <2>2. CASE SealedIn(states, k) = Sealed(k) /\ Sealed(k) # table[k]
    <3>1. Present(k)
      BY <2>2 DEF Sealed, Present
    <3>2. Sealed(k).age = 0
      BY <2>2, <3>1, SealedFields
    <3> QED
      BY <1>2, <2>2, <3>2, ThresholdAssumption DEF CleanupAfter, Retained, SweptRow
  <2> QED
    BY <2>1, <2>2, SealedInCases
<1> QED
  BY <1>1, <1>2

LEMMA QuietAfterSweep ==
    ASSUME GatewayIInv, QuietKey, quiet' = quiet,
           \A k \in Keys : SweptRow(k)
    PROVE  QuietKey'
<1> SUFFICES ASSUME NEW k \in Keys, quiet[k] <= RetainFor
             PROVE  /\ table'[k] # NoRow
                    /\ table'[k].dispatched = 1
                    /\ table'[k].age <= quiet[k]
  BY DEF QuietKey, Present
<1>1. /\ Present(k) /\ table[k].dispatched = 1 /\ table[k].age <= quiet[k]
      /\ table[k].age \in Nat /\ quiet[k] \in Nat
  BY DEF QuietKey, GatewayIInv, GatewayTypeOK, Present, Row
<1>2. /\ Sealed(k) # NoRow /\ Sealed(k).dispatched = 1
      /\ Sealed(k).age <= quiet[k] /\ Sealed(k).age \in Nat
  BY <1>1, SealedFields
<1>3. table'[k] = Sealed(k) \/ table'[k] = table[k]
  BY <1>1, ThresholdAssumption DEF SweptRow
<1> QED
  BY <1>1, <1>2, <1>3 DEF Present

LEMMA QuietAfterTick ==
    ASSUME GatewayIInv, QuietKey, Tick PROVE QuietKey'
<1> SUFFICES ASSUME NEW k \in Keys, quiet'[k] <= RetainFor
             PROVE  /\ table'[k] # NoRow
                    /\ table'[k].dispatched = 1
                    /\ table'[k].age <= quiet'[k]
  BY DEF QuietKey, Present
<1>1. quiet[k] \in Nat /\ quiet'[k] = Older(quiet[k])
  BY DEF GatewayIInv, GatewayTypeOK, Tick
<1>2. quiet[k] <= RetainFor
  BY <1>1, ThresholdAssumption DEF Older
<1>3. /\ Present(k) /\ table[k].dispatched = 1 /\ table[k].age <= quiet[k]
      /\ table[k] \in Row
  BY <1>2 DEF QuietKey, GatewayIInv, GatewayTypeOK, Present
<1>4. table'[k] = [table[k] EXCEPT !.age = Older(@), !.life = Older(@)]
  BY <1>3 DEF Tick
<1>5. table[k].age \in Nat /\ Older(table[k].age) \in Nat
      /\ Older(table[k].life) \in Nat
  BY <1>3, OlderIsNat DEF Row
<1>6. /\ table'[k] \in Row /\ table'[k].dispatched = 1
      /\ table'[k].age = Older(table[k].age)
  BY <1>3, <1>4, <1>5 DEF Row
<1>7. Older(table[k].age) <= Older(quiet[k])
  BY <1>1, <1>3, <1>5, ThresholdAssumption DEF Older
<1> QED
  BY <1>1, <1>3, <1>6, <1>7, NoRowAssumption

LEMMA QuietAfterRest ==
    ASSUME GatewayIInv, QuietKey, NEW r \in Requests,
           \/ Arrive(r) \/ Reserve(r) \/ ReadReservation(r) \/ AnswerFromTable(r)
           \/ VerifyClaim(r) \/ DispatchAction(r) \/ MarkOutcome(r)
           \/ MarkUnsavedUnknown(r) \/ Die(r)
    PROVE  QuietKey'
<1>k. PICK c \in Keys : c = Key(r)
  BY DEF GatewayIInv, GatewayTypeOK, Key, Wants
<1>q. quiet' = quiet
  BY DEF Arrive, Reserve, ReadReservation, AnswerFromTable, VerifyClaim,
         DispatchAction, MarkOutcome, MarkUnsavedUnknown, Die, Answer
<1>1. CASE UNCHANGED table
  BY <1>1, <1>q DEF QuietKey, Present
<1>2. CASE \E s \in Outcomes : /\ Markable(c, rid[r])
                               /\ table' = [table EXCEPT ![c] = Stamp(@, s)]
  <2>1. PICK s \in Outcomes : /\ Markable(c, rid[r])
                              /\ table' = [table EXCEPT ![c] = Stamp(@, s)]
    BY <1>2
  <2>2. Present(c) /\ table \in [Keys -> Row \cup {NoRow}]
    BY <2>1 DEF Markable, GatewayIInv, GatewayTypeOK
  <2>3. \A k \in Keys : /\ Present(k)' <=> Present(k)
                        /\ Present(k) => table'[k].dispatched = table[k].dispatched
                        /\ k # c => table'[k] = table[k]
                        /\ k = c => table'[k].age = 0
    BY <2>1, <2>2, VerdictStored
  <2> QED
    BY <1>q, <2>3 DEF QuietKey, GatewayIInv, GatewayTypeOK
<1>3. CASE Reserve(r) /\ ~Present(c)
  <2>1. \A k \in Keys : k # c => table'[k] = table[k]
    BY <1>k, <1>3 DEF Reserve, Answer, GatewayIInv, GatewayTypeOK
  <2> QED
    BY <1>3, <1>q, <2>1 DEF QuietKey, Present
<1>4. CASE Reserve(r) /\ Present(c)
  BY <1>k, <1>4, <1>1 DEF Reserve, Present, Key, Answer
<1>5. CASE MarkOutcome(r)
  BY <1>k, <1>5, <1>1, <1>2
     DEF MarkOutcome, GatewayIInv, GatewayTypeOK, Markable, Present, Key
<1>6. CASE MarkUnsavedUnknown(r)
  BY <1>k, <1>6, <1>1, <1>2
     DEF MarkUnsavedUnknown, Outcomes, Markable, Present, Key
<1> QED
  BY <1>1, <1>3, <1>4, <1>5, <1>6
     DEF Arrive, ReadReservation, AnswerFromTable, VerifyClaim, DispatchAction, Die

LEMMA RetentionInductive == RetentionInv /\ [Next]_vars => RetentionInv'
<1> SUFFICES ASSUME GatewayIInv, QuietKey, [Next]_vars PROVE GatewayIInv' /\ QuietKey'
  BY DEF RetentionInv
<1>0. GatewayIInv'
  BY NextInv
<1>1. CASE Cleanup
  BY <1>0, <1>1, QuietAfterSweep, SweepsRows DEF Cleanup, CleanupAfter
<1>2. ASSUME NEW r \in Requests, SealOnEntry(r) \/ SealAfterLostClaim(r)
      PROVE  QuietKey'
  BY <1>2, QuietAfterSweep, SweepsRows DEF SealOnEntry, SealAfterLostClaim
<1>3. CASE UNCHANGED vars
  BY <1>0, <1>3 DEF vars, QuietKey, Present
<1> QED
  BY <1>0, <1>1, <1>2, <1>3, QuietAfterClaim, QuietAfterTick, QuietAfterRest
     DEF Next, Step

\* No public action is dispatched again under the same action id before its
\* earlier record was kept for the whole retention window.
THEOREM GatewayRetention == Spec => RedispatchOnlyAfterRetention
<1>1. Init => RetentionInv
  BY InitInv, ThresholdAssumption DEF RetentionInv, QuietKey, Init
<1>2. RetentionInv /\ [Next]_vars =>
        [\A k \in Keys : (quiet'[k] = 0 /\ quiet[k] # 0) => quiet[k] > RetainFor]_vars
  <2> SUFFICES ASSUME GatewayIInv, QuietKey, Next, NEW k \in Keys,
                      quiet'[k] = 0, quiet[k] # 0
               PROVE  quiet[k] > RetainFor
    BY DEF RetentionInv
  <2>1. quiet[k] \in Nat /\ quiet'[k] # quiet[k]
    BY DEF GatewayIInv, GatewayTypeOK
  <2>2. ~Tick
    <3>1. Tick => quiet'[k] = Older(quiet[k])
      BY DEF Tick
    <3> QED
      BY <2>1, <3>1, ThresholdAssumption DEF Older
  <2>3. PICK r \in Requests : ClaimDispatch(r)
    BY <2>1, <2>2
       DEF Next, Step, Arrive, SealOnEntry, SealAfterLostClaim, Reserve,
           ReadReservation, AnswerFromTable, VerifyClaim, DispatchAction,
           MarkOutcome, MarkUnsavedUnknown, Die, Cleanup, CleanupAfter, Answer
  <2>4. k = Key(r) /\ Claimable(Key(r), rid[r])
    BY <2>1, <2>3 DEF ClaimDispatch, Answer, GatewayIInv, GatewayTypeOK
  <2>5. Claimable(k, rid[r])
    BY <2>4 DEF Claimable, Present
  <2> QED
    BY <2>1, <2>5, ThresholdAssumption DEF QuietKey, Claimable
<1> QED
  BY <1>1, <1>2, RetentionInductive, PTL DEF Spec, RedispatchOnlyAfterRetention


-----------------------------------------------------------------------------
(* The gateway implements the promise.                                     *)

\* What the mapping says of one key.
LEMMA Mapped ==
    ASSUME NEW k \in Keys
    PROVE  /\ ~Present(k) => verdictOf[k] = "absent" /\ ~publishedUnder[k]
           /\ Present(k) =>
                /\ verdictOf[k] = IF table[k].state \in Terminal
                                  THEN table[k].state ELSE "open"
                /\ publishedUnder[k] <=>
                      \E p \in Requests : effect[p] /\ rid[p] = table[k].id
           /\ publishedUnder[k] \in BOOLEAN
BY DEF verdictOf, publishedUnder

\* A step that neither settles nor publishes is a stutter of the promise.
LEMMA StepStutters ==
    ASSUME \A k \in Keys :
              /\ Present(k)' <=> Present(k)
              /\ Present(k) =>
                    /\ table'[k].id = table[k].id
                    /\ \/ table'[k].state = table[k].state
                       \/ /\ table[k].state \notin Terminal
                          /\ table'[k].state \notin Terminal,
           \A p \in Requests : /\ effect'[p] <=> effect[p]
                               /\ effect[p] => rid'[p] = rid[p]
    PROVE  UNCHANGED <<verdictOf, publishedUnder>>
<1>1. \A k \in Keys : Present(k) =>
        (\E p \in Requests : effect'[p] /\ rid'[p] = table'[k].id)
            <=> (\E p \in Requests : effect[p] /\ rid[p] = table[k].id)
  OBVIOUS
<1>2. verdictOf' = verdictOf
  BY DEF verdictOf
<1>3. \A k \in Keys :
        (Present(k)' /\ \E p \in Requests : effect'[p] /\ rid'[p] = table'[k].id)
            <=> (Present(k) /\ \E p \in Requests : effect[p] /\ rid[p] = table[k].id)
  BY <1>1
<1>4. publishedUnder' = publishedUnder
  BY <1>3 DEF publishedUnder
<1> QED
  BY <1>2, <1>4

\* A step that changes the row of one key only changes the promise there.
LEMMA OneKeySettles ==
    ASSUME NEW c \in Keys, NEW v, \A k \in Keys : k # c => table'[k] = table[k],
           verdictOf'[c] = v, publishedUnder'[c] = publishedUnder[c],
           effect' = effect, rid' = rid
    PROVE  Promise!Become(c, v)
<1>1. \A k \in Keys : k # c => Present(k)' = Present(k)
  BY DEF Present
<1>2. verdictOf' = [verdictOf EXCEPT ![c] = v]
  BY <1>1 DEF verdictOf
<1>3. publishedUnder' = publishedUnder
  BY <1>1 DEF publishedUnder
<1> QED
  BY <1>2, <1>3 DEF Promise!Become

\* Sealing and deleting rows is a sweep.
LEMMA SweepRefines ==
    ASSUME GatewayIInv, effect' = effect, rid' = rid,
           \A k \in Keys : SweptRow(k)
    PROVE  Promise!AbstractNext
<1> DEFINE refused == {k \in Keys : /\ Present(k) /\ Expired(table[k])
                                   /\ table'[k] = Sealed(k)}
           givenUp == {k \in Keys : /\ Present(k) /\ Stale(table[k])
                                   /\ table'[k] = Sealed(k)}
           dropped == {k \in Keys : Present(k) /\ ~Present(k)'}
<1>1. ASSUME NEW k \in Keys, Present(k)
      PROVE  /\ table[k] \in Row
             /\ Sealed(k) # NoRow /\ Sealed(k).id = table[k].id
             /\ k \in refused => /\ table[k].state = "reserved"
                                 /\ Sealed(k).state = "failed" /\ Sealed(k).age = 0
             /\ k \in givenUp => /\ table[k].state = "processing"
                                 /\ Sealed(k).state = "unknown" /\ Sealed(k).age = 0
             /\ Present(k)' /\ k \notin refused \cup givenUp => table'[k] = table[k]
  <2>1. table[k] \in Row
    BY <1>1 DEF GatewayIInv, GatewayTypeOK, Present
  <2>2. Expired(table[k]) => Sealed(k).state = "failed" /\ Sealed(k).age = 0
    BY <1>1, <2>1, StampIsRow DEF Sealed, RowStates
  <2>3. Stale(table[k]) => Sealed(k).state = "unknown" /\ Sealed(k).age = 0
    BY <1>1, <2>1, StampIsRow DEF Sealed, RowStates, Stale, Expired
  <2>4. ~Expired(table[k]) /\ ~Stale(table[k]) => Sealed(k) = table[k]
    BY <1>1 DEF Sealed
  <2> QED
    BY <1>1, <2>1, <2>2, <2>3, <2>4, SealedFields
       DEF Expired, Stale, Present, SweptRow
<1>2. ASSUME NEW k \in Keys
      PROVE  /\ ~Present(k) => ~Present(k)'
             /\ Present(k) /\ ~Present(k)' => /\ table[k].state \in Terminal
                                             /\ k \notin refused /\ k \notin givenUp
  <2>1. ~Present(k) => Sealed(k) = NoRow
    BY DEF Sealed
  <2> QED
    BY <1>1, <2>1 DEF SweptRow, Present
<1>3. refused \cap givenUp = {}
  BY DEF Expired, Stale
<1>4. \A k \in refused : verdictOf[k] = "open" /\ ~publishedUnder[k]
  BY <1>1, Mapped DEF GatewayIInv, RowDispatched, UndispatchedRow, Claimant, Terminal
<1>5. \A k \in givenUp : verdictOf[k] = "open"
  BY <1>1, Mapped DEF Terminal
<1>6. ASSUME NEW k \in dropped
      PROVE  /\ verdictOf[k] \in Terminal
             /\ k \notin refused /\ k \notin givenUp
  BY <1>2, Mapped
<1>7. ASSUME NEW k \in Keys
      PROVE  /\ verdictOf'[k] = IF k \in refused THEN "failed"
                                ELSE IF k \in givenUp THEN "unknown"
                                ELSE IF k \in dropped THEN "absent"
                                ELSE verdictOf[k]
             /\ publishedUnder'[k] = IF k \in dropped THEN FALSE
                                     ELSE publishedUnder[k]
  <2>1. CASE ~Present(k)
    BY <2>1, <1>2 DEF verdictOf, publishedUnder, Present
  <2>2. CASE Present(k) /\ ~Present(k)'
    <3>1. k \in dropped /\ k \notin refused /\ k \notin givenUp
      BY <2>2, <1>6
    <3> QED
      BY <2>2, <3>1 DEF verdictOf, publishedUnder
  <2>3. CASE Present(k) /\ Present(k)'
    <3>1. k \notin dropped
      BY <2>3
    <3> QED
      BY <2>3, <3>1, <1>1 DEF verdictOf, publishedUnder, Terminal
  <2> QED BY <2>1, <2>2, <2>3
<1>8. verdictOf' = [k \in Keys |-> IF k \in refused THEN "failed"
                                   ELSE IF k \in givenUp THEN "unknown"
                                   ELSE IF k \in dropped THEN "absent"
                                   ELSE verdictOf[k]]
  BY <1>7 DEF verdictOf
<1>9. publishedUnder' = [k \in Keys |-> IF k \in dropped THEN FALSE
                                        ELSE publishedUnder[k]]
  BY <1>7 DEF publishedUnder
<1>10. Promise!Sweep(refused, givenUp, dropped)
  BY <1>3, <1>4, <1>5, <1>6, <1>8, <1>9 DEF Promise!Sweep, Terminal
<1>11. refused \in SUBSET Keys /\ givenUp \in SUBSET Keys /\ dropped \in SUBSET Keys
  OBVIOUS
<1> QED
  BY <1>10, <1>11 DEF Promise!AbstractNext

LEMMA ReserveRefines ==
    ASSUME GatewayIInv, NEW r \in Requests, Reserve(r)
    PROVE  Promise!AbstractNext \/ UNCHANGED <<verdictOf, publishedUnder>>
<1>k. PICK c \in Keys : c = Key(r)
  BY DEF GatewayIInv, GatewayTypeOK, Key, Wants
<1>u. effect' = effect /\ rid' = rid
  BY DEF Reserve, Answer, local
<1>1. CASE UNCHANGED table
  BY <1>1, <1>u, StepStutters DEF Present
<1>2. CASE ~UNCHANGED table
  <2> DEFINE row == [id |-> r, fp |-> want[r].fp, state |-> "reserved",
                     dispatched |-> 0, age |-> 0, life |-> 0]
  <2>1. ~Present(c) /\ table' = [table EXCEPT ![c] = row]
    BY <1>k, <1>2 DEF Reserve, Present, Key
  <2>2. row \in Row /\ row.id = r /\ row.state = "reserved"
    BY DEF GatewayIInv, GatewayTypeOK, Row, RowStates, Wants
  <2>3. /\ table'[c] = row
        /\ \A k \in Keys : k # c => table'[k] = table[k]
    BY <2>1 DEF GatewayIInv, GatewayTypeOK
  <2>4. \A p \in Requests : rid[p] = r => ~effect[p]
    BY DEF Reserve, GatewayIInv, RidIdentity, Inserted, EffectPlace
  <2>5. Present(c)'
    BY <2>2, <2>3, NoRowAssumption DEF Present
  <2>6. verdictOf'[c] = "open" /\ verdictOf[c] = "absent"
    BY <2>1, <2>2, <2>3, <2>5 DEF verdictOf, Terminal
  <2>7. publishedUnder'[c] = FALSE /\ publishedUnder[c] = FALSE
    BY <1>u, <2>1, <2>2, <2>3, <2>4 DEF publishedUnder
  <2>8. Promise!Open(c)
    BY <1>u, <2>3, <2>6, <2>7, OneKeySettles DEF Promise!Open
  <2> QED
    BY <2>8 DEF Promise!AbstractNext
<1> QED BY <1>1, <1>2

LEMMA MarkRefines ==
    ASSUME GatewayIInv, NEW r \in Requests, MarkOutcome(r) \/ MarkUnsavedUnknown(r)
    PROVE  Promise!AbstractNext \/ UNCHANGED <<verdictOf, publishedUnder>>
<1>k. PICK c \in Keys : c = Key(r)
  BY DEF GatewayIInv, GatewayTypeOK, Key, Wants
<1>u. effect' = effect /\ rid' = rid
  BY DEF MarkOutcome, MarkUnsavedUnknown, local
<1>1. CASE UNCHANGED table
  BY <1>1, <1>u, StepStutters DEF Present
<1>2. CASE \E s \in Outcomes :
              /\ s = "unknown" \/ (pc[r] = "mark" /\ s = outcome[r])
              /\ Markable(c, rid[r])
              /\ table' = [table EXCEPT ![c] = Stamp(@, s)]
  <2>1. PICK s \in Outcomes :
              /\ s = "unknown" \/ (pc[r] = "mark" /\ s = outcome[r])
              /\ Markable(c, rid[r])
              /\ table' = [table EXCEPT ![c] = Stamp(@, s)]
    BY <1>2
  <2>2. /\ Present(c) /\ table[c].id = rid[r] /\ table[c].state = "processing"
        /\ table \in [Keys -> Row \cup {NoRow}]
    BY <2>1 DEF Markable, GatewayIInv, GatewayTypeOK
  <2>3. /\ Present(c)' /\ table'[c].id = table[c].id /\ table'[c].state = s
        /\ \A k \in Keys : k # c => table'[k] = table[k]
    BY <2>1, <2>2, VerdictStored
  <2>4. verdictOf[c] = "open" /\ verdictOf'[c] = s
    BY <2>2, <2>3 DEF verdictOf, Terminal, Outcomes
  <2>5. publishedUnder'[c] = publishedUnder[c]
    BY <1>u, <2>2, <2>3 DEF publishedUnder
  <2>6. Promise!Become(c, s)
    BY <1>u, <2>3, <2>4, <2>5, OneKeySettles
  <2>7. s = "committed" => publishedUnder[c]
    BY <2>1, <2>2 DEF publishedUnder, GatewayIInv, EffectPlace
  <2>8. s = "failed" => ~publishedUnder[c]
    <3>1. s = "failed" => ~effect[r] /\ pc[r] = "mark"
      BY <2>1 DEF GatewayIInv, EffectPlace
    <3>2. s = "failed" => \A p \in Requests : rid[p] = rid[r] => ~effect[p]
      BY <3>1 DEF GatewayIInv, OneClaimant, Claimant, Holding
    <3> QED
      BY <2>2, <3>2 DEF publishedUnder
  <2>9. Promise!Commit(c) \/ Promise!Refuse(c) \/ Promise!GiveUp(c)
    BY <2>4, <2>6, <2>7, <2>8
       DEF Promise!Commit, Promise!Refuse, Promise!GiveUp, Outcomes
  <2> QED
    BY <2>9 DEF Promise!AbstractNext
<1>3. CASE MarkOutcome(r)
  BY <1>k, <1>3, <1>1, <1>2
     DEF MarkOutcome, GatewayIInv, GatewayTypeOK, Markable, Present, Key
<1>4. CASE MarkUnsavedUnknown(r)
  BY <1>k, <1>4, <1>1, <1>2 DEF MarkUnsavedUnknown, Outcomes, Markable, Present, Key
<1> QED BY <1>3, <1>4

\* The write itself, whether its process lives to record it or not.
LEMMA PublishRefines ==
    ASSUME GatewayIInv, NEW r \in Requests, DispatchAction(r) \/ Die(r)
    PROVE  Promise!AbstractNext \/ UNCHANGED <<verdictOf, publishedUnder>>
<1>k. PICK c \in Keys : c = Key(r)
  BY DEF GatewayIInv, GatewayTypeOK, Key, Wants
<1>u. /\ table' = table /\ rid' = rid
      /\ effect' = [effect EXCEPT ![r] = effect'[r]]
      /\ pc[r] = "dispatch" \/ effect'[r] = effect[r]
      /\ effect'[r] \in BOOLEAN
  BY DEF DispatchAction, Die, GatewayIInv, GatewayTypeOK
<1>1. CASE effect'[r] = effect[r]
  <2>1. \A p \in Requests : effect'[p] = effect[p]
    BY <1>1, <1>u DEF GatewayIInv, GatewayTypeOK
  <2> QED
    BY <1>u, <2>1, StepStutters DEF Present
<1>2. CASE effect'[r] # effect[r]
  <2>1. pc[r] = "dispatch" /\ ~effect[r] /\ effect'[r]
    BY <1>2, <1>u DEF GatewayIInv, GatewayTypeOK, EffectPlace
  <2>2. /\ Present(c) /\ table[c].id = rid[r] /\ table[c].dispatched = 1
        /\ table[c].state \in RowStates
    BY <1>k, <2>1
       DEF GatewayIInv, GatewayTypeOK, AttachedRow, Attached, Holding, Present, Row, Key
  <2>3. \A p \in Requests : effect[p] => rid[p] # rid[r]
    BY <2>1 DEF GatewayIInv, OneClaimant, Claimant, Holding
  <2>4. /\ table[c].state # "failed"
        /\ table[c].state # "committed"
        /\ table[c].state # "reserved"
    BY <2>1, <2>2, <2>3
       DEF GatewayIInv, FailedRow, MayPublish, CommittedRow, RowDispatched
  <2>5. verdictOf[c] \in {"open", "unknown"} /\ ~publishedUnder[c]
    BY <2>2, <2>3, <2>4 DEF verdictOf, publishedUnder, Terminal, RowStates
  <2>6. verdictOf' = verdictOf
    BY <1>u DEF verdictOf, Present
  <2>7. ASSUME NEW k \in Keys, k # c, Present(k)
        PROVE  table[k].id # rid[r]
    BY <1>k, <2>7 DEF GatewayIInv, RowIdentity, RidIdentity, Key
  <2>8. \A p \in Requests : p # r => effect'[p] = effect[p]
    BY <1>u DEF GatewayIInv, GatewayTypeOK
  <2>9. publishedUnder' = [publishedUnder EXCEPT ![c] = TRUE]
    <3>1. ASSUME NEW k \in Keys
          PROVE  (Present(k)' /\ \E p \in Requests : effect'[p] /\ rid'[p] = table'[k].id)
                   = IF k = c THEN TRUE
                     ELSE Present(k) /\ \E p \in Requests : effect[p] /\ rid[p] = table[k].id
      <4>1. CASE k = c
        BY <4>1, <1>u, <2>1, <2>2 DEF Present
      <4>2. CASE k # c
        <5>1. Present(k)' = Present(k)
          BY <1>u DEF Present
        <5>2. ASSUME Present(k)
              PROVE  (\E p \in Requests : effect'[p] /\ rid'[p] = table'[k].id)
                       <=> (\E p \in Requests : effect[p] /\ rid[p] = table[k].id)
          BY <1>u, <2>1, <2>7, <2>8, <4>2, <5>2
        <5> QED
          BY <4>2, <5>1, <5>2
      <4> QED BY <4>1, <4>2
    <3> QED
      BY <3>1 DEF publishedUnder
  <2>10. Promise!Publish(c)
    BY <2>5, <2>6, <2>9 DEF Promise!Publish
  <2> QED
    BY <2>10 DEF Promise!AbstractNext
<1> QED BY <1>1, <1>2

LEMMA RestStutters ==
    ASSUME GatewayIInv, NEW r \in Requests,
           \/ Arrive(r) \/ ReadReservation(r) \/ ClaimDispatch(r)
           \/ AnswerFromTable(r) \/ VerifyClaim(r)
    PROVE  UNCHANGED <<verdictOf, publishedUnder>>
<1>k. PICK c \in Keys : c = Key(r)
  BY DEF GatewayIInv, GatewayTypeOK, Key, Wants
<1>1. effect' = effect
  BY DEF Arrive, ReadReservation, ClaimDispatch, AnswerFromTable, VerifyClaim,
         Answer, local
<1>2. rid' = rid
      \/ /\ Present(c) /\ rid' = [rid EXCEPT ![r] = table[c].id]
         /\ pc[r] \in {"read", "reread", "final", "lookup", "verify"}
  BY <1>k DEF Arrive, ReadReservation, ClaimDispatch, AnswerFromTable,
              VerifyClaim, Answer, local, Present, Key
<1>3. ASSUME NEW p \in Requests, effect[p] PROVE rid'[p] = rid[p]
  <2>1. CASE rid' = rid
    BY <2>1
  <2>2. CASE /\ Present(c) /\ rid' = [rid EXCEPT ![r] = table[c].id]
             /\ pc[r] \in {"read", "reread", "final", "lookup", "verify"}
    <3>1. p = r => pc[r] = "final"
      BY <1>3, <2>2 DEF GatewayIInv, EffectPlace
    <3>2. p = r => table[c].id = rid[r]
      BY <1>k, <3>1 DEF GatewayIInv, AttachedRow, Attached, Key
    <3> QED
      BY <2>2, <3>2 DEF GatewayIInv, GatewayTypeOK
  <2> QED BY <1>2, <2>1, <2>2
<1>4. CASE UNCHANGED table
  BY <1>1, <1>3, <1>4, StepStutters DEF Present
<1>5. CASE /\ Claimable(c, rid[r])
           /\ table' = [table EXCEPT ![c].state = "processing",
                                     ![c].dispatched = 1, ![c].age = 0]
  <2>1. table[c] \in Row /\ Present(c) /\ table[c].state = "reserved"
    BY <1>5 DEF Claimable, Present, GatewayIInv, GatewayTypeOK
  <2>2. table'[c] = [table[c] EXCEPT !.state = "processing", !.dispatched = 1,
                                     !.age = 0]
    BY <1>5 DEF GatewayIInv, GatewayTypeOK
  <2>3. table'[c] \in Row /\ table'[c].id = table[c].id
        /\ table'[c].state = "processing"
    BY <2>1, <2>2, ClaimedRow
  <2>4. \A k \in Keys : k # c => table'[k] = table[k]
    BY <1>5 DEF GatewayIInv, GatewayTypeOK
  <2> QED
    BY <1>1, <1>3, <2>1, <2>3, <2>4, StepStutters, NoRowAssumption
       DEF Present, Terminal
<1> QED
  BY <1>k, <1>4, <1>5
     DEF Arrive, ReadReservation, ClaimDispatch, AnswerFromTable, VerifyClaim,
         Answer, Claimable, Present, Key

LEMMA TickStutters ==
    ASSUME GatewayIInv, Tick PROVE UNCHANGED <<verdictOf, publishedUnder>>
<1>1. effect' = effect /\ rid' = rid
  BY DEF Tick, local
<1>2. ASSUME NEW k \in Keys
      PROVE  /\ Present(k)' <=> Present(k)
             /\ Present(k) => /\ table'[k].id = table[k].id
                              /\ table'[k].state = table[k].state
  <2>1. CASE ~Present(k)
    BY <2>1 DEF Tick, Present
  <2>2. CASE Present(k)
    <3>1. table[k] \in Row
      BY <2>2 DEF GatewayIInv, GatewayTypeOK, Present
    <3>2. table'[k] = [table[k] EXCEPT !.age = Older(@), !.life = Older(@)]
      BY <2>2 DEF Tick
    <3>3. table'[k] \in Row
      BY <3>1, <3>2, OlderIsNat DEF Row
    <3> QED
      BY <2>2, <3>1, <3>2, <3>3, NoRowAssumption DEF Row, Present
  <2> QED BY <2>1, <2>2
<1> QED
  BY <1>1, <1>2, StepStutters

\* Seen through the verdict a row carries and the object published under it,
\* the gateway behaves as AtMostOnceAction promises.
THEOREM GatewayKeepsPromise == Spec => KeepsPromise
<1>1. Init => Promise!AbstractInit
  BY DEF Init, Promise!AbstractInit, verdictOf, publishedUnder, Present
<1>2. GatewayIInv /\ [Next]_vars
        => [Promise!AbstractNext]_<<verdictOf, publishedUnder>>
  <2> SUFFICES ASSUME GatewayIInv, [Next]_vars
               PROVE  Promise!AbstractNext \/ UNCHANGED <<verdictOf, publishedUnder>>
    OBVIOUS
  <2>1. ASSUME NEW r \in Requests, Arrive(r) \/ Step(r) \/ Die(r)
        PROVE  Promise!AbstractNext \/ UNCHANGED <<verdictOf, publishedUnder>>
    <3>1. CASE SealOnEntry(r) \/ SealAfterLostClaim(r)
      BY <3>1, SweepRefines, SweepsRows DEF SealOnEntry, SealAfterLostClaim, local
    <3> QED
      BY <2>1, <3>1, ReserveRefines, MarkRefines, PublishRefines, RestStutters DEF Step
  <2>2. CASE Cleanup
    BY <2>2, SweepRefines, SweepsRows DEF Cleanup, CleanupAfter, local
  <2>3. CASE Tick
    BY <2>3, TickStutters
  <2>4. CASE UNCHANGED vars
    BY <2>4 DEF vars, verdictOf, publishedUnder, Present
  <2> QED
    BY <2>1, <2>2, <2>3, <2>4 DEF Next
<1> QED
  BY <1>1, <1>2, GatewayInvariant, PTL
     DEF Spec, KeepsPromise, Promise!AbstractSpec, Promise!abstractVars

\* What the promise is worth to a client that knows nothing else: a record that says
\* "committed" or "failed" says the truth, at every moment of its life (mark_committed,
\* mark_failed, seal_stale).
THEOREM PromiseMeansTruth == KeepsPromise => []Promise!TrueVerdicts
<1> DEFINE Shape == publishedUnder = [k \in Keys |-> publishedUnder[k]]
                    /\ verdictOf = [k \in Keys |-> verdictOf[k]]
<1>0. []Shape
  <2>1. Shape
    BY DEF publishedUnder, verdictOf
  <2> QED  BY <2>1, PTL
<1>1. Promise!AbstractInit => Promise!TrueVerdicts
  BY DEF Promise!AbstractInit, Promise!TrueVerdicts
<1>2. Shape /\ Shape' /\ Promise!TrueVerdicts /\ [Promise!AbstractNext]_<<verdictOf, publishedUnder>>
        => Promise!TrueVerdicts'
  <2> SUFFICES ASSUME Shape, Shape', Promise!TrueVerdicts,
                      [Promise!AbstractNext]_<<verdictOf, publishedUnder>>, NEW k \in Keys
               PROVE  /\ verdictOf'[k] = "committed" => publishedUnder'[k]
                      /\ verdictOf'[k] = "failed" => ~publishedUnder'[k]
    BY DEF Promise!TrueVerdicts
  <2>0. /\ verdictOf[k] = "committed" => publishedUnder[k]
        /\ verdictOf[k] = "failed" => ~publishedUnder[k]
    BY DEF Promise!TrueVerdicts
  <2> HIDE DEF Shape
  <2>1. CASE UNCHANGED <<verdictOf, publishedUnder>>
    BY <2>0, <2>1
  <2>2. ASSUME NEW j \in Keys, Promise!Open(j) \/ Promise!GiveUp(j)
        PROVE  /\ verdictOf'[k] = "committed" => publishedUnder'[k]
               /\ verdictOf'[k] = "failed" => ~publishedUnder'[k]
    BY <2>0, <2>2 DEF Promise!Open, Promise!GiveUp, Promise!Become, Shape
  <2>3. ASSUME NEW j \in Keys, Promise!Publish(j)
        PROVE  /\ verdictOf'[k] = "committed" => publishedUnder'[k]
               /\ verdictOf'[k] = "failed" => ~publishedUnder'[k]
    BY <2>0, <2>3 DEF Promise!Publish, Shape
  <2>4. ASSUME NEW j \in Keys, Promise!Commit(j) \/ Promise!Refuse(j)
        PROVE  /\ verdictOf'[k] = "committed" => publishedUnder'[k]
               /\ verdictOf'[k] = "failed" => ~publishedUnder'[k]
    BY <2>0, <2>4 DEF Promise!Commit, Promise!Refuse, Promise!Become, Shape
  <2>5. ASSUME NEW refused \in SUBSET Keys, NEW givenUp \in SUBSET Keys, NEW dropped \in SUBSET Keys,
               Promise!Sweep(refused, givenUp, dropped)
        PROVE  /\ verdictOf'[k] = "committed" => publishedUnder'[k]
               /\ verdictOf'[k] = "failed" => ~publishedUnder'[k]
    BY <2>0, <2>5 DEF Promise!Sweep
  <2> QED  BY <2>1, <2>2, <2>3, <2>4, <2>5 DEF Promise!AbstractNext
<1> QED
  BY <1>0, <1>1, <1>2, PTL DEF KeepsPromise, Promise!AbstractSpec, Promise!abstractVars

\* And it says it for good: no late request, sealing or cleanup turns one verdict into
\* another.
THEOREM PromiseMeansFinality == KeepsPromise => Promise!FinalVerdicts
<1> DEFINE Shape == verdictOf = [k \in Keys |-> verdictOf[k]]
<1>0. []Shape
  <2>1. Shape
    BY DEF verdictOf
  <2> QED  BY <2>1, PTL
<1>1. Shape /\ [Promise!AbstractNext]_<<verdictOf, publishedUnder>>
        => [\A k \in Keys : verdictOf[k] \in {"committed", "failed", "unknown"} =>
                verdictOf'[k] \in {verdictOf[k], "absent"}]_<<verdictOf, publishedUnder>>
  <2> SUFFICES ASSUME Shape, Promise!AbstractNext, NEW k \in Keys,
                      verdictOf[k] \in {"committed", "failed", "unknown"}
               PROVE  verdictOf'[k] \in {verdictOf[k], "absent"}
    OBVIOUS
  <2> HIDE DEF Shape
  <2>1. ASSUME NEW j \in Keys, Promise!Open(j) \/ Promise!Publish(j) \/ Promise!Commit(j)
                               \/ Promise!Refuse(j) \/ Promise!GiveUp(j)
        PROVE  verdictOf'[k] = verdictOf[k]
    BY <2>1 DEF Promise!Open, Promise!Publish, Promise!Commit, Promise!Refuse, Promise!GiveUp,
                Promise!Become, Shape
  <2>2. ASSUME NEW refused \in SUBSET Keys, NEW givenUp \in SUBSET Keys, NEW dropped \in SUBSET Keys,
               Promise!Sweep(refused, givenUp, dropped)
        PROVE  verdictOf'[k] \in {verdictOf[k], "absent"}
    BY <2>2 DEF Promise!Sweep
  <2> QED  BY <2>1, <2>2 DEF Promise!AbstractNext
<1> QED
  BY <1>0, <1>1, PTL
     DEF KeepsPromise, Promise!AbstractSpec, Promise!FinalVerdicts, Promise!abstractVars
=============================================================================

------------------------- MODULE AuthorityChainProofs -------------------------
(* Theorems about AuthorityChain.                                          *)
EXTENDS AuthorityChain, TLAPS

-----------------------------------------------------------------------------
(* What is known of a document once it has been accepted, whatever the     *)
(* clock shows by now.                                                     *)

DecisionSound ==
    \A d \in DecisionIds : decision[d] # None =>
        LET q == request[decision[d].request]
        IN  /\ q # None
            /\ q.requested <= decision[d].decided
            /\ decision[d].expires <= q.expires
            /\ q.expires - q.requested <= MaxReview
            /\ Narrower(decision[d].limits, q.limits)
            /\ binding.issued <= decision[d].decided /\ decision[d].decided < binding.expires

LeaseSound ==
    \A l \in LeaseIds : lease[l] # None =>
        LET d == decision[lease[l].decision]
        IN  /\ d # None
            /\ d.decided <= lease[l].issued
            /\ lease[l].expires <= d.expires
            /\ lease[l].limits = d.limits

IntentSound == \A i \in IntentIds : intent[i] # None => lease[intent[i].lease] # None

ReceiptSound ==
    \A i \in IntentIds : receipts[i] # <<>> =>
        /\ intent[i] # None
        /\ lease[intent[i].lease].issued <= receipts[i][1].recorded
        /\ receipts[i][1].recorded < lease[intent[i].lease].expires
        /\ binding.issued <= receipts[i][1].recorded
        /\ receipts[i][1].recorded < binding.expires

SetsSound ==
    /\ \A l \in issuance : lease[l] # None
    /\ DistinctRequests(issuance)
    /\ \A i \in reservations : intent[i] # None
    /\ DistinctLeases(reservations)

AuthorityInv ==
    /\ AuthorityTypeOK
    /\ DecisionSound
    /\ LeaseSound
    /\ IntentSound
    /\ ReceiptSound
    /\ SetsSound

\* A document that was accepted stays as it is.
Kept(old, new, Ids) == \A id \in Ids : old[id] # None => new[id] = old[id]

DocumentsKept ==
    /\ Kept(request, request', RequestIds)
    /\ Kept(decision, decision', DecisionIds)
    /\ Kept(lease, lease', LeaseIds)
    /\ Kept(intent, intent', IntentIds)
    /\ binding' = binding

LEMMA NoneIsNoDocument ==
    ASSUME AuthorityTypeOK
    PROVE  /\ \A q \in RequestIds : request[q] # None => request[q] \in Requests
           /\ \A d \in DecisionIds : decision[d] # None => decision[d] \in Decisions
           /\ \A l \in LeaseIds : lease[l] # None => lease[l] \in Leases
           /\ \A i \in IntentIds : intent[i] # None => intent[i] \in Intents
  BY DEF AuthorityTypeOK

LEMMA StepsKeepDocuments ==
    ASSUME AuthorityTypeOK, [AuthorityNext]_authorityVars
    PROVE  DocumentsKept
<1>1. CASE Tick
  BY <1>1 DEF Tick, documents, DocumentsKept, Kept
<1>2. ASSUME NEW id \in RequestIds, ShowRequest(id) PROVE DocumentsKept
  BY <1>2 DEF ShowRequest, DocumentsKept, Kept, AuthorityTypeOK
<1>3. ASSUME NEW id \in DecisionIds, ShowDecision(id) PROVE DocumentsKept
  BY <1>3 DEF ShowDecision, DocumentsKept, Kept, AuthorityTypeOK
<1>4. ASSUME NEW id \in LeaseIds, ShowLease(id) PROVE DocumentsKept
  BY <1>4 DEF ShowLease, DocumentsKept, Kept, AuthorityTypeOK
<1>5. ASSUME NEW id \in IntentIds, ShowIntent(id) PROVE DocumentsKept
  BY <1>5 DEF ShowIntent, DocumentsKept, Kept, AuthorityTypeOK
<1>6. ASSUME NEW id \in IntentIds, ShowChain(id) PROVE DocumentsKept
  BY <1>6 DEF ShowChain, documents, DocumentsKept, Kept
<1>7. ASSUME NEW leases \in SUBSET LeaseIds, ShowIssuance(leases) PROVE DocumentsKept
  BY <1>7 DEF ShowIssuance, documents, DocumentsKept, Kept
<1>8. ASSUME NEW intents \in SUBSET IntentIds, ShowReservations(intents) PROVE DocumentsKept
  BY <1>8 DEF ShowReservations, documents, DocumentsKept, Kept
<1>9. CASE UNCHANGED authorityVars
  BY <1>9 DEF authorityVars, documents, DocumentsKept, Kept
<1> QED
  BY <1>1, <1>2, <1>3, <1>4, <1>5, <1>6, <1>7, <1>8, <1>9 DEF AuthorityNext

-----------------------------------------------------------------------------
(* Type correctness.                                                       *)

\* A chain has a first receipt.
LEMMA ChainBegins ==
    ASSUME NEW chain \in Chains
    PROVE  chain[1] \in Receipts
<1>1. PICK n \in 1..2 : chain \in [1..n -> Receipts]
  BY DEF Chains
<1>2. 1 \in 1..n
  OBVIOUS
<1> QED
  BY <1>1, <1>2

LEMMA TypeInit == AuthorityInit => AuthorityTypeOK
  BY AuthorityAssumption DEF AuthorityInit, AuthorityTypeOK, Times

LEMMA TypeStep ==
    ASSUME AuthorityTypeOK, [AuthorityNext]_authorityVars
    PROVE  AuthorityTypeOK'
<1> USE DEF AuthorityTypeOK
<1>1. CASE Tick
  BY <1>1, AuthorityAssumption DEF Tick, documents, Times
<1>2. ASSUME NEW id \in RequestIds, ShowRequest(id) PROVE AuthorityTypeOK'
  BY <1>2 DEF ShowRequest
<1>3. ASSUME NEW id \in DecisionIds, ShowDecision(id) PROVE AuthorityTypeOK'
  BY <1>3 DEF ShowDecision
<1>4. ASSUME NEW id \in LeaseIds, ShowLease(id) PROVE AuthorityTypeOK'
  BY <1>4 DEF ShowLease
<1>5. ASSUME NEW id \in IntentIds, ShowIntent(id) PROVE AuthorityTypeOK'
  BY <1>5 DEF ShowIntent
<1>6. ASSUME NEW id \in IntentIds, ShowChain(id) PROVE AuthorityTypeOK'
  BY <1>6, ChainsAssumption DEF ShowChain, documents
<1>7. ASSUME NEW leases \in SUBSET LeaseIds, ShowIssuance(leases) PROVE AuthorityTypeOK'
  BY <1>7 DEF ShowIssuance, documents
<1>8. ASSUME NEW intents \in SUBSET IntentIds, ShowReservations(intents) PROVE AuthorityTypeOK'
  BY <1>8 DEF ShowReservations, documents
<1>9. CASE UNCHANGED authorityVars
  BY <1>9 DEF authorityVars, documents
<1> QED
  BY <1>1, <1>2, <1>3, <1>4, <1>5, <1>6, <1>7, <1>8, <1>9 DEF AuthorityNext

-----------------------------------------------------------------------------
(* The documents.                                                          *)

\* A decision is accepted against a request that is known and stays.
LEMMA DecisionStep ==
    ASSUME AuthorityInv, [AuthorityNext]_authorityVars
    PROVE  DecisionSound'
<1>1. DocumentsKept /\ AuthorityTypeOK /\ AuthorityTypeOK'
  BY StepsKeepDocuments, TypeStep DEF AuthorityInv
<1> SUFFICES ASSUME NEW d \in DecisionIds, decision'[d] # None
             PROVE  LET q == request'[decision'[d].request]
                    IN  /\ q # None
                        /\ q.requested <= decision'[d].decided
                        /\ decision'[d].expires <= q.expires
                        /\ q.expires - q.requested <= MaxReview
                        /\ Narrower(decision'[d].limits, q.limits)
                        /\ binding'.issued <= decision'[d].decided
                        /\ decision'[d].decided < binding'.expires
  BY DEF DecisionSound
<1>2. CASE decision[d] # None
  <2>1. decision'[d] = decision[d] /\ decision[d].request \in RequestIds
    BY <1>1, <1>2, NoneIsNoDocument DEF DocumentsKept, Kept, Decisions
  <2>2. request'[decision[d].request] = request[decision[d].request]
    BY <1>1, <1>2, <2>1 DEF DocumentsKept, Kept, AuthorityInv, DecisionSound
  <2> QED
    BY <1>1, <1>2, <2>1, <2>2 DEF AuthorityInv, DecisionSound, DocumentsKept
<1>3. CASE decision[d] = None
  <2>1. PICK id \in DecisionIds : ShowDecision(id)
    BY <1>3, <1>1 DEF AuthorityNext, authorityVars, documents, Tick, ShowRequest, ShowLease,
              ShowIntent, ShowChain, ShowIssuance, ShowReservations
  <2>2. PICK e \in Decisions :
            /\ request[e.request] # None
            /\ ValidDecision(e, request[e.request], clock)
            /\ decision' = [decision EXCEPT ![id] = e]
    BY <2>1 DEF ShowDecision
  <2>3. decision'[d] = e /\ request' = request /\ binding' = binding
    BY <1>1, <1>3, <2>1, <2>2 DEF ShowDecision, AuthorityTypeOK
  <2> QED
    BY <2>2, <2>3 DEF ValidDecision, ValidRequest, WithinReview, BindingLive
<1> QED
  BY <1>2, <1>3

LEMMA LeaseStep ==
    ASSUME AuthorityInv, [AuthorityNext]_authorityVars
    PROVE  LeaseSound'
<1>1. DocumentsKept /\ AuthorityTypeOK /\ AuthorityTypeOK'
  BY StepsKeepDocuments, TypeStep DEF AuthorityInv
<1> SUFFICES ASSUME NEW l \in LeaseIds, lease'[l] # None
             PROVE  LET d == decision'[lease'[l].decision]
                    IN  /\ d # None
                        /\ d.decided <= lease'[l].issued
                        /\ lease'[l].expires <= d.expires
                        /\ lease'[l].limits = d.limits
  BY DEF LeaseSound
<1>2. CASE lease[l] # None
  <2>1. lease'[l] = lease[l] /\ lease[l].decision \in DecisionIds
    BY <1>1, <1>2, NoneIsNoDocument DEF DocumentsKept, Kept, Leases
  <2>2. decision'[lease[l].decision] = decision[lease[l].decision]
    BY <1>1, <1>2, <2>1 DEF DocumentsKept, Kept, AuthorityInv, LeaseSound
  <2> QED
    BY <1>2, <2>1, <2>2 DEF AuthorityInv, LeaseSound
<1>3. CASE lease[l] = None
  <2>1. PICK id \in LeaseIds : ShowLease(id)
    BY <1>3, <1>1 DEF AuthorityNext, authorityVars, documents, Tick, ShowRequest, ShowDecision,
              ShowIntent, ShowChain, ShowIssuance, ShowReservations
  <2>2. PICK k \in Leases : ValidLease(k, clock) /\ lease' = [lease EXCEPT ![id] = k]
    BY <2>1 DEF ShowLease
  <2>3. lease'[l] = k /\ decision' = decision
    BY <1>1, <1>3, <2>1, <2>2 DEF ShowLease, AuthorityTypeOK
  <2> QED
    BY <2>2, <2>3 DEF ValidLease, ValidDecision, WithinDecision
<1> QED
  BY <1>2, <1>3

LEMMA IntentStep ==
    ASSUME AuthorityInv, [AuthorityNext]_authorityVars
    PROVE  IntentSound'
<1>1. DocumentsKept /\ AuthorityTypeOK /\ AuthorityTypeOK'
  BY StepsKeepDocuments, TypeStep DEF AuthorityInv
<1> SUFFICES ASSUME NEW i \in IntentIds, intent'[i] # None
             PROVE  lease'[intent'[i].lease] # None
  BY DEF IntentSound
<1>2. CASE intent[i] # None
  <2>1. intent'[i] = intent[i] /\ intent[i].lease \in LeaseIds
    BY <1>1, <1>2, NoneIsNoDocument DEF DocumentsKept, Kept, Intents
  <2> QED
    BY <1>1, <1>2, <2>1 DEF AuthorityInv, IntentSound, DocumentsKept, Kept
<1>3. CASE intent[i] = None
  <2>1. PICK id \in IntentIds : ShowIntent(id)
    BY <1>3, <1>1 DEF AuthorityNext, authorityVars, documents, Tick, ShowRequest, ShowDecision,
              ShowLease, ShowChain, ShowIssuance, ShowReservations
  <2>2. PICK j \in Intents : ValidIntent(j, clock) /\ intent' = [intent EXCEPT ![id] = j]
    BY <2>1 DEF ShowIntent
  <2>3. intent'[i] = j /\ lease' = lease
    BY <1>1, <1>3, <2>1, <2>2 DEF ShowIntent, AuthorityTypeOK
  <2> QED
    BY <2>2, <2>3 DEF ValidIntent
<1> QED
  BY <1>2, <1>3

\* The documents that an accepted receipt rests on are known, and stay.
LEMMA ReceiptStep ==
    ASSUME AuthorityInv, [AuthorityNext]_authorityVars
    PROVE  ReceiptSound'
<1>1. DocumentsKept /\ AuthorityTypeOK /\ AuthorityTypeOK'
  BY StepsKeepDocuments, TypeStep DEF AuthorityInv
<1> SUFFICES ASSUME NEW i \in IntentIds, receipts'[i] # <<>>
             PROVE  /\ intent'[i] # None
                    /\ lease'[intent'[i].lease].issued <= receipts'[i][1].recorded
                    /\ receipts'[i][1].recorded < lease'[intent'[i].lease].expires
                    /\ binding'.issued <= receipts'[i][1].recorded
                    /\ receipts'[i][1].recorded < binding'.expires
  BY DEF ReceiptSound
<1>2. ASSUME intent[i] # None
      PROVE  /\ intent'[i] = intent[i]
             /\ lease'[intent[i].lease] = lease[intent[i].lease]
  <2>1. intent'[i] = intent[i] /\ intent[i].lease \in LeaseIds
    BY <1>1, <1>2, NoneIsNoDocument DEF DocumentsKept, Kept, Intents
  <2> QED
    BY <1>1, <1>2, <2>1 DEF AuthorityInv, IntentSound, DocumentsKept, Kept
<1>3. CASE receipts'[i] = receipts[i]
  BY <1>1, <1>2, <1>3 DEF AuthorityInv, ReceiptSound, DocumentsKept
<1>4. CASE receipts'[i] # receipts[i]
  <2>1. PICK id \in IntentIds : ShowChain(id)
    BY <1>4 DEF AuthorityNext, authorityVars, documents, Tick, ShowRequest, ShowDecision,
              ShowLease, ShowIntent, ShowIssuance, ShowReservations
  <2>2. PICK chain \in ChainsShown :
            /\ ValidChain(intent[id], chain)
            /\ receipts' = [receipts EXCEPT ![id] = chain]
    BY <2>1 DEF ShowChain
  <2>3. id = i /\ receipts'[i] = chain /\ intent[i] # None
    BY <1>1, <1>4, <2>1, <2>2 DEF ShowChain, AuthorityTypeOK
  <2>4. ValidIntent(intent[i], receipts'[i][1].recorded)
    BY <2>2, <2>3 DEF ValidChain
  <2>5. /\ lease[intent[i].lease].issued <= receipts'[i][1].recorded
        /\ receipts'[i][1].recorded < lease[intent[i].lease].expires
        /\ BindingLive(receipts'[i][1].recorded)
    BY <2>4 DEF ValidIntent, ValidLease
  <2> QED
    BY <1>1, <1>2, <2>3, <2>5 DEF DocumentsKept, BindingLive
<1> QED
  BY <1>3, <1>4

LEMMA SetsStep ==
    ASSUME AuthorityInv, [AuthorityNext]_authorityVars
    PROVE  SetsSound'
<1>1. DocumentsKept /\ AuthorityTypeOK /\ AuthorityTypeOK'
  BY StepsKeepDocuments, TypeStep DEF AuthorityInv
<1>2. ASSUME NEW leases \in SUBSET LeaseIds, \A l \in leases : lease[l] # None,
             DistinctRequests(leases)
      PROVE  /\ \A l \in leases : lease'[l] # None
             /\ \A k, l \in leases :
                    decision'[lease'[k].decision].request
                        = decision'[lease'[l].decision].request => k = l
  <2>1. \A l \in leases : /\ lease'[l] = lease[l]
                          /\ lease[l].decision \in DecisionIds
                          /\ decision[lease[l].decision] # None
    BY <1>1, <1>2, NoneIsNoDocument
       DEF DocumentsKept, Kept, Leases, AuthorityInv, LeaseSound
  <2>2. \A l \in leases : decision'[lease[l].decision] = decision[lease[l].decision]
    BY <1>1, <2>1 DEF DocumentsKept, Kept
  <2> QED
    BY <1>2, <2>1, <2>2 DEF DistinctRequests
<1>3. ASSUME NEW intents \in SUBSET IntentIds, \A i \in intents : intent[i] # None,
             DistinctLeases(intents)
      PROVE  /\ \A i \in intents : intent'[i] # None
             /\ \A i, j \in intents : intent'[i].lease = intent'[j].lease => i = j
  BY <1>1, <1>3 DEF DocumentsKept, Kept, DistinctLeases
<1>4. /\ issuance' \in SUBSET LeaseIds /\ \A l \in issuance' : lease[l] # None
      /\ DistinctRequests(issuance')
  <2>1. CASE issuance' = issuance
    BY <2>1 DEF AuthorityInv, SetsSound, AuthorityTypeOK, DistinctRequests
  <2>2. ASSUME NEW leases \in SUBSET LeaseIds, ShowIssuance(leases)
        PROVE  /\ issuance' = leases /\ \A l \in leases : lease[l] # None
               /\ DistinctRequests(leases)
    BY <2>2 DEF ShowIssuance
  <2>3. issuance' = issuance \/ \E leases \in SUBSET LeaseIds : ShowIssuance(leases)
    BY DEF AuthorityNext, authorityVars, Tick, ShowRequest, ShowDecision, ShowLease,
           ShowIntent, ShowChain, ShowReservations
  <2> QED
    BY <2>1, <2>2, <2>3 DEF DistinctRequests
<1>5. /\ reservations' \in SUBSET IntentIds /\ \A i \in reservations' : intent[i] # None
      /\ DistinctLeases(reservations')
  <2>1. CASE reservations' = reservations
    BY <2>1 DEF AuthorityInv, SetsSound, AuthorityTypeOK, DistinctLeases
  <2>2. ASSUME NEW intents \in SUBSET IntentIds, ShowReservations(intents)
        PROVE  /\ reservations' = intents /\ \A i \in intents : intent[i] # None
               /\ DistinctLeases(intents)
    BY <2>2 DEF ShowReservations
  <2>3. reservations' = reservations
        \/ \E intents \in SUBSET IntentIds : ShowReservations(intents)
    BY DEF AuthorityNext, authorityVars, Tick, ShowRequest, ShowDecision, ShowLease,
           ShowIntent, ShowChain, ShowIssuance
  <2> QED
    BY <2>1, <2>2, <2>3 DEF DistinctLeases
<1> QED
  BY <1>2, <1>3, <1>4, <1>5 DEF SetsSound, DistinctRequests, DistinctLeases

-----------------------------------------------------------------------------
(* The theorems.                                                           *)

\* What was accepted stays sound, whatever is shown later and whenever.
THEOREM AuthorityInvariant == AuthoritySpec => []AuthorityInv
<1>1. AuthorityInit => AuthorityInv
  <2> SUFFICES ASSUME AuthorityInit PROVE AuthorityInv
    OBVIOUS
  <2> QED
    BY TypeInit DEF AuthorityInit, AuthorityInv, DecisionSound, LeaseSound, IntentSound,
          ReceiptSound, SetsSound, DistinctRequests, DistinctLeases
<1>2. AuthorityInv /\ [AuthorityNext]_authorityVars => AuthorityInv'
  BY TypeStep, DecisionStep, LeaseStep, IntentStep, ReceiptStep, SetsStep DEF AuthorityInv
<1> QED
  BY <1>1, <1>2, PTL DEF AuthoritySpec

\* The type invariant of AuthorityChain.
THEOREM AuthorityTypeCorrect == AuthoritySpec => []AuthorityTypeOK
<1>1. AuthorityInv => AuthorityTypeOK
  BY DEF AuthorityInv
<1> QED
  BY <1>1, AuthorityInvariant, PTL

\* Every dispatch that an accepted chain of receipts reports was within its lease,
\* the Owner's decision, the review of the request and the runtime binding at once:
\* the pairwise checks of the validators compose.
THEOREM DispatchAllowed == AuthoritySpec => []DispatchWasAllowed
<1>1. AuthorityInv => DispatchWasAllowed
  <2> SUFFICES ASSUME AuthorityInv, NEW i \in IntentIds, receipts[i] # <<>>
               PROVE  LET at == receipts[i][1].recorded
                      IN  /\ RequestOf(i).requested <= DecisionOf(i).decided
                          /\ DecisionOf(i).decided <= lease[intent[i].lease].issued
                          /\ lease[intent[i].lease].issued <= at
                          /\ at < lease[intent[i].lease].expires
                          /\ at < DecisionOf(i).expires
                          /\ at < RequestOf(i).expires
                          /\ at - RequestOf(i).requested < MaxReview
                          /\ binding.issued <= DecisionOf(i).decided /\ at < binding.expires
    BY DEF DispatchWasAllowed
  <2> DEFINE l == lease[intent[i].lease]
             d == decision[l.decision]
             q == request[d.request]
             at == receipts[i][1].recorded
  <2>1. /\ intent[i] \in Intents /\ intent[i] # None
        /\ l.issued <= at /\ at < l.expires
        /\ binding.issued <= at /\ at < binding.expires
    BY NoneIsNoDocument DEF AuthorityInv, ReceiptSound
  <2>2. intent[i].lease \in LeaseIds /\ l # None /\ l \in Leases
    BY <2>1, NoneIsNoDocument DEF AuthorityInv, IntentSound, Intents
  <2>3. d # None /\ d.decided <= l.issued /\ l.expires <= d.expires
    BY <2>2 DEF AuthorityInv, LeaseSound
  <2>4. l.decision \in DecisionIds /\ d \in Decisions
    BY <2>2, <2>3, NoneIsNoDocument DEF AuthorityInv, Leases
  <2>5. /\ q # None /\ q.requested <= d.decided /\ d.expires <= q.expires
        /\ q.expires - q.requested <= MaxReview /\ binding.issued <= d.decided
    BY <2>3, <2>4 DEF AuthorityInv, DecisionSound
  <2>6. q \in Requests
    BY <2>4, <2>5, NoneIsNoDocument DEF AuthorityInv, Decisions
  <2>7. receipts[i][1] \in Receipts
    BY ChainBegins DEF AuthorityInv, AuthorityTypeOK
  <2>8. /\ at \in Int /\ l.issued \in Int /\ l.expires \in Int /\ d.decided \in Int
        /\ d.expires \in Int /\ q.requested \in Int /\ q.expires \in Int
        /\ binding.issued \in Int /\ binding.expires \in Int
    <3>1. l.issued \in Times /\ l.expires \in Times
      BY <2>2 DEF Leases
    <3>2. d.decided \in Times /\ d.expires \in Times
      BY <2>4 DEF Decisions
    <3>3. q.requested \in Times /\ q.expires \in Times
      BY <2>6 DEF Requests
    <3>4. at \in Times
      BY <2>7 DEF Receipts
    <3>5. binding.issued \in Times /\ binding.expires \in Times
      BY DEF AuthorityInv, AuthorityTypeOK
    <3> HIDE DEF l, d, q, at
    <3> QED
      BY <3>1, <3>2, <3>3, <3>4, <3>5, AuthorityAssumption DEF Times
  <2> HIDE DEF l, d, q, at
  <2>9. /\ q.requested <= d.decided /\ d.decided <= l.issued /\ l.issued <= at
        /\ at < l.expires /\ at < d.expires /\ at < q.expires
        /\ at - q.requested < MaxReview
        /\ binding.issued <= d.decided /\ at < binding.expires
    BY <2>1, <2>3, <2>5, <2>8, AuthorityAssumption
  <2> QED
    BY <2>9 DEF l, d, q, at, RequestOf, DecisionOf
<1> QED
  BY <1>1, AuthorityInvariant, PTL

\* No lease permits more actions, a longer time or more spend than the request that
\* the Owner was shown.
THEOREM LeasesNarrow == AuthoritySpec => []LeaseNeverExpands
<1>1. AuthorityInv => LeaseNeverExpands
  <2> SUFFICES ASSUME AuthorityInv, NEW l \in LeaseIds, lease[l] # None
               PROVE  Permitted(lease[l].limits)
                        \subseteq Permitted(request[decision[lease[l].decision].request].limits)
    BY DEF LeaseNeverExpands
  <2> DEFINE d == decision[lease[l].decision]
             q == request[d.request]
  <2>1. lease[l] \in Leases /\ d # None /\ lease[l].limits = d.limits
    BY NoneIsNoDocument DEF AuthorityInv, LeaseSound
  <2>2. d \in Decisions
    BY <2>1, NoneIsNoDocument DEF AuthorityInv, Leases
  <2>3. q # None /\ Narrower(d.limits, q.limits)
    BY <2>1 DEF AuthorityInv, DecisionSound, Leases
  <2>4. q \in Requests
    BY <2>2, <2>3, NoneIsNoDocument DEF AuthorityInv, Decisions
  <2>5. d.limits \in Limits /\ q.limits \in Limits
    BY <2>2, <2>4, LimitsAssumption DEF Decisions, Requests
  <2>6. ASSUME NEW granted \in Limits, NEW requested \in Limits, Narrower(granted, requested)
        PROVE  Permitted(granted) \subseteq Permitted(requested)
    <3>1. SUFFICES ASSUME NEW use \in Permitted(granted) PROVE use \in Permitted(requested)
      OBVIOUS
    <3>2. /\ use \in Uses /\ use.actions \in Int /\ use.after \in Int /\ use.spend \in Int
          /\ use.spend >= 0
      <4>1. use \in Uses
        BY DEF Permitted
      <4>2. use.actions \in 1..MaxActions /\ use.after \in 0..MaxTtl /\ use.spend \in Costs \cup {0}
        BY <4>1 DEF Uses
      <4>3. use.actions \in Int
        BY <4>2, AuthorityAssumption
      <4>4. use.after \in Int
        BY <4>2, AuthorityAssumption
      <4>5. use.spend \in Nat
        <5>1. use.spend \in Costs \/ use.spend = 0
          BY <4>2
        <5>2. use.spend \in Costs => use.spend \in Nat
          BY AuthorityAssumption
        <5> QED
          BY <5>1, <5>2
      <4> QED
        BY <4>1, <4>3, <4>4, <4>5
    <3>3. use.actions <= requested.actions
      BY <2>6, <3>2, AuthorityAssumption DEF Permitted, Narrower, Limits
    <3>4. use.after < requested.ttl
      BY <2>6, <3>2, AuthorityAssumption DEF Permitted, Narrower, Limits
    <3>5. use.spend <= IF requested.cost = None THEN 0 ELSE requested.cost
      <4>1. CASE granted.cost = None
        <5>1. use.spend <= 0
          BY <4>1 DEF Permitted
        <5>2. requested.cost # None => requested.cost \in Nat
          BY AuthorityAssumption DEF Limits
        <5>3. CASE requested.cost = None
          BY <5>1, <5>3
        <5>4. CASE requested.cost # None
          <6>1. requested.cost \in Int /\ 0 <= requested.cost
            BY <5>2, <5>4
          <6>2. use.spend <= requested.cost
            BY <3>2, <5>1, <6>1
          <6> QED
            BY <5>4, <6>2
        <5> QED
          BY <5>3, <5>4
      <4>2. CASE granted.cost # None
        <5>1. use.spend <= granted.cost
          BY <4>2 DEF Permitted
        <5>2. requested.cost # None /\ granted.cost <= requested.cost
          BY <2>6, <4>2 DEF Narrower, NarrowerCost
        <5>3. granted.cost \in Nat /\ requested.cost \in Nat
          BY <4>2, <5>2, AuthorityAssumption DEF Limits
        <5> QED
          BY <3>2, <5>1, <5>2, <5>3
      <4> QED
        BY <4>1, <4>2
    <3> QED
      BY <3>2, <3>3, <3>4, <3>5 DEF Permitted
  <2> QED
    BY <2>1, <2>3, <2>5, <2>6
<1> QED
  BY <1>1, AuthorityInvariant, PTL

\* The lease set and the intent set together give one intent to a request.
THEOREM RequestsActOnce == AuthoritySpec => []OneIntentPerRequest
<1>1. AuthorityInv => OneIntentPerRequest
  BY DEF AuthorityInv, SetsSound, OneIntentPerRequest, DistinctRequests, DistinctLeases,
         DecisionOf
<1> QED
  BY <1>1, AuthorityInvariant, PTL
=============================================================================

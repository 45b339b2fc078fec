---------------------------- MODULE AuthorityChain ----------------------------
(***************************************************************************)
(* The contract validators of Phase 2: a capability request, the Owner's   *)
(* decision on it and the run lease that it allows                         *)
(* (src/owner-capability-run-lease.js), the external action intent under   *)
(* the lease, its receipts (src/external-action-intent-receipt.js), and    *)
(* the lifetime of the runtime binding that all of them name               *)
(* (src/passport-runtime-binding.js).                                      *)
(*                                                                         *)
(* The validators keep nothing.  A state of this module is what a caller   *)
(* has had accepted so far: documents that name one another by fingerprint *)
(* and so cannot change, and the two sets that were last validated as      *)
(* sets.  Who writes the documents is not in the repository: any document  *)
(* may be shown, and an action is enabled when the validator accepts it.   *)
(* Of receipts the state has the chain of an intent accepted last: no      *)
(* function compares a chain with one that was accepted before it, so      *)
(* another outcome may be shown of the same intent at any time.            *)
(* The counters and the revocation of a lease are outside its fingerprint; *)
(* a lease stands here for a copy of it that is neither used up nor        *)
(* revoked.                                                                *)
(*                                                                         *)
(* Every validator looks at the documents below its own as of another      *)
(* time: the request as of the decision, the decision as of the lease, the *)
(* lease as of now, the intent as of its receipt.                          *)
(***************************************************************************)
EXTENDS Integers, FiniteSets, Sequences

CONSTANTS
    RequestIds, DecisionIds, LeaseIds, IntentIds,
    MaxReview,      \* MAX_REVIEW_TTL_MS
    MaxTtl,         \* the longest lease of the profile
    MaxActions,     \* the most actions of a lease of the profile
    MaxIntent,      \* MAX_INTENT_TTL_MS
    Costs,          \* max_minor_units of the cost limits
    Settled,        \* "committed", "failed": a chain treats them alike
    MaxTime,        \* bound: the clock
    LimitsShown,    \* bound: the limits that documents carry
    ChainsShown,    \* bound: the chains of receipts that are shown
    MaxChains,      \* bound: intents that chains are shown of
    None

ASSUME AuthorityAssumption ==
    /\ MaxReview \in Nat \ {0} /\ MaxTtl \in Nat \ {0} /\ MaxActions \in Nat \ {0}
    /\ MaxIntent \in Nat \ {0} /\ MaxTime \in Nat /\ MaxChains \in Nat
    /\ Costs \subseteq Nat /\ None \notin Costs
    /\ Settled \subseteq {"committed", "failed"}

\* cost_limit is None, for no spend at all, or the most that may be spent.
Limits == [ttl: 1..MaxTtl, actions: 1..MaxActions, cost: Costs \cup {None}]

ASSUME LimitsAssumption == LimitsShown \subseteq Limits

Times == 0..MaxTime

Requests == [requested: Times, expires: Times, limits: LimitsShown]
Decisions == [request: RequestIds, decided: Times, expires: Times, limits: LimitsShown]
Leases == [decision: DecisionIds, issued: Times, expires: Times, limits: LimitsShown]
Intents == [lease: LeaseIds, created: Times, expires: Times]
Receipts == [kind: {"dispatch", "reconciliation"},
             status: Settled \cup {"unknown"}, recorded: Times]

\* At most MAX_RECEIPT_CHAIN_LENGTH receipts, by their sequence.
Chains == UNION {[1..n -> Receipts] : n \in 1..2}

ASSUME ChainsAssumption == ChainsShown \subseteq Chains

VARIABLES
    clock,
    allowOnce,      \* the profile asks for allow_once, or is of high risk
    binding,        \* [issued, expires]: the life of the paired runtime binding
    request, decision, lease, intent,   \* the documents accepted, by their ids
    issuance,       \* the set that validateLeaseIssuanceSet accepted last
    reservations,   \* the set that validateIntentReservationSet accepted last
    receipts        \* the chain of each intent that validateReceiptChain accepted last

documents == <<request, decision, lease, intent>>
authorityVars == <<clock, allowOnce, binding, documents, issuance, reservations, receipts>>

AuthorityTypeOK ==
    /\ clock \in Times
    /\ allowOnce \in BOOLEAN
    /\ binding \in [issued: Times, expires: Times]
    /\ request \in [RequestIds -> Requests \cup {None}]
    /\ decision \in [DecisionIds -> Decisions \cup {None}]
    /\ lease \in [LeaseIds -> Leases \cup {None}]
    /\ intent \in [IntentIds -> Intents \cup {None}]
    /\ issuance \subseteq LeaseIds
    /\ reservations \subseteq IntentIds
    /\ receipts \in [IntentIds -> Chains \cup {<<>>}]

AuthorityInit ==
    /\ clock = 0
    /\ allowOnce \in BOOLEAN
    /\ binding \in {b \in [issued: Times, expires: Times] : b.issued < b.expires}
    /\ request = [q \in RequestIds |-> None]
    /\ decision = [d \in DecisionIds |-> None]
    /\ lease = [l \in LeaseIds |-> None]
    /\ intent = [i \in IntentIds |-> None]
    /\ issuance = {}
    /\ reservations = {}
    /\ receipts = [i \in IntentIds |-> <<>>]

-----------------------------------------------------------------------------
(* The validators.                                                         *)

\* validateRuntimeCrossBinding: the binding is paired and alive at that time.
BindingLive(now) == binding.issued <= now /\ now < binding.expires

\* validateLimits, but for the maxima, which are in Limits.
ValidLimits(limits) == allowOnce => limits.actions = 1

\* assertLimitsNarrower.
NarrowerCost(granted, requested) ==
    granted # None => requested # None /\ granted <= requested

\* Mutant of Narrower: the arguments are swapped.
Wider(granted, requested) ==
    /\ requested.ttl <= granted.ttl
    /\ requested.actions <= granted.actions
    /\ NarrowerCost(requested.cost, granted.cost)

Narrower(granted, requested) ==
    /\ granted.ttl <= requested.ttl
    /\ granted.actions <= requested.actions
    /\ NarrowerCost(granted.cost, requested.cost)

ValidRequest(q, now) ==
    /\ ValidLimits(q.limits)
    /\ q.requested <= now
    /\ q.requested < q.expires /\ q.expires - q.requested <= MaxReview
    /\ now < q.expires
    /\ BindingLive(now)

\* Mutant of WithinReview: the decision may outlive the request.
WithinOwnTime(d, q) == d.decided < d.expires

WithinReview(d, q) == d.decided < d.expires /\ d.expires <= q.expires

\* validateOwnerDecision.  A denied decision allows nothing and is left out, and
\* whether one is approved_once or approved_bounded follows from its limits.
ValidDecision(d, q, now) ==
    /\ d.decided <= now /\ now < d.expires
    /\ WithinReview(d, q)
    /\ ValidRequest(q, d.decided)
    /\ ValidLimits(d.limits)
    /\ Narrower(d.limits, q.limits)

WithinDecision(l, d) ==
    /\ l.expires - l.issued = l.limits.ttl
    /\ l.expires <= d.expires

\* validateRunLeaseV2.
ValidLease(l, now) ==
    LET d == decision[l.decision]
    IN  /\ d # None
        /\ l.issued <= now /\ now < l.expires
        /\ l.limits = d.limits
        /\ WithinDecision(l, d)
        /\ BindingLive(now)
        /\ ValidDecision(d, request[d.request], l.issued)

WithinLease(i, l) ==
    /\ l.issued <= i.created
    /\ i.created < i.expires
    /\ i.expires <= l.expires
    /\ i.expires - i.created <= MaxIntent

\* validateExternalActionIntentV2.
ValidIntent(i, now) ==
    LET l == lease[i.lease]
    IN  /\ l # None
        /\ i.created <= now /\ now < i.expires
        /\ WithinLease(i, l)
        /\ ValidLease(l, now)

\* validateOutcome and validateReconciliation: a reconciliation resolves a dispatch
\* whose response was lost.
Resolves(r, previous) ==
    /\ r.kind = "reconciliation" /\ r.status # "unknown"
    /\ previous.kind = "dispatch" /\ previous.status = "unknown"

\* validateReceiptChain and validateExternalActionReceiptV2.  The clock is not
\* looked at: the first receipt is validated as of the time that it says it was
\* recorded at, and the second as of the first.
ValidChain(i, chain) ==
    /\ chain[1].kind = "dispatch"
    /\ Len(chain) = 2 =>
           /\ Resolves(chain[2], chain[1])
           /\ chain[1].recorded < chain[2].recorded
    /\ ValidIntent(i, chain[1].recorded)

\* Mutant of DistinctRequests: only the ids of the leases are compared.
AnyRequests(leases) == TRUE

\* REQUEST_REPLAY; DECISION_REPLAY follows, as a decision is on one request.
DistinctRequests(leases) ==
    \A k, l \in leases :
        decision[lease[k].decision].request = decision[lease[l].decision].request => k = l

\* LEASE_ACTION_REPLAY: one intent to a lease, whatever its max_actions.
DistinctLeases(intents) ==
    \A i, j \in intents : intent[i].lease = intent[j].lease => i = j

-----------------------------------------------------------------------------
(* What a caller shows.                                                    *)

Tick ==
    /\ clock < MaxTime
    /\ clock' = clock + 1
    /\ UNCHANGED <<allowOnce, binding, documents, issuance, reservations, receipts>>

ShowRequest(id) ==
    /\ request[id] = None
    /\ \E q \in Requests :
           /\ ValidRequest(q, clock)
           /\ request' = [request EXCEPT ![id] = q]
    /\ UNCHANGED <<clock, allowOnce, binding, decision, lease, intent, issuance,
                   reservations, receipts>>

ShowDecision(id) ==
    /\ decision[id] = None
    /\ \E d \in Decisions :
           /\ request[d.request] # None
           /\ ValidDecision(d, request[d.request], clock)
           /\ decision' = [decision EXCEPT ![id] = d]
    /\ UNCHANGED <<clock, allowOnce, binding, request, lease, intent, issuance,
                   reservations, receipts>>

ShowLease(id) ==
    /\ lease[id] = None
    /\ \E l \in Leases :
           /\ ValidLease(l, clock)
           /\ lease' = [lease EXCEPT ![id] = l]
    /\ UNCHANGED <<clock, allowOnce, binding, request, decision, intent, issuance,
                   reservations, receipts>>

ShowIntent(id) ==
    /\ intent[id] = None
    /\ \E i \in Intents :
           /\ ValidIntent(i, clock)
           /\ intent' = [intent EXCEPT ![id] = i]
    /\ UNCHANGED <<clock, allowOnce, binding, request, decision, lease, issuance,
                   reservations, receipts>>

\* validateLeaseIssuanceSet, of any leases the caller chooses to show together.
ShowIssuance(leases) ==
    /\ leases # {}
    /\ \A l \in leases : lease[l] # None /\ ValidLease(lease[l], clock)
    /\ DistinctRequests(leases)
    /\ issuance' = leases
    /\ UNCHANGED <<clock, allowOnce, binding, documents, reservations, receipts>>

\* validateIntentReservationSet.
ShowReservations(intents) ==
    /\ intents # {}
    /\ \A i \in intents : intent[i] # None /\ ValidIntent(intent[i], clock)
    /\ DistinctLeases(intents)
    /\ reservations' = intents
    /\ UNCHANGED <<clock, allowOnce, binding, documents, issuance, receipts>>

\* validateReceiptChain.  It is given all the receipts of a chain and remembers none.
ShowChain(id) ==
    /\ intent[id] # None
    /\ Cardinality({i \in IntentIds \ {id} : receipts[i] # <<>>}) < MaxChains
    /\ \E chain \in ChainsShown :
           /\ ValidChain(intent[id], chain)
           /\ receipts' = [receipts EXCEPT ![id] = chain]
    /\ UNCHANGED <<clock, allowOnce, binding, documents, issuance, reservations>>

AuthorityNext ==
    \/ Tick
    \/ \E id \in RequestIds : ShowRequest(id)
    \/ \E id \in DecisionIds : ShowDecision(id)
    \/ \E id \in LeaseIds : ShowLease(id)
    \/ \E id \in IntentIds : ShowIntent(id) \/ ShowChain(id)
    \/ \E leases \in SUBSET LeaseIds : ShowIssuance(leases)
    \/ \E intents \in SUBSET IntentIds : ShowReservations(intents)

AuthoritySpec == AuthorityInit /\ [][AuthorityNext]_authorityVars

-----------------------------------------------------------------------------
(* Properties.                                                             *)

DecisionOf(i) == decision[lease[intent[i].lease].decision]
RequestOf(i) == request[DecisionOf(i).request]

\* The dispatch that an accepted chain speaks of was within everything that allowed
\* it, at the time it was recorded: the intent, the lease, the Owner's decision, the
\* review of the request and the runtime binding, whichever chain of the intent is
\* shown and however long afterwards.  Each validator compares a document with the
\* one below it only, and as of another time.
DispatchWasAllowed ==
    \A i \in IntentIds : receipts[i] # <<>> =>
        LET at == receipts[i][1].recorded
        IN  /\ RequestOf(i).requested <= DecisionOf(i).decided
            /\ DecisionOf(i).decided <= lease[intent[i].lease].issued
            /\ lease[intent[i].lease].issued <= at
            /\ at < lease[intent[i].lease].expires
            /\ at < DecisionOf(i).expires
            /\ at < RequestOf(i).expires
            /\ at - RequestOf(i).requested < MaxReview
            /\ binding.issued <= DecisionOf(i).decided /\ at < binding.expires

\* What limits permit: a number of actions, so long after the issue, for a sum.
Uses == [actions: 1..MaxActions, after: 0..MaxTtl, spend: Costs \cup {0}]
Permitted(limits) ==
    {use \in Uses : /\ use.actions <= limits.actions
                   /\ use.after < limits.ttl
                   /\ use.spend <= IF limits.cost = None THEN 0 ELSE limits.cost}

\* "An Owner grant may equal or narrow a request; it cannot expand it", and null
\* "is not an unlimited budget" (ADR 002C): a lease permits nothing that the request
\* under it does not permit.
LeaseNeverExpands ==
    \A l \in LeaseIds : lease[l] # None =>
        Permitted(lease[l].limits)
            \subseteq Permitted(request[decision[lease[l].decision].request].limits)

\* "prevents one approval from being expanded, replayed, or moved" (ADR 002C): when
\* the leases of the reserved intents are among the leases that were issued, two
\* intents never act on one request of the Owner's.  It takes both sets: the one
\* compares leases with requests, the other intents with leases.
OneIntentPerRequest ==
    (\A i \in reservations : intent[i].lease \in issuance) =>
        \A i, j \in reservations : DecisionOf(i).request = DecisionOf(j).request => i = j
=============================================================================

------------------------- MODULE IdempotencyGateway -------------------------
(***************************************************************************)
(* The server side of a NodeRooms write: the WordPress plugin under        *)
(* server-reference/.  Each HTTP request is a PHP process that runs the    *)
(* SQL statements of NR_AIG_Rest_Controller one by one against the table   *)
(* nr_action_idempotency, so requests for the same action interleave at    *)
(* every statement, and any of them may die between two statements.        *)
(*                                                                         *)
(* A key is a (guest_key, action_id) pair, the UNIQUE KEY of the table.    *)
(* Time is kept as the age of a row, in ticks, which stops growing once it *)
(* is past every threshold (Horizon); TTL, StaleAfter and RetainFor are    *)
(* RESERVATION_TTL_SECONDS, PROCESSING_STALE_SECONDS and RETENTION_DAYS.   *)
(***************************************************************************)
EXTENDS Naturals, FiniteSets

CONSTANTS
    Requests,       \* HTTP requests, each a PHP process that runs once
    Keys,           \* (guest_key, action_id) pairs
    Fingerprints,   \* SHA-256 fingerprints of the immutable payload
    TTL, StaleAfter, RetainFor, Horizon,
    NoRow           \* no row in the table for a key

RowStates == {"reserved", "processing", "committed", "failed", "unknown"}
Terminal  == {"committed", "failed", "unknown"}

\* dispatched stands for dispatch_count and public_write_attempted, which the
\* code only ever sets together.  age is the time since updated_at, life the
\* time since created_at (expires_at is created_at + TTL).
Row == [id: Requests, fp: Fingerprints, state: RowStates,
        dispatched: 0..1, age: Nat, life: Nat]

ASSUME ThresholdAssumption ==
    /\ TTL \in Nat \ {0} /\ StaleAfter \in Nat /\ RetainFor \in Nat
    /\ Horizon \in Nat
    /\ TTL <= Horizon /\ StaleAfter < Horizon /\ RetainFor < Horizon
ASSUME NoRowAssumption == NoRow \notin Row

VARIABLES
    table,      \* the row of each key, or NoRow
    pc,         \* the next statement of each request
    want,       \* what each request asks for
    rid,        \* the id of the row a request works on
    outcome,    \* the classification of a request's dispatch, until it is stored
    answer,     \* what each request has answered
    effect,     \* whether a request's dispatch published the public object
    quiet       \* time since a key was last claimed for dispatch

vars == <<table, pc, want, rid, outcome, answer, effect, quiet>>
local == <<want, rid, outcome, answer, effect>>

\* A bare_status is a status request without the fingerprint header; its fp is the
\* payload that the caller has in mind.
Wants   == [kind: {"create", "status", "bare_status"}, key: Keys, fp: Fingerprints]
Labels  == {"idle", "seal", "insert", "read", "claim", "reseal", "reread",
            "verify", "dispatch", "mark", "remark", "final", "lookup", "done"}
Outcomes == {"committed", "failed", "unknown"}
\* 4xx and 5xx are WP_Error answers; the others are canonical receipts.
Answers == {"none", "4xx", "5xx", "processing", "committed", "failed", "unknown"}

GatewayTypeOK ==
    /\ table \in [Keys -> Row \cup {NoRow}]
    /\ pc \in [Requests -> Labels]
    /\ want \in [Requests -> Wants]
    /\ rid \in [Requests -> Requests]
    /\ outcome \in [Requests -> Outcomes]
    /\ answer \in [Requests -> Answers]
    /\ effect \in [Requests -> BOOLEAN]
    /\ quiet \in [Keys -> Nat]

Present(k) == table[k] # NoRow
Key(r) == want[r].key
Active(r) == pc[r] \notin {"idle", "done"}

Init ==
    /\ table = [k \in Keys |-> NoRow]
    /\ pc = [r \in Requests |-> "idle"]
    /\ want \in [Requests -> Wants]
    /\ rid = [r \in Requests |-> r]
    /\ outcome = [r \in Requests |-> "unknown"]
    /\ answer = [r \in Requests |-> "none"]
    /\ effect = [r \in Requests |-> FALSE]
    /\ quiet = [k \in Keys |-> Horizon]

-----------------------------------------------------------------------------
(* The statements of NR_AIG_Wpdb_Store.                                    *)

Stamp(row, s) == [row EXCEPT !.state = s, !.age = 0]

Expired(row) == row.state = "reserved" /\ row.life >= TTL
Stale(row)   == row.state = "processing" /\ row.age > StaleAfter

\* Mutant of Sealed: a dispatch that went stale is reported as never written.
SealedAsFailed(k) ==
    IF Present(k) /\ (Expired(table[k]) \/ Stale(table[k]))
    THEN Stamp(table[k], "failed") ELSE table[k]

\* The row that mark_expired_reserved_failed and mark_stale_processing_unknown
\* leave for a key.  Every caller runs them back to back, on disjoint rows.
Sealed(k) ==
    IF ~Present(k) THEN NoRow
    ELSE IF Expired(table[k]) THEN Stamp(table[k], "failed")
    ELSE IF Stale(table[k]) THEN Stamp(table[k], "unknown")
    ELSE table[k]

Sealable == {"reserved", "processing"}

\* The outcome of neither UPDATE is looked at: only those that worked, the ones
\* for rows in these states, change anything.
SealedIn(states, k) ==
    IF Present(k) /\ table[k].state \in states THEN Sealed(k) ELSE table[k]

SealStaleRecords ==
    \E states \in SUBSET Sealable :
        table' = [k \in Keys |-> SealedIn(states, k)]

\* Mutants of Retained: the cleanup forgets the age of a row, or to seal.
RetainedWithoutAge(states, k) ==
    IF Present(k) /\ SealedIn(states, k).state \in Terminal
    THEN NoRow ELSE SealedIn(states, k)
RetainedUnsealed(states, k) ==
    IF Present(k) /\ table[k].state \in Terminal /\ table[k].age > RetainFor
    THEN NoRow ELSE table[k]

\* The row that the daily cleanup leaves for a key: it seals first, then
\* deletes terminal rows whose updated_at is older than the retention.
Retained(states, k) ==
    IF /\ Present(k)
       /\ SealedIn(states, k).state \in Terminal
       /\ SealedIn(states, k).age > RetainFor
    THEN NoRow ELSE SealedIn(states, k)

\* Mutant of Claimable: the UPDATE does not compare the state.
ClaimableInAnyState(k, id) ==
    Present(k) /\ table[k].id = id /\ table[k].life < TTL

\* The compare-and-set of claim_dispatch.
Claimable(k, id) ==
    /\ Present(k)
    /\ table[k].id = id
    /\ table[k].state = "reserved"
    /\ table[k].dispatched = 0
    /\ table[k].life < TTL

\* Mutant of Markable: a verdict is stored over whatever the row says by now.
MarkableInAnyState(k, id) == Present(k) /\ table[k].id = id

\* The WHERE clause of mark_committed, mark_failed and mark_unknown.
Markable(k, id) ==
    /\ Present(k)
    /\ table[k].id = id
    /\ table[k].state = "processing"

\* The action_status of NR_AIG_Canonical::receipt.
ActionStatus(row) == IF row.state \in {"reserved", "processing"}
                     THEN "processing" ELSE row.state

-----------------------------------------------------------------------------
(* create_action: one action per statement.                                *)

Goto(r, label) == pc' = [pc EXCEPT ![r] = label]

Answer(r, a) ==
    /\ Goto(r, "done")
    /\ answer' = [answer EXCEPT ![r] = a]
    /\ UNCHANGED <<want, outcome, effect, quiet>>

\* Readiness, authentication and normalisation either let the request in or
\* answer an error before anything is stored.
Arrive(r) ==
    /\ pc[r] = "idle"
    /\ \/ Goto(r, "seal") /\ UNCHANGED <<local, quiet>>
       \/ \E a \in {"4xx", "5xx"} : Answer(r, a) /\ UNCHANGED rid
    /\ UNCHANGED table

SealOnEntry(r) ==
    /\ pc[r] = "seal"
    /\ SealStaleRecords
    /\ Goto(r, IF want[r].kind = "create" THEN "insert" ELSE "lookup")
    /\ UNCHANGED <<local, quiet>>

\* INSERT IGNORE: the UNIQUE KEY keeps an existing row.  A failed query answers
\* an error and leaves no row.
Reserve(r) ==
    /\ pc[r] = "insert"
    /\ \/ /\ table' = IF Present(Key(r)) THEN table
                      ELSE [table EXCEPT ![Key(r)] =
                               [id |-> r, fp |-> want[r].fp, state |-> "reserved",
                                dispatched |-> 0, age |-> 0, life |-> 0]]
          /\ Goto(r, "read")
          /\ UNCHANGED <<local, quiet>>
       \/ Answer(r, "5xx") /\ UNCHANGED <<table, rid>>

\* The row that is read back decides: another payload is a conflict, a row that
\* is past "reserved" is answered as it is, and a reserved one is claimed by
\* whoever read it, the request that inserted it or not.  A SELECT that fails
\* looks like a missing row, here and in the other reads.
ReadReservation(r) ==
    /\ pc[r] = "read"
    /\ UNCHANGED table
    /\ LET row == table[Key(r)] IN
       \/ Answer(r, "5xx") /\ UNCHANGED rid
       \/ /\ Present(Key(r)) /\ row.fp # want[r].fp
          /\ Answer(r, "4xx") /\ UNCHANGED rid
       \/ /\ Present(Key(r)) /\ row.fp = want[r].fp
          /\ rid' = [rid EXCEPT ![r] = row.id]
          /\ \/ /\ row.state = "reserved"
                /\ Goto(r, "claim")
                /\ UNCHANGED <<want, outcome, answer, effect, quiet>>
             \/ row.state # "reserved" /\ Answer(r, ActionStatus(row))

\* claim_dispatch.  A failed query may or may not have been applied.
ClaimDispatch(r) ==
    /\ pc[r] = "claim"
    /\ \/ /\ Claimable(Key(r), rid[r])
          /\ table' = [table EXCEPT ![Key(r)].state = "processing",
                                    ![Key(r)].dispatched = 1,
                                    ![Key(r)].age = 0]
          /\ quiet' = [quiet EXCEPT ![Key(r)] = 0]
          /\ \/ Goto(r, "verify") /\ UNCHANGED answer
             \/ Goto(r, "done") /\ answer' = [answer EXCEPT ![r] = "5xx"]
          /\ UNCHANGED <<want, rid, outcome, effect>>
       \/ /\ ~Claimable(Key(r), rid[r])
          /\ Goto(r, "reseal")
          /\ UNCHANGED <<table, local, quiet>>
       \/ Answer(r, "5xx") /\ UNCHANGED <<table, rid>>

SealAfterLostClaim(r) ==
    /\ pc[r] = "reseal"
    /\ SealStaleRecords
    /\ Goto(r, "reread")
    /\ UNCHANGED <<local, quiet>>

\* get_action compares the fingerprint of the row with the header, if there is one.
Matches(r, row) == want[r].kind = "bare_status" \/ row.fp = want[r].fp

\* The SELECT whose row becomes the answer: after a lost claim, after the
\* verdict was stored, and for a status request.
AnswerFromTable(r) ==
    /\ pc[r] \in {"reread", "final", "lookup"}
    /\ UNCHANGED table
    /\ LET row == table[Key(r)] IN
       \/ /\ Answer(r, IF pc[r] = "lookup" THEN "4xx" ELSE "5xx")
          /\ UNCHANGED rid
       \/ /\ Present(Key(r)) /\ pc[r] = "lookup" /\ ~Matches(r, row)
          /\ Answer(r, "4xx") /\ UNCHANGED rid
       \/ /\ Present(Key(r)) /\ (pc[r] = "lookup" => Matches(r, row))
          /\ Answer(r, ActionStatus(row))
          /\ rid' = [rid EXCEPT ![r] = row.id]

VerifyClaim(r) ==
    /\ pc[r] = "verify"
    /\ UNCHANGED table
    /\ LET row == table[Key(r)]
           verified == /\ Present(Key(r))
                       /\ row.state = "processing"
                       /\ row.dispatched = 1 IN
       \/ /\ verified
          /\ rid' = [rid EXCEPT ![r] = row.id]
          /\ Goto(r, "dispatch")
          /\ UNCHANGED <<want, outcome, answer, effect, quiet>>
       \/ Answer(r, "5xx") /\ UNCHANGED rid

\* The internal write route publishes or does not, and its response is
\* classified: a validated success, a 4xx rejection, or anything else.  The
\* route is not part of the repository: it is taken to have published when it
\* reports a created object, and not to have when it answers 4xx.
DispatchAction(r) ==
    /\ pc[r] = "dispatch"
    /\ \E o \in Outcomes, published \in BOOLEAN :
        /\ o = "committed" => published
        /\ o = "failed" => ~published
        /\ outcome' = [outcome EXCEPT ![r] = o]
        /\ effect' = [effect EXCEPT ![r] = published]
    /\ Goto(r, "mark")
    /\ UNCHANGED <<table, want, rid, answer, quiet>>

\* mark_committed, mark_failed or mark_unknown.  The update reports success
\* only when it changed the row; its success may also go unreported.
MarkOutcome(r) ==
    /\ pc[r] = "mark"
    /\ \/ /\ Markable(Key(r), rid[r])
          /\ table' = [table EXCEPT ![Key(r)] = Stamp(@, outcome[r])]
          /\ Goto(r, "final") \/ Goto(r, "remark")
       \/ /\ Goto(r, "remark")
          /\ UNCHANGED table
    /\ outcome' = [outcome EXCEPT ![r] = "unknown"]
    /\ UNCHANGED <<want, rid, answer, effect, quiet>>

\* mark_unknown after an update that was not reported as saved.
MarkUnsavedUnknown(r) ==
    /\ pc[r] = "remark"
    /\ \/ /\ Markable(Key(r), rid[r])
          /\ table' = [table EXCEPT ![Key(r)] = Stamp(@, "unknown")]
       \/ UNCHANGED table
    /\ Goto(r, "final")
    /\ UNCHANGED <<local, quiet>>

\* A PHP process dies between two statements and nothing is answered.  In the
\* middle of a dispatch the object may have been published.
Die(r) ==
    /\ Active(r)
    /\ Goto(r, "done")
    /\ \/ UNCHANGED effect
       \/ pc[r] = "dispatch" /\ effect' = [effect EXCEPT ![r] = TRUE]
    /\ outcome' = [outcome EXCEPT ![r] = "unknown"]
    /\ UNCHANGED <<table, want, rid, answer, quiet>>

-----------------------------------------------------------------------------
(* The daily cleanup hook, and time.                                       *)

CleanupAfter(states) ==
    /\ table' = [k \in Keys |-> Retained(states, k)]
    /\ UNCHANGED <<pc, local, quiet>>

\* The DELETE may fail too.
Cleanup ==
    \/ \E states \in SUBSET Sealable : CleanupAfter(states)
    \/ SealStaleRecords /\ UNCHANGED <<pc, local, quiet>>

Older(n) == IF n < Horizon THEN n + 1 ELSE n

\* Requests last seconds and rows are kept for days: no row passes the
\* retention threshold while a request for its key is running.
Tick ==
    /\ \A k \in Keys : Present(k) /\ table[k].age = RetainFor
                           => \A r \in Requests : Active(r) => Key(r) # k
    /\ table' = [k \in Keys |->
                    IF Present(k)
                    THEN [table[k] EXCEPT !.age = Older(@), !.life = Older(@)]
                    ELSE NoRow]
    /\ quiet' = [k \in Keys |-> Older(quiet[k])]
    /\ UNCHANGED <<pc, local>>

Step(r) ==
    \/ SealOnEntry(r) \/ Reserve(r) \/ ReadReservation(r) \/ ClaimDispatch(r)
    \/ SealAfterLostClaim(r) \/ AnswerFromTable(r) \/ VerifyClaim(r)
    \/ DispatchAction(r) \/ MarkOutcome(r) \/ MarkUnsavedUnknown(r)

Next == \/ \E r \in Requests : Arrive(r) \/ Step(r) \/ Die(r)
        \/ Cleanup
        \/ Tick

Spec == Init /\ [][Next]_vars

\* A PHP process that lives keeps running, the cleanup hook is scheduled daily
\* and its statements do not fail for ever, and time passes.  No request need
\* ever arrive, and any may die.
FairSpec == /\ Spec
            /\ \A r \in Requests : WF_vars(Step(r))
            /\ WF_vars(CleanupAfter(Sealable))
            /\ WF_vars(Tick)

-----------------------------------------------------------------------------
(* Properties.                                                             *)

\* r has published under its record, or holds a claim with which it will.
MayPublish(r) == effect[r] \/ pc[r] \in {"verify", "dispatch"}

\* However requests for one action interleave, retry and die, at most one of
\* them ever reaches the public write of a record: the UNIQUE KEY and the
\* compare-and-set of claim_dispatch are what the code relies on.
AtMostOnePublisher ==
    \A r1, r2 \in Requests :
        MayPublish(r1) /\ MayPublish(r2) /\ rid[r1] = rid[r2] => r1 = r2

\* The answer of r is true of the record it names.
TrueAnswer(r) ==
    /\ answer[r] = "committed" =>
          \E p \in Requests : /\ effect[p] /\ rid[p] = rid[r] /\ Key(p) = Key(r)
                              /\ want[r].kind # "bare_status" => want[p].fp = want[r].fp
    /\ answer[r] = "failed" =>
          ~\E p \in Requests : MayPublish(p) /\ rid[p] = rid[r]

\* A canonical receipt can be believed, at once and ever after: "committed"
\* names a record whose object was published, with the very payload asked for when
\* the request carries its fingerprint, and after "failed" nobody has published it,
\* nor can publish it later.
ReceiptsTellTheTruth == \A r \in Requests : TrueAnswer(r)

\* A key is claimed for dispatch a second time only when its earlier record has
\* been kept for the whole retention window (cleanup deletes terminal rows by
\* updated_at, and every claim stamps updated_at).
RedispatchOnlyAfterRetention ==
    [][\A k \in Keys : (quiet'[k] = 0 /\ quiet[k] # 0) => quiet[k] > RetainFor]_vars

\* A reservation or a dispatch that its process abandoned is sealed in the end,
\* by the cleanup hook if no request ever comes back to it.
EveryRecordIsSettled ==
    \A k \in Keys :
        (Present(k) /\ table[k].state \notin Terminal)
            ~> (~Present(k) \/ table[k].state \in Terminal)

\* What a row promises, as AtMostOnceAction states it.
verdictOf == [k \in Keys |-> IF ~Present(k) THEN "absent"
                             ELSE IF table[k].state \in Terminal
                             THEN table[k].state ELSE "open"]
publishedUnder == [k \in Keys |-> Present(k) /\
                      \E r \in Requests : effect[r] /\ rid[r] = table[k].id]

Promise == INSTANCE AtMostOnceAction
               WITH verdict <- verdictOf, published <- publishedUnder

\* The gateway keeps that promise: verdicts are final, the object of a record
\* is published at most once, "failed" is said only of what was never written
\* and stays so, even when a sealed dispatch finishes late.
KeepsPromise == Promise!AbstractSpec
=============================================================================

----------------------------- MODULE DraftPrProof -----------------------------
(***************************************************************************)
(* One Owner-approved Draft pull request: the controller of                *)
(* src/github-draft-pr-e2e.js over its two files, the proof record, which  *)
(* is replaced by compareAndSet, and the dispatch reservation beside it,   *)
(* which is created once and never removed.                                *)
(*                                                                         *)
(* Every method loads the record, then the reservation, then compares and  *)
(* sets; other calls may run between any two of these. A call may end at   *)
(* any point, by an error of the file system or with its process, and the  *)
(* record (never the reservation) may be set back to an earlier content.   *)
(*                                                                         *)
(* Checks of plan, payload, context and time look at nothing that changes  *)
(* here: a call they refuse is one that does not start.                    *)
(***************************************************************************)
EXTENDS Naturals, Sequences

CONSTANTS
    Arms, Dispatches, Afters, Reconciles, Revokes,    \* calls of the methods
    ToolCalls,      \* tool_call_id
    MaxRollbacks,   \* how often the record may be set back
    None

States == {"armed", "dispatching", "committed", "unknown", "no_effect", "revoked"}

\* provider_attempt_count, approval_consumed and the lease counters say together
\* whether the approval is used up: tool_call_id is set with them.
Record == [state: States, revision: Nat \ {0}, tool: ToolCalls \cup {None},
           revoked: BOOLEAN]

Outcomes == {"committed", "unknown", "no_effect"}

Methods == <<Arms, Dispatches, Afters, Reconciles, Revokes>>
Hooks == Dispatches \cup Afters
Calls == Arms \cup Dispatches \cup Afters \cup Reconciles \cup Revokes

ASSUME ProofAssumption ==
    /\ MaxRollbacks \in Nat
    /\ None \notin Record \cup ToolCalls \cup Outcomes \cup {"torn"}
    /\ "torn" \notin ToolCalls
    /\ \A i, j \in 1..5 : i # j => Methods[i] \cap Methods[j] = {}

VARIABLES
    record,         \* the proof record on file, None when there is no file
    marker,         \* the dispatch reservation: None, "torn" or its tool_call_id
    older,          \* earlier contents of the record
    rollbacks,      \* how often the record was set back
    pc, seen,       \* where a call is, the record that it loaded
    tool, outcome,  \* the tool call and the outcome that it is about
    allowed,        \* the calls that were answered allow_once
    answer,         \* what the provider answered to a tool call
    prs, late,      \* pull requests there are, requests that may yet arrive
    told            \* whether the Owner was told that the proof is revoked

files == <<record, marker, older, rollbacks>>
local == <<seen, tool, outcome>>
provider == <<answer, prs, late>>
vars == <<record, marker, older, rollbacks, pc, seen, tool, outcome, allowed,
          answer, prs, late, told>>

Labels == {"idle", "checking", "reserving", "writing", "saving", "allowed", "done"}

Consumed(r) == r # None /\ r.tool # None

ProofTypeOK ==
    /\ record \in Record \cup {None}
    /\ record # None => (record.tool = None <=> record.state \in {"armed", "revoked"})
    /\ marker \in ToolCalls \cup {None, "torn"}
    /\ older \subseteq Record \cup {None}
    /\ rollbacks \in 0..MaxRollbacks
    /\ pc \in [Calls -> Labels]
    /\ seen \in [Calls -> Record \cup {None}]
    /\ tool \in [Hooks -> ToolCalls]
    /\ outcome \in [Calls -> Outcomes]
    /\ allowed \subseteq Dispatches
    /\ answer \in [ToolCalls -> {None, "committed", "unknown"}]
    /\ prs \in Nat
    /\ late \subseteq allowed
    /\ told \in BOOLEAN

Init ==
    /\ record = None
    /\ marker = None
    /\ older = {}
    /\ rollbacks = 0
    /\ pc = [c \in Calls |-> "idle"]
    /\ seen = [c \in Calls |-> None]
    /\ tool \in [Hooks -> ToolCalls]
    /\ outcome = [c \in Calls |-> "unknown"]
    /\ allowed = {}
    /\ answer = [t \in ToolCalls |-> None]
    /\ prs = 0
    /\ late = {}
    /\ told = FALSE

Goto(c, label) == pc' = [pc EXCEPT ![c] = label] /\ UNCHANGED <<seen, outcome>>

\* A call ends and forgets its local variables.
End(c) ==
    /\ pc' = [pc EXCEPT ![c] = "done"]
    /\ seen' = [seen EXCEPT ![c] = None]
    /\ outcome' = [outcome EXCEPT ![c] = "unknown"]

-----------------------------------------------------------------------------
(* What the methods have in common.                                        *)

\* Mutant of Observed: an empty list of matches is taken for a match.
ObservedAnyway == "committed"

\* What a read-only look at the provider finds; more than one match is refused.
Observed == IF prs = 0 THEN "no_effect" ELSE "committed"

\* What the caller brings with it: the after hook the provider's answer, the
\* reconciliation what it has just observed.
Brings(c) ==
    CASE c \in Afters -> IF answer[tool[c]] = None THEN {} ELSE {answer[tool[c]]}
      [] c \in Reconciles -> IF prs > 1 THEN {} ELSE {Observed}
      [] OTHER -> {"unknown"}

\* A method starts and loads the record.
Load(c) ==
    /\ pc[c] = "idle"
    /\ \E o \in Brings(c) : outcome' = [outcome EXCEPT ![c] = o]
    /\ seen' = [seen EXCEPT ![c] = record]
    /\ pc' = [pc EXCEPT ![c] = "checking"]
    /\ UNCHANGED <<files, tool, allowed, provider, told>>

\* assertStoreMatchesPlan; a torn reservation does not parse.
Agree(r) ==
    IF marker = None THEN ~Consumed(r)
    ELSE Consumed(r) /\ r.tool = marker

\* The method's own conditions on the record that it loaded.
Permits(c, r) ==
    \/ c \in Arms /\ r = None
    \/ c \in Dispatches /\ r # None /\ r.state = "armed" /\ ~r.revoked
    \/ c \in Afters /\ r # None /\ r.state = "dispatching" /\ r.tool = tool[c]
    \/ c \in Reconciles /\ r # None /\ r.state = "unknown"
    \/ c \in Revokes /\ r # None /\ ~r.revoked

\* A second arm or revoke succeeds without a change.
AlreadyRevoked(c) == c \in Revokes /\ seen[c] # None /\ seen[c].revoked

\* The method loads the reservation and checks both; a call that is refused, or
\* has nothing left to do, ends.
Check(c) ==
    /\ pc[c] = "checking"
    /\ IF Agree(seen[c]) /\ Permits(c, seen[c])
       THEN Goto(c, IF c \in Dispatches THEN "reserving" ELSE "saving") /\ UNCHANGED told
       ELSE End(c) /\ told' = (told \/ (Agree(seen[c]) /\ AlreadyRevoked(c)))
    /\ UNCHANGED <<files, tool, allowed, provider>>

Revision(r) == IF r = None THEN 0 ELSE r.revision

\* Mutant of RevokedState: the outcome gives way to the revocation.
RevokedStateAlways(s) == "revoked"

RevokedState(s) == IF s = "armed" THEN "revoked" ELSE s

Initial == [state |-> "armed", revision |-> 1, tool |-> None, revoked |-> FALSE]

Successor(r, state, t, revoked) ==
    [state |-> state, revision |-> r.revision + 1, tool |-> t, revoked |-> revoked]

\* The record that a call wants to save in the place of r.
Replacement(c, r) ==
    CASE c \in Arms -> Initial
      [] c \in Dispatches -> Successor(r, "dispatching", tool[c], r.revoked)
      [] c \in Afters \cup Reconciles -> Successor(r, outcome[c], r.tool, r.revoked)
      [] c \in Revokes -> Successor(r, RevokedState(r.state), r.tool, TRUE)

\* Mutant of Unmoved: the record is replaced whatever its revision.
UnmovedOrNot(r) == TRUE

Unmoved(r) == Revision(record) = Revision(r)

\* compareAndSet, under its lock. It succeeds, finds another revision, or fails
\* after the rename (when the lock file cannot be closed); a failure before the
\* rename, or a lock that somebody left, is an Abort.
Save(c) ==
    /\ pc[c] = "saving"
    /\ \/ /\ Unmoved(seen[c])
          /\ record' = Replacement(c, seen[c])
          /\ older' = older \cup {record}
          /\ \/ /\ IF c \in Dispatches THEN Goto(c, "allowed") ELSE End(c)
                /\ allowed' = IF c \in Dispatches THEN allowed \cup {c} ELSE allowed
                /\ told' = (told \/ c \in Revokes)
             \/ End(c) /\ UNCHANGED <<allowed, told>>
       \/ /\ ~Unmoved(seen[c])
          /\ End(c)
          /\ UNCHANGED <<record, older, allowed, told>>
    /\ UNCHANGED <<marker, rollbacks, tool, provider>>

\* A call ends by an error, or with its process.
Abort(c) ==
    /\ pc[c] \notin {"idle", "done"}
    /\ End(c)
    /\ UNCHANGED <<files, tool, allowed, provider, told>>

-----------------------------------------------------------------------------
(* beforeToolCall, and the provider's side.                                *)

\* Mutant of MayReserve: the reservation is overwritten when there is one.
MayReserveAgain == TRUE

\* The reservation is opened with "wx".
MayReserve == marker = None

\* reserveDispatch creates the file, empty at first.
Reserve(c) ==
    /\ pc[c] = "reserving"
    /\ IF MayReserve THEN marker' = "torn" /\ Goto(c, "writing")
       ELSE UNCHANGED marker /\ End(c)
    /\ UNCHANGED <<record, older, rollbacks, tool, allowed, provider, told>>

\* It writes and syncs the content.
WriteReservation(c) ==
    /\ pc[c] = "writing"
    /\ marker' = tool[c]
    /\ Goto(c, "saving")
    /\ UNCHANGED <<record, older, rollbacks, tool, allowed, provider, told>>

\* The host makes the one request that it was allowed: a pull request and an
\* answer that says so, or a failure with or without one.
CallProvider(c) ==
    /\ pc[c] = "allowed"
    /\ \/ /\ prs' = prs + 1
          /\ \E a \in {"committed", "unknown"} : answer' = [answer EXCEPT ![tool[c]] = a]
          /\ UNCHANGED late
       \/ /\ answer' = [answer EXCEPT ![tool[c]] = "unknown"]
          /\ late' = late \cup {c}
          /\ UNCHANGED prs
    /\ End(c)
    /\ UNCHANGED <<files, tool, allowed, told>>

\* A request that was given up arrives after all.
ArriveLate(c) ==
    /\ c \in late
    /\ late' = late \ {c}
    /\ prs' = prs + 1
    /\ UNCHANGED <<files, pc, local, allowed, answer, told>>

-----------------------------------------------------------------------------
\* An earlier content of the record is put back, as from a copy of the file.
Rollback ==
    /\ rollbacks < MaxRollbacks
    /\ rollbacks' = rollbacks + 1
    /\ record' \in older \ {record}
    /\ UNCHANGED <<marker, older, pc, local, allowed, provider, told>>

Next ==
    \/ \E c \in Calls : Load(c) \/ Check(c) \/ Save(c) \/ Abort(c)
    \/ \E c \in Dispatches :
          Reserve(c) \/ WriteReservation(c) \/ CallProvider(c) \/ ArriveLate(c)
    \/ Rollback

Spec == Init /\ [][Next]_vars

-----------------------------------------------------------------------------
\* Whatever is replayed, in whatever order, and even when the record is set back
\* to a time before the dispatch, beforeToolCall allows one call at most, and so
\* there is at most one pull request.
AtMostOneDispatch == (\A c, d \in allowed : c = d) /\ prs <= 1

\* A record says committed only when there is a pull request, also when the answer
\* was lost, comes late or is delivered twice, or the record was set back.
CommittedIsTrue == record # None /\ record.state = "committed" => prs >= 1

\* Where the proof stands for whoever looks at the pull request from outside; there
\* is one proof, and so one key.
Phase(r) ==
    IF r = None THEN "absent"
    ELSE CASE r.state = "armed" -> "waiting"
           [] r.state \in {"dispatching", "unknown"} -> "uncertain"
           [] r.state = "committed" -> "done"
           [] r.state \in {"no_effect", "revoked"} -> "closed"

Proofs == {"proof"}
phaseOf == [p \in Proofs |-> Phase(record)]
allowedFor == [p \in Proofs |-> allowed]
prsFor == [p \in Proofs |-> prs]

Guard == INSTANCE GuardedEffect WITH
            Keys <- Proofs, Calls <- Dispatches, Renewed <- {},
            phase <- phaseOf, passed <- allowedFor, effects <- prsFor,
            setbacks <- rollbacks

\* The controller is a gate before the pull request: one dispatch is allowed in the
\* life of the proof, and only from an armed record; there is at most one pull request,
\* also when it comes late; the record says committed only when it is there. A record
\* that was set back may be wrong about anything but these.
GuardsItsPr == Guard!AbstractSpec

\* A reservation that a crash, a failed write or a lost race with a revocation left
\* behind: nobody who made it will be allowed any more.
Orphaned ==
    /\ marker # None /\ allowed = {}
    /\ \A c \in Dispatches : pc[c] \notin {"writing", "saving"}

\* Such a proof fails closed: no replayed hook, no reconciliation and no record that is
\* set back makes a dispatch of it, and there is never a pull request
\* (assertStoreMatchesPlan, reserveDispatch).
OrphanFailsClosed == [][Orphaned => Orphaned' /\ prs' = prs]_vars

Successors == {<<"armed", "dispatching">>, <<"armed", "revoked">>,
               <<"dispatching", "committed">>, <<"dispatching", "unknown">>,
               <<"unknown", "committed">>, <<"unknown", "no_effect">>}

Follows(r, s) ==
    IF r = None THEN s = Initial
    ELSE /\ s.revision = r.revision + 1
         /\ <<r.state, s.state>> \in Successors \/ (s.state = r.state /\ ~r.revoked /\ s.revoked)
         /\ r.revoked => s.revoked
         /\ r.tool # None => s.tool = r.tool

\* While the record is not set back, concurrent and repeated hooks, reconciliations
\* and revocations move it forward only: an outcome that is known is never replaced,
\* a revocation and the tool call it was used for are never lost.
RecordMovesForward ==
    [][rollbacks' = 0 /\ record' # record => Follows(record, record')]_vars

\* Once the Owner was told that the proof is revoked, nothing more is allowed, as
\* long as the record is not set back.
RevocationHolds == [][rollbacks' = 0 /\ told => allowed' = allowed]_vars
===============================================================================

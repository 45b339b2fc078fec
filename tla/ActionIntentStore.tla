-------------------------- MODULE ActionIntentStore --------------------------
(***************************************************************************)
(* The client side of a NodeRooms write: the persisted store of action     *)
(* intents (src/action-intents.js) and the SDK call that commits one       *)
(* (src/sdk/client.js), with the network and the server in between.        *)
(*                                                                         *)
(* A command reads, changes and replaces the store file under a lock, so a *)
(* locked section is one step here (StoreLock models the lock itself).     *)
(* commit and reconcile let go of the lock around the network, and any     *)
(* number of them, of this process or of another that shares the file, run *)
(* at once.  The server keeps the promise of AtMostOnceAction.             *)
(*                                                                         *)
(* Time is kept as ages in ticks that stop growing once they are past      *)
(* every threshold.  TTL and CommitStale are ACTION_INTENT_TTL_MS and      *)
(* ACTION_INTENT_COMMIT_STALE_MS; Horizon is the age at which a terminal   *)
(* intent is pruned, TTL plus ACTION_INTENT_RETENTION_MS.                  *)
(***************************************************************************)
EXTENDS Naturals, FiniteSets

CONSTANTS
    Intents,        \* intent ids, each drawn at random and used once
    Social,         \* the intents whose kind is guest_post or guest_comment
    Payloads, PayloadOf,    \* what each intent is about, and its owner
    Commands,       \* commit and reconcile commands, each runs once
    TTL, CommitStale, Horizon,
    MaxEntries,     \* ACTION_INTENT_MAX_ENTRIES
    Never, Gone     \* an intent that is not yet, or no longer, in the file

ASSUME StoreAssumption ==
    /\ Social \subseteq Intents
    /\ PayloadOf \in [Intents -> Payloads]
    /\ TTL \in Nat \ {0} /\ CommitStale \in Nat \ {0} /\ Horizon \in Nat
    /\ TTL <= Horizon /\ CommitStale <= Horizon
    /\ MaxEntries \in Nat \ {0}

States == {"prepared", "committing", "committed", "failed",
           "denied", "expired", "unknown"}

\* life is the time since createdAtMs, since the time since commitStartedAtMs.
Intent == [state: States, life: 0..Horizon, since: 0..Horizon]

ASSUME AbsenceAssumption == Never # Gone /\ {Never, Gone} \cap Intent = {}

VARIABLES
    store,      \* the intents in the state file
    cmd,        \* what each command does, and to which intent
    pc,         \* where each command is
    got,        \* what its executor or its resolver returned
    post,       \* the POST that a commit sent
    verdict, published      \* the server, as in AtMostOnceAction

vars == <<store, cmd, pc, got, post, verdict, published>>
server == <<verdict, published>>

Server == INSTANCE AtMostOnceAction WITH Keys <- Intents

Cmds    == [kind: {"commit", "reconcile"}, intent: Intents]
Labels  == {"idle", "preflight", "posted", "status", "settle", "recover",
            "resolve", "apply", "done"}
\* "opaque" is the result of a kind without receipts, "noWrite" an error with
\* publicWriteAttempted === false, "busy" ACTION_INTENT_STORE_BUSY, "error" any
\* other one.
Receipts == {"committed", "failed", "processing", "unknown"}
Results == Receipts \cup {"none", "opaque", "noWrite", "busy", "error"}
Posts   == {"none", "wire", "running", "answered", "lost"}

Present(i) == store[i] \notin {Never, Gone}
Entries(s) == {i \in Intents : s[i] \notin {Never, Gone}}

StoreTypeOK ==
    /\ store \in [Intents -> Intent \cup {Never, Gone}]
    /\ Cardinality(Entries(store)) <= MaxEntries
    /\ cmd \in [Commands -> Cmds]
    /\ pc \in [Commands -> Labels]
    /\ got \in [Commands -> Results]
    /\ post \in [Commands -> Posts]
    /\ Server!AbstractTypeOK

Init ==
    /\ store = [i \in Intents |-> Never]
    /\ cmd \in [Commands -> Cmds]
    /\ pc = [c \in Commands |-> "idle"]
    /\ got = [c \in Commands |-> "none"]
    /\ post = [c \in Commands |-> "none"]
    /\ Server!AbstractInit

-----------------------------------------------------------------------------
(* The helpers of a locked section.  They work on the copy that loadStore   *)
(* read; only saveStore puts it back.                                       *)

Pending(entry) == entry.state \in {"prepared", "committing"}

\* What time has done to an intent.
Aged(entry) ==
    IF entry.state = "prepared" /\ entry.life >= TTL
    THEN [entry EXCEPT !.state = "expired"]
    ELSE IF entry.state = "committing" /\ entry.since >= CommitStale
    THEN [entry EXCEPT !.state = "unknown", !.since = 0]
    ELSE entry

\* Mutant of Normalized: an interrupted commit stays as it is.
NormalizedNeverStale(s) ==
    [i \in Intents |->
        IF s[i] \in {Never, Gone} \/ s[i].state = "committing" THEN s[i]
        ELSE IF ~Pending(Aged(s[i])) /\ s[i].life >= Horizon THEN Gone
        ELSE Aged(s[i])]

\* normalizeStore
Normalized(s) ==
    [i \in Intents |->
        IF s[i] \in {Never, Gone} THEN s[i]
        ELSE IF ~Pending(Aged(s[i])) /\ s[i].life >= Horizon THEN Gone
        ELSE Aged(s[i])]

\* Mutant of Evictable: the oldest intent goes, whatever its state.
AnythingEvictable(s) == Entries(s)

Evictable(s) == {i \in Entries(s) : ~Pending(s[i])}

\* What enforceCapacity can make of a store: a full one loses the oldest of its
\* evictable intents.  No outcome means ACTION_INTENT_CAPACITY_REACHED.
WithRoom(s) ==
    IF Cardinality(Entries(s)) < MaxEntries THEN {s}
    ELSE {[s EXCEPT ![i] = Gone] :
            i \in {j \in Evictable(s) : \A k \in Evictable(s) : s[k].life <= s[j].life}}

\* saveStore writes a temporary file and renames it: the new store is there in
\* full or not at all, and either way an error may be thrown.
SaveThen(s, onSaved, onError) ==
    \/ store' = s /\ (onSaved \/ onError)
    \/ UNCHANGED store /\ onError

-----------------------------------------------------------------------------
(* prepare, list and deny: one locked section each.                        *)

idling == <<cmd, pc, got, post, verdict, published>>

\* An equal intent that is still prepared is reused; the store is written then
\* only if normalizing it changed something.
Prepare(i) ==
    /\ store[i] = Never
    /\ \E room \in WithRoom(Normalized(store)) :
        LET reused == \E j \in Entries(room) : /\ room[j].state = "prepared"
                                               /\ PayloadOf[j] = PayloadOf[i] IN
        \/ reused /\ store' = IF Normalized(store) = store THEN store ELSE room
        \/ /\ ~reused
           /\ store' = [room EXCEPT ![i] =
                           [state |-> "prepared", life |-> 0, since |-> 0]]
    /\ UNCHANGED idling

List == store' = Normalized(store) /\ UNCHANGED idling

Deny(i) ==
    /\ Present(i)
    /\ LET s == Normalized(store) IN
       /\ s[i] # Gone
       /\ \/ s[i].state = "denied" /\ store' = s
          \/ s[i].state = "prepared" /\ store' = [s EXCEPT ![i].state = "denied"]
    /\ UNCHANGED idling

-----------------------------------------------------------------------------
(* commit.                                                                 *)

Target(c) == cmd[c].intent
Goto(c, label) == pc' = [pc EXCEPT ![c] = label]
Return(c, result, label) == got' = [got EXCEPT ![c] = result] /\ Goto(c, label)

\* A command ends early: it may not have the owner or the file, or find the
\* intent in a state it does not work on, or its process dies.  In any of these
\* cases it writes nothing.
Abandon(c) ==
    /\ pc[c] # "done"
    /\ Goto(c, "done")
    /\ UNCHANGED <<store, cmd, got, post, server>>

\* withLock gives up waiting, before its section starts.
Busy(c) ==
    /\ \/ pc[c] \in {"idle", "apply"} /\ Return(c, "busy", "done")
       \/ pc[c] = "settle" /\ Return(c, "busy", "recover")
    /\ UNCHANGED <<store, cmd, post, server>>

\* Mutant of Committable: an uncertain intent may be tried again.
CommittableWhenUnknown(entry) == entry.state \in {"prepared", "unknown"}

Committable(entry) == entry.state = "prepared"

\* The first locked section: the intent is "committing" on disk before the
\* executor starts.  An intent with a saved receipt is answered from the store.
BeginCommit(c) ==
    /\ pc[c] = "idle" /\ cmd[c].kind = "commit" /\ Present(Target(c))
    /\ LET s == Normalized(store) IN
       /\ s[Target(c)] # Gone
       /\ \/ /\ s[Target(c)].state \in {"committed", "failed"}
             /\ SaveThen(s, Goto(c, "done"), Goto(c, "done"))
          \/ /\ Committable(s[Target(c)])
             /\ SaveThen([s EXCEPT ![Target(c)].state = "committing",
                                   ![Target(c)].since = 0],
                         Goto(c, "preflight"), Goto(c, "done"))
    /\ UNCHANGED <<cmd, got, post, server>>

\* dispatchIdempotentAction: the protocol and the Guest session are checked
\* first, and failing there is known to have written nothing.  The other kinds
\* make no such distinction.
Preflight(c) ==
    /\ pc[c] = "preflight"
    /\ \/ /\ post' = [post EXCEPT ![c] = "wire"]
          /\ Goto(c, "posted")
          /\ UNCHANGED got
       \/ /\ Return(c, IF Target(c) \in Social THEN "noWrite" ELSE "error", "recover")
          /\ UNCHANGED post
       \/ Return(c, "error", "recover") /\ UNCHANGED post
    /\ UNCHANGED <<store, cmd, server>>

\* The client hears nothing it can use: a timeout, a 5xx, an invalid answer.
\* For a receipt it asks once more, read-only.  The POST may still arrive.
GiveUpOnPost(c) ==
    /\ pc[c] = "posted"
    /\ IF Target(c) \in Social THEN Goto(c, "status") /\ UNCHANGED got
       ELSE Return(c, "error", "recover")
    /\ UNCHANGED <<store, cmd, post, server>>

\* What a read of the action answers while the server says v.
ReceiptOf(v) == IF v = "open" THEN "processing" ELSE v

\* The one status read of a commit whose POST went unheard.
ReadStatus(c) ==
    /\ pc[c] = "status"
    /\ LET i == Target(c) IN
       \/ verdict[i] # "absent" /\ Return(c, ReceiptOf(verdict[i]), "settle")
       \/ Return(c, "error", "recover")
    /\ UNCHANGED <<store, cmd, post, server>>

\* Mutant of StateFor: whatever is not a failure counts as done.
StateForOptimistic(result) == IF result = "failed" THEN "failed" ELSE "committed"

\* The state that a receipt, or the result of a kind without receipts, means.
StateFor(result) ==
    IF result \in {"committed", "opaque"} THEN "committed"
    ELSE IF result = "failed" THEN "failed" ELSE "unknown"

\* Mutant of Recovered: any failed commit may be retried.
RecoveredForRetry(result) == "prepared"

\* What the catch clause makes of an intent that is still committing.
Recovered(result) == IF result = "noWrite" THEN "prepared" ELSE "unknown"

\* The second locked section, which only finishes a commit that is still
\* running as far as the store knows.  Everything else is an error, and those
\* are handled by the catch clause.
Settle(c) ==
    /\ pc[c] = "settle"
    /\ LET s == Normalized(store)
           i == Target(c) IN
       \/ /\ Present(i) /\ s[i] # Gone /\ s[i].state = "committing"
          /\ SaveThen([s EXCEPT ![i].state = StateFor(got[c]), ![i].since = 0],
                      Goto(c, "done") /\ UNCHANGED got,
                      Return(c, "error", "recover"))
       \/ UNCHANGED store /\ Return(c, "error", "recover")
    /\ UNCHANGED <<cmd, post, server>>

\* The catch clause.  Its own failures are swallowed.
Recover(c) ==
    /\ pc[c] = "recover"
    /\ LET s == Normalized(store)
           i == Target(c) IN
       \/ /\ Present(i) /\ s[i] # Gone /\ s[i].state = "committing"
          /\ store' = [s EXCEPT ![i].state = Recovered(got[c]), ![i].since = 0]
       \/ UNCHANGED store
    /\ Goto(c, "done")
    /\ UNCHANGED <<cmd, got, post, server>>

-----------------------------------------------------------------------------
(* reconcile.                                                              *)

BeginReconcile(c) ==
    /\ pc[c] = "idle" /\ cmd[c].kind = "reconcile"
    /\ Target(c) \in Social /\ Present(Target(c))
    /\ LET entry == Normalized(store)[Target(c)] IN
       entry # Gone /\ entry.state # "prepared"
    /\ Goto(c, "resolve")
    /\ UNCHANGED <<store, cmd, got, post, server>>

\* The answer is read here and applied later.  Without one there is an error.
Resolve(c) ==
    /\ pc[c] = "resolve"
    /\ verdict[Target(c)] # "absent"
    /\ Return(c, ReceiptOf(verdict[Target(c)]), "apply")
    /\ UNCHANGED <<store, cmd, post, server>>

\* reconcile maps a receipt to a state as commit does.
Applied(result) == StateFor(result)

\* The second locked section compares the fingerprint, which never changes, and
\* overwrites whatever state the intent is in by now.
ApplyReceipt(c) ==
    /\ pc[c] = "apply"
    /\ Present(Target(c))
    /\ LET s == Normalized(store) IN
       /\ s[Target(c)] # Gone
       /\ SaveThen([s EXCEPT ![Target(c)].state = Applied(got[c]),
                             ![Target(c)].since = 0],
                   Goto(c, "done"), Goto(c, "done"))
    /\ UNCHANGED <<cmd, got, post, server>>

-----------------------------------------------------------------------------
(* The network and the server.                                             *)

\* A POST arrives and its action is recorded, unless it already was.
AcceptPost(c) ==
    /\ post[c] = "wire"
    /\ post' = [post EXCEPT ![c] = "running"]
    /\ \/ Server!Open(Target(c))
       \/ verdict[Target(c)] # "absent" /\ UNCHANGED server
    /\ UNCHANGED <<store, cmd, pc, got>>

\* A POST is refused with a 4xx before anything is recorded.
RejectPost(c) ==
    /\ post[c] = "wire"
    /\ post' = [post EXCEPT ![c] = "lost"]
    /\ \/ pc[c] = "posted" /\ Return(c, IF Target(c) \in Social THEN "noWrite"
                                        ELSE "error", "recover")
       \/ UNCHANGED <<pc, got>>
    /\ UNCHANGED <<store, cmd, server>>

LosePost(c) ==
    /\ post[c] = "wire"
    /\ post' = [post EXCEPT ![c] = "lost"]
    /\ UNCHANGED <<store, cmd, pc, got, server>>

\* The public object is created, perhaps long after the client gave up.
PublishPost(c) ==
    /\ post[c] = "running"
    /\ Server!Publish(Target(c))
    /\ UNCHANGED <<store, cmd, pc, got, post>>

\* The server answers a client that still listens with the receipt of the
\* moment; a kind without receipts is answered only when it was done.
AnswerPost(c) ==
    /\ post[c] = "running"
    /\ post' = [post EXCEPT ![c] = "answered"]
    /\ \/ /\ pc[c] = "posted" /\ Target(c) \in Social
          /\ Return(c, ReceiptOf(verdict[Target(c)]), "settle")
       \/ /\ pc[c] = "posted" /\ Target(c) \notin Social
          /\ published[Target(c)]
          /\ Return(c, "opaque", "settle")
       \/ UNCHANGED <<pc, got>>
    /\ UNCHANGED <<store, cmd, server>>

\* The verdict of an action, from its own request or from the server's sealing.
ServerDecides(i) ==
    /\ Server!Commit(i) \/ Server!Refuse(i) \/ Server!GiveUp(i)
    /\ UNCHANGED <<store, cmd, pc, got, post>>

Older(n) == IF n < Horizon THEN n + 1 ELSE n

Tick ==
    /\ store' = [i \in Intents |->
                    IF ~Present(i) THEN store[i]
                    ELSE [store[i] EXCEPT
                            !.life = Older(@),
                            !.since = IF store[i].state = "committing"
                                      THEN Older(@) ELSE @]]
    /\ UNCHANGED idling

Command(c) ==
    \/ Busy(c) \/ BeginCommit(c) \/ Preflight(c) \/ GiveUpOnPost(c) \/ ReadStatus(c)
    \/ Settle(c) \/ Recover(c)
    \/ BeginReconcile(c) \/ Resolve(c) \/ ApplyReceipt(c)

Network(c) == AcceptPost(c) \/ RejectPost(c) \/ LosePost(c) \/ PublishPost(c)
              \/ AnswerPost(c)

Next == \/ \E i \in Intents : Prepare(i) \/ Deny(i) \/ ServerDecides(i)
        \/ \E c \in Commands : Command(c) \/ Abandon(c) \/ Network(c)
        \/ List
        \/ Tick

Spec == Init /\ [][Next]_vars

\* Owners keep using the store and time passes; no command need get anywhere.
FairSpec == Spec /\ WF_vars(List) /\ WF_vars(Tick)

-----------------------------------------------------------------------------
(* Properties.                                                             *)

Dispatched(c) == post[c] \in {"wire", "running", "answered"}

\* However commands for one intent race, fail, crash and are repeated, at most
\* one POST of it ever reaches the server: the store blocks every replay of a
\* request whose outcome it does not know (the transition to "committing" and
\* the catch clause of commit).
OneDispatchPerIntent ==
    \A c1, c2 \in Commands :
        Dispatched(c1) /\ Dispatched(c2) /\ Target(c1) = Target(c2) => c1 = c2

\* "No public action was attempted": an intent that is prepared, denied or
\* expired has published nothing and no POST of it is on its way.
UntouchedUntilCommitted ==
    \A i \in Intents :
        Present(i) /\ store[i].state \in {"prepared", "denied", "expired"} =>
            /\ ~published[i]
            /\ \A c \in Commands : Target(c) = i => ~Dispatched(c)

\* What the store says of a finished intent is what the server says.
StoreAgreesWithServer ==
    \A i \in Social : Present(i) =>
        /\ store[i].state = "committed" => verdict[i] = "committed" /\ published[i]
        /\ store[i].state = "failed" => verdict[i] = "failed" /\ ~published[i]

\* An intent that awaits its owner or its commit leaves the file only by age:
\* making room never takes one whose outcome is still open.
PendingIsNeverEvicted ==
    [][\A i \in Intents :
         Present(i) /\ store'[i] = Gone /\ Pending(store[i]) =>
            \/ store[i].state = "prepared" /\ store[i].life >= TTL
            \/ store[i].state = "committing" /\ store[i].since >= CommitStale]_vars

\* A commit that its process abandoned does not stay "committing" for ever.
EveryCommitIsSealed ==
    \A i \in Intents :
        (Present(i) /\ store[i].state = "committing")
            ~> (~Present(i) \/ store[i].state # "committing")

\* "A completed intent returns its persisted public receipt" (SECURITY.md): once
\* committed or failed, an intent stays so until it is pruned.
CompletedStaysCompleted ==
    [][\A i \in Intents :
         Present(i) /\ store[i].state \in {"committed", "failed"} =>
            store'[i] = Gone \/ store'[i].state = store[i].state]_vars

\* The one way out of that: the answer of a reconcile was "processing" when it was
\* read, and is applied when a later answer has already completed the intent. An
\* answer that is final, a commit that ends late or a section that only reads never
\* takes a completed intent back, and none turns success into failure.
OnlyOldNewsUndoes ==
    [][\A i \in Intents :
         Present(i) /\ store[i].state \in {"committed", "failed"} =>
            \/ store'[i] = Gone \/ store'[i].state = store[i].state
            \/ /\ store'[i].state = "unknown"
               /\ \E c \in Commands : /\ pc[c] = "apply" /\ Target(c) = i
                                      /\ got[c] = "processing"]_vars
=============================================================================

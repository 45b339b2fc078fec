---------------------------- MODULE AgentRuntime ----------------------------
(***************************************************************************)
(* The secrets of one Agent and the calls that use them: the single-flight *)
(* Guest entry, the invite and the run lease claims of the SDK             *)
(* (src/sdk/client.js), the memory that holds what they return             *)
(* (src/sdk/memory-secret-store.js), the registry of runtimes              *)
(* (src/state.js) and its clearing at gateway_stop (src/index.js).         *)
(*                                                                         *)
(* All of it runs on one event loop: what happens between two awaits is    *)
(* one step, and any other call may run at an await.  A stop drops the     *)
(* runtime from the registry, so later calls get a new one, but a call     *)
(* that is under way goes on with the old one.                             *)
(***************************************************************************)
EXTENDS Naturals

CONSTANTS
    Calls,          \* calls of tools and commands, each runs once
    Names,          \* the names under which the Agent enters
    Runtimes,       \* runtime objects, made one after the other
    Kinds,          \* the kinds of calls that a behaviour has
    None

ASSUME RuntimeAssumption ==
    /\ Kinds \subseteq {"enter", "commit", "claimInvite", "claimLease"}
    /\ None \notin Calls /\ None \notin Runtimes
    /\ None \notin Names \cup {"failed"} /\ "failed" \notin Names

VARIABLES
    call,           \* what each call is: its kind and the name it enters under
    registered,     \* the runtime in the registry
    epoch,          \* secretEpoch of each runtime
    inFlight,       \* guestEntryInFlight: the call whose entry it is
    pass, session, lease,   \* the secrets: the calls that brought them
    pc, runtime,
    joined,         \* the call whose entry a call shares or waits for
    asked,          \* the epoch in which a call's entry, or its wait, began
    outcome         \* the name under which a call entered, or "failed"

calls == <<call, registered>>
secrets == <<pass, session, lease>>
vars == <<call, registered, epoch, inFlight, pass, session, lease,
          pc, runtime, joined, asked, outcome>>

Labels == {"idle", "protocol", "ask", "entering", "sharing", "waiting", "sent",
           "claiming", "asserting", "leasing", "done"}
Epochs == {0, 1}        \* a runtime is cleared once, when it is dropped

RuntimeTypeOK ==
    /\ call \in [Calls -> [kind: Kinds, name: Names]]
    /\ registered \in Runtimes \cup {None}
    /\ epoch \in [Runtimes -> Epochs]
    /\ inFlight \in [Runtimes -> Calls \cup {None}]
    /\ pass \in [Runtimes -> Calls \cup {None}]
    /\ session \in [Runtimes -> Calls \cup {None}]
    /\ lease \in [Runtimes -> Calls \cup {None}]
    /\ pc \in [Calls -> Labels]
    /\ runtime \in [Calls -> Runtimes \cup {None}]
    /\ joined \in [Calls -> Calls \cup {None}]
    /\ asked \in [Calls -> Epochs]
    /\ outcome \in [Calls -> Names \cup {None, "failed"}]

Init ==
    /\ call \in [Calls -> [kind: Kinds, name: Names]]
    /\ registered = None
    /\ epoch = [r \in Runtimes |-> 0]
    /\ inFlight = [r \in Runtimes |-> None]
    /\ pass = [r \in Runtimes |-> None]
    /\ session = [r \in Runtimes |-> None]
    /\ lease = [r \in Runtimes |-> None]
    /\ pc = [c \in Calls |-> "idle"]
    /\ runtime = [c \in Calls |-> None]
    /\ joined = [c \in Calls |-> None]
    /\ asked = [c \in Calls |-> 0]
    /\ outcome = [c \in Calls |-> None]

Goto(c, label) == pc' = [pc EXCEPT ![c] = label]

\* resolve returns the registered runtime or makes one; the kind of a call
\* decides what it awaits first.
Begin(c) ==
    /\ pc[c] = "idle"
    /\ \/ registered # None /\ UNCHANGED registered
       \/ /\ registered = None
          /\ registered' \in {r \in Runtimes : /\ epoch[r] = 0
                                               /\ \A d \in Calls : runtime[d] # r}
    /\ runtime' = [runtime EXCEPT ![c] = registered']
    /\ Goto(c, CASE call[c].kind = "enter"       -> "ask"
                 [] call[c].kind = "commit"      -> "protocol"
                 [] call[c].kind = "claimInvite" -> "claiming"
                 [] call[c].kind = "claimLease"  ->
                        IF session[registered'] = None THEN "done" ELSE "asserting")
    /\ UNCHANGED <<call, epoch, inFlight, secrets, joined, asked, outcome>>

-----------------------------------------------------------------------------
(* Guest entry.                                                            *)

\* The end of a call's entry is the end of an "enter"; a commit then reads the
\* pass again and sends its request with it.
AfterEntry(c, result) ==
    Goto(c, IF call[c].kind = "commit" /\ result # "failed" /\ pass'[runtime[c]] # None
            THEN "sent" ELSE "done")

SharesName(c, d) == call[c].name = call[d].name

\* enterSingleFlight starts an entry, shares the one in flight under the same
\* name, or waits for it to end.
SingleFlight(c) ==
    /\ LET r == runtime[c]
           active == inFlight[r] IN
       /\ asked' = [asked EXCEPT ![c] = epoch[r]]
       /\ \/ /\ active = None
             /\ inFlight' = [inFlight EXCEPT ![r] = c]
             /\ Goto(c, "entering")
             /\ UNCHANGED joined
          \/ /\ active # None
             /\ joined' = [joined EXCEPT ![c] = active]
             /\ Goto(c, IF SharesName(c, active) THEN "sharing" ELSE "waiting")
             /\ UNCHANGED inFlight
    /\ UNCHANGED <<calls, epoch, secrets, runtime, outcome>>

\* enter of a tool whose factory took its runtime before.
Ask(c) == pc[c] = "ask" /\ SingleFlight(c)

\* Mutant of StillCurrent: the epoch is not compared.
AlwaysCurrent(c) == TRUE

StillCurrent(c) == asked[c] = epoch[runtime[c]]

\* Mutant of Cleared: the finally clause forgets to look whose entry is in flight.
ClearedForAll(c) == [inFlight EXCEPT ![runtime[c]] = None]
\* Mutant of Cleared: a failed entry stays in flight.
ClearedNever(c) == inFlight

\* The finally clause of enterSingleFlight.
Cleared(c) ==
    [r \in Runtimes |-> IF r = runtime[c] /\ inFlight[r] = c THEN None ELSE inFlight[r]]

\* performEnter gets its answer.  A pass that comes after a cleanup is dropped.
FinishEntry(c) ==
    /\ pc[c] = "entering"
    /\ \/ /\ StillCurrent(c)
          /\ pass' = [pass EXCEPT ![runtime[c]] = c]
          /\ outcome' = [outcome EXCEPT ![c] = call[c].name]
          /\ AfterEntry(c, call[c].name)
       \/ /\ outcome' = [outcome EXCEPT ![c] = "failed"]
          /\ Goto(c, "done")
          /\ UNCHANGED pass
    /\ inFlight' = Cleared(c)
    /\ UNCHANGED <<calls, epoch, session, lease, runtime, joined, asked>>

\* A call that shares an entry ends as that entry did.
FinishShared(c) ==
    /\ pc[c] = "sharing"
    /\ outcome[joined[c]] # None
    /\ outcome' = [outcome EXCEPT ![c] = outcome[joined[c]]]
    /\ UNCHANGED <<calls, epoch, inFlight, secrets, runtime, joined, asked>>
    /\ AfterEntry(c, outcome[joined[c]])

\* A call that waited tries again, unless there was a cleanup meanwhile.
FinishWait(c) ==
    /\ pc[c] = "waiting"
    /\ outcome[joined[c]] # None
    /\ \/ StillCurrent(c) /\ SingleFlight(c)
       \/ /\ ~StillCurrent(c)
          /\ outcome' = [outcome EXCEPT ![c] = "failed"]
          /\ Goto(c, "done")
          /\ UNCHANGED <<calls, epoch, inFlight, secrets, runtime, joined, asked>>

-----------------------------------------------------------------------------
(* The other calls.                                                        *)

\* dispatchIdempotentAction: after the protocol preflight, ensureGuestAuthorization
\* takes the pass in memory or enters.
Authorize(c) ==
    /\ pc[c] = "protocol"
    /\ \/ /\ pass[runtime[c]] # None
          /\ Goto(c, "sent")
          /\ UNCHANGED <<calls, epoch, inFlight, secrets, runtime, joined, asked, outcome>>
       \/ pass[runtime[c]] = None /\ SingleFlight(c)

\* claimInvite: a new session replaces the old one and its lease.
FinishClaim(c) ==
    /\ pc[c] = "claiming"
    /\ session' = [session EXCEPT ![runtime[c]] = c]
    /\ lease' = [lease EXCEPT ![runtime[c]] = None]
    /\ Goto(c, "done")
    /\ UNCHANGED <<calls, epoch, inFlight, pass, runtime, joined, asked, outcome>>

\* claimRunLease: the assertion is there, the lease is asked for.
FinishAssertion(c) ==
    /\ pc[c] = "asserting"
    /\ Goto(c, "leasing")
    /\ UNCHANGED <<calls, epoch, inFlight, secrets, runtime, joined, asked, outcome>>

FinishLease(c) ==
    /\ pc[c] = "leasing"
    /\ lease' = [lease EXCEPT ![runtime[c]] = c]
    /\ Goto(c, "done")
    /\ UNCHANGED <<calls, epoch, inFlight, pass, session, runtime, joined, asked, outcome>>

\* A request of a call fails, or its answer is invalid.
Fail(c) ==
    /\ pc[c] \in {"protocol", "claiming", "asserting", "leasing", "sent"}
    /\ Goto(c, "done")
    /\ UNCHANGED <<calls, epoch, inFlight, secrets, runtime, joined, asked, outcome>>

-----------------------------------------------------------------------------
(* The clock and the Gateway.                                              *)

\* What has expired is as good as gone: every reader drops it first.  An expired
\* session takes its lease with it, but not when it is safeState that drops it.
Expire(r) ==
    /\ \/ pass' = [pass EXCEPT ![r] = None] /\ UNCHANGED <<session, lease>>
       \/ lease' = [lease EXCEPT ![r] = None] /\ UNCHANGED <<pass, session>>
       \/ /\ session' = [session EXCEPT ![r] = None]
          /\ lease' \in {lease, [lease EXCEPT ![r] = None]}
          /\ UNCHANGED pass
    /\ UNCHANGED <<calls, epoch, inFlight, pc, runtime, joined, asked, outcome>>

\* Mutant of RegisteredAfterStop: the runtime is cleared, and stays registered.
StaysRegistered == registered

\* clearAll leaves the registry empty.
RegisteredAfterStop == None

\* gateway_stop: clearAll clears the secrets of the runtime and forgets it.
GatewayStop ==
    /\ registered # None
    /\ epoch' = [epoch EXCEPT ![registered] = @ + 1]
    /\ inFlight' = [inFlight EXCEPT ![registered] = None]
    /\ pass' = [pass EXCEPT ![registered] = None]
    /\ session' = [session EXCEPT ![registered] = None]
    /\ lease' = [lease EXCEPT ![registered] = None]
    /\ registered' = RegisteredAfterStop
    /\ UNCHANGED <<call, pc, runtime, joined, asked, outcome>>

EntryStep(c) == Ask(c) \/ FinishEntry(c) \/ FinishShared(c) \/ FinishWait(c)

Step(c) ==
    \/ Begin(c) \/ EntryStep(c) \/ Authorize(c)
    \/ FinishClaim(c) \/ FinishAssertion(c) \/ FinishLease(c) \/ Fail(c)

Next ==
    \/ \E c \in Calls : Step(c)
    \/ \E r \in Runtimes : Expire(r)
    \/ GatewayStop

Spec == Init /\ [][Next]_vars

\* Every request ends, by its timeout if need be, and the event loop goes on.
Fairness == \A c \in Calls : WF_vars(EntryStep(c))
FairSpec == Spec /\ Fairness

-----------------------------------------------------------------------------
(* Properties.                                                             *)

\* "Concurrent Guest entry calls never race inside one Agent runtime": of the
\* entries under way, only one can still store its pass, and it is the one that
\* later calls are made to share or to wait for (enterSingleFlight).
OneEntryAtATime ==
    \A c \in Calls : pc[c] = "entering" /\ StillCurrent(c) => inFlight[runtime[c]] = c

\* "Secret cleanup cancels both the active request and its queue before either
\* can restore a Guest Pass": a pass in memory was asked for since the last one.
PassWasAskedSinceCleanup ==
    \A r \in Runtimes : pass[r] # None => asked[pass[r]] = epoch[r]

\* claimInvite and claimRunLease do not look at the epoch: one that a cleanup cut
\* off stores its secret after it.  It does so in a runtime that is out of the
\* registry: the one that later calls get was never cleared, and it holds no
\* secret but those that its own calls brought.
LateSecretsAreOutOfReach ==
    registered # None =>
        /\ epoch[registered] = 0
        /\ \A c \in {pass[registered], session[registered], lease[registered]} \ {None} :
               runtime[c] = registered

\* The entry that a call shares or waits for is under way, or has ended: nobody
\* waits on a call that waits itself, or for an answer that was given before.
NoEntryIsStuck ==
    \A c \in Calls : pc[c] \in {"sharing", "waiting"} =>
        \/ pc[joined[c]] = "entering"
        \/ outcome[joined[c]] # None

\* "Matching Agent names share the same in-flight request": a call never gets the
\* result of an entry under another name.
EntryHasOwnName ==
    \A c \in Calls : outcome[c] \in Names => outcome[c] = call[c].name

\* No call waits for ever, whether the entries that it waits for succeed, fail or
\* are cut off by a cleanup.
EveryEntryEnds ==
    \A c \in Calls : pc[c] \in {"ask", "entering", "sharing", "waiting"}
                        ~> pc[c] \in {"sent", "done"}
=============================================================================

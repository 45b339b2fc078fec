--------------------------- MODULE TrustMiddleware ---------------------------
(***************************************************************************)
(* The trust hooks and their ledger: beforeToolCall and afterToolCall of   *)
(* src/trust-middleware.js, the decision of src/trust-policy.js, and the   *)
(* append queue of src/trust-ledger.js, which reads the file, adds one     *)
(* event and replaces the file.                                            *)
(*                                                                         *)
(* The plugin's configuration yields the modes "off" and "observe" only    *)
(* (normalizeTrustLayerConfig); "enforce" is the path that the class has   *)
(* for later and that its tests exercise.  With "off" nothing happens.     *)
(***************************************************************************)
EXTENDS Naturals, Sequences, FiniteSets, SequencesExt

CONSTANTS
    ToolCalls,      \* calls of tools that a rule governs
    Modes,          \* modes of a behaviour: "observe", "enforce"
    MaxEntries,     \* ledgerMaxEntries
    MaxMishaps,     \* bound: appends that fail and reads that do
    NoAppend

ASSUME TrustAssumption ==
    /\ Modes \subseteq {"observe", "enforce"}
    /\ MaxEntries \in Nat \ {0} /\ MaxMishaps \in Nat
    /\ NoAppend \notin ToolCalls \X {"before", "approval", "after"}

Events == ToolCalls \X {"before", "approval", "after"}

VARIABLES
    mode,
    ledger,         \* the events in the file, the oldest first
    queue,          \* the append that the next one waits for
    waitsFor, append, copy,     \* each append: what it waits for, its state, what it read
    ledgerHealthy,
    hook, decision, \* where each call is, and what the policy said
    appended,       \* history: the events in the order in which they were stored
    mishaps,
    lossy           \* history: a gateway_stop found an append under way, or a read
                    \* that failed emptied the file

appends == <<queue, waitsFor, append, copy>>
trustVars == <<mode, ledger, appends, ledgerHealthy, hook, decision, appended, mishaps, lossy>>

Settled == {"stored", "failed"}
Decisions == {"none", "allow", "block", "require_approval"}
HookLabels == {"idle", "recording", "asked", "resolving", "blocked", "running", "finishing", "done"}

TrustTypeOK ==
    /\ mode \in Modes
    /\ ledger \in Seq(Events) /\ Len(ledger) <= MaxEntries
    /\ queue \in Events \cup {NoAppend}
    /\ waitsFor \in [Events -> Events \cup {NoAppend}]
    /\ append \in [Events -> {"none", "queued", "read"} \cup Settled]
    /\ copy \in [Events -> Seq(Events)]
    /\ ledgerHealthy \in BOOLEAN
    /\ hook \in [ToolCalls -> HookLabels]
    /\ decision \in [ToolCalls -> Decisions]
    /\ appended \in Seq(Events) /\ mishaps \in 0..MaxMishaps /\ lossy \in BOOLEAN

TrustInit ==
    /\ mode \in Modes
    /\ ledger = <<>>
    /\ queue = NoAppend
    /\ waitsFor = [e \in Events |-> NoAppend]
    /\ append = [e \in Events |-> "none"]
    /\ copy = [e \in Events |-> <<>>]
    /\ ledgerHealthy = TRUE
    /\ hook = [c \in ToolCalls |-> "idle"]
    /\ decision = [c \in ToolCalls |-> "none"]
    /\ appended = <<>> /\ mishaps = 0 /\ lossy = FALSE

-----------------------------------------------------------------------------
(* The ledger.                                                             *)

\* append: behind the append that was asked for last.
Enqueue(e) ==
    /\ waitsFor' = [waitsFor EXCEPT ![e] = queue]
    /\ append' = [append EXCEPT ![e] = "queued"]
    /\ queue' = e
    /\ UNCHANGED copy

\* Mutants of MyTurn: the appends do not wait for one another; or one that failed
\* rejects the promise that the next one is chained to.
AlwaysMyTurn(e) == TRUE
TurnAfterSuccess(e) == waitsFor[e] # NoAppend => append[waitsFor[e]] = "stored"

\* The one before has settled, whether it stored its event or failed.
MyTurn(e) == waitsFor[e] # NoAppend => append[waitsFor[e]] \in Settled

\* appendInternal reads the file.  Any error of the read but ENOENT, and a file that
\* is too large or no JSON, count as an empty file.
ReadLedger(e) ==
    /\ append[e] = "queued"
    /\ MyTurn(e)
    /\ append' = [append EXCEPT ![e] = "read"]
    /\ \/ /\ copy' = [copy EXCEPT ![e] = ledger]
          /\ UNCHANGED <<mishaps, lossy>>
       \/ /\ mishaps < MaxMishaps
          /\ mishaps' = mishaps + 1
          /\ copy' = [copy EXCEPT ![e] = <<>>]
          /\ lossy' = TRUE
    /\ waitsFor' = [waitsFor EXCEPT ![e] = NoAppend]
    /\ UNCHANGED <<mode, ledger, queue, ledgerHealthy, hook, decision, appended>>

\* slice(-maxEntries).
Newest(s) == SubSeq(s, IF Len(s) > MaxEntries THEN Len(s) - MaxEntries + 1 ELSE 1, Len(s))

StoreLedger(e) ==
    /\ append[e] = "read"
    /\ ledger' = Newest(Append(copy[e], e))
    /\ append' = [append EXCEPT ![e] = "stored"]
    /\ copy' = [copy EXCEPT ![e] = <<>>]
    /\ appended' = Append(appended, e)
    /\ UNCHANGED <<mode, queue, waitsFor, ledgerHealthy, hook, decision, mishaps, lossy>>

\* A step of appendInternal fails, or the file would be too large.  record marks
\* the ledger as unhealthy for the rest of the process.
AppendFails(e) ==
    /\ append[e] \in {"queued", "read"} /\ MyTurn(e)
    /\ mishaps < MaxMishaps
    /\ mishaps' = mishaps + 1
    /\ append' = [append EXCEPT ![e] = "failed"]
    /\ copy' = [copy EXCEPT ![e] = <<>>]
    /\ waitsFor' = [waitsFor EXCEPT ![e] = NoAppend]
    /\ ledgerHealthy' = FALSE
    /\ UNCHANGED <<mode, ledger, queue, hook, decision, appended, lossy>>

-----------------------------------------------------------------------------
(* The hooks.                                                              *)

\* evaluateTrustDecision: the lease in memory is the Agent's own and has the scope
\* of the rule; a rule of high risk, or with an approval, asks the Owner too.
evaluateTrustDecision(agent, lease, rule) ==
    IF agent = "none" \/ lease.agent # agent \/ ~lease.scoped THEN "block"
    ELSE IF rule.approval \/ rule.risky THEN "require_approval" ELSE "allow"

Leases == [agent: {"none", "own", "other"}, scoped: BOOLEAN]
Rules == [approval: BOOLEAN, risky: BOOLEAN]

\* beforeToolCall up to its first await; the policy fails if safeState does.
BeforeToolCall(c) ==
    /\ hook[c] = "idle"
    /\ \/ \E agent \in {"none", "own"}, lease \in Leases, rule \in Rules :
              decision' = [decision EXCEPT ![c] = evaluateTrustDecision(agent, lease, rule)]
       \/ decision' = [decision EXCEPT ![c] = "block"]
    /\ hook' = [hook EXCEPT ![c] = "recording"]
    /\ Enqueue(<<c, "before">>)
    /\ UNCHANGED <<mode, ledger, ledgerHealthy, appended, mishaps, lossy>>

\* Mutant of Recorded: a call is let through whether or not it is in the ledger.
RecordedOrNot(c) == TRUE

Recorded(c) == append[<<c, "before">>] = "stored" /\ ledgerHealthy

\* What beforeToolCall returns, after its record: "observe" never blocks.
Answer(c) ==
    IF mode = "observe" THEN "running"
    ELSE IF ~Recorded(c) \/ decision[c] = "block" THEN "blocked"
    ELSE IF decision[c] = "require_approval" THEN "asked" ELSE "running"

Respond(c) ==
    /\ hook[c] = "recording"
    /\ append[<<c, "before">>] \in Settled
    /\ hook' = [hook EXCEPT ![c] = Answer(c)]
    /\ UNCHANGED <<mode, ledger, appends, ledgerHealthy, decision, appended, mishaps, lossy>>

\* onResolution: the Owner allows the call once, denies it, or the time is over.
Resolve(c) ==
    /\ hook[c] = "asked"
    /\ \E resolution \in {"allow", "block"} :
           decision' = [decision EXCEPT ![c] = resolution]
    /\ hook' = [hook EXCEPT ![c] = "resolving"]
    /\ Enqueue(<<c, "approval">>)
    /\ UNCHANGED <<mode, ledger, ledgerHealthy, appended, mishaps, lossy>>

ApprovalRecorded(c) == append[<<c, "approval">>] = "stored"

\* An approval that could not be recorded throws.
Resolved(c) ==
    /\ hook[c] = "resolving"
    /\ append[<<c, "approval">>] \in Settled
    /\ hook' = [hook EXCEPT ![c] = IF ApprovalRecorded(c) /\ decision[c] = "allow"
                                   THEN "running" ELSE "blocked"]
    /\ UNCHANGED <<mode, ledger, appends, ledgerHealthy, decision, appended, mishaps, lossy>>

\* The tool ends, with a result or an error.
AfterToolCall(c) ==
    /\ hook[c] = "running"
    /\ hook' = [hook EXCEPT ![c] = "finishing"]
    /\ Enqueue(<<c, "after">>)
    /\ UNCHANGED <<mode, ledger, ledgerHealthy, decision, appended, mishaps, lossy>>

Finished(c) ==
    /\ hook[c] = "finishing"
    /\ append[<<c, "after">>] \in Settled
    /\ hook' = [hook EXCEPT ![c] = "done"]
    /\ UNCHANGED <<mode, ledger, appends, ledgerHealthy, decision, appended, mishaps, lossy>>

\* clearRuntimeCache at gateway_stop: the next append waits for none, and goes
\* beside what is left of the old queue.
ClearLedger ==
    /\ queue' = NoAppend
    /\ lossy' = (lossy \/ \E e \in Events : append[e] \in {"queued", "read"})
    /\ UNCHANGED <<mode, ledger, waitsFor, append, copy, ledgerHealthy, hook, decision,
                   appended, mishaps>>

LedgerStep(e) == ReadLedger(e) \/ StoreLedger(e) \/ AppendFails(e)
HookReturns(c) == Respond(c) \/ Resolved(c) \/ Finished(c)

TrustNext ==
    \/ \E c \in ToolCalls : BeforeToolCall(c) \/ Resolve(c) \/ AfterToolCall(c) \/ HookReturns(c)
    \/ \E e \in Events : LedgerStep(e)
    \/ ClearLedger

TrustSpec == TrustInit /\ [][TrustNext]_trustVars

\* Reads, writes and promises settle; a call, the Owner's answer, the end of a tool
\* and a gateway_stop come from outside and may never come.
FairTrustSpec ==
    /\ TrustSpec
    /\ \A e \in Events : WF_trustVars(LedgerStep(e))
    /\ \A c \in ToolCalls : WF_trustVars(HookReturns(c))

-----------------------------------------------------------------------------
(* Properties.                                                             *)

\* The ledger is a bounded log: the file holds the newest of the events that
\* appends reported as stored, in their order.  A gateway_stop while an append is
\* under way, and a read that fails, lose events.
LedgerIsTheLog ==
    LET kept == IF Len(appended) < MaxEntries THEN Len(appended) ELSE MaxEntries
    IN  lossy \/ ledger = SubSeq(appended, Len(appended) - kept + 1, Len(appended))

\* The enforce path fails closed (a failed write does not turn a denied call into an
\* allowed one): a governed call runs only when its event, and the Owner's approval
\* if one was asked for, were stored before it, and when the policy allowed it.
GovernedCallsAreAudited ==
    mode = "enforce" =>
        \A c \in ToolCalls : hook[c] \in {"running", "finishing", "done"} =>
            /\ Contains(appended, <<c, "before">>)
            /\ decision[c] = "allow"
            /\ append[<<c, "approval">>] # "none" => Contains(appended, <<c, "approval">>)

\* The append whose result a hook awaits.
Awaits(c, e) ==
    \/ hook[c] = "recording" /\ e = <<c, "before">>
    \/ hook[c] = "resolving" /\ e = <<c, "approval">>
    \/ hook[c] = "finishing" /\ e = <<c, "after">>

CanMove(e) == append[e] = "read" \/ (append[e] = "queued" /\ MyTurn(e))

\* The queue has no deadlock: what a hook awaits has settled, or some append can take
\* its next step. The promises are chained backwards only, also after a gateway_stop
\* has begun a second chain beside the first.
NoHookIsStuck ==
    \A c \in ToolCalls, e \in Events : Awaits(c, e) =>
        append[e] \in Settled \/ \E f \in Events : CanMove(f)

\* Every hook returns: an append that fails, or that is left over from before a
\* gateway_stop, does not hold up the ones behind it for ever.
EveryHookReturns ==
    \A c \in ToolCalls :
        (hook[c] \in {"recording", "resolving", "finishing"})
            ~> (hook[c] \in {"blocked", "asked", "running", "done"})
=============================================================================

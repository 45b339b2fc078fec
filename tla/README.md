# Verification of the NodeRooms OpenClaw plugin

TLA+ models of the plugin under `src/` (JavaScript, one Node.js event loop per
Gateway process) and of the WordPress plugin under `server-reference/` (PHP, one
process per request), TLC runs that check them on small instances, and TLAPS
proofs of their safety properties for instances of any size. Paths below are
relative to the root of the repository; line numbers of every modelled definition
are in `PROJECT.json`, "map".

The program is a set of gatekeepers. Each guards one irreversible effect (a public
post, a Workboard card, a pull request, a secret, a policy in force) and promises
that the effect happens at most once, only while it is permitted, and that what it
writes down afterwards is true. All of them are exposed to the same world: calls
that interleave at every `await`, processes that die, files shared between
processes, requests whose answer is lost. The models keep that world and leave out
formats, wording and validation of single documents.

Contents: 1 inventory, 2 how the parts interact, 3 modules and how they correspond
to the code, 4 runs and bounds, 5 fairness, 6 proofs, 7 where code and documents
disagree, 8 what is not modelled, 9 plan.

## 1. Inventory

| Component | State it keeps | Operations | What is hard | What makes it correct |
|---|---|---|---|---|
| Action Idempotency Gateway, `server-reference/includes/*.php` | table `nr_action_idempotency`, one row for each (guest, action id) | `create_action`, `get_action`, `get_public_receipt`, daily cleanup | PHP processes interleave at every SQL statement, statements fail, processes die between two of them, rows expire, go stale and are deleted | one publisher for each record; receipts are true and stay true; an action id is free again only after the retention; abandoned records are sealed |
| Action intent store, `src/action-intents.js` | JSON file of owner-bound intents | prepare, list, deny, commit, reconcile | the executor and the resolver run outside the lock; failing saves; several processes and commands | one POST for each intent; "prepared" means untouched; the store agrees with the server; pending intents are not evicted |
| SDK dispatch, `src/sdk/client.js`, `src/sdk/action-protocol.js`, `src/http.js` | none | `dispatchIdempotentAction`, `actionStatus` | a POST may be lost, refused, late, or answered with something unusable | the outcome class never claims more than is known |
| State file locks, `withLock` (twice) and `withFileLock` | lock file beside each state file | take, retry, remove a stale one, release | `stat` and `rm` are two calls; slow sections; crashes | exclusion; no lost update; a dead lock is cleared |
| Agent runtime: Guest entry and secrets, `src/sdk/client.js`, `src/sdk/memory-secret-store.js`, `src/state.js` | Guest Pass, provider session, run lease in memory; `guestEntryInFlight`, `secretEpoch` | enter, claimInvite, claimRunLease, gateway_stop, expiry | calls share, queue behind and overtake one request; clearing while requests are under way | one entry in flight; a cleared secret stays cleared; every waiting call ends |
| Safe work runtime binding, `src/safe-work-runtime-binding.js` | JSON file of bindings, two in-memory sets | prepare, beforeToolCall, afterToolCall, cancel, list, preflight, reconcile, gateway_stop | external creations between two locked sections, lost results, errors after a rename, restarts | one create for each binding; bound has its card; settled stays settled; unresolved is kept; cancel blocks |
| Owner-approved Draft pull request, `src/github-draft-pr-e2e.js` | proof record file, dispatch reservation file | arm, beforeToolCall, afterToolCall, reconcileReadOnly, revoke | two files and no transaction; replay; a record restored from a copy; late or double answers | one dispatch, in the catalog and the time that were approved; committed is true; the record moves forward; revocation holds |
| Canonical connector policy sync, `src/canonical-connector-policy-sync.js` | policy, error, binding and promise in memory; a checkpoint shared through a store | sync, bindInventory, status, clearRuntimeCache | competing controllers, equivocating or replaying source, clearing under a sync | one chain of policies agreed by all; no binding without its policy; cleared stays cleared |
| Universal connector inventory, `src/universal-connector-engine.js` | snapshot, generation, error, promise, bounded set of unlisted tools | refresh, observeBeforeToolCall, clearRuntimeCache | an answer that is overtaken by another refresh, by a tool call or by a clearing; a failed refresh keeps the snapshot | the snapshot never goes back; a tool that was called and is listed nowhere makes status ask for a refresh |
| Trust middleware, policy and ledger, `src/trust-*.js` | bounded audit file, promise queue, `ledgerHealthy` | beforeToolCall, its approval callback, afterToolCall, append, clearRuntimeCache | every append reads and replaces one file; the decision is taken before the awaited record; one of them fails; the reset of the queue lets two overlap | the file is the end of the log; nothing governed runs unrecorded; every hook returns |
| Agent runtime registry, `src/state.js`, `src/index.js` | map of runtimes and of directories, the owner of the legacy identity | resolve, clearAll, bindLegacyIdentityOwner | a directory shared by two Agents or given to another, a changed default Agent, limit | one Agent to a directory for as long as the registry lives |
| Guest identity file, `src/guest-identity.js` | one key file for each Agent, the legacy file | loadOrCreate, migrate | read, move or create in several awaits, beside another load that gateway_stop left over | an Agent keeps its key; two Agents never sign with one |
| External action intent and receipt contract, `src/external-action-intent-receipt.js` | none | validators of intents, reservation sets, receipt chains | each document is compared with its neighbour, as of another time | a dispatch was allowed by all of them; one intent to a request |
| Owner capability run lease v2, `src/owner-capability-run-lease.js` | none | validators of requests, decisions, leases and issuance sets | the same | a lease permits nothing that was not requested |
| Passport runtime binding, `src/passport-runtime-binding.js` | none | validators of challenges, bindings, sets, recovery records | sequences and supersession | one active binding for each passport |
| Workdesk, Workboard, Task Flow contract | none | validators of missions, runs, sets | references between items | sets are closed and acyclic |
| Profiles and beta foundation (`passport-messaging`, `email-read-draft`, `connector-beta-foundation`) | none | validators of single documents | nothing that depends on order | - |
| Plugin entry point, `src/index.js` | the objects above | tools, commands, hooks | only wiring | - |

The rest of the repository (contracts, tests, scripts, the trust bridge tools,
documents) keeps no state of the running program. `dist/` and `release-source/` hold
copies of `src/` as it was built or released; the models are of `src/` itself, and
no line of a copy is mapped. `PROJECT.json` lists every part with its status and the reason.

## 2. How the parts interact

* `/noderooms commit` and `reconcile` (`src/index.js`) call the **intent store**,
  which calls the **SDK dispatch** between its two locked sections; the SDK takes
  the Guest Pass of the **Agent runtime** and sends one POST to the **gateway**.
  The action id and the fingerprint of the payload travel with it. `reconcile` and
  the client's one status read are the gateway's `get_action`.
* The stores of intents and of work bindings run each section under **withLock**,
  the proof store its `compareAndSet` under **withFileLock**.
* `before_tool_call` and `after_tool_call` of OpenClaw drive the **work binding**, and
  are what the **Draft PR proof** is written for; the effect itself (card, pull
  request) is made by the host between the two hooks. The controllers of the proof and
  of **policy sync** are not imported by `src/index.js`: scripts and tests wire them.
* The same hooks, at another priority, tell the **inventory** which tool is called
  and ask the **trust middleware**; `gateway_start` begins the first refresh.
* A tool or command resolves its Agent in the **registry**, whose runtime loads the
  **identity file** when its first entry is signed, inside the single flight of the
  **Agent runtime**.
* `gateway_stop` clears runtimes, bindings' memory, the ledger's queue and the
  inventory while calls are under way; files stay.
* The **authority chain** (request, decision, lease, intent, receipts, under a
  runtime binding) consists of validators that no hook of the plugin calls yet: only
  the tests do, and the documents promise what accepting a chain means.
* Controllers of **policy sync** meet only at the checkpoint store. The bundle in
  memory is bound to a snapshot of the **inventory**; a copy of that binding goes into
  the plan of a **Draft PR**, and the plan is compared with the snapshot that the host
  names when the call comes. In between each part moves on by itself: policies expire
  and follow one another, tools are loaded, an inventory is taken again.

## 3. Modules

The specification of a component is one module with one action for each statement,
locked section or stretch between two awaits. `MC...` modules add what TLC needs
(symmetry, functions as constants); `...Proofs` modules hold theorems. Where one file of the code is small, related modules share a proof module. Operators
marked "Mutant of X" are variants of X as a plausible bug would have it; they are
used by no specification, and substituting one for X makes the property named for
it in `PROJECT.json` fail.

**AtMostOnceAction** is the abstract specification of an action key: a verdict
(absent, open, committed, failed, unknown) and whether the object is published.
Verdicts are final, publishing happens once, never after "failed", perhaps late
after "unknown". It is used twice: the gateway is shown to implement it, and the
intent store is checked against it as its server. `TrueVerdicts` and `FinalVerdicts` are
what the promise means to whoever reads a record.

**GuardedEffect** is the abstract specification of a gate before an outside effect that
it cannot make itself: for each key a phase (absent, waiting, uncertain, done, closed),
the call that was let through, and the effects there are. One call is let through, only
from "waiting"; "done" is said only when the effect is there; only a settled key is
forgotten. SafeWorkBinding (a card for each work item) and DraftPrProof (one pull
request) are both shown to implement it, so that the two controllers, which share no
code, are known to give the same promise.

**AgreedPolicy** is the abstract specification of controllers that agree on signed
bundles: bundles are agreed on one after the other, a controller has one that was
agreed on or none, and a binding goes with its bundle. PolicySync implements it with all
of its steps, and so does the coarser policy of GovernedDispatch.

**IdempotencyGateway** (`create_action` and `get_action` of
`class-nr-aig-rest-controller.php` over the statements of
`class-nr-aig-wpdb-store.php`). `pc[r]` is the next statement of request r;
`table[k]` the row; `age` and `life` the time since `updated_at` and `created_at`.
`SealOnEntry`, `Reserve`, `ReadReservation`, `ClaimDispatch`, `VerifyClaim`,
`DispatchAction`, `MarkOutcome`, `MarkUnsavedUnknown`, `SealAfterLostClaim` and
`AnswerFromTable` are the statements in their order; a status request may leave out
the header with the fingerprint and is then answered whatever the payload was (`Matches`); each may fail, and a
terminal update may be applied and yet be reported as failed (lines 164-172 then
store "unknown"). `Die` may strike between any two, in the middle of the write
included. `Cleanup` is the daily hook. Two assumptions are part of the model:
`Tick` lets no row outlive the retention of 90 days while a request for its key
is still running (a PHP request lives for seconds), and the internal write route
means what it answers: a refusal has written nothing, a success has.

**ActionIntentStore** (commands over the file, the SDK, the network, the server).
`store[i]` is the intent on file, `Never` or `Gone`; a locked section is one
action, `Normalized` and `WithRoom` are what every section does first
(`normalizeStore`, `enforceCapacity`); `SaveThen` is `saveStore`, which may fail
before or after its rename. commit is `BeginCommit`, `Preflight`, the network,
`ReadStatus`, `Settle`, `Recover` (its catch clause); reconcile is
`BeginReconcile`, `Resolve`, `ApplyReceipt`. `post[c]` is the POST on the wire.
The server's retention (90 days) exceeds that of an intent (26 hours), so records
of the server are never dropped under an intent and `Sweep` is left out.

**StoreLock** (one step for each system call). `lock` is the caller that created
the lock file, `current` the callers whose copy equals the file. `StealsStale`
chooses between `withLock` and `withFileLock`; `Prompt` says that sections end
before their lock looks stale. `robbed` remembers that the lock of a caller inside
was removed. What StoreLock shows is the justification of the one-step sections of
the two stores, and the condition `robbed` of its property is their limit.

**AgentRuntime** (everything between two awaits is one step). `runtime[c]` is the
runtime a call took from the registry, `inFlight` is `guestEntryInFlight`,
`asked[c]` the `secretEpoch` at which the entry or the wait began. `SingleFlight`
starts, shares or queues; `FinishEntry`, `FinishShared`, `FinishWait` are the
continuations; `FinishClaim`, `FinishAssertion`, `FinishLease` store the other
secrets, whatever has been cleared since; `Expire` is what the getters of the secret
store drop on their own; `GatewayStop` is `clearAll`. A runtime is cleared once, when it is
dropped, and a later call gets a new one.

**SafeWorkBinding** `record[i]` is the binding on file; `flow`, `card` and
`dispatched` are the outside world. prepare is `Reserve`, `CreateFlow`,
`CompleteFlow`, `MarkUncertain`; a create is `BeforeToolCall`, `CallWorkboard`,
`AfterToolCall`, `MarkToolCallUncertain`; cancel is `RequestCancel` (which reads
without the lock) and `MarkCancelled`. `Section` lets every save succeed, fail, or
succeed and report a failure. `ClearRuntimeCache` is `gateway_stop`, `Restart` the
end of the process.

**DraftPrProof** Every method is `Load`, `Check` (which reads the reservation:
`assertStoreMatchesPlan`) and `Save` (`compareAndSet`); beforeToolCall has
`Reserve` and `WriteReservation` in between, so that a reservation can be torn.
`Replacement` is the record each method writes. `Abort` is an error or the end of
the process anywhere; `Rollback` puts an earlier content of the record back, as ADR
004C (lines 157-160) considers. The key of the receipt signer lives in memory, so
a restarted process cannot finish a dispatching record; the model lets other calls
of the same process go on, which is more. Counters that the code only sets
together (`provider_attempt_count`, `approval_consumed`, lease counters,
`tool_call_id`) are one field.

**PolicySync** `checkpoint` is shared; `currentBundle`, `lastError`,
`latestBinding`, `syncPromise`, `epoch` belong to a controller. sync is `Begin`,
`Load`, `Read` (the source answers with any bundle that was ever signed), the
compare-and-set (which may be applied and reported as failed), `Accept` or `Fail`,
`Finally`. An invalid bundle is an error of `Read`. `syncGeneration` and
`currentCheckpoint` are shown by status() only and are left out.

**GovernedDispatch** composes what the inventory, the policy and the Draft PR plan
hand to one another, with a clock. A sync (`Sync`, the window of a bundle included), a
refresh (`Refresh`, under the registry that is compiled in or the policy's), a binding
(`Bind`), a plan (`CreatePlan`), `Arm` and the checks of the call (`BeforeToolCall`, up
to its first await) are one step each: what can come between their statements is the
matter of PolicySync, ConnectorInventory and DraftPrProof. A catalog gives each tool an
owner, a schema and what it declares of its effects; `Covered`, `MayHaveEffect` and
`Ready` decide on it as `driftStatus`, `buildToolEntry` and
`buildPolicyInventoryBinding` do. `SameContext` is `exactContext`. A bundle that does
not follow the accepted one, or is out of its window, is an error. `SyncElsewhere` and
`SyncLate` are the halves of a sync that is not one step: the checkpoint moves on
without this controller's bundle, and a bundle becomes current that was accepted
earlier. Without them the module would promise more than PolicySync;
`SyncKeepsAgreement` shows that with them it does not leave AgreedPolicy.

**AgentIdentity** (registry, owner and key files). A load is a Guest entry that
needs a key; `Resolve` is `runtimeForToolContext` with `bindLegacyIdentityOwner`
and `resolve`, `Load` begins `loadOrCreateGuestIdentity` when the entry of its
runtime is free (`MayLoad`, the single flight of AgentRuntime), and `ReadTarget`,
`ReadLegacy`, `Move`, `Unlink`, `ReadBack`, `Create` are its file operations, each
ending at an await. `born` is the life of the registry in which the load's runtime
was made: after `StopRuntimes` (gateway_stop) an old runtime loads beside the new
one. `Reconfigure` and `RemoveFile` are the operator. `file` holds key numbers; a
key that is made is new.

**ConnectorInventory** The host's catalogs are numbered and a snapshot is the number
of its catalog, so "older" is a comparison. `Refresh`, `HostAnswers`,
`TakeSnapshot` and `RefreshFails` are `refresh` around its one await; `Ends` is the
finally clause, which takes away whatever promise is there. `InspectCoverage` has
the commands' own guard: they refresh only where there is no snapshot, even when
status says `refresh_required`.

**TrustMiddleware** `waitsFor[e]` is the promise that an append was chained to,
`copy[e]` what it read of the file; `ReadLedger`, `StoreLedger` and `AppendFails`
are `appendInternal`; `BeforeToolCall` decides and enqueues, `Respond` answers after
the record, `Resolve`/`Resolved` are the approval callback, `AfterToolCall` and
`Finished` the second hook. The plugin's configuration yields "off" and "observe"
only; "enforce" is a mode of the class that the tests use and the documents
describe, and both modes are instances of the module. `ledgerHealthy` never becomes
true again, as in the code.

**AuthorityChain** The validators as operators (`ValidRequest`, `ValidDecision`,
`ValidLease`, `ValidIntent`, `ValidChain`), each with the time at which it looks at
the document below: the request as of the decision, the decision as of the lease,
the lease as of now, the intent as of its receipt. A state is what some caller has
had accepted; the actions show it any document of the bounded sets. `ShowChain` shows
all the receipts of a chain at once, as `validateReceiptChain` is given them, and a
chain with another outcome may follow one that was accepted; of each intent the
state has the chain accepted last. Documents name
one another by fingerprint, so they do not change; a lease's counters and its
revocation are outside its fingerprint and left out, and so are denied decisions,
which allow nothing. The caller gives the runtime binding to every validator (the
set and chain records have it; for single documents the code makes it an option).

## 4. Runs

| Run | Instance | Distinct states | Shows |
|---|---|---|---|
| `gateway` | 2 requests (create, status, status without a fingerprint), 1 key, 2 payloads, TTL 2, stale after 1, retention 2 | 141 952 | one publisher, true receipts, retention, refinement of AtMostOnceAction, sealing |
| `intents` | 2 commands, 2 intents of one payload (one with receipts, one without), room for 1 | 404 580 | one POST, "prepared" is untouched, agreement with the server, eviction, sealing |
| `intents_receipt_lost` | 2 commands, 1 intent | violation | section 7 |
| `lock_stealing` | 3 callers, 3 attempts, 1 crash | 53 718 | exclusion until a live lock is removed; a dead lock is cleared |
| `runtime` | 3 calls of 4 kinds, 2 names, 2 runtimes, 1 stop | 667 424 | single flight, epoch, late secrets are out of reach, no call waits for ever |
| `safework` | 2 items, room for 1, 2 prepares, 2 creates, 1 cancel, any number of stops and restarts | 136 552 | refinement of GuardedEffect, bound has its card, settled stays settled, settling |
| `draftpr` | 1 arm, 2 tool calls under up to 2 ids, 2 after hooks, 1 reconciliation, 1 revocation, 1 rollback | 465 234 | refinement of GuardedEffect, an orphaned reservation fails closed, forward moves, revocation |
| `policysync` | 2 controllers, 3 syncs, 4 bundles of which two have one sequence, 1 clear each; and beside them 3 tools, 5 catalogs, 3 registries of two versions, 2 policies, 4 points in time, 2 snapshots | 779 104 | agreement, refinement of AgreedPolicy, no resurrection; a dispatch is governed and timely |
| `identity` | 2 Agents, 3 directories, 2 loads, 2 stops or restarts, 1 reconfiguration, 1 removal | 1 321 723 | no shared key, no key replaced or lost |
| `inventory` | 3 refreshes, 2 tools, an observed set of 1, 3 catalogs, 1 stop | 410 377 | stale is flagged, the snapshot moves forward |
| `trust` | 2 calls with up to 3 events each, a ledger of 2, 1 failure, both modes, any number of stops | 117 098 | the file is the end of the log, governed calls are recorded, hooks return |
| `authority` | 2 documents of each kind, 3 points in time, 2 limits, 7 chains of one intent | 557 092 | dispatch within everything above it, narrowing, one intent to a request |

Why the bounds are enough. Time is an age that stops at the largest threshold
(`Horizon`), and every threshold is crossed, some together and some apart. Two
requests or commands are the smallest number for every race the code guards
against (inserter and retry, owner and sealer, commit and reconcile); a third
role, the cleanup, the clock and the server, is always there as an action of its
own. Room for one entry makes every second prepare meet a full store. One rollback
and one crash are the failures the documents speak of. In `policysync` two bundles
with one sequence number are an equivocating signer, a third that follows one of
them a chain to be kept. The instance of GovernedDispatch in the same run shares no
variable with it: one moves while the other rests where it began, which gives the
reachable states of both and not their product. It ends with the dispatch, since
nothing that comes after it changes what the properties look at. Its second policy has
a profile more than the first, whose registry has the versions and profiles of the one compiled in, and
of the five catalogs each policy admits one; of the others one has the wrong owner, one
the wrong schema, and one denies the effect and lacks the second tool. Of the seven
chains that `authority` shows, three can be valid (committed, failed, unknown and then
failed) and four are always refused. Two loads of one Agent or of two are every pair that
gateway_stop can leave side by side, and the third directory is the legacy one. A
ledger of two and six possible events overflow, an observed set of one is full at
the second tool. Three points in time let every life of the chain of authority end
before, with and after the next. The theorems of section 6 drop all these bounds.
A run that can come to rest says `CHECK_DEADLOCK FALSE`: calls run once, and when
all have ended and no clock is left nothing need happen.

Symmetry is used only in runs without liveness properties, over sets whose members
no definition tells apart. `runtime` checks a liveness property, and takes one of the
assignments of kinds and names to calls that differ in the names of the calls only
(`UpToSymmetry`), which is an initial condition and not a reduction. Type invariants are proved (section 6) and not run again.

## 5. Fairness

Six liveness properties are stated, each under the weakest fairness that the
code's surroundings give; none assumes that a request, a command or a hook ever
arrives.

* `EveryRecordIsSettled`: a PHP process that lives executes its next statement,
  WordPress runs the daily hook and its statements do not fail for ever, time
  passes. Requests need not come, and any may die.
* `EveryCommitIsSealed`: the owner uses the store again (a list is enough), time
  passes. No command need finish: a commit may be abandoned anywhere.
* `DeadLockIsCleared`: calls that wait for a lock go on and new ones come, time
  passes. It is checked for `withLock`; `withFileLock` leaves a dead lock for ever,
  on purpose, and is unusable until somebody removes it.
* `EveryHookReturns`: reads, writes and promises settle; tool calls, the Owner's
  answers, the end of a tool and gateway_stops need not come.
* `EveryEntryEnds`, `EveryCreationSettles`: requests have timeouts, `finally`
  clauses run, and the event loop serves every continuation.

## 6. Proofs

All theorems hold for any values of the constants that satisfy the assumptions
declared in the modules: thresholds are positive and ordered, capacities are
positive, the marker constants (`NoRow`, `None`, `Never`, `Gone`, `Free`) differ
from what they mark, the sets of calls of different methods are disjoint, and
registries with the same versions have the same profiles (`VersionAssumption`, section
7). Nothing
is assumed about the number of requests, intents, callers, controllers or bundles
(SafeWorkBinding asks for finitely many items and ConnectorInventory for finitely
many tools, since they count them). Each
component has one inductive invariant, a step lemma for each action, and theorems
that follow from it.

| Module | Inductive invariant | Why it is needed | Theorems |
|---|---|---|---|
| IdempotencyGatewayProofs | `GatewayIInv`: the row's id is that of the request that inserted it; a row is undispatched as long as nobody holds it; at most one claimant for each id; committed rows have an effect, failed ones neither effect nor claimant; a request's place bounds what it may have done | `AtMostOnePublisher` alone does not say that a reserved row is untouched, so a claim could meet an earlier effect | type, at most one publisher, receipts tell the truth, and below |
| (the same) | `RetentionInv` adds that a key claimed within the retention window still has its dispatched row, and that the row is no older than the claim | a deletion looks at the row's age, and the promise is about the claim's | retention, and that each step is a step or a stutter of AtMostOnceAction under the mapping of `verdictOf` and `publishedUnder`; from that promise alone: verdicts are true, verdicts are final |
| ActionIntentStoreProofs | `StoreInv`: a command past `BeginCommit` has an intent that has begun, two such commands never share one, a server record comes from a POST, what a command heard is true | "one POST" is not inductive: it rests on the file remembering that a commit began, through saves that fail and normalisation | type and capacity, one dispatch, untouched, agreement, pending is never evicted |
| (the same) | `AppliesReceipts`: what a reconcile is about to apply is a receipt, and one that says unknown is the last word of the server | a stale answer must be told from a final one | a completed intent is undone by old news only |
| SharedStateProofs (StoreLock) | who is inside holds the lock, until a live lock was removed | exclusion alone does not exclude an Open beside a caller inside | type, exclusion, updates, and exclusion without condition when locks are not stolen |
| (the same: ConnectorInventory) | what was called and not listed is in the bounded set unless it was full; answers under way are no newer than the host, and, where refreshes do not overlap, the one under way is no older than the snapshot | the promise must be known to belong to the refresh under way | type, unlisted is flagged, moves forward |
| (the same: TrustMiddleware) | the appends form a queue in which at most one has read and not yet stored, and what it read is the file; a call's place says which of its appends exist | "the file is the end of the log" is not inductive while a copy is held | type, ledger, audit |
| (the same) | `RankInv`: the appends have numbers, and each waits for one with a smaller number | "nobody waits in a circle" is a fact about all chains at once, and the numbers are what the least append under way is found by | the queue has no deadlock |
| AgentRuntimeProofs | every call's place, the registered runtime is fresh, a pass has an owner | the finally clause must be known to remove its own entry only | type, one entry, cleanup cancels, names |
| (the same) | `WaitInv`: every secret came from a call of its runtime, the entry in flight is under way, and whom a call waits for is under way or has ended | a claim that was cut off stores its secret in a runtime that nobody can get any more, and that must be known of the runtime | late secrets are out of reach, no entry is stuck |
| SafeWorkBindingProofs | `BindingInv`: operations work on targets of their own kind, and what was let through is admitted on file | one create rests on every failing section leaving an admitted state | type and capacity, one create, bound has its card, admitted, settled stays settled, unresolved is kept |
| (the same) | `BindingInv`, before and after the step | every step of a hook, of prepare, cancel, a failure or a restart moves the phase of its item as GuardedEffect allows, and making room moves another one | refinement of GuardedEffect; from that promise: one create, unresolved is kept |
| DraftPrProofs | `ProofInv`: the reservation names the call that may be allowed, only its holder is past Reserve, records on file and in calls lie behind the current one, committed is true wherever it is written | a rollback can restore any earlier record, so the argument must rest on the reservation, and on every earlier record as well | type, one dispatch, committed is true, forward moves, revocation holds, an orphaned reservation fails closed |
| (the same) | `ArmedInv`: a record is armed in its first revision and in no other, on file, in every call and in what may be put back | GuardedEffect leaves "waiting" once, so a record that was armed again, without a rollback, would be no step of it | refinement of GuardedEffect |
| (the same: GovernedDispatch) | every bundle up to the accepted one had begun when the clock passed it; what a caller holds was made ready after its policy began; the plan is a copy of such a binding and does not change; the dispatch is of the plan's snapshot | policy, inventory and host have moved on by the time of the call, so nothing can be said of the present ones | type, ready is governed, the dispatch is governed, the dispatch is timely, refinement of AgreedPolicy |
| PolicySyncProofs | `PolicyInv`: accepted bundles form a chain with distinct sequences that ends at the checkpoint, what syncs carry was accepted or follows what they loaded, promises belong to the syncs in flight | agreement of two controllers is a fact about the whole chain | type, agreement, healthy binding, single flight, chain, no resurrection, refinement of AgreedPolicy |
| AgentRuntimeProofs (AgentIdentity) | at a directory that no two runtimes worked on, the load under way is alone, so what it read is still there; who holds a key has it from the directory it works on, or from the legacy one by a move | the key is read, moved and returned in different steps | type, keys apart, files stay |
| AuthorityChainProofs | whatever was accepted is well formed, names documents that were accepted, and satisfied its validator at some time up to now | each validator looks one document down, and the chain must be followed to the request | type, dispatch allowed, narrowing, one intent to a request |

Only model-checked: the six liveness properties (the provers know no fairness). Of two
of them the safety half is proved: `NoHookIsStuck` and `NoEntryIsStuck` say that whoever
waits, waits for something that can move or has ended, for any number of calls; what
remains for TLC is that it does move. Every other property of a passing run is a theorem.

Proved and not run are facts that others imply or rest on: `OneCreatePerBinding` and
`UnresolvedIsKept` (of `GuardsItsCard`), `AtMostOneDispatch` and `CommittedIsTrue` (of
`GuardsItsPr`), `CheckpointIsAChain` (of `KeepsAgreement`), `TrueVerdicts` and
`FinalVerdicts` (of `KeepsPromise`), `SyncKeepsAgreement`, `OnlyOldNewsUndoes`,
`EntryHasOwnName`, `UpdatesAreKept`, `BindingIsHealthy`, `OneSyncAtATime`,
`AttemptIsAdmitted`, `ReadyIsGoverned` and the type invariants.

Five refinements are proved. Each maps the state of the component by functions of the
current state only (no history is added), and its proof goes action by action: what the
action changes of the mapped state, and which abstract step that is. An action that
touches two keys at once, such as a prepare that makes room, is a step of each of them.

## 7. Where code and documents disagree

1. *A saved receipt can be lost* (run `intents_receipt_lost`, which ends in a
   counterexample). SECURITY.md line 47: a completed intent returns its persisted
   receipt. The second section of reconcile compares the fingerprint only and
   overwrites state and result (`src/action-intents.js` line 507), so a stale
   "processing" turns a committed intent into unknown, and commit is refused from
   then on. This is the only way: `OnlyOldNewsUndoes` is proved for any number of
   intents and commands. No final answer, late commit or failing save takes a completed
   intent back, and none ever turns success into failure.

The others are the conditions under which a property is stated. The models have the
behaviour, and dropping the condition makes the run fail.

2. *The lock does not protect after a crash.* SECURITY.md lines 37-38. Two callers
   both see a stale lock; the second removes the fresh lock of the first
   (`src/action-intents.js` lines 545-557). Sections need not be slow.
   `ExclusionUntilRobbed` holds until then.
3. *A stop does not clear every secret.* README.md line 153. claimInvite and
   claimRunLease store what arrives after the clearing; performEnter compares the
   epoch, they do not. `PassWasAskedSinceCleanup` is about the Guest Pass;
   `LateSecretsAreOutOfReach` says what is true of the others: they stay in memory, in a
   runtime that no later call gets.
4. *cancel does not block creation at once.* ADR 003B lines 120-123. cancel requests
   the cancellation before it takes the lock, and a create that takes it first, or
   comes after a failed markCancelled, is let through. `SettledStaysSettled` speaks
   of bindings that are cancelled on file.
5. *A revocation can be rolled back.* ADR 004C lines 157-160 and 191-193. A rollback
   is detected by the reservation, and a revoked proof that was never dispatched has
   none. `RevocationHolds` speaks of records that were not set back.
6. *The legacy key can be copied or lost.* README.md lines 159-164. A move across
   devices that is cut leaves both files, and after gateway_stop the load of the old
   runtime can make a key over the one that the new one has moved. `split` and
   `overlapped` in `AgentsDoNotShareKeys` and `IdentityIsNotReplaced`.

7. *A policy is bound after it has expired.* ADR 004B lines 158-159: a time mismatch
   fails closed. The window of a bundle is looked at in the sync that accepts it
   (`src/canonical-connector-policy-sync.js` lines 864-873, called at 1386);
   `bindInventory` (line 1506) and `verifiedRegistry` ask only for a bundle and no
   error. `DispatchIsTimely` speaks of the beginning of the policy's window, and of
   both ends of those of approval and plan.
8. *The policy is not validated again.* ADR 004B line 197 asks the Draft PR proof to
   revalidate the policy prerequisite independently. `validatePhase4BPrerequisite`
   (`src/github-draft-pr-e2e.js` lines 577-650) compares the fields that were copied
   into the plan; item 7 of the preflight in ADR 004C leaves the rest to the host. In
   GovernedDispatch a policy that was followed by another, or cleared, still backs the
   plan that was made of it.

Observations that contradict no document, and are therefore no runs:

* The message of `ACTION_INTENT_STORE_BUSY` says that no public action was
  attempted; commit can throw it from its second section, after the POST.
* An intent of unknown outcome may be evicted, or pruned, before it was reconciled.
* A binding that became uncertain before its flow id was saved can neither be
  cancelled nor evicted.
* A crash, or a revocation that wins, between reserveDispatch and compareAndSet
  leaves a proof that refuses every later call, a second revoke included
  (`OrphanFailsClosed`).
* reconcileReadOnly may record no_effect while a request that was given up is still
  on its way.
* A repeat of the checkpoint becomes current without another look at the store, so a
  controller may keep an older policy than the one another has stored meanwhile
  (`src/canonical-connector-policy-sync.js` lines 1411-1432).
* The finally clause of sync (line 1344) removes whatever promise is there: after
  clearRuntimeCache two syncs can run side by side. `OneSyncAtATime` is therefore
  stated for the first epoch; the checkpoint's compare-and-set keeps the rest safe.
  refresh of `src/universal-connector-engine.js` (line 1024) has the same clause, and
  no such guard: the answer of an older catalog can then replace a newer snapshot.
  `InventoryMovesForward` excepts it.
* `/noderooms coverage` and `connectors` refresh only where there is no snapshot; a
  snapshot that is flagged stale stays until the Gateway starts again.
* After 128 unlisted tools (MAX_OBSERVED_UNLISTED) further ones are forgotten.
* gateway_stop resets the ledger's queue beside an append that is under way, and the
  next append can overwrite it. A ledger that failed once counts as unhealthy for the
  rest of the process.
* The identity file does not name its Agent: a directory that is given to another
  Agent between two lives of the registry takes the key along.
* A lease authorises one intent whatever its `max_actions` (`LEASE_ACTION_REPLAY`). An
  issuance set with one expired lease is refused as a whole, so that nothing shows a
  later second lease of the same decision to be the second; `OneIntentPerRequest` is
  about sets that were accepted together.
* An inventory and a policy are linked by the version strings of their registries, and
  not by fingerprints (`SameVersions`). With two registries of one version of which
  only the inventory's has a profile of some tool, that tool counts as covered and the
  policy says nothing of it. ADR 002A (lines 185-186) asks for another version whenever
  a registry changes; `VersionAssumption` says so, `DispatchIsGoverned` needs it, and
  nothing in the code enforces it.
* One approval of an Owner can be carried by two plans with different nonces, each in a
  store of its own; "at most one dispatch" is a promise of one store.
* A receipt's time is compared with the documents and not with the clock.
* `validateReceiptChain` keeps nothing: after a chain that ends in "committed" it
  accepts another of the same intent, with other receipt ids, that ends in "failed",
  and of one unknown dispatch it accepts two reconciliations that disagree. ADR 002D
  (lines 125-145) and README.md (lines 345-348) speak of one chain. No property is
  therefore stated about outcomes across chains, and what one chain may contain is
  `ValidChain` itself.

## 8. What is not modelled

* Validation of a single document (schemas, patterns, hashes, signatures): it reads
  nothing that changes. In the models a document that is refused is a call that does
  not start, or an error.
* Texts, formatting, logging, status output, the read-only feeds.
* The contents of files beyond the fields that control depends on; a state file is
  replaced in full or not at all, as `rename` promises. Files that are truncated or
  edited by hand are out of scope, except for the reservation and the rolled back
  record of the Draft PR proof.
* Clocks that jump backwards, except where an order of timestamps decides (the
  eviction of work bindings may take any settled one).
* Two Gateway processes on one state directory, except for the state files under a
  lock: the ledger, the identity files and the proof store are written by one process.
* The set rules of missions (`validateMissionSet`) and of passport bindings and
  recovery: pure validators of documents that the plugin does not call with state.
* The profiles and the beta foundation: validators of single documents, which read
  nothing that changes.
* How a policy's bundle, the plan's Agent, target, payload and receipts are compared
  field by field: in GovernedDispatch they are one document, which does not change.
* Profile, connector and resource fields of the chain of authority: every document of
  AuthorityChain is of one profile and one resource, so what would differ is refused.

## 9. Plan

Done, in this order, the most irreversible effect first: IdempotencyGateway with
AtMostOnceAction; ActionIntentStore over AtMostOnceAction; StoreLock under both
stores; AgentRuntime; SafeWorkBinding; DraftPrProof; PolicySync; AgentIdentity;
ConnectorInventory; TrustMiddleware; AuthorityChain; GovernedDispatch over the last
three parts of Phase 4; GuardedEffect and AgreedPolicy over the components that share a
promise.

To come:

1. *Composition*: ActionIntentStore with IdempotencyGateway in the place of its
   abstract server, two guests and retries, to check that the two models of a request
   fit together (TTL of an intent against TTL of a reservation).
2. *Workdesk and passport sets*: mission sets with the receipts of their items, and
   binding sets with supersession and recovery, as a chain like that of authority.

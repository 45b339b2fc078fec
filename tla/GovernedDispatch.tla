---------------------------- MODULE GovernedDispatch ----------------------------
(***************************************************************************)
(* Phase 4 put together: a signed policy                                   *)
(* (src/canonical-connector-policy-sync.js), the inventory of the host's   *)
(* tools classified under a registry (src/universal-connector-engine.js),  *)
(* the binding of the two, and the plan of a Draft pull request            *)
(* (src/github-draft-pr-e2e.js) that carries a copy of the binding up to   *)
(* the moment when beforeToolCall has made its checks.                     *)
(*                                                                         *)
(* What PolicySync, ConnectorInventory and DraftPrProof say of the         *)
(* interleavings inside a sync, a refresh and a dispatch is not repeated:  *)
(* each is one step here.  This module is about the time between them, in  *)
(* which the clock runs, policies follow one another and the host changes  *)
(* its tools.                                                              *)
(***************************************************************************)
EXTENDS Naturals

CONSTANTS
    Tools,
    Internal,       \* tools whose name begins with noderooms_
    DraftTool,      \* the tool of the one profile that a plan may name
    Owners, Schemas,
    PinnedOwner, PinnedSchema,  \* of DraftTool, constants of the code
    Registries,     \* connector registries
    Version,        \* registry_version and policy_version of a registry
    Reference,      \* the registry that is compiled in
    Expected,       \* the schema of a registry's profile of a tool, or Absent
    Policies,       \* signed policy bundles, by their sequence
    Registry,       \* the registry of a bundle
    Owner,          \* the owner that a bundle binds a tool to
    NotBefore, Expires,     \* the life of a bundle
    Catalogs,       \* bound: catalogs that the host may have
    MaxApproval,    \* MAX_APPROVAL_WINDOW_MS
    MaxTime,        \* bound: the clock
    MaxRefreshes,   \* bound: snapshots of the inventory
    Absent

\* A descriptor declares nothing of its effects, what a profile of a write says, or
\* that it only reads, at low risk.
Declarations == {"nothing", "as_profile", "harmless"}

\* The owner is Absent when the catalog leaves it open.
Descriptors == [owner: Owners \cup {Absent}, schema: Schemas \cup {Absent},
                declared: Declarations]

ASSUME GovernedAssumption ==
    /\ Internal \subseteq Tools /\ DraftTool \in Tools
    /\ PinnedOwner \in Owners /\ PinnedSchema \in Schemas
    /\ Reference \in Registries
    /\ Policies \subseteq Nat \ {0}
    /\ Expected \in [Registries -> [Tools -> Schemas \cup {Absent}]]
    /\ Registry \in [Policies -> Registries]
    /\ Owner \in [Policies -> [Tools -> Owners]]
    /\ NotBefore \in [Policies -> Nat] /\ Expires \in [Policies -> Nat]
    /\ Catalogs \subseteq [Tools -> Descriptors \cup {Absent}]
    /\ MaxApproval \in Nat \ {0} /\ MaxTime \in Nat /\ MaxRefreshes \in Nat
    /\ Absent \notin Owners \cup Schemas \cup Descriptors \cup Policies

\* Registries are compared by their versions alone.  "Changing any registry dimension,
\* schema fingerprint, ... requires a reviewed registry version change" (ADR 002A,
\* lines 185-186): nothing in the code enforces it.
ASSUME VersionAssumption ==
    \A r, s \in Registries : Version[r] = Version[s] => Expected[r] = Expected[s]

Times == 0..MaxTime
Snapshots == [number: 1..MaxRefreshes, catalog: Catalogs, registry: Registries]
Bindings == [bundle: Policies, snapshot: Snapshots, at: Times]
Windows == [from: Times, until: Times]
Plans == [binding: Bindings, approval: Windows, life: Windows]

VARIABLES
    clock,
    host,           \* the catalog that the host has
    inventory,      \* the last snapshot, or Absent
    reached,        \* the sequence that was accepted last, or 0
    current,        \* the bundle that the controller holds, or Absent
    held,           \* the last ready binding that a caller was given, or Absent
    plan,           \* the validated plan, or Absent
    armed,
    dispatch        \* the call that passed the checks: its time, the snapshot it named

policy == <<reached, current>>
governedVars == <<clock, host, inventory, policy, held, plan, armed, dispatch>>

GovernedInit ==
    /\ clock = 0
    /\ host \in Catalogs
    /\ inventory = Absent
    /\ reached = 0
    /\ current = Absent
    /\ held = Absent
    /\ plan = Absent
    /\ armed = FALSE
    /\ dispatch = Absent

-----------------------------------------------------------------------------
(* The inventory.                                                          *)

HasProfile(t, r) == Expected[r][t] # Absent

\* coverage_status = "covered_contract_only"
Covered(t, d, r) ==
    /\ t \notin Internal
    /\ HasProfile(t, r)
    /\ d.owner # Absent
    /\ d.schema = Expected[r][t]
    /\ d.declared # "harmless"

\* potential_side_effect: the profile's word counts before the tool's own.
MayHaveEffect(t, d, r) ==
    t \notin Internal /\ (HasProfile(t, r) \/ d.declared # "harmless")

Unclassified(t, d, r) == MayHaveEffect(t, d, r) /\ ~Covered(t, d, r)

\* refresh, with the registry compiled in or the one of the policy in force.
Refresh(r) ==
    /\ r = Reference \/ (current # Absent /\ r = Registry[current])
    /\ LET number == IF inventory = Absent THEN 1 ELSE inventory.number + 1
       IN  /\ number <= MaxRefreshes
           /\ inventory' = [number |-> number, catalog |-> host, registry |-> r]
    /\ UNCHANGED <<clock, host, policy, held, plan, armed, dispatch>>

HostChanges ==
    /\ host' \in Catalogs \ {host}
    /\ UNCHANGED <<clock, inventory, policy, held, plan, armed, dispatch>>

Tick ==
    /\ clock < MaxTime
    /\ clock' = clock + 1
    /\ UNCHANGED <<host, inventory, policy, held, plan, armed, dispatch>>

-----------------------------------------------------------------------------
(* The policy.                                                             *)

InForce(b, now) == NotBefore[b] <= now /\ now < Expires[b]

\* The source answers with a bundle.  Its window is looked at here and nowhere else.
Sync(b) ==
    /\ IF InForce(b, clock) /\ b \in {reached, reached + 1}
       THEN current' = b /\ reached' = b
       ELSE current' = Absent /\ UNCHANGED reached
    /\ UNCHANGED <<clock, host, inventory, held, plan, armed, dispatch>>

\* Another controller has the checkpoint moved on, or this one in a sync that the
\* clearing of its cache or a lost answer keeps from making the bundle current.
SyncElsewhere(b) ==
    /\ InForce(b, clock) /\ b = reached + 1
    /\ reached' = b
    /\ UNCHANGED <<clock, host, inventory, current, held, plan, armed, dispatch>>

\* A sync makes a bundle current that it had stored before the clock, or other syncs,
\* moved on.
SyncLate(b) ==
    /\ b <= reached
    /\ current' = b
    /\ UNCHANGED <<clock, host, inventory, reached, held, plan, armed, dispatch>>

ClearPolicy ==
    /\ current' = Absent
    /\ UNCHANGED <<clock, host, inventory, reached, held, plan, armed, dispatch>>

SameVersions(r, b) == Version[r] = Version[Registry[b]]

\* A required profile is met by the tool of its name, under the owner and with the
\* schema that the bundle signs, which must be the schema that the inventory expected.
ProfileMet(t, b, s) ==
    /\ s.catalog[t] # Absent
    /\ s.catalog[t].owner = Owner[b][t]
    /\ s.catalog[t].schema = Expected[Registry[b]][t]
    /\ Expected[s.registry][t] = Expected[Registry[b]][t]
    /\ SameVersions(s.registry, b)
    /\ Covered(t, s.catalog[t], s.registry)

\* phase4c_contract_prerequisite_ready
Ready(b, s) ==
    /\ SameVersions(s.registry, b)
    /\ \A t \in Tools : HasProfile(t, Registry[b]) => ProfileMet(t, b, s)
    /\ \A t \in Tools : s.catalog[t] # Absent => ~Unclassified(t, s.catalog[t], s.registry)

\* bindInventory asks for a bundle and no error, and not for the time.
Bind ==
    /\ current # Absent /\ inventory # Absent
    /\ Ready(current, inventory)
    /\ held' = [bundle |-> current, snapshot |-> inventory, at |-> clock]
    /\ UNCHANGED <<clock, host, inventory, policy, plan, armed, dispatch>>

-----------------------------------------------------------------------------
(* The plan.                                                               *)

\* Mutant of Approved: its beginning is not looked at.
ApprovedUntil(approval, now) == now < approval.until

\* validateOwnerApproval.
Approved(approval, now) ==
    /\ approval.from < approval.until
    /\ approval.until - approval.from <= MaxApproval
    /\ approval.from <= now /\ now < approval.until

LifeWithin(life, approval) ==
    life.until <= approval.until /\ life.until - life.from <= MaxApproval

\* validatePhase4BPrerequisite: the copied owner and schema are the pinned ones.
PinsAgree(b) ==
    /\ Owner[b][DraftTool] = PinnedOwner
    /\ Expected[Registry[b]][DraftTool] = PinnedSchema

\* createGitHubDraftPrE2EPlan: the caller copies the binding that it holds.  The
\* plan, the connector and the binding name one snapshot (validateCatalogChain).
CreatePlan(approval, life) ==
    /\ plan = Absent /\ held # Absent
    /\ PinsAgree(held.bundle)
    /\ Approved(approval, clock)
    /\ life.from <= clock /\ clock < life.until
    /\ LifeWithin(life, approval)
    /\ plan' = [binding |-> held, approval |-> approval, life |-> life]
    /\ UNCHANGED <<clock, host, inventory, policy, held, armed, dispatch>>

\* validateGitHubDraftPrE2EPlan, what of it depends on the time.
ValidPlan(p, now) == Approved(p.approval, now) /\ now < p.life.until

Arm ==
    /\ plan # Absent /\ ~armed
    /\ ValidPlan(plan, clock)
    /\ armed' = TRUE
    /\ UNCHANGED <<clock, host, inventory, policy, held, plan, dispatch>>

\* Mutant of SameContext: the catalog of the context is not compared.
AnyContext(s, p) == TRUE

\* exactContext.
SameContext(s, p) == s = p.binding.snapshot

\* beforeToolCall, up to its first await; the host names its last snapshot.
BeforeToolCall ==
    /\ armed /\ dispatch = Absent /\ inventory # Absent
    /\ ValidPlan(plan, clock)
    /\ SameContext(inventory, plan)
    /\ dispatch' = [at |-> clock, snapshot |-> inventory]
    /\ UNCHANGED <<clock, host, inventory, policy, held, plan, armed>>

GovernedNext ==
    \/ Tick \/ HostChanges
    \/ \E r \in Registries : Refresh(r)
    \/ \E b \in Policies : Sync(b) \/ SyncElsewhere(b) \/ SyncLate(b)
    \/ ClearPolicy \/ Bind
    \/ \E approval, life \in Windows : CreatePlan(approval, life)
    \/ Arm \/ BeforeToolCall

GovernedSpec == GovernedInit /\ [][GovernedNext]_governedVars

-----------------------------------------------------------------------------
(* Properties.                                                             *)

GovernedTypeOK ==
    /\ clock \in Times
    /\ host \in Catalogs
    /\ inventory \in Snapshots \cup {Absent}
    /\ reached \in Policies \cup {0}
    /\ current \in Policies \cup {Absent}
    /\ held \in Bindings \cup {Absent}
    /\ plan \in Plans \cup {Absent}
    /\ armed \in BOOLEAN
    /\ dispatch \in [at: Times, snapshot: Snapshots] \cup {Absent}

\* Of a tool in a catalog: it is NodeRooms' own, or says itself that it only reads
\* and no profile contradicts it, or it is the tool that the bundle means, under the
\* owner and with the schema that the bundle signs.
Governed(t, d, b) ==
    \/ t \in Internal
    \/ ~HasProfile(t, Registry[b]) /\ d.declared = "harmless"
    \/ d.owner = Owner[b][t] /\ d.schema = Expected[Registry[b]][t]

\* "exact owner kind and owner ID, exact input-schema fingerprint" (ADR 004B), and
\* no tool beside them that might write: whatever the catalog, the registry of the
\* inventory and the bundle were, a binding that is ready was made of a catalog in
\* which every tool is governed.  The code counts tools under the registry of the
\* inventory, compares profiles under the one of the bundle, and connects the two
\* registries by their versions.
ReadyIsGoverned ==
    held # Absent =>
        \A t \in Tools : held.snapshot.catalog[t] # Absent =>
            Governed(t, held.snapshot.catalog[t], held.bundle)

\* The call that may create the pull request is made in a catalog, as last
\* inventoried, that has the pinned tool under its pinned owner and schema and
\* nothing ungoverned, through refreshes, changes of the host and policies that
\* came between.
DispatchIsGoverned ==
    dispatch # Absent =>
        LET catalog == dispatch.snapshot.catalog
        IN  /\ catalog[DraftTool] # Absent
            /\ catalog[DraftTool].owner = PinnedOwner
            /\ catalog[DraftTool].schema = PinnedSchema
            /\ \A t \in Tools : catalog[t] # Absent =>
                   Governed(t, catalog[t], plan.binding.bundle)

\* "valid for no more than fifteen minutes" (ADR 004C): the checks of the call were
\* passed while approval and plan were in force, and within the window from the
\* approval; and the policy that was bound had begun.  It may have expired before it
\* was bound, since bindInventory does not look at the time.
DispatchIsTimely ==
    dispatch # Absent =>
        /\ NotBefore[plan.binding.bundle] <= plan.binding.at
        /\ plan.binding.at <= dispatch.at
        /\ plan.approval.from <= dispatch.at /\ dispatch.at < plan.approval.until
        /\ plan.life.from <= dispatch.at /\ dispatch.at < plan.life.until
        /\ dispatch.at - plan.approval.from < MaxApproval

Policy == INSTANCE AgreedPolicy WITH
    Controllers <- {"controller"}, Bundles <- Policies, None <- Absent,
    Successors <- {pair \in (Policies \cup {Absent}) \X Policies :
                      IF pair[1] = Absent THEN pair[2] = 1 ELSE pair[2] = pair[1] + 1},
    newest <- IF reached = 0 THEN Absent ELSE reached,
    agreed <- {b \in Policies : b <= reached},
    has <- [c \in {"controller"} |-> current],
    bound <- [c \in {"controller"} |-> Absent]

\* The policy of this module, in which a sync is at most two steps, keeps the promise
\* that PolicySync keeps with all of its steps, at one controller among others.
SyncKeepsAgreement == Policy!AbstractSpec
=============================================================================

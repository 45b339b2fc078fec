---------------------------- MODULE AgentIdentity ----------------------------
(***************************************************************************)
(* The signing key of each Agent: the registry that ties an Agent to one   *)
(* private directory (src/state.js), the binding of the default Agent in   *)
(* the plugin entry (src/index.js), and loadOrCreateGuestIdentity, which   *)
(* reads the key file of that directory, moves the legacy file of older    *)
(* releases into it, or creates a key (src/guest-identity.js).             *)
(*                                                                         *)
(* Every step of a load ends at an await, so loads of different runtimes   *)
(* interleave.  The loads of one runtime are those of its single-flight    *)
(* Guest entry (AgentRuntime); a runtime that gateway_stop dropped goes on *)
(* with its own, beside the one that replaced it.                          *)
(***************************************************************************)
EXTENDS Naturals, FiniteSets

CONSTANTS
    Agents, Dirs,
    Legacy,         \* the directory of the legacy file, which an Agent may have too
    Loads,          \* the Guest entries that need a key
    MaxRuntimes,    \* limit of the registry
    MaxStops,       \* bound: gateway_stops and restarts
    MaxChanges,     \* bound: changes of the configuration
    MaxRemovals,    \* bound: key files that the operator removes
    MaxKeys,        \* bound: keys made
    Nothing, Corrupt, Failed

ASSUME IdentityAssumption ==
    /\ Legacy \in Dirs
    /\ MaxRuntimes \in Nat /\ MaxStops \in Nat /\ MaxChanges \in Nat
    /\ MaxRemovals \in Nat /\ MaxKeys \in Nat \ {0}
    /\ Nothing \notin Agents \cup Dirs \cup 1..MaxKeys
    /\ Corrupt \notin 1..MaxKeys \cup {Nothing}
    /\ Failed \notin 1..MaxKeys \cup {Nothing}

VARIABLES
    default, dirOf, \* the configuration: its default Agent, the directory of each
    owner,          \* legacyIdentityOwnerAgentId of this process
    registry,       \* the directory of each registered runtime
    file,           \* the key in guest-identity.json of each directory
    made,           \* keys made so far: the next one is new
    life,           \* gateway_stops and restarts so far
    changes, removals,
    stage, agent, dir,
    born,           \* the life in which a load's runtime was registered
    key,            \* what a load returned
    overlapped,     \* directories that the loads of two runtimes worked on at once
    removed,        \* directories whose file the operator removed
    split           \* a move ended between its copy and its removal

config == <<default, dirOf, changes>>
process == <<owner, registry, life>>
load == <<stage, agent, dir, born, key>>
ghosts == <<overlapped, removed, split>>
identityVars == <<config, process, file, made, removals, load, ghosts>>

KeyIds == 1..MaxKeys
Working == {"read", "legacy", "move", "unlink", "readback", "create"}
LoadLabels == {"idle", "resolved", "done"} \cup Working

IdentityTypeOK ==
    /\ default \in Agents /\ dirOf \in [Agents -> Dirs] /\ changes \in 0..MaxChanges
    /\ owner \in Agents \cup {Nothing} /\ registry \in [Agents -> Dirs \cup {Nothing}]
    /\ life \in 0..MaxStops /\ removals \in 0..MaxRemovals /\ made \in 1..MaxKeys
    /\ file \in [Dirs -> KeyIds \cup {Nothing, Corrupt}]
    /\ stage \in [Loads -> LoadLabels]
    /\ agent \in [Loads -> Agents \cup {Nothing}] /\ dir \in [Loads -> Dirs \cup {Nothing}]
    /\ born \in [Loads -> 0..MaxStops] /\ key \in [Loads -> KeyIds \cup {Nothing, Failed}]
    /\ overlapped \subseteq Dirs /\ removed \subseteq Dirs /\ split \in BOOLEAN

\* Key 1 is the one that an older release left behind, if it did.
IdentityInit ==
    /\ default \in Agents /\ dirOf \in [Agents -> Dirs]
    /\ owner = Nothing /\ registry = [a \in Agents |-> Nothing]
    /\ file \in {f \in [Dirs -> {Nothing, Corrupt, 1}] : \A d \in Dirs : f[d] = 1 => d = Legacy}
    /\ made = 1 /\ life = 0 /\ changes = 0 /\ removals = 0
    /\ stage = [l \in Loads |-> "idle"]
    /\ agent = [l \in Loads |-> Nothing] /\ dir = [l \in Loads |-> Nothing]
    /\ born = [l \in Loads |-> 0] /\ key = [l \in Loads |-> Nothing]
    /\ overlapped = {} /\ removed = {} /\ split = FALSE

At(l, label) == stage' = [stage EXCEPT ![l] = label]

Return(l, k) ==
    /\ key' = [key EXCEPT ![l] = k]
    /\ At(l, "done")
    /\ UNCHANGED <<agent, dir, born>>

-----------------------------------------------------------------------------
(* A call gets the runtime of its Agent.                                   *)

\* bindLegacyIdentityOwner: the default Agent does not change within a process.
OwnerAgrees == owner \in {Nothing, default}

\* resolve: the registered runtime in the same directory, or a new one in a
\* directory of its own, up to the limit.
Resolvable(a) ==
    \/ registry[a] = dirOf[a]
    \/ /\ registry[a] = Nothing
       /\ \A b \in Agents : registry[b] # dirOf[a]
       /\ Cardinality({b \in Agents : registry[b] # Nothing}) < MaxRuntimes

\* runtimeForToolContext, runtimeForCommandContext.  The owner is bound even when
\* the runtime is then refused.
Resolve(l, a) ==
    /\ stage[l] = "idle"
    /\ IF OwnerAgrees
       THEN /\ owner' = default
            /\ IF Resolvable(a)
               THEN /\ registry' = [registry EXCEPT ![a] = dirOf[a]]
                    /\ agent' = [agent EXCEPT ![l] = a]
                    /\ dir' = [dir EXCEPT ![l] = dirOf[a]]
                    /\ born' = [born EXCEPT ![l] = life]
                    /\ At(l, "resolved")
                    /\ UNCHANGED key
               ELSE Return(l, Failed) /\ UNCHANGED registry
       ELSE Return(l, Failed) /\ UNCHANGED <<owner, registry>>
    /\ UNCHANGED <<config, file, made, life, removals, ghosts>>

-----------------------------------------------------------------------------
(* loadOrCreateGuestIdentity.                                              *)

\* Loads under way in the same directory, or for the same Agent in another one.
OtherLoads(l) ==
    {m \in Loads \ {l} : stage[m] \in Working /\ (dir[m] = dir[l] \/ agent[m] = agent[l])}

SameRuntime(l, m) == agent[m] = agent[l] /\ born[m] = born[l]

\* The single-flight Guest entry of the load's runtime is free.
MayLoad(l) == \A m \in OtherLoads(l) : ~SameRuntime(l, m)

\* The signer asks for the key.
Load(l) ==
    /\ stage[l] = "resolved"
    /\ MayLoad(l)
    /\ At(l, "read")
    /\ overlapped' = overlapped \cup
           UNION {{dir[l], dir[m]} : m \in {n \in OtherLoads(l) : ~SameRuntime(l, n)}}
    /\ UNCHANGED <<config, process, file, made, removals, agent, dir, born, key, removed, split>>

\* Mutant of MayMigrate: any Agent without a key takes the legacy one.
MayAnyMigrate(l) == dir[l] # Legacy

\* migrateLegacyIdentity: only the owner, and not within one directory.
MayMigrate(l) == agent[l] = owner /\ dir[l] # Legacy

\* Mutant of AfterRead: an invalid file is treated as none.
AfterReadOrReplace(l) ==
    IF file[dir[l]] \in KeyIds THEN Return(l, file[dir[l]])
    ELSE At(l, IF MayMigrate(l) THEN "legacy" ELSE "create") /\ UNCHANGED <<agent, dir, born, key>>

\* The file of the Agent: a valid key is it, an invalid file is an error.
AfterRead(l) ==
    \/ file[dir[l]] \in KeyIds /\ Return(l, file[dir[l]])
    \/ file[dir[l]] = Corrupt /\ Return(l, Failed)
    \/ /\ file[dir[l]] = Nothing
       /\ At(l, IF MayMigrate(l) THEN "legacy" ELSE "create")
       /\ UNCHANGED <<agent, dir, born, key>>

ReadTarget(l) ==
    /\ stage[l] = "read"
    /\ AfterRead(l)
    /\ UNCHANGED <<config, process, file, made, removals, ghosts>>

\* The legacy file: none and the Agent gets a key of its own.
ReadLegacy(l) ==
    /\ stage[l] = "legacy"
    /\ \/ file[Legacy] \in KeyIds /\ At(l, "move") /\ UNCHANGED <<agent, dir, born, key>>
       \/ file[Legacy] = Corrupt /\ Return(l, Failed)
       \/ file[Legacy] = Nothing /\ At(l, "create") /\ UNCHANGED <<agent, dir, born, key>>
    /\ UNCHANGED <<config, process, file, made, removals, ghosts>>

\* A rename replaces what is at the target.
AfterMove(l) == [d \in Dirs |-> IF d = dir[l] THEN file[Legacy]
                                ELSE IF d = Legacy THEN Nothing ELSE file[d]]

\* movePathWithCopyFallback: a rename, or across devices a copy and then the
\* removal of the source.  It fails when the source is gone.
Move(l) ==
    /\ stage[l] = "move"
    /\ \/ /\ file[Legacy] # Nothing
          /\ file' = AfterMove(l)
          /\ At(l, "readback")
          /\ UNCHANGED <<agent, dir, born, key>>
       \/ /\ file[Legacy] # Nothing
          /\ file' = [file EXCEPT ![dir[l]] = file[Legacy]]
          /\ At(l, "unlink")
          /\ UNCHANGED <<agent, dir, born, key>>
       \/ UNCHANGED file /\ Return(l, Failed)
    /\ UNCHANGED <<config, process, made, removals, ghosts>>

Unlink(l) ==
    /\ stage[l] = "unlink"
    /\ \/ /\ file' = [file EXCEPT ![Legacy] = Nothing]
          /\ At(l, "readback")
          /\ UNCHANGED <<agent, dir, born, key, split>>
       \/ /\ UNCHANGED file
          /\ split' = TRUE
          /\ Return(l, Failed)
    /\ UNCHANGED <<config, process, made, removals, overlapped, removed>>

\* The key that was moved is the Agent's if it reads back valid.
ReadBack(l) ==
    /\ stage[l] = "readback"
    /\ Return(l, IF file[dir[l]] \in KeyIds THEN file[dir[l]] ELSE Failed)
    /\ UNCHANGED <<config, process, file, made, removals, ghosts>>

\* createIdentity and writeJson, which replaces the file in one step.
Create(l) ==
    /\ stage[l] = "create"
    /\ made < MaxKeys
    /\ made' = made + 1
    /\ file' = [file EXCEPT ![dir[l]] = made + 1]
    /\ Return(l, made + 1)
    /\ UNCHANGED <<config, process, removals, ghosts>>

-----------------------------------------------------------------------------
(* The Gateway and its operator.                                           *)

\* gateway_stop: clearAll empties the registry; loads under way go on and the
\* owner stays bound.
StopRuntimes ==
    /\ life < MaxStops
    /\ life' = life + 1
    /\ registry' = [a \in Agents |-> Nothing]
    /\ UNCHANGED <<config, owner, file, made, removals, load, ghosts>>

\* The process ends, with every load that is under way.
Restart ==
    /\ life < MaxStops
    /\ life' = life + 1
    /\ registry' = [a \in Agents |-> Nothing]
    /\ owner' = Nothing
    /\ stage' = [l \in Loads |-> IF stage[l] = "idle" THEN "idle" ELSE "done"]
    /\ key' = [l \in Loads |-> IF stage[l] \in {"idle", "done"} THEN key[l] ELSE Failed]
    /\ split' = (split \/ \E l \in Loads : stage[l] = "unlink")
    /\ UNCHANGED <<config, file, made, removals, agent, dir, born, overlapped, removed>>

Reconfigure ==
    /\ changes < MaxChanges
    /\ changes' = changes + 1
    /\ default' \in Agents
    /\ dirOf' \in [Agents -> Dirs]
    /\ UNCHANGED <<process, file, made, removals, load, ghosts>>

\* "Remove it manually only after reviewing": a rotation, or an invalid file.
RemoveFile(d) ==
    /\ removals < MaxRemovals
    /\ file[d] # Nothing
    /\ removals' = removals + 1
    /\ file' = [file EXCEPT ![d] = Nothing]
    /\ removed' = removed \cup {d}
    /\ UNCHANGED <<config, process, made, load, overlapped, split>>

LoadStep(l) ==
    \/ \E a \in Agents : Resolve(l, a)
    \/ Load(l) \/ ReadTarget(l) \/ ReadLegacy(l) \/ Move(l) \/ Unlink(l)
    \/ ReadBack(l) \/ Create(l)

IdentityNext ==
    \/ \E l \in Loads : LoadStep(l)
    \/ StopRuntimes \/ Restart \/ Reconfigure
    \/ \E d \in Dirs : RemoveFile(d)

IdentitySpec == IdentityInit /\ [][IdentityNext]_identityVars

-----------------------------------------------------------------------------
(* Properties.                                                             *)

\* "The key is moved once, never copied, and is never offered to another Agent"
\* (README.md): two Agents sign with one key only if the operator gave the
\* directory of one to the other between two lives of the registry, if one of
\* them has the legacy directory itself, or if a move across devices was cut.
AgentsDoNotShareKeys ==
    \A l, m \in Loads :
        agent[l] # agent[m] /\ key[l] \in KeyIds /\ key[l] = key[m] =>
            \/ dir[l] = dir[m] /\ born[l] # born[m]
            \/ {dir[l], dir[m]} \cap (overlapped \cup {Legacy}) # {}
            \/ split

\* An Agent keeps its key: what is in a file, valid or not, is only replaced or
\* taken away by the operator or, where gateway_stop left two runtimes loading at
\* once, by the other of them.  Only the legacy file goes, and then the key is in
\* the directory of the Agent that it was moved for.
IdentityIsNotReplaced ==
    [][\A d \in Dirs : file[d] # Nothing /\ d \notin overlapped \cup removed' =>
           \/ file'[d] = file[d]
           \/ /\ d = Legacy /\ file'[d] = Nothing
              /\ \E e \in Dirs \ {d} : file'[e] = file[d] \/ e \in overlapped \cup removed]_identityVars
=============================================================================

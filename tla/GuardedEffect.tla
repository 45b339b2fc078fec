----------------------------- MODULE GuardedEffect -----------------------------
(***************************************************************************)
(* What a gate that stands before an outside effect promises for every key *)
(* it guards: it lets one call through at most, and that only while the    *)
(* key is waiting; it says that the effect is done only when it is; and it *)
(* lets go of a key only when the key is settled.                          *)
(*                                                                         *)
(* The gate of src/safe-work-runtime-binding.js guards a Workboard card    *)
(* for every work item, that of src/github-draft-pr-e2e.js guards one pull *)
(* request. What the gate has written down may be set back to something    *)
(* older; from then on it may be wrong about where a key stands, but still *)
(* lets no second call through and still does not claim an effect that     *)
(* there is not.                                                           *)
(***************************************************************************)
EXTENDS Naturals

CONSTANTS
    Keys,
    Calls,          \* calls that ask to be let through
    Renewed         \* keys that start anew when they are registered again

VARIABLES
    phase,          \* where the gate says that a key stands
    passed,         \* the calls that it has let through for the key
    effects,        \* how many effects there are for the key
    setbacks        \* how often what is written down was set back

abstractVars == <<phase, passed, effects, setbacks>>

Phases == {"absent", "waiting", "uncertain", "done", "closed"}

AbstractInit ==
    /\ phase = [k \in Keys |-> "absent"]
    /\ passed = [k \in Keys |-> {}]
    /\ effects = [k \in Keys |-> 0]
    /\ setbacks = 0

Move(k, from, to) == phase[k] = from /\ phase'[k] = to
Kept(k) == passed'[k] = passed[k] /\ effects'[k] = effects[k]

\* Someone wants the effect. A key that starts anew owes nothing to its past.
Register(k) ==
    /\ Move(k, "absent", "waiting")
    /\ IF k \in Renewed THEN passed'[k] = {} /\ effects'[k] = 0 ELSE Kept(k)

\* The one call is let through. From here on the gate cannot know.
Pass(k) ==
    /\ Move(k, "waiting", "uncertain")
    /\ passed[k] = {}
    /\ \E c \in Calls : passed'[k] = {c}
    /\ effects'[k] = effects[k]

\* The gate shuts without knowing whether a call got through.
Doubt(k) == Move(k, "waiting", "uncertain") /\ Kept(k)

\* The call that was let through has its effect, however late.
Happen(k) ==
    /\ passed[k] # {} /\ effects[k] = 0
    /\ effects'[k] = 1
    /\ phase'[k] = phase[k] /\ passed'[k] = passed[k]

Settle(k) == Move(k, "uncertain", "done") /\ effects[k] = 1 /\ Kept(k)

\* The key is given up; the call may be under way.
Close(k) == phase[k] # "absent" /\ phase'[k] = "closed" /\ Kept(k)

\* Only a settled key makes room for others.
Forget(k) == phase[k] \in {"done", "closed"} /\ phase'[k] = "absent" /\ Kept(k)

Rest(k) == phase'[k] = phase[k] /\ Kept(k)

\* What was set back may say anything of the phase, but not that a missing
\* effect is there.
Mistake(k) ==
    /\ phase'[k] \in Phases
    /\ phase'[k] = "done" => effects[k] = 1
    /\ Kept(k)

Step(k) ==
    \/ Register(k) \/ Pass(k) \/ Doubt(k) \/ Happen(k)
    \/ Settle(k) \/ Close(k) \/ Forget(k) \/ Rest(k)

\* Several keys may move in one step: one makes room for another.
AbstractNext ==
    /\ phase' \in [Keys -> Phases]
    /\ setbacks' \in {setbacks, setbacks + 1}
    /\ \A k \in Keys : Step(k) \/ (setbacks' > 0 /\ Mistake(k))

AbstractSpec == AbstractInit /\ [][AbstractNext]_abstractVars
================================================================================

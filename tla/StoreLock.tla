------------------------------ MODULE StoreLock ------------------------------
(***************************************************************************)
(* The lock file that guards a state file: withLock of the intent store    *)
(* (src/action-intents.js) and of the work binding store                   *)
(* (src/safe-work-runtime-binding.js), which remove a lock that looks      *)
(* stale, and withFileLock of the draft PR proof store                     *)
(* (src/github-draft-pr-e2e.js), which never does.                         *)
(*                                                                         *)
(* A caller is one asynchronous call of withLock, in any process.  Inside  *)
(* the lock it loads the state file and may replace it.  Every system call *)
(* is a step of its own.                                                   *)
(***************************************************************************)
EXTENDS Naturals

CONSTANTS
    Callers,
    Retries,        \* LOCK_RETRY_COUNT
    StaleAge,       \* LOCK_STALE_MS, in ticks; age stops growing there
    StealsStale,    \* whether a stale lock is removed
    Prompt,         \* whether every section ends before its lock looks stale
    MaxCrashes,     \* how many callers die in a behaviour
    Free            \* there is no lock file

ASSUME LockAssumption ==
    /\ Retries \in Nat \ {0} /\ StaleAge \in Nat \ {0} /\ MaxCrashes \in Nat
    /\ StealsStale \in BOOLEAN /\ Prompt \in BOOLEAN
    /\ Free \notin Callers

VARIABLES
    lock,       \* the caller that created the lock file
    age,        \* the time since the lock file was last written
    pc, tries,  \* where each caller is, and in which attempt
    current,    \* the callers whose copy is what the state file holds
    crashes,
    robbed      \* history: somebody took the lock of a caller inside

vars == <<lock, age, pc, tries, current, crashes, robbed>>

Labels == {"idle", "open", "look", "remove", "stamp", "load", "work", "release"}

Inside(p) == pc[p] \in {"stamp", "load", "work", "release"}

LockTypeOK ==
    /\ lock \in Callers \cup {Free}
    /\ age \in 0..StaleAge
    /\ pc \in [Callers -> Labels]
    /\ tries \in [Callers -> 0..(Retries - 1)]
    /\ current \subseteq Callers
    /\ crashes \in 0..MaxCrashes
    /\ robbed \in BOOLEAN

Init ==
    /\ lock = Free
    /\ age = 0
    /\ pc = [p \in Callers |-> "idle"]
    /\ tries = [p \in Callers |-> 0]
    /\ current = {}
    /\ crashes = 0
    /\ robbed = FALSE

Goto(p, label) == pc' = [pc EXCEPT ![p] = label]

AttemptsLeft(p) == tries[p] + 1 < Retries

\* The next attempt of the loop, or the BUSY error after the last one.
NextAttempt(p) ==
    \/ /\ AttemptsLeft(p)
       /\ tries' = [tries EXCEPT ![p] = @ + 1]
       /\ Goto(p, "open")
    \/ /\ ~AttemptsLeft(p)
       /\ tries' = [tries EXCEPT ![p] = 0]
       /\ Goto(p, "idle")

\* rm of the lock file removes whatever is at the path.
Unlink(p) ==
    /\ lock' = Free
    /\ age' = 0
    /\ robbed' = (robbed \/ (lock \notin {Free, p} /\ Inside(lock)))

Enter(p) ==
    /\ pc[p] = "idle"
    /\ Goto(p, "open")
    /\ UNCHANGED <<lock, age, tries, current, crashes, robbed>>

\* Mutant of Creatable: the file is opened without the flag "wx".
CreatableAnyway(p) == TRUE

Creatable(p) == lock = Free

Open(p) ==
    /\ pc[p] = "open"
    /\ \/ /\ Creatable(p)
          /\ lock' = p /\ age' = 0
          /\ tries' = [tries EXCEPT ![p] = 0]
          /\ Goto(p, "stamp")
       \/ /\ lock # Free /\ UNCHANGED <<lock, age>>
          /\ IF StealsStale THEN Goto(p, "look") /\ UNCHANGED tries ELSE NextAttempt(p)
    /\ UNCHANGED <<current, crashes, robbed>>

\* Mutant of LooksStale: the age of a lock is never held against it.
NeverLooksStale == FALSE

LooksStale == lock # Free /\ age = StaleAge

\* stat
Look(p) ==
    /\ pc[p] = "look"
    /\ \/ LooksStale /\ Goto(p, "remove") /\ UNCHANGED tries
       \/ ~LooksStale /\ NextAttempt(p)
    /\ UNCHANGED <<lock, age, current, crashes, robbed>>

\* By now there may be another lock at the path.
RemoveStale(p) ==
    /\ pc[p] = "remove"
    /\ Unlink(p)
    /\ NextAttempt(p)
    /\ UNCHANGED <<current, crashes>>

\* Writing the caller's process id renews the lock file, if it is still there.
Stamp(p) ==
    /\ pc[p] = "stamp"
    /\ age' = IF lock = p THEN 0 ELSE age
    /\ Goto(p, "load")
    /\ UNCHANGED <<lock, tries, current, crashes, robbed>>

\* loadStore, or readStoreDocument
Load(p) ==
    /\ pc[p] = "load"
    /\ current' = current \cup {p}
    /\ Goto(p, "work")
    /\ UNCHANGED <<lock, age, tries, crashes, robbed>>

\* saveStore: the state file is replaced and every other copy of it is old.
Save(p) ==
    /\ pc[p] = "work"
    /\ current' = {}
    /\ Goto(p, "release")
    /\ UNCHANGED <<lock, age, tries, crashes, robbed>>

\* The section saves nothing, or throws.
Leave(p) ==
    /\ pc[p] \in {"stamp", "load", "work"}
    /\ current' = current \ {p}
    /\ Goto(p, "release")
    /\ UNCHANGED <<lock, age, tries, crashes, robbed>>

\* The finally clause.
Release(p) ==
    /\ pc[p] = "release"
    /\ Unlink(p)
    /\ Goto(p, "idle")
    /\ UNCHANGED <<tries, current, crashes>>

\* A caller dies with its process and leaves its lock file behind.
Crash(p) ==
    /\ pc[p] # "idle"
    /\ crashes < MaxCrashes
    /\ crashes' = crashes + 1
    /\ tries' = [tries EXCEPT ![p] = 0]
    /\ current' = current \ {p}
    /\ Goto(p, "idle")
    /\ UNCHANGED <<lock, age, robbed>>

Tick ==
    /\ lock # Free /\ age < StaleAge
    /\ Prompt => ~(Inside(lock) /\ age + 1 = StaleAge)
    /\ age' = age + 1
    /\ UNCHANGED <<lock, pc, tries, current, crashes, robbed>>

Step(p) ==
    \/ Enter(p) \/ Open(p) \/ Look(p) \/ RemoveStale(p) \/ Stamp(p) \/ Load(p)
    \/ Save(p) \/ Leave(p) \/ Release(p)

Next == (\E p \in Callers : Step(p) \/ Crash(p)) \/ Tick

Spec == Init /\ [][Next]_vars

\* Calls go on, commands keep coming, and time passes.
FairSpec == Spec /\ (\A p \in Callers : WF_vars(Step(p))) /\ WF_vars(Tick)

-----------------------------------------------------------------------------
(* Properties.                                                             *)

\* "Protected by a local lock" (SECURITY.md): never two callers inside.
LockProtects == \A p, q \in Callers : Inside(p) /\ Inside(q) => p = q

\* Callers that die, at any step, and callers that clear away what those left
\* behind do not break the lock; only taking away the lock of a caller that is
\* still inside does (the stat and rm of withLock).
ExclusionUntilRobbed == ~robbed => LockProtects

\* So until then a caller that is about to save has what the state file holds,
\* and no change to it is lost.
UpdatesAreKept == ~robbed => \A p \in Callers : pc[p] = "work" => p \in current

\* The lock file of a caller that died is cleared away in the end.
DeadLockIsCleared ==
    \A p \in Callers : (lock = p /\ ~Inside(p)) ~> (lock # p \/ Inside(p))
=============================================================================

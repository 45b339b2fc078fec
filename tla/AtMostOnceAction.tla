-------------------------- MODULE AtMostOnceAction --------------------------
(***************************************************************************)
(* What the idempotency gateway promises for each action key, seen from    *)
(* outside: a public object is published at most once per record, the      *)
(* verdict that the record carries is final, "committed" is said only of   *)
(* something that was published, and once "failed" has been said nothing   *)
(* will be published.  "unknown" promises neither.                         *)
(***************************************************************************)
CONSTANT Keys

VARIABLES
    verdict,     \* what the durable record of a key says
    published    \* whether the public object of that record exists

abstractVars == <<verdict, published>>

Verdicts == {"absent", "open", "committed", "failed", "unknown"}

AbstractTypeOK ==
    /\ verdict \in [Keys -> Verdicts]
    /\ published \in [Keys -> BOOLEAN]

AbstractInit ==
    /\ verdict = [k \in Keys |-> "absent"]
    /\ published = [k \in Keys |-> FALSE]

Become(k, v) ==
    /\ verdict' = [verdict EXCEPT ![k] = v]
    /\ UNCHANGED published

\* A record is opened for the key.
Open(k) == verdict[k] = "absent" /\ Become(k, "open")

\* The one public write.  It may come late, after the record gave up on it,
\* but never after "failed" and never twice.
Publish(k) ==
    /\ verdict[k] \in {"open", "unknown"}
    /\ ~published[k]
    /\ published' = [published EXCEPT ![k] = TRUE]
    /\ UNCHANGED verdict

Commit(k) == verdict[k] = "open" /\ published[k] /\ Become(k, "committed")
Refuse(k) == verdict[k] = "open" /\ ~published[k] /\ Become(k, "failed")
GiveUp(k) == verdict[k] = "open" /\ Become(k, "unknown")

\* Housekeeping over all records at once.  Records that nobody finished in time
\* are sealed, "failed" if nothing was published and "unknown" otherwise or when
\* in doubt; records with a final verdict are dropped, and their keys can be
\* used again.
Sweep(refused, givenUp, dropped) ==
    /\ refused \cap givenUp = {}
    /\ \A k \in refused \cup givenUp : verdict[k] = "open"
    /\ \A k \in refused : ~published[k]
    /\ \A k \in dropped : verdict[k] \in {"committed", "failed", "unknown"}
    /\ verdict' = [k \in Keys |-> IF k \in refused THEN "failed"
                                  ELSE IF k \in givenUp THEN "unknown"
                                  ELSE IF k \in dropped THEN "absent"
                                  ELSE verdict[k]]
    /\ published' = [k \in Keys |-> IF k \in dropped THEN FALSE ELSE published[k]]

AbstractNext ==
    \/ \E k \in Keys : \/ Open(k) \/ Publish(k)
                       \/ Commit(k) \/ Refuse(k) \/ GiveUp(k)
    \/ \E refused, givenUp, dropped \in SUBSET Keys :
            Sweep(refused, givenUp, dropped)

AbstractSpec == AbstractInit /\ [][AbstractNext]_abstractVars

-----------------------------------------------------------------------------
(* What follows for those who read the records.                            *)

\* "committed" and "failed" can be believed.
TrueVerdicts ==
    \A k \in Keys : /\ verdict[k] = "committed" => published[k]
                    /\ verdict[k] = "failed" => ~published[k]

\* A verdict is not taken back; only the record as a whole goes.
FinalVerdicts ==
    [][\A k \in Keys : verdict[k] \in {"committed", "failed", "unknown"} =>
            verdict'[k] \in {verdict[k], "absent"}]_abstractVars
=============================================================================

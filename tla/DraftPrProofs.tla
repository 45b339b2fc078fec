---------------------------- MODULE DraftPrProofs ----------------------------
(***************************************************************************)
(* Proofs about DraftPrProof for any number of calls, tool calls and       *)
(* rollbacks, and about the way that leads to it (GovernedDispatch), for   *)
(* any tools, catalogs, registries and policies.                           *)
(***************************************************************************)
EXTENDS DraftPrProof, GovernedDispatch, TLAPS

-----------------------------------------------------------------------------
(* DraftPrProof.                                                           *)

\* A record that validateProofRecord accepts, with an approval that is used up
\* exactly when the dispatch has begun.
Good(r) == r = None \/ (r \in Record /\ (r.tool = None <=> r.state \in {"armed", "revoked"}))

\* The type invariant, for every copy of the record.
TypeInv ==
    /\ ProofTypeOK
    /\ Good(record)
    /\ \A r \in older : Good(r)
    /\ \A c \in Calls : Good(seen[c])

\* A call that is about to write has seen what its method demands.
CallInv ==
    \A c \in Calls :
        /\ pc[c] \in {"reserving", "writing", "saving"} => Permits(c, seen[c])
        /\ pc[c] \in {"reserving", "writing", "allowed"} => c \in Dispatches
        /\ pc[c] \in {"checking", "saving"} =>
              /\ c \in Afters => outcome[c] \in {"committed", "unknown"}
              /\ c \in Reconciles => outcome[c] \in {"committed", "no_effect"}

\* The owner of the reservation, and whoever was allowed.
Holds(c) == c \in Dispatches /\ (pc[c] \in {"writing", "saving", "allowed"} \/ c \in allowed)

MarkerInv ==
    /\ \A c \in Calls : Holds(c) => marker # None
    /\ \A c, d \in Calls : Holds(c) /\ Holds(d) => c = d
    /\ \A c \in Calls : pc[c] = "allowed" => c \in allowed
    /\ \A c \in allowed : pc[c] \in {"allowed", "done"}

PrInv ==
    /\ prs \in {0, 1}
    /\ prs = 1 => allowed # {} /\ \A c \in allowed : pc[c] = "done" /\ c \notin late
    /\ \A c \in late : pc[c] = "done"

Committed(r) == r # None /\ r.state = "committed"

\* Whatever says committed, anywhere, is true.
TruthInv ==
    /\ Committed(record) => prs = 1
    /\ \A r \in older : Committed(r) => prs = 1
    /\ \A c \in Calls : Committed(seen[c]) => prs = 1
    /\ \A c \in Calls : outcome[c] = "committed" => prs = 1
    /\ \A t \in ToolCalls : answer[t] = "committed" => prs = 1

\* s is an earlier content of the record r, or r.
Behind(s, r) ==
    /\ Revision(s) <= Revision(r)
    /\ Revision(s) = Revision(r) => s = r
    /\ s # None /\ s.revoked => r # None /\ r.revoked

\* Without a rollback a record that was loaded is an earlier one or the current one,
\* and its revision says which.
RevisionInv ==
    rollbacks = 0 =>
        /\ told => record # None /\ record.revoked
        /\ \A c \in Calls : Behind(seen[c], record)

ProofInv == TypeInv /\ CallInv /\ MarkerInv /\ PrInv /\ TruthInv /\ RevisionInv

\* A call is one of one method.
LEMMA OneMethod ==
    /\ Arms \cap Dispatches = {} /\ Arms \cap Afters = {} /\ Arms \cap Reconciles = {}
    /\ Arms \cap Revokes = {} /\ Dispatches \cap Afters = {} /\ Dispatches \cap Reconciles = {}
    /\ Dispatches \cap Revokes = {} /\ Afters \cap Reconciles = {} /\ Afters \cap Revokes = {}
    /\ Reconciles \cap Revokes = {}
<1>1. \A i, j \in 1..5 : i # j => Methods[i] \cap Methods[j] = {}
  BY ProofAssumption
<1>2. /\ Methods[1] = Arms /\ Methods[2] = Dispatches /\ Methods[3] = Afters
      /\ Methods[4] = Reconciles /\ Methods[5] = Revokes
  BY DEF Methods
<1>3. 1 \in 1..5 /\ 2 \in 1..5 /\ 3 \in 1..5 /\ 4 \in 1..5 /\ 5 \in 1..5
  OBVIOUS
<1> QED  BY <1>1, <1>2, <1>3

LEMMA InitProof == Init => ProofInv
<1> SUFFICES ASSUME Init PROVE ProofInv  OBVIOUS
<1>1. 0 \in 0..MaxRollbacks
  BY ProofAssumption
<1>2. TypeInv
  BY <1>1 DEF Init, TypeInv, ProofTypeOK, Good, Labels, Outcomes
<1>3. CallInv /\ MarkerInv /\ PrInv
  BY DEF Init, CallInv, MarkerInv, PrInv, Holds
<1>4. TruthInv
  BY ProofAssumption DEF Init, TruthInv, Committed, Outcomes
<1>5. RevisionInv
  <2>1. Behind(None, None)
    BY DEF Behind, Revision
  <2> QED  BY <2>1 DEF Init, RevisionInv
<1> QED  BY <1>2, <1>3, <1>4, <1>5 DEF ProofInv

-----------------------------------------------------------------------------
\* What is saved is a good record, one revision after the one that was loaded.
LEMMA ReplacementIsGood ==
    ASSUME ProofInv, NEW c \in Calls, pc[c] = "saving"
    PROVE  LET r == Replacement(c, seen[c]) IN
           /\ r # None /\ r \in Record /\ Good(r)
           /\ r.revision = Revision(seen[c]) + 1
           /\ Follows(seen[c], r)
           /\ Committed(r) => prs = 1
           /\ c \in Revokes => r.revoked
           /\ seen[c] # None /\ seen[c].revoked => r.revoked
<1> DEFINE s == seen[c]
<1>1. Permits(c, s) /\ Good(s) /\ TypeInv
  BY DEF ProofInv, CallInv, TypeInv
<1>2. None \notin Record
  BY ProofAssumption
<1>3. CASE c \in Arms
  <2>1. s = None /\ Replacement(c, s) = Initial
    BY <1>1, <1>3, OneMethod DEF Permits, Replacement
  <2>2. Initial \in Record /\ Good(Initial)
    BY DEF Initial, Record, States, Good
  <2>3. c \notin Revokes
    BY <1>3, OneMethod
  <2>4. Initial # None /\ Initial.revision = Revision(s) + 1
    <3>1. Revision(s) = 0 /\ Initial.revision = 1
      BY <2>1 DEF Initial, Revision
    <3> QED  BY <3>1, <2>2, <1>2
  <2>5. Follows(s, Initial)
    BY <2>1 DEF Follows
  <2>6. ~Committed(Initial)
    BY DEF Initial, Committed
  <2> QED  BY <2>1, <2>2, <2>3, <2>4, <2>5, <2>6
<1>4. CASE c \in Dispatches /\ c \notin Arms
  <2>1. s \in Record /\ s.state = "armed" /\ ~s.revoked /\ s.tool = None
    BY <1>1, <1>4, <1>2, OneMethod DEF Permits, Good
  <2>2. tool[c] \in ToolCalls /\ tool[c] # None
    BY <1>4, ProofAssumption DEF TypeInv, ProofTypeOK, ProofInv, Hooks
  <2> DEFINE r == Successor(s, "dispatching", tool[c], s.revoked)
  <2>3. Replacement(c, s) = r
    BY <1>4, OneMethod DEF Replacement
  <2> DEFINE q == [state |-> "dispatching", revision |-> s.revision + 1, tool |-> tool[c],
                   revoked |-> s.revoked]
  <2>4. r \in Record /\ r = q
    <3>1. s.revision + 1 \in Nat \ {0} /\ s.revoked \in BOOLEAN
      BY <2>1 DEF Record
    <3>2. q \in Record
      BY <3>1, <2>2 DEF Record, States
    <3>3. r = q
      BY DEF Successor
    <3> QED  BY <3>2, <3>3
  <2>5. c \notin Revokes
    BY <1>4, OneMethod
  <2> HIDE DEF r
  <2> QED  BY <2>1, <2>2, <2>3, <2>4, <2>5, <1>2 DEF Good, Revision, Follows, Successors, Committed
<1>5. CASE c \in Afters \cup Reconciles /\ c \notin Arms \cup Dispatches
  <2>1. s \in Record /\ s.state \in {"dispatching", "unknown"} /\ s.tool # None
    BY <1>1, <1>5, <1>2, OneMethod DEF Permits, Good
  <2>2. outcome[c] \in Outcomes /\ (outcome[c] = "committed" => prs = 1)
    BY DEF ProofInv, TypeInv, ProofTypeOK, TruthInv
  <2>3. <<s.state, outcome[c]>> \in Successors
    <3>1. CASE c \in Afters
      BY <3>1, <1>1, <1>5, OneMethod DEF Permits, ProofInv, CallInv, Successors
    <3>2. CASE c \in Reconciles /\ c \notin Afters
      BY <3>2, <1>1, <1>5, OneMethod DEF Permits, ProofInv, CallInv, Successors
    <3> QED  BY <3>1, <3>2, <1>5
  <2> DEFINE r == Successor(s, outcome[c], s.tool, s.revoked)
  <2>4. Replacement(c, s) = r
    BY <1>5, OneMethod DEF Replacement
  <2> DEFINE q == [state |-> outcome[c], revision |-> s.revision + 1, tool |-> s.tool,
                   revoked |-> s.revoked]
  <2>5. r \in Record /\ r = q
    <3>1. s.revision + 1 \in Nat \ {0} /\ s.revoked \in BOOLEAN /\ s.tool \in ToolCalls \cup {None}
      BY <2>1 DEF Record
    <3>2. q \in Record
      BY <3>1, <2>2 DEF Record, States, Outcomes
    <3>3. r = q
      BY DEF Successor
    <3> QED  BY <3>2, <3>3
  <2>6. c \notin Revokes
    BY <1>5, OneMethod
  <2> HIDE DEF r
  <2> QED  BY <2>1, <2>2, <2>3, <2>4, <2>5, <2>6, <1>2
           DEF Good, Revision, Follows, Committed, Outcomes
<1>6. CASE c \in Revokes /\ c \notin Arms \cup Dispatches \cup Afters \cup Reconciles
  <2>1. s \in Record /\ ~s.revoked
    BY <1>1, <1>6, <1>2, OneMethod DEF Permits, Good
  <2> DEFINE r == Successor(s, RevokedState(s.state), s.tool, TRUE)
  <2>2. Replacement(c, s) = r
    BY <1>6, OneMethod DEF Replacement
  <2>3. RevokedState(s.state) \in States
    BY <2>1 DEF RevokedState, Record, States
  <2> DEFINE q == [state |-> RevokedState(s.state), revision |-> s.revision + 1,
                   tool |-> s.tool, revoked |-> TRUE]
  <2>4. r \in Record /\ r = q
    <3>1. s.revision + 1 \in Nat \ {0} /\ s.tool \in ToolCalls \cup {None}
      BY <2>1 DEF Record
    <3>2. q \in Record
      BY <3>1, <2>3 DEF Record
    <3>3. r = q
      BY DEF Successor
    <3> QED  BY <3>2, <3>3
  <2> HIDE DEF r
  <2>8. /\ r # None /\ r.state = RevokedState(s.state) /\ r.revision = s.revision + 1
        /\ r.tool = s.tool /\ r.revoked = TRUE
    BY <2>4, <1>2
  <2>5. <<s.state, r.state>> \in Successors \/ r.state = s.state
    BY <2>8 DEF RevokedState, Successors
  <2>6. Committed(r) => Committed(s)
    BY <2>1, <2>8, <1>2 DEF Committed, RevokedState
  <2>7. Committed(s) => prs = 1
    BY DEF ProofInv, TruthInv
  <2>9. Good(r)
    BY <2>1, <2>4, <2>8, <1>1, <1>2 DEF Good, RevokedState
  <2>10. Follows(s, r)
    BY <2>1, <2>5, <2>8, <1>2 DEF Follows
  <2> QED  BY <2>1, <2>2, <2>4, <2>6, <2>7, <2>8, <2>9, <2>10, <1>2
           DEF Good, Revision, Follows, RevokedState, States, Record
<1> QED  BY <1>3, <1>4, <1>5, <1>6 DEF Calls

\* The record is the only thing a successful Save takes from what was loaded.
LEMMA SaveEffect ==
    ASSUME ProofInv, NEW c \in Calls, Save(c)
    PROVE  /\ record' = record /\ older' = older /\ allowed' = allowed /\ told' = told
              /\ End(c)
           \/ /\ Unmoved(seen[c]) /\ record' = Replacement(c, seen[c])
              /\ older' = older \cup {record}
              /\ \/ c \in Dispatches /\ Goto(c, "allowed") /\ allowed' = allowed \cup {c}
                    /\ (told' => told)
                 \/ c \notin Dispatches /\ End(c) /\ allowed' = allowed
                    /\ (told' => told \/ c \in Revokes)
                 \/ End(c) /\ allowed' = allowed /\ told' = told
<1>1. c \in Dispatches => c \notin Revokes
  BY OneMethod
<1> QED  BY <1>1 DEF Save

-----------------------------------------------------------------------------
(* Each part of the invariant.                                             *)

LEMMA StepType == ProofInv /\ [Next]_vars => TypeInv'
<1> SUFFICES ASSUME ProofInv, [Next]_vars PROVE TypeInv'  OBVIOUS
<1> USE DEF ProofInv, TypeInv, ProofTypeOK, Good
<1>1. CASE UNCHANGED vars
  BY <1>1 DEF vars, files, local, provider
<1>2. ASSUME NEW c \in Calls, Load(c) PROVE TypeInv'
  <2>1. outcome' \in [Calls -> Outcomes]
    <3>1. PICK o \in Brings(c) : outcome' = [outcome EXCEPT ![c] = o]
      BY <1>2 DEF Load
    <3>2. o \in Outcomes
      BY <3>1 DEF Brings, Observed, Outcomes, Hooks, Calls
    <3> QED  BY <3>1, <3>2
  <2>2. "checking" \in Labels
    BY DEF Labels
  <2> QED  BY <1>2, <2>1, <2>2 DEF Load, files, provider
<1>3. ASSUME NEW c \in Calls, Check(c) PROVE TypeInv'
  BY <1>3 DEF Check, Goto, End, files, provider, Labels, Outcomes
<1>4. ASSUME NEW c \in Calls, Save(c) PROVE TypeInv'
  <2>1. pc[c] = "saving" /\ UNCHANGED <<marker, rollbacks, tool, provider>>
    BY <1>4 DEF Save
  <2>2. CASE record' = record /\ older' = older /\ allowed' = allowed /\ told' = told /\ End(c)
    BY <2>1, <2>2 DEF End, provider, Labels, Outcomes
  <2>3. CASE ~(record' = record /\ older' = older /\ allowed' = allowed /\ told' = told /\ End(c))
    <3>1. record' = Replacement(c, seen[c]) /\ older' = older \cup {record}
      BY <1>4, <2>3, SaveEffect
    <3>2. record' \in Record /\ Good(record') /\ record' # None
      BY <3>1, <2>1, ReplacementIsGood
    <3>3. allowed' \subseteq Dispatches /\ allowed \subseteq allowed'
      BY <1>4, SaveEffect
    <3>4. pc' \in [Calls -> Labels] /\ told' \in BOOLEAN
      BY <1>4 DEF Save, Goto, End, Labels
    <3>5. seen' \in [Calls -> Record \cup {None}] /\ outcome' \in [Calls -> Outcomes]
          /\ \A d \in Calls : seen'[d] = seen[d] \/ seen'[d] = None
      BY <1>4 DEF Save, Goto, End, Outcomes
    <3> QED  BY <2>1, <3>1, <3>2, <3>3, <3>4, <3>5 DEF provider
  <2> QED  BY <2>2, <2>3
<1>5. ASSUME NEW c \in Calls, Abort(c) PROVE TypeInv'
  BY <1>5 DEF Abort, End, files, provider, Labels, Outcomes
<1>6. ASSUME NEW c \in Dispatches, Reserve(c) \/ WriteReservation(c) PROVE TypeInv'
  BY <1>6 DEF Reserve, WriteReservation, Goto, End, provider, Labels, Outcomes, Hooks, Calls
<1>7. ASSUME NEW c \in Dispatches, CallProvider(c) PROVE TypeInv'
  <2>1. c \in allowed /\ c \in Calls
    BY <1>7 DEF CallProvider, MarkerInv, Calls
  <2> QED  BY <1>7, <2>1 DEF CallProvider, End, files, Labels, Outcomes
<1>8. ASSUME NEW c \in Dispatches, ArriveLate(c) PROVE TypeInv'
  BY <1>8 DEF ArriveLate, files, local
<1>9. CASE Rollback
  <2>1. record' \in older /\ rollbacks' \in 0..MaxRollbacks
    BY <1>9, ProofAssumption DEF Rollback
  <2> QED  BY <1>9, <2>1 DEF Rollback, local, provider
<1> QED  BY <1>1, <1>2, <1>3, <1>4, <1>5, <1>6, <1>7, <1>8, <1>9 DEF Next

\* What a call saw stays; whoever writes has been checked.
LEMMA StepCall == ProofInv /\ [Next]_vars => CallInv'
<1> SUFFICES ASSUME ProofInv, [Next]_vars PROVE CallInv'  OBVIOUS
<1> USE DEF ProofInv, CallInv
<1>0. pc \in [Calls -> Labels] /\ seen \in [Calls -> Record \cup {None}]
      /\ outcome \in [Calls -> Outcomes]
  BY DEF TypeInv, ProofTypeOK
<1>1. CASE UNCHANGED vars
  BY <1>1 DEF vars, local, Permits
<1>2. ASSUME NEW c \in Calls, Load(c) PROVE CallInv'
  <2>1. PICK o \in Brings(c) : outcome' = [outcome EXCEPT ![c] = o]
    BY <1>2 DEF Load
  <2>2. c \in Afters => o \in {"committed", "unknown"}
    <3>1. SUFFICES ASSUME c \in Afters PROVE o \in {"committed", "unknown"}  OBVIOUS
    <3>2. tool[c] \in ToolCalls
      BY <3>1 DEF TypeInv, ProofTypeOK, Hooks
    <3>3. answer[tool[c]] \in {None, "committed", "unknown"}
      BY <3>2 DEF TypeInv, ProofTypeOK
    <3> QED  BY <2>1, <3>1, <3>3, OneMethod DEF Brings
  <2>3. c \in Reconciles => o \in {"committed", "no_effect"}
    <3>1. c \in Reconciles => c \notin Afters
      BY OneMethod
    <3> QED  BY <2>1, <3>1 DEF Brings, Observed
  <2> QED  BY <1>0, <1>2, <2>1, <2>2, <2>3 DEF Load, Permits
<1>3. ASSUME NEW c \in Calls, Check(c) PROVE CallInv'
  BY <1>0, <1>3 DEF Check, Goto, End, Permits
<1>4. ASSUME NEW c \in Calls, Save(c) \/ Abort(c) PROVE CallInv'
  BY <1>0, <1>4 DEF Save, Abort, Goto, End, Permits
<1>5. ASSUME NEW c \in Dispatches, Reserve(c) \/ WriteReservation(c) \/ CallProvider(c)
                                   \/ ArriveLate(c)
      PROVE CallInv'
  <2>1. c \in Calls /\ c \notin Afters \cup Reconciles
    BY OneMethod DEF Calls
  <2> QED  BY <1>0, <1>5, <2>1 DEF Reserve, WriteReservation, CallProvider, ArriveLate, Goto, End,
                                   Permits, local, Calls
<1>6. CASE Rollback
  BY <1>6 DEF Rollback, local, Permits
<1> QED  BY <1>1, <1>2, <1>3, <1>4, <1>5, <1>6 DEF Next

\* The reservation is made once, so that one dispatch holds it.
LEMMA StepMarker == ProofInv /\ [Next]_vars => MarkerInv'
<1> SUFFICES ASSUME ProofInv, [Next]_vars PROVE MarkerInv'  OBVIOUS
<1> USE DEF MarkerInv, Holds
<1>0. /\ pc \in [Calls -> Labels] /\ allowed \subseteq Dispatches /\ MarkerInv
      /\ marker \in ToolCalls \cup {None, "torn"} /\ tool \in [Hooks -> ToolCalls]
      /\ Dispatches \subseteq Calls /\ Dispatches \subseteq Hooks
      /\ None \notin ToolCalls \cup {"torn"}
  BY ProofAssumption DEF ProofInv, TypeInv, ProofTypeOK, Calls, Hooks
<1>1. CASE UNCHANGED vars
  BY <1>0, <1>1 DEF vars, files
<1>2. ASSUME NEW c \in Calls, Load(c) \/ Abort(c) PROVE MarkerInv'
  BY <1>0, <1>2 DEF Load, Abort, End, files
<1>3. ASSUME NEW c \in Calls, Check(c) PROVE MarkerInv'
  BY <1>0, <1>3 DEF Check, Goto, End, files
<1>4. ASSUME NEW c \in Calls, Save(c) PROVE MarkerInv'
  BY <1>0, <1>4 DEF Save, Goto, End
<1>5. ASSUME NEW c \in Dispatches, Reserve(c) PROVE MarkerInv'
  BY <1>0, <1>5 DEF Reserve, MayReserve, Goto, End
<1>6. ASSUME NEW c \in Dispatches, WriteReservation(c) PROVE MarkerInv'
  BY <1>0, <1>6 DEF WriteReservation, Goto
<1>7. ASSUME NEW c \in Dispatches, CallProvider(c) \/ ArriveLate(c) PROVE MarkerInv'
  BY <1>0, <1>7 DEF CallProvider, ArriveLate, End, files
<1>8. CASE Rollback
  BY <1>0, <1>8 DEF Rollback
<1> QED  BY <1>1, <1>2, <1>3, <1>4, <1>5, <1>6, <1>7, <1>8 DEF Next

\* One request makes one pull request, at once or late.
LEMMA StepPr == ProofInv /\ [Next]_vars => PrInv' /\ prs' \in {prs, prs + 1}
<1> SUFFICES ASSUME ProofInv, [Next]_vars PROVE PrInv' /\ prs' \in {prs, prs + 1}  OBVIOUS
<1> USE DEF PrInv
<1>0. /\ pc \in [Calls -> Labels] /\ allowed \subseteq Dispatches /\ late \subseteq allowed
      /\ Dispatches \subseteq Calls /\ PrInv
  BY DEF ProofInv, TypeInv, ProofTypeOK, Calls
<1>1. /\ \A c \in allowed : pc[c] \in {"allowed", "done"}
      /\ \A c, d \in allowed : c = d
  BY <1>0 DEF ProofInv, MarkerInv, Holds
<1>2. ASSUME UNCHANGED <<pc, provider, allowed>> PROVE PrInv' /\ prs' = prs
  BY <1>0, <1>2 DEF provider
<1>3. ASSUME NEW c \in Calls, UNCHANGED <<provider, allowed>>, NEW l, l # "done" => c \notin allowed,
             pc' = [pc EXCEPT ![c] = l]
      PROVE  PrInv' /\ prs' = prs
  BY <1>0, <1>1, <1>3 DEF provider
<1>4. ASSUME NEW c \in Calls, Load(c) \/ Check(c) \/ Abort(c) PROVE PrInv' /\ prs' = prs
  <2>1. PICK l \in Labels : pc' = [pc EXCEPT ![c] = l] /\ (l # "done" => pc[c] \in {"idle", "checking"})
    BY <1>4 DEF Load, Check, Abort, Goto, End, Labels
  <2> QED  BY <1>4, <1>3, <1>1, <2>1 DEF Load, Check, Abort
<1>5. ASSUME NEW c \in Calls, Save(c) PROVE PrInv' /\ prs' = prs
  <2>1. UNCHANGED provider /\ pc[c] = "saving"
    BY <1>5 DEF Save
  <2>2. CASE End(c) /\ allowed' = allowed
    BY <2>1, <2>2, <1>3 DEF End
  <2>3. CASE c \in Dispatches /\ allowed' = allowed \cup {c} /\ Goto(c, "allowed")
    <3>1. \A d \in allowed : d = c
      BY <1>0, <2>1, <2>3 DEF ProofInv, MarkerInv, Holds
    <3>2. allowed = {} /\ late = {}
      BY <1>0, <1>1, <2>1, <3>1
    <3>3. prs = 0
      BY <1>0, <3>2
    <3> QED  BY <2>1, <2>3, <3>2, <3>3, <1>0 DEF Goto, provider
  <2> QED  BY <1>5, <2>2, <2>3, SaveEffect
<1>6. ASSUME NEW c \in Dispatches, Reserve(c) \/ WriteReservation(c) PROVE PrInv' /\ prs' = prs
  <2>1. PICK l \in Labels : pc' = [pc EXCEPT ![c] = l] /\ pc[c] \in {"reserving", "writing"}
    BY <1>6 DEF Reserve, WriteReservation, Goto, End, Labels
  <2> QED  BY <1>0, <1>1, <1>3, <1>6, <2>1 DEF Reserve, WriteReservation
<1>7. ASSUME NEW c \in Dispatches, CallProvider(c) PROVE PrInv' /\ prs' \in {prs, prs + 1}
  <2>1. c \in allowed /\ pc[c] = "allowed" /\ c \in Calls
    BY <1>0, <1>7 DEF CallProvider, ProofInv, MarkerInv
  <2>2. prs = 0 /\ c \notin late /\ late = {} /\ allowed = {c}
    BY <1>0, <1>1, <2>1
  <2>3. pc'[c] = "done" /\ allowed' = {c}
    BY <1>0, <1>7, <2>1, <2>2 DEF CallProvider, End
  <2> QED  BY <1>7, <2>2, <2>3 DEF CallProvider
<1>8. ASSUME NEW c \in Dispatches, ArriveLate(c) PROVE PrInv' /\ prs' \in {prs, prs + 1}
  <2>1. prs = 0 /\ pc[c] = "done" /\ c \in allowed /\ allowed = {c}
    BY <1>0, <1>1, <1>8 DEF ArriveLate
  <2> QED  BY <1>0, <1>8, <2>1 DEF ArriveLate
<1>9. CASE Rollback
  BY <1>2, <1>9 DEF Rollback
<1>10. CASE UNCHANGED vars
  BY <1>2, <1>10 DEF vars, provider
<1> QED  BY <1>4, <1>5, <1>6, <1>7, <1>8, <1>9, <1>10 DEF Next

\* A pull request stays, so what was true of it stays true.
LEMMA StepTruth == ProofInv /\ [Next]_vars => TruthInv'
<1> SUFFICES ASSUME ProofInv, [Next]_vars PROVE TruthInv'  OBVIOUS
<1> USE DEF TruthInv, Committed
<1>0. /\ TruthInv /\ (prs = 1 => prs' = 1)
      /\ seen \in [Calls -> Record \cup {None}] /\ outcome \in [Calls -> Outcomes]
      /\ answer \in [ToolCalls -> {None, "committed", "unknown"}]
  BY StepPr DEF ProofInv, TypeInv, ProofTypeOK, PrInv
<1>1. CASE UNCHANGED vars
  BY <1>0, <1>1 DEF vars, files, local, provider
<1>2. ASSUME NEW c \in Calls, Load(c) PROVE TruthInv'
  <2>1. PICK o \in Brings(c) : outcome' = [outcome EXCEPT ![c] = o]
    BY <1>2 DEF Load
  <2>2. o = "committed" => prs = 1
    <3>1. CASE c \in Afters
      <4>1. tool[c] \in ToolCalls
        BY <3>1 DEF ProofInv, TypeInv, ProofTypeOK, Hooks
      <4> QED  BY <1>0, <2>1, <3>1, <4>1, OneMethod DEF Brings
    <3>2. CASE c \notin Afters
      BY <2>1, <3>2 DEF Brings, Observed, ProofInv, PrInv
    <3> QED  BY <3>1, <3>2
  <2> QED  BY <1>0, <1>2, <2>1, <2>2 DEF Load, files, provider
<1>3. ASSUME NEW c \in Calls, Check(c) \/ Abort(c) PROVE TruthInv'
  BY <1>0, <1>3 DEF Check, Abort, Goto, End, files, provider
<1>4. ASSUME NEW c \in Calls, Save(c) PROVE TruthInv'
  <2>1. pc[c] = "saving" /\ UNCHANGED provider
    BY <1>4 DEF Save
  <2>2. /\ \A d \in Calls : seen'[d] = seen[d] \/ seen'[d] = None
        /\ \A d \in Calls : outcome'[d] = outcome[d] \/ outcome'[d] = "unknown"
    BY <1>0, <1>4 DEF Save, Goto, End
  <2>3. Committed(record') => prs = 1
    BY <1>0, <1>4, <2>1, SaveEffect, ReplacementIsGood
  <2>4. older' = older \/ older' = older \cup {record}
    BY <1>4 DEF Save
  <2> QED  BY <1>0, <2>1, <2>2, <2>3, <2>4 DEF provider
<1>5. ASSUME NEW c \in Dispatches, Reserve(c) \/ WriteReservation(c) PROVE TruthInv'
  BY <1>0, <1>5 DEF Reserve, WriteReservation, Goto, End, provider, Calls
<1>6. ASSUME NEW c \in Dispatches, CallProvider(c) PROVE TruthInv'
  <2>1. \E a \in {"committed", "unknown"} :
           answer' = [answer EXCEPT ![tool[c]] = a] /\ (a = "committed" => prs' = prs + 1)
    BY <1>6 DEF CallProvider
  <2>2. prs' = prs + 1 => prs' = 1
    BY StepPr DEF ProofInv, PrInv
  <2>3. UNCHANGED files /\ End(c) /\ c \in Calls
    BY <1>6 DEF CallProvider, Calls
  <2> QED  BY <1>0, <2>1, <2>2, <2>3 DEF End, files
<1>7. ASSUME NEW c \in Dispatches, ArriveLate(c) PROVE TruthInv'
  BY <1>0, <1>7 DEF ArriveLate, files, local
<1>8. CASE Rollback
  BY <1>0, <1>8 DEF Rollback, local, provider
<1> QED  BY <1>1, <1>2, <1>3, <1>4, <1>5, <1>6, <1>7, <1>8 DEF Next

\* Revisions grow until there is a rollback.
LEMMA BehindSelf == ASSUME NEW r, Good(r) PROVE Behind(r, r) /\ Behind(None, r)
  BY ProofAssumption DEF Good, Behind, Revision, Record

LEMMA BehindNext ==
    ASSUME NEW s, Good(s), NEW r, Good(r), NEW n, n \in Record, n.revision = Revision(r) + 1,
           Behind(s, r), r # None /\ r.revoked => n.revoked
    PROVE  Behind(s, n)
<1>1. n # None /\ Revision(n) = Revision(r) + 1
  BY ProofAssumption DEF Revision
<1>2. Revision(r) \in Nat /\ Revision(s) \in Nat
  BY DEF Good, Revision, Record
<1> QED  BY <1>1, <1>2 DEF Behind

LEMMA StepRevision == ProofInv /\ [Next]_vars => RevisionInv'
<1> SUFFICES ASSUME ProofInv, [Next]_vars, rollbacks' = 0
             PROVE  /\ told' => record' # None /\ record'.revoked
                    /\ \A c \in Calls : Behind(seen[c], record)'
  BY DEF RevisionInv
<1>0. /\ rollbacks \in Nat /\ Good(record) /\ seen \in [Calls -> Record \cup {None}]
      /\ \A c \in Calls : Good(seen[c])
  BY ProofAssumption DEF ProofInv, TypeInv, ProofTypeOK
<1>1. ~Rollback
  BY <1>0 DEF Rollback
<1>2. rollbacks = 0
  BY <1>1 DEF Next, Load, Check, Save, Abort, Reserve, WriteReservation, CallProvider,
              ArriveLate, files, vars
<1>3. (told => record # None /\ record.revoked) /\ \A c \in Calls : Behind(seen[c], record)
  BY <1>2 DEF ProofInv, RevisionInv
<1> DEFINE Goal == /\ told' => record' # None /\ record'.revoked
                   /\ \A c \in Calls : Behind(seen'[c], record')
<1>4. ASSUME record' = record, told' => told \/ (record # None /\ record.revoked),
             \A c \in Calls : seen'[c] \in {seen[c], None, record}
      PROVE  Goal
  BY <1>0, <1>3, <1>4, BehindSelf
<1>5. ASSUME NEW c \in Calls, Load(c) \/ Abort(c) PROVE Goal
  BY <1>0, <1>4, <1>5 DEF Load, Abort, End, files
<1>6. ASSUME NEW c \in Calls, Check(c) PROVE Goal
  <2>1. told' => told \/ (record # None /\ record.revoked)
    BY <1>3, <1>6 DEF Check, AlreadyRevoked, Behind
  <2> QED  BY <1>0, <1>4, <1>6, <2>1 DEF Check, Goto, End, files
<1>7. ASSUME NEW c \in Calls, Save(c) PROVE Goal
  <2>1. pc[c] = "saving" /\ (\A d \in Calls : seen'[d] \in {seen[d], None})
    BY <1>0, <1>7 DEF Save, Goto, End
  <2>2. CASE record' = record /\ told' = told
    BY <1>4, <2>1, <2>2
  <2>3. CASE ~(record' = record /\ told' = told)
    <3> DEFINE n == Replacement(c, seen[c])
    <3>1. Unmoved(seen[c]) /\ record' = n /\ (told' => told \/ c \in Revokes)
      BY <1>7, <2>3, SaveEffect
    <3>2. seen[c] = record
      BY <1>3, <3>1 DEF Unmoved, Behind
    <3>3. /\ n \in Record /\ Good(n) /\ n # None /\ n.revision = Revision(record) + 1
          /\ (record # None /\ record.revoked => n.revoked) /\ (c \in Revokes => n.revoked)
      BY <2>1, <3>2, ReplacementIsGood
    <3> HIDE DEF n
    <3>4. told' => n.revoked
      BY <1>3, <3>1, <3>3
    <3>5. ASSUME NEW d \in Calls PROVE Behind(seen'[d], n)
      BY <1>0, <1>3, <2>1, <3>3, BehindSelf, BehindNext
    <3> QED  BY <3>1, <3>3, <3>4, <3>5
  <2> QED  BY <2>2, <2>3
<1>8. ASSUME NEW c \in Dispatches, Reserve(c) \/ WriteReservation(c) \/ CallProvider(c) \/ ArriveLate(c)
      PROVE  Goal
  <2>1. record' = record /\ told' = told
    BY <1>8 DEF Reserve, WriteReservation, CallProvider, ArriveLate, files
  <2>2. \A d \in Calls : seen'[d] \in {seen[d], None}
    BY <1>0, <1>8 DEF Reserve, WriteReservation, CallProvider, ArriveLate, Goto, End, local
  <2> QED  BY <1>4, <2>1, <2>2
<1>9. CASE UNCHANGED vars
  BY <1>4, <1>9 DEF vars, files, local
<1> QED  BY <1>1, <1>5, <1>6, <1>7, <1>8, <1>9 DEF Next

-----------------------------------------------------------------------------
\* The invariant holds of every reachable state.
THEOREM ProofInvariant == Spec => []ProofInv
<1>1. ProofInv /\ [Next]_vars => ProofInv'
  BY StepType, StepCall, StepMarker, StepPr, StepTruth, StepRevision DEF ProofInv
<1> QED  BY InitProof, <1>1, PTL DEF Spec

\* Type correctness of github-draft-pr-e2e.js: what is on file is a record that
\* validateProofRecord accepts, with a tool call exactly when the approval is used up.
THEOREM ProofTypeCorrect == Spec => []ProofTypeOK
<1>1. ProofInv => ProofTypeOK
  BY DEF ProofInv, TypeInv
<1> QED  BY ProofInvariant, <1>1, PTL

\* beforeToolCall allows one call at most, even when the record is set back.
THEOREM ProofDispatchesOnce == Spec => []AtMostOneDispatch
<1>1. ProofInv => AtMostOneDispatch
  <2> SUFFICES ASSUME ProofInv PROVE AtMostOneDispatch  OBVIOUS
  <2>1. \A c \in allowed : c \in Calls /\ Holds(c)
    BY DEF ProofInv, TypeInv, ProofTypeOK, Holds, Calls
  <2>2. prs <= 1
    BY DEF ProofInv, PrInv
  <2> QED  BY <2>1, <2>2 DEF AtMostOneDispatch, ProofInv, MarkerInv
<1> QED  BY ProofInvariant, <1>1, PTL

\* A record that says committed has its pull request.
THEOREM ProofCommittedIsTrue == Spec => []CommittedIsTrue
<1>1. ProofInv => CommittedIsTrue
  BY DEF ProofInv, TruthInv, Committed, CommittedIsTrue
<1> QED  BY ProofInvariant, <1>1, PTL

\* A call that saves the record without a rollback saves in the place of what it saw.
LEMMA SavesWhatItSaw ==
    ASSUME ProofInv, NEW c \in Calls, Save(c), rollbacks' = 0, Unmoved(seen[c])
    PROVE  seen[c] = record
  BY DEF Save, ProofInv, RevisionInv, Behind, Unmoved

\* compareAndSet lets the record move forward only.
THEOREM ProofMovesForward == Spec => RecordMovesForward
<1>1. ProofInv /\ [Next]_vars => (rollbacks' = 0 /\ record' # record => Follows(record, record'))
  <2> SUFFICES ASSUME ProofInv, [Next]_vars, rollbacks' = 0, record' # record
               PROVE  Follows(record, record')
    OBVIOUS
  <2>1. ~Rollback
    BY ProofAssumption DEF Rollback, ProofInv, TypeInv, ProofTypeOK
  <2>2. PICK c \in Calls : Save(c)
    BY <2>1 DEF Next, Load, Check, Abort, Reserve, WriteReservation, CallProvider,
                ArriveLate, files, vars
  <2>3. Unmoved(seen[c]) /\ record' = Replacement(c, seen[c]) /\ pc[c] = "saving"
    BY <2>2 DEF Save
  <2> QED  BY <2>2, <2>3, SavesWhatItSaw, ReplacementIsGood
<1>2. ProofInv /\ [Next]_vars => [rollbacks' = 0 /\ record' # record => Follows(record, record')]_vars
  BY <1>1
<1> QED  BY ProofInvariant, <1>2, PTL DEF RecordMovesForward, Spec

\* Nothing is allowed once the Owner was told of the revocation.
THEOREM ProofRevocationHolds == Spec => RevocationHolds
<1>1. ProofInv /\ [Next]_vars => (rollbacks' = 0 /\ told => allowed' = allowed)
  <2> SUFFICES ASSUME ProofInv, [Next]_vars, rollbacks' = 0, told, allowed' # allowed PROVE FALSE
    OBVIOUS
  <2>1. PICK c \in Calls : Save(c)
    BY DEF Next, Load, Check, Abort, Reserve, WriteReservation, CallProvider,
           ArriveLate, Rollback, vars
  <2>2. Unmoved(seen[c]) /\ c \in Dispatches /\ pc[c] = "saving" /\ rollbacks = 0
    BY <2>1 DEF Save
  <2>3. record # None /\ record.revoked
    BY <2>2 DEF ProofInv, RevisionInv
  <2>4. seen[c] = record /\ Permits(c, seen[c])
    BY <2>1, <2>2, SavesWhatItSaw DEF ProofInv, CallInv
  <2> QED  BY <2>2, <2>3, <2>4, OneMethod DEF Permits
<1>2. ProofInv /\ [Next]_vars => [rollbacks' = 0 /\ told => allowed' = allowed]_vars
  BY <1>1
<1> QED  BY ProofInvariant, <1>2, PTL DEF RevocationHolds, Spec

\* A reservation that is left behind stays so.
THEOREM ProofOrphanFailsClosed == Spec => OrphanFailsClosed
<1>1. ProofInv /\ [Next]_vars => [Orphaned => Orphaned' /\ prs' = prs]_vars
  <2> SUFFICES ASSUME ProofInv, Next, Orphaned PROVE Orphaned' /\ prs' = prs
    BY DEF Orphaned, vars, provider
  <2> USE DEF Orphaned
  <2>0. /\ pc \in [Calls -> Labels] /\ Dispatches \subseteq Calls /\ late = {}
        /\ None \notin ToolCalls /\ None # "torn" /\ tool \in [Hooks -> ToolCalls]
        /\ \A c \in Dispatches : pc[c] # "allowed"
    BY ProofAssumption DEF ProofInv, TypeInv, ProofTypeOK, MarkerInv, Calls
  <2>1. ASSUME NEW c \in Calls, Load(c) \/ Abort(c) PROVE Orphaned' /\ prs' = prs
    BY <2>0, <2>1 DEF Load, Abort, End, files, provider
  <2>2. ASSUME NEW c \in Calls, Check(c) PROVE Orphaned' /\ prs' = prs
    BY <2>0, <2>2 DEF Check, Goto, End, files, provider
  <2>3. ASSUME NEW c \in Calls, Save(c) PROVE Orphaned' /\ prs' = prs
    BY <2>0, <2>3 DEF Save, Goto, End, provider
  <2>4. ASSUME NEW c \in Dispatches, Reserve(c) PROVE Orphaned' /\ prs' = prs
    BY <2>0, <2>4 DEF Reserve, MayReserve, End, provider
  <2>5. ASSUME NEW c \in Dispatches, WriteReservation(c) \/ CallProvider(c) \/ ArriveLate(c)
        PROVE  FALSE
    BY <2>0, <2>5 DEF WriteReservation, CallProvider, ArriveLate
  <2>6. CASE Rollback
    BY <2>6 DEF Rollback, provider
  <2> QED  BY <2>1, <2>2, <2>3, <2>4, <2>5, <2>6 DEF Next
<1> QED  BY ProofInvariant, <1>1, PTL DEF OrphanFailsClosed, Spec

-----------------------------------------------------------------------------
(* The controller is a gate before the pull request.                       *)

\* The approval is open in the first revision and in no other, in every copy of the
\* record, also in those that will be put back.
ArmedIsFirst(r) == r # None => (r.state = "armed" <=> r.revision = 1)

ArmedInv ==
    /\ ArmedIsFirst(record)
    /\ \A r \in older : ArmedIsFirst(r)
    /\ \A c \in Calls : ArmedIsFirst(seen[c])

LEMMA ReplacementIsFirst ==
    ASSUME ProofInv, NEW c \in Calls, pc[c] = "saving" PROVE ArmedIsFirst(Replacement(c, seen[c]))
<1> DEFINE r == Replacement(c, seen[c])
<1>1. /\ r \in Record /\ r # None /\ r.revision = Revision(seen[c]) + 1 /\ Follows(seen[c], r)
      /\ Good(seen[c])
  BY ReplacementIsGood DEF ProofInv, TypeInv
<1>2. CASE seen[c] = None
  BY <1>1, <1>2 DEF Follows, Initial, ArmedIsFirst
<1>3. CASE seen[c] # None
  <2>1. seen[c] \in Record /\ seen[c].revision \in Nat \ {0} /\ seen[c].revision = Revision(seen[c])
    BY <1>1, <1>3 DEF Good, Record, Revision
  <2>2. r.revision # 1
    BY <1>1, <2>1
  <2>3. r.state # "armed"
    <3>1. CASE c \in Revokes
      <4>1. r = Successor(seen[c], RevokedState(seen[c].state), seen[c].tool, TRUE)
        BY <3>1, OneMethod DEF Replacement
      <4> QED  BY <4>1 DEF Successor, RevokedState
    <3>2. CASE c \in Dispatches
      <4>1. r = Successor(seen[c], "dispatching", tool[c], seen[c].revoked)
        BY <3>2, OneMethod DEF Replacement
      <4> QED  BY <4>1 DEF Successor
    <3>3. CASE c \in Afters \cup Reconciles
      <4>1. r = Successor(seen[c], outcome[c], seen[c].tool, seen[c].revoked)
        BY <3>3, OneMethod DEF Replacement
      <4>2. outcome[c] # "armed"
        BY DEF ProofInv, TypeInv, ProofTypeOK, Outcomes
      <4> QED  BY <4>1, <4>2 DEF Successor
    <3>4. CASE c \in Arms
      BY <1>3, <3>4, OneMethod DEF ProofInv, CallInv, Permits
    <3> QED  BY <3>1, <3>2, <3>3, <3>4 DEF Calls
  <2> QED  BY <2>2, <2>3 DEF ArmedIsFirst
<1> QED  BY <1>2, <1>3

LEMMA StepArmed == ProofInv /\ ArmedInv /\ [Next]_vars => ArmedInv'
<1> SUFFICES ASSUME ProofInv, ArmedInv, [Next]_vars PROVE ArmedInv'  OBVIOUS
<1> DEFINE A(r) == ArmedIsFirst(r)
<1>0. A(None) /\ A(record) /\ (\A r \in older : A(r)) /\ (\A c \in Calls : A(seen[c]))
      /\ seen \in [Calls -> Record \cup {None}]
  BY DEF ArmedInv, ArmedIsFirst, ProofInv, TypeInv, ProofTypeOK
<1> SUFFICES A(record') /\ (\A r \in older' : A(r)) /\ (\A c \in Calls : A(seen'[c]))
  BY DEF ArmedInv
<1>1. ASSUME NEW c \in Calls, Save(c), record' # record
      PROVE  A(record') /\ older' = older \cup {record}
  <2>1. record' = Replacement(c, seen[c]) /\ pc[c] = "saving" /\ older' = older \cup {record}
    BY <1>1 DEF Save
  <2> QED  BY <2>1, ReplacementIsFirst
<1> HIDE DEF A
<1>2. ASSUME NEW c \in Calls, Save(c)
      PROVE  A(record') /\ (\A r \in older' : A(r)) /\ (\A d \in Calls : A(seen'[d]))
  <2>1. older' = older \/ older' = older \cup {record}
    BY <1>2 DEF Save
  <2>2. \A d \in Calls : seen'[d] = seen[d] \/ seen'[d] = None
    BY <1>0, <1>2 DEF Save, Goto, End
  <2> QED  BY <1>0, <1>1, <1>2, <2>1, <2>2
<1>3. ASSUME record' = record, older' = older,
             \A d \in Calls : seen'[d] \in {seen[d], None, record}
      PROVE  A(record') /\ (\A r \in older' : A(r)) /\ (\A d \in Calls : A(seen'[d]))
  BY <1>0, <1>3
<1>4. ASSUME NEW c \in Calls, Load(c) \/ Check(c) \/ Abort(c)
      PROVE  A(record') /\ (\A r \in older' : A(r)) /\ (\A d \in Calls : A(seen'[d]))
  BY <1>0, <1>3, <1>4 DEF Load, Check, Abort, Goto, End, files
<1>5. ASSUME NEW c \in Dispatches,
             Reserve(c) \/ WriteReservation(c) \/ CallProvider(c) \/ ArriveLate(c)
      PROVE  A(record') /\ (\A r \in older' : A(r)) /\ (\A d \in Calls : A(seen'[d]))
  BY <1>0, <1>3, <1>5 DEF Reserve, WriteReservation, CallProvider, ArriveLate, Goto, End, files, local
<1>6. CASE Rollback
  BY <1>0, <1>6 DEF Rollback, local
<1>7. CASE UNCHANGED vars
  BY <1>0, <1>3, <1>7 DEF vars, files, local
<1> QED  BY <1>2, <1>4, <1>5, <1>6, <1>7 DEF Next

\* The approval is open in the first revision only, in every copy of the record.
LEMMA ArmedInvariant == Spec => [](ProofInv /\ ArmedInv)
<1>1. Init => ArmedInv
  BY DEF Init, ArmedInv, ArmedIsFirst
<1> QED  BY <1>1, StepArmed, ProofInvariant, PTL DEF Spec

\* The moves that let nothing through.
Legal(a, b) ==
    \/ a = b
    \/ a = "absent" /\ b = "waiting"
    \/ a = "waiting" /\ b = "uncertain"
    \/ a = "uncertain" /\ b = "done" /\ prs = 1
    \/ a # "absent" /\ b = "closed"

LEMMA PhaseIsPhase == ASSUME NEW r, Good(r) PROVE Phase(r) \in Guard!Phases
  BY DEF Phase, Guard!Phases, Good, Record, States

LEMMA GateTogether ==
    ASSUME TypeInv', NEW p \in Proofs, rollbacks' \in {rollbacks, rollbacks + 1},
           Guard!Step(p) \/ (rollbacks' > 0 /\ Guard!Mistake(p))
    PROVE  Guard!AbstractNext
<1>1. phaseOf' \in [Proofs -> Guard!Phases]
  BY PhaseIsPhase DEF TypeInv, phaseOf
<1>2. \A q \in Proofs : q = p
  BY DEF Proofs
<1> QED  BY <1>1, <1>2 DEF Guard!AbstractNext

LEMMA GateQuiet ==
    ASSUME TypeInv', UNCHANGED <<allowed, prs, rollbacks>>, Legal(Phase(record), Phase(record'))
    PROVE  Guard!AbstractNext
<1> DEFINE p == "proof"
<1>0. p \in Proofs  BY DEF Proofs
<1>1. /\ phaseOf[p] = Phase(record) /\ phaseOf'[p] = Phase(record')
      /\ allowedFor'[p] = allowedFor[p] /\ prsFor'[p] = prsFor[p] /\ prsFor[p] = prs
  BY <1>0 DEF phaseOf, allowedFor, prsFor
<1>2. Guard!Step(p)
  BY <1>1 DEF Legal, Guard!Step, Guard!Register, Guard!Rest, Guard!Doubt, Guard!Settle, Guard!Close,
              Guard!Move, Guard!Kept
<1> QED  BY <1>0, <1>2, GateTogether

\* What the record says after it was set back, or was replaced after it was.
LEMMA GateMistaken ==
    ASSUME TypeInv', UNCHANGED <<allowed, prs>>, Committed(record') => prs = 1,
           rollbacks' \in {rollbacks, rollbacks + 1}, rollbacks' > 0
    PROVE  Guard!AbstractNext
<1> DEFINE p == "proof"
<1>0. p \in Proofs  BY DEF Proofs
<1>1. /\ phaseOf'[p] = Phase(record')
      /\ allowedFor'[p] = allowedFor[p] /\ prsFor'[p] = prsFor[p] /\ prsFor[p] = prs
  BY <1>0 DEF phaseOf, allowedFor, prsFor
<1>2. Phase(record') \in Guard!Phases /\ (Phase(record') = "done" => Committed(record'))
  BY PhaseIsPhase DEF TypeInv, Phase, Good, Record, States, Committed
<1>3. Guard!Mistake(p)
  BY <1>1, <1>2 DEF Guard!Mistake, Guard!Kept
<1> QED  BY <1>0, <1>3, GateTogether

\* A record that follows another, without a rollback.
LEMMA FollowingIsLegal ==
    ASSUME NEW r, Good(r), NEW s, s \in Record, Follows(r, s), Committed(s) => prs = 1
    PROVE  Legal(Phase(r), Phase(s))
<1>0. s # None
  BY ProofAssumption
<1>1. CASE r = None
  BY <1>0, <1>1 DEF Follows, Initial, Phase, Legal
<1>2. CASE r # None
  <2>1. /\ <<r.state, s.state>> \in Successors \/ s.state = r.state
        /\ r.state \in States /\ s.state \in States
    BY <1>2 DEF Follows, Good, Record
  <2>2. CASE s.state = r.state
    <3>1. Phase(s) = Phase(r)
      BY <1>0, <1>2, <2>1, <2>2 DEF Phase, States
    <3> QED  BY <3>1 DEF Legal
  <2>3. CASE r.state = "armed" /\ s.state \in {"dispatching", "revoked"}
    <3>1. Phase(r) = "waiting" /\ Phase(s) \in {"uncertain", "closed"}
      BY <1>0, <1>2, <2>3 DEF Phase
    <3> QED  BY <3>1 DEF Legal
  <2>4. CASE r.state \in {"dispatching", "unknown"} /\ s.state \in {"committed", "unknown", "no_effect"}
    <3>1. /\ Phase(r) = "uncertain" /\ Phase(s) \in {"uncertain", "closed", "done"}
          /\ Phase(s) = "done" => Committed(s)
      BY <1>0, <1>2, <2>4 DEF Phase, Committed
    <3> QED  BY <3>1 DEF Legal
  <2> QED  BY <2>1, <2>2, <2>3, <2>4 DEF Successors
<1> QED  BY <1>1, <1>2

LEMMA GateSave ==
    ASSUME ProofInv, ArmedInv, ProofInv', NEW c \in Calls, Save(c) PROVE Guard!AbstractNext
<1>0. /\ pc[c] = "saving" /\ UNCHANGED <<rollbacks, prs>> /\ TypeInv' /\ Good(record)
      /\ rollbacks \in Nat
  BY ProofAssumption DEF Save, provider, ProofInv, TypeInv, ProofTypeOK
<1>1. CASE record' = record /\ allowed' = allowed
  BY <1>0, <1>1, GateQuiet DEF Legal
<1>2. CASE Unmoved(seen[c]) /\ record' = Replacement(c, seen[c]) /\ allowed' = allowed
  <2>1. record' \in Record /\ Follows(seen[c], record') /\ (Committed(record') => prs = 1)
    BY <1>0, <1>2, ReplacementIsGood
  <2>2. CASE rollbacks = 0
    <3>1. seen[c] = record
      BY <1>0, <1>2, <2>2, SavesWhatItSaw
    <3> QED  BY <1>0, <1>2, <2>1, <3>1, FollowingIsLegal, GateQuiet
  <2>3. CASE rollbacks # 0
    BY <1>0, <1>2, <2>1, <2>3, GateMistaken
  <2> QED  BY <2>2, <2>3
<1>3. CASE /\ Unmoved(seen[c]) /\ record' = Replacement(c, seen[c])
           /\ c \in Dispatches /\ allowed' = allowed \cup {c}
  <2> DEFINE p == "proof"
  <2>1. seen[c] # None /\ seen[c].state = "armed" /\ Good(seen[c])
    BY <1>0, <1>3, OneMethod DEF ProofInv, TypeInv, CallInv, Permits
  <2>2. record # None /\ record.state = "armed"
    <3>1. Revision(record) = 1
      BY <1>3, <2>1 DEF Unmoved, Revision, ArmedInv, ArmedIsFirst
    <3> QED  BY <3>1 DEF Revision, ArmedInv, ArmedIsFirst
  <2>3. record' # None /\ record'.state = "dispatching"
    <3>1. record' = Successor(seen[c], "dispatching", tool[c], seen[c].revoked)
      BY <1>3, OneMethod DEF Replacement
    <3>2. record' # None
      BY <1>0, <1>3, ReplacementIsGood
    <3> QED  BY <3>1, <3>2 DEF Successor
  <2>4. allowed = {}
    BY <1>0, <1>3 DEF ProofInv, TypeInv, ProofTypeOK, MarkerInv, Holds, Calls
  <2>5. p \in Proofs
    BY DEF Proofs
  <2>6. Phase(record) = "waiting" /\ Phase(record') = "uncertain"
    BY <2>2, <2>3 DEF Phase
  <2>7. /\ phaseOf[p] = "waiting" /\ phaseOf'[p] = "uncertain"
        /\ allowedFor[p] = {} /\ allowedFor'[p] = {c} /\ prsFor'[p] = prsFor[p]
    BY <1>0, <1>3, <2>4, <2>5, <2>6 DEF phaseOf, allowedFor, prsFor
  <2>8. Guard!Step(p)
    BY <1>3, <2>7 DEF Guard!Step, Guard!Pass, Guard!Move
  <2> QED  BY <1>0, <2>5, <2>8, GateTogether
<1>4. \/ record' = record /\ allowed' = allowed
      \/ Unmoved(seen[c]) /\ record' = Replacement(c, seen[c]) /\ allowed' = allowed
      \/ /\ Unmoved(seen[c]) /\ record' = Replacement(c, seen[c])
         /\ c \in Dispatches /\ allowed' = allowed \cup {c}
  BY DEF Save
<1> QED  BY <1>1, <1>2, <1>3, <1>4

\* The pull request of the call that was allowed, at once or late.
LEMMA GatePr ==
    ASSUME ProofInv, ProofInv', UNCHANGED <<record, allowed, rollbacks>>, prs' = prs + 1
    PROVE  Guard!AbstractNext
<1> DEFINE p == "proof"
<1>0. p \in Proofs  BY DEF Proofs
<1>1. prs = 0 /\ prs' = 1 /\ allowed # {} /\ TypeInv'
  BY DEF ProofInv, PrInv
<1>2. /\ phaseOf'[p] = phaseOf[p] /\ allowedFor'[p] = allowedFor[p] /\ allowedFor[p] # {}
      /\ prsFor[p] = 0 /\ prsFor'[p] = 1
  BY <1>0, <1>1 DEF phaseOf, allowedFor, prsFor
<1>3. Guard!Step(p)
  BY <1>2 DEF Guard!Step, Guard!Happen
<1> QED  BY <1>0, <1>1, <1>3, GateTogether

LEMMA NextGate == ASSUME ProofInv, ArmedInv, ProofInv', [Next]_vars PROVE Guard!AbstractNext
<1>0. TypeInv' /\ Legal(Phase(record), Phase(record))
  BY DEF ProofInv, Legal
<1>1. ASSUME UNCHANGED <<record, allowed, prs, rollbacks>> PROVE Guard!AbstractNext
  BY <1>0, <1>1, GateQuiet
<1>2. ASSUME NEW c \in Calls, Load(c) \/ Check(c) \/ Abort(c) PROVE Guard!AbstractNext
  BY <1>1, <1>2 DEF Load, Check, Abort, files, provider
<1>3. ASSUME NEW c \in Dispatches, Reserve(c) \/ WriteReservation(c) PROVE Guard!AbstractNext
  BY <1>1, <1>3 DEF Reserve, WriteReservation, provider
<1>4. ASSUME NEW c \in Dispatches, CallProvider(c) \/ ArriveLate(c) PROVE Guard!AbstractNext
  <2>1. UNCHANGED <<record, allowed, rollbacks>> /\ (prs' = prs \/ prs' = prs + 1)
    BY <1>4 DEF CallProvider, ArriveLate, files
  <2> QED  BY <1>1, <2>1, GatePr
<1>5. CASE Rollback
  <2>1. /\ UNCHANGED <<allowed, prs>> /\ rollbacks' = rollbacks + 1 /\ rollbacks \in Nat
        /\ (Committed(record') => prs = 1)
    BY <1>5, ProofAssumption DEF Rollback, provider, ProofInv, TypeInv, ProofTypeOK, TruthInv
  <2> QED  BY <1>0, <2>1, GateMistaken
<1>6. CASE UNCHANGED vars
  BY <1>1, <1>6 DEF vars, files, provider
<1> QED  BY <1>2, <1>3, <1>4, <1>5, <1>6, GateSave DEF Next

\* github-draft-pr-e2e.js implements the gate: one dispatch in the life of the proof and
\* only from an armed record, one pull request at most, and committed said only when it
\* is there, whatever is replayed, lost or set back.
THEOREM ProofGuardsItsPr == Spec => GuardsItsPr
<1>1. Init => Guard!AbstractInit
  BY DEF Init, Guard!AbstractInit, phaseOf, allowedFor, prsFor, Phase
<1>2. ProofInv /\ ArmedInv /\ ProofInv' /\ [Next]_vars
        => [Guard!AbstractNext]_<<phaseOf, allowedFor, prsFor, rollbacks>>
  BY NextGate
<1> QED  BY <1>1, <1>2, ArmedInvariant, PTL
         DEF Spec, GuardsItsPr, Guard!AbstractSpec, Guard!abstractVars

-----------------------------------------------------------------------------
(* GovernedDispatch.                                                       *)

\* A binding that was made ready after its policy began, whatever has changed since.
BoundInTime(b) ==
    /\ Ready(b.bundle, b.snapshot)
    /\ NotBefore[b.bundle] <= b.at /\ b.at <= clock

\* A bundle was looked at when it was accepted, so that all up to the last accepted
\* one had begun then, also one that a late sync makes current again.
AcceptedHaveBegun ==
    /\ \A b \in Policies : b <= reached => NotBefore[b] <= clock
    /\ current # Absent => current <= reached

HeldIsReady == held # Absent => BoundInTime(held)

\* The plan copies a ready binding and does not change.
PlanSound ==
    plan # Absent =>
        /\ BoundInTime(plan.binding)
        /\ PinsAgree(plan.binding.bundle)
        /\ plan.life.from <= clock

DispatchSound ==
    dispatch # Absent =>
        /\ plan # Absent
        /\ plan.binding.at <= dispatch.at
        /\ plan.life.from <= dispatch.at
        /\ ValidPlan(plan, dispatch.at)
        /\ SameContext(dispatch.snapshot, plan)

GovernedInv ==
    /\ GovernedTypeOK
    /\ armed => plan # Absent
    /\ AcceptedHaveBegun
    /\ HeldIsReady
    /\ PlanSound
    /\ DispatchSound

\* The sequence of a bundle is a positive number.
LEMMA SequencesArePositive ==
    /\ \A b \in Policies : b \in Nat /\ b > 0
    /\ 0 \notin Policies
<1>1. Policies \subseteq Nat \ {0}
  BY GovernedAssumption
<1>2. \A b \in Policies : b \in Nat /\ b # 0
  BY <1>1
<1> QED
  BY <1>2

LEMMA InitGoverned == GovernedInit => GovernedInv
<1>1. 0 \in Times
  BY GovernedAssumption DEF Times
<1>2. GovernedInit => GovernedTypeOK
  BY <1>1 DEF GovernedInit, GovernedTypeOK
<1> QED
  BY <1>2, GovernedAssumption
  DEF GovernedInit, GovernedInv, AcceptedHaveBegun, HeldIsReady, PlanSound, DispatchSound

\* A ready binding governs every tool: one without a profile would count as
\* unclassified if it might write.
LEMMA ReadyGoverns ==
    ASSUME NEW b \in Policies, NEW s \in Snapshots, Ready(b, s), NEW t \in Tools,
           s.catalog[t] # Absent
    PROVE  Governed(t, s.catalog[t], b)
<1>1. CASE HasProfile(t, Registry[b])
  BY <1>1 DEF Ready, ProfileMet, Covered, Governed
<1>2. CASE ~HasProfile(t, Registry[b])
  <2>1. Version[s.registry] = Version[Registry[b]] /\ ~Unclassified(t, s.catalog[t], s.registry)
    BY DEF Ready, SameVersions
  <2>2. s.registry \in Registries /\ Registry[b] \in Registries
    BY GovernedAssumption DEF Snapshots
  <2>3. Expected[s.registry] = Expected[Registry[b]]
    BY <2>1, <2>2, VersionAssumption
  <2> QED
    BY <1>2, <2>1, <2>3 DEF HasProfile, Unclassified, Covered, MayHaveEffect, Governed
<1> QED
  BY <1>1, <1>2

LEMMA GovernedTypeStep ==
    ASSUME GovernedTypeOK, [GovernedNext]_governedVars
    PROVE  GovernedTypeOK'
<1> USE GovernedAssumption DEF GovernedTypeOK
<1>1. CASE Tick
  BY <1>1 DEF Tick, policy, Times
<1>2. CASE HostChanges
  BY <1>2 DEF HostChanges, policy
<1>3. ASSUME NEW r \in Registries, Refresh(r) PROVE GovernedTypeOK'
  <2>1. inventory' \in Snapshots
    BY <1>3 DEF Refresh, Snapshots
  <2> QED
    BY <1>3, <2>1 DEF Refresh, policy
<1>4. ASSUME NEW b \in Policies, Sync(b) \/ SyncElsewhere(b) \/ SyncLate(b)
      PROVE  GovernedTypeOK'
  BY <1>4 DEF Sync, SyncElsewhere, SyncLate
<1>5. CASE ClearPolicy
  BY <1>5 DEF ClearPolicy
<1>6. CASE Bind
  <2>1. held' \in Bindings
    BY <1>6 DEF Bind, Bindings
  <2> QED
    BY <1>6, <2>1 DEF Bind, policy
<1>7. ASSUME NEW approval \in Windows, NEW life \in Windows, CreatePlan(approval, life)
      PROVE  GovernedTypeOK'
  <2>1. plan' \in Plans
    BY <1>7 DEF CreatePlan, Plans
  <2> QED
    BY <1>7, <2>1 DEF CreatePlan, policy
<1>8. CASE Arm
  BY <1>8 DEF Arm, policy
<1>9. CASE BeforeToolCall
  BY <1>9 DEF BeforeToolCall, policy
<1>10. CASE UNCHANGED governedVars
  BY <1>10 DEF governedVars, policy
<1> QED
  BY <1>1, <1>2, <1>3, <1>4, <1>5, <1>6, <1>7, <1>8, <1>9, <1>10 DEF GovernedNext

\* Each part is disturbed by the one action that makes it true.
LEMMA GovernedStep ==
    ASSUME GovernedInv, [GovernedNext]_governedVars
    PROVE  GovernedInv'
<1>1. GovernedTypeOK'
  BY GovernedTypeStep DEF GovernedInv
<1>2. (armed => plan # Absent)'
  <2>1. CASE Arm
    BY <2>1 DEF Arm
  <2>2. CASE \E approval, life \in Windows : CreatePlan(approval, life)
    BY <2>2, <1>1 DEF CreatePlan, GovernedInv
  <2>3. CASE ~Arm /\ UNCHANGED plan
    BY <2>3 DEF GovernedInv, GovernedNext, governedVars, policy, Tick, HostChanges, Refresh,
                Sync, SyncElsewhere, SyncLate, ClearPolicy, Bind, CreatePlan, BeforeToolCall
  <2> QED
    BY <2>1, <2>2, <2>3 DEF GovernedNext, governedVars, policy, Tick, HostChanges, Refresh,
                Sync, SyncElsewhere, SyncLate, ClearPolicy, Bind, BeforeToolCall
<1>3. /\ clock' >= clock /\ clock \in Nat /\ clock' \in Nat
      /\ \A b \in Policies : NotBefore[b] \in Nat
  BY <1>1, GovernedAssumption
  DEF GovernedInv, GovernedTypeOK, Times, GovernedNext, governedVars, policy, Tick,
      HostChanges, Refresh, Sync, SyncElsewhere, SyncLate, ClearPolicy, Bind, CreatePlan, Arm,
      BeforeToolCall
<1>4. AcceptedHaveBegun'
  <2>0. /\ AcceptedHaveBegun /\ reached \in Nat
        /\ \A b \in Policies : b \in Nat /\ NotBefore[b] \in Nat
    BY <1>3, SequencesArePositive DEF GovernedInv, GovernedTypeOK
  <2>1. ASSUME NEW b \in Policies, Sync(b) \/ SyncElsewhere(b) PROVE AcceptedHaveBegun'
    <3>1. CASE InForce(b, clock) /\ reached' = b /\ b <= reached + 1 /\ b >= reached
      <4>1. clock' = clock /\ current' \in {current, b}
        BY <2>1, <3>1 DEF Sync, SyncElsewhere
      <4>2. \A a \in Policies : a <= b => a = b \/ a <= reached
        BY <2>0, <3>1
      <4>3. \A a \in Policies : a <= reached' => NotBefore[a] <= clock'
        BY <2>0, <3>1, <4>1, <4>2 DEF AcceptedHaveBegun, InForce
      <4>4. current # Absent => current \in Nat
        BY <2>0 DEF GovernedInv, GovernedTypeOK
      <4> QED  BY <2>0, <3>1, <4>1, <4>3, <4>4 DEF AcceptedHaveBegun
    <3>2. CASE current' = Absent /\ UNCHANGED <<reached, clock>>
      BY <2>0, <3>2 DEF AcceptedHaveBegun
    <3> QED  BY <2>0, <2>1, <3>1, <3>2 DEF Sync, SyncElsewhere
  <2>2. ASSUME NEW b \in Policies, SyncLate(b) PROVE AcceptedHaveBegun'
    BY <2>0, <2>2 DEF SyncLate, AcceptedHaveBegun
  <2>3. CASE ClearPolicy
    BY <2>0, <2>3 DEF ClearPolicy, AcceptedHaveBegun
  <2>4. CASE UNCHANGED policy
    BY <2>0, <2>4, <1>3 DEF policy, AcceptedHaveBegun
  <2> QED
    BY <2>1, <2>2, <2>3, <2>4 DEF GovernedNext, governedVars, Tick, HostChanges, Refresh,
                Bind, CreatePlan, Arm, BeforeToolCall
<1>5. ASSUME NEW b \in Bindings, BoundInTime(b) PROVE BoundInTime(b)'
  <2>1. b.bundle \in Policies /\ b.at \in Nat
    BY <1>5, GovernedAssumption DEF Bindings, Times
  <2> QED
    BY <1>3, <1>5, <2>1 DEF BoundInTime, Ready, ProfileMet
<1>6. HeldIsReady'
  <2>1. CASE Bind
    <3>1. /\ held' = [bundle |-> current, snapshot |-> inventory, at |-> clock]
          /\ Ready(current, inventory) /\ current # Absent /\ clock' = clock
      BY <2>1 DEF Bind
    <3>2. NotBefore[current] <= clock
      BY <3>1, GovernedAssumption DEF GovernedInv, GovernedTypeOK, AcceptedHaveBegun
    <3> QED
      BY <3>1, <3>2, <1>3 DEF HeldIsReady, BoundInTime, Ready, ProfileMet
  <2>2. CASE UNCHANGED held
    BY <2>2, <1>5 DEF GovernedInv, GovernedTypeOK, HeldIsReady, BoundInTime, Ready, ProfileMet
  <2> QED
    BY <2>1, <2>2 DEF GovernedNext, governedVars, policy, Tick, HostChanges, Refresh,
                Sync, SyncElsewhere, SyncLate, ClearPolicy, CreatePlan, Arm, BeforeToolCall
<1>7. PlanSound'
  <2>1. ASSUME NEW approval \in Windows, NEW life \in Windows, CreatePlan(approval, life)
        PROVE  PlanSound'
    <3>1. /\ plan'.binding = held /\ plan'.life = life
          /\ held # Absent /\ PinsAgree(held.bundle) /\ life.from <= clock /\ clock' = clock
      BY <2>1 DEF CreatePlan
    <3>2. BoundInTime(held)
      BY <3>1 DEF GovernedInv, HeldIsReady
    <3> QED
      BY <3>1, <3>2 DEF PlanSound, BoundInTime, PinsAgree, Ready, ProfileMet
  <2>2. CASE UNCHANGED plan
    <3>1. plan # Absent => plan.life.from \in Nat /\ plan.binding \in Bindings
      BY GovernedAssumption DEF GovernedInv, GovernedTypeOK, Plans, Windows, Times
    <3>2. plan # Absent =>
             /\ Ready(plan.binding.bundle, plan.binding.snapshot)
             /\ PinsAgree(plan.binding.bundle)
             /\ NotBefore[plan.binding.bundle] <= plan.binding.at
             /\ plan.binding.at <= clock /\ plan.life.from <= clock
      BY DEF GovernedInv, PlanSound, BoundInTime
    <3>3. plan # Absent => plan.binding.at \in Nat
      BY <3>1, GovernedAssumption DEF Bindings, Times
    <3>4. plan # Absent => plan.binding.at <= clock' /\ plan.life.from <= clock'
      BY <1>3, <3>1, <3>2, <3>3
    <3> QED
      BY <2>2, <3>2, <3>4 DEF PlanSound, PinsAgree, BoundInTime, Ready, ProfileMet
  <2> QED
    BY <2>1, <2>2 DEF GovernedNext, governedVars, policy, Tick, HostChanges, Refresh,
                Sync, SyncElsewhere, SyncLate, ClearPolicy, Bind, Arm, BeforeToolCall
<1>8. DispatchSound'
  <2>1. CASE BeforeToolCall
    <3>1. /\ dispatch'.at = clock /\ dispatch'.snapshot = inventory
          /\ ValidPlan(plan, clock) /\ SameContext(inventory, plan)
          /\ armed /\ UNCHANGED plan
      BY <2>1 DEF BeforeToolCall
    <3>2. plan # Absent /\ plan.binding.at <= clock /\ plan.life.from <= clock
      BY <3>1 DEF GovernedInv, PlanSound, BoundInTime
    <3> QED
      BY <3>1, <3>2 DEF DispatchSound, ValidPlan, Approved, SameContext
  <2>2. ASSUME NEW approval \in Windows, NEW life \in Windows, CreatePlan(approval, life)
        PROVE  DispatchSound'
    BY <2>2 DEF CreatePlan, GovernedInv, DispatchSound
  <2>3. CASE UNCHANGED <<plan, dispatch>>
    BY <2>3 DEF GovernedInv, DispatchSound, ValidPlan, Approved, SameContext
  <2> QED
    BY <2>1, <2>2, <2>3 DEF GovernedNext, governedVars, policy, Tick, HostChanges, Refresh,
                Sync, SyncElsewhere, SyncLate, ClearPolicy, Bind, Arm
<1> QED
  BY <1>1, <1>2, <1>4, <1>6, <1>7, <1>8 DEF GovernedInv

LEMMA GovernedInvariant == GovernedSpec => []GovernedInv
  BY InitGoverned, GovernedStep, PTL DEF GovernedSpec

\* Everything that Phase 4 hands on keeps its type.
THEOREM GovernedTypeCorrect == GovernedSpec => []GovernedTypeOK
<1>1. GovernedInv => GovernedTypeOK
  BY DEF GovernedInv
<1> QED
  BY <1>1, GovernedInvariant, PTL

\* A ready binding was made of a catalog in which every tool is governed.
THEOREM GovernedReady == GovernedSpec => []ReadyIsGoverned
<1>1. GovernedInv => ReadyIsGoverned
  <2> SUFFICES ASSUME GovernedInv, held # Absent, NEW t \in Tools,
                      held.snapshot.catalog[t] # Absent
               PROVE  Governed(t, held.snapshot.catalog[t], held.bundle)
    BY DEF ReadyIsGoverned
  <2>1. /\ held.bundle \in Policies /\ held.snapshot \in Snapshots
        /\ Ready(held.bundle, held.snapshot)
    BY DEF GovernedInv, GovernedTypeOK, Bindings, HeldIsReady, BoundInTime
  <2> QED
    BY <2>1, ReadyGoverns
<1> QED
  BY <1>1, GovernedInvariant, PTL

\* The dispatch meets the pinned tool, and nothing ungoverned, in the inventory
\* that the policy was bound to.
THEOREM GovernedCatalog == GovernedSpec => []DispatchIsGoverned
<1>1. GovernedInv => DispatchIsGoverned
  <2> SUFFICES ASSUME GovernedInv, dispatch # Absent
               PROVE  /\ dispatch.snapshot.catalog[DraftTool] # Absent
                      /\ dispatch.snapshot.catalog[DraftTool].owner = PinnedOwner
                      /\ dispatch.snapshot.catalog[DraftTool].schema = PinnedSchema
                      /\ \A t \in Tools : dispatch.snapshot.catalog[t] # Absent =>
                             Governed(t, dispatch.snapshot.catalog[t], plan.binding.bundle)
    BY DEF DispatchIsGoverned
  <2> DEFINE b == plan.binding.bundle
             s == dispatch.snapshot
  <2>1. b \in Policies /\ s \in Snapshots
    BY DEF GovernedInv, DispatchSound, GovernedTypeOK, Plans, Bindings
  <2>2. Ready(b, s) /\ PinsAgree(b)
    BY DEF GovernedInv, DispatchSound, PlanSound, BoundInTime, SameContext
  <2>3. HasProfile(DraftTool, Registry[b])
    BY <2>2, GovernedAssumption DEF PinsAgree, HasProfile
  <2>4. ProfileMet(DraftTool, b, s)
    BY <2>2, <2>3, GovernedAssumption DEF Ready
  <2>5. \A t \in Tools : s.catalog[t] # Absent => Governed(t, s.catalog[t], b)
    BY <2>1, <2>2, ReadyGoverns
  <2> QED
    BY <2>2, <2>4, <2>5 DEF ProfileMet, PinsAgree
<1> QED
  BY <1>1, GovernedInvariant, PTL

\* The checks of the dispatch were passed within the approval and the plan, and after
\* a policy was bound that had begun by then.
THEOREM GovernedTime == GovernedSpec => []DispatchIsTimely
<1>1. GovernedInv => DispatchIsTimely
  <2> SUFFICES ASSUME GovernedInv, dispatch # Absent
               PROVE  /\ NotBefore[plan.binding.bundle] <= plan.binding.at
                      /\ plan.binding.at <= dispatch.at
                      /\ plan.approval.from <= dispatch.at /\ dispatch.at < plan.approval.until
                      /\ plan.life.from <= dispatch.at /\ dispatch.at < plan.life.until
                      /\ dispatch.at - plan.approval.from < MaxApproval
    BY DEF DispatchIsTimely
  <2>1. /\ plan.life.from <= dispatch.at /\ dispatch.at < plan.life.until
        /\ Approved(plan.approval, dispatch.at)
        /\ NotBefore[plan.binding.bundle] <= plan.binding.at
        /\ plan.binding.at <= dispatch.at
    BY DEF GovernedInv, DispatchSound, PlanSound, BoundInTime, ValidPlan
  <2>2. /\ plan.approval.from \in Nat /\ plan.approval.until \in Nat
        /\ dispatch.at \in Nat /\ MaxApproval \in Nat
    BY GovernedAssumption
    DEF GovernedInv, DispatchSound, GovernedTypeOK, Plans, Windows, Times
  <2> QED
    BY <2>1, <2>2 DEF Approved
<1> QED
  BY <1>1, GovernedInvariant, PTL

\* A sync, whole or in its two halves, is a step of the promise of the controllers.
LEMMA SyncAgrees ==
    ASSUME GovernedInv, NEW b \in Policies, Sync(b) \/ SyncElsewhere(b) \/ SyncLate(b)
    PROVE  Policy!AbstractNext
<1> DEFINE newest == IF reached = 0 THEN Absent ELSE reached
           agreed == {a \in Policies : a <= reached}
<1>0. /\ reached \in Policies \cup {0} /\ Policies \subseteq Nat \ {0} /\ Absent \notin Policies
  BY GovernedAssumption DEF GovernedInv, GovernedTypeOK
<1>1. ASSUME reached' = b, b = reached + 1
      PROVE  Policy!Agree(b)
  <2>1. <<newest, b>> \in {pair \in (Policies \cup {Absent}) \X Policies :
                      IF pair[1] = Absent THEN pair[2] = 1 ELSE pair[2] = pair[1] + 1}
    BY <1>0, <1>1
  <2>2. (IF reached = 0 THEN Absent ELSE reached)' = b
    BY <1>0, <1>1
  <2>3. {a \in Policies : a <= reached'} = agreed \cup {b}
    <3>1. \A a \in Policies : a <= reached' <=> a <= reached \/ a = b
      BY <1>0, <1>1, SequencesArePositive
    <3> QED  BY <3>1
  <2> QED  BY <2>1, <2>2, <2>3 DEF Policy!Agree
<1>2. ASSUME NEW c, current' = c PROVE Policy!Get("controller", c)
  BY <1>2 DEF Policy!Get
<1>3. CASE reached' = b /\ b = reached + 1 /\ current' = b
  BY <1>1, <1>2, <1>3 DEF Policy!AbstractNext
<1>4. CASE reached' = b /\ b = reached + 1 /\ UNCHANGED current
  BY <1>1, <1>4 DEF Policy!AbstractNext
<1>5. CASE UNCHANGED reached /\ current' \in agreed \cup {Absent}
  BY <1>2, <1>5 DEF Policy!AbstractNext
<1> QED
  BY <1>0, <1>3, <1>4, <1>5 DEF Sync, SyncElsewhere, SyncLate

\* With a sync in at most two steps this module keeps the promise that PolicySync keeps
\* in all of its steps: what is proved here does not rest on a coarser policy than that.
THEOREM GovernedKeepsAgreement == GovernedSpec => SyncKeepsAgreement
<1>1. GovernedInit => Policy!AbstractInit
  <2>1. GovernedInit => {b \in Policies : b <= reached} = {}
    BY SequencesArePositive DEF GovernedInit
  <2> QED  BY <2>1 DEF GovernedInit, Policy!AbstractInit
<1>2. GovernedInv /\ [GovernedNext]_governedVars
        => [Policy!AbstractNext]_<<IF reached = 0 THEN Absent ELSE reached,
                                   {b \in Policies : b <= reached},
                                   [c \in {"controller"} |-> current],
                                   [c \in {"controller"} |-> Absent]>>
  <2> SUFFICES ASSUME GovernedInv, [GovernedNext]_governedVars
               PROVE  Policy!AbstractNext \/ UNCHANGED policy
    BY DEF policy
  <2>1. CASE \E b \in Policies : Sync(b) \/ SyncElsewhere(b) \/ SyncLate(b)
    BY <2>1, SyncAgrees
  <2>2. CASE ClearPolicy
    BY <2>2 DEF ClearPolicy, Policy!AbstractNext, Policy!Get
  <2> QED
    BY <2>1, <2>2 DEF GovernedNext, governedVars, Tick, HostChanges, Refresh, Bind, CreatePlan,
                      Arm, BeforeToolCall
<1> QED
  BY <1>1, <1>2, GovernedInvariant, PTL
  DEF GovernedSpec, SyncKeepsAgreement, Policy!AbstractSpec, Policy!abstractVars
=============================================================================

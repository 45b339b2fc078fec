----------------------- MODULE ActionIntentStoreProofs -----------------------
(***************************************************************************)
(* Proofs about ActionIntentStore for any number of intents and commands,  *)
(* any thresholds and any capacity.                                        *)
(*                                                                         *)
(* The argument turns on which commands touch an intent: a commit does     *)
(* from the moment it has written "committing" until it has put the intent *)
(* back untouched, or for ever once its POST has been sent.  The store     *)
(* never lets two commands touch one intent, and never shows an intent     *)
(* that some command touches as one that can be committed.                 *)
(***************************************************************************)
EXTENDS ActionIntentStore, FiniteSetTheorems, TLAPS

Touches(c) ==
    Dispatched(c) \/ pc[c] \in {"preflight", "posted", "status", "settle", "recover"}

\* Once begun, an intent can be pruned but not be committed again.
Begun(entry) ==
    \/ entry = Gone
    \/ entry # Never /\ entry.state \in {"committing", "committed", "failed", "unknown"}

NotYetSent ==
    \A c \in Commands :
        /\ pc[c] \in {"idle", "preflight"} => post[c] = "none"
        /\ pc[c] = "recover" /\ got[c] = "noWrite" => ~Dispatched(c)

TouchedHasBegun == \A c \in Commands : Touches(c) => Begun(store[Target(c)])

OneToucher ==
    \A c1, c2 \in Commands :
        Touches(c1) /\ Touches(c2) /\ Target(c1) = Target(c2) => c1 = c2

\* The server knows of an action through a POST that arrived, and only so.
RecordedHasPost ==
    /\ \A i \in Intents : verdict[i] # "absent" =>
            \E c \in Commands : Target(c) = i /\ post[c] \in {"running", "answered"}
    /\ \A c \in Commands :
            post[c] \in {"running", "answered"} => verdict[Target(c)] # "absent"

ServerIsTrue ==
    \A i \in Intents :
        /\ published[i] => verdict[i] # "absent"
        /\ verdict[i] = "committed" => published[i]
        /\ verdict[i] = "failed" => ~published[i]

HeardIsTrue ==
    \A c \in Commands : pc[c] \in {"settle", "apply"} =>
        /\ got[c] \in {"committed", "failed"} => verdict[Target(c)] = got[c]
        /\ got[c] = "opaque" => Target(c) \notin Social

StoreInv ==
    /\ StoreTypeOK /\ IsFiniteSet(Entries(store))
    /\ NotYetSent /\ TouchedHasBegun /\ OneToucher
    /\ RecordedHasPost /\ ServerIsTrue /\ HeardIsTrue /\ StoreAgreesWithServer

-----------------------------------------------------------------------------
(* What a locked section does to the intents it is not about.              *)

Kept(old, new) ==
    /\ new \notin {Never, Gone} => old \notin {Never, Gone}
    /\ Begun(old) => Begun(new)
    /\ new \notin {Never, Gone} /\ new.state \in {"committed", "failed"} =>
            old.state = new.state

StoreShape == [Intents -> Intent \cup {Never, Gone}]

\* Normalizing keeps every intent, and makes none prepared or committing.
LEMMA NormalizedKeeps ==
    ASSUME store \in StoreShape
    PROVE  /\ Normalized(store) \in StoreShape
           /\ \A i \in Intents :
                /\ Kept(store[i], Normalized(store)[i])
                /\ Present(i) /\ Normalized(store)[i] # Gone => Normalized(store)[i] \in Intent
                /\ /\ Normalized(store)[i] \notin {Never, Gone}
                   /\ Normalized(store)[i].state \in {"prepared", "committing"}
                   => Normalized(store)[i] = store[i]
<1>0. 0 \in 0..Horizon
  BY StoreAssumption
<1>1. \A e \in Intent : Aged(e) \in Intent
  BY <1>0 DEF Aged, Intent, States
<1>2. \A e \in Intent :
        /\ e.state \in {"committing", "committed", "failed", "unknown"} =>
              Aged(e).state \in {"committing", "committed", "failed", "unknown"}
        /\ Aged(e).state \in {"committed", "failed"} => e.state = Aged(e).state
        /\ Aged(e).state \in {"prepared", "committing"} => Aged(e) = e
  BY StoreAssumption DEF Aged, Intent, States
<1>3. \A i \in Intents :
        \/ store[i] \in {Never, Gone} /\ Normalized(store)[i] = store[i]
        \/ store[i] \in Intent /\ Normalized(store)[i] \in {Gone, Aged(store[i])}
  BY DEF Normalized, StoreShape
<1>4. Normalized(store) \in StoreShape
  BY <1>1, <1>3 DEF StoreShape, Normalized
<1> QED  BY <1>1, <1>2, <1>3, <1>4, AbsenceAssumption DEF Kept, Begun, Present

\* A section that keeps every intent leaves the store within its bounds and in
\* agreement with the server.
LEMMA KeptStore ==
    ASSUME StoreInv, store' \in StoreShape, UNCHANGED <<cmd, server>>,
           \A i \in Intents : Kept(store[i], store'[i])
    PROVE  /\ IsFiniteSet(Entries(store')) /\ Cardinality(Entries(store')) <= MaxEntries
           /\ StoreAgreesWithServer'
           /\ \A i \in Intents : Begun(store[i]) => Begun(store'[i])
<1>1. Entries(store') \subseteq Entries(store)
  BY DEF Kept, Entries
<1>2. IsFiniteSet(Entries(store')) /\ Cardinality(Entries(store')) <= Cardinality(Entries(store))
  BY <1>1, FS_Subset DEF StoreInv
<1>3. Cardinality(Entries(store')) <= MaxEntries
  <2>1. Cardinality(Entries(store)) \in Nat /\ Cardinality(Entries(store')) \in Nat
    BY <1>2, FS_CardinalityType DEF StoreInv
  <2> QED  BY <2>1, <1>2, StoreAssumption DEF StoreInv, StoreTypeOK
<1>4. StoreAgreesWithServer'
  BY StoreAssumption DEF StoreInv, StoreAgreesWithServer, Kept, Present, server
<1> QED  BY <1>2, <1>3, <1>4 DEF Kept

\* A section that writes the state of one intent and keeps the others.
Written(i, s) == [Normalized(store) EXCEPT ![i].state = s, ![i].since = 0]

LEMMA WrittenStore ==
    ASSUME StoreInv, UNCHANGED <<cmd, server>>,
           NEW i \in Intents, NEW s \in {"committing", "committed", "failed", "unknown"},
           Normalized(store)[i] \notin {Never, Gone},
           store' = Written(i, s),
           i \in Social /\ s \in {"committed", "failed"} => verdict[i] = s
    PROVE  /\ store' \in StoreShape
           /\ IsFiniteSet(Entries(store')) /\ Cardinality(Entries(store')) <= MaxEntries
           /\ StoreAgreesWithServer'
           /\ \A j \in Intents : Begun(store[j]) => Begun(store'[j])
           /\ Begun(store'[i])
<1> DEFINE N == Normalized(store)
<1>0. store \in StoreShape
  BY DEF StoreInv, StoreTypeOK, StoreShape
<1>1. N \in StoreShape /\ \A j \in Intents : Kept(store[j], N[j])
  BY <1>0, NormalizedKeeps
<1>2. N[i] \in Intent
  BY <1>1 DEF StoreShape
<1>3. store'[i] = [N[i] EXCEPT !.state = s, !.since = 0]
  BY <1>1 DEF StoreShape, Written
<1>4. store'[i] \in Intent /\ store'[i].state = s
  <2>1. 0 \in 0..Horizon
    BY StoreAssumption
  <2> QED  BY <2>1, <1>2, <1>3 DEF Intent, States
<1>5. \A j \in Intents \ {i} : store'[j] = N[j]
  BY <1>1 DEF StoreShape, Written
<1>6. store' \in StoreShape
  BY <1>1, <1>4, <1>5 DEF StoreShape, Written
<1>7. Entries(store') \subseteq Entries(store)
  BY <1>1, <1>5 DEF Kept, Entries
<1>8. IsFiniteSet(Entries(store')) /\ Cardinality(Entries(store')) <= MaxEntries
  <2>1. IsFiniteSet(Entries(store')) /\ Cardinality(Entries(store')) <= Cardinality(Entries(store))
    BY <1>7, FS_Subset DEF StoreInv
  <2>2. Cardinality(Entries(store)) \in Nat /\ Cardinality(Entries(store')) \in Nat
    BY <2>1, FS_CardinalityType DEF StoreInv
  <2> QED  BY <2>1, <2>2, StoreAssumption DEF StoreInv, StoreTypeOK
<1>9. Begun(store'[i])
  BY <1>4, AbsenceAssumption DEF Begun
<1>10. StoreAgreesWithServer'
  <2> SUFFICES ASSUME NEW j \in Social, Present(j)'
               PROVE  /\ store'[j].state = "committed" => verdict[j] = "committed" /\ published[j]
                      /\ store'[j].state = "failed" => verdict[j] = "failed" /\ ~published[j]
    BY DEF StoreAgreesWithServer, server
  <2>1. j \in Intents  BY StoreAssumption
  <2>2. CASE j = i
    BY <2>1, <2>2, <1>4 DEF StoreInv, ServerIsTrue
  <2>3. CASE j # i
    BY <2>1, <2>3, <1>1, <1>5 DEF StoreInv, StoreAgreesWithServer, Kept, Present
  <2> QED  BY <2>2, <2>3
<1> QED  BY <1>1, <1>5, <1>6, <1>8, <1>9, <1>10 DEF Kept

-----------------------------------------------------------------------------
(* The invariant holds initially and every step preserves it.              *)

LEMMA InitStore == Init => StoreInv
<1> SUFFICES ASSUME Init PROVE StoreInv  OBVIOUS
<1>1. Entries(store) = {}
  BY DEF Init, Entries
<1>2. IsFiniteSet(Entries(store)) /\ Cardinality(Entries(store)) <= MaxEntries
  BY <1>1, FS_EmptySet, StoreAssumption
<1>3. StoreTypeOK
  BY <1>2 DEF Init, StoreTypeOK, Labels, Results, Posts, Server!AbstractTypeOK,
              Server!AbstractInit, Server!Verdicts
<1> QED  BY <1>2, <1>3, StoreAssumption DEF Init, StoreInv, NotYetSent, TouchedHasBegun, OneToucher,
            RecordedHasPost, ServerIsTrue, HeardIsTrue, StoreAgreesWithServer,
            Touches, Dispatched, Server!AbstractInit, Present

LEMMA IdlingStep ==
    ASSUME StoreInv, UNCHANGED idling, store' \in StoreShape,
           IsFiniteSet(Entries(store')), Cardinality(Entries(store')) <= MaxEntries,
           StoreAgreesWithServer',
           \A i \in Intents : Begun(store[i]) => Begun(store'[i])
    PROVE  StoreInv'
<1>1. StoreTypeOK'
  BY DEF StoreInv, StoreTypeOK, StoreShape, idling, Server!AbstractTypeOK
<1>2. TouchedHasBegun'
  BY DEF StoreInv, StoreTypeOK, Cmds, TouchedHasBegun, Touches, Dispatched, Target, idling
<1> QED  BY <1>1, <1>2 DEF StoreInv, NotYetSent, OneToucher, RecordedHasPost, ServerIsTrue,
            HeardIsTrue, Touches, Dispatched, Target, idling

LEMMA ListStep == StoreInv /\ List => StoreInv'
<1> SUFFICES ASSUME StoreInv, List PROVE StoreInv'  OBVIOUS
<1>1. store \in StoreShape
  BY DEF StoreInv, StoreTypeOK, StoreShape
<1>2. store' \in StoreShape /\ \A i \in Intents : Kept(store[i], store'[i])
  BY <1>1, NormalizedKeeps DEF List
<1>3. UNCHANGED idling
  BY DEF List
<1> QED  BY <1>2, <1>3, KeptStore, IdlingStep DEF idling, server

LEMMA TickStep == StoreInv /\ Tick => StoreInv'
<1> SUFFICES ASSUME StoreInv, Tick PROVE StoreInv'  OBVIOUS
<1>1. store \in StoreShape
  BY DEF StoreInv, StoreTypeOK, StoreShape
<1>2. ASSUME NEW i \in Intents
      PROVE  /\ store'[i] \in Intent \cup {Never, Gone}
             /\ Kept(store[i], store'[i])
  <2>1. CASE ~Present(i)
    BY <2>1, <1>1 DEF Tick, Present, Kept, StoreShape
  <2>2. CASE Present(i)
    <3>1. store[i] \in Intent
      BY <2>2, <1>1 DEF Present, StoreShape
    <3>2. store'[i] = [store[i] EXCEPT !.life = Older(@),
                        !.since = IF store[i].state = "committing" THEN Older(@) ELSE @]
      BY <2>2 DEF Tick
    <3>3. \A n \in 0..Horizon : Older(n) \in 0..Horizon
      BY StoreAssumption DEF Older
    <3>4. store'[i] \in Intent /\ store'[i].state = store[i].state
      BY <3>1, <3>2, <3>3 DEF Intent
    <3> QED  BY <2>2, <3>1, <3>4, AbsenceAssumption DEF Present, Kept, Begun
  <2> QED  BY <2>1, <2>2
<1>3. store' \in StoreShape
  BY <1>2 DEF Tick, StoreShape
<1>4. UNCHANGED idling
  BY DEF Tick
<1> QED  BY <1>2, <1>3, <1>4, KeptStore, IdlingStep DEF idling, server

\* A new intent is the only thing that a store gains.
LEMMA PrepareStep == ASSUME NEW i \in Intents PROVE StoreInv /\ Prepare(i) => StoreInv'
<1> SUFFICES ASSUME StoreInv, Prepare(i) PROVE StoreInv'  OBVIOUS
<1> DEFINE N == Normalized(store)
           fresh == [state |-> "prepared", life |-> 0, since |-> 0]
<1>1. store \in StoreShape /\ UNCHANGED idling
  BY DEF StoreInv, StoreTypeOK, StoreShape, Prepare
<1>2. N \in StoreShape /\ \A j \in Intents : Kept(store[j], N[j])
  BY <1>1, NormalizedKeeps
<1>3. Entries(N) \subseteq Entries(store)
  BY <1>2 DEF Kept, Entries
<1>4. IsFiniteSet(Entries(N)) /\ Cardinality(Entries(N)) \in Nat
      /\ Cardinality(Entries(N)) <= MaxEntries
  <2>1. IsFiniteSet(Entries(N)) /\ Cardinality(Entries(N)) <= Cardinality(Entries(store))
    BY <1>3, FS_Subset DEF StoreInv
  <2>2. Cardinality(Entries(store)) \in Nat /\ Cardinality(Entries(N)) \in Nat
    BY <2>1, FS_CardinalityType DEF StoreInv
  <2> QED  BY <2>1, <2>2, StoreAssumption DEF StoreInv, StoreTypeOK
<1>5. \A room \in WithRoom(N) :
        /\ room \in StoreShape /\ \A j \in Intents : Kept(store[j], room[j])
        /\ IsFiniteSet(Entries(room))
        /\ Cardinality(Entries(room)) \in Nat /\ Cardinality(Entries(room)) < MaxEntries
  <2> SUFFICES ASSUME NEW room \in WithRoom(N)
               PROVE  /\ room \in StoreShape /\ \A j \in Intents : Kept(store[j], room[j])
                      /\ IsFiniteSet(Entries(room))
                      /\ Cardinality(Entries(room)) \in Nat /\ Cardinality(Entries(room)) < MaxEntries
    OBVIOUS
  <2>1. CASE Cardinality(Entries(N)) < MaxEntries
    BY <2>1, <1>2, <1>4 DEF WithRoom
  <2>2. CASE ~(Cardinality(Entries(N)) < MaxEntries)
    <3>1. PICK j \in Evictable(N) : room = [N EXCEPT ![j] = Gone]
      BY <2>2 DEF WithRoom
    <3>2. j \in Entries(N) /\ N[j] \in Intent /\ N[j].state \notin {"prepared", "committing"}
      BY <3>1, <1>2 DEF Evictable, Pending, Entries, StoreShape
    <3>3. room \in StoreShape
      BY <3>1, <1>2 DEF StoreShape
    <3>4. \A k \in Intents : Kept(store[k], room[k])
      BY <3>1, <3>2, <1>2, AbsenceAssumption DEF Kept, Begun, StoreShape
    <3>5. Entries(room) = Entries(N) \ {j}
      BY <3>1, <1>2 DEF Entries, StoreShape
    <3>6. IsFiniteSet(Entries(room)) /\ Cardinality(Entries(room)) = Cardinality(Entries(N)) - 1
      BY <3>2, <3>5, <1>4, FS_RemoveElement
    <3> QED  BY <3>3, <3>4, <3>6, <2>2, <1>4, FS_CardinalityType, StoreAssumption
  <2> QED  BY <2>1, <2>2
<1>6. PICK room \in WithRoom(N) :
        \/ store' = store \/ store' = room
        \/ store' = [room EXCEPT ![i] = fresh]
  BY DEF Prepare
<1>7. CASE store' = store
  BY <1>7, <1>1, IdlingStep DEF StoreInv, StoreTypeOK, StoreAgreesWithServer, idling, Present
<1>8. CASE store' = room
  BY <1>8, <1>1, <1>5, KeptStore, IdlingStep DEF idling, server
<1>9. CASE store' = [room EXCEPT ![i] = fresh]
  <2>0. 0 \in 0..Horizon
    BY StoreAssumption
  <2>1. room \in StoreShape /\ fresh \in Intent
    BY <2>0, <1>5 DEF Intent, States
  <2>2. store' \in StoreShape /\ store'[i] = fresh /\ \A j \in Intents \ {i} : store'[j] = room[j]
    BY <2>1, <1>9 DEF StoreShape
  <2>3. store[i] = Never
    BY DEF Prepare
  <2>4. room[i] \in {Never, Gone}
    BY <2>3, <1>5 DEF Kept
  <2>5. Entries(store') = Entries(room) \cup {i} /\ i \notin Entries(room)
    BY <2>1, <2>2, <2>4, AbsenceAssumption DEF Entries
  <2>6. IsFiniteSet(Entries(store')) /\ Cardinality(Entries(store')) = Cardinality(Entries(room)) + 1
    BY <2>5, <1>5, FS_AddElement
  <2>7. Cardinality(Entries(store')) <= MaxEntries
    BY <2>6, <1>5, StoreAssumption
  <2>8. \A j \in Intents : Begun(store[j]) => Begun(store'[j])
    BY <2>2, <2>3, <1>5, AbsenceAssumption DEF Begun, Kept
  <2>9. StoreAgreesWithServer'
    BY <2>2, <2>3, <1>5, <1>1, StoreAssumption
       DEF StoreInv, StoreAgreesWithServer, Kept, Present, idling
  <2> QED  BY <2>2, <2>6, <2>7, <2>8, <2>9, <1>1, IdlingStep
<1> QED  BY <1>6, <1>7, <1>8, <1>9

LEMMA DenyStep == ASSUME NEW i \in Intents PROVE StoreInv /\ Deny(i) => StoreInv'
<1> SUFFICES ASSUME StoreInv, Deny(i) PROVE StoreInv'  OBVIOUS
<1> DEFINE N == Normalized(store)
<1>1. store \in StoreShape /\ UNCHANGED idling
  BY DEF StoreInv, StoreTypeOK, StoreShape, Deny
<1>2. N \in StoreShape /\ \A j \in Intents : Kept(store[j], N[j])
  BY <1>1, NormalizedKeeps
<1>3. N[i] \in Intent
  BY <1>1, NormalizedKeeps DEF Deny
<1>4. CASE store' = N
  BY <1>4, <1>1, <1>2, KeptStore, IdlingStep DEF idling, server
<1>5. CASE N[i].state = "prepared" /\ store' = [N EXCEPT ![i].state = "denied"]
  <2>1. store' \in StoreShape /\ store'[i] \in Intent /\ store'[i].state = "denied"
    BY <1>2, <1>3, <1>5 DEF StoreShape, Intent, States
  <2>2. \A j \in Intents \ {i} : store'[j] = N[j]
    BY <1>2, <1>5 DEF StoreShape
  <2>3. Kept(store[i], store'[i])
    BY <2>1, <1>1, <1>2, <1>3, <1>5, AbsenceAssumption DEF Kept, Begun
  <2> QED  BY <2>1, <2>2, <2>3, <1>1, <1>2, KeptStore, IdlingStep DEF idling, server
<1> QED  BY <1>4, <1>5 DEF Deny

\* A command that writes nothing, and the network, leave the store's part of the
\* invariant alone.
LEMMA StoreUntouched ==
    StoreInv /\ UNCHANGED <<store, cmd>> =>
        /\ store' \in StoreShape /\ IsFiniteSet(Entries(store'))
        /\ Cardinality(Entries(store')) <= MaxEntries
        /\ \A i \in Intents : Begun(store[i]) => Begun(store'[i])
        /\ UNCHANGED server => StoreAgreesWithServer'
  BY DEF StoreInv, StoreTypeOK, StoreShape, StoreAgreesWithServer, Present, server

\* A step of command c, which begins no commit.  It may put back an intent that
\* it alone touched and touches no more.
LEMMA CommandStep ==
    ASSUME StoreInv, NEW c \in Commands, UNCHANGED <<cmd, server>>,
           store' \in StoreShape, IsFiniteSet(Entries(store')),
           Cardinality(Entries(store')) <= MaxEntries, StoreAgreesWithServer',
           \A i \in Intents : Begun(store[i]) =>
                Begun(store'[i]) \/ (i = Target(c) /\ Touches(c) /\ ~Touches(c)'),
           pc' \in [Commands -> Labels], got' \in [Commands -> Results],
           post' \in [Commands -> Posts],
           \A d \in Commands \ {c} :
                pc'[d] = pc[d] /\ got'[d] = got[d] /\ post'[d] = post[d],
           Touches(c)' => Touches(c),
           pc'[c] \in {"idle", "preflight"} => post'[c] = "none",
           pc'[c] = "recover" /\ got'[c] = "noWrite" => ~Dispatched(c)',
           post[c] \in {"running", "answered"} <=> post'[c] \in {"running", "answered"},
           pc'[c] \in {"settle", "apply"} =>
                /\ got'[c] \in {"committed", "failed"} => verdict[Target(c)] = got'[c]
                /\ got'[c] = "opaque" => Target(c) \notin Social
    PROVE  StoreInv'
<1>1. StoreTypeOK'
  BY DEF StoreInv, StoreTypeOK, StoreShape, Server!AbstractTypeOK, server
<1>2. NotYetSent'
  BY DEF StoreInv, NotYetSent, Dispatched
<1>3. OneToucher'
  BY DEF StoreInv, OneToucher, Touches, Dispatched, Target
<1>4. TouchedHasBegun'
  <2> SUFFICES ASSUME NEW d \in Commands, Touches(d)'
               PROVE  Begun(store'[Target(d)])
    BY DEF TouchedHasBegun, Begun, Target
  <2>1. Touches(d)
    BY DEF Touches, Dispatched
  <2>2. Target(d) \in Intents /\ Begun(store[Target(d)])
    BY <2>1 DEF StoreInv, StoreTypeOK, Cmds, TouchedHasBegun, Target
  <2> QED  BY <2>1, <2>2 DEF StoreInv, OneToucher
<1>5. RecordedHasPost'
  BY DEF StoreInv, RecordedHasPost, Target, server
<1>6. ServerIsTrue'
  BY DEF StoreInv, ServerIsTrue, server
<1>7. HeardIsTrue'
  BY DEF StoreInv, HeardIsTrue, Target, server
<1> QED  BY <1>1, <1>2, <1>3, <1>4, <1>5, <1>6, <1>7 DEF StoreInv

-----------------------------------------------------------------------------
(* The steps of a command.                                                 *)

LEMMA QuietStep ==
    ASSUME NEW c \in Commands
    PROVE  StoreInv /\ (Abandon(c) \/ Preflight(c) \/ GiveUpOnPost(c) \/ ReadStatus(c)
                        \/ BeginReconcile(c) \/ Resolve(c) \/ RejectPost(c) \/ LosePost(c)
                        \/ AnswerPost(c) \/ Busy(c))
           => StoreInv'
<1> SUFFICES ASSUME StoreInv,
                    Abandon(c) \/ Preflight(c) \/ GiveUpOnPost(c) \/ ReadStatus(c)
                    \/ BeginReconcile(c) \/ Resolve(c) \/ RejectPost(c) \/ LosePost(c)
                    \/ AnswerPost(c) \/ Busy(c)
             PROVE  StoreInv'
  OBVIOUS
<1> DEFINE i == Target(c)
<1>1. UNCHANGED <<store, cmd, server>>
  BY DEF Abandon, Preflight, GiveUpOnPost, ReadStatus, BeginReconcile, Resolve,
         RejectPost, LosePost, AnswerPost, Busy
<1>2. /\ store' \in StoreShape /\ IsFiniteSet(Entries(store'))
      /\ Cardinality(Entries(store')) <= MaxEntries
      /\ \A j \in Intents : Begun(store[j]) => Begun(store'[j])
      /\ StoreAgreesWithServer'
  BY <1>1, StoreUntouched
<1>3. /\ pc \in [Commands -> Labels] /\ got \in [Commands -> Results]
      /\ post \in [Commands -> Posts] /\ i \in Intents /\ verdict[i] \in Server!Verdicts
  BY DEF StoreInv, StoreTypeOK, Cmds, Target, Server!AbstractTypeOK
<1>4. verdict[i] # "absent" =>
        /\ ReceiptOf(verdict[i]) \in Results \ {"opaque"}
        /\ ReceiptOf(verdict[i]) \in {"committed", "failed"} => verdict[i] = ReceiptOf(verdict[i])
  BY <1>3 DEF ReceiptOf, Results, Receipts, Server!Verdicts
<1>5. post[c] = "running" => verdict[i] # "absent"
  BY DEF StoreInv, RecordedHasPost
<1>6. /\ pc[c] \in {"idle", "preflight"} => post[c] = "none"
      /\ pc[c] = "recover" /\ got[c] = "noWrite" => ~Dispatched(c)
      /\ pc[c] \in {"settle", "apply"} =>
            /\ got[c] \in {"committed", "failed"} => verdict[i] = got[c]
            /\ got[c] = "opaque" => i \notin Social
  BY DEF StoreInv, NotYetSent, HeardIsTrue
<1> USE DEF Goto, Return, Touches, Dispatched, Labels, Results, Posts
<1>7. CASE Abandon(c)
  BY <1>1, <1>2, <1>3, <1>6, <1>7, CommandStep DEF Abandon
<1>8. CASE Preflight(c)
  BY <1>1, <1>2, <1>3, <1>6, <1>8, CommandStep DEF Preflight
<1>9. CASE GiveUpOnPost(c)
  BY <1>1, <1>2, <1>3, <1>6, <1>9, CommandStep DEF GiveUpOnPost
<1>10. CASE ReadStatus(c)
  BY <1>1, <1>2, <1>3, <1>4, <1>6, <1>10, CommandStep DEF ReadStatus
<1>11. CASE BeginReconcile(c)
  BY <1>1, <1>2, <1>3, <1>6, <1>11, CommandStep DEF BeginReconcile
<1>12. CASE Resolve(c)
  BY <1>1, <1>2, <1>3, <1>4, <1>6, <1>12, CommandStep DEF Resolve
<1>13. CASE RejectPost(c)
  BY <1>1, <1>2, <1>3, <1>6, <1>13, CommandStep DEF RejectPost
<1>14. CASE LosePost(c)
  BY <1>1, <1>2, <1>3, <1>6, <1>14, CommandStep DEF LosePost
<1>15. CASE AnswerPost(c)
  BY <1>1, <1>2, <1>3, <1>4, <1>5, <1>6, <1>15, CommandStep DEF AnswerPost
<1>16. CASE Busy(c)
  BY <1>1, <1>2, <1>3, <1>6, <1>16, CommandStep DEF Busy
<1> QED  BY <1>7, <1>8, <1>9, <1>10, <1>11, <1>12, <1>13, <1>14, <1>15, <1>16

\* What the commands that write share.
LEMMA WriterFacts ==
    ASSUME StoreInv, NEW c \in Commands
    PROVE  /\ store \in StoreShape /\ Target(c) \in Intents
           /\ pc \in [Commands -> Labels] /\ got \in [Commands -> Results]
           /\ post \in [Commands -> Posts]
           /\ pc[c] \in {"settle", "apply"} =>
                /\ StateFor(got[c]) \in {"committed", "failed", "unknown"}
                /\ Target(c) \in Social /\ StateFor(got[c]) \in {"committed", "failed"} =>
                        verdict[Target(c)] = StateFor(got[c])
  BY DEF StoreInv, StoreTypeOK, StoreShape, Cmds, Target, HeardIsTrue, StateFor

LEMMA BeginCommitStep ==
    ASSUME NEW c \in Commands PROVE StoreInv /\ BeginCommit(c) => StoreInv'
<1> SUFFICES ASSUME StoreInv, BeginCommit(c) PROVE StoreInv'  OBVIOUS
<1> DEFINE i == Target(c)
           N == Normalized(store)
<1>1. /\ UNCHANGED <<cmd, got, post, server>> /\ pc[c] = "idle" /\ post[c] = "none"
      /\ N[i] # Gone /\ Present(i)
  BY DEF BeginCommit, StoreInv, NotYetSent
<1>2. /\ store \in StoreShape /\ i \in Intents
      /\ pc \in [Commands -> Labels] /\ got \in [Commands -> Results]
      /\ post \in [Commands -> Posts]
  BY WriterFacts
<1>3. /\ N \in StoreShape /\ \A j \in Intents : Kept(store[j], N[j])
      /\ N[i] \in Intent
      /\ N[i].state = "prepared" => N[i] = store[i]
  BY <1>1, <1>2, NormalizedKeeps, AbsenceAssumption
<1>4. \/ store' = N /\ pc' = [pc EXCEPT ![c] = "done"]
      \/ UNCHANGED store /\ pc' = [pc EXCEPT ![c] = "done"]
      \/ /\ N[i].state = "prepared" /\ store' = Written(i, "committing")
         /\ pc' = [pc EXCEPT ![c] = "preflight"] \/ pc' = [pc EXCEPT ![c] = "done"]
  BY DEF BeginCommit, SaveThen, Goto, Committable, Written
<1>5. CASE store' = N /\ pc' = [pc EXCEPT ![c] = "done"]
  BY <1>1, <1>2, <1>3, <1>5, KeptStore, CommandStep DEF Touches, Dispatched, Labels
<1>6. CASE UNCHANGED store /\ pc' = [pc EXCEPT ![c] = "done"]
  BY <1>1, <1>2, <1>6, StoreUntouched, CommandStep DEF Touches, Dispatched, Labels
<1>7. CASE /\ N[i].state = "prepared" /\ store' = Written(i, "committing")
           /\ pc' = [pc EXCEPT ![c] = "preflight"] \/ pc' = [pc EXCEPT ![c] = "done"]
  <2>1. /\ store' \in StoreShape
        /\ IsFiniteSet(Entries(store')) /\ Cardinality(Entries(store')) <= MaxEntries
        /\ StoreAgreesWithServer'
        /\ \A j \in Intents : Begun(store[j]) => Begun(store'[j])
        /\ Begun(store'[i])
    BY <1>1, <1>2, <1>3, <1>7, WrittenStore, AbsenceAssumption
  <2>2. \A d \in Commands : Touches(d) => Target(d) # i
    <3>1. ~Begun(store[i])
      BY <1>3, <1>7, AbsenceAssumption DEF Begun
    <3> QED  BY <3>1 DEF StoreInv, TouchedHasBegun
  <2>3. pc' \in [Commands -> Labels] /\ pc'[c] \in {"preflight", "done"}
        /\ \A d \in Commands \ {c} : pc'[d] = pc[d]
    BY <1>2, <1>7 DEF Labels
  <2>4. StoreTypeOK'
    BY <1>1, <2>1, <2>3 DEF StoreInv, StoreTypeOK, StoreShape, Server!AbstractTypeOK, server
  <2>5. NotYetSent'
    BY <1>1, <2>3 DEF StoreInv, NotYetSent, Dispatched
  <2>6. TouchedHasBegun' /\ OneToucher'
    <3>1. \A d \in Commands : Target(d)' = Target(d) /\ Target(d) \in Intents
      BY <1>1 DEF StoreInv, StoreTypeOK, Cmds, Target
    <3>2. \A d \in Commands \ {c} : Touches(d)' <=> Touches(d)
      BY <1>1, <2>3 DEF Touches, Dispatched
    <3>3. TouchedHasBegun'
      <4> SUFFICES ASSUME NEW d \in Commands, Touches(d)'
                   PROVE  Begun(store'[Target(d)])
        BY <3>1 DEF TouchedHasBegun, Begun
      <4>1. CASE d = c
        BY <4>1, <2>1
      <4>2. CASE d # c
        BY <4>2, <3>1, <3>2, <2>1 DEF StoreInv, TouchedHasBegun
      <4> QED  BY <4>1, <4>2
    <3> QED  BY <3>1, <3>2, <3>3, <2>2 DEF StoreInv, OneToucher
  <2>7. RecordedHasPost' /\ ServerIsTrue' /\ HeardIsTrue'
    BY <1>1, <2>3 DEF StoreInv, RecordedHasPost, ServerIsTrue, HeardIsTrue, Target, server
  <2> QED  BY <2>1, <2>4, <2>5, <2>6, <2>7 DEF StoreInv
<1> QED  BY <1>4, <1>5, <1>6, <1>7

LEMMA SettleStep ==
    ASSUME NEW c \in Commands PROVE StoreInv /\ Settle(c) => StoreInv'
<1> SUFFICES ASSUME StoreInv, Settle(c) PROVE StoreInv'  OBVIOUS
<1> DEFINE i == Target(c)
           N == Normalized(store)
<1>1. /\ UNCHANGED <<cmd, post, server>> /\ pc[c] = "settle" /\ Touches(c)
      /\ i \in Intents
      /\ pc \in [Commands -> Labels] /\ got \in [Commands -> Results]
      /\ post \in [Commands -> Posts]
  BY WriterFacts DEF Settle, Touches
<1>2. /\ \/ UNCHANGED store
         \/ N[i] \notin {Never, Gone} /\ store' = Written(i, StateFor(got[c]))
      /\ \/ pc' = [pc EXCEPT ![c] = "done"] /\ UNCHANGED got
         \/ pc' = [pc EXCEPT ![c] = "recover"] /\ got' = [got EXCEPT ![c] = "error"]
  <2>1. Present(i) /\ N[i] # Gone => N[i] \notin {Never, Gone}
    BY NormalizedKeeps, WriterFacts, AbsenceAssumption
  <2> QED  BY <2>1 DEF Settle, SaveThen, Goto, Return, Written
<1>3. /\ store' \in StoreShape /\ IsFiniteSet(Entries(store'))
      /\ Cardinality(Entries(store')) <= MaxEntries
      /\ \A j \in Intents : Begun(store[j]) => Begun(store'[j])
      /\ StoreAgreesWithServer'
  <2>1. CASE UNCHANGED store
    BY <1>1, <2>1, StoreUntouched
  <2>2. CASE N[i] \notin {Never, Gone} /\ store' = Written(i, StateFor(got[c]))
    BY <1>1, <2>2, WriterFacts, WrittenStore
  <2> QED  BY <1>2, <2>1, <2>2
<1> QED  BY <1>1, <1>2, <1>3, CommandStep DEF Touches, Dispatched, Labels, Results

LEMMA ApplyReceiptStep ==
    ASSUME NEW c \in Commands PROVE StoreInv /\ ApplyReceipt(c) => StoreInv'
<1> SUFFICES ASSUME StoreInv, ApplyReceipt(c) PROVE StoreInv'  OBVIOUS
<1> DEFINE i == Target(c)
           N == Normalized(store)
<1>1. /\ UNCHANGED <<cmd, got, post, server>> /\ pc[c] = "apply" /\ i \in Intents
      /\ pc \in [Commands -> Labels] /\ got \in [Commands -> Results]
      /\ post \in [Commands -> Posts] /\ pc' = [pc EXCEPT ![c] = "done"]
  BY WriterFacts DEF ApplyReceipt, SaveThen, Goto
<1>2. \/ UNCHANGED store
      \/ N[i] \notin {Never, Gone} /\ store' = Written(i, StateFor(got[c]))
  <2>1. Present(i) /\ N[i] # Gone => N[i] \notin {Never, Gone}
    BY NormalizedKeeps, WriterFacts, AbsenceAssumption
  <2> QED  BY <2>1 DEF ApplyReceipt, SaveThen, Goto, Applied, Written
<1>3. /\ store' \in StoreShape /\ IsFiniteSet(Entries(store'))
      /\ Cardinality(Entries(store')) <= MaxEntries
      /\ \A j \in Intents : Begun(store[j]) => Begun(store'[j])
      /\ StoreAgreesWithServer'
  <2>1. CASE UNCHANGED store
    BY <1>1, <2>1, StoreUntouched
  <2>2. CASE N[i] \notin {Never, Gone} /\ store' = Written(i, StateFor(got[c]))
    BY <1>1, <2>2, WriterFacts, WrittenStore
  <2> QED  BY <1>2, <2>1, <2>2
<1> QED  BY <1>1, <1>3, CommandStep DEF Touches, Dispatched, Labels

\* The catch clause puts an intent back only if its own POST was never sent, and
\* by OneToucher no other command has anything to do with that intent.
LEMMA RecoverStep ==
    ASSUME NEW c \in Commands PROVE StoreInv /\ Recover(c) => StoreInv'
<1> SUFFICES ASSUME StoreInv, Recover(c) PROVE StoreInv'  OBVIOUS
<1> DEFINE i == Target(c)
           N == Normalized(store)
<1>1. /\ UNCHANGED <<cmd, got, post, server>> /\ pc[c] = "recover" /\ i \in Intents
      /\ store \in StoreShape
      /\ pc \in [Commands -> Labels] /\ got \in [Commands -> Results]
      /\ post \in [Commands -> Posts] /\ pc' = [pc EXCEPT ![c] = "done"]
  BY WriterFacts DEF Recover, Goto
<1>2. \/ UNCHANGED store
      \/ /\ N[i] \notin {Never, Gone} /\ N[i].state = "committing"
         /\ store' = Written(i, Recovered(got[c]))
  <2>1. Present(i) /\ N[i] # Gone => N[i] \notin {Never, Gone}
    BY NormalizedKeeps, WriterFacts, AbsenceAssumption
  <2> QED  BY <2>1 DEF Recover, Written
<1>3. CASE UNCHANGED store
  BY <1>1, <1>3, StoreUntouched, CommandStep DEF Touches, Dispatched, Labels
<1>4. CASE /\ N[i] \notin {Never, Gone} /\ N[i].state = "committing"
           /\ store' = Written(i, Recovered(got[c])) /\ got[c] # "noWrite"
  <2>1. /\ store' \in StoreShape /\ IsFiniteSet(Entries(store'))
        /\ Cardinality(Entries(store')) <= MaxEntries
        /\ \A j \in Intents : Begun(store[j]) => Begun(store'[j])
        /\ StoreAgreesWithServer'
    BY <1>1, <1>4, WrittenStore DEF Recovered
  <2> QED  BY <1>1, <2>1, CommandStep DEF Touches, Dispatched, Labels
<1>5. CASE /\ N[i] \notin {Never, Gone} /\ N[i].state = "committing"
           /\ store' = Written(i, Recovered(got[c])) /\ got[c] = "noWrite"
  <2>1. ~Dispatched(c) /\ Touches(c) /\ ~Touches(c)'
    BY <1>1, <1>5 DEF StoreInv, NotYetSent, Touches, Dispatched, Labels
  <2>2. N \in StoreShape /\ \A j \in Intents : Kept(store[j], N[j])
    BY <1>1, NormalizedKeeps
  <2>3. store' = [N EXCEPT ![i].state = "prepared", ![i].since = 0]
    BY <1>5 DEF Recovered, Written
  <2>4. store' \in StoreShape /\ store'[i] \in Intent /\ store'[i].state = "prepared"
        /\ \A j \in Intents \ {i} : store'[j] = N[j]
    <3>1. N[i] \in Intent
      BY <1>1, <1>5, <2>2 DEF StoreShape
    <3>2. 0 \in 0..Horizon
      BY StoreAssumption
    <3>3. store'[i] = [N[i] EXCEPT !.state = "prepared", !.since = 0]
          /\ \A j \in Intents \ {i} : store'[j] = N[j]
      BY <1>1, <2>2, <2>3 DEF StoreShape
    <3>4. store'[i] \in Intent /\ store'[i].state = "prepared"
      BY <3>1, <3>2, <3>3 DEF Intent, States
    <3>5. store' \in StoreShape
      BY <2>2, <2>3, <3>3, <3>4 DEF StoreShape
    <3> QED  BY <3>3, <3>4, <3>5
  <2>5. store[i] \notin {Never, Gone}
    BY <1>1, <1>5, <2>2 DEF Kept
  <2>6. Entries(store') \subseteq Entries(store)
    BY <1>1, <2>2, <2>4, <2>5 DEF Entries, Kept
  <2>7. IsFiniteSet(Entries(store')) /\ Cardinality(Entries(store')) <= MaxEntries
    <3>1. IsFiniteSet(Entries(store')) /\ Cardinality(Entries(store')) <= Cardinality(Entries(store))
      BY <2>6, FS_Subset DEF StoreInv
    <3>2. Cardinality(Entries(store)) \in Nat /\ Cardinality(Entries(store')) \in Nat
      BY <3>1, FS_CardinalityType DEF StoreInv
    <3> QED  BY <3>1, <3>2, StoreAssumption DEF StoreInv, StoreTypeOK
  <2>8. StoreAgreesWithServer'
    <3> SUFFICES ASSUME NEW j \in Social, Present(j)'
                 PROVE  /\ store'[j].state = "committed" => verdict[j] = "committed" /\ published[j]
                        /\ store'[j].state = "failed" => verdict[j] = "failed" /\ ~published[j]
      BY <1>1 DEF StoreAgreesWithServer, server
    <3>1. j \in Intents  BY StoreAssumption
    <3>2. CASE j = i
      BY <3>2, <2>4
    <3>3. CASE j # i
      BY <3>1, <3>3, <2>2, <2>4 DEF StoreInv, StoreAgreesWithServer, Kept, Present
    <3> QED  BY <3>2, <3>3
  <2>9. \A j \in Intents : Begun(store[j]) =>
            Begun(store'[j]) \/ (j = i /\ Touches(c) /\ ~Touches(c)')
    BY <2>1, <2>2, <2>4 DEF Kept
  <2> QED  BY <1>1, <2>1, <2>4, <2>7, <2>8, <2>9, CommandStep DEF Labels, Touches, Dispatched
<1> QED  BY <1>2, <1>3, <1>4, <1>5

-----------------------------------------------------------------------------
(* The steps of the network and the server.                                *)

LEMMA ServerStep ==
    ASSUME NEW c \in Commands, NEW i \in Intents
    PROVE  StoreInv /\ (AcceptPost(c) \/ PublishPost(c) \/ ServerDecides(i)) => StoreInv'
<1> SUFFICES ASSUME StoreInv, AcceptPost(c) \/ PublishPost(c) \/ ServerDecides(i)
             PROVE  StoreInv'
  OBVIOUS
<1> USE DEF Server!Open, Server!Become, Server!Publish, Server!Commit, Server!Refuse,
            Server!GiveUp, Server!AbstractTypeOK, Server!Verdicts, server
<1>1. UNCHANGED <<store, cmd, pc, got>>
  BY DEF AcceptPost, PublishPost, ServerDecides
<1>2. /\ Target(c) \in Intents /\ post \in [Commands -> Posts]
      /\ verdict \in [Intents -> Server!Verdicts] /\ published \in [Intents -> BOOLEAN]
  BY DEF StoreInv, StoreTypeOK, Cmds, Target
<1>3. \A d \in Commands :
        /\ Dispatched(d)' <=> Dispatched(d)
        /\ post[d] = "none" <=> post'[d] = "none"
        /\ post[d] \in {"running", "answered"} => post'[d] \in {"running", "answered"}
  BY <1>2 DEF AcceptPost, PublishPost, ServerDecides, Dispatched, Posts
<1>4. StoreTypeOK' /\ IsFiniteSet(Entries(store))'
  BY <1>1, <1>2 DEF AcceptPost, PublishPost, ServerDecides, StoreInv, StoreTypeOK, Posts
<1>5. NotYetSent' /\ TouchedHasBegun' /\ OneToucher'
  BY <1>1, <1>3 DEF StoreInv, NotYetSent, TouchedHasBegun, OneToucher, Touches, Target
<1>6. RecordedHasPost'
  <2>1. CASE AcceptPost(c)
    BY <1>1, <1>2, <2>1 DEF AcceptPost, StoreInv, StoreTypeOK, Cmds, RecordedHasPost, Target
  <2>2. CASE PublishPost(c) \/ ServerDecides(i)
    <3>1. UNCHANGED post /\ \A j \in Intents : verdict'[j] # "absent" <=> verdict[j] # "absent"
      BY <1>2, <2>2 DEF PublishPost, ServerDecides
    <3> QED  BY <3>1, <1>1 DEF StoreInv, StoreTypeOK, Cmds, RecordedHasPost, Target
  <2> QED  BY <2>1, <2>2
<1>7. ServerIsTrue'
  BY <1>2 DEF AcceptPost, PublishPost, ServerDecides, StoreInv, ServerIsTrue
<1>8. \A j \in Intents : verdict[j] \in {"committed", "failed"} =>
        verdict'[j] = verdict[j] /\ published'[j] = published[j]
  BY <1>2 DEF AcceptPost, PublishPost, ServerDecides
<1>9. HeardIsTrue'
  BY <1>1, <1>8 DEF StoreInv, StoreTypeOK, Cmds, HeardIsTrue, Target
<1>10. StoreAgreesWithServer'
  BY <1>1, <1>8, StoreAssumption DEF StoreInv, StoreAgreesWithServer, Present
<1> QED  BY <1>1, <1>4, <1>5, <1>6, <1>7, <1>9, <1>10 DEF StoreInv

LEMMA StoreStep == StoreInv /\ [Next]_vars => StoreInv'
<1> SUFFICES ASSUME StoreInv, [Next]_vars PROVE StoreInv'  OBVIOUS
<1>1. CASE UNCHANGED vars
  BY <1>1, StoreUntouched, IdlingStep DEF vars, idling, server
<1>2. CASE \E i \in Intents : Prepare(i) \/ Deny(i)
  BY <1>2, PrepareStep, DenyStep
<1>3. CASE \E i \in Intents : ServerDecides(i)
  <2>1. CASE Commands = {}
    BY <1>3, <2>1 DEF StoreInv, RecordedHasPost, ServerDecides, Server!Commit, Server!Refuse,
                      Server!GiveUp
  <2>2. CASE Commands # {}
    BY <1>3, <2>2, ServerStep
  <2> QED  BY <2>1, <2>2
<1>4. CASE \E c \in Commands : Command(c) \/ Abandon(c) \/ Network(c)
  <2> PICK c \in Commands : Command(c) \/ Abandon(c) \/ Network(c)
    BY <1>4
  <2>1. Target(c) \in Intents
    BY WriterFacts
  <2> QED  BY <2>1, QuietStep, BeginCommitStep, SettleStep, RecoverStep, ApplyReceiptStep,
              ServerStep DEF Command, Network
<1>5. CASE List \/ Tick
  BY <1>5, ListStep, TickStep
<1> QED  BY <1>1, <1>2, <1>3, <1>4, <1>5 DEF Next

-----------------------------------------------------------------------------
(* The theorems.                                                           *)

\* StoreInv holds in every reachable state.
THEOREM StoreInvariant == Spec => []StoreInv
  BY InitStore, StoreStep, PTL DEF Spec

\* The store keeps its schema and never holds more than MaxEntries intents,
\* however preparing, committing and pruning interleave.
THEOREM StoreTypeCorrect == Spec => []StoreTypeOK
  BY StoreInvariant, PTL DEF StoreInv

\* At most one POST is ever sent for an intent (the "committing" mark of commit
\* and its catch clause), whatever the number of commands that race for it.
THEOREM StoreDispatchesOnce == Spec => []OneDispatchPerIntent
<1>1. StoreInv => OneDispatchPerIntent
  BY DEF StoreInv, OneToucher, OneDispatchPerIntent, Touches
<1> QED  BY <1>1, StoreInvariant, PTL

\* An intent that is shown as prepared, denied or expired has caused nothing and
\* nothing of it is on its way.
THEOREM StoreIsUntouchedUntilCommitted == Spec => []UntouchedUntilCommitted
<1>1. StoreInv => UntouchedUntilCommitted
  <2> SUFFICES ASSUME StoreInv, NEW i \in Intents, Present(i),
                      store[i].state \in {"prepared", "denied", "expired"}
               PROVE  /\ ~published[i]
                      /\ \A c \in Commands : Target(c) = i => ~Dispatched(c)
    BY DEF UntouchedUntilCommitted
  <2>1. \A c \in Commands : Target(c) = i => ~Dispatched(c)
    BY DEF StoreInv, TouchedHasBegun, Touches, Begun, Present
  <2>2. verdict[i] = "absent"
    BY <2>1 DEF StoreInv, RecordedHasPost, Dispatched
  <2>3. ~published[i]
    BY <2>2 DEF StoreInv, ServerIsTrue
  <2> QED  BY <2>1, <2>3
<1> QED  BY <1>1, StoreInvariant, PTL

\* What the store says of a finished post or comment is what the server says.
THEOREM StoreAgrees == Spec => []StoreAgreesWithServer
  BY StoreInvariant, PTL DEF StoreInv

\* Why an intent may go: it is settled, or time has made it so.
Over(entry) ==
    \/ ~Pending(entry)
    \/ entry.state = "prepared" /\ entry.life >= TTL
    \/ entry.state = "committing" /\ entry.since >= CommitStale

\* Neither normalizing nor making room takes an intent that is not over.
LEMMA RoomTakesTheOver ==
    ASSUME StoreInv, NEW i \in Intents, Present(i), ~Over(store[i])
    PROVE  /\ Normalized(store)[i] # Gone
           /\ \A room \in WithRoom(Normalized(store)) : room \in StoreShape /\ room[i] # Gone
<1> DEFINE N == Normalized(store)
<1>1. store[i] \in Intent
  BY DEF StoreInv, StoreTypeOK, Present
<1>2. Aged(store[i]) = store[i] /\ Pending(store[i])
  BY <1>1 DEF Over, Aged, Pending, Intent, States
<1>3. N[i] = store[i]
  BY <1>1, <1>2, AbsenceAssumption DEF Normalized
<1>4. N[i] # Gone
  BY <1>1, <1>3, AbsenceAssumption
<1>5. i \notin Evictable(N)
  BY <1>2, <1>3 DEF Evictable
<1>6. \A j \in Evictable(N) : [N EXCEPT ![j] = Gone][i] # Gone
  BY <1>4, <1>5 DEF Normalized
<1>7. \A room \in WithRoom(N) : room = N \/ \E j \in Evictable(N) : room = [N EXCEPT ![j] = Gone]
  BY DEF WithRoom
<1>8. N \in StoreShape
  BY NormalizedKeeps DEF StoreInv, StoreTypeOK, StoreShape
<1>9. \A j \in Evictable(N) : [N EXCEPT ![j] = Gone] \in StoreShape
  BY <1>8 DEF StoreShape
<1> QED  BY <1>4, <1>6, <1>7, <1>8, <1>9

\* A section about one intent leaves a record there, and the others alone.
LEMMA WrittenIsPresent ==
    ASSUME NEW N \in StoreShape, NEW t \in Intents, N[t] \notin {Never, Gone},
           NEW s \in States, NEW i \in Intents, N[i] # Gone
    PROVE  /\ [N EXCEPT ![t].state = s, ![t].since = 0][i] # Gone
           /\ [N EXCEPT ![t].state = s][i] # Gone
<1>2. N[t] \in Intent
  BY DEF StoreShape
<1>3. 0 \in 0..Horizon
  BY StoreAssumption
<1>4. [N EXCEPT ![t].state = s, ![t].since = 0][t] \in Intent
  BY <1>2, <1>3 DEF StoreShape, Intent
<1>5. [N EXCEPT ![t].state = s][t] \in Intent
  BY <1>2 DEF StoreShape, Intent
<1>6. CASE i = t
  BY <1>4, <1>5, <1>6, AbsenceAssumption
<1>7. CASE i # t
  BY <1>7 DEF StoreShape
<1> QED  BY <1>6, <1>7

\* Only what is over ever goes.
LEMMA OnlyTheOverGo ==
    ASSUME StoreInv, [Next]_vars, NEW i \in Intents, Present(i), ~Over(store[i])
    PROVE  store'[i] # Gone
<1>0. store[i] \notin {Never, Gone} /\ store[i] \in Intent
  BY DEF Present, StoreInv, StoreTypeOK
<1>1. Normalized(store)[i] # Gone
  BY RoomTakesTheOver
<1>2. CASE UNCHANGED store
  BY <1>0, <1>2
<1> PICK N : N = Normalized(store)  OBVIOUS
<1>a. /\ N \in StoreShape
      /\ \A j \in Intents : Present(j) /\ N[j] # Gone => N[j] \notin {Never, Gone}
  <2>1. store \in StoreShape
    BY DEF StoreInv, StoreTypeOK, StoreShape
  <2> QED  BY <2>1, NormalizedKeeps, AbsenceAssumption
<1>3. ASSUME NEW j \in Intents, Prepare(j) PROVE store'[i] # Gone
  <2> PICK room \in WithRoom(Normalized(store)) :
        \/ store' = IF Normalized(store) = store THEN store ELSE room
        \/ store' = [room EXCEPT ![j] = [state |-> "prepared", life |-> 0, since |-> 0]]
    BY <1>3 DEF Prepare
  <2>1. room \in StoreShape /\ room[i] # Gone
    BY RoomTakesTheOver
  <2>2. i # j
    BY <1>0, <1>3 DEF Prepare
  <2>3. [room EXCEPT ![j] = [state |-> "prepared", life |-> 0, since |-> 0]][i] # Gone
    BY <2>1, <2>2 DEF StoreShape
  <2> QED  BY <1>0, <2>1, <2>3
<1>4. ASSUME NEW j \in Intents, Deny(j) PROVE store'[i] # Gone
  <2>1. \/ store' = N
        \/ store' = [N EXCEPT ![j].state = "denied"] /\ N[j] \notin {Never, Gone}
    BY <1>4, <1>a DEF Deny
  <2>2. N[j] \notin {Never, Gone} => [N EXCEPT ![j].state = "denied"][i] # Gone
    BY <1>1, <1>a, WrittenIsPresent DEF States
  <2> QED  BY <1>1, <2>1, <2>2
<1>5. ASSUME NEW c \in Commands, BeginCommit(c) \/ Settle(c) \/ Recover(c) \/ ApplyReceipt(c)
      PROVE  store'[i] # Gone
  <2> DEFINE t == Target(c)
  <2>1. t \in Intents
    BY WriterFacts
  <2>2. \/ store' = store \/ store' = N
        \/ /\ N[t] \notin {Never, Gone}
           /\ \E s \in States : store' = [N EXCEPT ![t].state = s, ![t].since = 0]
    <3>2. CASE BeginCommit(c)
      BY <1>a, <2>1, <3>2 DEF BeginCommit, SaveThen, States
    <3>3. CASE Settle(c)
      BY <1>a, <2>1, <3>3 DEF Settle, SaveThen, StateFor, States
    <3>4. CASE Recover(c)
      BY <1>a, <2>1, <3>4 DEF Recover, Recovered, States
    <3>5. CASE ApplyReceipt(c)
      BY <1>a, <2>1, <3>5 DEF ApplyReceipt, SaveThen, Applied, StateFor, States
    <3> QED  BY <1>5, <3>2, <3>3, <3>4, <3>5
  <2>3. \A s \in States : N[t] \notin {Never, Gone} =>
            [N EXCEPT ![t].state = s, ![t].since = 0][i] # Gone
    BY <1>1, <1>a, <2>1, WrittenIsPresent
  <2> QED  BY <1>0, <1>1, <2>2, <2>3
<1>6. CASE List
  BY <1>1, <1>6 DEF List
<1>7. CASE Tick
  <2>1. \A n \in 0..Horizon : Older(n) \in 0..Horizon
    BY StoreAssumption DEF Older
  <2>2. store'[i] = [store[i] EXCEPT !.life = Older(@),
                        !.since = IF store[i].state = "committing" THEN Older(@) ELSE @]
    BY <1>7 DEF Tick
  <2>3. store'[i] \in Intent
    BY <1>0, <2>1, <2>2 DEF Intent
  <2> QED  BY <2>3, AbsenceAssumption
<1>8. ASSUME NEW c \in Commands, Command(c) \/ Abandon(c) \/ Network(c) PROVE store'[i] # Gone
  <2>1. BeginCommit(c) \/ Settle(c) \/ Recover(c) \/ ApplyReceipt(c) \/ UNCHANGED store
    BY <1>8 DEF Command, Abandon, Network, Busy, Preflight, GiveUpOnPost, ReadStatus,
                BeginReconcile, Resolve, AcceptPost, RejectPost, LosePost, PublishPost, AnswerPost
  <2> QED  BY <2>1, <1>2, <1>5
<1>9. CASE \E j \in Intents : ServerDecides(j)
  BY <1>2, <1>9 DEF ServerDecides
<1>10. CASE UNCHANGED vars
  BY <1>2, <1>10 DEF vars
<1> QED  BY <1>3, <1>4, <1>6, <1>7, <1>8, <1>9, <1>10 DEF Next

\* Room is made, and old intents are pruned, only at the cost of those that are
\* settled or that time has settled (enforceCapacity, normalizeStore).
THEOREM StoreKeepsPending == Spec => PendingIsNeverEvicted
<1>1. StoreInv /\ [Next]_vars =>
        [\A i \in Intents :
           Present(i) /\ store'[i] = Gone /\ Pending(store[i]) =>
              \/ store[i].state = "prepared" /\ store[i].life >= TTL
              \/ store[i].state = "committing" /\ store[i].since >= CommitStale]_vars
  BY OnlyTheOverGo DEF Over
<1> QED  BY <1>1, StoreInvariant, PTL DEF Spec, PendingIsNeverEvicted

-----------------------------------------------------------------------------
(* What can become of a completed intent.                                   *)

Completed(entry) == entry.state \in {"committed", "failed"}

\* A reconcile is about a kind that has receipts, and what it applies is one.  An
\* action that it was told is unknown is so for good.
AppliesReceipts ==
    \A c \in Commands :
        /\ pc[c] \in {"resolve", "apply"} => Target(c) \in Social
        /\ pc[c] = "apply" => got[c] \in Receipts
        /\ pc[c] = "apply" /\ got[c] = "unknown" => verdict[Target(c)] = "unknown"

LEMMA AppliesReceiptsStep == StoreInv /\ AppliesReceipts /\ [Next]_vars => AppliesReceipts'
<1> SUFFICES ASSUME StoreInv, AppliesReceipts, [Next]_vars, NEW d \in Commands
             PROVE  /\ pc'[d] \in {"resolve", "apply"} => Target(d)' \in Social
                    /\ pc'[d] = "apply" => got'[d] \in Receipts
                    /\ pc'[d] = "apply" /\ got'[d] = "unknown" =>
                            verdict'[Target(d)'] = "unknown"
  BY DEF AppliesReceipts
<1>0. /\ pc \in [Commands -> Labels] /\ got \in [Commands -> Results]
      /\ verdict \in [Intents -> Server!Verdicts] /\ Target(d) \in Intents
  BY WriterFacts DEF StoreInv, StoreTypeOK, Server!AbstractTypeOK
<1>1. UNCHANGED cmd /\ Target(d)' = Target(d)
  BY DEF Next, Prepare, Deny, ServerDecides, Command, Abandon, Network, List, Tick, idling, vars,
         Busy, BeginCommit, Preflight, GiveUpOnPost, ReadStatus, Settle, Recover, BeginReconcile,
         Resolve, ApplyReceipt, AcceptPost, RejectPost, LosePost, PublishPost, AnswerPost, Target
\* The server does not take "unknown" back.
<1>2. verdict[Target(d)] = "unknown" => verdict'[Target(d)] = "unknown"
  <2>1. \/ UNCHANGED verdict
        \/ \E j \in Intents : \/ Server!Open(j) \/ Server!Commit(j)
                              \/ Server!Refuse(j) \/ Server!GiveUp(j)
    <3>1. CASE UNCHANGED vars           BY <3>1 DEF vars
    <3>2. ASSUME NEW j \in Intents, Prepare(j) \/ Deny(j) PROVE UNCHANGED verdict
      BY <3>2 DEF Prepare, Deny, idling
    <3>3. ASSUME NEW j \in Intents, ServerDecides(j) PROVE <2>1
      BY <3>3 DEF ServerDecides
    <3>4. ASSUME NEW c \in Commands, Command(c) \/ Abandon(c) PROVE UNCHANGED verdict
      BY <3>4 DEF Command, Abandon, Busy, BeginCommit, Preflight, GiveUpOnPost, ReadStatus,
                  Settle, Recover, BeginReconcile, Resolve, ApplyReceipt, server
    <3>5. ASSUME NEW c \in Commands, Network(c) PROVE <2>1
      <4>1. Target(c) \in Intents
        BY WriterFacts
      <4> QED
        BY <4>1, <3>5 DEF Network, AcceptPost, RejectPost, LosePost, PublishPost, AnswerPost,
                          server, Server!Publish
    <3>6. CASE List \/ Tick             BY <3>6 DEF List, Tick, idling
    <3> QED  BY <3>1, <3>2, <3>3, <3>4, <3>5, <3>6 DEF Next
  <2> QED
    BY <2>1, <1>0 DEF Server!Open, Server!Commit, Server!Refuse, Server!GiveUp, Server!Become
<1>3. CASE UNCHANGED <<pc, got>>
  BY <1>1, <1>2, <1>3 DEF AppliesReceipts
<1>4. ASSUME NEW c \in Commands, Command(c) \/ Abandon(c) \/ Network(c)
      PROVE  \/ pc'[d] = pc[d] /\ got'[d] = got[d]
             \/ pc'[d] \notin {"resolve", "apply"}
             \/ d = c /\ (BeginReconcile(c) \/ Resolve(c))
  <2>1. CASE Command(c)
    BY <2>1, <1>0 DEF Command, Busy, BeginCommit, Preflight, GiveUpOnPost, ReadStatus, Settle,
       Recover, ApplyReceipt, SaveThen, Goto, Return, BeginReconcile, Resolve
  <2>2. CASE Abandon(c)
    BY <2>2, <1>0 DEF Abandon, Goto
  <2>3. CASE Network(c)
    BY <2>3, <1>0 DEF Network, AcceptPost, RejectPost, LosePost, PublishPost, AnswerPost,
       Goto, Return
  <2> QED  BY <1>4, <2>1, <2>2, <2>3
<1>5. CASE BeginReconcile(d)
  BY <1>0, <1>1, <1>5 DEF BeginReconcile, Goto
<1>6. CASE Resolve(d)
  <2>1. pc[d] = "resolve" /\ got'[d] = ReceiptOf(verdict[Target(d)]) /\ UNCHANGED verdict
        /\ verdict[Target(d)] # "absent"
    BY <1>0, <1>6 DEF Resolve, Return, server
  <2> QED
    BY <1>0, <1>1, <2>1 DEF AppliesReceipts, ReceiptOf, Receipts, Server!Verdicts
<1>7. \/ UNCHANGED <<pc, got>>
      \/ \E c \in Commands : Command(c) \/ Abandon(c) \/ Network(c)
  BY DEF Next, Prepare, Deny, ServerDecides, List, Tick, idling, vars
<1> QED  BY <1>1, <1>2, <1>3, <1>4, <1>5, <1>6, <1>7 DEF AppliesReceipts

\* Normalizing leaves a completed intent as it is, or prunes it.
LEMMA NormalizedCompleted ==
    ASSUME StoreInv, NEW i \in Intents, Present(i), Completed(store[i])
    PROVE  Normalized(store)[i] \in {store[i], Gone}
<1>1. store[i] \in Intent
  BY DEF StoreInv, StoreTypeOK, Present
<1>2. Aged(store[i]) = store[i]
  BY <1>1 DEF Completed, Aged, Intent, States
<1> QED  BY <1>1, <1>2 DEF Normalized

LEMMA CompletedStep ==
    ASSUME StoreInv, AppliesReceipts, [Next]_vars,
           NEW i \in Intents, Present(i), Completed(store[i])
    PROVE  \/ store'[i] = Gone \/ store'[i].state = store[i].state
           \/ /\ store'[i].state = "unknown"
              /\ \E c \in Commands : pc[c] = "apply" /\ Target(c) = i /\ got[c] = "processing"
<1> DEFINE N == Normalized(store)
<1>0. store[i] \in Intent /\ store[i] \notin {Never, Gone}
  BY DEF StoreInv, StoreTypeOK, Present
<1>1. N[i] \in {store[i], Gone}
  BY NormalizedCompleted
<1>2. N \in StoreShape
  BY NormalizedKeeps DEF StoreInv, StoreTypeOK, StoreShape
<1> HIDE DEF N
<1>3. CASE UNCHANGED store \/ store' = N
  BY <1>1, <1>3
<1>4. ASSUME NEW j \in Intents, Prepare(j) PROVE store'[i] \in {store[i], Gone}
  <2> PICK room \in WithRoom(N) :
        \/ store' = IF N = store THEN store ELSE room
        \/ store' = [room EXCEPT ![j] = [state |-> "prepared", life |-> 0, since |-> 0]]
    BY <1>4 DEF Prepare, N
  <2>1. room = N \/ \E k \in Evictable(N) : room = [N EXCEPT ![k] = Gone]
    BY DEF WithRoom
  <2>2. room \in StoreShape /\ room[i] \in {store[i], Gone}
    BY <2>1, <1>1, <1>2 DEF StoreShape
  <2>3. i # j
    BY <1>0, <1>4 DEF Prepare
  <2>4. [room EXCEPT ![j] = [state |-> "prepared", life |-> 0, since |-> 0]][i] = room[i]
    BY <2>2, <2>3 DEF StoreShape
  <2> QED  BY <2>2, <2>4
<1>5. ASSUME NEW j \in Intents, Deny(j) PROVE store'[i] \in {store[i], Gone}
  <2>1. \/ store' = N
        \/ /\ N[j] # Gone /\ N[j].state = "prepared"
           /\ store' = [N EXCEPT ![j].state = "denied"]
    BY <1>5 DEF Deny, N
  <2>2. CASE store' = N
    BY <1>1, <2>2
  <2>3. CASE store' # N
    <3>1. i # j
      BY <2>1, <2>3, <1>1 DEF Completed
    <3> QED  BY <2>1, <2>3, <3>1, <1>1, <1>2 DEF StoreShape
  <2> QED  BY <2>2, <2>3
\* A commit writes only to an intent that is prepared or committing.
<1>6. ASSUME NEW c \in Commands, BeginCommit(c) \/ Settle(c) \/ Recover(c)
      PROVE  store'[i] \in {store[i], Gone}
  <2> DEFINE t == Target(c)
  <2>1. \/ store' = store \/ store' = N
        \/ /\ N[t] # Gone /\ N[t].state \in {"prepared", "committing"}
           /\ \E s \in States : store' = [N EXCEPT ![t].state = s, ![t].since = 0]
    <3>1. CASE BeginCommit(c)
      BY <3>1 DEF BeginCommit, SaveThen, Committable, States, N
    <3>2. CASE Settle(c)
      BY <3>2 DEF Settle, SaveThen, StateFor, States, N
    <3>3. CASE Recover(c)
      BY <3>3 DEF Recover, Recovered, States, N
    <3> QED  BY <1>6, <3>1, <3>2, <3>3
  <2>2. CASE store' = store \/ store' = N
    BY <1>1, <2>2
  <2>3. CASE ~(store' = store \/ store' = N)
    <3>1. i # t
      BY <2>1, <2>3, <1>1 DEF Completed
    <3> QED  BY <2>1, <2>3, <3>1, <1>1, <1>2 DEF StoreShape
  <2> QED  BY <2>2, <2>3
\* A reconcile writes what it was told, and a final answer is what the store says.
<1>7. ASSUME NEW c \in Commands, ApplyReceipt(c)
      PROVE  \/ store'[i] \in {store[i], Gone} \/ store'[i].state = store[i].state
             \/ /\ store'[i].state = "unknown" /\ pc[c] = "apply" /\ Target(c) = i
                /\ got[c] = "processing"
  <2> DEFINE t == Target(c)
  <2>1. \/ store' = store
        \/ N[t] # Gone /\ store' = [N EXCEPT ![t].state = StateFor(got[c]), ![t].since = 0]
    BY <1>7 DEF ApplyReceipt, SaveThen, Applied, N
  <2>2. pc[c] = "apply" /\ t \in Social /\ got[c] \in Receipts
        /\ (got[c] = "unknown" => verdict[t] = "unknown")
    BY <1>7 DEF ApplyReceipt, AppliesReceipts
  <2>3. got[c] \in {"committed", "failed"} => verdict[t] = got[c]
    BY <2>2 DEF StoreInv, HeardIsTrue
  <2>4. CASE store' = store
    BY <2>4
  <2>5. CASE store' # store /\ t # i
    BY <2>1, <2>5, <1>1, <1>2 DEF StoreShape
  <2>6. CASE store' # store /\ t = i
    <3>1. N[i] = store[i] /\ store'[i] = [store[i] EXCEPT !.state = StateFor(got[c]), !.since = 0]
      BY <2>1, <2>6, <1>1, <1>2 DEF StoreShape
    <3>2. store'[i].state = StateFor(got[c])
      BY <3>1, <1>0 DEF Intent
    <3>3. verdict[i] = store[i].state
      BY <2>2, <2>6 DEF StoreInv, StoreAgreesWithServer, Completed
    <3>4. got[c] = "processing" \/ got[c] = store[i].state
      BY <2>2, <2>3, <2>6, <3>3 DEF Receipts, Completed
    <3> QED  BY <2>2, <2>6, <3>2, <3>4 DEF StateFor, Completed
  <2> QED  BY <2>4, <2>5, <2>6
<1>8. CASE Tick
  <2>1. store'[i] = [store[i] EXCEPT !.life = Older(@),
                        !.since = IF store[i].state = "committing" THEN Older(@) ELSE @]
    BY <1>8 DEF Tick
  <2> QED  BY <2>1, <1>0 DEF Intent
<1>9. ASSUME NEW c \in Commands, Command(c) \/ Abandon(c) \/ Network(c)
      PROVE  BeginCommit(c) \/ Settle(c) \/ Recover(c) \/ ApplyReceipt(c) \/ UNCHANGED store
  BY <1>9 DEF Command, Abandon, Network, Busy, Preflight, GiveUpOnPost, ReadStatus,
              BeginReconcile, Resolve, AcceptPost, RejectPost, LosePost, PublishPost, AnswerPost
<1>10. CASE \E j \in Intents : ServerDecides(j)
  BY <1>3, <1>10 DEF ServerDecides
<1>11. CASE UNCHANGED vars
  BY <1>3, <1>11 DEF vars
<1>12. CASE List
  BY <1>3, <1>12 DEF List, N
<1> QED  BY <1>3, <1>4, <1>5, <1>6, <1>7, <1>8, <1>9, <1>10, <1>11, <1>12 DEF Next

\* A completed intent is undone by one thing only: a reconcile that was told
\* "processing" before the intent was completed and writes it down afterwards.  It
\* leaves "unknown", never the other verdict (the reconcile of src/action-intents.js).
THEOREM StoreUndoneByOldNewsOnly == Spec => OnlyOldNewsUndoes
<1>1. Init => AppliesReceipts
  BY DEF Init, AppliesReceipts
<1>2. StoreInv /\ AppliesReceipts /\ [Next]_vars =>
        [\A i \in Intents :
           Present(i) /\ store[i].state \in {"committed", "failed"} =>
              \/ store'[i] = Gone \/ store'[i].state = store[i].state
              \/ /\ store'[i].state = "unknown"
                 /\ \E c \in Commands : /\ pc[c] = "apply" /\ Target(c) = i
                                        /\ got[c] = "processing"]_vars
  BY CompletedStep DEF Completed
<1> QED  BY <1>1, <1>2, AppliesReceiptsStep, StoreInvariant, PTL DEF Spec, OnlyOldNewsUndoes
=============================================================================

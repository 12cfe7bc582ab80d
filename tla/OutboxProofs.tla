---------------------------- MODULE OutboxProofs ----------------------------
(***************************************************************************)
(* What Outbox guarantees for any number of replies, of overlapping drains *)
(* and of attempts.  Two arguments: every delivery and every send that is  *)
(* still owed is paid for by an attempt counted before it; and a row that  *)
(* no two drains held, and whose deliveries were all noticed, has either   *)
(* not been delivered, or is in the hands of the drain that noticed it, or *)
(* is 'sent' and out of reach of every claim.                              *)
(***************************************************************************)
EXTENDS Outbox, FiniteSetTheorems, TLAPS

\* The drains that may still send a row.
Owed(r) ==
  {d \in Drains : \/ r \in drain[d].todo
                  \/ drain[d].at = "sending" /\ drain[d].row = r}

\* A drain works on one row, queued once, that it has taken off its list.
HeldRows ==
  \A d \in Drains :
    /\ drain[d].row \notin drain[d].todo
    /\ \A r \in Held(d) : state[r] # "absent"

DebtsAreCounted ==
  \A r \in Replies : deliveries[r] + Cardinality(Owed(r)) <= attempts[r]

AcceptedWasDelivered ==
  \A d \in Drains : drain[d].at = "accepted" => deliveries[drain[d].row] > 0

\* A row that some drain marked 'sent' was delivered.
SentWasDelivered ==
  \A r \in Replies : state[r] = "sent" => deliveries[r] > 0

SharedIsUnsure ==
  \A d, e \in Drains : d # e => Held(d) \cap Held(e) \subseteq unsure

\* A delivery that was noticed is on its way to 'sent' or there.
SureDeliveries ==
  \A r \in Replies \ unsure : deliveries[r] > 0 =>
    /\ deliveries[r] = 1
    /\ \/ \E d \in Drains : drain[d].at = "accepted" /\ drain[d].row = r
       \/ state[r] = "sent" /\ \A d \in Drains : r \notin Held(d)

IInv ==
  /\ TypeOK
  /\ HeldRows
  /\ DebtsAreCounted
  /\ AcceptedWasDelivered
  /\ SentWasDelivered
  /\ SharedIsUnsure
  /\ SureDeliveries

\* Finitely many drains owe a row a send.
LEMMA OwedIsFinite ==
  ASSUME NEW r
  PROVE  IsFiniteSet(Owed(r)) /\ Cardinality(Owed(r)) \in Nat
BY OutboxAssumption, FS_Subset, FS_CardinalityType DEF Owed

\* The invariant holds at the start.
LEMMA InitIInv == Init => IInv
<1> SUFFICES ASSUME Init PROVE IInv
  OBVIOUS
<1> USE DEF Init
<1>1. TypeOK BY OutboxAssumption DEF TypeOK, States, DueStates, DrainStates, Idle
<1>2. ASSUME NEW r \in Replies PROVE Owed(r) = {} BY OutboxAssumption DEF Owed, Idle
<1>3. DebtsAreCounted
  <2>1. ASSUME NEW r \in Replies PROVE Cardinality(Owed(r)) = 0 BY <1>2, FS_EmptySet
  <2>2. QED BY <2>1 DEF DebtsAreCounted
<1>4. HeldRows /\ AcceptedWasDelivered /\ SentWasDelivered /\ SharedIsUnsure /\ SureDeliveries
  BY OutboxAssumption DEF HeldRows, AcceptedWasDelivered, SentWasDelivered, SharedIsUnsure,
     SureDeliveries, Held, Idle
<1>5. QED BY <1>1, <1>3, <1>4 DEF IInv

\* A sure row that a drain holds without having seen it accepted is undelivered.
LEMMA HeldIsUndelivered ==
  ASSUME IInv, NEW d \in Drains, NEW r \in Held(d) \ unsure,
         drain[d].at = "accepted" => drain[d].row # r
  PROVE  deliveries[r] = 0
<1>1. r \in Replies BY DEF IInv, TypeOK, Held
<1>2. ASSUME NEW e \in Drains, drain[e].at = "accepted", drain[e].row = r
      PROVE  FALSE
  <2>1. r \in Held(e) BY <1>1, <1>2, OutboxAssumption DEF Held
  <2>2. QED BY <1>2, <2>1 DEF IInv, SharedIsUnsure
<1>3. QED BY <1>1, <1>2 DEF IInv, TypeOK, SureDeliveries

\* A new row, or the passing of time, touches no drain.
LEMMA QueueIInv ==
  ASSUME IInv, NEW r \in Replies, Enqueue(r) \/ Clock(r)
  PROVE  IInv'
<1> USE DEF Enqueue, Clock, SendAfterPasses, WindowCloses
<1>1. TypeOK' BY DEF IInv, TypeOK, States, DueStates
<1>2. UNCHANGED <<attempts, drain, deliveries, unsure>> OBVIOUS
<1>3. \A q \in Replies : state[q] # "absent" => state'[q] = state[q] BY DEF IInv, TypeOK
<1>4. HeldRows' BY <1>2, <1>3 DEF IInv, TypeOK, HeldRows, Held
<1>5. DebtsAreCounted' BY <1>2 DEF IInv, DebtsAreCounted, Owed
<1>6. AcceptedWasDelivered' /\ SharedIsUnsure'
  BY <1>2 DEF IInv, AcceptedWasDelivered, SharedIsUnsure, Held
<1>7. SentWasDelivered' BY <1>2 DEF IInv, TypeOK, SentWasDelivered
<1>8. SureDeliveries' BY <1>2, <1>3 DEF IInv, TypeOK, SureDeliveries, Held
<1>9. QED BY <1>1, <1>4, <1>5, <1>6, <1>7, <1>8 DEF IInv

\* A claim counts an attempt for every debt it takes on.
LEMMA ClaimIInv ==
  ASSUME IInv, NEW d \in Drains, Claim(d)
  PROVE  IInv'
<1>1. PICK batch \in SUBSET (Pending \ Missed) :
        /\ \A r \in batch : attempts[r] < MaxAttempts
        /\ attempts' = [r \in Replies |-> IF r \in batch THEN attempts[r] + 1
                                                         ELSE attempts[r]]
        /\ drain' = [drain EXCEPT ![d].todo = batch]
        /\ unsure' = unsure \cup (batch \cap UNION {Held(e) : e \in Drains})
  BY DEF Claim, HasAttempts, Counted
<1>2. /\ drain[d] = Idle
      /\ state' = [r \in Replies |-> IF r \in Missed THEN "skipped_window" ELSE state[r]]
      /\ UNCHANGED <<due, deliveries, deaths>>
  BY DEF Claim
<1>3. /\ drain'[d].at = "loop" /\ drain'[d].todo = batch /\ drain'[d].row = None
      /\ Held(d) = {} /\ Held(d)' = batch
      /\ \A e \in Drains \ {d} : drain'[e] = drain[e] /\ Held(e)' = Held(e)
  BY <1>1, <1>2 DEF IInv, TypeOK, Held, Idle
<1>4. batch \subseteq Replies /\ \A r \in batch : state[r] = "pending" /\ state'[r] = "pending"
  BY <1>1, <1>2 DEF Pending
<1>5. TypeOK'
  BY <1>1, <1>2, <1>4, OutboxAssumption DEF IInv, TypeOK, States, Idle
<1>6. HeldRows'
  <2>1. \A r \in Replies : state[r] # "absent" => state'[r] # "absent" BY <1>2
  <2>2. \A e \in Drains : Held(e) \subseteq Replies BY DEF IInv, TypeOK, Held
  <2>3. None \notin batch BY <1>4, OutboxAssumption
  <2>4. ASSUME NEW e \in Drains
        PROVE  drain'[e].row \notin drain'[e].todo /\ \A r \in Held(e)' : state'[r] # "absent"
    <3>1. CASE e = d BY <3>1, <2>3, <1>3, <1>4
    <3>2. CASE e # d BY <3>2, <2>1, <2>2, <1>3 DEF IInv, HeldRows
    <3>3. QED BY <3>1, <3>2
  <2>5. QED BY <2>4 DEF HeldRows
<1>7. DebtsAreCounted'
  <2> SUFFICES ASSUME NEW r \in Replies
               PROVE  deliveries[r] + Cardinality(Owed(r)') <= attempts'[r]
    BY <1>2 DEF DebtsAreCounted
  <2>1. CASE r \in batch
    <3>1. Owed(r)' = Owed(r) \cup {d} /\ d \notin Owed(r)
      BY <2>1, <1>2, <1>3, OutboxAssumption DEF Owed, Idle
    <3>2. Cardinality(Owed(r)') = Cardinality(Owed(r)) + 1
      BY <3>1, OwedIsFinite, FS_AddElement
    <3>3. QED BY <2>1, <3>2, <1>1, OwedIsFinite DEF IInv, TypeOK, DebtsAreCounted
  <2>2. CASE r \notin batch
    <3>1. Owed(r)' = Owed(r) BY <2>2, <1>2, <1>3, OutboxAssumption DEF Owed, Idle
    <3>2. QED BY <2>2, <3>1, <1>1 DEF IInv, DebtsAreCounted
  <2>3. QED BY <2>1, <2>2
<1>8. AcceptedWasDelivered' BY <1>2, <1>3 DEF IInv, AcceptedWasDelivered
<1>9. SentWasDelivered' BY <1>2 DEF IInv, SentWasDelivered
<1>10. SharedIsUnsure' BY <1>1, <1>3 DEF IInv, SharedIsUnsure
<1>11. SureDeliveries'
  <2> SUFFICES ASSUME NEW r \in Replies \ unsure', deliveries[r] > 0
               PROVE  /\ deliveries[r] = 1
                      /\ \/ \E e \in Drains : drain'[e].at = "accepted" /\ drain'[e].row = r
                         \/ state'[r] = "sent" /\ \A e \in Drains : r \notin Held(e)'
    BY <1>2 DEF SureDeliveries
  <2>1. r \notin unsure BY <1>1
  <2>2. deliveries[r] = 1 BY <2>1 DEF IInv, SureDeliveries
  <2>3. CASE \E e \in Drains : drain[e].at = "accepted" /\ drain[e].row = r
    BY <2>2, <2>3, <1>2, <1>3 DEF Idle
  <2>4. CASE state[r] = "sent" /\ \A e \in Drains : r \notin Held(e)
    <3>1. r \notin batch /\ r \notin Missed BY <2>4, <1>4 DEF Missed, Pending
    <3>2. QED BY <2>2, <2>4, <3>1, <1>2, <1>3
  <2>5. QED BY <2>1, <2>3, <2>4 DEF IInv, SureDeliveries
<1>12. QED BY <1>5, <1>6, <1>7, <1>8, <1>9, <1>10, <1>11 DEF IInv

\* A drain gives up what it holds, one row or all of them.
LEMMA LoseIInv ==
  ASSUME IInv, NEW d \in Drains, NoRoute(d) \/ Dies(d)
  PROVE  IInv'
<1>1. /\ drain' = [drain EXCEPT ![d] = drain'[d]]
      /\ drain'[d].at = "loop" /\ drain'[d].row = None
      /\ drain'[d].todo \in SUBSET drain[d].todo
      /\ UNCHANGED <<attempts, due, deliveries>>
  BY DEF IInv, TypeOK, NoRoute, Dies, Idle
<1>2. Held(d)' \subseteq Held(d) /\ \A e \in Drains \ {d} : drain'[e] = drain[e] /\ Held(e)' = Held(e)
  BY <1>1 DEF IInv, TypeOK, Held
<1>3. unsure \subseteq unsure' /\ unsure' \subseteq Replies
  BY OutboxAssumption DEF IInv, TypeOK, NoRoute, Dies
<1>4. \A r \in Replies : state'[r] = state[r] \/ (NoRoute(d) /\ r \in drain[d].todo /\ state'[r] = "failed")
  BY DEF IInv, TypeOK, NoRoute, Dies
<1>5. TypeOK'
  <2>1. drain'[d] \in [at : DrainStates, todo : SUBSET Replies, row : Replies \cup {None}]
    BY DEF IInv, TypeOK, NoRoute, Dies, Idle, DrainStates
  <2>2. /\ drain' \in [Drains -> [at : DrainStates, todo : SUBSET Replies,
                                 row : Replies \cup {None}]]
        /\ \A e \in Drains : drain'[e].at = "loop" <=> drain'[e].row = None
    BY <2>1, <1>1 DEF IInv, TypeOK
  <2>3. state' \in [Replies -> States] /\ deaths' \in 0..MaxDeaths
    BY OutboxAssumption DEF IInv, TypeOK, NoRoute, Dies, States
  <2>4. QED BY <2>2, <2>3, <1>1, <1>3 DEF IInv, TypeOK
<1>6. HeldRows'
  BY <1>1, <1>2, <1>4, OutboxAssumption DEF IInv, TypeOK, HeldRows, Held
<1>7. DebtsAreCounted'
  <2> SUFFICES ASSUME NEW r \in Replies
               PROVE  deliveries[r] + Cardinality(Owed(r)') <= attempts[r]
    BY <1>1 DEF DebtsAreCounted
  <2>1. Owed(r)' \subseteq Owed(r) BY <1>1, <1>2, OutboxAssumption DEF Owed
  <2>2. Cardinality(Owed(r)') <= Cardinality(Owed(r)) /\ Cardinality(Owed(r)') \in Nat
    BY <2>1, OwedIsFinite, FS_Subset, FS_CardinalityType
  <2>3. QED BY <2>2, OwedIsFinite DEF IInv, TypeOK, DebtsAreCounted
<1>8. AcceptedWasDelivered' BY <1>1, <1>2 DEF IInv, AcceptedWasDelivered
<1>9. SentWasDelivered' BY <1>1, <1>4 DEF IInv, SentWasDelivered
<1>10. SharedIsUnsure' BY <1>2, <1>3 DEF IInv, SharedIsUnsure
<1>11. SureDeliveries'
  <2> SUFFICES ASSUME NEW r \in Replies \ unsure', deliveries[r] > 0
               PROVE  /\ deliveries[r] = 1
                      /\ \/ \E e \in Drains : drain'[e].at = "accepted" /\ drain'[e].row = r
                         \/ state'[r] = "sent" /\ \A e \in Drains : r \notin Held(e)'
    BY <1>1 DEF SureDeliveries
  <2>1. r \notin unsure /\ deliveries[r] = 1 BY <1>3 DEF IInv, SureDeliveries
  <2>2. CASE \E e \in Drains : drain[e].at = "accepted" /\ drain[e].row = r
    <3>1. PICK e \in Drains : drain[e].at = "accepted" /\ drain[e].row = r BY <2>2
    <3>2. e # d BY <3>1, <2>1 DEF NoRoute, Dies
    <3>3. QED BY <2>1, <3>1, <3>2, <1>2
  <2>3. CASE state[r] = "sent" /\ \A e \in Drains : r \notin Held(e)
    <3>1. state'[r] = "sent" BY <2>3, <1>4 DEF Held
    <3>2. QED BY <2>1, <2>3, <3>1, <1>2
  <2>4. QED BY <2>1, <2>2, <2>3 DEF IInv, SureDeliveries
<1>12. QED BY <1>5, <1>6, <1>7, <1>8, <1>9, <1>10, <1>11 DEF IInv

\* A send changes who holds a row by nothing; a delivery is paid by its debt.
LEMMA SendIInv ==
  ASSUME IInv, NEW d \in Drains, Send(d) \/ MetaAccepts(d) \/ SendFails(d)
  PROVE  IInv'
<1>0. UNCHANGED <<state, attempts, due, deaths>> BY DEF Send, MetaAccepts, SendFails
<1>1. Held(d)' = Held(d) /\ \A e \in Drains \ {d} : drain'[e] = drain[e] /\ Held(e)' = Held(e)
  BY OutboxAssumption DEF IInv, TypeOK, HeldRows, Held, Send, MetaAccepts, SendFails
<1>2. unsure \subseteq unsure' BY DEF Send, MetaAccepts, SendFails
<1>3. drain[d].at = "sending" => drain[d].row \in Replies /\ drain[d].row \in Held(d)
  BY OutboxAssumption DEF IInv, TypeOK, Held
<1>4. TypeOK'
  BY <1>3, OutboxAssumption DEF IInv, TypeOK, Send, MetaAccepts, SendFails, DrainStates
<1>5. HeldRows'
  BY <1>0, <1>1 DEF IInv, TypeOK, HeldRows, Send, MetaAccepts, SendFails
<1>6. SharedIsUnsure' BY <1>1, <1>2 DEF IInv, SharedIsUnsure
<1>7. \A r \in Replies :
        \/ /\ deliveries'[r] = deliveries[r]
           /\ Owed(r)' \subseteq Owed(r)
        \/ /\ deliveries'[r] = deliveries[r] + 1
           /\ drain[d].at = "sending" /\ drain[d].row = r
           /\ d \in Owed(r) /\ Owed(r)' = Owed(r) \ {d}
  BY <1>1 DEF IInv, TypeOK, HeldRows, Owed, Send, MetaAccepts, SendFails
<1>8. DebtsAreCounted'
  <2> SUFFICES ASSUME NEW r \in Replies
               PROVE  deliveries'[r] + Cardinality(Owed(r)') <= attempts[r]
    BY <1>0 DEF DebtsAreCounted
  <2>1. CASE deliveries'[r] = deliveries[r] /\ Owed(r)' \subseteq Owed(r)
    <3>1. Cardinality(Owed(r)') <= Cardinality(Owed(r)) /\ Cardinality(Owed(r)') \in Nat
      BY <2>1, OwedIsFinite, FS_Subset, FS_CardinalityType
    <3>2. QED BY <2>1, <3>1, OwedIsFinite DEF IInv, TypeOK, DebtsAreCounted
  <2>2. CASE deliveries'[r] = deliveries[r] + 1 /\ d \in Owed(r) /\ Owed(r)' = Owed(r) \ {d}
    <3>1. Cardinality(Owed(r)') = Cardinality(Owed(r)) - 1
      BY <2>2, OwedIsFinite, FS_RemoveElement
    <3>2. QED BY <2>2, <3>1, OwedIsFinite DEF IInv, TypeOK, DebtsAreCounted
  <2>3. QED BY <2>1, <2>2, <1>7
<1>9. AcceptedWasDelivered'
  BY <1>1, <1>3, <1>7 DEF IInv, TypeOK, AcceptedWasDelivered, Send, MetaAccepts, SendFails
<1>10. SentWasDelivered' BY <1>0, <1>7 DEF IInv, TypeOK, SentWasDelivered
<1>11. SureDeliveries'
  <2> SUFFICES ASSUME NEW r \in Replies \ unsure', deliveries'[r] > 0
               PROVE  /\ deliveries'[r] = 1
                      /\ \/ \E e \in Drains : drain'[e].at = "accepted" /\ drain'[e].row = r
                         \/ state[r] = "sent" /\ \A e \in Drains : r \notin Held(e)'
    BY <1>0 DEF SureDeliveries
  <2>1. r \notin unsure BY <1>2
  <2>2. CASE deliveries'[r] = deliveries[r] + 1 /\ drain[d].at = "sending" /\ drain[d].row = r
    <3>1. deliveries[r] = 0 BY <2>1, <2>2, <1>3, HeldIsUndelivered
    <3>2. MetaAccepts(d) BY <2>2 DEF Send, SendFails, IInv, TypeOK
    <3>3. drain'[d].at = "accepted" /\ drain'[d].row = r
      BY <2>2, <3>2 DEF MetaAccepts, IInv, TypeOK
    <3>4. QED BY <2>2, <3>1, <3>3
  <2>3. CASE deliveries'[r] = deliveries[r]
    <3>1. CASE \E e \in Drains : drain[e].at = "accepted" /\ drain[e].row = r
      <4>1. PICK e \in Drains : drain[e].at = "accepted" /\ drain[e].row = r BY <3>1
      <4>2. e # d BY <4>1 DEF Send, MetaAccepts, SendFails
      <4>3. QED BY <2>1, <2>3, <4>1, <4>2, <1>1 DEF IInv, SureDeliveries
    <3>2. CASE state[r] = "sent" /\ \A e \in Drains : r \notin Held(e)
      BY <2>1, <2>3, <3>2, <1>1 DEF IInv, SureDeliveries
    <3>3. QED BY <2>1, <2>3, <3>1, <3>2 DEF IInv, SureDeliveries
  <2>4. QED BY <2>2, <2>3, <1>7
<1>12. QED BY <1>4, <1>5, <1>6, <1>8, <1>9, <1>10, <1>11 DEF IInv

\* The outcome of a send: only a drain that saw the delivery writes 'sent'.
LEMMA MarkIInv ==
  ASSUME IInv, NEW d \in Drains, MarkSent(d) \/ MarkPermanent(d) \/ MarkRetry(d)
  PROVE  IInv'
<1> DEFINE q == drain[d].row
<1>1. /\ q \in Replies /\ q \in Held(d) /\ q \notin drain[d].todo
      /\ drain[d].at \in {"accepted", "refused", "rejected"}
  BY OutboxAssumption DEF IInv, TypeOK, HeldRows, Held, MarkSent, MarkPermanent, MarkRetry
<1>2. /\ state' \in {[state EXCEPT ![q] = s] : s \in {"sent", "failed", "pending"}}
      /\ drain' = [drain EXCEPT ![d].at = "loop", ![d].row = None]
      /\ UNCHANGED <<attempts, deliveries, unsure, deaths>>
      /\ due' \in [Replies -> DueStates]
  BY <1>1 DEF MarkSent, MarkPermanent, MarkRetry, Marks, SentState, PermanentState, IInv, TypeOK,
     DueStates
<1>3. /\ drain'[d].at = "loop" /\ drain'[d].row = None /\ drain'[d].todo = drain[d].todo
      /\ \A e \in Drains \ {d} : drain'[e] = drain[e] /\ Held(e)' = Held(e)
      /\ Held(d)' = Held(d) \ {q}
  BY <1>1, <1>2 DEF IInv, TypeOK, Held
<1>4. /\ state'[q] = "sent" <=> drain[d].at = "accepted"
      /\ state'[q] \in {"sent", "failed", "pending"}
      /\ \A r \in Replies \ {q} : state'[r] = state[r]
  BY <1>1 DEF MarkSent, MarkPermanent, MarkRetry, Marks, SentState, PermanentState, IInv, TypeOK
<1>5. TypeOK'
  BY <1>1, <1>2, OutboxAssumption DEF IInv, TypeOK, States, DrainStates
<1>6. HeldRows'
  BY <1>1, <1>3, <1>4, OutboxAssumption DEF IInv, TypeOK, HeldRows, Held
<1>7. DebtsAreCounted'
  <2>1. ASSUME NEW r \in Replies PROVE Owed(r)' = Owed(r)
    BY <1>1, <1>3, OutboxAssumption DEF Owed
  <2>2. QED BY <2>1, <1>2 DEF IInv, DebtsAreCounted
<1>8. AcceptedWasDelivered' BY <1>2, <1>3 DEF IInv, AcceptedWasDelivered
<1>9. SentWasDelivered'
  BY <1>2, <1>4 DEF IInv, AcceptedWasDelivered, SentWasDelivered
<1>10. SharedIsUnsure' BY <1>2, <1>3 DEF IInv, SharedIsUnsure
<1>11. SureDeliveries'
  <2> SUFFICES ASSUME NEW r \in Replies \ unsure, deliveries[r] > 0
               PROVE  /\ deliveries[r] = 1
                      /\ \/ \E e \in Drains : drain'[e].at = "accepted" /\ drain'[e].row = r
                         \/ state'[r] = "sent" /\ \A e \in Drains : r \notin Held(e)'
    BY <1>2 DEF SureDeliveries
  <2>1. deliveries[r] = 1 BY DEF IInv, SureDeliveries
  <2>2. CASE r = q
    <3>1. drain[d].at = "accepted" BY <2>1, <2>2, <1>1, HeldIsUndelivered
    <3>2. \A e \in Drains : r \notin Held(e)'
      BY <2>2, <1>1, <1>3 DEF IInv, SharedIsUnsure
    <3>3. QED BY <2>1, <2>2, <3>1, <3>2, <1>4
  <2>3. CASE r # q
    BY <2>1, <2>3, <1>3, <1>4 DEF IInv, SureDeliveries
  <2>4. QED BY <2>2, <2>3
<1>12. QED BY <1>5, <1>6, <1>7, <1>8, <1>9, <1>10, <1>11 DEF IInv

\* Every step preserves the invariant.
LEMMA NextIInv == IInv /\ [Next]_vars => IInv'
<1> SUFFICES ASSUME IInv, [Next]_vars PROVE IInv'
  OBVIOUS
<1>1. CASE UNCHANGED vars
  BY <1>1 DEF IInv, TypeOK, HeldRows, DebtsAreCounted, AcceptedWasDelivered, SentWasDelivered,
     SharedIsUnsure, SureDeliveries, Held, Owed, vars
<1>2. ASSUME NEW d \in Drains, Claim(d) \/ Turn(d) \/ Dies(d) PROVE IInv'
  <2>1. CASE Claim(d) BY <2>1, ClaimIInv
  <2>2. CASE NoRoute(d) \/ Dies(d) BY <2>2, LoseIInv
  <2>3. CASE Send(d) \/ MetaAccepts(d) \/ SendFails(d) BY <2>3, SendIInv
  <2>4. CASE MarkSent(d) \/ MarkPermanent(d) \/ MarkRetry(d) BY <2>4, MarkIInv
  <2>5. QED BY <1>2, <2>1, <2>2, <2>3, <2>4 DEF Turn
<1>3. QED BY <1>1, <1>2, QueueIInv DEF Next

\* The invariant holds in every reachable state.
LEMMA Invariance == Spec => []IInv
BY InitIInv, NextIInv, PTL DEF Spec

\* The rows and the drains keep their types, attempts within _MAX_ATTEMPTS.
THEOREM OutboxTypeCorrect == Spec => []TypeOK
BY Invariance, PTL DEF IInv

\* However many drains overlap, a reply is delivered at most _MAX_ATTEMPTS
\* times, and each time for an attempt that claim_pending has counted.
THEOREM AttemptsBoundDeliveries == Spec => []DeliveriesAreCounted
<1>1. IInv => DeliveriesAreCounted
  <2> SUFFICES ASSUME IInv, NEW r \in Replies
               PROVE  deliveries[r] <= attempts[r] /\ attempts[r] <= MaxAttempts
    BY DEF DeliveriesAreCounted
  <2>1. deliveries[r] <= attempts[r] BY OwedIsFinite DEF IInv, TypeOK, DebtsAreCounted
  <2>2. attempts[r] <= MaxAttempts BY OutboxAssumption DEF IInv, TypeOK
  <2>3. QED BY <2>1, <2>2
<1>2. QED BY <1>1, Invariance, PTL

\* A second delivery comes from a row held twice or a delivery unnoticed.
THEOREM SecondDeliveriesHaveCauses == Spec => []SecondDeliveryHasCause
<1>1. IInv => SecondDeliveryHasCause
  BY DEF IInv, TypeOK, SureDeliveries, SecondDeliveryHasCause
<1>2. QED BY <1>1, Invariance, PTL

-----------------------------------------------------------------------------
(* What a row says at rest.                                                *)

\* While one drain alone holds a row, nothing but the window's sweep moves it.
HeldIsNotFinal ==
  \A d \in Drains : \A r \in Held(d) \ unsure : state[r] \in {"pending", "skipped_window"}

\* Every step keeps the row of a single holder out of the final states.
LEMMA NextHeldIsNotFinal == IInv /\ HeldIsNotFinal /\ [Next]_vars => HeldIsNotFinal'
<1> SUFFICES ASSUME IInv, HeldIsNotFinal, [Next]_vars,
                    NEW d \in Drains, NEW r \in Held(d)', r \notin unsure'
             PROVE  state'[r] \in {"pending", "skipped_window"}
  BY DEF HeldIsNotFinal
<1>1. CASE UNCHANGED vars BY <1>1 DEF vars, HeldIsNotFinal, Held
<1>2. ASSUME NEW q \in Replies, Enqueue(q) \/ Clock(q)
      PROVE  state'[r] \in {"pending", "skipped_window"}
  <2>1. r \in Held(d) /\ r \notin unsure /\ r \in Replies
    BY <1>2 DEF Enqueue, Clock, SendAfterPasses, WindowCloses, Held, IInv, TypeOK
  <2>2. state'[r] = state[r]
    BY <1>2, <2>1 DEF Enqueue, Clock, SendAfterPasses, WindowCloses, HeldIsNotFinal, IInv, TypeOK
  <2>3. QED BY <2>1, <2>2 DEF HeldIsNotFinal
<1>3. ASSUME NEW e \in Drains, Claim(e)
      PROVE  state'[r] \in {"pending", "skipped_window"}
  <2>1. PICK batch \in SUBSET (Pending \ Missed) :
          /\ drain' = [drain EXCEPT ![e].todo = batch]
          /\ unsure' = unsure \cup (batch \cap UNION {Held(x) : x \in Drains})
    BY <1>3 DEF Claim
  <2>2. /\ drain[e] = Idle
        /\ state' = [q \in Replies |-> IF q \in Missed THEN "skipped_window" ELSE state[q]]
    BY <1>3 DEF Claim
  <2>3. r \in Held(d) \/ r \in batch BY <2>1, <2>2 DEF IInv, TypeOK, Held, Idle
  <2>4. r \notin unsure BY <2>1
  <2>5. r \in Replies BY <2>3 DEF IInv, TypeOK, Held, Pending
  <2>6. state[r] \in {"pending", "skipped_window"}
    BY <2>3, <2>4 DEF HeldIsNotFinal, Pending
  <2>7. QED BY <2>2, <2>5, <2>6
<1>4. ASSUME NEW e \in Drains, NoRoute(e) \/ Dies(e)
      PROVE  state'[r] \in {"pending", "skipped_window"}
  <2>1. Held(d)' \subseteq Held(d) /\ unsure \subseteq unsure'
    BY <1>4 DEF IInv, TypeOK, NoRoute, Dies, Held, Idle
  <2>2. r \in Replies /\ r \in Held(d) /\ state[r] \in {"pending", "skipped_window"}
    BY <2>1 DEF HeldIsNotFinal, IInv, TypeOK, Held
  <2>3. CASE state'[r] = state[r] BY <2>2, <2>3
  <2>4. CASE state'[r] # state[r]
    <3>1. NoRoute(e) /\ r \in drain[e].todo /\ r \notin drain'[e].todo /\ UNCHANGED unsure
          /\ drain'[e].row = None
      BY <1>4, <2>2, <2>4 DEF NoRoute, Dies, IInv, TypeOK
    <3>2. r \notin Held(e)' BY <3>1, <2>2, OutboxAssumption DEF Held
    <3>3. e # d /\ r \in Held(e) BY <3>1, <3>2 DEF Held
    <3>4. QED BY <2>2, <3>1, <3>3 DEF IInv, SharedIsUnsure
  <2>5. QED BY <2>3, <2>4
<1>5. ASSUME NEW e \in Drains, Send(e) \/ MetaAccepts(e) \/ SendFails(e)
      PROVE  state'[r] \in {"pending", "skipped_window"}
  <2>1. r \in Held(d) /\ r \notin unsure /\ state' = state
    BY <1>5 DEF IInv, TypeOK, HeldRows, Held, Send, MetaAccepts, SendFails
  <2>2. QED BY <2>1 DEF HeldIsNotFinal
<1>6. ASSUME NEW e \in Drains, MarkSent(e) \/ MarkPermanent(e) \/ MarkRetry(e)
      PROVE  state'[r] \in {"pending", "skipped_window"}
  <2> DEFINE q == drain[e].row
  <2>1. /\ q \in Replies /\ q \in Held(e) /\ q \notin drain[e].todo
        /\ drain' = [drain EXCEPT ![e].at = "loop", ![e].row = None]
        /\ unsure' = unsure
        /\ \A x \in Replies \ {q} : state'[x] = state[x]
    BY <1>6, OutboxAssumption DEF IInv, TypeOK, HeldRows, Held, MarkSent, MarkPermanent,
       MarkRetry, Marks
  <2>2. r \in Held(d) /\ r \in Replies BY <2>1, OutboxAssumption DEF IInv, TypeOK, Held
  <2>3. r # q
    <3>1. q \notin Held(e)' BY <2>1, OutboxAssumption DEF IInv, TypeOK, Held
    <3>2. CASE d = e BY <3>1, <3>2
    <3>3. CASE d # e BY <2>1, <2>2, <3>3 DEF IInv, SharedIsUnsure
    <3>4. QED BY <3>2, <3>3
  <2>4. QED BY <2>1, <2>2, <2>3 DEF HeldIsNotFinal
<1>7. QED BY <1>1, <1>2, <1>3, <1>4, <1>5, <1>6 DEF Next, Turn

\* Both invariants hold in every reachable state.
LEMMA HeldInvariance == Spec => [](IInv /\ HeldIsNotFinal)
<1>1. Init => HeldIsNotFinal BY DEF Init, HeldIsNotFinal, Held, Idle
<1>2. (IInv /\ HeldIsNotFinal) /\ [Next]_vars => (IInv /\ HeldIsNotFinal)'
  BY NextIInv, NextHeldIsNotFinal
<1>3. QED BY <1>1, <1>2, InitIInv, PTL DEF Spec

\* 'sent' was delivered; 'failed' and, once no drain is about to mark it,
\* 'skipped_window' were not, unless the row was shared or a delivery missed.
THEOREM OutcomesTellTheTruth == Spec => []OutcomesAreTrue
<1>1. IInv /\ HeldIsNotFinal => OutcomesAreTrue
  <2> SUFFICES ASSUME IInv, HeldIsNotFinal, NEW r \in Replies
               PROVE  /\ state[r] = "sent" => deliveries[r] > 0
                      /\ state[r] = "failed" /\ r \notin unsure => deliveries[r] = 0
                      /\ state[r] = "skipped_window" /\ r \notin unsure /\ deliveries[r] > 0 =>
                           \E d \in Drains : drain[d].at = "accepted" /\ drain[d].row = r
    BY DEF OutcomesAreTrue
  <2>1. state[r] = "sent" => deliveries[r] > 0 BY DEF IInv, SentWasDelivered
  <2>2. ASSUME r \notin unsure, deliveries[r] > 0, state[r] # "sent"
        PROVE  /\ state[r] # "failed"
               /\ \E d \in Drains : drain[d].at = "accepted" /\ drain[d].row = r
    <3>1. PICK d \in Drains : drain[d].at = "accepted" /\ drain[d].row = r
      BY <2>2 DEF IInv, SureDeliveries
    <3>2. r \in Held(d) BY <3>1, OutboxAssumption DEF Held
    <3>3. QED BY <2>2, <3>1, <3>2 DEF HeldIsNotFinal
  <2>3. deliveries[r] \in Nat BY DEF IInv, TypeOK
  <2>4. QED BY <2>1, <2>2, <2>3
<1>2. QED BY <1>1, HeldInvariance, PTL

\* 'sent' and 'failed' are final for a row that no two drains held and whose
\* deliveries were noticed, although mark_sent and mark_failed check no state.
THEOREM FinalStatesAreFinal == Spec => FinalStatesStay
<1>1. ASSUME IInv, HeldIsNotFinal, [Next]_vars
      PROVE  [\A r \in Replies : state[r] \in {"sent", "failed"} /\ state'[r] # state[r]
                => r \in unsure]_vars
  <2> SUFFICES ASSUME NEW r \in Replies, state[r] \in {"sent", "failed"},
                      state'[r] # state[r], r \notin unsure
               PROVE  FALSE
    OBVIOUS
  <2>1. \A d \in Drains : r \notin Held(d) BY <1>1 DEF HeldIsNotFinal
  <2>2. ASSUME NEW d \in Drains, Claim(d) PROVE FALSE
    BY <2>2 DEF Claim, Missed, Pending
  <2>3. ASSUME NEW d \in Drains, Turn(d) PROVE FALSE
    <3>1. r \notin drain[d].todo /\ drain[d].row # r
      BY <2>1, OutboxAssumption DEF Held
    <3>2. QED
      BY <1>1, <2>3, <3>1 DEF Turn, NoRoute, Send, MetaAccepts, SendFails, MarkSent,
         MarkPermanent, MarkRetry, Marks, IInv, TypeOK
  <2>4. ASSUME NEW q \in Replies, Enqueue(q) \/ Clock(q) PROVE FALSE
    BY <1>1, <2>4 DEF Enqueue, Clock, SendAfterPasses, WindowCloses, IInv, TypeOK
  <2>5. ASSUME NEW d \in Drains, Dies(d) PROVE FALSE BY <2>5 DEF Dies
  <2>6. QED BY <1>1, <2>2, <2>3, <2>4, <2>5 DEF Next, vars
<1>2. QED BY <1>1, HeldInvariance, PTL DEF Spec, FinalStatesStay

=============================================================================

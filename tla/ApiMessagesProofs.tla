------------------------- MODULE ApiMessagesProofs -------------------------
(***************************************************************************)
(* What ApiMessages guarantees for any number of calls, keys and bodies:   *)
(* one record per key, positive answers that are true, and no second send  *)
(* of a key before one of its calls has answered with a failure.           *)
(***************************************************************************)
EXTENDS ApiMessages, TLAPS

\* Two calls are one request when they are the same call or share a key.
SameRequest(c, d) == c = d \/ (Key[c] = Key[d] /\ Key[c] # None)

\* A call works on a committed record of its own request and body.
RowsAreOfTheRequest ==
  \A c \in Calls : row[c] # None =>
    /\ record[row[c]] # "absent"
    /\ SameRequest(c, row[c])
    /\ Body[row[c]] = Body[c]

\* Only calls that work on a record reach Meta, and they know its answer.
SendersHaveRows ==
  /\ \A c \in delivered : row[c] # None
  /\ \A c \in Calls : call[c] \in {"accepted", "created"} => c \in delivered

\* A record says 'sent' after a delivery, 'failed' after a failure.
RecordsAreTrue ==
  \A e \in Calls :
    /\ record[e] = "sent" =>
         \E d \in delivered : SameRequest(d, e) /\ Body[d] = Body[e]
    /\ record[e] = "failed" =>
         \E d \in Calls : SameRequest(d, e) /\ call[d] = "bad_gateway"

\* Two calls of a key work on a record only after a failure.
SecondSendersFollowFailure ==
  \A c, d \in Calls : row[c] # None /\ row[d] # None /\ c # d /\ SameRequest(c, d) =>
    \E e \in Calls : SameRequest(e, c) /\ call[e] = "bad_gateway"

IInv ==
  /\ TypeOK
  /\ OneRecordPerKey
  /\ RowsAreOfTheRequest
  /\ SendersHaveRows
  /\ RecordsAreTrue
  /\ SecondSendersFollowFailure
  /\ PositiveAnswersAreTrue

\* The invariant holds at the start.
LEMMA InitIInv == Init => IInv
BY CallsAssumption DEF Init, IInv, TypeOK, CallStates, Answers, RecordStates, OneRecordPerKey,
   RecordsOf, RowsAreOfTheRequest, SendersHaveRows, RecordsAreTrue,
   SecondSendersFollowFailure, PositiveAnswersAreTrue

\* An answer that claims nothing.
LEMMA AnswerIInv ==
  ASSUME IInv, NEW c \in Calls, call[c] \in {"received", "reserving"},
         NEW a \in {"no_route", "reused", "in_flight", "reserving"}, Answer(c, a)
  PROVE  IInv'
<1>1. TypeOK' BY DEF IInv, TypeOK, Answer, CallStates, Answers
<1>2. OneRecordPerKey' BY DEF IInv, OneRecordPerKey, RecordsOf, Answer
<1>3. RowsAreOfTheRequest' BY DEF IInv, RowsAreOfTheRequest, SameRequest, Answer
<1>4. SendersHaveRows' BY DEF IInv, TypeOK, SendersHaveRows, Answer
<1>5. RecordsAreTrue' BY DEF IInv, TypeOK, RecordsAreTrue, SameRequest, Answer
<1>6. SecondSendersFollowFailure'
  BY DEF IInv, TypeOK, SecondSendersFollowFailure, SameRequest, Answer
<1>7. PositiveAnswersAreTrue' BY DEF IInv, TypeOK, PositiveAnswersAreTrue, Answer
<1>8. QED BY <1>1, <1>2, <1>3, <1>4, <1>5, <1>6, <1>7 DEF IInv

\* The replay of a sent record speaks of a delivery of the same body.
LEMMA ReplayIInv ==
  ASSUME IInv, NEW c \in Calls, FindsSent(c)
  PROVE  IInv'
<1> USE DEF FindsSent, Answer
<1>1. TypeOK' BY DEF IInv, TypeOK, CallStates, Answers
<1>2. OneRecordPerKey' BY DEF IInv, OneRecordPerKey, RecordsOf
<1>3. RowsAreOfTheRequest' BY DEF IInv, RowsAreOfTheRequest, SameRequest
<1>4. SendersHaveRows' BY DEF IInv, TypeOK, SendersHaveRows
<1>5. RecordsAreTrue' BY DEF IInv, TypeOK, RecordsAreTrue, SameRequest
<1>6. SecondSendersFollowFailure' BY DEF IInv, TypeOK, SecondSendersFollowFailure, SameRequest
<1>7. PositiveAnswersAreTrue'
  <2>1. PICK e \in Calls : Key[c] # None /\ Key[e] = Key[c] /\ Body[e] = Body[c]
                           /\ record[e] = "sent"
    BY DEF RecordsOf, KeyReused
  <2>2. PICK d \in delivered : SameRequest(d, e) /\ Body[d] = Body[e]
    BY <2>1 DEF IInv, RecordsAreTrue
  <2>3. Key[d] = Key[c] /\ Body[d] = Body[c] BY <2>1, <2>2 DEF SameRequest
  <2>4. QED BY <2>1, <2>2, <2>3 DEF IInv, TypeOK, PositiveAnswersAreTrue
<1>8. QED BY <1>1, <1>2, <1>3, <1>4, <1>5, <1>6, <1>7 DEF IInv

\* A retry works on a failed record, so a failure has been answered.
LEMMA RetryIInv ==
  ASSUME IInv, NEW c \in Calls, FindsFailed(c)
  PROVE  IInv'
<1>1. PICK e \in Calls : /\ Key[c] # None /\ Key[e] = Key[c] /\ Body[e] = Body[c]
                         /\ record[e] = "failed"
                         /\ row' = [row EXCEPT ![c] = e]
  BY DEF IInv, TypeOK, FindsFailed, RecordsOf, KeyReused, TakenStates, RecordStates, Retried
<1>2. PICK f \in Calls : SameRequest(f, e) /\ call[f] = "bad_gateway"
  BY <1>1 DEF IInv, RecordsAreTrue
<1>3. /\ call[c] = "received" /\ call' = [call EXCEPT ![c] = "sending"]
      /\ UNCHANGED <<record, delivered, losses, routed>>
  BY DEF FindsFailed
<1>4. Key[f] = Key[c] /\ call'[f] = "bad_gateway"
  BY <1>1, <1>2, <1>3 DEF IInv, TypeOK, SameRequest
<1>5. TypeOK' BY <1>1, <1>3 DEF IInv, TypeOK, CallStates
<1>6. OneRecordPerKey' BY <1>3 DEF IInv, OneRecordPerKey, RecordsOf
<1>7. RowsAreOfTheRequest'
  BY <1>1, <1>3 DEF IInv, TypeOK, RowsAreOfTheRequest, SameRequest
<1>8. SendersHaveRows'
  BY <1>1, <1>3, CallsAssumption DEF IInv, TypeOK, SendersHaveRows
<1>9. RecordsAreTrue' BY <1>3 DEF IInv, TypeOK, RecordsAreTrue, SameRequest
<1>10. SecondSendersFollowFailure'
  <2> SUFFICES ASSUME NEW x \in Calls, NEW y \in Calls, row'[x] # None, row'[y] # None,
                      x # y, SameRequest(x, y)
               PROVE  \E g \in Calls : SameRequest(g, x) /\ call'[g] = "bad_gateway"
    BY DEF SecondSendersFollowFailure, SameRequest
  <2>1. CASE x = c \/ y = c BY <2>1, <1>1, <1>4 DEF SameRequest
  <2>2. CASE x # c /\ y # c
    BY <2>2, <1>1, <1>3 DEF IInv, TypeOK, SecondSendersFollowFailure
  <2>3. QED BY <2>1, <2>2
<1>11. PositiveAnswersAreTrue' BY <1>3 DEF IInv, TypeOK, PositiveAnswersAreTrue
<1>12. QED BY <1>5, <1>6, <1>7, <1>8, <1>9, <1>10, <1>11 DEF IInv

\* An INSERT finds no record of the key, so no other call of it works on one.
LEMMA InsertIInv ==
  ASSUME IInv, NEW c \in Calls, Inserts(c)
  PROVE  IInv'
<1> USE DEF Inserts, Insertable
<1>1. \A d \in Calls \ {c} : SameRequest(c, d) => record[d] = "absent" /\ row[d] = None
  <2> SUFFICES ASSUME NEW d \in Calls, d # c, SameRequest(c, d)
               PROVE  record[d] = "absent" /\ row[d] = None
    OBVIOUS
  <2>1. record[d] = "absent" BY DEF RecordsOf, SameRequest
  <2>2. CASE row[d] # None
    BY <2>2 DEF IInv, TypeOK, RowsAreOfTheRequest, SameRequest, RecordsOf
  <2>3. QED BY <2>1, <2>2
<1>2. TypeOK' BY DEF IInv, TypeOK, CallStates, RecordStates
<1>3. OneRecordPerKey'
  BY <1>1 DEF IInv, TypeOK, OneRecordPerKey, RecordsOf, SameRequest
<1>4. RowsAreOfTheRequest'
  BY CallsAssumption DEF IInv, TypeOK, RowsAreOfTheRequest, SameRequest
<1>5. SendersHaveRows' BY CallsAssumption DEF IInv, TypeOK, SendersHaveRows
<1>6. RecordsAreTrue' BY DEF IInv, TypeOK, RecordsAreTrue, SameRequest
<1>7. SecondSendersFollowFailure'
  <2> SUFFICES ASSUME NEW x \in Calls, NEW y \in Calls, row'[x] # None, row'[y] # None,
                      x # y, SameRequest(x, y)
               PROVE  \E g \in Calls : SameRequest(g, x) /\ call'[g] = "bad_gateway"
    BY DEF SecondSendersFollowFailure, SameRequest
  <2>1. x # c /\ y # c BY <1>1 DEF IInv, TypeOK, SameRequest
  <2>2. QED BY <2>1 DEF IInv, TypeOK, SecondSendersFollowFailure, SameRequest
<1>8. PositiveAnswersAreTrue' BY DEF IInv, TypeOK, PositiveAnswersAreTrue
<1>9. QED BY <1>2, <1>3, <1>4, <1>5, <1>6, <1>7, <1>8 DEF IInv

\* Meta's answer, or its absence: no record changes.
LEMMA MetaIInv ==
  ASSUME IInv, NEW c \in Calls, MetaAccepts(c) \/ SendFails(c) \/ Lost(c)
  PROVE  IInv'
<1> USE DEF MetaAccepts, SendFails, Lost
<1>1. TypeOK' BY CallsAssumption DEF IInv, TypeOK, CallStates, Answers
<1>2. OneRecordPerKey' BY DEF IInv, OneRecordPerKey, RecordsOf
<1>3. RowsAreOfTheRequest' BY DEF IInv, RowsAreOfTheRequest, SameRequest
<1>4. SendersHaveRows' BY CallsAssumption DEF IInv, TypeOK, SendersHaveRows
<1>5. RecordsAreTrue'
  <2>1. delivered \subseteq delivered' OBVIOUS
  <2>2. \A d \in Calls : call[d] = "bad_gateway" => call'[d] = "bad_gateway"
    BY DEF IInv, TypeOK
  <2>3. QED BY <2>1, <2>2 DEF IInv, RecordsAreTrue, SameRequest
<1>6. SecondSendersFollowFailure'
  BY DEF IInv, TypeOK, SecondSendersFollowFailure, SameRequest
<1>7. PositiveAnswersAreTrue' BY DEF IInv, TypeOK, PositiveAnswersAreTrue
<1>8. QED BY <1>1, <1>2, <1>3, <1>4, <1>5, <1>6, <1>7 DEF IInv

\* _ok and _fail write the call's outcome into the record it works on.
LEMMA RecordIInv ==
  ASSUME IInv, NEW c \in Calls, RecordSent(c) \/ RecordFailed(c)
  PROVE  IInv'
<1> USE DEF RecordSent, RecordFailed, FailedState
<1>1. row[c] \in Calls /\ record[row[c]] # "absent" /\ SameRequest(c, row[c])
      /\ Body[row[c]] = Body[c]
  BY CallsAssumption DEF IInv, TypeOK, RowsAreOfTheRequest
<1>2. TypeOK' BY <1>1 DEF IInv, TypeOK, CallStates, Answers, RecordStates
<1>3. OneRecordPerKey' BY <1>1 DEF IInv, TypeOK, OneRecordPerKey, RecordsOf
<1>4. RowsAreOfTheRequest' BY <1>1 DEF IInv, TypeOK, RowsAreOfTheRequest, SameRequest
<1>5. SendersHaveRows' BY DEF IInv, TypeOK, SendersHaveRows
<1>6. RecordsAreTrue'
  <2>1. CASE RecordSent(c)
    <3>1. c \in delivered BY <2>1 DEF IInv, SendersHaveRows
    <3>2. QED BY <2>1, <3>1, <1>1 DEF IInv, TypeOK, RecordsAreTrue, SameRequest
  <2>2. CASE RecordFailed(c)
    BY <2>2, <1>1 DEF IInv, TypeOK, RecordsAreTrue, SameRequest
  <2>3. QED BY <2>1, <2>2
<1>7. SecondSendersFollowFailure'
  BY DEF IInv, TypeOK, SecondSendersFollowFailure, SameRequest
<1>8. PositiveAnswersAreTrue'
  BY DEF IInv, TypeOK, SendersHaveRows, PositiveAnswersAreTrue
<1>9. QED BY <1>2, <1>3, <1>4, <1>5, <1>6, <1>7, <1>8 DEF IInv

\* Every step preserves the invariant.
LEMMA NextIInv == IInv /\ [Next]_vars => IInv'
<1> SUFFICES ASSUME IInv, [Next]_vars PROVE IInv'
  OBVIOUS
<1>1. ASSUME NEW c \in Calls, NoActiveRoute(c) \/ FindsOther(c) \/ FindsPending(c)
                              \/ FindsNothing(c) \/ InsertConflicts(c)
      PROVE  IInv'
  BY <1>1, AnswerIInv DEF NoActiveRoute, FindsOther, FindsPending, FindsNothing, InsertConflicts
<1>2. ASSUME SwitchRoutes \/ UNCHANGED vars
      PROVE  IInv'
  <2>1. routed' \in BOOLEAN BY <1>2, Zenon DEF IInv, TypeOK, SwitchRoutes, vars
  <2>2. UNCHANGED <<call, row, record, delivered, losses>> BY <1>2 DEF SwitchRoutes, vars
  <2>3. TypeOK' BY <2>1, <2>2 DEF IInv, TypeOK
  <2>4. OneRecordPerKey' BY <2>2 DEF IInv, OneRecordPerKey, RecordsOf
  <2>5. RowsAreOfTheRequest' /\ SendersHaveRows'
    BY <2>2 DEF IInv, RowsAreOfTheRequest, SendersHaveRows, SameRequest
  <2>6. RecordsAreTrue' BY <2>2 DEF IInv, RecordsAreTrue, SameRequest
  <2>7. SecondSendersFollowFailure' /\ PositiveAnswersAreTrue'
    BY <2>2 DEF IInv, SecondSendersFollowFailure, PositiveAnswersAreTrue, SameRequest
  <2>8. QED BY <2>3, <2>4, <2>5, <2>6, <2>7 DEF IInv
<1>3. ASSUME NEW c \in Calls, Reserve(c) \/ Proceed(c) \/ Lost(c)
      PROVE  IInv'
  <2>1. CASE FindsSent(c) BY <2>1, ReplayIInv
  <2>2. CASE FindsFailed(c) BY <2>2, RetryIInv
  <2>3. CASE Inserts(c) BY <2>3, InsertIInv
  <2>4. CASE MetaAccepts(c) \/ SendFails(c) \/ Lost(c) BY <2>4, MetaIInv
  <2>5. CASE RecordSent(c) \/ RecordFailed(c) BY <2>5, RecordIInv
  <2>6. QED BY <1>1, <1>3, <2>1, <2>2, <2>3, <2>4, <2>5 DEF Reserve, Proceed
<1>4. QED BY <1>2, <1>3 DEF Next

\* The invariant holds in every reachable state.
LEMMA Invariance == Spec => []IInv
BY InitIInv, NextIInv, PTL DEF Spec

\* The variables keep their types and a call that sends has its record.
THEOREM ApiTypeCorrect == Spec => []TypeOK
BY Invariance, PTL DEF IInv

\* The unique index on (tenant, key) is never outrun: a key has one record.
THEOREM KeysHaveOneRecord == Spec => []OneRecordPerKey
BY Invariance, PTL DEF IInv

\* An answer 201 or 200 is given for a body that Meta delivered.
THEOREM AnswersAreTrue == Spec => []PositiveAnswersAreTrue
BY Invariance, PTL DEF IInv

\* A key is sent again only after one of its calls answered with a failure.
THEOREM ResendsFollowFailures == Spec => []ResentOnlyAfterFailure
<1>1. IInv => ResentOnlyAfterFailure
  BY DEF IInv, TypeOK, SendersHaveRows, SecondSendersFollowFailure, SameRequest,
     ResentOnlyAfterFailure
<1>2. QED BY <1>1, Invariance, PTL

-----------------------------------------------------------------------------
(* A record and the call that inserted it: what the refinement needs.      *)

\* A call that has not got past its INSERT works on no record, and a record
\* is the one its own call works on.
OwnRecords ==
  /\ \A c \in Calls : call[c] \in {"received", "reserving"} => row[c] = None
  /\ \A e \in Calls : record[e] # "absent" => row[e] = e

\* A call works on a record of another only after that other has failed.
RetriesFollowTheOwner ==
  \A c \in Calls : row[c] \in Calls \ {c} => call[row[c]] = "bad_gateway"

\* What a record says, its own call knows: it is 'pending' until that call
\* answers, 'failed' only if it failed, and 'sent' if a call on it was.
RecordsFollowTheOwner ==
  \A e \in Calls :
    /\ record[e] = "pending" => call[e] \in {"sending", "accepted", "refused", "lost"}
    /\ record[e] = "failed" => call[e] = "bad_gateway"
    /\ record[e] = "sent" =>
         /\ call[e] \in {"created", "bad_gateway"}
         /\ \E c \in Calls : row[c] = e /\ call[c] = "created"

OwnerInv == OwnRecords /\ RetriesFollowTheOwner /\ RecordsFollowTheOwner

\* No record, and no call on one.
LEMMA InitOwnerInv == Init => OwnerInv
BY CallsAssumption
   DEF Init, OwnerInv, OwnRecords, RetriesFollowTheOwner, RecordsFollowTheOwner

\* An answer before the INSERT, and a call that dies: no record changes, and
\* no call on a record changes to another answer than 'lost'.
LEMMA AnswerOwnerInv ==
  ASSUME IInv, OwnerInv, NEW c \in Calls, UNCHANGED <<row, record>>,
         \/ call[c] \in {"received", "reserving"}
              /\ \E a \in Answers \cup {"reserving", "lost"} : call' = [call EXCEPT ![c] = a]
         \/ call[c] \in {"sending", "accepted", "refused"} /\ call' = [call EXCEPT ![c] = "lost"]
         \/ call[c] = "sending"
              /\ \E a \in {"accepted", "refused"} : call' = [call EXCEPT ![c] = a]
  PROVE  OwnerInv'
<1>1. \A d \in Calls : call'[d] \in {"received", "reserving"} => row[d] = None
  BY DEF IInv, TypeOK, OwnerInv, OwnRecords
<1>2. \A d \in Calls : /\ call[d] = "bad_gateway" => call'[d] = "bad_gateway"
                       /\ call[d] = "created" => call'[d] = "created"
  BY DEF IInv, TypeOK
<1>3. \A e \in Calls : record[e] = "pending" =>
        call'[e] \in {"sending", "accepted", "refused", "lost"}
  <2>1. record[c] # "absent" => row[c] = c BY DEF OwnerInv, OwnRecords
  <2>2. call[c] \in {"received", "reserving"} => record[c] = "absent"
    BY <2>1, CallsAssumption DEF OwnerInv, OwnRecords
  <2>3. QED BY <2>2 DEF IInv, TypeOK, OwnerInv, RecordsFollowTheOwner
<1>4. OwnRecords' BY <1>1 DEF OwnerInv, OwnRecords
<1>5. RetriesFollowTheOwner' BY <1>2 DEF OwnerInv, RetriesFollowTheOwner
<1>6. RecordsFollowTheOwner' BY <1>2, <1>3 DEF OwnerInv, RecordsFollowTheOwner
<1>7. QED BY <1>4, <1>5, <1>6 DEF OwnerInv

\* A retry takes a record that is 'failed', so its own call has failed.
LEMMA RetryOwnerInv ==
  ASSUME IInv, OwnerInv, NEW c \in Calls, FindsFailed(c)
  PROVE  OwnerInv'
<1>1. PICK e \in Calls : record[e] = "failed" /\ row' = [row EXCEPT ![c] = e]
  BY DEF IInv, TypeOK, FindsFailed, RecordsOf, KeyReused, TakenStates, RecordStates, Retried
<1>2. call[c] = "received" /\ call' = [call EXCEPT ![c] = "sending"] /\ record' = record
  BY DEF FindsFailed
<1>3. call[e] = "bad_gateway" BY <1>1 DEF OwnerInv, RecordsFollowTheOwner
<1>4. record[c] = "absent" BY <1>2, CallsAssumption DEF OwnerInv, OwnRecords
<1>5. OwnRecords' BY <1>1, <1>2, <1>4 DEF IInv, TypeOK, OwnerInv, OwnRecords
<1>6. RetriesFollowTheOwner'
  BY <1>1, <1>2, <1>3 DEF IInv, TypeOK, OwnerInv, RetriesFollowTheOwner
<1>7. RecordsFollowTheOwner'
  <2>1. \A x \in Calls : call[x] = "created" => call'[x] = "created" /\ row'[x] = row[x]
    BY <1>1, <1>2 DEF IInv, TypeOK
  <2>2. \A x \in Calls \ {c} : call'[x] = call[x] BY <1>2 DEF IInv, TypeOK
  <2>3. QED BY <1>2, <1>4, <2>1, <2>2 DEF OwnerInv, RecordsFollowTheOwner
<1>8. QED BY <1>5, <1>6, <1>7 DEF OwnerInv

\* A first call works on its own new record.
LEMMA InsertOwnerInv ==
  ASSUME IInv, OwnerInv, NEW c \in Calls, Inserts(c)
  PROVE  OwnerInv'
<1> USE DEF Inserts
<1>1. row[c] = None /\ record[c] = "absent"
  BY CallsAssumption DEF OwnerInv, OwnRecords
<1>2. OwnRecords' BY DEF IInv, TypeOK, OwnerInv, OwnRecords
<1>3. RetriesFollowTheOwner' BY DEF IInv, TypeOK, OwnerInv, RetriesFollowTheOwner
<1>4. RecordsFollowTheOwner'
  <2>1. \A x \in Calls : call[x] = "created" => call'[x] = "created" /\ row'[x] = row[x]
    BY DEF IInv, TypeOK
  <2>2. \A x \in Calls \ {c} : call'[x] = call[x] /\ record'[x] = record[x]
    BY DEF IInv, TypeOK
  <2>3. call'[c] = "sending" /\ record'[c] = "pending" BY DEF IInv, TypeOK
  <2>4. QED BY <2>1, <2>2, <2>3 DEF OwnerInv, RecordsFollowTheOwner
<1>5. QED BY <1>2, <1>3, <1>4 DEF OwnerInv

\* _ok and _fail: the record's own call, or a retry after it has failed.
LEMMA RecordOwnerInv ==
  ASSUME IInv, OwnerInv, NEW c \in Calls, RecordSent(c) \/ RecordFailed(c)
  PROVE  OwnerInv'
<1> USE DEF RecordSent, RecordFailed, FailedState
<1> DEFINE e == row[c]
<1>1. e \in Calls /\ record[e] # "absent" BY DEF IInv, TypeOK
<1>2. call[e] = "bad_gateway" \/ e = c BY <1>1 DEF OwnerInv, RetriesFollowTheOwner
<1>3. \A x \in Calls \ {c} : call'[x] = call[x] BY DEF IInv, TypeOK
<1>4. \A x \in Calls \ {e} : record'[x] = record[x] BY <1>1 DEF IInv, TypeOK
<1>5. OwnRecords'
  BY <1>1, <1>3, <1>4 DEF IInv, TypeOK, OwnerInv, OwnRecords
<1>6. RetriesFollowTheOwner' BY <1>3 DEF OwnerInv, RetriesFollowTheOwner
<1>7. RecordsFollowTheOwner'
  <2>1. \A x \in Calls \ {e} : record[x] = "pending" => x # c
    BY <1>1, <1>2 DEF IInv, TypeOK, OwnerInv, OwnRecords
  <2>2. \A x \in Calls \ {e} : record[x] # "absent" => x # c
    BY <1>1, <1>2 DEF IInv, TypeOK, OwnerInv, OwnRecords
  <2>3. \A x \in Calls : call[x] = "created" => call'[x] = "created"
    BY DEF IInv, TypeOK
  <2>4. ASSUME NEW x \in Calls, x # e
        PROVE  /\ record'[x] = "pending" => call'[x] \in {"sending", "accepted", "refused", "lost"}
               /\ record'[x] = "failed" => call'[x] = "bad_gateway"
               /\ record'[x] = "sent" =>
                    /\ call'[x] \in {"created", "bad_gateway"}
                    /\ \E d \in Calls : row'[d] = x /\ call'[d] = "created"
    BY <2>2, <2>3, <2>4, <1>3, <1>4 DEF OwnerInv, RecordsFollowTheOwner
  <2>5. CASE RecordSent(c)
    <3>1. record'[e] = "sent" /\ call'[c] = "created" /\ row'[c] = e
      BY <2>5, <1>1 DEF IInv, TypeOK
    <3>2. call'[e] \in {"created", "bad_gateway"} BY <3>1, <1>2, <1>3, <1>1
    <3>3. QED BY <3>1, <3>2, <2>4, <1>1 DEF RecordsFollowTheOwner
  <2>6. CASE RecordFailed(c)
    <3>1. record'[e] = "failed" /\ call'[c] = "bad_gateway"
      BY <2>6, <1>1 DEF IInv, TypeOK
    <3>2. call'[e] = "bad_gateway" BY <3>1, <1>2, <1>3, <1>1
    <3>3. QED BY <3>1, <3>2, <2>4, <1>1 DEF RecordsFollowTheOwner
  <2>7. QED BY <2>5, <2>6
<1>8. QED BY <1>5, <1>6, <1>7 DEF OwnerInv

\* Every step keeps a record in step with its own call.
LEMMA NextOwnerInv == IInv /\ OwnerInv /\ [Next]_vars => OwnerInv'
<1> SUFFICES ASSUME IInv, OwnerInv, [Next]_vars PROVE OwnerInv'
  OBVIOUS
<1>1. ASSUME SwitchRoutes \/ UNCHANGED vars
      PROVE  OwnerInv'
  <2>1. UNCHANGED <<call, row, record>> BY <1>1 DEF SwitchRoutes, vars
  <2>2. QED
    BY <2>1 DEF OwnerInv, OwnRecords, RetriesFollowTheOwner, RecordsFollowTheOwner
<1>2. ASSUME NEW c \in Calls, Reserve(c) \/ Proceed(c) \/ Lost(c)
      PROVE  OwnerInv'
  <2>1. CASE NoActiveRoute(c) \/ FindsOther(c) \/ FindsSent(c) \/ FindsPending(c)
             \/ FindsNothing(c) \/ InsertConflicts(c)
    BY <2>1, AnswerOwnerInv
       DEF NoActiveRoute, FindsOther, FindsSent, FindsPending, FindsNothing,
           InsertConflicts, Answer, Answers
  <2>2. CASE MetaAccepts(c) \/ SendFails(c) \/ Lost(c)
    BY <2>2, AnswerOwnerInv DEF MetaAccepts, SendFails, Lost
  <2>3. CASE FindsFailed(c) BY <2>3, RetryOwnerInv
  <2>4. CASE Inserts(c) BY <2>4, InsertOwnerInv
  <2>5. CASE RecordSent(c) \/ RecordFailed(c) BY <2>5, RecordOwnerInv
  <2>6. QED BY <1>2, <2>1, <2>2, <2>3, <2>4, <2>5 DEF Reserve, Proceed
<1>3. QED BY <1>1, <1>2 DEF Next

\* Both invariants hold in every reachable state.
LEMMA OwnerInvariance == Spec => [](IInv /\ OwnerInv)
<1>1. Init => IInv /\ OwnerInv BY InitIInv, InitOwnerInv
<1>2. (IInv /\ OwnerInv) /\ [Next]_vars => (IInv /\ OwnerInv)' BY NextIInv, NextOwnerInv
<1>3. QED BY <1>1, <1>2, PTL DEF Spec

\* A record leaves 'sent' only by the failure of a retry that overlapped the
\* retry that succeeded: the record's own call has failed before both.
THEOREM SentIsKeptFromOneRetry == Spec => SentIsOverwrittenOnlyByARace
<1>1. ASSUME IInv, OwnerInv, [Next]_vars
      PROVE  [\A e \in Calls : record[e] = "sent" /\ record'[e] # "sent" =>
                \E c, d \in Calls \ {e} :
                  /\ c # d /\ row[c] = e /\ row[d] = e
                  /\ call[c] = "created" /\ call[d] = "refused"
                  /\ call[e] = "bad_gateway"]_vars
  <2> SUFFICES ASSUME NEW e \in Calls, record[e] = "sent", record'[e] # "sent"
               PROVE  \E c, d \in Calls \ {e} :
                        /\ c # d /\ row[c] = e /\ row[d] = e
                        /\ call[c] = "created" /\ call[d] = "refused"
                        /\ call[e] = "bad_gateway"
    OBVIOUS
  <2>1. PICK d \in Calls : RecordFailed(d) \/ RecordSent(d) \/ Inserts(d)
    BY <1>1 DEF Next, vars, Reserve, Proceed, Lost, SwitchRoutes, NoActiveRoute, FindsOther,
       FindsSent, FindsPending, FindsFailed, FindsNothing, InsertConflicts, MetaAccepts,
       SendFails, Answer
  <2>2. ~Inserts(d)
    <3>1. Inserts(d) => record[d] = "absent"
      BY <1>1, CallsAssumption DEF Inserts, OwnerInv, OwnRecords
    <3>2. QED BY <3>1, <1>1 DEF Inserts, IInv, TypeOK
  <2>3. RecordFailed(d) /\ row[d] = e
    BY <2>1, <2>2, <1>1 DEF RecordFailed, RecordSent, IInv, TypeOK
  <2>4. call[d] = "refused" BY <2>3 DEF RecordFailed
  <2>5. PICK c \in Calls : row[c] = e /\ call[c] = "created"
    BY <1>1 DEF OwnerInv, RecordsFollowTheOwner
  <2>6. d # e BY <2>4, <1>1 DEF OwnerInv, RecordsFollowTheOwner
  <2>7. call[e] = "bad_gateway" BY <2>3, <2>6, <1>1 DEF OwnerInv, RetriesFollowTheOwner
  <2>8. QED BY <2>3, <2>4, <2>5, <2>6, <2>7
<1>2. QED BY <1>1, OwnerInvariance, PTL DEF Spec, SentIsOverwrittenOnlyByARace

-----------------------------------------------------------------------------
(* The refinement of KeyedMessage, key by key.                             *)

States == [k \in Keys |-> StateOf(k)]
Sends == [k \in Keys |-> SendsOf(k)]
Failed == [k \in Keys |-> HasFailed(k)]

\* The state of a key is that of its one record.
LEMMA StateOfRecord ==
  ASSUME OneRecordPerKey, OneRecordPerKey', NEW k \in Keys
  PROVE  /\ RecordsOf(k) = {} => StateOf(k) = "free"
         /\ RecordsOf(k)' = {} => StateOf(k)' = "free"
         /\ \A e \in RecordsOf(k) : StateOf(k) = record[e]
         /\ \A e \in RecordsOf(k)' : StateOf(k)' = record'[e]
<1>1. ASSUME NEW e \in RecordsOf(k) PROVE StateOf(k) = record[e]
  <2>1. \A d \in RecordsOf(k) : d = e BY <1>1 DEF OneRecordPerKey
  <2>2. (CHOOSE d \in RecordsOf(k) : TRUE) = e BY <1>1, <2>1
  <2>3. QED BY <1>1, <2>2 DEF StateOf
<1>2. ASSUME NEW e \in RecordsOf(k)' PROVE StateOf(k)' = record'[e]
  <2>1. \A d \in RecordsOf(k)' : d = e BY <1>2 DEF OneRecordPerKey
  <2>2. (CHOOSE d \in RecordsOf(k)' : TRUE) = e BY <1>2, <2>1
  <2>3. QED BY <1>2, <2>2 DEF StateOf
<1>3. QED BY <1>1, <1>2 DEF StateOf

\* A step that writes no record leaves the state of every key.
LEMMA StatesStay ==
  ASSUME OneRecordPerKey, OneRecordPerKey', UNCHANGED record
  PROVE  UNCHANGED States
<1>1. ASSUME NEW k \in Keys PROVE StateOf(k)' = StateOf(k)
  <2>1. RecordsOf(k)' = RecordsOf(k) BY DEF RecordsOf
  <2>2. QED BY <2>1, StateOfRecord
<1>2. QED BY <1>1 DEF States

\* A step that writes no record, delivers nothing and answers no failure
\* cannot be seen.
LEMMA Unseen ==
  ASSUME OneRecordPerKey, OneRecordPerKey', UNCHANGED <<record, delivered>>,
         \A c \in Calls : call'[c] = "bad_gateway" <=> call[c] = "bad_gateway"
  PROVE  UNCHANGED <<States, Sends, Failed>>
<1>2. States' = States BY StatesStay
<1>3. Sends' = Sends BY DEF Sends, SendsOf
<1>4. \A k \in Keys : HasFailed(k)' <=> HasFailed(k) BY DEF HasFailed
<1>5. Failed' = Failed BY <1>4, Zenon DEF Failed, HasFailed
<1>6. QED BY <1>2, <1>3, <1>5

\* The INSERT of a first call takes the key.
LEMMA InsertTakes ==
  ASSUME IInv, OwnerInv, IInv', NEW c \in Calls, Inserts(c)
  PROVE  \/ \E k \in Keys : Keyed!Take(k)
         \/ UNCHANGED <<States, Sends, Failed>>
<1>1. record' = [record EXCEPT ![c] = "pending"] /\ delivered' = delivered
  BY DEF Inserts
<1>2. Sends' = Sends BY <1>1 DEF Sends, SendsOf
<1>3. \A d \in Calls : call'[d] = "bad_gateway" <=> call[d] = "bad_gateway"
  BY DEF Inserts, IInv, TypeOK
<1>4. \A k \in Keys : HasFailed(k)' <=> HasFailed(k) BY <1>3 DEF HasFailed
<1>5. Failed' = Failed BY <1>4, Zenon DEF Failed, HasFailed
<1>6. \A k \in Keys : k # Key[c] => StateOf(k)' = StateOf(k)
  <2> SUFFICES ASSUME NEW k \in Keys, k # Key[c] PROVE StateOf(k)' = StateOf(k)
    OBVIOUS
  <2>1. RecordsOf(k)' = RecordsOf(k) BY <1>1 DEF RecordsOf, IInv, TypeOK
  <2>2. \A e \in RecordsOf(k) : record'[e] = record[e]
    BY <1>1 DEF RecordsOf, IInv, TypeOK
  <2>3. QED BY <2>1, <2>2, StateOfRecord DEF IInv
<1>7. CASE Key[c] \in Keys
  <2> DEFINE k == Key[c]
  <2>1. RecordsOf(k) = {} BY DEF Inserts, Insertable
  <2>2. c \in RecordsOf(k)' /\ record'[c] = "pending"
    BY <1>1, <1>7, CallsAssumption DEF RecordsOf, IInv, TypeOK
  <2>3. StateOf(k) = "free" /\ StateOf(k)' = "pending"
    BY <1>7, <2>1, <2>2, StateOfRecord DEF IInv
  <2>4. States[k] = "free" /\ States' = [States EXCEPT ![k] = "pending"]
    BY <1>6, <1>7, <2>3 DEF States
  <2>5. Keyed!Take(k)
    BY <1>2, <1>5, <2>4 DEF Keyed!Take, States, Sends, Failed
  <2>6. QED BY <1>7, <2>5
<1>8. CASE Key[c] \notin Keys
  <2>1. \A k \in Keys : StateOf(k)' = StateOf(k) BY <1>6, <1>8
  <2>2. States' = States BY <2>1 DEF States
  <2>3. QED BY <1>2, <1>5, <2>2
<1>9. QED BY <1>7, <1>8

\* Meta takes the message of a call: the first of its key, for the record is
\* the call's own, or one of a key that has failed.
LEMMA SendDelivers ==
  ASSUME IInv, OwnerInv, IInv', NEW c \in Calls, MetaAccepts(c) \/ SendFails(c)
  PROVE  \/ \E k \in Keys : Keyed!Deliver(k, c)
         \/ UNCHANGED <<States, Sends, Failed>>
<1>1. /\ call[c] = "sending" /\ UNCHANGED <<row, record>>
      /\ delivered' = delivered \/ delivered' = delivered \cup {c}
      /\ \E a \in {"accepted", "refused"} : call' = [call EXCEPT ![c] = a]
  BY DEF MetaAccepts, SendFails
<1>2. \A d \in Calls : call'[d] = "bad_gateway" <=> call[d] = "bad_gateway"
  BY <1>1 DEF IInv, TypeOK
<1>3. CASE delivered' = delivered
  BY <1>1, <1>2, <1>3, Unseen DEF IInv
<1>4. CASE c \notin delivered /\ delivered' = delivered \cup {c} /\ Key[c] \in Keys
  <2> DEFINE k == Key[c]
             e == row[c]
  <2>2. States' = States BY <1>1, StatesStay DEF IInv
  <2>3. \A j \in Keys : HasFailed(j)' <=> HasFailed(j) BY <1>2 DEF HasFailed
  <2>4. Failed' = Failed BY <2>3, Zenon DEF Failed, HasFailed
  <2>5. Sends' = [Sends EXCEPT ![k] = @ \cup {c}]
    BY <1>4 DEF Sends, SendsOf
  <2>6. c \notin Sends[k] BY <1>4 DEF Sends, SendsOf
  <2>7. e \in RecordsOf(k) /\ record[e] # "absent" /\ record[e] \in RecordStates
    BY <1>1, <1>4, CallsAssumption
       DEF IInv, TypeOK, RowsAreOfTheRequest, SameRequest, RecordsOf
  <2>8. States[k] = record[e]
    BY <1>4, <2>7, StateOfRecord DEF IInv, States
  <2>9. \/ States[k] = "pending" /\ Sends[k] = {}
        \/ States[k] \in {"sent", "failed"} /\ Failed[k]
    <3>1. CASE e = c
      <4>1. record[c] = "pending"
        BY <1>1, <2>7, <3>1 DEF OwnerInv, RecordsFollowTheOwner, RecordStates
      <4>2. ASSUME NEW d \in delivered, Key[d] = k PROVE FALSE
        <5>1. d \in Calls /\ row[d] \in Calls /\ record[row[d]] # "absent"
              /\ SameRequest(d, row[d])
          BY <4>2 DEF IInv, TypeOK, SendersHaveRows, RowsAreOfTheRequest
        <5>2. row[d] \in RecordsOf(k)
          BY <1>4, <4>2, <5>1, CallsAssumption DEF SameRequest, RecordsOf
        <5>3. row[d] = c BY <1>4, <2>7, <3>1, <5>2 DEF IInv, OneRecordPerKey
        <5>4. d # c BY <1>4
        <5>5. QED BY <1>1, <5>1, <5>3, <5>4 DEF OwnerInv, RetriesFollowTheOwner
      <4>3. Sends[k] = {} BY <1>4, <4>2 DEF Sends, SendsOf
      <4>4. QED BY <2>8, <3>1, <4>1, <4>3
    <3>2. CASE e # c
      <4>1. e \in Calls /\ Key[e] = k /\ call[e] = "bad_gateway"
        BY <2>7, <3>2 DEF OwnerInv, RetriesFollowTheOwner, RecordsOf
      <4>2. Failed[k] BY <1>4, <4>1 DEF Failed, HasFailed
      <4>3. record[e] \in {"sent", "failed"}
        BY <2>7, <4>1 DEF OwnerInv, RecordsFollowTheOwner, RecordStates
      <4>4. QED BY <2>8, <4>2, <4>3
    <3>3. QED BY <3>1, <3>2
  <2>10. Keyed!Deliver(k, c)
    BY <2>2, <2>4, <2>5, <2>6, <2>9 DEF Keyed!Deliver, States, Sends, Failed
  <2>11. QED BY <1>4, <2>10
<1>5. CASE c \in delivered /\ delivered' = delivered \cup {c}
  <2>1. delivered' = delivered BY <1>5
  <2>2. QED BY <1>3, <2>1
<1>6. CASE delivered' = delivered \cup {c} /\ Key[c] \notin Keys
  <2>2. States' = States BY <1>1, StatesStay DEF IInv
  <2>3. \A j \in Keys : HasFailed(j)' <=> HasFailed(j) BY <1>2 DEF HasFailed
  <2>4. Failed' = Failed BY <2>3, Zenon DEF Failed, HasFailed
  <2>5. Sends' = Sends BY <1>6 DEF Sends, SendsOf
  <2>6. QED BY <2>2, <2>4, <2>5
<1>7. QED BY <1>1, <1>3, <1>4, <1>5, <1>6

\* _ok writes 'sent' of a key that Meta has delivered.
LEMMA RecordSentSucceeds ==
  ASSUME IInv, OwnerInv, IInv', NEW c \in Calls, RecordSent(c) \/ RecordFailed(c)
  PROVE  \/ \E k \in Keys : Keyed!Succeed(k) \/ Keyed!Fail(k)
         \/ UNCHANGED <<States, Sends, Failed>>
<1> DEFINE e == row[c]
           k == Key[c]
<1>1. /\ e \in Calls /\ record[e] # "absent" /\ SameRequest(c, e) /\ delivered' = delivered
      /\ record' = [record EXCEPT ![e] = "sent"] \/ record' = [record EXCEPT ![e] = "failed"]
      /\ call[c] \in {"accepted", "refused"}
      /\ call' = [call EXCEPT ![c] = "created"] \/ call' = [call EXCEPT ![c] = "bad_gateway"]
  BY CallsAssumption
     DEF RecordSent, RecordFailed, FailedState, IInv, TypeOK, RowsAreOfTheRequest
<1>2. Sends' = Sends BY <1>1 DEF Sends, SendsOf
<1>3. \A j \in Keys : RecordsOf(j)' = RecordsOf(j)
  BY <1>1 DEF RecordsOf, IInv, TypeOK
<1>4. \A j \in Keys : j # k => StateOf(j)' = StateOf(j)
  <2> SUFFICES ASSUME NEW j \in Keys, j # k PROVE StateOf(j)' = StateOf(j)
    OBVIOUS
  <2>1. e = c \/ Key[e] = k BY <1>1 DEF SameRequest
  <2>2. \A d \in RecordsOf(j) : record'[d] = record[d]
    BY <1>1, <2>1 DEF RecordsOf, IInv, TypeOK
  <2>3. QED BY <1>3, <2>2, StateOfRecord DEF IInv
<1>5. \A j \in Keys : j # k => (HasFailed(j)' <=> HasFailed(j))
  BY <1>1 DEF HasFailed, IInv, TypeOK
<1>6. CASE k \notin Keys
  <2>1. States' = States BY <1>4, <1>6 DEF States
  <2>2. \A j \in Keys : HasFailed(j)' <=> HasFailed(j) BY <1>5, <1>6
  <2>3. Failed' = Failed BY <2>2, Zenon DEF Failed, HasFailed
  <2>4. QED BY <1>2, <2>1, <2>3
<1>7. ASSUME k \in Keys
      PROVE  /\ States[k] # "free" /\ States[k] = record[e]
             /\ States' = [States EXCEPT ![k] = record'[e]]
  <2>1. e \in RecordsOf(k) BY <1>1, <1>7, CallsAssumption DEF SameRequest, RecordsOf
  <2>2. StateOf(k) = record[e] /\ StateOf(k)' = record'[e]
    BY <1>3, <1>7, <2>1, StateOfRecord DEF IInv
  <2>3. record[e] # "free" BY <1>1 DEF IInv, TypeOK, RecordStates
  <2>4. QED BY <1>4, <1>7, <2>2, <2>3 DEF States
<1>8. CASE k \in Keys /\ RecordSent(c)
  <2>1. \A d \in Calls : call'[d] = "bad_gateway" <=> call[d] = "bad_gateway"
    BY <1>8 DEF RecordSent, IInv, TypeOK
  <2>2. \A j \in Keys : HasFailed(j)' <=> HasFailed(j) BY <2>1 DEF HasFailed
  <2>3. Failed' = Failed BY <2>2, Zenon DEF Failed, HasFailed
  <2>4. record'[e] = "sent" BY <1>1, <1>8 DEF RecordSent, IInv, TypeOK
  <2>5. c \in Sends[k] BY <1>8 DEF RecordSent, IInv, SendersHaveRows, Sends, SendsOf
  <2>6. Keyed!Succeed(k)
    BY <1>2, <1>7, <1>8, <2>3, <2>4, <2>5 DEF Keyed!Succeed, States, Sends, Failed
  <2>7. QED BY <1>8, <2>6
<1>9. CASE k \in Keys /\ RecordFailed(c)
  <2>1. call'[c] = "bad_gateway" BY <1>9 DEF RecordFailed, IInv, TypeOK
  <2>2. HasFailed(k)' BY <2>1 DEF HasFailed
  <2>3. \A j \in Keys : HasFailed(j)' = IF j = k THEN TRUE ELSE HasFailed(j)
    <3>1. ASSUME NEW j \in Keys, j # k PROVE HasFailed(j)' = HasFailed(j)
      BY <1>5, <3>1, Zenon DEF HasFailed
    <3>2. HasFailed(k)' = TRUE BY <2>2, Zenon DEF HasFailed
    <3>3. QED BY <3>1, <3>2, Zenon
  <2>4. Failed' = [Failed EXCEPT ![k] = TRUE] BY <2>3, Zenon DEF Failed
  <2>5. record'[e] = "failed" BY <1>1, <1>9 DEF RecordFailed, FailedState, IInv, TypeOK
  <2>6. States[k] = "pending" \/ Failed[k]
    <3>1. CASE e = c
      <4>1. call[c] = "refused" BY <1>9 DEF RecordFailed
      <4>2. record[c] = "pending"
        BY <1>1, <3>1, <4>1 DEF OwnerInv, RecordsFollowTheOwner, IInv, TypeOK, RecordStates
      <4>3. QED BY <1>7, <1>9, <3>1, <4>2
    <3>2. CASE e # c
      <4>1. Key[e] = k /\ call[e] = "bad_gateway"
        BY <1>1, <3>2 DEF OwnerInv, RetriesFollowTheOwner, SameRequest
      <4>2. QED BY <1>1, <1>9, <4>1 DEF Failed, HasFailed
    <3>3. QED BY <3>1, <3>2
  <2>7. Keyed!Fail(k)
    BY <1>2, <1>7, <1>9, <2>4, <2>5, <2>6 DEF Keyed!Fail, States, Sends, Failed
  <2>8. QED BY <1>9, <2>7
<1>10. QED BY <1>6, <1>8, <1>9

\* Each step of a call is one of KeyedMessage for its key, or cannot be seen.
LEMMA KeyedStep ==
  IInv /\ OwnerInv /\ IInv' /\ [Next]_vars => [Keyed!Next]_<<States, Sends, Failed>>
<1> SUFFICES ASSUME IInv, OwnerInv, IInv', [Next]_vars
             PROVE  Keyed!Next \/ UNCHANGED <<States, Sends, Failed>>
  OBVIOUS
<1>1. CASE SwitchRoutes \/ UNCHANGED vars
  BY <1>1, Unseen DEF SwitchRoutes, vars, IInv
<1>2. ASSUME NEW c \in Calls, Reserve(c) \/ Proceed(c) \/ Lost(c)
      PROVE  Keyed!Next \/ UNCHANGED <<States, Sends, Failed>>
  <2>1. CASE NoActiveRoute(c) \/ FindsOther(c) \/ FindsSent(c) \/ FindsPending(c)
             \/ FindsFailed(c) \/ FindsNothing(c) \/ InsertConflicts(c) \/ Lost(c)
    <3>1. UNCHANGED <<record, delivered>>
      BY <2>1 DEF NoActiveRoute, FindsOther, FindsSent, FindsPending, FindsFailed,
         FindsNothing, InsertConflicts, Lost, Answer
    <3>2. \A d \in Calls : call'[d] = "bad_gateway" <=> call[d] = "bad_gateway"
      BY <2>1 DEF NoActiveRoute, FindsOther, FindsSent, FindsPending, FindsFailed,
         FindsNothing, InsertConflicts, Lost, Answer, IInv, TypeOK
    <3>3. QED BY <3>1, <3>2, Unseen DEF IInv
  <2>2. CASE Inserts(c) BY <2>2, InsertTakes DEF Keyed!Next
  <2>3. CASE MetaAccepts(c) \/ SendFails(c) BY <2>3, SendDelivers DEF Keyed!Next
  <2>4. CASE RecordSent(c) \/ RecordFailed(c) BY <2>4, RecordSentSucceeds DEF Keyed!Next
  <2>5. QED BY <1>2, <2>1, <2>2, <2>3, <2>4 DEF Reserve, Proceed
<1>3. QED BY <1>1, <1>2 DEF Next

\* Every behaviour of the calls, seen key by key, is one of KeyedMessage: at
\* most one delivery of a key until a failure is answered, and no 'sent'
\* before a delivery.
THEOREM ApiRefinesKeyedMessage == Spec => ImplementsKeyedMessage
<1>1. Init => Keyed!Init
  <2>1. Init => \A k \in Keys : RecordsOf(k) = {} /\ SendsOf(k) = {}
    BY DEF Init, RecordsOf, SendsOf
  <2>2. Init => \A k \in Keys : StateOf(k) = "free" BY <2>1 DEF StateOf
  <2>3. Init => \A k \in Keys : HasFailed(k) = FALSE
    <3>1. Init => \A k \in Keys : ~HasFailed(k) BY DEF Init, HasFailed
    <3>2. QED BY <3>1, Zenon DEF HasFailed
  <2>4. QED BY <2>1, <2>2, <2>3, Zenon DEF Keyed!Init
<1>2. [Keyed!Next]_<<States, Sends, Failed>>
        => [Keyed!Next]_<<[k \in Keys |-> StateOf(k)], [k \in Keys |-> SendsOf(k)],
                          [k \in Keys |-> HasFailed(k)]>>
  BY DEF States, Sends, Failed
<1>3. (IInv /\ OwnerInv) /\ (IInv /\ OwnerInv)' /\ [Next]_vars
        => [Keyed!Next]_<<[k \in Keys |-> StateOf(k)], [k \in Keys |-> SendsOf(k)],
                          [k \in Keys |-> HasFailed(k)]>>
  BY <1>2, KeyedStep
<1>4. QED
  BY <1>1, <1>3, OwnerInvariance, PTL DEF Spec, ImplementsKeyedMessage, Keyed!Spec

=============================================================================

---------------------------- MODULE ApiMessages ----------------------------
(***************************************************************************)
(* POST /v1/tenants/{t}/messages: the Idempotency-Key protocol of          *)
(* send_message over wa.api_message, for the calls of one tenant.          *)
(*                                                                         *)
(* A call reserves a record in one transaction, awaits Meta without one,   *)
(* and writes the outcome in another; calls run concurrently.  A client's  *)
(* retry is another call with the same key.  A wa.api_message row is named *)
(* by the call that INSERTs it.                                            *)
(***************************************************************************)
EXTENDS Naturals, FiniteSets

CONSTANTS
  Calls,     \* the POSTs that arrive
  Keys,      \* values of the Idempotency-Key header
  Key,       \* the key of a call, or None
  Bodies,    \* request payloads
  Body,      \* the payload of a call
  None,      \* no header, SQL NULL
  MaxLosses  \* bound: calls that die between two of their steps

ASSUME CallsAssumption ==
  /\ None \notin Keys \cup Calls
  /\ Key \in [Calls -> Keys \cup {None}]
  /\ Body \in [Calls -> Bodies]
  /\ MaxLosses \in Nat

VARIABLES
  call,       \* c |-> where send_message stands, then the answer it gave
  row,        \* c |-> the record the call works on
  record,     \* c |-> the state of the wa.api_message row that c inserted
  delivered,  \* the calls whose message Meta delivered
  routed,     \* whether the tenant has an active wa.route
  losses      \* calls that died so far

vars == <<call, row, record, delivered, routed, losses>>

Answers == {"created", "replayed", "in_flight", "reused", "no_route", "bad_gateway"}
CallStates == {"received", "reserving", "sending", "accepted", "refused", "lost"}
                \cup Answers
RecordStates == {"absent", "pending", "sent", "failed"}

\* The values of the variables; a call that sends or has sent works on a
\* committed record, new or retried.
TypeOK ==
  /\ call \in [Calls -> CallStates]
  /\ row \in [Calls -> Calls \cup {None}]
  /\ record \in [Calls -> RecordStates]
  /\ delivered \subseteq Calls
  /\ routed \in BOOLEAN
  /\ losses \in 0..MaxLosses
  /\ \A c \in Calls :
       call[c] \in {"sending", "accepted", "refused", "created", "bad_gateway"} =>
         /\ row[c] \in Calls
         /\ record[row[c]] # "absent"

Init ==
  /\ call = [c \in Calls |-> "received"]
  /\ row = [c \in Calls |-> None]
  /\ record = [c \in Calls |-> "absent"]
  /\ delivered = {}
  /\ routed = TRUE
  /\ losses = 0

-----------------------------------------------------------------------------
(* _reserve: the route, the row of the key FOR UPDATE, and what            *)
(* send_message then decides on that snapshot.                             *)

Answer(c, a) ==
  /\ call' = [call EXCEPT ![c] = a]
  /\ UNCHANGED <<row, record, delivered, routed, losses>>

\* The records that the unique index wa_api_message_idem lets a key have.
RecordsOf(k) == {e \in Calls : k # None /\ Key[e] = k /\ record[e] # "absent"}

NoActiveRoute(c) ==
  /\ call[c] = "received"
  /\ ~routed
  /\ Answer(c, "no_route")

\* IDEMPOTENCY_KEY_REUSED, looked at before the state of the record.
MutKeyReused(c, e) == FALSE

KeyReused(c, e) == Body[e] # Body[c]

FindsOther(c) ==
  /\ call[c] = "received"
  /\ routed
  /\ \E e \in RecordsOf(Key[c]) : KeyReused(c, e)
  /\ Answer(c, "reused")

FindsSent(c) ==
  /\ call[c] = "received"
  /\ routed
  /\ \E e \in RecordsOf(Key[c]) : ~KeyReused(c, e) /\ record[e] = "sent"
  /\ Answer(c, "replayed")

MutTakenStates == {}

TakenStates == {"pending"}

FindsPending(c) ==
  /\ call[c] = "received"
  /\ routed
  /\ \E e \in RecordsOf(Key[c]) : ~KeyReused(c, e) /\ record[e] \in TakenStates
  /\ Answer(c, "in_flight")

\* "previously failed: retry on the same record", which stays 'failed'.
MutRetried(e) == None

Retried(e) == e

FindsFailed(c) ==
  /\ call[c] = "received"
  /\ routed
  /\ \E e \in RecordsOf(Key[c]) :
       /\ ~KeyReused(c, e)
       /\ record[e] \notin {"sent"} \cup TakenStates
       /\ row' = [row EXCEPT ![c] = Retried(e)]
  /\ call' = [call EXCEPT ![c] = "sending"]
  /\ UNCHANGED <<record, delivered, routed, losses>>

FindsNothing(c) ==
  /\ call[c] = "received"
  /\ routed
  /\ RecordsOf(Key[c]) = {}
  /\ Answer(c, "reserving")

\* The INSERT and its COMMIT.  While another INSERT of the key is
\* uncommitted it waits, so it sees that call's record, or none.
MutInsertable(c) == TRUE

Insertable(c) == RecordsOf(Key[c]) = {}

Inserts(c) ==
  /\ call[c] = "reserving"
  /\ Insertable(c)
  /\ call' = [call EXCEPT ![c] = "sending"]
  /\ row' = [row EXCEPT ![c] = c]
  /\ record' = [record EXCEPT ![c] = "pending"]
  /\ UNCHANGED <<delivered, routed, losses>>

\* IntegrityError.
InsertConflicts(c) ==
  /\ call[c] = "reserving"
  /\ ~Insertable(c)
  /\ Answer(c, "in_flight")

-----------------------------------------------------------------------------
(* The awaited send: 200 with a wamid, or a WaApiError.  A NETWORK_ERROR   *)
(* may be a timeout after Meta took the message, and a CONTRACT_ERROR is a *)
(* 200 that could not be read.                                             *)

MetaAccepts(c) ==
  /\ call[c] = "sending"
  /\ call' = [call EXCEPT ![c] = "accepted"]
  /\ delivered' = delivered \cup {c}
  /\ UNCHANGED <<row, record, routed, losses>>

SendFails(c) ==
  /\ call[c] = "sending"
  /\ call' = [call EXCEPT ![c] = "refused"]
  /\ delivered' \in {delivered, delivered \cup {c}}
  /\ UNCHANGED <<row, record, routed, losses>>

\* _ok and _fail: UPDATEs by id that look at no state.
RecordSent(c) ==
  /\ call[c] = "accepted"
  /\ call' = [call EXCEPT ![c] = "created"]
  /\ record' = [record EXCEPT ![row[c]] = "sent"]
  /\ UNCHANGED <<row, delivered, routed, losses>>

MutFailedState == "pending"

FailedState == "failed"

RecordFailed(c) ==
  /\ call[c] = "refused"
  /\ call' = [call EXCEPT ![c] = "bad_gateway"]
  /\ record' = [record EXCEPT ![row[c]] = FailedState]
  /\ UNCHANGED <<row, delivered, routed, losses>>

\* The process dies, or the transaction raises: no more steps of this call.
Lost(c) ==
  /\ call[c] \in {"reserving", "sending", "accepted", "refused"}
  /\ losses < MaxLosses
  /\ losses' = losses + 1
  /\ call' = [call EXCEPT ![c] = "lost"]
  /\ UNCHANGED <<row, record, delivered, routed>>

\* patch_route and create_route of the tenant's routes.
SwitchRoutes ==
  /\ routed' = ~routed
  /\ UNCHANGED <<call, row, record, delivered, losses>>

Reserve(c) ==
  \/ NoActiveRoute(c) \/ FindsOther(c) \/ FindsSent(c) \/ FindsPending(c)
  \/ FindsFailed(c) \/ FindsNothing(c)

Proceed(c) ==
  \/ Inserts(c) \/ InsertConflicts(c) \/ MetaAccepts(c) \/ SendFails(c)
  \/ RecordSent(c) \/ RecordFailed(c)

Next ==
  \/ \E c \in Calls : Reserve(c) \/ Proceed(c) \/ Lost(c)
  \/ SwitchRoutes

Spec == Init /\ [][Next]_vars

\* A call that has begun runs on: Meta's answer or a timeout ends the await.
FairSpec == Spec /\ \A c \in Calls : WF_vars(Proceed(c))

-----------------------------------------------------------------------------

\* Two first calls with one key may both find no record; the unique index
\* still lets the key have one, so all later answers speak of one message.
OneRecordPerKey ==
  \A k \in Keys : \A d, e \in RecordsOf(k) : d = e

\* 201 or 200 is the truth: Meta delivered this body to the caller's key,
\* by this call or by one it repeats (the stored payload is compared, and a
\* record becomes 'sent' only after Meta took the message).
PositiveAnswersAreTrue ==
  \A c \in Calls : call[c] \in {"created", "replayed"} =>
    \E d \in delivered : /\ d = c \/ (Key[d] = Key[c] /\ Key[c] # None)
                         /\ Body[d] = Body[c]

\* A key is delivered twice only if one of its calls has answered with a
\* failure: a 'pending' record keeps every other call from sending.
ResentOnlyAfterFailure ==
  \A c, d \in delivered : c # d /\ Key[c] = Key[d] /\ Key[c] # None =>
    \E e \in Calls : Key[e] = Key[c] /\ call[e] = "bad_gateway"

\* What a key promises, in the terms of KeyedMessage: the state of its
\* record, the calls that delivered it, and whether one of them failed.
StateOf(k) ==
  IF RecordsOf(k) = {} THEN "free" ELSE record[CHOOSE e \in RecordsOf(k) : TRUE]

SendsOf(k) == {c \in delivered : Key[c] = k}

HasFailed(k) == \E c \in Calls : Key[c] = k /\ call[c] = "bad_gateway"

Keyed == INSTANCE KeyedMessage WITH
  state <- [k \in Keys |-> StateOf(k)],
  sends <- [k \in Keys |-> SendsOf(k)],
  failed <- [k \in Keys |-> HasFailed(k)]

\* However the calls of a key interleave and die, each step of send_message
\* is one that KeyedMessage allows: one delivery until a failure is
\* answered, also of a record that stays 'pending' for ever, and no 'sent'
\* before a delivery.
ImplementsKeyedMessage == Keyed!Spec

\* A record that says 'sent' is set back only by the failure of one of two
\* retries that overlapped, after the call that made it had failed: neither
\* call of a plain send and retry can undo the other's success.
SentIsOverwrittenOnlyByARace ==
  [][\A e \in Calls : record[e] = "sent" /\ record'[e] # "sent" =>
       \E c, d \in Calls \ {e} :
         /\ c # d /\ row[c] = e /\ row[d] = e
         /\ call[c] = "created" /\ call[d] = "refused"
         /\ call[e] = "bad_gateway"]_vars

\* A record does not stay 'pending', and its key is not refused for ever,
\* unless a call died.
PendingSettles ==
  \A e \in Calls : record[e] = "pending" ~> record[e] # "pending" \/ losses > 0

-----------------------------------------------------------------------------
\* docs/api.md: "Send an `Idempotency-Key` header and a retry never sends
\* twice": Meta does not take the message of two calls with one key.
NeverSendsTwice ==
  \A c, d \in Calls :
    call[c] \in {"accepted", "created"} /\ call[d] \in {"accepted", "created"}
      /\ Key[c] = Key[d] /\ Key[c] # None => c = d

=============================================================================

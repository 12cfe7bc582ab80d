------------------------------- MODULE Outbox -------------------------------
(***************************************************************************)
(* wa.outbox: enqueue_reply and the drains of it, send_outbox.             *)
(*                                                                         *)
(* The cron starts a drain every minute, whether or not the last one has   *)
(* ended.  A drain claims a batch in one transaction, which leaves the     *)
(* rows 'pending' and unlocked, and then sends row after row and writes    *)
(* each outcome in a transaction of its own.  A wa.outbox row is named by  *)
(* the reply it was INSERTed for.                                          *)
(***************************************************************************)
EXTENDS Naturals, FiniteSets

CONSTANTS
  Replies,      \* calls of enqueue_reply
  Keys,         \* values of dedup_key within a session
  Dedup,        \* the dedup_key of a reply, or None
  None,
  Drains,       \* bound: send_outbox jobs that overlap
  MaxAttempts,  \* _MAX_ATTEMPTS
  Limit,        \* the rows one claim takes
  MaxDeaths     \* bound: drains that end in an exception or with the worker

ASSUME OutboxAssumption ==
  /\ None \notin Keys \cup Replies
  /\ Dedup \in [Replies -> Keys \cup {None}]
  /\ MaxAttempts \in Nat
  /\ IsFiniteSet(Drains)
  /\ Limit \in Nat \ {0}
  /\ MaxDeaths \in Nat

VARIABLES
  state,       \* r |-> wa.outbox.state
  attempts,    \* r |-> wa.outbox.attempts
  due,         \* r |-> send_after against the clock
  drain,       \* d |-> the rows a drain holds, and where it stands with one
  deliveries,  \* r |-> how often Meta delivered the reply
  unsure,      \* rows held twice, or delivered without the drain knowing it
  deaths

vars == <<state, attempts, due, drain, deliveries, unsure, deaths>>

States == {"absent", "pending", "sent", "failed", "skipped_window"}
DueStates == {"waiting", "ready", "expired"}
DrainStates == {"loop", "sending", "accepted", "refused", "rejected"}

\* A drain between two runs: no row is left to it.
Idle == [at |-> "loop", todo |-> {}, row |-> None]

TypeOK ==
  /\ state \in [Replies -> States]
  /\ attempts \in [Replies -> 0..MaxAttempts]
  /\ due \in [Replies -> DueStates]
  /\ drain \in [Drains -> [at : DrainStates, todo : SUBSET Replies,
                           row : Replies \cup {None}]]
  /\ \A d \in Drains : drain[d].at = "loop" <=> drain[d].row = None
  /\ deliveries \in [Replies -> Nat]
  /\ unsure \subseteq Replies
  /\ deaths \in 0..MaxDeaths

Init ==
  /\ state = [r \in Replies |-> "absent"]
  /\ attempts = [r \in Replies |-> 0]
  /\ due = [r \in Replies |-> "ready"]
  /\ drain = [d \in Drains |-> Idle]
  /\ deliveries = [r \in Replies |-> 0]
  /\ unsure = {}
  /\ deaths = 0

Pending == {r \in Replies : state[r] = "pending"}

Held(d) == drain[d].todo \cup ({drain[d].row} \ {None})

-----------------------------------------------------------------------------

\* A key that has a pending row gets no second one.
Duplicate(r) ==
  /\ Dedup[r] # None
  /\ \E q \in Pending : Dedup[q] = Dedup[r]

\* No caller gives a send_after, so the row is due at once.
Enqueue(r) ==
  /\ state[r] = "absent"
  /\ ~Duplicate(r)
  /\ state' = [state EXCEPT ![r] = "pending"]
  /\ UNCHANGED <<attempts, due, drain, deliveries, unsure, deaths>>

SendAfterPasses(r) ==
  /\ r \in Pending
  /\ due[r] = "waiting"
  /\ due' = [due EXCEPT ![r] = "ready"]
  /\ UNCHANGED <<state, attempts, drain, deliveries, unsure, deaths>>

\* 23 hours after send_after.
WindowCloses(r) ==
  /\ r \in Pending
  /\ due[r] = "ready"
  /\ due' = [due EXCEPT ![r] = "expired"]
  /\ UNCHANGED <<state, attempts, drain, deliveries, unsure, deaths>>

MutHasAttempts(r) == attempts[r] <= MaxAttempts

HasAttempts(r) == attempts[r] < MaxAttempts

MutMissedStates == {r \in Replies : due[r] = "expired"}

\* Rows whose attempts are used up among them.
MutMissed == {r \in Pending : due[r] = "expired" /\ HasAttempts(r)}

Missed == {r \in Pending : due[r] = "expired"}

MutCounted(n) == n

Counted(n) == n + 1

\* claim_pending: expire, then count an attempt on ready rows.  A row that a
\* concurrent transaction has locked is skipped.
Claim(d) ==
  LET ready == {r \in Pending \ Missed : due[r] = "ready" /\ HasAttempts(r)}
  IN  /\ drain[d] = Idle
      /\ \E batch \in SUBSET ready :
           /\ Cardinality(batch) <= Limit
           /\ attempts' = [r \in Replies |-> IF r \in batch THEN Counted(attempts[r])
                                                            ELSE attempts[r]]
           /\ drain' = [drain EXCEPT ![d].todo = batch]
           /\ unsure' = unsure \cup (batch \cap UNION {Held(e) : e \in Drains})
      /\ state' = [r \in Replies |-> IF r \in Missed THEN "skipped_window" ELSE state[r]]
      /\ UNCHANGED <<due, deliveries, deaths>>

-----------------------------------------------------------------------------
(* One turn of the loop.  Routes are switched on and off at any time.      *)

\* No active route: mark_failed(permanent=True).
NoRoute(d) ==
  /\ drain[d].at = "loop"
  /\ \E r \in drain[d].todo :
       /\ state' = [state EXCEPT ![r] = "failed"]
       /\ drain' = [drain EXCEPT ![d].todo = @ \ {r}]
  /\ UNCHANGED <<attempts, due, deliveries, unsure, deaths>>

Send(d) ==
  /\ drain[d].at = "loop"
  /\ \E r \in drain[d].todo :
       drain' = [drain EXCEPT ![d] = [at |-> "sending", todo |-> @.todo \ {r}, row |-> r]]
  /\ UNCHANGED <<state, attempts, due, deliveries, unsure, deaths>>

MetaAccepts(d) ==
  /\ drain[d].at = "sending"
  /\ drain' = [drain EXCEPT ![d].at = "accepted"]
  /\ deliveries' = [deliveries EXCEPT ![drain[d].row] = @ + 1]
  /\ UNCHANGED <<state, attempts, due, unsure, deaths>>

\* A WaApiError, retryable ("refused") or not ("rejected"); a timeout or a
\* 200 that cannot be read may come after the delivery.
SendFails(d) ==
  /\ drain[d].at = "sending"
  /\ \E at \in {"refused", "rejected"} : drain' = [drain EXCEPT ![d].at = at]
  /\ \/ UNCHANGED <<deliveries, unsure>>
     \/ /\ deliveries' = [deliveries EXCEPT ![drain[d].row] = @ + 1]
        /\ unsure' = unsure \cup {drain[d].row}
  /\ UNCHANGED <<state, attempts, due, deaths>>

Marks(d, s) ==
  /\ state' = [state EXCEPT ![drain[d].row] = s]
  /\ drain' = [drain EXCEPT ![d].at = "loop", ![d].row = None]
  /\ UNCHANGED <<attempts, deliveries, unsure, deaths>>

MutSentState == "pending"

SentState == "sent"

MarkSent(d) ==
  /\ drain[d].at = "accepted"
  /\ Marks(d, SentState)
  /\ UNCHANGED due

MutPermanentState == "sent"

PermanentState == "failed"

MarkPermanent(d) ==
  /\ drain[d].at = "rejected"
  /\ Marks(d, PermanentState)
  /\ UNCHANGED due

\* send_after = now() + backoff, whatever state another drain gave the row.
MarkRetry(d) ==
  /\ drain[d].at = "refused"
  /\ Marks(d, "pending")
  /\ due' = [due EXCEPT ![drain[d].row] = "waiting"]

\* Another exception ends the loop, or the worker dies; its rows stay pending.
Dies(d) ==
  /\ drain[d] # Idle
  /\ deaths < MaxDeaths
  /\ deaths' = deaths + 1
  /\ drain' = [drain EXCEPT ![d] = Idle]
  /\ unsure' = IF drain[d].at = "accepted" THEN unsure \cup {drain[d].row} ELSE unsure
  /\ UNCHANGED <<state, attempts, due, deliveries>>

-----------------------------------------------------------------------------

Clock(r) == SendAfterPasses(r) \/ WindowCloses(r)

Turn(d) ==
  \/ NoRoute(d) \/ Send(d) \/ MetaAccepts(d) \/ SendFails(d)
  \/ MarkSent(d) \/ MarkPermanent(d) \/ MarkRetry(d)

Next ==
  \/ \E r \in Replies : Enqueue(r) \/ Clock(r)
  \/ \E d \in Drains : Claim(d) \/ Turn(d) \/ Dies(d)

Spec == Init /\ [][Next]_vars

\* Time passes, the cron starts drains, and a drain that runs goes on.
Fairness ==
  /\ \A r \in Replies : WF_vars(Clock(r))
  /\ \A d \in Drains : WF_vars(Claim(d)) /\ WF_vars(Turn(d))

FairSpec == Spec /\ Fairness

-----------------------------------------------------------------------------

\* However drains overlap, fail and die, a reply is delivered at most once
\* per attempt counted on its row, hence at most _MAX_ATTEMPTS times: claims
\* count before they send, and each claim sends a row once.
DeliveriesAreCounted ==
  \A r \in Replies : deliveries[r] <= attempts[r] /\ attempts[r] <= MaxAttempts

\* A reply is delivered twice only if two drains held its row at once, or a
\* delivery went unnoticed: mark_sent keeps every later claim off the row.
SecondDeliveryHasCause ==
  \A r \in Replies : deliveries[r] > 1 => r \in unsure

\* What a row says at rest is true: 'sent' was delivered; 'failed' was not,
\* and 'skipped_window' was not or a drain is about to mark it, unless two
\* drains held the row or a delivery went unnoticed.
OutcomesAreTrue ==
  \A r \in Replies :
    /\ state[r] = "sent" => deliveries[r] > 0
    /\ state[r] = "failed" /\ r \notin unsure => deliveries[r] = 0
    /\ state[r] = "skipped_window" /\ r \notin unsure /\ deliveries[r] > 0 =>
         \E d \in Drains : drain[d].at = "accepted" /\ drain[d].row = r

\* 'sent' and 'failed' are final: the UPDATEs by id look at no state, yet
\* only a row that two drains held, or delivered unnoticed, can lose them.
FinalStatesStay ==
  [][\A r \in Replies : state[r] \in {"sent", "failed"} /\ state'[r] # state[r]
       => r \in unsure]_vars

\* A queued reply comes to rest: retries end at _MAX_ATTEMPTS, and what is
\* left of 'pending', rows of dead drains included, ends with its window.
RepliesSettle ==
  \A r \in Replies : r \in Pending ~> [](r \notin Pending)

=============================================================================

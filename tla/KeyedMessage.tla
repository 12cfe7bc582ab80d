---------------------------- MODULE KeyedMessage ----------------------------
(***************************************************************************)
(* What the Idempotency-Key header promises of POST messages, as far as    *)
(* the code keeps it: of the message of a key, whether it is free, under   *)
(* way, sent or failed, and which calls had Meta deliver it.  Until a call *)
(* has answered with a failure there is at most one delivery; after one,   *)
(* every retry may deliver again, and 'sent' and 'failed' may alternate.   *)
(***************************************************************************)
CONSTANTS Calls, Keys, Key

VARIABLES
  state,   \* k |-> "free", "pending", "sent" or "failed"
  sends,   \* k |-> the calls with the key whose message Meta delivered
  failed   \* k |-> whether a call with the key has answered with a failure

Init ==
  /\ state = [k \in Keys |-> "free"]
  /\ sends = [k \in Keys |-> {}]
  /\ failed = [k \in Keys |-> FALSE]

\* The first call takes the key.
Take(k) ==
  /\ state[k] = "free"
  /\ state' = [state EXCEPT ![k] = "pending"]
  /\ UNCHANGED <<sends, failed>>

\* The first delivery of the key, or one by a retry after a failure.
Deliver(k, c) ==
  /\ Key[c] = k
  /\ c \notin sends[k]
  /\ \/ state[k] = "pending" /\ sends[k] = {}
     \/ state[k] \in {"sent", "failed"} /\ failed[k]
  /\ sends' = [sends EXCEPT ![k] = @ \cup {c}]
  /\ UNCHANGED <<state, failed>>

\* 'sent' is never written of a message that Meta does not have.
Succeed(k) ==
  /\ state[k] # "free"
  /\ sends[k] # {}
  /\ state' = [state EXCEPT ![k] = "sent"]
  /\ UNCHANGED <<sends, failed>>

\* The first call of the key fails, or a retry after it.
Fail(k) ==
  /\ state[k] = "pending" \/ (state[k] # "free" /\ failed[k])
  /\ state' = [state EXCEPT ![k] = "failed"]
  /\ failed' = [failed EXCEPT ![k] = TRUE]
  /\ UNCHANGED sends

Next ==
  \E k \in Keys :
    \/ Take(k) \/ Succeed(k) \/ Fail(k)
    \/ \E c \in Calls : Deliver(k, c)

Spec == Init /\ [][Next]_<<state, sends, failed>>

=============================================================================

-------------------------- MODULE SessionLifecycle --------------------------
(***************************************************************************)
(* What the capture cycle promises of wa.session, whatever the jobs do to  *)
(* each other: the states a session goes through, and that a contact has   *)
(* at most one session open.  It is the state flow at the head of          *)
(* session.py, as far as the code reaches it: gaps_pending, escalated and  *)
(* cancelled are never entered.                                            *)
(***************************************************************************)
CONSTANTS Sessions, Owner, Deals, NoDeal

VARIABLES state, deal

OpenStates == {"collecting", "processing", "confirming_deal"}

OpenOf(c) == {s \in Sessions : Owner[s] = c /\ state[s] \in OpenStates}

Init ==
  /\ state = [s \in Sessions |-> "absent"]
  /\ deal = [s \in Sessions |-> NoDeal]

\* A first message opens a session, when its contact has none open.
Start(s) ==
  /\ state[s] = "absent"
  /\ OpenOf(Owner[s]) = {}
  /\ state' = [state EXCEPT ![s] = "collecting"]
  /\ UNCHANGED deal

\* Sessions whose debounce timer is due leave 'collecting' together.
Flush(due) ==
  /\ due # {}
  /\ \A s \in due : state[s] = "collecting"
  /\ state' = [s \in Sessions |-> IF s \in due THEN "processing" ELSE state[s]]
  /\ UNCHANGED deal

\* A session gets a deal once, and only out of 'processing'.
Confirm(s, d) ==
  /\ state[s] = "processing"
  /\ deal[s] = NoDeal
  /\ state' = [state EXCEPT ![s] = "confirming_deal"]
  /\ deal' = [deal EXCEPT ![s] = d]

\* The gap message of a flushed session found nothing missing.
Complete(s) ==
  /\ state[s] \in {"processing", "parked"}
  /\ state' = [state EXCEPT ![s] = "complete"]
  /\ UNCHANGED deal

Park(s) ==
  /\ state[s] # "absent"
  /\ state' = [state EXCEPT ![s] = "parked"]
  /\ UNCHANGED deal

Next ==
  \/ \E s \in Sessions : Start(s) \/ Complete(s) \/ Park(s)
  \/ \E s \in Sessions, d \in Deals : Confirm(s, d)
  \/ \E due \in SUBSET Sessions : Flush(due)

Spec == Init /\ [][Next]_<<state, deal>>

=============================================================================

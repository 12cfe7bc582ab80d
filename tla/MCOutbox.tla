------------------------------ MODULE MCOutbox ------------------------------
(***************************************************************************)
(* Instances of Outbox for TLC: replies of one session that share a key.   *)
(***************************************************************************)
EXTENDS Outbox, TLC

CONSTANTS r1, r2, d1, d2, gap

MCDedup == [r \in Replies |-> gap]

=============================================================================

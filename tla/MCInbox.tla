------------------------------ MODULE MCInbox ------------------------------
(***************************************************************************)
(* Instances of Inbox for TLC: a message that comes alone, with another    *)
(* message behind it and with one in front of it; a status update and a    *)
(* garbled body.                                                           *)
(***************************************************************************)
EXTENDS Inbox, TLC

CONSTANTS first, batch, more, status, garbled, w1, w2, w3

MCMessages ==
  [d \in Deliveries |-> CASE d = batch -> <<w2, w1>>
                          [] d = more -> <<w1, w3>>
                          [] d \in {status, garbled} -> <<>>
                          [] OTHER -> <<w1>>]

=============================================================================

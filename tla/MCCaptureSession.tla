-------------------------- MODULE MCCaptureSession --------------------------
(***************************************************************************)
(* Instances of CaptureSession for TLC.  Messages m1 and t3 are texts (or  *)
(* button presses), m2 and m4 are media.                                   *)
(***************************************************************************)
EXTENDS CaptureSession

CONSTANTS m1, m2, t3, m4, c1, c2, n1, n2, n3

MCMedia == {m2, m4} \cap Messages

\* One contact sends everything.
MCOneSender == [m \in Messages |-> c1]

\* The text t3 comes from a second contact.
MCTwoSenders == [m \in Messages |-> IF m = t3 THEN c2 ELSE c1]

\* The first 8 hex digits of session UUIDs tell the sessions apart ...
MCOwnNumber == [m \in Messages |-> CASE m = m1 -> n1 [] m = m2 -> n2 [] OTHER -> n3]

\* ... or they collide.
MCSameNumber == [m \in Messages |-> n1]

=============================================================================

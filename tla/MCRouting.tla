------------------------------- MODULE MCRouting -------------------------------
(***************************************************************************)
(* Instances of Routing for TLC.                                           *)
(***************************************************************************)
EXTENDS Routing, TLC

CONSTANTS t1, t2, p1, p2, n1, n2, a, b

\* Messages differ by their job's number and phone, which Init chooses.
MCSymmetry == Permutations(Messages) \cup Permutations(Numbers) \cup Permutations(Tenants)

=============================================================================

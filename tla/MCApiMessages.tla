--------------------------- MODULE MCApiMessages ---------------------------
(***************************************************************************)
(* Instances of ApiMessages for TLC: three calls with one key and body, one*)
(* with the same key and another body, one without a key.                  *)
(***************************************************************************)
EXTENDS ApiMessages, TLC

CONSTANTS c1, c2, c3, other, keyless, k, b, b2

MCKey == [c \in Calls |-> IF c = keyless THEN None ELSE k]

MCBody == [c \in Calls |-> IF c = other THEN b2 ELSE b]

=============================================================================

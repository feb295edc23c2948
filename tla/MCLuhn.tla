------------------------------ MODULE MCLuhn ------------------------------
(* Instances of Luhn for TLC. *)
EXTENDS Luhn

\* Numbers of both parities, the empty one among them.
LengthsMC == 0 .. 3
=============================================================================

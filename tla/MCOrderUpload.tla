--------------------------- MODULE MCOrderUpload ---------------------------
(* Instances of OrderUpload for TLC. *)
EXTENDS OrderUpload, TLC

CONSTANTS r1, r2, r3, u1, u2, n1, n2, bad

Symmetry ==
  Permutations({r1, r2, r3}) \union Permutations({u1, u2}) \union Permutations({n1, n2})
=============================================================================

---------------------------- MODULE MCAccounts ----------------------------
(* Instances of Accounts for TLC. *)
EXTENDS Accounts, TLC

CONSTANTS r1, r2, r3, l1, l2, p1, p2, long

Symmetry == Permutations({r1, r2, r3}) \union Permutations({l1, l2}) \union Permutations({p1, p2})
=============================================================================

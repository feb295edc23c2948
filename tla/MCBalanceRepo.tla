--------------------------- MODULE MCBalanceRepo ---------------------------
(* Instances of BalanceRepo for TLC. *)
EXTENDS BalanceRepo, TLC

CONSTANTS u1, o1, o2, n1, n2, h1, h2, w1, w2

OwnerOne   == o1 :> u1 @@ o2 :> u1
RewardsMC  == o1 :> 2 @@ o2 :> 1

\* What nobody checks: nothing, and less than nothing.
SumsMC == {-1, 0, 2}
Symmetry == Permutations({h1, h2}) \union Permutations({w1, w2})
=============================================================================

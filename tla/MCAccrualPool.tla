--------------------------- MODULE MCAccrualPool ---------------------------
(* Instances of AccrualPool for TLC. *)
EXTENDS AccrualPool, TLC

CONSTANTS o1, o2, w1, w2, h1, h2

\* o2 is the order without a reward: PROCESSED, and nothing to credit.
RewardOfTwo == o1 :> 5 @@ o2 :> 0

SymmetryOfWorkers  == Permutations({w1, w2})
=============================================================================

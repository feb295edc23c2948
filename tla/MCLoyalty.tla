----------------------------- MODULE MCLoyalty -----------------------------
(* Instances of Loyalty for TLC. *)
EXTENDS Loyalty, TLC

CONSTANTS u1, o1, o2, n1, h1, w1, w2

OwnerMC  == [o \in Orders |-> u1]
RewardMC == [o \in Orders |-> IF o = o1 THEN 2 ELSE 1]

\* A negative sum passes the handler as well.
SumsMC == {-1, 2}
=============================================================================

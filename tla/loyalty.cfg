SPECIFICATION FairLoyaltySpec
CONSTANTS
  u1 = u1  o1 = o1  o2 = o2  n1 = n1  h1 = h1  w1 = w1  w2 = w2
  Users = {u1}
  Orders = {o1, o2}
  Owner <- OwnerMC
  Reward <- RewardMC
  Numbers = {n1}
  Sums <- SumsMC
  Handlers = {h1}
  Workers = {w1, w2}
  NoOne = NoOne
  MaxFaults = 1
INVARIANTS BalanceIsExplained ToldIsListed
PROPERTIES ImplementsOrderBook EveryCallReturns

SPECIFICATION FairSpec
CONSTANTS
  o1 = o1  o2 = o2  w1 = w1  w2 = w2  h1 = h1  h2 = h2
  Orders = {o1, o2}
  Reward <- RewardOfTwo
  Workers = {w1}
  Handlers = {h1}
  Scanner = Scanner
  NoOrder = NoOrder
  PollBatch = 1
  QueueFactor = 1
  MaxFaults = 2
INVARIANTS NoLeak
PROPERTIES VerdictDelivered OldestIsRepolled RewardCreditedUnlessFailed

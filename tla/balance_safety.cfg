SPECIFICATION Spec
CONSTANTS
  u1 = u1  u2 = u2  o1 = o1  o2 = o2  n1 = n1  n2 = n2  h1 = h1  h2 = h2  w1 = w1  w2 = w2
  Users = {u1}
  Orders = {o1, o2}
  Owner <- OwnerOne
  Reward <- RewardsMC
  Numbers = {n1, n2}
  Sums <- SumsMC
  Handlers = {h1, h2}
  Workers = {w1, w2}
  NoOne = NoOne
  MaxFaults = 1
SYMMETRY Symmetry
INVARIANTS TypeOK NeverOverdrawn BooksBalance
PROPERTIES ImplementsLedger

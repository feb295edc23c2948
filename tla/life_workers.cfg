SPECIFICATION Spec
CONSTANTS
  w1 = w1  w2 = w2  h1 = h1  h2 = h2
  Workers = {w1, w2}
  Handlers = {h1, h2}
  Environments <- Bare
  Migrations = 1
  Attempts = 1
  MaxStarts = 1
INVARIANTS WorkersHaveStopped
CHECK_DEADLOCK FALSE

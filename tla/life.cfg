SPECIFICATION FairSpec
CONSTANTS
  w1 = w1  w2 = w2  h1 = h1  h2 = h2
  Workers = {w1, w2}
  Handlers = {h1, h2}
  Environments <- OneKey
  Migrations = 2
  Attempts = 2
  MaxStarts = 2
INVARIANTS TypeOK PriorityKept ServesMigrated RunWaitsForRequests NoQueryIsCut
PROPERTIES Terminates
CHECK_DEADLOCK FALSE

SPECIFICATION Spec
CONSTANTS
  r1 = r1  r2 = r2  r3 = r3  u1 = u1  u2 = u2  n1 = n1  n2 = n2  bad = bad
  Requests = {r1, r2, r3}
  Users = {u1, u2}
  Numbers = {n1, n2, bad}
  ValidNumbers = {n1, n2}
  NoUser = NoUser
  MaxFaults = 2
SYMMETRY Symmetry
INVARIANTS TypeOK AnswersAreTrue AcceptedOnce EnqueuedIsStored
CHECK_DEADLOCK FALSE

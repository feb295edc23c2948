SPECIFICATION Spec
CONSTANTS
  r1 = r1  r2 = r2  r3 = r3  l1 = l1  l2 = l2  p1 = p1  p2 = p2  long = long  Empty = Empty
  Requests = {r1, r2, r3}
  Logins = {l1, l2, Empty}
  Passwords = {p1, p2, long}
  LongPasswords = {long}
  Nothing = Nothing
  TTL = 3
  Second = 2
  MaxTime = 4
  MaxFaults = 1
SYMMETRY Symmetry
INVARIANTS TypeOK RegisteredOnce AnswersAreTrue ServedAfterLogin SessionLasts
CHECK_DEADLOCK FALSE

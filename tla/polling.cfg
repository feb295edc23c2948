SPECIFICATION FairPollSpec
CONSTANTS
  w1 = w1  w2 = w2
  Workers = {w1, w2}
  RetryMax = 1
  NoHeader = NoHeader
  Headers <- HeadersMC
  RetryAfter <- RetryAfterMC
  Second = 2
  Backoff = 1
  Longest = 4
  Half = 8
  MaxTime = 4
INVARIANTS PollTypeOK AskedIsKept PauseHoldsBut PauseIsBounded
PROPERTIES WorkerResumes

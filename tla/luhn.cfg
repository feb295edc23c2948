SPECIFICATION Spec
CONSTANTS
  Lengths <- LengthsMC
  Others = {10}
INVARIANTS ReturnsLuhn TypoIsCaught
CHECK_DEADLOCK FALSE

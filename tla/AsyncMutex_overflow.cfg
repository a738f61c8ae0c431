\* A narrow count: two clients that never wait for each other overflow it.
SPECIFICATION Spec
CONSTANTS
  Ops = {c1, c2}
  Guarded = {}
  InitialCount = 1
  MaxInt = 3
  TryLockSuccess = FALSE
  MaxRounds = 4
PROPERTIES
  DecrementAssertion
CHECK_DEADLOCK FALSE

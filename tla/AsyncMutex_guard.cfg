\* A client that locks with a guard waits when the mutex is destroyed.
SPECIFICATION Spec
CONSTANTS
  Ops = {g1, c1}
  Guarded = {g1}
  InitialCount = 1
  MaxInt = 8
  TryLockSuccess = FALSE
  MaxRounds = 2
PROPERTIES
  AbortedNeverUnlocks
CHECK_DEADLOCK FALSE

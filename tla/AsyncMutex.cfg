\* Four clients, one of which locks with a guard, lock twice each.  MaxInt is
\* above the number of unlocks, so that the count does not overflow.
SPECIFICATION FairSpec
CONSTANTS
  Ops = {g1, c1, c2, c3}
  Guarded = {g1}
  InitialCount = 1
  MaxInt = 10
  TryLockSuccess = FALSE
  MaxRounds = 2
INVARIANTS
  MutualExclusion
  LockedIffOwned
  NoLostWakeup
PROPERTIES
  ImplementsLock
  LockCompletes
\* Every client stops after its last lock.
CHECK_DEADLOCK FALSE

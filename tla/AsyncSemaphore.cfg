\* Four operations on a semaphore built with one permit; a count up to 2 lets
\* permits pile up while nobody waits.  The program does not release at INT_MAX.
SPECIFICATION FairSpecBelowLimit
CONSTANTS
  Ops = {o1, o2, o3, o4}
  InitialCount = 1
  MaxInt = 2
INVARIANTS
  NoWaitWithPermit
  OnePlace
  FifoCompletion
PROPERTIES
  NoOrphan
  ImplementsCountingSemaphore
\* A destroyed semaphore whose handlers have run does nothing more.
CHECK_DEADLOCK FALSE

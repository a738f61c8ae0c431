\* Two clients read the result of try_lock as every other lock of the
\* repository, and BasicLockable, return it.
SPECIFICATION Spec
CONSTANTS
  Ops = {c1, c2}
  Guarded = {}
  InitialCount = 1
  MaxInt = 8
  TryLockSuccess = TRUE
  MaxRounds = 2
INVARIANTS
  MutualExclusion
CHECK_DEADLOCK FALSE

\* Three threads over three latches: every pair of latches in either order.  The
\* abstract specification treats threads and latches alike, as the symmetry needs.
SPECIFICATION Spec
CONSTANTS
  Threads = {t1, t2, t3}
  Latches = {l1, l2, l3}
  Free = Free
SYMMETRY Symmetry
INVARIANTS
  LatchPreconditions
  NoMutexLeft
  HolderNeverBlocks
  OneWinner
  DeniedOnlyIfTaken
PROPERTIES
  ImplementsAtomicTransfer

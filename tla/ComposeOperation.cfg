SPECIFICATION Spec
CONSTANTS
  Ops = {o1, o2}
  Types = {terminal, partial}
  Terminal = terminal
  None = None
  MaxAwaits = 2
  Filters = {{terminal}, {terminal, partial}}
CHECK_DEADLOCK FALSE
INVARIANTS
  OneOwner
  RunOutlivesOperations
  NotInsideInitiation
  CancellationHonoured
PROPERTIES
  ImplementsAsyncOperation
  EveryOperationEnds

\* One copy of one value, and a loop whose first receive may fail.
SPECIFICATION PipelineSpec
CONSTANTS
  SizeMax = 7
  MaxValues = 1
  SourceCapacity = 1
  SinkCapacity = 1
  MaxCopies = 1
INVARIANT
  DestroysOnlyConstructed
\* When the executor is gone everything stops.
CHECK_DEADLOCK FALSE

\* Two copies, one after the other, of up to three values: one in either channel
\* and one that waits for room while a third is on its way.
SPECIFICATION PipelineSpec
CONSTANTS
  SizeMax = 7
  MaxValues = 3
  SourceCapacity = 1
  SinkCapacity = 1
  MaxCopies = 2
INVARIANTS
  PipelineTypeOK
  CountRight
  InOrder
  LossBounded
  ValueLifetime
PROPERTIES
  LeavesNothing
  PipelineEnds
  
\* When the executor is gone everything stops.
CHECK_DEADLOCK FALSE

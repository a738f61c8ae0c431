\* Three operations with a predicate and a plain one, two items, one notification
\* too many.
SPECIFICATION FairSpec
CONSTANTS
  Ops = {o1, o2, o3, p1}
  Plain = {p1}
  InitialCount = 0
  MaxInt = 10
  MaxItems = 2
  MaxNotify = 1
INVARIANTS
  ItemsSpokenFor
PROPERTIES
  CloseReleasesAll
\* After the destruction everything stops.
CHECK_DEADLOCK FALSE

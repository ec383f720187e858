SPECIFICATION FairSpec
CONSTANT N = 4
INVARIANTS
  DrainedIsComplete
PROPERTIES
  ImplementsStream
  RangeEnds
  CancelFrees
\* all goroutines may end, or block for a caller that is gone
CHECK_DEADLOCK FALSE

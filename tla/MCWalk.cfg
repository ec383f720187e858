SPECIFICATION FairSpec
CONSTANT N = 4
INVARIANTS
  FailureIsJustified
PROPERTIES
  ImplementsStream
  WalkReturns
  HealthyWalkEnds
\* every goroutine of a walk may end, or block for ever
CHECK_DEADLOCK FALSE

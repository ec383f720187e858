SPECIFICATION FairSpec
CONSTANT N = 2
PROPERTIES
  ConsumingPreventsLeaks
\* every goroutine of a walk may end, or block for ever
CHECK_DEADLOCK FALSE

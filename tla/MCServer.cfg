SPECIFICATION FairSpec
CONSTANTS
  r1 = r1
  r2 = r2
  Request = {r1, r2}
  MaxRetries = 3
  Retries = 3
INVARIANTS
  ServedAreBacked
  CleanExitAnswersAll
PROPERTIES
  PingEnds
  StartSettles
  SignalStops
\* the process ends
CHECK_DEADLOCK FALSE

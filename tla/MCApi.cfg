SPECIFICATION FairSpec
CONSTANTS
  a = a
  b = b
  blank = blank
  broken = broken
  r1 = r1
  r2 = r2
  Blank = blank
  Text <- MCText
  Invalid <- MCInvalid
  Lists <- MCLists
  MaxId = 8
  Request = {r1, r2}
  Form <- MCForm
INVARIANTS
  OneCallAtATime
  AckedIsStored
  AtMostOnce
  FailureIsExplained
  OneOwnerPerName
PROPERTIES
  NoAckAfterClose
  ImplementsStore
  HandlersEnd
\* all requests may have ended
CHECK_DEADLOCK FALSE

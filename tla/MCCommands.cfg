SPECIFICATION PagingFairSpec
CONSTANTS
  a = a
  b = b
  blank = blank
  broken = broken
  Blank = blank
  Text <- MCText
  Invalid <- MCInvalid
  Lists = {}
  MaxId = 3
  Collation <- MCCollation
  MaxInt32 = 2
  MaxUint32 = 5
  PageLimit = 2
  CommandLimit = 1
  None = None
  NoNumber = NoNumber
  Elsewhere = {a, b}
  me = me
  other = other
  Process = {me, other}
  self = me
  MaxRetries = 3
  Retries = 1
  Input <- MCInput
  Paged <- MCPaged
  Limits <- MCLimits
INVARIANTS
  AnalysesAreKept
  OmissionsAreAskedFor
  PageMissesNothing
  ExitZeroStoresAll
  LogTellsAllButOne
PROPERTIES
  CommandEnds
\* the process ends
CHECK_DEADLOCK FALSE

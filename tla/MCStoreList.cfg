SPECIFICATION StoreSpec
CONSTANTS
  a = a
  b = b
  blank = blank
  broken = broken
  Blank = blank
  Text <- MCText
  Invalid <- MCInvalid
  Lists <- MCLists
  MaxId = 3
INVARIANTS
  ListsRelatedWords
CHECK_DEADLOCK FALSE

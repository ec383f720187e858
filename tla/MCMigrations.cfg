SPECIFICATION MigrationsSpec
CONSTANTS
  a = a
  blank = blank
  broken = broken
  Blank = blank
  Text <- MCText
  Invalid <- MCInvalid
  Lists <- MCLists
  MaxId = 2
  MaxForces = 1
INVARIANTS
  KeysUnique
  Referential
  SchemaRules
  CleanTellsSchema
PROPERTIES
  OnlyDownLoses
\* a dirty version stops migrate, and the sequences may be used up
CHECK_DEADLOCK FALSE

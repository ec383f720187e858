SPECIFICATION FairSpec
CONSTANTS
  r1 = r1
  r2 = r2
  r3 = r3
  i1 = i1
  i2 = i2
  noid = noid
  nobody = nobody
  Request = {r1, r2, r3}
  Id = {i1, i2}
  NoId = noid
  Nobody = nobody
INVARIANTS
  OneFreeCall
  PacedByTicks
PROPERTIES
  ServedUnlessLockedOut

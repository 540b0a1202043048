CONSTANTS
  None = None
  Driver = {d1}
  Vendor = {v1}
  Customer = {}
  Email = {e1}
  Number = {n1, n2}
  Request = {r1, r2}
  MaxOtps = 2
SPECIFICATION MCSpec
INVARIANTS
  TypeOK
  VerifiedContactIsProved
  WritesAreEntitled
  LastArrivalIsLatest
ACTION_CONSTRAINT DeletedKept
SYMMETRY ContactSymmetry
CHECK_DEADLOCK FALSE

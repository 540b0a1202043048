\* Two requests at a time in whichever module runs.
CONSTANTS
  None = None
  Request = {r1, r2}
  Id = {i1, i2}
  Value = {x, y}
  Customer = {c1, c2}
  Vehicle = {v1, v2}
  Address = {a1, a2}
  Label = {home, work}
  Service = {s1, s2}
  SubService = {u1}
  Condition = {k1}
  Order = {o1}
  Applicant = {p1}
  Truck = {t1}
  Document = {licence, pan}
  Driver = {d1, d2, d3}
  Price <- MCPrice
  Distance = {0, 5321}
  Percent = {10, 100}
  Foreign <- MCForeign
  Straight = {1, 2}
  Seconds = {1, 2}
  Limit = 2
SPECIFICATION MCSpec
INVARIANTS
  TypesOK
  UniqueUnlessContested
  OneDefaultUnlessContested
  NoVehicleOutlivesCustomer
  NoOrphanUnlessContested
  ReviewedHasDocuments
  BanHoldsUnlessContested
  EstimateIsLinear
  ChargedAsEstimated
  ArrivalIsQuickest
CONSTRAINT Bound
SYMMETRY Symmetry
\* When every row has been deleted or the order is placed nothing is left to do.
CHECK_DEADLOCK FALSE

\* Two drivers and two vehicles, two concurrent requests.
CONSTANTS
  None = None
  Driver = {d1, d2}
  Vehicle = {v1, v2}
  Request = {r1, r2}
SPECIFICATION Spec
INVARIANTS
  TypeOK
  OneHolderUnlessContested
  HeldIsNotAvailable
CONSTRAINT SomeUncontested
SYMMETRY FleetSymmetry
\* Once every driver and vehicle is deleted there is nothing left to do.
CHECK_DEADLOCK FALSE

\* Three creations racing for two vouchers, every customer also an owner of some.
CONSTANTS
  None = None
  d1 = d1
  d2 = d2
  Order = {o1, o2, o3}
  Customer = {c1, c2, c3}
  Driver = {}
  Voucher = {v1, v2}
  Request = {r1, r2, r3}
  Code = {k1}
  PlacesOf <- MCPlacesOf
  MaxAttempts = 0
  MaxRewards = 0
SPECIFICATION Spec
INVARIANTS
  VoucherSingleUse
  RedeemedByItsOrder
  NoVoucherLost
PROPERTY ImplementsVoucherPromise
SYMMETRY CreateSymmetry
\* Without drivers nothing is left to do once every order id is taken.
CHECK_DEADLOCK FALSE

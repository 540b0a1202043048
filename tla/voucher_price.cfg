\* One driver, one price and one voucher.
CONSTANTS
  None = None
  Driver = {d1}
  Price <- MCPrice
  Distance = {5321}
  Percent = {50}
  Foreign = {}
  Straight = {1, 2}
  Seconds = {1, 2}
  Limit = 2
SPECIFICATION Spec
INVARIANTS
  VoucherPrice
\* Once the order is placed nothing is left to do.
CHECK_DEADLOCK FALSE

\* Two verifications of one COMPLETE code.
CONSTANTS
  None = None
  d1 = d1
  d2 = d2
  Order = {o1}
  Customer = {c1, c2}
  Driver = {d1, d2}
  Voucher = {v1}
  Request = {r1, r2}
  Code = {k1}
  PlacesOf <- MCPlacesOf
  MaxAttempts = 1
  MaxRewards = 2
SPECIFICATION Spec
PROPERTY OtpOneTimeUse

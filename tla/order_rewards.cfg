\* One order that may carry a voucher, through its completion and the reward, which two
\* verifications at once may pay twice.
CONSTANTS
  None = None
  d1 = d1
  d2 = d2
  Order = {o1}
  Customer = {c1, c2}
  Driver = {d1}
  Voucher = {v1}
  Request = {r1, r2}
  Code = {k1}
  PlacesOf <- MCPlacesOf
  MaxAttempts = 1
  MaxRewards = 1
SPECIFICATION FairSpec
INVARIANT RewardIffCompleted
PROPERTY RequestsFinish

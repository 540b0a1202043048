\* One order, two drivers racing for it, two codes: every interleaving of two
\* requests of accept, send-otp and verify-otp.
CONSTANTS
  None = None
  d1 = d1
  d2 = d2
  Order = {o1}
  Customer = {c1}
  Driver = {d1, d2}
  Voucher = {}
  Request = {r1, r2}
  Code = {k1, k2}
  PlacesOf <- MCPlacesOf
  MaxAttempts = 1
  MaxRewards = 1
SPECIFICATION Spec
INVARIANTS
  TypeOK
  UntouchedUntilAccepted
  MatchedCodeIsCurrent
  VerifiedMeansAdvanced
  PlacesFollowDriver
  DeadlockNeedsStaleAccept
PROPERTY ImplementsOrderPromise
SYMMETRY LifecycleSymmetry

\* Two debits of the same balance at once.
CONSTANTS
  None = None
  User = {u1}
  WalletId = {w1, w2, w3, w4}
  Request = {r1, r2}
  Amount = {1, 2}
  MaxEntries = 3
SPECIFICATION Spec
INVARIANT DebitsCovered
SYMMETRY WalletSymmetry

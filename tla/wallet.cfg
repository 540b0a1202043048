\* One user with up to two wallet rows, two concurrent requests, three updates.
CONSTANTS
  None = None
  User = {u1}
  WalletId = {w1, w2, w3, w4}
  Request = {r1, r2}
  Amount <- MCAmount
  MaxEntries = 3
SPECIFICATION Spec
INVARIANTS
  TypeOK
  OverdraftNeedsNegativeCredit
  BalanceIsLastEntry
  SerialLedgerChains
SYMMETRY WalletSymmetry

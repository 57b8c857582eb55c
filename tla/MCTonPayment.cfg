SPECIFICATION Spec
CONSTANTS
  Orders = {o1, o2}
  NoOrder = NoOrder
  Transfers = {x1, x2}
  NoTransfer = NoTransfer
  Hashes = {h1, h2}
  NoHash = NoHash
  Tasks = {m, c1}
  Monitor = m
  Ttl = 2
  Confirm = 1
  LateScan = 1
  BatchSize = 1
  MaxTime = 3
SYMMETRY MCSymmetry
INVARIANTS
  TypeOK
  PaidIsPaidFor
  PaidIsConfirmed
  ClosedHasNoTransfer
CHECK_DEADLOCK FALSE

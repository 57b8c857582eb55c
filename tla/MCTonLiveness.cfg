SPECIFICATION FairSpec
CONSTANTS
  Orders = {o1}
  NoOrder = NoOrder
  Transfers = {x1, x2}
  NoTransfer = NoTransfer
  Hashes = {h1}
  NoHash = NoHash
  Tasks = {m, c1}
  Monitor = m
  Ttl = 1
  Confirm = 1
  LateScan = 9
  BatchSize = 1
  MaxTime = 3
PROPERTIES
  KeepsPayment
  WaitEnds
  TransferIsNoticed
CHECK_DEADLOCK FALSE

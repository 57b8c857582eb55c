SPECIFICATION FairSpec
CONSTANTS
  Orders = {o1, o2}
  NoOrder = NoOrder
  Transfers = {x1}
  NoTransfer = NoTransfer
  Hashes = {h1}
  NoHash = NoHash
  Tasks = {m}
  Monitor = m
  Ttl = 2
  Confirm = 1
  LateScan = 9
  BatchSize = 1
  MaxTime = 3
PROPERTY PaidWaitEnds
CHECK_DEADLOCK FALSE

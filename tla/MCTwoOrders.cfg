SPECIFICATION FairSpec
CONSTANTS
  w = w
  a1 = a1
  a2 = a2
  worker = worker
  admin = admin
  Orders = {o1, o2}
  NoOrder = NoOrder
  YooKassa = {}
  Requests = {r1, r2}
  NoRequest = NoRequest
  Txs = {x1}
  NoTx = NoTx
  Processes = {worker, admin}
  Tasks = {w}
  TaskProcess <- MCTaskProcess
  Workers = {w}
  Seeded = {worker}
  MaxCrashes = 1
INVARIANTS
  Inv
  CompletedIsBacked
PROPERTIES
  StartedPurchaseSettles
  PaidOrderIsTakenUp
CHECK_DEADLOCK FALSE

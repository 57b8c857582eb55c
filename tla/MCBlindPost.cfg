SPECIFICATION Spec
CONSTANTS
  w = w
  a1 = a1
  a2 = a2
  worker = worker
  admin = admin
  Orders = {o1}
  NoOrder = NoOrder
  YooKassa = {o1}
  Requests = {r1, r2, r3}
  NoRequest = NoRequest
  Txs = {x1}
  NoTx = NoTx
  Processes = {worker, admin}
  Tasks = {w, a1, a2}
  TaskProcess <- MCTaskProcess
  Workers = {w}
  Seeded = {worker}
  MaxCrashes = 1
SYMMETRY MCSymmetry
INVARIANT
  NoBlindSecondPost
CHECK_DEADLOCK FALSE

SPECIFICATION Spec
CONSTANTS
  Buyer = me
  Friends = {f1}
  NoOne = NoOne
  Amounts = {1}
  Tasks = {t1, t2}
  NoTask = NoTask
  MaxOpen = 1
  DailyLimit = 1
  MaxQuotes = 1
  MaxOrders = 2
SYMMETRY MCSymmetry
INVARIANT
  PreviewIsOrdered
CHECK_DEADLOCK FALSE

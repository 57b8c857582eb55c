SPECIFICATION FairSpec
CONSTANTS
  Orders = {o1}
  NoOrder = NoOrder
  Tasks = {b1, b2, g1}
  Gateways = {g1}
INVARIANTS
  PaidIsCaptured
  ChargedIsNotClosed
  AcknowledgedIsNoticed
  Inv
PROPERTIES
  SucceededIsFinal
  KeepsPayment
  OutcomeIsNoticed
CHECK_DEADLOCK FALSE

SPECIFICATION Spec
CONSTANTS
  Orders = {o1}
  Services <- MCServices
  Down = Down
  Environments <- MCEnvironments
INVARIANT TestMoneyBuysNoStars
CHECK_DEADLOCK FALSE

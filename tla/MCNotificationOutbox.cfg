SPECIFICATION FairSpec
CONSTANTS
  Orders = {o1}
  Large = {o1}
  Statuses <- MCStatuses
  Processes = {p1, p2}
  Nobody = Nobody
  Batch = 2
  RetryLimit = 2
  MaxRows = 2
  MaxFaults = 1
INVARIANTS
  RepeatedOnlyAfterFault
  OutcomeIsEarned
  MessageIsCurrent
PROPERTIES
  OutcomeIsFinal
  StatusIsTold
CHECK_DEADLOCK FALSE

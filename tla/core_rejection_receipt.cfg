CONSTANTS
  ContinuationEnabled = TRUE
  Initial <- LeasedInitial
  Schedule <- LeasedSchedule
  TotalCeiling <- LeasedCeiling
  MaxLeaseRequests = 3
  MaxRecoveries = 1
  ToolKeys = {k1, k2}
  Observations = {o1}
  Idle = Idle
  GrantPool <- LeasedPool
  MaxIssued = 2
SPECIFICATION Spec
PROPERTIES RejectionsAdmitted
CHECK_DEADLOCK FALSE

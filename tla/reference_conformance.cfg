CONSTANTS
  ContinuationEnabled = FALSE
  Initial <- ReferenceInitial
  Schedule <- NoSchedule
  TotalCeiling <- ReferenceInitial
  MaxLeaseRequests = 0
  MaxRecoveries = 0
  ToolKeys = {k1, k2}
  Observations = {o1, o2}
  Idle = Idle
  GrantPool <- NoGrants
  MaxIssued = 0
SYMMETRY IdentitySymmetry
SPECIFICATION SpecConformance
INVARIANTS SameTransition
CHECK_DEADLOCK FALSE

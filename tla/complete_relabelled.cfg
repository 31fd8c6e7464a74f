CONSTANTS
  ContinuationEnabled = TRUE
  Initial <- SmallInitial
  Schedule <- TwoLeases
  TotalCeiling <- TwoCeiling
  MaxLeaseRequests = 3
  MaxRecoveries = 1
  ToolKeys = {k1}
  Observations = {o1}
  Idle = Idle
  GrantPool <- NoGrants
  MaxIssued = 2
  OrchStates <- Orch
  FirstOrch = "two_open"
  Level <- OpenObligations
  Strategies = {s1}
  None = None
  RequestPool <- StaleRequest
  MaxGeneration = 4
  MaxKept = 0
VIEW GovernanceView
SPECIFICATION SpecContinuation
INVARIANTS CompleteNotPartial
CHECK_DEADLOCK FALSE

CONSTANTS
  ContinuationEnabled = TRUE
  Initial <- TinyInitial
  Schedule <- ThreeLeases
  TotalCeiling <- ThreeCeiling
  MaxLeaseRequests = 4
  MaxRecoveries = 0
  ToolKeys = {}
  Observations = {o1}
  Idle = Idle
  GrantPool <- NoGrants
  MaxIssued = 3
  OrchStates <- ThreeOrch
  FirstOrch = "three_open"
  Level <- ThreeLevels
  Strategies = {}
  None = None
  RequestPool <- PlainRequest
  MaxGeneration = 11
  MaxKept = 0
VIEW GovernanceView
SPECIFICATION SpecContinuation
INVARIANTS ConsumedOnce
CHECK_DEADLOCK FALSE

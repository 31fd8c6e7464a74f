CONSTANTS
  ContinuationEnabled = TRUE
  Initial <- LeasedInitial
  Schedule <- LeasedSchedule
  TotalCeiling <- LeasedCeiling
  MaxLeaseRequests = 3
  MaxRecoveries = 1
  ToolKeys = {k1, k2}
  Observations = {o1}
  Idle = Idle
  GrantPool <- UnsealedGrants
  MaxIssued = 2
  OrchStates <- OpenOrch
  FirstOrch = "two_open"
  Level <- OpenLevels
  Strategies = {s1}
  None = None
  RequestPool <- LeasedRequests
  MaxGeneration = 3
  MaxKept = 1
VIEW GovernanceView
SPECIFICATION FairContinuation
INVARIANTS TypeOK BudgetsRespected TickAccounting 
PROPERTIES StateIdFresh RevokedFrozen ReceiptsExact LedgerAdvances TransitionEnds
CHECK_DEADLOCK FALSE

CONSTANTS
  Threads = {t1, t2}
  Deployments = {d1}
  Proposals = {"a"}
  TargetOf <- OneTarget
  Transcript <- Smoke
  Limit = 7
  MaxEpoch = 7
  MaxRetained = 2
  MaxCaptures = 2
  MaxHost = 2
  None = None
SYMMETRY AnyName
SPECIFICATION SpecParked
INVARIANTS ReadsOwnPlan
CHECK_DEADLOCK FALSE

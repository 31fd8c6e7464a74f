CONSTANTS
  Threads = {t1, t2}
  Deployments = {d1, d2}
  Proposals = {"a", "b"}
  TargetOf <- OneTarget
  Transcript <- Smoke
  Limit = 4
  MaxEpoch = 4
  MaxRetained = 1
  MaxCaptures = 1
  MaxHost = 1
  None = None
SYMMETRY AnyName
SPECIFICATION SpecActivation
INVARIANTS TypeOKActivation AccountingReconciles SingleOutstanding EvidenceCurrent GatesEarned AdmissionsChained
PROPERTIES RevokedSilent
CHECK_DEADLOCK FALSE

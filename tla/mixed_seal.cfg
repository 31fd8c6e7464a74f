CONSTANTS
  Sessions = {"s1"}
  Manifests <- TwoOrchestrations
  Commands <- Hosted
  Accumulators = {"p", "q"}
  Openings <- Pairs
  StructuralCases <- Unbound
  MaxCases = 3
  MaxFailureDetails = 1
  MaxReceipts = 1
  None = None
  Foreign = Foreign
SPECIFICATION SpecEvidence
ACTION_CONSTRAINT OneOrder
INVARIANT SealReturnsSummary
CHECK_DEADLOCK FALSE

CONSTANTS
  Sessions = {"s1"}
  Manifests <- TwoOrchestrations
  Commands <- Hosted
  Accumulators = {"p", "q"}
  Openings <- Pairs
  StructuralCases <- Unbound
  MaxCases = 3
  MaxFailureDetails = 1
  MaxReceipts = 2
  None = None
  Foreign = Foreign
SPECIFICATION SpecEvidence
ACTION_CONSTRAINT OneOrder
INVARIANTS AccountingExact CoverageReal HistoryUnbroken AcceptanceEarned
CHECK_DEADLOCK FALSE

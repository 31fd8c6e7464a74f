CONSTANTS
  Obligations = {"o1", "o2", "o3"}
  Graphs <- ChainAndCycles
  StateKeys = {"base", "derived"}
  DerivedFrom <- OneDerivation
  Values = {0}
  Capabilities <- Registry
  Schemas <- OneSchema
  Batches <- Proposed
  Rank <- Ranks
  Policy <- Permissions
  MaxBatch = 3
  MaxHistory = 2
  MaxOwners = 2
  MaxTick = 2
  None = None
SPECIFICATION SpecOrchestration
INVARIANTS TypeOKOrchestration OccurrenceOnce AdmissionMeaning SplitPreserves AdmissionGrounded AuthorizationsExact

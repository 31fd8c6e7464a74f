CONSTANTS
  Cells = {"x"}
  MinCell = 0
  MaxCell = 2
  Profiles <- Manifests
  None = None
SPECIFICATION SpecEffects
INVARIANTS TypeOKEffects JournalTruthful DeclaredOrder WorldExplained
  FacadeAdmits PendingDispatchable
PROPERTIES CancellationFinal
CHECK_DEADLOCK FALSE

SPECIFICATION RecordsSpec
CONSTANTS
  MaxUpdates = 6
  Horizon = 3
  Dwell = 2
  ContractEvery = 2
  MaxHolds = 2
  MaxWitnesses = 2
  FleetSize = 2
  Nodes = 2
  Substeps = 2
  MaxCycles = 3
  MaxScenarios = 3
  None = None
  TORN = TORN
INVARIANTS
  
  ArchiveHoldsTheMotion
  StudyIsBacked
  RecordsResume
  SuccessIsEarned
PROPERTIES
  DeadlinesAreFinal

CONSTANTS
  Contexts <- TwoContexts
  Coefficient = 1
  Requests <- ThreeRequests
  Sources = {"loaded", "edited"}
  EntryStates <- TwoEntries
  BackupControls <- OneOrTwoHolds
  ReferenceClocks = {2, 3}
  ScopeEnds = {3, 4}
  PerformanceInputs <- OfferedInputs
  InputLimits <- Limits
  TerminalBox <- Terminal
  FreeSpace <- Gap
  SensorError = 1
  PlantDisturbance = 1
  TrackingSpecs <- FourSpecs
  TrackingScope = 6
  Laws = {"start", "midpoint", "refuge"}
  Buses = {"left", "right"}
  NodeTimes <- ThreeTimes
  NodeAngles <- ThreeAngles
  NodeRates <- ThreeRates
  ControlPeriod = 2
  TorqueLimit = 2
  Stiffness = 1
  Damping = 1
  InstalledFuel = 8
  TranslationDebits = {0, 2, 9}
  MassChange = 7
  BusNoise <- ThreeErrors
  InitialAngles <- TwoAngles
  MaxAngle = 2
  MaxRate = 1
SPECIFICATION GuidanceSpec
INVARIANTS
  ProvenHoldsStayClear
  ReliedFlowsKeepTheMotion
  AdmittedSetsAreInvariant
  BackupIsAlwaysThere
  CertifiedBodiesStayApart
  ReferencesStayApart
  AttitudesAreFlown
CHECK_DEADLOCK FALSE

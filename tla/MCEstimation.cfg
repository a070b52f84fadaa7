CONSTANTS
  HistoryLength = 2
  HoldWidths = {1, 2}
  DriftBound = 1
  NavigationInputs = {0}
  NavigationClock = 3
  NavigationPackets = 2
  TargetDrift = 1
  AngularBound = 1
  AngularAccelerations = {1, 2}
  RangeNoise = 1
  GnssNoise = 0
  PoseNoise = 1
  RateNoise = 0
  ConditionSlack = 1
  SensingHorizon = 2
  ObserverInputs = {0, 2}
  ObserverClock = 4
  ObserverPackets = 2
  SensorNoise = 1
  Prior <- PriorCell
  TrueParameters <- TwoParameters
  Excitation <- ExcitationRange
  Commands = {0, 2}
  MomentError = 1
  PositionNoise = 1
  LastHold = 3
  MaximumRows = 1
  Cells <- TwoCells
  Objectives <- TwoObjectives
  Weights <- TwoWeights
  Truth = 3
  Top = 6
  Excitations = {1, 2}
  Gusts = {0, 2}
  Substeps = 2
  Window = 3
  Used = 2
  Period = 2
  MaxBoxes = 3
  MeasurementError = 1
  Domain = 9
  Threshold = 1
  ErrorBound = 1
  MinimumWidth = 2
  Estimators = {"smid", "injected"}
  Modes = {"adaptive", "frozen"}
  RecordedUpdates = 4
  FreeParameters = {0, 1}
  Grades = {1, 2}
  InitialRanges <- TwoRanges
  PlanSteps = 4
  ActSteps = 3
  MissionSteps = 2
  DataRange = 5
  AdaptationRange = 2
  GuessLength = {"fits", "differs"}
  LastAgent = 2
  Layouts <- LayoutsOnALine
  TaskAt <- ThreeTasks
  Policies = {"greedy", "hungarian", "auction"}
  Nearest = 1
  Radius = 2
  Noise = {0, 1}
  Prices <- PricesUpToFour
SPECIFICATION EstimationSpec
INVARIANTS
  NavigationKeepsTheTruth
  ObserverKeepsTheState
  
  
  RollingPlansFit
  EveryTaskKeepsItsAgent
CHECK_DEADLOCK FALSE

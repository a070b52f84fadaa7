SPECIFICATION Spec

CONSTANTS
  Observers <- MCFleet
  Fleet <- MCFleet
  Lanes <- MCLanes
  Deployed <- MCDeployed
  Partitions <- MCPartitions
  Affine <- MCAffine
  Support <- MCSupport
  Nothing = Nothing
  NoPlan = NoPlan
  WindowHolds = 2
  MaxBoxes = 2
  MaxCells = 3
  MaxFlows = 5
  Drags = {0}
  Actuators = {3}
  Widths = {0, 1}
  Released = 0
  MaxUpdates = 3
  ContractEvery = 1
INVARIANTS
  BeliefIsKept
  PlanningIsFresh
PROPERTIES
  FleetMovesOnJointPlan
  UpdateReturns
\* The mission ends.
CHECK_DEADLOCK FALSE

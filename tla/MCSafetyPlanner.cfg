CONSTANTS
  a1 = a1
  c0 = c0
  c1 = c1
  c2 = c2
  Agents = {a1}
  Cells = {c0, c1, c2}
  Plans <- MCPlans
  MaxHold = 2
  MaxCharge = 1
  Disturbance = 1
  RequiredClearance = 1
  None = None
  FarProfiles <- MCFarProfiles
  NearWidths <- MCNearWidths
  NearExtra <- MCNearExtra
  NearProfiles = 2
  HoldingWidth = 1
  UpdateWidth = 2
  ClockEnd = 6
  Contingency = TRUE
  NoSearch = NoSearch
SPECIFICATION PlannerSpec
INVARIANTS
  PlansStayFunded
  TruthInsideTube
PROPERTIES
  ImplementsAdmission
  HoldIsDecided
CHECK_DEADLOCK FALSE

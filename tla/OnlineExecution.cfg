CONSTANTS
  MaxRequests = 2
  Widths = {1, 2}
  LastQ = 2
  MaxNow = 1
  None = None
SPECIFICATION Spec
INVARIANTS
  PlanningIsHarmless
PROPERTIES
  StepReturns
CHECK_DEADLOCK FALSE

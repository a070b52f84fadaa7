CONSTANTS
  OuterStep = 2
  MaxWidth = 2
  MaximumBlackout = 3
  Delays = {0, 2}
  LastQ = 4
  None = None
SPECIFICATION Spec
INVARIANTS
  MotionIsKnown
  
PROPERTIES
  ImplementsJournal
CHECK_DEADLOCK FALSE

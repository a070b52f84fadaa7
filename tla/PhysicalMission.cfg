CONSTANTS
  None = None
  Never = Never
  Members = {a, b}
  PreloadDwell = 2
  BondEngagement = 1
  SettlingDwell = 2
  MaxContact = 6
  MaxHalvings = 1
  LockSteps = 2
  MaxChanges = 1
  DetumblingStep = 2
  DetumblingDwell = 3
  MaxDetumbling = 5
  FullCommand = 1
  ControlStep = 2
  AlignmentLead = 1
  MaxAlignment = 1
  MaxBurn = 3
  MaxCoast = 2
  ApoapsisDelays = {1, 2}
SPECIFICATION Spec
INVARIANTS
  CaptureIsProven
  DescentIsProven
PROPERTIES
  MovesOnlyAsProved
CHECK_DEADLOCK FALSE

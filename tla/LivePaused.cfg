CONSTANTS
  MaxJobs = 1
  MaxUpdates = 2
  QueueLimit = 2
  MaxPauses = 2
  Crashes = TRUE
  None = None
SPECIFICATION Spec
PROPERTIES
  PausedSettles
  JobSettles
CHECK_DEADLOCK FALSE

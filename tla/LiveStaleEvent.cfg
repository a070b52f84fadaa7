CONSTANTS
  MaxJobs = 2
  MaxUpdates = 0
  QueueLimit = 1
  MaxPauses = 0
  Crashes = TRUE
  None = None
SPECIFICATION Spec
INVARIANTS
  DirectoryReportsOwnJob
CHECK_DEADLOCK FALSE

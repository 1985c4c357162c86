SPECIFICATION SuspensionSpec
CONSTANTS
  Tasks = {t, u}
  Idle = Idle
  ResumeWaiters = TRUE
PROPERTIES
  OnlySuspendedResume
CHECK_DEADLOCK FALSE

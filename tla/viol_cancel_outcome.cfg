SPECIFICATION Spec
CONSTANTS
  t1 = t1
  t2 = t2
  Tasks <- OneTask
  MaxWorkers = 1
  MaxRetries = 0
  Steps = 1
  DlqTasks <- NoTask
  Waited <- NoTask
  ShutdownModes <- NoModes
  MaxCrashes = 0
  MaxCancels = 1
  MaxFaults = 0
  MaxCleanups = 0
PROPERTIES CancelKeepsOutcome
CHECK_DEADLOCK FALSE

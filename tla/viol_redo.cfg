SPECIFICATION Spec
CONSTANTS
  t1 = t1
  t2 = t2
  Tasks <- TwoTasks
  MaxWorkers = 1
  MaxRetries = 1
  Steps = 2
  DlqTasks <- NoTask
  Waited <- NoTask
  ShutdownModes <- NoModes
  MaxCrashes = 1
  MaxCancels = 0
  MaxFaults = 0
  MaxCleanups = 0
INVARIANTS CompletedStepsNotRedone
CHECK_DEADLOCK FALSE

SPECIFICATION Spec
CONSTANTS
  t1 = t1
  t2 = t2
  Tasks <- OneTask
  MaxWorkers = 1
  MaxRetries = 1
  Steps = 2
  DlqTasks <- OneTask
  Waited <- OneTask
  ShutdownModes <- Sweeping
  MaxCrashes = 1
  MaxCancels = 1
  MaxFaults = 1
  MaxCleanups = 1
INVARIANTS TypeOK NoStepSkipped SettledForGood NothingForgotten LiveCancelSticks NoPhantomActive
CHECK_DEADLOCK FALSE

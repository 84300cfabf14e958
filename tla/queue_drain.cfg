SPECIFICATION FairSpec
CONSTANTS
  t1 = t1
  t2 = t2
  Tasks <- TwoTasks
  MaxWorkers = 1
  MaxRetries = 1
  Steps = 1
  DlqTasks <- NoTask
  Waited <- OneTask
  ShutdownModes <- Drain
  MaxCrashes = 0
  MaxCancels = 0
  MaxFaults = 0
  MaxCleanups = 0
PROPERTIES DrainEnds
CHECK_DEADLOCK FALSE

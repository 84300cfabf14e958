SPECIFICATION FairSpec
CONSTANTS
  t1 = t1
  t2 = t2
  Tasks <- TwoTasks
  MaxWorkers = 1
  MaxRetries = 1
  Steps = 1
  DlqTasks <- OneTask
  Waited <- TwoTasks
  ShutdownModes <- NoModes
  MaxCrashes = 1
  MaxCancels = 0
  MaxFaults = 0
  MaxCleanups = 0
INVARIANTS ActiveCountExact OutcomesTold
PROPERTIES StartedTaskSettles WaiterWakes ImplementsLifecycle
CHECK_DEADLOCK FALSE

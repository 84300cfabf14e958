SPECIFICATION ServicesSpec
CONSTANTS
  c1 = c1
  c2 = c2
  c3 = c3
  Callers <- ThreeThreads
  Threshold = 2
  MaxProbes = 2
  MaxFailures = 3
  MaxNested = 1
  MaxReports = 1
  MaxForced = 1
  Size = 2
  Readers <- OneThread
  BatchCrashes = 1
  Expressions <- ThreeCrons
  Calendar <- FourDays
  DayLength = 2
  LastMinute = 5
  ScanDays = 2
  ListLimit = 2
  SchedulerCrashes = 1
  Hosts = {"a", "b"}
  Home = "a"
  Topologies <- TwoTopologies
  Workers = 1
  Movies = {"m"}
  Seconds <- OneLong
  MinSeconds = 2
  MaxRetries = 1
  MaxTasks = 3
  MaxCrashes = 1
INVARIANTS FallsBackToLocal
CHECK_DEADLOCK FALSE

SPECIFICATION PartsSpec
CONSTANTS
  Installers <- TwoThreads
  Runners = {"r"}
  Hosts = {"h1", "h2"}
  Names = {"b", "p"}
  BuiltinDocs <- ABuiltin
  Sources <- FourSources
  Engine = 1
  PresetBytes = 1
  Asks <- ManyJobs
  MaxInstalls = 2
  MaxRuns = 1
  MaxFailures = 1
  c1 = c1
  c2 = c2
  Urls = 3
  Events <- OneThread
  Posters <- TwoThreads
  Attempts = 2
  Handlers <- TwoThreads
  Requests <- ThreeRequests
  Plans <- TwoPlans
  DefaultPlan = "default"
  ApiKey = "k"
  Loopback = TRUE
  TaskLimit = 2
  Capacity = 1
  Refill = 1
  Cost = 1
  MaxBuckets = 1
  MaxMade = 2
  LastTick = 2
  Wanted = 2
  Presets = 0
  Parallel = 1
  RaceSteps = 1
  Metrics <- TwoRuns
  Cancellers <- TwoThreads
  Owners <- TwoOwners
  CreatedAt <- Ages
  TaskPage = 1
  HeadOf <- OwnOrMovie
  Begins <- Beginning
  Size <- TwoSizes
  PlanTtl <- OnePlanned
  Artifacts = {"final"}
  PolicyTtl = 1
  MaxTotal = 2
  KeepLast = 1
  LastHour = 3
  LastSweep = 1
  Links <- ThreeLinks
  Refused = {"u3"}
  Contents = {"c1", "c2"}
  Bytes <- OneOrTwo
  Serves <- Answers
  ExtOf <- Extension
  CacheBytes = 2
  EntryBytes = 2
  DiskFails = TRUE
  CacheTtl = 1
  Fetchers <- TwoThreads
  LastNow = 3
  MaxFetches = 3
  Tries = 2
  Target = 5
  BeatLists <- TwoBeatLists
  Alike <- Near
  Drafts <- ThreeDrafts
  MaxChars = 5
  Ci = FALSE
  CacheEnabled = TRUE
  MaxEntries = 2
  Movies = 2
  MaxLines = 3
  VoiceTicks = {3, 6}
  LineChars = {1, 2}
  PauseTicks = 3
  Durations = {0, 5, 9}
  TrChars = 3
  TrItems = 2
  HeardTicks = {0, 4, 8, 12}
  Lines = {1, 2, 3}
  TextOf <- SameTwice
  MaxConcurrent = 3
  SynthAttempts = 2
  CacheFiles = 1
  MaxBatches = 3
  VideoEnd = 200
  Cuts = {60, 180}
  LineTicks = {80}
  MaxNarrated = 3
  MergeMins = {30, 50}
  MergeFloor = 25
  Clamps <- TwoClamps
  DropMin = 30
  Intros = {0, 90}
  Windows <- CutAtTheEnd
  Anchors <- NoneOrMiddle
  ActWeights <- OneWeighting
  ActScenes = 3
  ActLines = 2
  TopK = 2
  ReuseWindow = 3
  MaxReuse = 1
  Alikeness <- ThreeLikenings
  Orders <- SixOrders
  LineCounts = {2, 3}
  MaxScenes = 2
  PreviewLines = 1
  MaxNarrations = 2
  MaxRenders = 2
  Letters = {"l"}
  Clients <- TwoThreads
  Routes <- TwoRoutes
  Injected = FALSE
  MaxSignals = 2
  MaxStarts = 2
  MaxReplays = 2
  MaxWorking = 1
INVARIANTS SoundIsCurrent
CHECK_DEADLOCK FALSE

SPECIFICATION EngineSpec
CONSTANTS
  N <- FourSteps
  SoftSteps <- ThreeSoft
  PreviewSkips <- Skippable
  Setups <- AnySetup
  MaxCrashes = 2
  MaxRetries = 2
  MaxReruns = 2
  MaxFaults = 1
  Catalog <- Declared
  StepNames <- AllNames
  Callables <- AllNames
  Resources <- Refs
  NoStep = "none"
  Vals <- Bits
  Volatile <- Clock
  Trials <- Pairs
  Scripts <- ThreeScripts
  Recorded <- TwoRecordings
  Cued <- ThreeCueLists
  Films <- FiveFilms
  Inspections <- FourInspections
  MaxAgain = 1
INVARIANTS SubtitlesGate
CHECK_DEADLOCK FALSE

SPECIFICATION ForkFairSpec
CONSTANTS
  a = a
  hub1 = hub1
  lab1 = lab1
  lab2 = lab2
  Repos = {lab1}
  NoRepo = NoRepo
  Names = {a}
  Name <- SameName
  Listing <- LabOnly
  SourceProviders = {"gitlab"}
  TargetProviders = {"gitlab"}
  Nested = {}
  ForkedSources = {lab1}
  Moving = {lab1}
  MaxRuns = 2
CHECK_DEADLOCK FALSE
PROPERTY SyncedIsUpToDate

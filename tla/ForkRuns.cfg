SPECIFICATION ForkFairSpec
CONSTANTS
  a = a
  hub1 = hub1
  lab1 = lab1
  lab2 = lab2
  Repos = {hub1, lab1, lab2}
  NoRepo = NoRepo
  Names = {a}
  Name <- SameName
  Listing <- TwoHosts
  SourceProviders = {"github", "gitlab"}
  TargetProviders = {"github", "gitlab", "gerrit"}
  Nested = {lab2}
  ForkedSources = {lab2}
  Moving = {hub1}
  MaxRuns = 2
CHECK_DEADLOCK FALSE
INVARIANTS
  ForkTypeOK
  CreatedMeansCopied
  HollowHasAReason
  TempOnlyWhileCopying
  SummaryCoversAll
PROPERTIES
  ExistingTargetsKept
  RunEnds

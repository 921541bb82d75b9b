SPECIFICATION ManagerSpec
CONSTANTS
  r1 = r1
  r2 = r2
  RepoList <- TwoRepos
  Jobs <- TwoRepoJobsTwice
  Workers = {w1}
  QueueSize = 2
  ConfigMaxRetries = 2
  JobMaxRetries <- Unset
  MaxStarts = 2
  MaxSubmits = 8
  NoJob = NoJob
  MinBatch = 1
  SubmitTries = 2
  Calls = 2
INVARIANTS
  FallbackDoesNotPanic

\* A queue smaller than the least batch, which --queue-size may ask for.
SPECIFICATION ManagerFairSpec
CONSTANTS
  r1 = r1
  r2 = r2
  RepoList <- TwoRepos
  Jobs <- TwoRepoJobs
  Workers = {w1}
  QueueSize = 1
  ConfigMaxRetries = 2
  JobMaxRetries <- Unset
  MaxStarts = 1
  MaxSubmits = 4
  NoJob = NoJob
  MinBatch = 2
  SubmitTries = 2
  Calls = 1
PROPERTIES
  QueueSpaceIsFound

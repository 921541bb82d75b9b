SPECIFICATION Spec
CONSTANTS
  j1 = j1
  j2 = j2
  j3 = j3
  Jobs = {j2}
  Workers = {w1}
  QueueSize = 1
  ConfigMaxRetries = 2
  JobMaxRetries <- MCJobMaxRetries
  MaxStarts = 1
  MaxSubmits = 1
  NoJob = NoJob
INVARIANT RetryNeverPanics

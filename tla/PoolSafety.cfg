SPECIFICATION FairSpec
CONSTANTS
  j1 = j1
  j2 = j2
  j3 = j3
  Jobs = {j1, j2, j3}
  Workers = {w1, w2}
  QueueSize = 1
  ConfigMaxRetries = 2
  JobMaxRetries <- MCJobMaxRetries
  MaxStarts = 2
  MaxSubmits = 3
  NoJob = NoJob
INVARIANTS
  TypeOK
  SingleOwner
  CountersMatchStatuses
  AllCountedMeansIdle
  ActiveIsWorkersInBody
  StoppedMeansNoWorker
PROPERTIES
  FinalStatusIsFinal
  LostOnlyWhenFull
  ImplementsLedger
  StopReturns
  AcceptedJobsSettle

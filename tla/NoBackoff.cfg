\* The configuration that runRegularClone gives the pool: MaxRetryDelay and RateLimitDelay
\* are not set, and so zero.
SPECIFICATION ClockSpec
CONSTANTS
  MaxJobs = 1
  Workers = 1
  QueueSize = 1
  BatchSize = 1
  MaxRetries = 3
  RetryDelay = 1
  MaxRetryDelay = 0
  RateLimitDelay = 0
  MaxDuration = 4
  Report = 2
  Idle = 4
  Stuck = 5
  MaxStuck = 6
  Pauses = 0
CHECK_DEADLOCK FALSE
PROPERTIES
  RetriesBackOff

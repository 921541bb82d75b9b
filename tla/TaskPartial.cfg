SPECIFICATION TaskSpec
CONSTANTS
  outer = outer
  inner = inner
  other = other
  Repos = {other}
  Inside <- Flat
  Empty = {}
  Attempts = 2
  CleanupOnFailure = FALSE
  ValidateClone = FALSE
  MaxRuns = 1
INVARIANT ExistsIsComplete

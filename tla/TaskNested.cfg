SPECIFICATION TaskSpec
CONSTANTS
  outer = outer
  inner = inner
  other = other
  Repos = {outer, inner}
  Inside <- Nesting
  Empty = {}
  Attempts = 2
  CleanupOnFailure = FALSE
  ValidateClone = FALSE
  MaxRuns = 1
INVARIANT SuccessIsOnDisk

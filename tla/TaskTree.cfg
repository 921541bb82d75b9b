SPECIFICATION TaskSpec
CONSTANTS
  outer = outer
  inner = inner
  other = other
  Repos = {outer, inner, other}
  Inside <- Nesting
  Empty = {other}
  Attempts = 2
  CleanupOnFailure = TRUE
  ValidateClone = TRUE
  MaxRuns = 2
INVARIANTS
  TaskTypeOK
  OutermostSuccessIsReal
  PartialIsCleanedUp
PROPERTIES
  FinishedCloneStays

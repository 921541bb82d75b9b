SPECIFICATION CommandSpec
CONSTANTS
  r1 = r1
  r2 = r2
  r3 = r3
  v1 = v1
  v2 = v2
  a = a
  b = b
  unknown = unknown
  gerritHost = gerritHost
  gitlabSelf = gitlabSelf
  gitlabhq = gitlabhq
  gerrit = gerrit
  enterprise = enterprise
  GitHubCom = GitHubCom
  GitLabCom = GitLabCom
  Blank = Blank
  NoHost = NoHost
  Mangled = Mangled
  Words = {a, b, unknown, gerritHost, gitlabSelf, gitlabhq, gerrit, enterprise, GitHubCom, GitLabCom, Blank}
  Dotted = {unknown, gerritHost, gitlabSelf, enterprise, GitHubCom, GitLabCom}
  Says <- MCSays
  Unset = Unset
  Keys <- MCKeys
  Values = {Unset, v1, v2}
  Repos = {r1, r2, r3}
  Holdings <- MCHoldings
  Public = {r1}
  Prefixed = {r1, r2}
  PageSize = 1
  MaxPages = 2
  MaxChanges = 1
  MaxJobs = 2
  Workers = 2
  QueueSize = 1
  BatchSize = 1
  MaxRetries = 3
  RetryDelay = 1
  MaxRetryDelay = 3
  RateLimitDelay = 3
  MaxDuration = 2
  Report = 2
  Idle = 4
  Stuck = 5
  MaxStuck = 6
  Pauses = 1
  Settings <- MCSettings
  Sources <- MCSources
  NoSetting = NoSetting
  NoSource = NoSource
  GerritUser = "GERRIT_USERNAME"
  Archived = {r2}
CHECK_DEADLOCK FALSE
INVARIANTS
  CommandTypeOK
  CredentialPrecedence
  SourceIsUnderstood
  ListingIsComplete
  ListedOnce
  OnlyGitHubIsWaitedFor
  CountedOnce
PROPERTIES
  KeepsWaiting
  RateLimitIsHeeded
  RetriesBackOff
  RunComesToAnEnd

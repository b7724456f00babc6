SPECIFICATION MCSpec
CONSTANTS
  None = None
  \* the cups workers
  RetryCount = 2
  MaxDocuments = 2
  MaxMishaps = 1
  \* the start of cups
  CupsOptions <- MCCupsOptions
  Networks <- MCNetworks
  SystemAccounts = {"lp"}
  RegisterTries = 2
  MaxBootEvents = 3
  \* the scanners
  Hosts = {"h", "g"}
  WithMac = {"h"}
  Threshold = 2
  HostNames = {"n1", "n2"}
  MaxStreak = 2
  MaxRenames = 2
  MaxScanMishaps = 1
  \* the renderer
  Sites <- MCSites
  MaxTroubles = 3
  \* the providers
  Commit <- MCCommit
  MaxGitEvents = 3
  Servers = {"s1", "s2"}
  Vaults <- MCVaults
  Base <- MCBase
  MaxVaultEvents = 3
  \* ntfy
  Admin = "admin"
  Users = {"u"}
  Patterns = {"alerts"}
  Permissions = {"ro"}
  Baselines <- MCBaselines
  Overwrite = FALSE
  Keep = 1
  LastTime = 2
  MaxAdminEvents = 2
  MaxAdminMishaps = 1
  \* the token store
  Rotators = {"r1", "r2"}
  Window = 2
  MaxTokens = 4
  LastTick = 3
  MaxTokenEvents = 2
  \* the Terraform provider
  Goals <- MCGoals
  Defaults <- MCDefaults
  MaxTfEvents = 3
  \* the repository's tools
  Requests <- MCRequests
  MaxImage = 2
  MaxCommits = 3
  MaxToolRuns = 4
  Addons <- MCAddons
  MaxVersion = 2
  MaxLibEvents = 4
INVARIANTS
  SentWasAccepted
  CupsCountsAreRight
  ProvidersDeliver
  NetworkHistory
  
  TokensHonoured
  ApplyConverges
  ReleaseHolds

  
  
  
CHECK_DEADLOCK FALSE

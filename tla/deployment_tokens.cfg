SPECIFICATION DepSpec
CONSTANTS
  safe = safe
  pausing = pausing
  Deployer = safe
  Guardian = safe
  ManagerAdmin = safe
  Pauser = pausing
  FollowedRoles <- MCMinterOnly
  MaxTokens = 2
  MaxAllowlists = 1
  MaxAborts = 1
INVARIANTS
  DepTypeOK
  DoneMeansWired
  OneManagerPerToken
  OnlyManagersMint
  TokensHaveLists
  CompleteReports

SPECIFICATION FairDepSpec
CONSTANTS
  safe = safe
  pausing = pausing
  Deployer = safe
  Guardian = safe
  ManagerAdmin = safe
  Pauser = pausing
  FollowedRoles <- MCMinterOnly
  MaxTokens = 1
  MaxAllowlists = 1
  MaxAborts = 1
PROPERTIES
  DeploymentCompletes

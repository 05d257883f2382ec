SPECIFICATION SubSpec
CONSTANTS
  u1 = u1
  u2 = u2
  manager = manager
  pauser = pauser
  pricing = pricing
  relayer = relayer
  timing = timing
  treasury = treasury
  pricer1 = pricer1
  pricer2 = pricer2
  list1 = list1
  list2 = list2
  ZeroAddress = ZeroAddress
  BPS_DENOMINATOR = 2
  DecimalsMultiplier = 1
  PriceUnit = 1
  Users = {u1}
  Pricers = {pricer1}
  Blocklists = {list1}
  PriceIds = {1}
  PriceValues = {1}
  ListedUsers = {}
  MaxTime = 1
  Accounts <- MCAccounts
  RoleMembers <- MCRolesNoPauser
  ConstructorAmounts <- MCDepositMaximumLower
  ConstructorPointers <- MCConstructorPointers
  AmountInputs <- NoAmounts
  PointerInputs <- MCOnePricer
  MaxSubscriptions = 1
  OffChainIds = {10}
  DepositInputs = {2, 3}
  OverwriteInputs = {}
  OverwriteUsers = {}
  MaxCredited = 4
PROPERTIES
  DepositWithinMaximum

SPECIFICATION SubSpec
CONSTANTS
  u1 = u1
  u2 = u2
  manager = manager
  pauser = pauser
  pricing = pricing
  relayer = relayer
  timing = timing
  treasury = treasury
  pricer1 = pricer1
  pricer2 = pricer2
  list1 = list1
  list2 = list2
  ZeroAddress = ZeroAddress
  BPS_DENOMINATOR = 2
  DecimalsMultiplier = 1
  PriceUnit = 1
  Users = {u1, u2}
  Pricers = {pricer1}
  Blocklists = {list1}
  PriceIds = {1}
  PriceValues = {0, 2, 3}
  ListedUsers = {u2}
  MaxTime = 2
  Accounts <- MCAccounts
  RoleMembers <- MCRolesNoPauser
  ConstructorAmounts <- MCConstructorAmounts
  ConstructorPointers <- MCConstructorPointers
  AmountInputs <- MCSubscriptionAmounts
  PointerInputs <- MCOnePricer
  MaxSubscriptions = 1
  OffChainIds = {1, 10}
  DepositInputs = {1, 3}
  OverwriteInputs = {3}
  OverwriteUsers = {u2}
  MaxCredited = 4
INVARIANTS
  SubTypeOK
  Conservation
  
  MintedWithinWorth
PROPERTIES
  MintNeedsBothOperators
  PendingTermsStable
  MintGoesToDepositor
  NoFreeSubscription

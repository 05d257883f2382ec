SPECIFICATION FairManagerSpec
CONSTANTS
  u1 = u1
  u2 = u2
  manager = manager
  pauser = pauser
  pricing = pricing
  relayer = relayer
  timing = timing
  treasury = treasury
  pricer1 = pricer1
  list1 = list1
  list2 = list2
  ZeroAddress = ZeroAddress
  BPS_DENOMINATOR = 2
  DecimalsMultiplier = 1
  PriceUnit = 1
  Users = {u1}
  Pricers = {pricer1}
  Blocklists = {list1}
  PriceIds = {1}
  PriceValues = {1}
  ListedUsers = {}
  MaxTime = 2
  Accounts <- MCAccounts
  RoleMembers <- MCRoles
  ConstructorAmounts <- MCConstructorAmounts
  ConstructorPointers <- MCConstructorPointers
  AmountInputs <- NoAmounts
  PointerInputs <- MCOnePricer
  MaxSubscriptions = 1
  OffChainIds = {10}
  DepositInputs = {3}
  OverwriteInputs = {}
  OverwriteUsers = {}
  MaxCredited = 6
  MaxRedemptions = 1
  RedemptionInputs = {3}
  RedeemerIds = {}
  RedeemerAmounts = {}
  RedeemerUsers = {}
  MaxRecreated = 0
  MaximumInputs = {}
  StartInputs = {}
  IntervalInputs = {}
PROPERTIES
  DepositEventuallyMinted
  RedemptionEventuallyPaid

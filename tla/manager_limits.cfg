SPECIFICATION ManagerSpec
CONSTANTS
  u1 = u1
  u2 = u2
  manager = manager
  pauser = pauser
  pricing = pricing
  relayer = relayer
  timing = timing
  treasury = treasury
  pricer1 = pricer1
  list1 = list1
  list2 = list2
  ZeroAddress = ZeroAddress
  BPS_DENOMINATOR = 2
  DecimalsMultiplier = 1
  PriceUnit = 1
  Users = {u1, u2}
  Pricers = {pricer1}
  Blocklists = {list1}
  PriceIds = {1}
  PriceValues = {}
  ListedUsers = {}
  MaxTime = 2
  Accounts <- MCAccounts
  RoleMembers <- MCRolesRequestsOnly
  ConstructorAmounts <- MCConstructorAmounts
  ConstructorPointers <- MCConstructorPointers
  AmountInputs <- MCRequestAmounts
  PointerInputs <- NoPointers
  MaxSubscriptions = 1
  OffChainIds = {10}
  DepositInputs = {2, 3}
  OverwriteInputs = {}
  OverwriteUsers = {}
  MaxCredited = 3
  MaxRedemptions = 1
  RedemptionInputs = {3}
  RedeemerIds = {}
  RedeemerAmounts = {}
  RedeemerUsers = {}
  MaxRecreated = 0
  MaximumInputs = {3}
  StartInputs = {1, 3}
  IntervalInputs = {1}
INVARIANTS
  ManagerTypeOK
PROPERTIES
  RequestsCounted

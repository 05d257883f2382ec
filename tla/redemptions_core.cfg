SPECIFICATION RedSpec
CONSTANTS
  u1 = u1
  u2 = u2
  manager = manager
  pauser = pauser
  pricing = pricing
  treasury = treasury
  pricer1 = pricer1
  list1 = list1
  list2 = list2
  ZeroAddress = ZeroAddress
  BPS_DENOMINATOR = 2
  DecimalsMultiplier = 1
  PriceUnit = 2
  Users = {u1, u2}
  Pricers = {pricer1}
  Blocklists = {list1, list2}
  PriceIds = {1}
  PriceValues = {0, 3}
  ListedUsers = {u2}
  MaxTime = 1
  Accounts <- MCAccounts
  RoleMembers <- MCRolesNoPauser
  ConstructorAmounts <- MCConstructorAmounts
  ConstructorPointers <- MCConstructorPointers
  AmountInputs <- MCRedemptionAmounts
  PointerInputs <- MCMovingPointers
  MaxRedemptions = 2
  RedemptionInputs = {3}
  RedeemerIds = {2}
  RedeemerAmounts = {2}
  RedeemerUsers = {u2}
  MaxRecreated = 1
INVARIANTS
  RedTypeOK
  RedemptionConservation
  PaidOnce
  OffChainNeverPaid
  PaidWithinWorth
PROPERTIES
  PricedAfterRequest
  PayoutGoesToRedeemer

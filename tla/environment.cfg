SPECIFICATION EnvironmentSpec
CONSTANTS
  Hub = hub
  Aggregator = aggregator
  Pricer = pricer
  NoAddress = none
  OracleKinds = {"none", "rateCheck", "comparison"}
  InitialPrice = 199
  PriceInputs = {0, 199, 200, 201}
  TimestampInputs = {1, 2, 5}
  RoundAnswers = {100, 102}
  ORACLE_BPS_DENOMINATOR = 100
  MAX_CHANGE_DIFF_BPS <- MCChanges
  MAX_ABSOLUTE_DIFF_BPS = 2
  MIN_PRICE_UPDATE_WINDOW = 2
  MAX_CL_WINDOW = 2
  MaxBookTime = 5
  MaxPriceId = 3
  MaxRounds = 3
  Holders = {u1}
  BlocklistContracts = {list1, list2}
  MaxTerms = 2
  MaxValidIndexes = 1
  FollowedParts = {"prices", "lists"}
INVARIANTS
  EnvironmentTypeOK
  AggregatorAgrees
  LatestIsNewest
  PriceDriftBounded
PROPERTIES
  ActsAsHubEnvironment
  NewTermAdmitsNobody
SYMMETRY MCSymmetry

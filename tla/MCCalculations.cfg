CONSTANTS
  v1 = v1
  v2 = v2
  v3 = v3
  None = None
  Candidates = {0, 1, 2, 3}
  Voters = {v1, v2, v3}
  Power <- SmallPower
  GradesGiven = {1, 3}
  Rules <- AllRules
  Base = 4
  IntegerDigits = 2
  PriceSqrt <- Prices
  Accounts = {1, 2, 3}
  Worlds <- AllWorlds
  Follows <- After
  Configs <- SomeConfigs
  MaxVersions = 2
  MaxDeploys = 1
SPECIFICATION MCSpec
INVARIANTS
  SeatsGoToTheBest
  NeutralToIds
  DrawSettlesOnlyTheGroup
  WeighedAsRecounted
  PoolsAreCountedOnce
  KeysSortByPower
PROPERTIES
  RaisingNeverHurts
  AmountsFollowThePrice
CHECK_DEADLOCK FALSE

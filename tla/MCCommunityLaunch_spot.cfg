SPECIFICATION Spec
CONSTANTS
  u1 = u1
  u2 = u2
  d1 = d1
  d2 = d2
  s1 = s1
  s2 = s2
  i1 = i1
  i2 = i2
  Wallets = {u1, u2}
  None = None
  Symbols = {s1, s2}
  Infos = {i1, i2}
  XelSupply = 16
  Deposits = {1, 2, 3, 4}
  Sales = {1, 3, 5}
  MinOuts = {0}
  Supplies = {8, 12}
  CreatorBpsArgs = {0, 1}
  AssetCosts = {1}
  FeeArgs = {0, 3}
  PriceArgs = {1, 3, 4}
  AddrArgs = {u2}
  FlagArgs = {TRUE, FALSE}
  StrayArgs = {1}
  DexArgs = {d1, d2}
  BPS_DENOM = 4
  U64_MAX = 40
  MAX_COINS = 2
  MAX_SUBMISSION_FEE = 2
  MAX_ASSET_BUDGET = 2
  MAX_FEE_BPS = 2
  MAX_MIGRATION_FEE_BPS = 2
  MIN_GRADUATION_DEPTH = 1
  MAX_GRADUATION_DEPTH = 4
  MIN_VIRTUAL_XEL = 2
  MAX_VIRTUAL_XEL = 6
  MIN_COIN_SUPPLY = 4
  MAX_COIN_SUPPLY = 12
  MAX_CREATOR_BPS = 1
  MIN_BUY_XEL = 1
  MAX_TRADE_XEL = 6
  Defaults <- MCDefaults
  MaxTrades = 5
CONSTRAINT OneCoin
CHECK_DEADLOCK FALSE
PROPERTIES PoolOpensAtSpot

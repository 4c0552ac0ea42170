SPECIFICATION MCSpec
CONSTANTS
  d1 = d1
  d2 = d2
  i1 = i1
  s1 = s1
  s2 = s2
  u1 = u1
  u2 = u2
  u3 = u3
  None = None
  Wallets = {u1, u2, u3}
  Symbols = {s1, s2}
  Infos = {i1}
  XelSupply = 11
  Deposits = {0, 1, 4}
  Sales = {1, 3}
  Supplies = {8}
  TeamBpsArgs = {1, 2}
  Plans = {2}
  AssetCosts = {1}
  AddrArgs = {u2}
  FlagArgs = {TRUE, FALSE}
  StrayArgs = {1}
  DexArgs = {d1, d2}
  BPS_DENOM = 5
  U64_MAX = 60
  MAX_PROJECTS = 2
  MIN_TOTAL_SUPPLY = 4
  MAX_TOTAL_SUPPLY = 16
  MAX_TEAM_BPS = 2
  MIN_BUY_XEL = 1
  MAX_TRADE_XEL = 6
  MAX_LIQUIDITY = 8
  MAX_ROUNDS = 1
  MAX_TOPO = 6
  MaxTrades = 3
  Defaults <- MCDefaults
  Low <- MCLow
  High <- MCHigh
  Params <- MCEdges
  Me = u1
  Seeds = {1, 2, 4}
  PRICE_SCALE = 10
  XEL = XEL
  Dex = d1
  Amounts = {1, 3}
  MinOuts = {0}
  FeeArgs = {}
  SplitArgs = {}
  BoundsArgs = {}
  ACC_SCALE = 2
  MAX_POOLS = 2
  MIN_LP_ADD_XEL = 2
  MAX_SWAP_FEE_BPS = 2
  MIN_LP_SHARE_BPS = 1
  MAX_LP_SHARE_BPS = 4
  DEFAULT_SWAP_FEE_BPS = 2
  DEFAULT_LP_SHARE_BPS = 3
  MAX_SEED <- MCSixes
  MAX_SWAP_CAP <- MCSixes
  SEED_FLOOR <- MCOnes
  SWAP_FLOOR <- MCOnes
  DefaultBounds <- MCDefaultBounds
CONSTRAINT InReach
CHECK_DEADLOCK FALSE
INVARIANTS TypeOK Solvency ExitsOpen ClientTrue PoolsAgree
PROPERTIES Lifecycle VestingKept VotesClose

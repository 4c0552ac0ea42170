SPECIFICATION MCSpec
CONSTANTS
  u1 = u1
  u2 = u2
  t1 = t1
  t2 = t2
  Wallets = {u1, u2}
  Assets = {t1, t2}
  XEL = XEL
  None = None
  MaxXel = 12
  MaxTokens = 10
  MaxTrades = 3
  Amounts = {0, 2, 4}
  MinOuts = {0}
  FeeArgs = {0, 3}
  SplitArgs = {2}
  AddrArgs = {u1, u2}
  FlagArgs = {TRUE, FALSE}
  StrayArgs = {1}
  BPS_DENOM = 4
  ACC_SCALE = 2
  U64_MAX = 15
  MAX_POOLS = 2
  MIN_LP_ADD_XEL = 2
  MAX_SWAP_FEE_BPS = 2
  MIN_LP_SHARE_BPS = 1
  MAX_LP_SHARE_BPS = 3
  DEFAULT_SWAP_FEE_BPS = 2
  DEFAULT_LP_SHARE_BPS = 3
  Supply <- MCSupply
  BoundsArgs <- MCBoundsArgs
  DefaultBounds <- MCDefaultBounds
  MAX_SEED <- MCPerSide
  MAX_SWAP_CAP <- MCPerSide
  SEED_FLOOR <- MCOnes
  SWAP_FLOOR <- MCOnes
  Me = u1
  Parts = {2, 4}
CONSTRAINT InReach
CHECK_DEADLOCK FALSE
INVARIANTS TypeOK Solvency PartsLedger ExitsOpen ClientTrue
PROPERTIES CurveHolds DuesKept

SPECIFICATION MCSpec
CONSTANTS
  u2 = u2
  
  k1 = k1
  u1 = u1
  None = None
  NoLeaf = NoLeaf
  Wallets = {u1, u2}
  Secrets = {k1}
  XelSupply = 12
  TREE_DEPTH = 2
  CAPACITY = 3
  ROOT_HISTORY = 2
  BATCH_MAX = 2
  MIN_DELAY_TOPO = 1
  MAX_DELAY_TOPO = 2
  Denominations = {2, 5}
  BPS = 4
  DEFAULT_FEE_BPS = 1
  MAX_FEE_BPS = 2
  DEFAULT_BOUNTY = 1
  MAX_BOUNTY = 3
  DelayArgs = {1, 2}
  FeeArgs = {0, 2, 3}
  BountyArgs = {3, 4}
  ClaimArgs = {1}
  ATTEMPTS = 2
  MyDelay = 1
  MyNote <- MCMyNote
  AddrArgs = {u1, u2}
  StrayArgs = {1, 2}
  LossArgs = {2, 3}
  MAX_TOPO = 2
CHECK_DEADLOCK FALSE
INVARIANTS TypeOK TreeExact   LeafOwnWhenAlone
   

CONSTANTS
  a = a
  b = b
  Consoles = {x}
  Picks = {"vault_deposit", "vault_borrow"}
  ATTEMPTS = 2
  POSTS = 2
  MAX_ENTRIES = 1
  MayOverlap = FALSE
  MaxAsks = 2
  MaxFaults = 1
  MaxUpgrades = 0
  XConsoles = {x}
  MConsoles = {m}
  Local = "u"
  Public = "v"
  Urls = {"u"}
  Desks = {x, m}
  Users = {a, b}
  Letters <- TwoLetters
  Self = a
  Threads = {t1, t2}
  ANCHOR_MIN_MESSAGES = 2
  ANCHOR_MIN_SENDERS = 2
  ANCHOR_RATE_LIMIT_BLOCKS = 3
  MAX_ONCHAIN_MESSAGES = 2
  CallBlocks = 1
  Providers <- TwoProviders
  Stake <- EvenStakes
  Quotes = {100, 130}
  MinQuote = 1
  MaxQuote = 200
  AGG_BLOCKS = 2
  MAX_STALE = 3
  MAX_DEV = 500
  CB_THRESH = 2000
  SUBMIT_EVERY = 5
  HEARTBEAT_EVERY = 9
  SEND_ATTEMPTS = 2
  Terminals = {t1, t2}
  Asked = {"launchpad_propose"}
  Nameless = {}
  Suited <- Suiting
  TRIES = 2
  MaxWallets = 2
  MaxPids = 2
  MaxCrashes = 1
  MaxTopo = 5
  MaxPosts = 2
  MaxHeight = 13
  MaxRuns = 2
  MaxLost = 1
SPECIFICATION MCSpec
INVARIANTS
  ActionsKnown
CHECK_DEADLOCK FALSE

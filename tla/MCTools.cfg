CONSTANTS
  Names <- MCNames
  InScope <- MCScope
  u1 = u1
  u2 = u2
  Users = {u1, u2}
  CursorEvery = 2
  BatchSize = 1
  MaxPoints = 2
  MaxCrashes = 1
  Again = 1
  alice = alice
  admin = admin
  t1 = t1
  t2 = t2
  UNIT = 20
  BATCH = 2
  CHUNK = 2
  MaxTopo = 2
  MaxFaults = 1
  MaxUsers = 5
  Known = {"pool", "miner"}
  Edited = {"miner"}
  MaxEdits = 2
  MaxChanges = 2
  MaxKills = 1
  InRun = {"VLTToken", "xUSD", "FaucetContract"}
  MaxRuns = 2
  MaxTroubles = 2
SPECIFICATION MCSpec
INVARIANTS
  DeploymentsWired
  OnceOnly
  AirdropExact
  IdsExact
PROPERTIES
  CutoverSound
  Finishes
CHECK_DEADLOCK FALSE

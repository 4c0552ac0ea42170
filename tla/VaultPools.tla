----------------------------- MODULE VaultPools -----------------------------
(***************************************************************************)
(* VaultLaunch and LaunchDEX over one supply: a project's migration and    *)
(* the mirror of its trust are single transactions that change the slots   *)
(* of both contracts, and both take deposits from the same wallets.        *)
(*                                                                         *)
(* The launchpad calls create_pool and set_pool_buys_paused, which answer  *)
(* to one wallet: get_caller() is the signer of the transaction, in a      *)
(* cross-contract call too.                                                *)
(***************************************************************************)
EXTENDS VaultLaunch

CONSTANTS
  XEL, Dex,                                   \* the native asset; the contract below
  Amounts, MinOuts, FeeArgs, SplitArgs, BoundsArgs, ACC_SCALE, MAX_POOLS,
  MIN_LP_ADD_XEL, MAX_SWAP_FEE_BPS, MIN_LP_SHARE_BPS, MAX_LP_SHARE_BPS,
  MAX_SEED, MAX_SWAP_CAP, SEED_FLOOR, SWAP_FLOOR,
  DEFAULT_SWAP_FEE_BPS, DEFAULT_LP_SHARE_BPS, DefaultBounds   \* as in LaunchDEX

VARIABLES dex, index, pool, score, pos, bal   \* the DEX's slots; dex is its config

pools == <<dex, index, pool, score, pos, bal>>

D == INSTANCE LaunchDEX WITH
       config <- dex, Assets <- Ids,
       Supply <- [c \in Ids \cup {XEL} |-> IF c = XEL THEN XelSupply
                                                      ELSE MAX_TOTAL_SUPPLY]

PoolsInit == Init /\ D!Init
-----------------------------------------------------------------------------
\* Units of a project's asset in existence.
Minted(i) == IF Proposed(i) /\ proj[i].ah THEN proj[i].supply ELSE 0

\* Nothing is attached that the wallets do not hold.
Attachable ==
  /\ xel' + bal'[XEL] <= XelSupply
  /\ \A i \in Ids : tok'[i] + bal'[i] <= Minted(i)'

OnCurves(A) == A /\ UNCHANGED pools /\ Attachable
OnPools(A) == A /\ UNCHANGED vars /\ Attachable

\* migrate, signed by u: create_pool with the curve's whole reserves attached
\* and, for a project that is Untrusted now, set_pool_buys_paused.
StoppedNever_(p) == FALSE
Stopped(p) == SyncFlag(p)
MigrateInto(u, i) ==
  /\ config.dex = Dex
  /\ D!Launchpad(u)
  /\ Migrate(i)
  /\ D!SeedPool(i, Seed(proj[i]), Stopped(proj[i]))

\* sync_trust_to_dex, signed by u.
SyncInto(u, i) ==
  /\ config.dex = Dex
  /\ SyncTrustToDex(i)
  /\ D!SetPoolBuysPaused(u, i, SyncFlag(proj[i]))

Joint(u, i) == MigrateInto(u, i) \/ SyncInto(u, i)

\* Pools opened by others, trades, liquidity and the DEX's administration.
DexNext ==
  \/ \E i \in Ids : \/ \E seed \in D!Pairs : D!CreatePoolOpen(i, seed)
                    \/ D!Trade(i)
  \/ \E u \in Wallets : D!Govern(u) \/ \E i \in Ids : D!Provide(u, i)
  \/ \E u \in Wallets, i \in Ids, amt \in D!Pairs : D!WithdrawFees(u, i, amt)
  \/ \E c \in D!Coins, n \in StrayArgs : D!StrayDeposit(c, n)

PoolsNext ==
  \/ OnCurves(NextHere) \/ OnPools(DexNext)
  \/ \E u \in Wallets, i \in Ids : Joint(u, i)

PoolsSpec == PoolsInit /\ [][PoolsNext]_<<vars, pools>>
-----------------------------------------------------------------------------
\* The two contracts agree.  The pool of a migrated project is there, locks
\* what its curve sent and has its buys stopped as the launchpad has written
\* down; a trust it does not mirror can be mirrored by the launchpad's wallet.
\* The DEX still covers its holders and takes their sells, whatever the other
\* contract holds of the same assets.
PoolsSound ==
  /\ D!Solvency /\ D!PartsLedger /\ D!SellsOpen
  /\ \A i \in Ids : Proposed(i) /\ proj[i].mi =>
       /\ D!Live(i) /\ dex.lpx # None
       /\ pool[i].pl = proj[i].mx
       /\ pool[i].bp = proj[i].dsy
       /\ pool[i].bp # SyncFlag(proj[i]) => SyncAccepted(i)

\* docs/LAUNCHPAD.md:168, VaultLaunch.slx:2258-2259: stopped buys reopen for a
\* project that has recovered.
ResumesRecovered ==
  [][\A i \in Ids : D!Live(i) /\ pool[i].bp /\ ~pool'[i].bp =>
       proj'[i].status \in Buying]_<<vars, pools>>
=============================================================================

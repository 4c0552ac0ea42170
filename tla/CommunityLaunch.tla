--------------------------- MODULE CommunityLaunch ---------------------------
(***************************************************************************)
(* contracts/community/CommunityLaunch.slx: the permissionless coin        *)
(* factory and its virtual-reserve bonding curves.                         *)
(*                                                                         *)
(* Entries are atomic transactions, as in LaunchDEX.  A coin is numbered   *)
(* by its cid and its asset is created from that number, so the cid stands *)
(* for the asset too.  Migrate's call of create_pool_open is part of the   *)
(* same transaction: either the pool is created, or the entry is undone.   *)
(***************************************************************************)
EXTENDS Totals, Sequences

CONSTANTS
  Wallets, None,
  Symbols,            \* tickers a creator may choose
  Infos,              \* versions of a coin's editable card
  XelSupply,          \* units of XEL in existence
  Deposits,           \* XEL deposits a caller may attach
  Sales,              \* token deposits a caller may attach
  MinOuts,            \* slippage floors a caller may choose
  Supplies, CreatorBpsArgs,   \* launch_coin's tokenomics arguments
  AssetCosts,         \* what the chain may charge for creating an asset
  FeeArgs, PriceArgs, \* arguments of the fee setters, of the XEL-valued ones
  AddrArgs, FlagArgs, StrayArgs,
  DexArgs,            \* contracts that expose create_pool_open at its chunk
  BPS_DENOM, U64_MAX, MAX_COINS,
  MAX_SUBMISSION_FEE, MAX_ASSET_BUDGET, MAX_FEE_BPS, MAX_MIGRATION_FEE_BPS,
  MIN_GRADUATION_DEPTH, MAX_GRADUATION_DEPTH, MIN_VIRTUAL_XEL, MAX_VIRTUAL_XEL,
  MIN_COIN_SUPPLY, MAX_COIN_SUPPLY, MAX_CREATOR_BPS, MIN_BUY_XEL, MAX_TRADE_XEL,
  Defaults            \* the parameters the constructor stores

Ids == 0..(MAX_COINS - 1)
Params == [subFee : 0..MAX_SUBMISSION_FEE, budget : 0..MAX_ASSET_BUDGET,
           curveFee : 0..MAX_FEE_BPS, gradFee : 0..MAX_FEE_BPS,
           migFee : 0..MAX_MIGRATION_FEE_BPS,
           depth : MIN_GRADUATION_DEPTH..MAX_GRADUATION_DEPTH,
           virtual : MIN_VIRTUAL_XEL..MAX_VIRTUAL_XEL]

ASSUME CommunityConstants ==
  /\ IsFiniteSet(Wallets) /\ None \notin Wallets /\ None \notin Ids
  /\ XelSupply \in Nat /\ U64_MAX \in Nat /\ XelSupply <= U64_MAX
  /\ Deposits \subseteq Nat /\ Sales \subseteq Nat /\ MinOuts \subseteq Nat
  /\ Supplies \subseteq Nat /\ CreatorBpsArgs \subseteq Nat
  /\ AssetCosts \subseteq Nat /\ FeeArgs \subseteq Nat /\ PriceArgs \subseteq Nat
  /\ AddrArgs \subseteq Wallets /\ FlagArgs \subseteq BOOLEAN
  /\ StrayArgs \subseteq Nat
  /\ BPS_DENOM \in Nat \ {0} /\ MAX_COINS \in Nat
  /\ MAX_SUBMISSION_FEE \in Nat /\ MAX_ASSET_BUDGET \in Nat
  /\ MAX_FEE_BPS \in 0..BPS_DENOM /\ MAX_MIGRATION_FEE_BPS \in 0..BPS_DENOM
  /\ MAX_CREATOR_BPS \in Nat /\ 2 * MAX_CREATOR_BPS <= BPS_DENOM
  /\ MIN_GRADUATION_DEPTH \in Nat \ {0} /\ MAX_GRADUATION_DEPTH \in Nat
  /\ MIN_VIRTUAL_XEL \in Nat \ {0} /\ MAX_VIRTUAL_XEL \in 0..U64_MAX
  /\ MIN_COIN_SUPPLY \in Nat \ {0} /\ MAX_COIN_SUPPLY \in Nat
  /\ MAX_COIN_SUPPLY <= U64_MAX
  /\ MIN_BUY_XEL \in Nat \ {0} /\ MAX_TRADE_XEL \in Nat
  /\ Defaults \in Params
  /\ Defaults.gradFee <= Defaults.curveFee
  /\ Defaults.depth <= Defaults.virtual \div 2

VARIABLES
  config,    \* adm, pz and dxa: the admin, the pause and the DEX pin
  params,    \* sub, abd, cfe, gfe, mgf, gdx, vxs
  count,     \* pc: coins ever launched
  coin,      \* c:{id}: the slots of each coin, None before its launch
  ticker,    \* t:{symbol}: the coin that reserved the symbol
  moved,     \* m:{order} and mgc: the migrated coins, in order
  books,     \* the global accumulators tcx, pfe, fcl, tbv, tsv, tvl, ttc
  xel, tok   \* the contract's balances of XEL and of each coin's asset

vars == <<config, params, count, coin, ticker, moved, books, xel, tok>>

LIVE == 0
GRADUATED == 1
MIGRATED == 2

Launched(i) == coin[i] # None
Trading(i) == Launched(i) /\ coin[i].status \in {LIVE, GRADUATED}
-----------------------------------------------------------------------------
(* Arithmetic helpers.  A name ending in _ is a mutant, read by nothing.   *)

FeeTake(amount, bps) == (amount * bps) \div BPS_DENOM
FeeWithin_(bps, max) == TRUE
FeeWithin(bps, max) == bps <= max
Checked(n) == n <= U64_MAX

FeeKept_(dep, fee) == dep
NetOf(dep, fee) == dep - fee

CreatorAlloc(supply, bps) == FeeTake(supply, bps)

\* The curve's opening inventory excludes the creator's allocation.
WholeSupply_(supply, bps) == supply
Inventory(supply, bps) == supply - CreatorAlloc(supply, bps)

CreatorRemaining(c) ==
  IF c.paid >= CreatorAlloc(c.supply, c.bps) THEN 0
  ELSE CreatorAlloc(c.supply, c.bps) - c.paid

\* The pair every formula uses: the real reserves plus the virtual ones.
XTotal(c) == c.xr + c.vx
YTotal(c) == c.yr + c.y0

BuyOut(c, net) == (YTotal(c) * net) \div (XTotal(c) + net)
SellOutReal_(c, t) == (XTotal(c) * t) \div (c.yr + t)
SellOutUp_(c, t) == (XTotal(c) * t + YTotal(c) + t - 1) \div (YTotal(c) + t)
SellOut(c, t) == (XTotal(c) * t) \div (YTotal(c) + t)

\* current_fee_bps: the graduated fee is clamped to the live one.
TradingFee(c) ==
  IF c.status # LIVE /\ params.gradFee <= params.curveFee THEN params.gradFee
                                                          ELSE params.curveFee

\* What wallets hold, and so can attach to a call.
XelOutside == XelSupply - xel
TokOutside(i) == coin[i].supply - tok[i]

\* A fee joins the pending pot and the lifetime counter.
Collected(b, fee) == [b EXCEPT !.pfe = @ + fee, !.fcl = @ + fee]
CollectChecked(fee) == Checked(books.pfe + fee) /\ Checked(books.fcl + fee)
-----------------------------------------------------------------------------
Init ==
  /\ \E deployer \in Wallets :
       config = [admin |-> deployer, paused |-> FALSE, dex |-> None]
  /\ params = Defaults
  /\ count = 0
  /\ coin = [i \in Ids |-> None]
  /\ ticker = [s \in Symbols |-> None]
  /\ moved = <<>>
  /\ books = [tcx |-> 0, pfe |-> 0, fcl |-> 0, tbv |-> 0, tsv |-> 0, tvl |-> 0,
              ttc |-> 0]
  /\ xel = 0
  /\ tok = [i \in Ids |-> 0]
-----------------------------------------------------------------------------
(* Launching a coin.                                                       *)

SymbolFree(sym) == ticker[sym] = None

NewCoin(creator, sym, info, supply, bps) ==
  [creator |-> creator, sym |-> sym, info |-> info, supply |-> supply,
   bps |-> bps, status |-> LIVE, mi |-> FALSE, xr |-> 0,
   yr |-> Inventory(supply, bps), y0 |-> Inventory(supply, bps),
   vx |-> params.virtual, gx |-> params.depth, paid |-> 0, mx |-> 0, mt |-> 0,
   bv |-> 0, sv |-> 0, tc |-> 0, vo |-> 0]

\* launch_coin: cost is what the chain charges the contract for the asset; of
\* the deposit only the submission fee stays.
LaunchCoin(caller, sym, info, supply, bps, dep, cost) ==
  /\ ~config.paused
  /\ count < MAX_COINS
  /\ SymbolFree(sym)
  /\ supply >= MIN_COIN_SUPPLY /\ supply <= MAX_COIN_SUPPLY
  /\ bps <= MAX_CREATOR_BPS
  /\ dep <= XelOutside
  /\ dep >= params.subFee + params.budget
  /\ dep >= params.subFee + cost
  /\ params.depth <= params.virtual \div 2
  /\ CollectChecked(params.subFee)
  /\ coin' = [coin EXCEPT ![count] = NewCoin(caller, sym, info, supply, bps)]
  /\ ticker' = [ticker EXCEPT ![sym] = count]
  /\ count' = count + 1
  /\ books' = Collected(books, params.subFee)
  /\ xel' = xel + params.subFee
  /\ tok' = [tok EXCEPT ![count] = supply]
  /\ UNCHANGED <<config, params, moved>>
-----------------------------------------------------------------------------
(* Trading on a curve.                                                     *)

\* Both graduation conditions, on the state after the buy.
DepthOnly_(c) == c.xr > c.gx
Graduates(c) == c.xr >= c.gx /\ c.xr * c.y0 >= c.yr * c.vx

Graduated(c) == [c EXCEPT !.status = GRADUATED]

\* record_trade: a buy records its deposit, a sell its gross.
BuyRecorded(b, n) == [b EXCEPT !.tbv = @ + n, !.tvl = @ + n, !.ttc = @ + 1]
SellRecorded(b, n) == [b EXCEPT !.tsv = @ + n, !.tvl = @ + n, !.ttc = @ + 1]
RecordChecked(own, total, vo, tc, n) ==
  /\ Checked(own + n) /\ Checked(total + n)
  /\ Checked(vo + n) /\ Checked(books.tvl + n)
  /\ Checked(tc + 1) /\ Checked(books.ttc + 1)

BuyGate(i) == ~config.paused /\ Trading(i)

Buy(i, dep, minOut) ==
  LET c      == coin[i]
      fee    == FeeTake(dep, TradingFee(c))
      net    == NetOf(dep, fee)
      out    == BuyOut(c, net)
      traded == [c EXCEPT !.xr = @ + net, !.yr = @ - out,
                          !.bv = @ + dep, !.vo = @ + dep, !.tc = @ + 1]
  IN
  /\ BuyGate(i)
  /\ dep <= XelOutside
  /\ dep >= MIN_BUY_XEL /\ dep <= MAX_TRADE_XEL
  /\ c.yr >= 1
  /\ out >= 1 /\ out <= c.yr /\ out >= minOut
  /\ Checked(books.tcx + net) /\ CollectChecked(fee)
  /\ RecordChecked(c.bv, books.tbv, c.vo, c.tc, dep)
  /\ out <= tok[i]
  /\ coin' = [coin EXCEPT ![i] = IF c.status = LIVE /\ Graduates(traded)
                                  THEN Graduated(traded) ELSE traded]
  /\ books' = [BuyRecorded(Collected(books, fee), dep) EXCEPT !.tcx = @ + net]
  /\ xel' = xel + dep
  /\ tok' = [tok EXCEPT ![i] = @ - out]
  /\ UNCHANGED <<config, params, count, ticker, moved>>

\* No pause stops a sell.
SellGate(i) == Trading(i)

SellAccepted(i, dep, minOut) ==
  LET c     == coin[i]
      gross == SellOut(c, dep)
      fee   == FeeTake(gross, TradingFee(c))
      out   == gross - fee
  IN
  /\ SellGate(i)
  /\ dep >= 1 /\ dep <= TokOutside(i)
  /\ c.xr >= 1
  /\ gross >= 1 /\ gross <= c.xr
  /\ out >= 1 /\ out >= minOut
  /\ gross <= books.tcx
  /\ CollectChecked(fee)
  /\ RecordChecked(c.sv, books.tsv, c.vo, c.tc, gross)
  /\ out <= xel

Sell(i, dep, minOut) ==
  LET c     == coin[i]
      gross == SellOut(c, dep)
      fee   == FeeTake(gross, TradingFee(c))
  IN
  /\ SellAccepted(i, dep, minOut)
  /\ coin' = [coin EXCEPT ![i] = [c EXCEPT !.xr = @ - gross, !.yr = @ + dep,
                                          !.sv = @ + gross, !.vo = @ + gross,
                                          !.tc = @ + 1]]
  /\ books' = [SellRecorded(Collected(books, fee), gross) EXCEPT !.tcx = @ - gross]
  /\ xel' = xel - (gross - fee)
  /\ tok' = [tok EXCEPT ![i] = @ + dep]
  /\ UNCHANGED <<config, params, count, ticker, moved>>

\* get_sell_quote.
SellQuote(c, t) ==
  IF c.status = MIGRATED THEN 0
  ELSE SellOut(c, t) - FeeTake(SellOut(c, t), TradingFee(c))
-----------------------------------------------------------------------------
(* Migration and the creator's allocation.                                 *)

\* The migration fee is carved out of the seed, not of the live curve.
MigrationFee(c) == FeeTake(c.xr, params.migFee)

\* What the pool is seeded with.
Seed(c) == [x |-> c.xr - MigrationFee(c), y |-> c.yr]

Closed(c) == [c EXCEPT !.mi = TRUE, !.status = MIGRATED,
                       !.mx = Seed(c).x, !.mt = Seed(c).y, !.xr = 0, !.yr = 0]

Migrate(i) ==
  LET c == coin[i]
  IN
  /\ Launched(i)
  /\ c.status = GRADUATED /\ ~c.mi
  /\ config.dex # None
  /\ c.xr >= 1 /\ c.yr >= 1
  /\ c.xr <= xel /\ c.yr + CreatorRemaining(c) <= tok[i]
  /\ CollectChecked(MigrationFee(c))
  /\ c.xr <= books.tcx
  /\ coin' = [coin EXCEPT ![i] = Closed(c)]
  /\ moved' = Append(moved, i)
  /\ books' = [Collected(books, MigrationFee(c)) EXCEPT !.tcx = @ - c.xr]
  /\ xel' = xel - Seed(c).x
  /\ tok' = [tok EXCEPT ![i] = @ - Seed(c).y]
  /\ UNCHANGED <<config, params, count, ticker>>

ClaimUnlocked(c) == c.status = MIGRATED

ClaimCreatorAllocation(caller, i) ==
  LET c   == coin[i]
      rem == CreatorRemaining(c)
  IN
  /\ Launched(i)
  /\ ClaimUnlocked(c)
  /\ caller = c.creator
  /\ rem >= 1 /\ rem <= tok[i]
  /\ coin' = [coin EXCEPT ![i] = [c EXCEPT !.paid = @ + rem]]
  /\ tok' = [tok EXCEPT ![i] = @ - rem]
  /\ UNCHANGED <<config, params, count, ticker, moved, books, xel>>

UpdateCoinInfo(caller, i, info) ==
  /\ Launched(i)
  /\ caller = coin[i].creator
  /\ coin' = [coin EXCEPT ![i] = [coin[i] EXCEPT !.info = info]]
  /\ UNCHANGED <<config, params, count, ticker, moved, books, xel, tok>>
-----------------------------------------------------------------------------
(* Administration.                                                         *)

OnlyAdmin(caller) == caller = config.admin

\* The cross-check of a pair of parameters.
InOrder(low, high) == low <= high

SetParam(caller, p) ==
  /\ OnlyAdmin(caller)
  /\ params' = p
  /\ UNCHANGED <<config, count, coin, ticker, moved, books, xel, tok>>

SetSubmissionFee(caller, n) ==
  n <= MAX_SUBMISSION_FEE /\ SetParam(caller, [params EXCEPT !.subFee = n])
SetAssetBudget(caller, n) ==
  n <= MAX_ASSET_BUDGET /\ SetParam(caller, [params EXCEPT !.budget = n])
SetCurveFee(caller, n) ==
  /\ FeeWithin(n, MAX_FEE_BPS) /\ InOrder(params.gradFee, n)
  /\ SetParam(caller, [params EXCEPT !.curveFee = n])
SetGraduatedFee(caller, n) ==
  /\ FeeWithin(n, MAX_FEE_BPS) /\ InOrder(n, params.curveFee)
  /\ SetParam(caller, [params EXCEPT !.gradFee = n])
SetMigrationFee(caller, n) ==
  FeeWithin(n, MAX_MIGRATION_FEE_BPS) /\ SetParam(caller, [params EXCEPT !.migFee = n])
SetGraduationDepth(caller, n) ==
  /\ n >= MIN_GRADUATION_DEPTH /\ n <= MAX_GRADUATION_DEPTH
  /\ InOrder(n, params.virtual \div 2)
  /\ SetParam(caller, [params EXCEPT !.depth = n])
SetVirtualXel(caller, n) ==
  /\ n >= MIN_VIRTUAL_XEL /\ n <= MAX_VIRTUAL_XEL
  /\ InOrder(params.depth, n \div 2)
  /\ SetParam(caller, [params EXCEPT !.virtual = n])

PinOpen == moved = <<>>

SetDexAddress(caller, addr) ==
  /\ OnlyAdmin(caller)
  /\ PinOpen
  /\ config' = [config EXCEPT !.dex = addr]
  /\ UNCHANGED <<params, count, coin, ticker, moved, books, xel, tok>>

SetAdmin(caller, new) ==
  /\ OnlyAdmin(caller)
  /\ config' = [config EXCEPT !.admin = new]
  /\ UNCHANGED <<params, count, coin, ticker, moved, books, xel, tok>>

SetPaused(caller, flag) ==
  /\ OnlyAdmin(caller)
  /\ config' = [config EXCEPT !.paused = flag]
  /\ UNCHANGED <<params, count, coin, ticker, moved, books, xel, tok>>

\* Capped by the accrued fees and by what the curves leave uncommitted.
WithdrawFees(caller, n) ==
  /\ OnlyAdmin(caller)
  /\ n > 0 /\ n <= books.pfe
  /\ n + books.tcx <= xel
  /\ books' = [books EXCEPT !.pfe = @ - n]
  /\ xel' = xel - n
  /\ UNCHANGED <<config, params, count, coin, ticker, moved, tok>>

\* A deposit the called entry does not read.
StrayXel(n) ==
  /\ n >= 1 /\ n <= XelOutside
  /\ xel' = xel + n
  /\ UNCHANGED <<config, params, count, coin, ticker, moved, books, tok>>
StrayTokens(i, n) ==
  /\ Launched(i)
  /\ n >= 1 /\ n <= TokOutside(i)
  /\ tok' = [tok EXCEPT ![i] = @ + n]
  /\ UNCHANGED <<config, params, count, coin, ticker, moved, books, xel>>
-----------------------------------------------------------------------------
Launch ==
  \E u \in Wallets, sym \in Symbols, info \in Infos, supply \in Supplies,
     bps \in CreatorBpsArgs, dep \in Deposits, cost \in AssetCosts :
    LaunchCoin(u, sym, info, supply, bps, dep, cost)

Trade(i) ==
  \E minOut \in MinOuts : \/ \E dep \in Deposits : Buy(i, dep, minOut)
                          \/ \E dep \in Sales : Sell(i, dep, minOut)

Govern(u) ==
  \/ \E n \in FeeArgs : SetCurveFee(u, n) \/ SetGraduatedFee(u, n) \/ SetMigrationFee(u, n)
  \/ \E n \in PriceArgs : \/ SetSubmissionFee(u, n) \/ SetAssetBudget(u, n)
                          \/ SetGraduationDepth(u, n) \/ SetVirtualXel(u, n)
  \/ \E v \in AddrArgs : SetAdmin(u, v)
  \/ \E v \in DexArgs : SetDexAddress(u, v)
  \/ \E flag \in FlagArgs : SetPaused(u, flag)
  \/ \E n \in Deposits : WithdrawFees(u, n)

Next ==
  \/ Launch
  \/ \E i \in Ids : Trade(i)
  \/ \E i \in Ids : Migrate(i)
  \/ \E u \in Wallets, i \in Ids : ClaimCreatorAllocation(u, i)
  \/ \E u \in Wallets, i \in Ids, info \in Infos : UpdateCoinInfo(u, i, info)
  \/ \E u \in Wallets : Govern(u)
  \/ \E n \in StrayArgs : StrayXel(n) \/ \E i \in Ids : StrayTokens(i, n)

Spec == Init /\ [][Next]_vars
-----------------------------------------------------------------------------
(* What the factory promises.                                              *)

Coins == [creator : Wallets, sym : Symbols, info : Infos,
          supply : MIN_COIN_SUPPLY..MAX_COIN_SUPPLY, bps : 0..MAX_CREATOR_BPS,
          status : {LIVE, GRADUATED, MIGRATED}, mi : BOOLEAN,
          xr : Nat, yr : Nat, y0 : Nat, vx : MIN_VIRTUAL_XEL..MAX_VIRTUAL_XEL,
          gx : MIN_GRADUATION_DEPTH..MAX_GRADUATION_DEPTH,
          paid : Nat, mx : Nat, mt : Nat, bv : Nat, sv : Nat, tc : Nat, vo : Nat]

\* The unset slot is no coin.
ASSUME NoneIsNoCoin == None \notin Coins

\* Every slot keeps its type and the parameters their caps; in particular no
\* subtraction of a reserve, of tcx, of a pot or of a balance underflows.
TypeOK ==
  /\ config \in [admin : Wallets, paused : BOOLEAN, dex : DexArgs \cup {None}]
  /\ params \in Params
  /\ count \in 0..MAX_COINS
  /\ coin \in [Ids -> Coins \cup {None}]
  /\ ticker \in [Symbols -> Ids \cup {None}]
  /\ moved \in Seq(Ids)
  /\ books \in [tcx : Nat, pfe : Nat, fcl : Nat, tbv : Nat, tsv : Nat, tvl : Nat,
                ttc : Nat]
  /\ xel \in 0..XelSupply
  /\ tok \in [Ids -> Nat]

Slot(i, f) == IF Launched(i) THEN coin[i][f] ELSE 0

\* IC1: tcx is the exact sum of the curves' reserves, and the balance covers
\* it together with the pending fees, whatever is launched, traded, migrated
\* or withdrawn.
XelSolvency ==
  /\ books.tcx = Total([i \in Ids |-> Slot(i, "xr")])
  /\ books.tcx + books.pfe <= xel

\* IC2: the contract's balance of each asset covers the curve's inventory and
\* the creator's unclaimed allocation, and the paid counter never passes it.
TokenSolvency ==
  \A i \in Ids : Launched(i) =>
    LET c == coin[i]  alloc == CreatorAlloc(c.supply, c.bps)
    IN  /\ c.paid <= alloc
        /\ c.yr + alloc - c.paid <= tok[i] /\ tok[i] <= c.supply

\* IC4: everything that circulates can be sold back in one transaction for no
\* more than the real reserves hold.
WorstCaseCovered ==
  \A i \in Ids : Trading(i) =>
    /\ coin[i].yr <= coin[i].y0
    /\ SellOut(coin[i], coin[i].y0 - coin[i].yr) <= coin[i].xr

\* What the contract holds covers what it owes, now and if everyone sold.
Solvency == XelSolvency /\ TokenSolvency /\ WorstCaseCovered

\* C7: a sell worth at least one unit after its fee is accepted in every state
\* of a curve that still trades, while the counters have room.
SellsOpen ==
  \A i \in Ids : Trading(i) =>
    \A dep \in 1..TokOutside(i) :
      LET c == coin[i]  gross == SellOut(c, dep)
      IN  /\ SellQuote(c, dep) >= 1
          /\ CollectChecked(gross - SellQuote(c, dep))
          /\ RecordChecked(c.sv, books.tsv, c.vo, c.tc, gross)
          => SellAccepted(i, dep, 0)

\* C2: no trade leaves a live coin beyond its graduation point.
GraduationNotMissed ==
  \A i \in Ids : Launched(i) /\ coin[i].status = LIVE =>
    ~(coin[i].xr >= coin[i].gx /\ coin[i].xr * coin[i].y0 >= coin[i].yr * coin[i].vx)
-----------------------------------------------------------------------------
(* Statements of the documentation the code does not keep.                 *)

\* docs/COMMUNITY_LAUNCH.md:142-153: the pool opens no lower than the curve's
\* spot price less the migration fee.
PoolOpensAtSpot ==
  [][\A i \in Ids : Trading(i) /\ coin'[i].status = MIGRATED =>
       LET c == coin[i]  d == coin'[i]
       IN  d.mx * YTotal(c) * BPS_DENOM
             >= d.mt * XTotal(c) * (BPS_DENOM - params.migFee)]_vars
=============================================================================

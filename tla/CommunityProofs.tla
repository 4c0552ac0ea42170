--------------------------- MODULE CommunityProofs ---------------------------
(***************************************************************************)
(* CommunityLaunch for every number of wallets, coins and parameters: the  *)
(* slots keep their types, the contract covers what it owes even if all    *)
(* that circulates is sold back, and a holder's sell is never refused.     *)
(***************************************************************************)
EXTENDS SdkCommunity, TotalsProofs

-----------------------------------------------------------------------------
(* The model's arithmetic.                                                 *)

\* What a fee can take.
LEMMA FeeTakeBound ==
  ASSUME NEW n \in Nat, NEW bps \in 0..BPS_DENOM
  PROVE  FeeTake(n, bps) \in Nat /\ FeeTake(n, bps) <= n
<1>1. bps \in Nat /\ bps <= BPS_DENOM
  BY CommunityConstants
<1>. QED
  BY <1>1, CommunityConstants, ShareBound DEF FeeTake

\* A parameter in its range.
LEMMA ParamTypes ==
  ASSUME TypeOK
  PROVE  /\ params.subFee \in Nat /\ params.budget \in Nat
         /\ params.curveFee \in 0..BPS_DENOM /\ params.gradFee \in 0..BPS_DENOM
         /\ params.migFee \in 0..BPS_DENOM
         /\ params.depth \in MIN_GRADUATION_DEPTH..MAX_GRADUATION_DEPTH
         /\ params.virtual \in MIN_VIRTUAL_XEL..MAX_VIRTUAL_XEL
<1>1. params \in Params
  BY DEF TypeOK
<1>2. /\ params.subFee \in Nat /\ params.budget \in Nat
      /\ params.depth \in MIN_GRADUATION_DEPTH..MAX_GRADUATION_DEPTH
      /\ params.virtual \in MIN_VIRTUAL_XEL..MAX_VIRTUAL_XEL
  BY <1>1, CommunityConstants DEF Params
<1>3. /\ params.curveFee \in 0..MAX_FEE_BPS /\ params.gradFee \in 0..MAX_FEE_BPS
      /\ params.migFee \in 0..MAX_MIGRATION_FEE_BPS
  BY <1>1 DEF Params
<1>4. /\ MAX_FEE_BPS \in 0..BPS_DENOM /\ MAX_MIGRATION_FEE_BPS \in 0..BPS_DENOM
      /\ BPS_DENOM \in Nat
  BY CommunityConstants
<1>5. 0..MAX_FEE_BPS \subseteq 0..BPS_DENOM /\ 0..MAX_MIGRATION_FEE_BPS \subseteq 0..BPS_DENOM
  BY <1>4
<1>. QED
  BY <1>2, <1>3, <1>5

\* The slots of a launched coin, and the balances.
LEMMA CoinTypes ==
  ASSUME TypeOK, NEW i \in Ids, Launched(i)
  PROVE  /\ coin[i] \in Coins
         /\ coin[i].supply \in Nat \ {0} /\ coin[i].bps \in 0..BPS_DENOM
         /\ coin[i].xr \in Nat /\ coin[i].yr \in Nat /\ coin[i].y0 \in Nat
         /\ coin[i].vx \in Nat \ {0} /\ coin[i].gx \in Nat \ {0}
         /\ coin[i].paid \in Nat /\ tok[i] \in Nat
<1>1. coin[i] \in Coins /\ tok[i] \in Nat
  BY DEF TypeOK, Launched
<1>. QED
  BY <1>1, CommunityConstants DEF Coins

\* The accumulators, and what a collected fee and a recorded trade do to them.
Books == [tcx : Nat, pfe : Nat, fcl : Nat, tbv : Nat, tsv : Nat, tvl : Nat, ttc : Nat]

LEMMA CollectedType ==
  ASSUME NEW b \in Books, NEW fee \in Nat
  PROVE  /\ Collected(b, fee) \in Books
         /\ Collected(b, fee).tcx = b.tcx /\ Collected(b, fee).pfe = b.pfe + fee
<1>1. b.pfe + fee \in Nat /\ b.fcl + fee \in Nat
  BY DEF Books
<1> DEFINE p == b.pfe + fee
           l == b.fcl + fee
<1>2. Collected(b, fee) = [b EXCEPT !.pfe = p, !.fcl = l]
  BY DEF Collected, Books
<1> HIDE DEF p, l
<1>3. Collected(b, fee) \in Books /\ Collected(b, fee).tcx = b.tcx /\ Collected(b, fee).pfe = p
  BY <1>1, <1>2 DEF Books, p, l
<1>. QED
  BY <1>3 DEF p

LEMMA RecordedType ==
  ASSUME NEW b \in Books, NEW n \in Nat
  PROVE  /\ BuyRecorded(b, n) \in Books /\ SellRecorded(b, n) \in Books
         /\ BuyRecorded(b, n).tcx = b.tcx /\ BuyRecorded(b, n).pfe = b.pfe
         /\ SellRecorded(b, n).tcx = b.tcx /\ SellRecorded(b, n).pfe = b.pfe
<1> DEFINE t == b.tbv + n
           o == b.tsv + n
           v == b.tvl + n
           k == b.ttc + 1
<1>1. t \in Nat /\ o \in Nat /\ v \in Nat /\ k \in Nat
  BY DEF Books
<1>2. /\ BuyRecorded(b, n) = [b EXCEPT !.tbv = t, !.tvl = v, !.ttc = k]
      /\ SellRecorded(b, n) = [b EXCEPT !.tsv = o, !.tvl = v, !.ttc = k]
  BY DEF BuyRecorded, SellRecorded, Books
<1> HIDE DEF t, o, v, k
<1>. QED
  BY <1>1, <1>2, ZenonT(60) DEF Books

LEMMA CurvesType ==
  ASSUME NEW b \in Books, NEW n \in Nat
  PROVE  /\ [b EXCEPT !.tcx = n] \in Books
         /\ [b EXCEPT !.tcx = n].tcx = n /\ [b EXCEPT !.tcx = n].pfe = b.pfe
BY DEF Books

LEMMA BookTypes ==
  ASSUME TypeOK
  PROVE  /\ books \in Books /\ books.tcx \in Nat /\ books.pfe \in Nat /\ books.fcl \in Nat
         /\ books.tbv \in Nat /\ books.tsv \in Nat /\ books.tvl \in Nat
         /\ books.ttc \in Nat /\ xel \in Nat /\ XelSupply \in Nat /\ xel <= XelSupply
BY CommunityConstants DEF TypeOK, Books

\* What a coin's creator may get.
LEMMA AllocBound ==
  ASSUME NEW supply \in Nat, NEW bps \in 0..BPS_DENOM
  PROVE  /\ CreatorAlloc(supply, bps) \in Nat /\ CreatorAlloc(supply, bps) <= supply
         /\ Inventory(supply, bps) \in Nat
         /\ Inventory(supply, bps) + CreatorAlloc(supply, bps) = supply
<1>1. FeeTake(supply, bps) \in Nat /\ FeeTake(supply, bps) <= supply
  BY FeeTakeBound
<1>. QED
  BY <1>1 DEF CreatorAlloc, Inventory

LEMMA RemainingType ==
  ASSUME TypeOK, NEW i \in Ids, Launched(i)
  PROVE  CreatorRemaining(coin[i]) \in Nat
<1>1. CreatorAlloc(coin[i].supply, coin[i].bps) \in Nat
  BY CoinTypes, AllocBound
<1>. QED
  BY <1>1, CoinTypes DEF CreatorRemaining

\* The fee and what is left of a deposit or of a gross payout.
LEMMA FeeSplits ==
  ASSUME TypeOK, NEW c \in Coins, NEW n \in Nat
  PROVE  LET fee == FeeTake(n, TradingFee(c))
         IN  fee \in Nat /\ n - fee \in Nat /\ fee <= n
<1>1. TradingFee(c) \in 0..BPS_DENOM
  BY ParamTypes DEF TradingFee
<1>2. FeeTake(n, TradingFee(c)) \in Nat /\ FeeTake(n, TradingFee(c)) <= n
  BY <1>1, FeeTakeBound
<1>. QED
  BY <1>2

\* What a trade moves: a floored part of the other side of the pair.
LEMMA BuyOutBounds ==
  ASSUME TypeOK, NEW i \in Ids, Launched(i), NEW net \in Nat
  PROVE  LET c == coin[i]
         IN  /\ BuyOut(c, net) \in Nat
             /\ BuyOut(c, net) * (XTotal(c) + net) <= YTotal(c) * net
<1> DEFINE c == coin[i]
<1>1. XTotal(c) + net \in Nat \ {0} /\ YTotal(c) \in Nat
  BY CoinTypes DEF XTotal, YTotal
<1>2. YTotal(c) * net \in Nat
  BY <1>1
<1>. QED
  BY <1>1, <1>2, DivBounds DEF BuyOut

LEMMA SellOutBounds ==
  ASSUME TypeOK, NEW i \in Ids, Launched(i), NEW t \in Nat \ {0}
  PROVE  LET c == coin[i]
         IN  /\ SellOut(c, t) \in Nat
             /\ SellOut(c, t) * (YTotal(c) + t) <= XTotal(c) * t
<1> DEFINE c == coin[i]
<1>1. XTotal(c) \in Nat /\ YTotal(c) + t \in Nat \ {0}
  BY CoinTypes DEF XTotal, YTotal
<1>2. XTotal(c) * t \in Nat
  BY <1>1
<1>. QED
  BY <1>1, <1>2, DivBounds DEF SellOut

-----------------------------------------------------------------------------
(* Type correctness: one lemma per operation.                              *)

\* An operation on one coin and the books.
LEMMA CoinMoves ==
  ASSUME TypeOK, NEW i \in Ids, NEW d \in Coins, NEW t \in Nat,
         coin' = [coin EXCEPT ![i] = d], tok' = [tok EXCEPT ![i] = t],
         books' \in Books,
         xel' \in 0..XelSupply,
         UNCHANGED <<config, params, count, ticker>>,
         moved' \in Seq(Ids)
  PROVE  TypeOK'
BY DEF TypeOK, Books

\* The slots a trade rewrites.
LEMMA TradedType ==
  ASSUME NEW c \in Coins, NEW xr \in Nat, NEW yr \in Nat, NEW bv \in Nat,
         NEW sv \in Nat, NEW vo \in Nat, NEW tc \in Nat
  PROVE  /\ [c EXCEPT !.xr = xr, !.yr = yr, !.bv = bv, !.vo = vo, !.tc = tc] \in Coins
         /\ [c EXCEPT !.xr = xr, !.yr = yr, !.sv = sv, !.vo = vo, !.tc = tc] \in Coins
BY DEF Coins

\* The numbers of coins, and how many there are.
LEMMA CountTypes ==
  /\ \A j \in Ids : j \in Nat
  /\ TypeOK => count \in Nat
  /\ TypeOK' => count' \in Nat
<1>1. MAX_COINS \in Nat
  BY CommunityConstants
<1>2. \A j \in Ids : j \in Nat
  BY <1>1 DEF Ids
<1>3. TypeOK => count \in Nat
  <2>1. TypeOK => count \in 0..MAX_COINS
    BY DEF TypeOK
  <2>. QED
    BY <1>1, <2>1
<1>4. TypeOK' => count' \in Nat
  <2>1. TypeOK' => count' \in 0..MAX_COINS
    BY DEF TypeOK
  <2>. QED
    BY <1>1, <2>1
<1>. QED
  BY <1>2, <1>3, <1>4

LEMMA BuyType ==
  ASSUME TypeOK, NEW i \in Ids, NEW dep \in Nat, NEW minOut \in Nat, Buy(i, dep, minOut)
  PROVE  TypeOK'
<1> DEFINE c      == coin[i]
           fee    == FeeTake(dep, TradingFee(c))
           net    == NetOf(dep, fee)
           out    == BuyOut(c, net)
           traded == [c EXCEPT !.xr = @ + net, !.yr = @ - out,
                               !.bv = @ + dep, !.vo = @ + dep, !.tc = @ + 1]
           d      == IF c.status = LIVE /\ Graduates(traded)
                       THEN Graduated(traded) ELSE traded
           b      == [BuyRecorded(Collected(books, fee), dep) EXCEPT !.tcx = @ + net]
<1>1. Launched(i) /\ c \in Coins
  BY CoinTypes DEF Buy, BuyGate, Trading
<1>2. fee \in Nat /\ net \in Nat
  BY <1>1, FeeSplits DEF NetOf
<1>3. out \in Nat /\ out <= c.yr
  BY <1>1, <1>2, BuyOutBounds DEF Buy
<1> HIDE DEF fee, net, out
<1>4. traded \in Coins
  <2>1. c.xr + net \in Nat /\ c.yr - out \in Nat
    BY <1>1, <1>2, <1>3, CoinTypes
  <2>2. c.bv + dep \in Nat /\ c.vo + dep \in Nat /\ c.tc + 1 \in Nat
    BY <1>1 DEF Coins
  <2> HIDE DEF c
  <2>. QED
    BY <1>1, <2>1, <2>2, TradedType
<1>5. d \in Coins
  BY <1>4, ZenonT(60) DEF Graduated, Coins, GRADUATED
<1>6. b \in Books
  <2> DEFINE e == BuyRecorded(Collected(books, fee), dep)
  <2>0. /\ Collected(books, fee) \in Books
        /\ Collected(books, fee).tcx = books.tcx
    BY <1>2, BookTypes, CollectedType
  <2>1. e \in Books /\ e.tcx = books.tcx
    BY <2>0, RecordedType
  <2>2. books.tcx + net \in Nat
    BY <1>2, BookTypes
  <2> HIDE DEF e
  <2>3. [e EXCEPT !.tcx = @ + net] = [e EXCEPT !.tcx = e.tcx + net]
    BY <2>1 DEF Books
  <2>. QED
    BY <2>1, <2>2, <2>3, CurvesType DEF e
<1>7. tok[i] - out \in Nat /\ xel + dep \in 0..XelSupply
  <2>1. out <= tok[i] /\ dep <= XelSupply - xel
    BY DEF Buy, XelOutside, out, net, fee
  <2>2. tok[i] \in Nat
    BY <1>1, CoinTypes
  <2>. QED
    BY <1>3, <2>1, <2>2, BookTypes
<1>8. /\ coin' = [coin EXCEPT ![i] = d] /\ tok' = [tok EXCEPT ![i] = tok[i] - out]
      /\ books' = b /\ xel' = xel + dep
      /\ UNCHANGED <<config, params, count, ticker, moved>>
  BY DEF Buy, out, net, fee
<1> HIDE DEF d, b
<1>. QED
  BY <1>5, <1>6, <1>7, <1>8, CoinMoves DEF TypeOK

LEMMA SellType ==
  ASSUME TypeOK, NEW i \in Ids, NEW dep \in Nat, NEW minOut \in Nat, Sell(i, dep, minOut)
  PROVE  TypeOK'
<1> DEFINE c     == coin[i]
           gross == SellOut(c, dep)
           fee   == FeeTake(gross, TradingFee(c))
           d     == [c EXCEPT !.xr = @ - gross, !.yr = @ + dep, !.sv = @ + gross,
                              !.vo = @ + gross, !.tc = @ + 1]
           b     == [SellRecorded(Collected(books, fee), gross) EXCEPT !.tcx = @ - gross]
<1>1. Launched(i) /\ c \in Coins /\ dep >= 1
  BY CoinTypes DEF Sell, SellAccepted, SellGate, Trading
<1>2. gross \in Nat
  BY <1>1, SellOutBounds
<1>3. fee \in Nat /\ gross - fee \in Nat
  <2> HIDE DEF gross, c
  <2>. QED
    BY <1>1, <1>2, FeeSplits
<1>4. /\ gross <= c.xr /\ gross <= books.tcx /\ gross - fee <= xel
  BY DEF Sell, SellAccepted
<1>5. /\ coin' = [coin EXCEPT ![i] = d] /\ tok' = [tok EXCEPT ![i] = tok[i] + dep]
      /\ books' = b /\ xel' = xel - (gross - fee)
      /\ UNCHANGED <<config, params, count, ticker, moved>>
  BY DEF Sell
<1> HIDE DEF gross, fee
<1>6. d \in Coins
  <2>1. c.xr - gross \in Nat /\ c.yr + dep \in Nat
    BY <1>1, <1>2, <1>4, CoinTypes
  <2>2. c.sv + gross \in Nat /\ c.vo + gross \in Nat /\ c.tc + 1 \in Nat
    BY <1>1, <1>2 DEF Coins
  <2> HIDE DEF c
  <2>. QED
    BY <1>1, <2>1, <2>2, TradedType
<1>7. b \in Books
  <2> DEFINE e == SellRecorded(Collected(books, fee), gross)
  <2>0. /\ Collected(books, fee) \in Books
        /\ Collected(books, fee).tcx = books.tcx
    BY <1>3, BookTypes, CollectedType
  <2>1. e \in Books /\ e.tcx = books.tcx
    BY <1>2, <2>0, RecordedType
  <2>2. books.tcx - gross \in Nat
    BY <1>2, <1>4, BookTypes
  <2> HIDE DEF e
  <2>3. [e EXCEPT !.tcx = @ - gross] = [e EXCEPT !.tcx = e.tcx - gross]
    BY <2>1 DEF Books
  <2>. QED
    BY <2>1, <2>2, <2>3, CurvesType DEF e
<1>8. tok[i] + dep \in Nat /\ xel - (gross - fee) \in 0..XelSupply
  <2>1. tok[i] \in Nat
    BY <1>1, CoinTypes
  <2>. QED
    BY <1>3, <1>4, <2>1, BookTypes
<1> HIDE DEF d, b
<1>. QED
  BY <1>5, <1>6, <1>7, <1>8, CoinMoves DEF TypeOK

LEMMA MigrateType ==
  ASSUME TypeOK, NEW i \in Ids, Migrate(i)
  PROVE  TypeOK'
<1> DEFINE c == coin[i]
           f == MigrationFee(c)
           b == [Collected(books, f) EXCEPT !.tcx = @ - c.xr]
<1>1. Launched(i) /\ c \in Coins /\ c.xr \in Nat /\ c.yr \in Nat
  BY CoinTypes DEF Migrate
<1>2. f \in Nat /\ f <= c.xr
  BY <1>1, ParamTypes, FeeTakeBound DEF MigrationFee
<1>3. /\ c.xr <= xel /\ c.yr + CreatorRemaining(c) <= tok[i] /\ c.xr <= books.tcx
  BY DEF Migrate
<1>4. CreatorRemaining(c) \in Nat /\ tok[i] \in Nat
  BY <1>1, RemainingType DEF TypeOK
<1>5. Seed(c).x \in Nat /\ Seed(c).x <= c.xr /\ Seed(c).y = c.yr
  BY <1>1, <1>2 DEF Seed
<1>6. Closed(c) \in Coins
  BY <1>1, <1>5 DEF Closed, Coins, MIGRATED
<1>7. b \in Books
  <2> DEFINE e == Collected(books, f)
  <2> HIDE DEF f
  <2>1. e \in Books /\ e.tcx = books.tcx
    BY <1>2, BookTypes, CollectedType
  <2>2. books.tcx - c.xr \in Nat
    BY <1>1, <1>3, BookTypes
  <2> HIDE DEF e
  <2>3. [e EXCEPT !.tcx = @ - c.xr] = [e EXCEPT !.tcx = e.tcx - c.xr]
    BY <2>1 DEF Books
  <2>. QED
    BY <2>1, <2>2, <2>3, CurvesType DEF e
<1>8. tok[i] - Seed(c).y \in Nat /\ xel - Seed(c).x \in 0..XelSupply
  BY <1>1, <1>3, <1>4, <1>5, BookTypes
<1>9. /\ coin' = [coin EXCEPT ![i] = Closed(c)]
      /\ tok' = [tok EXCEPT ![i] = tok[i] - Seed(c).y]
      /\ books' = b /\ xel' = xel - Seed(c).x /\ moved' = Append(moved, i)
      /\ UNCHANGED <<config, params, count, ticker>>
  BY DEF Migrate
<1>10. moved' \in Seq(Ids)
  BY <1>9 DEF TypeOK
<1> HIDE DEF b
<1>. QED
  BY <1>6, <1>7, <1>8, <1>9, <1>10, CoinMoves

LEMMA ClaimType ==
  ASSUME TypeOK, NEW u \in Wallets, NEW i \in Ids, ClaimCreatorAllocation(u, i)
  PROVE  TypeOK'
<1> DEFINE c   == coin[i]
           rem == CreatorRemaining(c)
           d   == [c EXCEPT !.paid = @ + rem]
<1>1. Launched(i) /\ c \in Coins /\ rem \in Nat /\ rem <= tok[i] /\ tok[i] \in Nat
  BY CoinTypes, RemainingType DEF ClaimCreatorAllocation
<1>2. /\ coin' = [coin EXCEPT ![i] = d] /\ tok' = [tok EXCEPT ![i] = tok[i] - rem]
      /\ UNCHANGED <<config, params, count, ticker, moved, books, xel>>
  BY DEF ClaimCreatorAllocation
<1> HIDE DEF rem
<1>3. d \in Coins /\ tok[i] - rem \in Nat
  BY <1>1 DEF Coins
<1> HIDE DEF d
<1>. QED
  BY <1>2, <1>3, CoinMoves DEF TypeOK

LEMMA UpdateType ==
  ASSUME TypeOK, NEW u \in Wallets, NEW i \in Ids, NEW info \in Infos, UpdateCoinInfo(u, i, info)
  PROVE  TypeOK'
<1>1. coin[i] \in Coins
  BY CoinTypes DEF UpdateCoinInfo
<1>2. [coin[i] EXCEPT !.info = info] \in Coins
  BY <1>1 DEF Coins
<1>. QED
  BY <1>2 DEF UpdateCoinInfo, TypeOK

LEMMA LaunchType ==
  ASSUME TypeOK, NEW u \in Wallets, NEW sym \in Symbols, NEW info \in Infos,
         NEW supply \in Nat, NEW bps \in Nat, NEW dep \in Nat, NEW cost \in Nat,
         LaunchCoin(u, sym, info, supply, bps, dep, cost)
  PROVE  TypeOK'
<1> DEFINE d == NewCoin(u, sym, info, supply, bps)
           b == Collected(books, params.subFee)
<1>1. count \in Ids /\ count + 1 \in 0..MAX_COINS
  BY CommunityConstants DEF LaunchCoin, TypeOK, Ids
<1>2. Inventory(supply, bps) \in Nat
  <2>1. bps \in 0..BPS_DENOM
    BY CommunityConstants DEF LaunchCoin
  <2>. QED
    BY <2>1, AllocBound
<1>3. d \in Coins
  <2>1. supply \in MIN_COIN_SUPPLY..MAX_COIN_SUPPLY /\ bps \in 0..MAX_CREATOR_BPS
    BY CommunityConstants DEF LaunchCoin
  <2>. QED
    BY <1>2, <2>1, ParamTypes DEF NewCoin, Coins, LIVE
<1>4. b \in Books
  BY ParamTypes, BookTypes, CollectedType
<1>5. xel + params.subFee \in 0..XelSupply
  BY ParamTypes, BookTypes DEF LaunchCoin, XelOutside
<1>6. /\ coin' = [coin EXCEPT ![count] = d] /\ tok' = [tok EXCEPT ![count] = supply]
      /\ ticker' = [ticker EXCEPT ![sym] = count] /\ count' = count + 1
      /\ books' = b /\ xel' = xel + params.subFee
      /\ UNCHANGED <<config, params, moved>>
  BY DEF LaunchCoin
<1> HIDE DEF d, b
<1>. QED
  BY <1>1, <1>3, <1>4, <1>5, <1>6 DEF TypeOK, Books

LEMMA GovernType ==
  ASSUME TypeOK, NEW u \in Wallets, Govern(u)
  PROVE  TypeOK'
<1>1. CASE \E n \in FeeArgs : SetCurveFee(u, n) \/ SetGraduatedFee(u, n) \/ SetMigrationFee(u, n)
  <2>1. PICK n \in Nat : SetCurveFee(u, n) \/ SetGraduatedFee(u, n) \/ SetMigrationFee(u, n)
    BY <1>1, CommunityConstants
  <2>2. params' \in Params
    <3>1. params \in Params
      BY DEF TypeOK
    <3>2. CASE SetCurveFee(u, n) \/ SetGraduatedFee(u, n)
      <4>1. n \in 0..MAX_FEE_BPS
        BY <3>2 DEF SetCurveFee, SetGraduatedFee, FeeWithin
      <4>. QED
        BY <3>1, <3>2, <4>1 DEF SetCurveFee, SetGraduatedFee, SetParam, Params
    <3>3. CASE SetMigrationFee(u, n)
      <4>1. n \in 0..MAX_MIGRATION_FEE_BPS
        BY <3>3 DEF SetMigrationFee, FeeWithin
      <4>. QED
        BY <3>1, <3>3, <4>1 DEF SetMigrationFee, SetParam, Params
    <3>. QED
      BY <2>1, <3>2, <3>3
  <2>. QED
    BY <2>1, <2>2 DEF SetCurveFee, SetGraduatedFee, SetMigrationFee, SetParam, TypeOK
<1>2. CASE \E n \in PriceArgs : \/ SetSubmissionFee(u, n) \/ SetAssetBudget(u, n)
                                \/ SetGraduationDepth(u, n) \/ SetVirtualXel(u, n)
  <2>1. PICK n \in Nat : \/ SetSubmissionFee(u, n) \/ SetAssetBudget(u, n)
                         \/ SetGraduationDepth(u, n) \/ SetVirtualXel(u, n)
    BY <1>2, CommunityConstants
  <2>2. params' \in Params
    <3>1. params \in Params
      BY DEF TypeOK
    <3>2. CASE SetSubmissionFee(u, n)
      BY <3>1, <3>2 DEF SetSubmissionFee, SetParam, Params
    <3>3. CASE SetAssetBudget(u, n)
      BY <3>1, <3>3 DEF SetAssetBudget, SetParam, Params
    <3>4. CASE SetGraduationDepth(u, n)
      <4>1. n \in MIN_GRADUATION_DEPTH..MAX_GRADUATION_DEPTH
        BY <3>4, CommunityConstants DEF SetGraduationDepth
      <4>. QED
        BY <3>1, <3>4, <4>1 DEF SetGraduationDepth, SetParam, Params
    <3>5. CASE SetVirtualXel(u, n)
      <4>1. n \in MIN_VIRTUAL_XEL..MAX_VIRTUAL_XEL
        BY <3>5, CommunityConstants DEF SetVirtualXel
      <4>. QED
        BY <3>1, <3>5, <4>1 DEF SetVirtualXel, SetParam, Params
    <3>. QED
      BY <2>1, <3>2, <3>3, <3>4, <3>5
  <2>. QED
    BY <2>1, <2>2 DEF SetSubmissionFee, SetAssetBudget, SetGraduationDepth, SetVirtualXel,
                      SetParam, TypeOK
<1>3. CASE \/ \E v \in AddrArgs : SetAdmin(u, v)
           \/ \E v \in DexArgs : SetDexAddress(u, v)
           \/ \E flag \in FlagArgs : SetPaused(u, flag)
  BY <1>3, CommunityConstants, ZenonT(60) DEF SetAdmin, SetDexAddress, SetPaused, TypeOK
<1>4. CASE \E n \in Deposits : WithdrawFees(u, n)
  <2>1. PICK n \in Nat : WithdrawFees(u, n)
    BY <1>4, CommunityConstants
  <2>2. books.pfe - n \in Nat /\ xel - n \in 0..XelSupply
    BY <2>1, BookTypes DEF WithdrawFees
  <2>. QED
    BY <2>1, <2>2 DEF WithdrawFees, TypeOK
<1>. QED
  BY <1>1, <1>2, <1>3, <1>4 DEF Govern

LEMMA StrayType ==
  ASSUME TypeOK, NEW n \in StrayArgs,
         StrayXel(n) \/ \E i \in Ids : StrayTokens(i, n)
  PROVE  TypeOK'
<1>1. n \in Nat
  BY CommunityConstants
<1>. QED
  <2>1. CASE StrayXel(n)
    <3>1. xel + n \in 0..XelSupply
      BY <1>1, <2>1, BookTypes DEF StrayXel, XelOutside
    <3>. QED
      BY <2>1, <3>1 DEF StrayXel, TypeOK
  <2>2. CASE \E i \in Ids : StrayTokens(i, n)
    BY <1>1, <2>2 DEF StrayTokens, TypeOK
  <2>. QED
    BY <2>1, <2>2

LEMMA InitType == Init => TypeOK
<1> SUFFICES ASSUME Init
             PROVE  TypeOK
  OBVIOUS
<1>1. count \in 0..MAX_COINS /\ xel \in 0..XelSupply
  BY CommunityConstants DEF Init
<1>. QED
  BY <1>1, CommunityConstants DEF Init, TypeOK

LEMMA StepType == TypeOK /\ [Next]_vars => TypeOK'
<1> SUFFICES ASSUME TypeOK, [Next]_vars
             PROVE  TypeOK'
  OBVIOUS
<1>1. CASE Launch
  BY <1>1, CommunityConstants, LaunchType DEF Launch
<1>2. CASE \E i \in Ids : Trade(i)
  BY <1>2, CommunityConstants, BuyType, SellType DEF Trade
<1>3. CASE \E i \in Ids : Migrate(i)
  BY <1>3, MigrateType
<1>4. CASE \E u \in Wallets, i \in Ids : ClaimCreatorAllocation(u, i)
  BY <1>4, ClaimType
<1>5. CASE \E u \in Wallets, i \in Ids, info \in Infos : UpdateCoinInfo(u, i, info)
  BY <1>5, UpdateType
<1>6. CASE \E u \in Wallets : Govern(u)
  BY <1>6, GovernType
<1>7. CASE \E n \in StrayArgs : StrayXel(n) \/ \E i \in Ids : StrayTokens(i, n)
  BY <1>7, StrayType
<1>8. CASE UNCHANGED vars
  BY <1>8 DEF vars, TypeOK
<1>. QED
  BY <1>1, <1>2, <1>3, <1>4, <1>5, <1>6, <1>7, <1>8 DEF Next

\* In every reachable state each slot of the contract is of its type: no
\* subtraction of the entries ever goes below zero.
THEOREM Typed == Spec => []TypeOK
BY InitType, StepType, PTL DEF Spec

-----------------------------------------------------------------------------
(* The books of the contract and of each curve.                            *)

\* A curve opens on the pair (vx, 2 * y0); no trade takes from the product.
Whole(c) == XTotal(c) * YTotal(c) >= c.vx * (2 * c.y0)

\* A coin whose asset the contract holds t units of.  Solvency alone is not
\* inductive: that a trading coin's creator was paid nothing, that its inventory
\* is what the creator was not promised and that its pair is whole is what keeps
\* a sell within what circulates and its payout within the reserve.
Sound(c, t) ==
  LET alloc == CreatorAlloc(c.supply, c.bps)
  IN  /\ c.y0 = Inventory(c.supply, c.bps)
      /\ c.paid <= alloc /\ c.yr + alloc - c.paid <= t /\ t <= c.supply
      /\ c.status # MIGRATED => c.paid = 0 /\ Whole(c)
      /\ c.status # MIGRATED /\ c.tc = 0 => c.xr = 0 /\ c.yr = c.y0
      /\ c.status = LIVE => ~Graduates(c)

BookInv ==
  /\ XelSolvency
  /\ \A i \in Ids : Launched(i) => i < count /\ Sound(coin[i], tok[i])

\* An operation on one coin keeps the books if it keeps that coin's and moves the
\* curves' total by what it moves the coin's reserve.
LEMMA Entered ==
  ASSUME TypeOK, TypeOK', BookInv, NEW i \in Ids, NEW d \in Coins, NEW t \in Nat,
         coin' = [coin EXCEPT ![i] = d], tok' = [tok EXCEPT ![i] = t],
         count <= count', i < count', Sound(d, t),
         books'.tcx = books.tcx - Slot(i, "xr") + d.xr,
         books'.tcx + books'.pfe <= xel'
  PROVE  BookInv'
<1> DEFINE f == [j \in Ids |-> Slot(j, "xr")]
           g == [j \in Ids |-> Slot(j, "xr")']
<1>1. coin'[i] = d /\ tok'[i] = t /\ d # None
      /\ \A j \in Ids \ {i} : coin'[j] = coin[j] /\ tok'[j] = tok[j]
  BY NoneIsNoCoin DEF TypeOK
<1>2. f \in [Ids -> Nat] /\ g \in [Ids -> Nat]
  <2>1. \A j \in Ids : Slot(j, "xr") \in Nat
    BY CoinTypes DEF Slot
  <2>2. d.xr \in Nat
    BY DEF Coins
  <2>3. \A j \in Ids : Slot(j, "xr")' \in Nat
    BY <1>1, <2>1, <2>2 DEF Slot, Launched
  <2>. QED
    BY <2>1, <2>3
<1>3. (\A j \in Ids \ {i} : g[j] = f[j]) /\ g[i] = d.xr /\ f[i] = Slot(i, "xr")
  BY <1>1 DEF Slot, Launched
<1>4. books.tcx = Total(f)
  BY DEF BookInv, XelSolvency
<1> HIDE DEF f, g
<1>5. Total(g) = Total(f) - f[i] + g[i]
  <2>1. IsFiniteSet(Ids)
    BY CommunityConstants, FS_Interval DEF Ids
  <2>. QED
    BY <1>2, <1>3, <2>1, TotalUpdate
<1>6. books'.tcx = Total(g)
  BY <1>3, <1>4, <1>5
<1>7. XelSolvency'
  BY <1>6 DEF XelSolvency, g
<1>8. ASSUME NEW j \in Ids, Launched(j)'
      PROVE  j < count' /\ Sound(coin'[j], tok'[j])
  <2>1. CASE j = i
    BY <1>1, <2>1
  <2>2. CASE j # i
    <3>1. Launched(j) /\ coin'[j] = coin[j] /\ tok'[j] = tok[j]
      BY <1>1, <1>8, <2>2 DEF Launched
    <3>2. j < count /\ Sound(coin[j], tok[j])
      BY <3>1 DEF BookInv
    <3>3. j \in Nat /\ count \in Nat /\ count' \in Nat
      BY CountTypes
    <3>4. j < count'
      BY <1>1, <3>2, <3>3
    <3>. QED
      BY <3>1, <3>2, <3>4
  <2>. QED
    BY <2>1, <2>2
<1>. QED
  BY <1>7, <1>8 DEF BookInv

-----------------------------------------------------------------------------
(* What a trade does to a curve.                                           *)

\* Paying at most the curve's price never shrinks the product.
LEMMA ProductGrows ==
  ASSUME NEW x \in Nat, NEW y \in Nat, NEW n \in Nat, NEW out \in Nat,
         out <= y, out * (x + n) <= y * n
  PROVE  (x + n) * (y - out) >= x * y
<1>1. (x + n) * (y - out) = (x + n) * y - (x + n) * out
  OBVIOUS
<1>2. (x + n) * y = x * y + y * n /\ (x + n) * out = out * (x + n)
  OBVIOUS
<1>3. x * y \in Nat /\ y * n \in Nat /\ out * (x + n) \in Nat
  OBVIOUS
<1>. QED
  BY <1>1, <1>2, <1>3

\* What the graduation of a coin rewrites of it, and what it leaves.
LEMMA Graduating ==
  ASSUME NEW t \in Coins
  PROVE  LET d == IF t.status = LIVE /\ Graduates(t) THEN Graduated(t) ELSE t
         IN  /\ d \in Coins /\ d.xr = t.xr /\ d.yr = t.yr /\ d.tc = t.tc
             /\ d.supply = t.supply /\ d.bps = t.bps /\ d.y0 = t.y0
             /\ d.vx = t.vx /\ d.gx = t.gx /\ d.paid = t.paid
             /\ (d.status = MIGRATED <=> t.status = MIGRATED)
             /\ (d.status = LIVE => ~Graduates(d))
<1>1. /\ Graduated(t) \in Coins /\ Graduated(t).status = GRADUATED
      /\ Graduated(t).xr = t.xr /\ Graduated(t).yr = t.yr /\ Graduated(t).tc = t.tc
      /\ Graduated(t).supply = t.supply /\ Graduated(t).bps = t.bps
      /\ Graduated(t).y0 = t.y0 /\ Graduated(t).vx = t.vx
      /\ Graduated(t).gx = t.gx /\ Graduated(t).paid = t.paid
  BY DEF Graduated, Coins, GRADUATED
<1>2. LIVE # GRADUATED /\ LIVE # MIGRATED /\ GRADUATED # MIGRATED
  BY DEF LIVE, GRADUATED, MIGRATED
<1>3. CASE t.status = LIVE /\ Graduates(t)
  BY <1>1, <1>2, <1>3
<1>4. CASE ~(t.status = LIVE /\ Graduates(t))
  BY <1>4
<1>. QED
  BY <1>3, <1>4

LEMMA BuyEntered ==
  ASSUME TypeOK, TypeOK', BookInv, NEW i \in Ids, NEW dep \in Nat, NEW minOut \in Nat,
         Buy(i, dep, minOut)
  PROVE  BookInv'
<1> DEFINE c      == coin[i]
           fee    == FeeTake(dep, TradingFee(c))
           net    == NetOf(dep, fee)
           out    == BuyOut(c, net)
           xr     == c.xr + net
           yr     == c.yr - out
           traded == [c EXCEPT !.xr = @ + net, !.yr = @ - out,
                               !.bv = @ + dep, !.vo = @ + dep, !.tc = @ + 1]
           d      == IF c.status = LIVE /\ Graduates(traded)
                       THEN Graduated(traded) ELSE traded
           b      == [BuyRecorded(Collected(books, fee), dep) EXCEPT !.tcx = @ + net]
<1>1. /\ Launched(i) /\ c \in Coins /\ c.status # MIGRATED /\ Sound(c, tok[i])
      /\ i < count
  BY CoinTypes DEF Buy, BuyGate, Trading, BookInv, LIVE, GRADUATED, MIGRATED
<1>2. /\ c.xr \in Nat /\ c.yr \in Nat /\ c.y0 \in Nat /\ c.vx \in Nat
      /\ c.paid \in Nat /\ tok[i] \in Nat
      /\ c.bv \in Nat /\ c.vo \in Nat /\ c.tc \in Nat
  <2>1. c.bv \in Nat /\ c.vo \in Nat /\ c.tc \in Nat
    BY <1>1 DEF Coins
  <2>. QED
    BY <1>1, <2>1, CoinTypes
<1>3. fee \in Nat /\ net \in Nat /\ net + fee = dep
  BY <1>1, FeeSplits DEF NetOf
<1>4. out \in Nat /\ out * (XTotal(c) + net) <= YTotal(c) * net
  <2> HIDE DEF net
  <2>. QED
    BY <1>1, <1>3, BuyOutBounds
<1>5. /\ out <= c.yr /\ out <= tok[i] /\ books' = b /\ xel' = xel + dep
      /\ coin' = [coin EXCEPT ![i] = d] /\ tok' = [tok EXCEPT ![i] = tok[i] - out]
      /\ count' = count
  BY DEF Buy
<1> HIDE DEF fee, net, out
<1>6. traded = [c EXCEPT !.xr = xr, !.yr = yr, !.bv = c.bv + dep, !.vo = c.vo + dep,
                         !.tc = c.tc + 1]
  BY <1>1 DEF Coins
<1>7. xr \in Nat /\ yr \in Nat /\ c.bv + dep \in Nat /\ c.vo + dep \in Nat /\ c.tc + 1 \in Nat
  BY <1>2, <1>3, <1>4, <1>5
<1>8. /\ d \in Coins /\ d.xr = xr /\ d.yr = yr /\ d.tc = c.tc + 1
      /\ d.supply = c.supply /\ d.bps = c.bps /\ d.y0 = c.y0
      /\ d.vx = c.vx /\ d.gx = c.gx /\ d.paid = c.paid
      /\ (d.status = MIGRATED <=> c.status = MIGRATED)
      /\ (d.status = LIVE => ~Graduates(d))
  <2> DEFINE bv == c.bv + dep
             vo == c.vo + dep
             tc == c.tc + 1
  <2>0. bv \in Nat /\ vo \in Nat /\ tc \in Nat
    BY <1>7
  <2>1. traded = [c EXCEPT !.xr = xr, !.yr = yr, !.bv = bv, !.vo = vo, !.tc = tc]
    BY <1>6
  <2> HIDE DEF traded, xr, yr, bv, vo, tc, c
  <2>2. traded \in Coins
    BY <1>1, <1>7, <2>0, <2>1, TradedType
  <2>3. /\ traded.xr = xr /\ traded.yr = yr /\ traded.tc = tc
        /\ traded.supply = c.supply /\ traded.bps = c.bps /\ traded.y0 = c.y0
        /\ traded.vx = c.vx /\ traded.gx = c.gx /\ traded.paid = c.paid
        /\ traded.status = c.status
    BY <1>1, <2>1 DEF Coins
  <2>4. d = IF traded.status = LIVE /\ Graduates(traded) THEN Graduated(traded) ELSE traded
    BY <2>3 DEF c
  <2> HIDE DEF d
  <2>. QED
    BY <2>2, <2>3, <2>4, Graduating DEF tc
<1>9. b.tcx = books.tcx + net /\ b.pfe = books.pfe + fee
  <2> DEFINE k == Collected(books, fee)
             e == BuyRecorded(k, dep)
             m == books.tcx + net
  <2>1. k \in Books /\ k.tcx = books.tcx /\ k.pfe = books.pfe + fee
    BY <1>3, BookTypes, CollectedType
  <2> HIDE DEF k
  <2>2. e \in Books /\ e.tcx = books.tcx /\ e.pfe = books.pfe + fee
    BY <2>1, RecordedType
  <2> HIDE DEF e
  <2>3. [e EXCEPT !.tcx = @ + net] = [e EXCEPT !.tcx = m] /\ m \in Nat
    BY <1>3, <2>2, BookTypes DEF Books
  <2> HIDE DEF m
  <2>. QED
    BY <2>2, <2>3, CurvesType DEF e, k, m
<1> HIDE DEF d, b, traded
<1>10. Sound(d, tok[i] - out)
  <2> DEFINE alloc == CreatorAlloc(c.supply, c.bps)
  <2>1. alloc \in Nat
    BY <1>1, CoinTypes, AllocBound
  <2> HIDE DEF alloc
  <2>2. /\ d.y0 = Inventory(d.supply, d.bps)
        /\ d.paid <= CreatorAlloc(d.supply, d.bps)
        /\ d.yr + CreatorAlloc(d.supply, d.bps) - d.paid <= tok[i] - out
        /\ tok[i] - out <= d.supply /\ d.paid = 0
    <3>1. /\ c.y0 = Inventory(c.supply, c.bps) /\ c.paid <= alloc
          /\ c.yr + alloc - c.paid <= tok[i] /\ tok[i] <= c.supply /\ c.paid = 0
      BY <1>1 DEF Sound, alloc
    <3>2. c.supply \in Nat
      BY <1>1, CoinTypes
    <3>. QED
      BY <1>2, <1>4, <1>5, <1>8, <2>1, <3>1, <3>2 DEF alloc
  <2>3. Whole(d)
    <3> DEFINE x == c.xr + c.vx
               y == c.yr + c.y0
    <3>1. x \in Nat /\ y \in Nat /\ out <= y /\ out * (x + net) <= y * net
      BY <1>2, <1>4, <1>5 DEF XTotal, YTotal
    <3>2. x * y >= c.vx * (2 * c.y0)
      BY <1>1 DEF Sound, Whole, XTotal, YTotal
    <3> HIDE DEF x, y
    <3>3. (x + net) * (y - out) >= x * y
      BY <1>3, <1>4, <3>1, ProductGrows
    <3>4. XTotal(d) = x + net /\ YTotal(d) = y - out
      BY <1>2, <1>3, <1>4, <1>8 DEF XTotal, YTotal, x, y
    <3>5. (x + net) * (y - out) \in Int /\ x * y \in Int /\ c.vx * (2 * c.y0) \in Int
      BY <1>2, <1>3, <1>4, <3>1
    <3>. QED
      BY <1>8, <3>2, <3>3, <3>4, <3>5 DEF Whole
  <2>4. d.tc # 0
    BY <1>2, <1>8
  <2>. QED
    BY <1>8, <2>2, <2>3, <2>4 DEF Sound
<1>11. Slot(i, "xr") = c.xr
  BY <1>1 DEF Slot
<1>12. /\ books'.tcx = books.tcx - Slot(i, "xr") + d.xr
       /\ books'.tcx + books'.pfe <= xel'
  BY <1>2, <1>3, <1>5, <1>8, <1>9, <1>11, BookTypes DEF BookInv, XelSolvency
<1>13. tok[i] - out \in Nat /\ count \in Nat
  BY <1>2, <1>4, <1>5, CommunityConstants DEF TypeOK
<1> DEFINE t == tok[i] - out
<1>14. Sound(d, t) /\ t \in Nat /\ tok' = [tok EXCEPT ![i] = t]
  BY <1>5, <1>10, <1>13
<1>15. count <= count' /\ i < count'
  BY <1>1, <1>5, <1>13
<1> HIDE DEF t
<1>. QED
  BY <1>5, <1>8, <1>12, <1>14, <1>15, Entered

\* A sell takes a live coin away from its graduation point.
LEMMA SellAway ==
  ASSUME NEW xr \in Nat, NEW yr \in Nat, NEW y0 \in Nat, NEW vx \in Nat, NEW gx \in Nat,
         NEW out \in Nat, NEW t \in Nat, out <= xr,
         ~(xr >= gx /\ xr * y0 >= yr * vx)
  PROVE  ~(xr - out >= gx /\ (xr - out) * y0 >= (yr + t) * vx)
<1>1. (xr - out) * y0 = xr * y0 - out * y0 /\ (yr + t) * vx = yr * vx + t * vx
  OBVIOUS
<1>2. /\ xr * y0 \in Nat /\ out * y0 \in Nat /\ yr * vx \in Nat /\ t * vx \in Nat
  OBVIOUS
<1>. QED
  BY <1>1, <1>2

LEMMA SellEntered ==
  ASSUME TypeOK, TypeOK', BookInv, NEW i \in Ids, NEW dep \in Nat, NEW minOut \in Nat,
         Sell(i, dep, minOut)
  PROVE  BookInv'
<1> DEFINE c     == coin[i]
           gross == SellOut(c, dep)
           fee   == FeeTake(gross, TradingFee(c))
           d     == [c EXCEPT !.xr = @ - gross, !.yr = @ + dep, !.sv = @ + gross,
                              !.vo = @ + gross, !.tc = @ + 1]
           b     == [SellRecorded(Collected(books, fee), gross) EXCEPT !.tcx = @ - gross]
           t     == tok[i] + dep
<1>1. /\ Launched(i) /\ c \in Coins /\ c.status # MIGRATED /\ Sound(c, tok[i])
      /\ i < count /\ dep >= 1
  BY CoinTypes DEF Sell, SellAccepted, SellGate, Trading, BookInv, LIVE, GRADUATED, MIGRATED
<1>2. /\ c.xr \in Nat /\ c.yr \in Nat /\ c.y0 \in Nat /\ c.vx \in Nat /\ c.gx \in Nat
      /\ c.paid \in Nat /\ tok[i] \in Nat
      /\ c.sv \in Nat /\ c.vo \in Nat /\ c.tc \in Nat
  <2>1. c.sv \in Nat /\ c.vo \in Nat /\ c.tc \in Nat
    BY <1>1 DEF Coins
  <2>. QED
    BY <1>1, <2>1, CoinTypes
<1>3. gross \in Nat /\ gross * (YTotal(c) + dep) <= XTotal(c) * dep
  BY <1>1, SellOutBounds
<1>4. fee \in Nat /\ gross - fee \in Nat
  <2> HIDE DEF gross, c
  <2>. QED
    BY <1>1, <1>3, FeeSplits
<1>5. /\ gross <= c.xr /\ gross <= books.tcx /\ gross - fee <= xel
      /\ dep <= c.supply - tok[i]
      /\ books' = b /\ xel' = xel - (gross - fee) /\ count' = count
      /\ coin' = [coin EXCEPT ![i] = d] /\ tok' = [tok EXCEPT ![i] = t]
  BY DEF Sell, SellAccepted, TokOutside
<1> HIDE DEF gross, fee
<1>6. /\ d \in Coins /\ d.xr = c.xr - gross /\ d.yr = c.yr + dep /\ d.tc = c.tc + 1
      /\ d.supply = c.supply /\ d.bps = c.bps /\ d.y0 = c.y0
      /\ d.vx = c.vx /\ d.gx = c.gx /\ d.paid = c.paid /\ d.status = c.status
  <2> DEFINE xr == c.xr - gross
             yr == c.yr + dep
             sv == c.sv + gross
             vo == c.vo + gross
             tc == c.tc + 1
  <2>0. xr \in Nat /\ yr \in Nat /\ sv \in Nat /\ vo \in Nat /\ tc \in Nat
    BY <1>2, <1>3, <1>5
  <2>1. d = [c EXCEPT !.xr = xr, !.yr = yr, !.sv = sv, !.vo = vo, !.tc = tc]
    BY <1>1 DEF Coins
  <2> HIDE DEF d, xr, yr, sv, vo, tc, c
  <2>2. d \in Coins
    BY <1>1, <2>0, <2>1, TradedType
  <2>3. /\ d.xr = xr /\ d.yr = yr /\ d.tc = tc
        /\ d.supply = c.supply /\ d.bps = c.bps /\ d.y0 = c.y0
        /\ d.vx = c.vx /\ d.gx = c.gx /\ d.paid = c.paid /\ d.status = c.status
    BY <1>1, <2>1 DEF Coins
  <2>. QED
    BY <2>2, <2>3 DEF xr, yr, tc
<1>7. b.tcx = books.tcx - gross /\ b.pfe = books.pfe + fee
  <2> DEFINE k == Collected(books, fee)
             e == SellRecorded(k, gross)
             m == books.tcx - gross
  <2>1. k \in Books /\ k.tcx = books.tcx /\ k.pfe = books.pfe + fee
    BY <1>4, BookTypes, CollectedType
  <2> HIDE DEF k
  <2>2. e \in Books /\ e.tcx = books.tcx /\ e.pfe = books.pfe + fee
    BY <1>3, <2>1, RecordedType
  <2> HIDE DEF e
  <2>3. [e EXCEPT !.tcx = @ - gross] = [e EXCEPT !.tcx = m] /\ m \in Nat
    BY <1>3, <1>5, <2>2, BookTypes DEF Books
  <2> HIDE DEF m
  <2>. QED
    BY <2>2, <2>3, CurvesType DEF e, k, m
<1> HIDE DEF d, b
<1>8. Sound(d, t)
  <2> DEFINE alloc == CreatorAlloc(c.supply, c.bps)
  <2>1. alloc \in Nat /\ c.supply \in Nat
    BY <1>1, CoinTypes, AllocBound
  <2> HIDE DEF alloc
  <2>2. /\ d.y0 = Inventory(d.supply, d.bps)
        /\ d.paid <= CreatorAlloc(d.supply, d.bps)
        /\ d.yr + CreatorAlloc(d.supply, d.bps) - d.paid <= t
        /\ t <= d.supply /\ d.paid = 0
    <3>1. /\ c.y0 = Inventory(c.supply, c.bps) /\ c.paid <= alloc
          /\ c.yr + alloc - c.paid <= tok[i] /\ tok[i] <= c.supply /\ c.paid = 0
      BY <1>1 DEF Sound, alloc
    <3>. QED
      BY <1>2, <1>5, <1>6, <2>1, <3>1 DEF alloc
  <2>3. Whole(d)
    <3> DEFINE x == c.xr + c.vx
               y == c.yr + c.y0
    <3>1. x \in Nat /\ y \in Nat /\ gross <= x /\ gross * (y + dep) <= x * dep
      BY <1>2, <1>3, <1>5 DEF XTotal, YTotal
    <3>2. x * y >= c.vx * (2 * c.y0)
      BY <1>1 DEF Sound, Whole, XTotal, YTotal
    <3> HIDE DEF x, y
    <3>3. (y + dep) * (x - gross) >= y * x
      BY <1>3, <3>1, ProductGrows
    <3>4. XTotal(d) = x - gross /\ YTotal(d) = y + dep
      BY <1>2, <1>3, <1>6 DEF XTotal, YTotal, x, y
    <3>5. /\ (x - gross) * (y + dep) \in Int /\ x * y \in Int /\ c.vx * (2 * c.y0) \in Int
          /\ (x - gross) * (y + dep) = (y + dep) * (x - gross) /\ x * y = y * x
      BY <1>2, <1>3, <3>1
    <3>. QED
      BY <1>6, <3>2, <3>3, <3>4, <3>5 DEF Whole
  <2>4. d.tc # 0
    BY <1>2, <1>6
  <2>5. ~Graduates(c) => ~Graduates(d)
    <3> SUFFICES ASSUME ~Graduates(c)  PROVE ~Graduates(d)
      OBVIOUS
    <3>1. ~(c.xr >= c.gx /\ c.xr * c.y0 >= c.yr * c.vx)
      BY DEF Graduates
    <3> HIDE DEF c
    <3>2. ~(c.xr - gross >= c.gx /\ (c.xr - gross) * c.y0 >= (c.yr + dep) * c.vx)
      BY <1>2, <1>3, <1>5, <3>1, SellAway
    <3>. QED
      BY <1>6, <3>2 DEF Graduates
  <2>6. d.status = LIVE => ~Graduates(d)
    BY <1>1, <1>6, <2>5 DEF Sound
  <2>. QED
    BY <2>2, <2>3, <2>4, <2>6 DEF Sound
<1>9. Slot(i, "xr") = c.xr
  BY <1>1 DEF Slot
<1>10. /\ books'.tcx = books.tcx - Slot(i, "xr") + d.xr
       /\ books'.tcx + books'.pfe <= xel'
  BY <1>2, <1>3, <1>4, <1>5, <1>6, <1>7, <1>9, BookTypes DEF BookInv, XelSolvency
<1>11. t \in Nat /\ count <= count' /\ i < count'
  <2>1. count \in Nat /\ i \in Nat
    BY CountTypes
  <2>2. tok[i] \in Nat /\ i < count /\ count' = count
    BY <1>1, <1>2, <1>5
  <2>. QED
    BY <1>1, <1>2, <2>1, <2>2
<1> HIDE DEF t
<1>. QED
  BY <1>5, <1>6, <1>8, <1>10, <1>11, Entered

LEMMA MigrateEntered ==
  ASSUME TypeOK, TypeOK', BookInv, NEW i \in Ids, Migrate(i)
  PROVE  BookInv'
<1> DEFINE c == coin[i]
           d == Closed(c)
           f == MigrationFee(c)
           b == [Collected(books, f) EXCEPT !.tcx = @ - c.xr]
           t == tok[i] - Seed(c).y
<1>1. Launched(i) /\ c \in Coins /\ Sound(c, tok[i]) /\ i < count /\ c.status # MIGRATED
  BY CoinTypes DEF Migrate, BookInv, GRADUATED, MIGRATED
<1>2. /\ c.xr \in Nat /\ c.yr \in Nat /\ c.paid \in Nat /\ tok[i] \in Nat
      /\ c.supply \in Nat
  BY <1>1, CoinTypes
<1>3. f \in Nat /\ f <= c.xr
  BY <1>2, ParamTypes, FeeTakeBound DEF MigrationFee
<1>4. /\ c.xr <= books.tcx /\ c.xr <= xel /\ books' = b
      /\ xel' = xel - Seed(c).x /\ count' = count
      /\ coin' = [coin EXCEPT ![i] = d] /\ tok' = [tok EXCEPT ![i] = t]
  BY DEF Migrate
<1>5. Seed(c).x = c.xr - f /\ Seed(c).x \in Nat /\ Seed(c).y = c.yr
  BY <1>2, <1>3 DEF Seed
<1>6. /\ d \in Coins /\ d.xr = 0 /\ d.yr = 0 /\ d.status = MIGRATED
      /\ d.supply = c.supply /\ d.bps = c.bps /\ d.y0 = c.y0 /\ d.paid = c.paid
  <2> DEFINE mx == Seed(c).x
             mt == Seed(c).y
  <2>1. d = [c EXCEPT !.mi = TRUE, !.status = MIGRATED, !.mx = mx, !.mt = mt,
                      !.xr = 0, !.yr = 0]
    BY DEF Closed
  <2>2. mx \in Nat /\ mt \in Nat
    BY <1>2, <1>5
  <2> HIDE DEF d, c, mx, mt
  <2>3. d \in Coins
    BY <1>1, <2>1, <2>2 DEF Coins, MIGRATED
  <2>4. /\ d.xr = 0 /\ d.yr = 0 /\ d.status = MIGRATED
        /\ d.supply = c.supply /\ d.bps = c.bps /\ d.y0 = c.y0 /\ d.paid = c.paid
    BY <1>1, <2>1 DEF Coins
  <2>. QED
    BY <2>3, <2>4
<1>7. b.tcx = books.tcx - c.xr /\ b.pfe = books.pfe + f
  <2> DEFINE e == Collected(books, f)
             m == books.tcx - c.xr
  <2> HIDE DEF f
  <2>1. e \in Books /\ e.tcx = books.tcx /\ e.pfe = books.pfe + f
    BY <1>3, BookTypes, CollectedType
  <2> HIDE DEF e
  <2>2. [e EXCEPT !.tcx = @ - c.xr] = [e EXCEPT !.tcx = m] /\ m \in Nat
    BY <1>2, <1>4, <2>1, BookTypes DEF Books
  <2> HIDE DEF m
  <2>. QED
    BY <2>1, <2>2, CurvesType DEF e, m
<1> HIDE DEF d, b, f
<1>8. Sound(d, t) /\ t \in Nat
  <2> DEFINE alloc == CreatorAlloc(c.supply, c.bps)
  <2>1. alloc \in Nat
    BY <1>1, CoinTypes, AllocBound
  <2> HIDE DEF alloc
  <2>2. /\ c.y0 = Inventory(c.supply, c.bps) /\ c.paid <= alloc
        /\ c.yr + alloc - c.paid <= tok[i] /\ tok[i] <= c.supply
    BY <1>1 DEF Sound, alloc
  <2>3. t \in Nat /\ 0 + alloc - c.paid <= t /\ t <= c.supply
    BY <1>2, <1>5, <2>1, <2>2
  <2>4. LIVE # MIGRATED
    BY DEF LIVE, MIGRATED
  <2> HIDE DEF t
  <2>. QED
    BY <1>6, <2>2, <2>3, <2>4 DEF Sound, alloc
<1>9. Slot(i, "xr") = c.xr
  BY <1>1 DEF Slot
<1>10. /\ books'.tcx = books.tcx - Slot(i, "xr") + d.xr
       /\ books'.tcx + books'.pfe <= xel'
  BY <1>2, <1>3, <1>4, <1>5, <1>6, <1>7, <1>9, BookTypes DEF BookInv, XelSolvency
<1>11. count <= count' /\ i < count'
  BY <1>1, <1>4, CommunityConstants DEF TypeOK
<1> HIDE DEF t
<1>. QED
  BY <1>4, <1>6, <1>8, <1>10, <1>11, Entered

LEMMA ClaimEntered ==
  ASSUME TypeOK, TypeOK', BookInv, NEW u \in Wallets, NEW i \in Ids,
         ClaimCreatorAllocation(u, i)
  PROVE  BookInv'
<1> DEFINE c   == coin[i]
           rem == CreatorRemaining(c)
           p   == c.paid + rem
           d   == [c EXCEPT !.paid = @ + rem]
           t   == tok[i] - rem
<1>1. Launched(i) /\ c \in Coins /\ Sound(c, tok[i]) /\ i < count /\ c.status = MIGRATED
  BY CoinTypes DEF ClaimCreatorAllocation, ClaimUnlocked, BookInv
<1>2. /\ c.xr \in Nat /\ c.yr \in Nat /\ c.paid \in Nat /\ tok[i] \in Nat
      /\ rem \in Nat /\ rem <= tok[i]
  BY <1>1, CoinTypes, RemainingType DEF ClaimCreatorAllocation
<1>3. /\ coin' = [coin EXCEPT ![i] = d] /\ tok' = [tok EXCEPT ![i] = t]
      /\ UNCHANGED <<count, books, xel>>
  BY DEF ClaimCreatorAllocation
<1>4. /\ d \in Coins /\ d.paid = p /\ d.xr = c.xr /\ d.yr = c.yr /\ d.status = c.status
      /\ d.supply = c.supply /\ d.bps = c.bps /\ d.y0 = c.y0
  <2> DEFINE r == rem
  <2> HIDE DEF c, r
  <2>. QED
    BY <1>1, <1>2 DEF Coins, r
<1>5. Sound(d, t) /\ t \in Nat
  <2> DEFINE alloc == CreatorAlloc(c.supply, c.bps)
  <2>1. alloc \in Nat /\ c.supply \in Nat
    BY <1>1, CoinTypes, AllocBound
  <2>2. rem = IF c.paid >= alloc THEN 0 ELSE alloc - c.paid
    BY DEF CreatorRemaining
  <2> HIDE DEF alloc, rem
  <2>3. /\ c.y0 = Inventory(c.supply, c.bps) /\ c.paid <= alloc
        /\ c.yr + alloc - c.paid <= tok[i] /\ tok[i] <= c.supply
    BY <1>1 DEF Sound, alloc
  <2>4. t \in Nat /\ p <= alloc /\ c.yr + alloc - p <= t /\ t <= c.supply
    BY <1>2, <2>1, <2>2, <2>3
  <2>5. LIVE # MIGRATED
    BY DEF LIVE, MIGRATED
  <2> HIDE DEF t, d, p
  <2>. QED
    BY <1>1, <1>4, <2>3, <2>4, <2>5 DEF Sound, alloc
<1> HIDE DEF d, t
<1>6. /\ books'.tcx = books.tcx - Slot(i, "xr") + d.xr
      /\ books'.tcx + books'.pfe <= xel'
  BY <1>1, <1>2, <1>3, <1>4, BookTypes DEF Slot, BookInv, XelSolvency
<1>7. count <= count' /\ i < count'
  BY <1>1, <1>3, CommunityConstants DEF TypeOK
<1>. QED
  BY <1>3, <1>4, <1>5, <1>6, <1>7, Entered

\* A new card leaves the figures of the coin alone.
LEMMA UpdateEntered ==
  ASSUME TypeOK, TypeOK', BookInv, NEW u \in Wallets, NEW i \in Ids, NEW info \in Infos,
         UpdateCoinInfo(u, i, info)
  PROVE  BookInv'
<1> DEFINE c == coin[i]
           d == [c EXCEPT !.info = info]
<1>1. Launched(i) /\ c \in Coins /\ Sound(c, tok[i]) /\ i < count
  BY CoinTypes DEF UpdateCoinInfo, BookInv
<1>2. /\ coin' = [coin EXCEPT ![i] = d] /\ UNCHANGED <<count, books, xel, tok>>
  BY DEF UpdateCoinInfo
<1>3. /\ d \in Coins /\ d.paid = c.paid /\ d.xr = c.xr /\ d.yr = c.yr /\ d.tc = c.tc
      /\ d.supply = c.supply /\ d.bps = c.bps /\ d.y0 = c.y0
      /\ d.vx = c.vx /\ d.gx = c.gx /\ d.status = c.status
  <2> HIDE DEF c
  <2>. QED
    BY <1>1 DEF Coins
<1> HIDE DEF d
<1>4. Sound(d, tok[i])
  BY <1>1, <1>3 DEF Sound, Whole, XTotal, YTotal, Graduates
<1>5. /\ books'.tcx = books.tcx - Slot(i, "xr") + d.xr
      /\ books'.tcx + books'.pfe <= xel'
  <2>1. c.xr \in Nat
    BY <1>1, CoinTypes
  <2>. QED
    BY <1>1, <1>2, <1>3, <2>1, BookTypes DEF Slot, BookInv, XelSolvency
<1>6. count <= count' /\ i < count' /\ tok[i] \in Nat /\ tok' = [tok EXCEPT ![i] = tok[i]]
  BY <1>1, <1>2, CommunityConstants DEF TypeOK
<1>. QED
  BY <1>2, <1>3, <1>4, <1>5, <1>6, Entered

LEMMA LaunchEntered ==
  ASSUME TypeOK, TypeOK', BookInv,
         NEW u \in Wallets, NEW sym \in Symbols, NEW info \in Infos,
         NEW supply \in Nat, NEW bps \in Nat, NEW dep \in Nat, NEW cost \in Nat,
         LaunchCoin(u, sym, info, supply, bps, dep, cost)
  PROVE  BookInv'
<1> DEFINE d     == NewCoin(u, sym, info, supply, bps)
           alloc == CreatorAlloc(supply, bps)
           y0    == Inventory(supply, bps)
<1>1. /\ count \in Ids /\ count \in Nat /\ supply \in MIN_COIN_SUPPLY..MAX_COIN_SUPPLY
      /\ bps \in 0..MAX_CREATOR_BPS
  BY CommunityConstants DEF LaunchCoin, TypeOK, Ids
<1>2. alloc \in Nat /\ y0 \in Nat /\ y0 + alloc = supply
  <2>1. bps \in 0..BPS_DENOM
    BY <1>1, CommunityConstants
  <2>. QED
    BY <2>1, AllocBound
<1>3. d \in Coins
  BY <1>1, <1>2, ParamTypes DEF NewCoin, Coins, LIVE
<1>4. /\ d.xr = 0 /\ d.yr = y0 /\ d.y0 = y0 /\ d.supply = supply /\ d.bps = bps
      /\ d.paid = 0 /\ d.vx = params.virtual /\ d.gx = params.depth
  BY DEF NewCoin
<1>5. params.virtual \in Nat /\ params.depth \in Nat \ {0} /\ params.subFee \in Nat
  BY ParamTypes, CommunityConstants
<1>6. /\ coin' = [coin EXCEPT ![count] = d] /\ tok' = [tok EXCEPT ![count] = supply]
      /\ count' = count + 1 /\ books' = Collected(books, params.subFee)
      /\ xel' = xel + params.subFee
  BY DEF LaunchCoin
<1> HIDE DEF d, alloc, y0
<1>7. Sound(d, supply)
  <2>1. Whole(d)
    <3>1. (0 + params.virtual) * (y0 + y0) = params.virtual * (2 * y0)
      BY <1>2, <1>5
    <3>2. params.virtual * (2 * y0) \in Nat
      BY <1>2, <1>5
    <3>. QED
      BY <1>4, <3>1, <3>2 DEF Whole, XTotal, YTotal
  <2>2. ~Graduates(d)
    BY <1>4, <1>5 DEF Graduates
  <2>. QED
    BY <1>2, <1>4, <2>1, <2>2 DEF Sound, alloc, y0
<1>8. ~Launched(count)
  BY <1>1 DEF BookInv
<1>9. Slot(count, "xr") = 0
  BY <1>8 DEF Slot
<1>10. /\ books'.tcx = books.tcx - Slot(count, "xr") + d.xr
       /\ books'.tcx + books'.pfe <= xel'
  <2>1. books'.tcx = books.tcx /\ books'.pfe = books.pfe + params.subFee
    BY <1>5, <1>6, BookTypes, CollectedType
  <2>. QED
    BY <1>4, <1>5, <1>6, <1>9, <2>1, BookTypes DEF BookInv, XelSolvency
<1>11. count <= count' /\ count < count'
  BY <1>1, <1>6
<1>. QED
  BY <1>1, <1>3, <1>6, <1>7, <1>10, <1>11, Entered

\* The steps that touch no coin.
LEMMA BooksKept ==
  ASSUME TypeOK, BookInv, UNCHANGED <<count, coin, tok>>,
         books'.tcx = books.tcx, books'.tcx + books'.pfe <= xel'
  PROVE  BookInv'
<1>1. XelSolvency'
  BY DEF BookInv, XelSolvency, Slot, Launched
<1>2. \A i \in Ids : Launched(i)' => i < count' /\ Sound(coin'[i], tok'[i])
  BY DEF BookInv, Launched
<1>. QED
  BY <1>1, <1>2 DEF BookInv

LEMMA GovernEntered ==
  ASSUME TypeOK, BookInv, NEW u \in Wallets, Govern(u)
  PROVE  BookInv'
<1>1. CASE \E n \in Deposits : WithdrawFees(u, n)
  <2>1. PICK n \in Nat : WithdrawFees(u, n)
    BY <1>1, CommunityConstants
  <2>2. books' = [books EXCEPT !.pfe = @ - n] /\ xel' = xel - n /\ n <= books.pfe
        /\ UNCHANGED <<count, coin, tok>>
    BY <2>1 DEF WithdrawFees
  <2>3. books'.tcx = books.tcx /\ books'.pfe = books.pfe - n
    BY <2>2, BookTypes DEF Books
  <2>4. books'.tcx + books'.pfe <= xel'
    BY <2>2, <2>3, BookTypes DEF BookInv, XelSolvency
  <2>. QED
    BY <2>2, <2>3, <2>4, BooksKept
<1>2. CASE UNCHANGED <<count, coin, books, xel, tok>>
  BY <1>2, BooksKept DEF BookInv, XelSolvency
<1>3. \/ \E n \in Deposits : WithdrawFees(u, n)
      \/ UNCHANGED <<count, coin, books, xel, tok>>
  BY DEF Govern, SetCurveFee, SetGraduatedFee, SetMigrationFee, SetSubmissionFee,
         SetAssetBudget, SetGraduationDepth, SetVirtualXel, SetParam, SetAdmin,
         SetDexAddress, SetPaused
<1>. QED
  BY <1>1, <1>2, <1>3

LEMMA StrayEntered ==
  ASSUME TypeOK, TypeOK', BookInv, NEW n \in StrayArgs,
         StrayXel(n) \/ \E i \in Ids : StrayTokens(i, n)
  PROVE  BookInv'
<1>0. n \in Nat
  BY CommunityConstants
<1>1. CASE StrayXel(n)
  <2>1. /\ UNCHANGED <<count, coin, tok>> /\ books' = books /\ xel' = xel + n
    BY <1>1 DEF StrayXel
  <2>2. books'.tcx + books'.pfe <= xel'
    BY <1>0, <2>1, BookTypes DEF BookInv, XelSolvency
  <2>. QED
    BY <2>1, <2>2, BooksKept
<1>2. CASE \E i \in Ids : StrayTokens(i, n)
  <2>1. PICK i \in Ids : StrayTokens(i, n)
    BY <1>2
  <2> DEFINE c == coin[i]
             t == tok[i] + n
  <2>2. /\ Launched(i) /\ c \in Coins /\ Sound(c, tok[i]) /\ i < count
        /\ n <= c.supply - tok[i]
        /\ tok' = [tok EXCEPT ![i] = t] /\ UNCHANGED <<count, coin, books, xel>>
    BY <2>1, CoinTypes DEF StrayTokens, BookInv, TokOutside
  <2>3. c.supply \in Nat /\ tok[i] \in Nat /\ c.xr \in Nat /\ c.yr \in Nat /\ c.paid \in Nat
        /\ CreatorAlloc(c.supply, c.bps) \in Nat
    BY <2>2, CoinTypes, AllocBound
  <2>4. t \in Nat /\ tok[i] <= t /\ t <= c.supply
    BY <1>0, <2>2, <2>3
  <2>5. Sound(c, t)
    <3>1. c.yr + CreatorAlloc(c.supply, c.bps) - c.paid <= tok[i]
      BY <2>2 DEF Sound
    <3> HIDE DEF t
    <3>2. c.yr + CreatorAlloc(c.supply, c.bps) - c.paid <= t
      BY <2>3, <2>4, <3>1
    <3>. QED
      BY <2>2, <2>4, <3>2 DEF Sound
  <2>6. coin' = [coin EXCEPT ![i] = c]
    BY <2>2 DEF TypeOK
  <2>7. /\ books'.tcx = books.tcx - Slot(i, "xr") + c.xr
        /\ books'.tcx + books'.pfe <= xel'
    BY <2>2, <2>3, BookTypes DEF Slot, BookInv, XelSolvency
  <2>8. count <= count' /\ i < count'
    BY <2>2, CommunityConstants DEF TypeOK
  <2> HIDE DEF t, c
  <2>. QED
    BY <2>2, <2>4, <2>5, <2>6, <2>7, <2>8, Entered
<1>. QED
  BY <1>1, <1>2

LEMMA InitEntered == Init => BookInv
<1> SUFFICES ASSUME Init
             PROVE  BookInv
  OBVIOUS
<1> DEFINE f == [i \in Ids |-> Slot(i, "xr")]
<1>1. \A i \in Ids : ~Launched(i) /\ f[i] = 0
  BY DEF Init, Launched, Slot
<1>2. f \in [Ids -> Nat]
  BY <1>1
<1> HIDE DEF f
<1>3. Total(f) = 0
  BY <1>1, <1>2, TotalZero
<1>4. XelSolvency
  BY <1>3 DEF Init, XelSolvency, f
<1>. QED
  BY <1>1, <1>4 DEF BookInv

LEMMA StepEntered == TypeOK /\ TypeOK' /\ BookInv /\ [Next]_vars => BookInv'
<1> SUFFICES ASSUME TypeOK, TypeOK', BookInv, [Next]_vars
             PROVE  BookInv'
  OBVIOUS
<1>1. CASE Launch
  BY <1>1, CommunityConstants, LaunchEntered DEF Launch
<1>2. CASE \E i \in Ids : Trade(i)
  BY <1>2, CommunityConstants, BuyEntered, SellEntered DEF Trade
<1>3. CASE \E i \in Ids : Migrate(i)
  BY <1>3, MigrateEntered
<1>4. CASE \E u \in Wallets, i \in Ids : ClaimCreatorAllocation(u, i)
  BY <1>4, ClaimEntered
<1>5. CASE \E u \in Wallets, i \in Ids, info \in Infos : UpdateCoinInfo(u, i, info)
  BY <1>5, UpdateEntered
<1>6. CASE \E u \in Wallets : Govern(u)
  BY <1>6, GovernEntered
<1>7. CASE \E n \in StrayArgs : StrayXel(n) \/ \E i \in Ids : StrayTokens(i, n)
  BY <1>7, StrayEntered
<1>8. CASE UNCHANGED vars
  BY <1>8, BooksKept DEF vars, BookInv, XelSolvency
<1>. QED
  BY <1>1, <1>2, <1>3, <1>4, <1>5, <1>6, <1>7, <1>8 DEF Next

LEMMA BookInvHolds == Spec => [](TypeOK /\ BookInv)
<1>1. Init => TypeOK /\ BookInv
  BY InitType, InitEntered
<1>2. TypeOK /\ BookInv /\ [Next]_vars => TypeOK' /\ BookInv'
  BY StepType, StepEntered
<1>. QED
  BY <1>1, <1>2, PTL DEF Spec

-----------------------------------------------------------------------------
(* What circulates can be sold back.                                       *)

\* On a whole curve, selling at most what left it never asks the reserve for more
\* than it holds: what the virtual side would have to pay is priced away.
LEMMA SaleWithinReserve ==
  ASSUME NEW xr \in Nat, NEW yr \in Nat, NEW y0 \in Nat \ {0}, NEW vx \in Nat, NEW t \in Nat,
         yr + t <= y0, (xr + vx) * (yr + y0) >= vx * (2 * y0)
  PROVE  /\ ((xr + vx) * t) \div (yr + y0 + t) \in Nat
         /\ ((xr + vx) * t) \div (yr + y0 + t) <= xr
<1> DEFINE x == xr + vx
           y == yr + y0
           q == (x * t) \div (y + t)
<1>1. x \in Nat /\ y \in Nat \ {0} /\ y + t \in Nat \ {0} /\ x - vx = xr /\ y + t <= 2 * y0
  OBVIOUS
<1>2. x * y >= vx * (2 * y0)
  OBVIOUS
<1> HIDE DEF x, y
<1>3. x * t \in Nat
  BY <1>1
<1>4. q \in Nat /\ q * (y + t) <= x * t
  BY <1>1, <1>3, DivBounds
<1> HIDE DEF q
\* vx * (y + t) <= vx * (2 * y0) <= x * y, so x * t <= (x - vx) * (y + t).
<1>5. vx * (y + t) <= vx * (2 * y0)
  BY <1>1, MulMono
<1>6. x * t <= xr * (y + t)
  <2>1. xr * (y + t) = x * (y + t) - vx * (y + t) /\ x * (y + t) = x * y + x * t
    BY <1>1
  <2>2. vx * (y + t) \in Nat /\ vx * (2 * y0) \in Nat /\ x * y \in Nat
    BY <1>1
  <2>. QED
    BY <1>2, <1>3, <1>5, <2>1, <2>2
<1>7. q * (y + t) <= xr * (y + t)
  <2>1. q * (y + t) \in Nat /\ xr * (y + t) \in Nat
    BY <1>1, <1>4
  <2>. QED
    BY <1>3, <1>4, <1>6, <2>1
<1>8. q <= xr
  BY <1>1, <1>4, <1>7, MulCancel
<1>. QED
  BY <1>4, <1>8 DEF q, x, y

\* A curve that trades opened with at least half of the supply, so it never divides
\* by an empty pair.
LEMMA OpenPair ==
  ASSUME NEW c \in Coins
  PROVE  /\ Inventory(c.supply, c.bps) \in Nat \ {0}
         /\ c.supply <= 2 * Inventory(c.supply, c.bps)
<1> DEFINE n == c.supply
           p == c.bps
           k == FeeTake(n, p)
<1>1. n \in Nat \ {0} /\ p \in Nat /\ 2 * p <= BPS_DENOM
  BY CommunityConstants DEF Coins
<1> HIDE DEF n, p
<1>2. n * p \in Nat
  BY <1>1
<1>3. k \in Nat /\ k * BPS_DENOM <= n * p
  BY <1>2, CommunityConstants, DivBounds DEF FeeTake
<1> HIDE DEF k
<1>4. n * (2 * p) <= n * BPS_DENOM
  BY <1>1, CommunityConstants, MulMono
<1>5. (2 * k) * BPS_DENOM <= n * BPS_DENOM
  <2>1. n * (2 * p) = 2 * (n * p) /\ (2 * k) * BPS_DENOM = 2 * (k * BPS_DENOM)
    BY <1>1, <1>3, CommunityConstants
  <2>2. k * BPS_DENOM \in Nat /\ n * BPS_DENOM \in Nat
    BY <1>1, <1>3, CommunityConstants
  <2>. QED
    BY <1>2, <1>3, <1>4, <2>1, <2>2
<1>6. 2 * k <= n
  BY <1>1, <1>3, <1>5, CommunityConstants, MulCancel
<1>7. Inventory(c.supply, c.bps) = n - k
  BY DEF Inventory, CreatorAlloc, n, p, k
<1>. QED
  BY <1>1, <1>3, <1>6, <1>7 DEF n

\* What a trading curve pays for a sale of what circulates.
LEMMA SalePaid ==
  ASSUME TypeOK, BookInv, NEW i \in Ids, Trading(i), NEW t \in Nat,
         coin[i].yr + t <= coin[i].y0
  PROVE  SellOut(coin[i], t) \in Nat /\ SellOut(coin[i], t) <= coin[i].xr
<1> DEFINE c  == coin[i]
           xr == c.xr
           yr == c.yr
           y0 == c.y0
           vx == c.vx
<1>1. Launched(i) /\ c \in Coins /\ c.status # MIGRATED /\ Sound(c, tok[i])
  BY CoinTypes DEF Trading, BookInv, LIVE, GRADUATED, MIGRATED
<1>2. xr \in Nat /\ yr \in Nat /\ vx \in Nat /\ yr + t <= y0
  BY <1>1, CoinTypes
<1>3. y0 \in Nat \ {0} /\ (xr + vx) * (yr + y0) >= vx * (2 * y0)
  BY <1>1, OpenPair DEF Sound, Whole, XTotal, YTotal
<1>4. SellOut(c, t) = ((xr + vx) * t) \div (yr + y0 + t)
  BY DEF SellOut, XTotal, YTotal
<1>5. coin[i] = c /\ coin[i].xr = xr
  OBVIOUS
<1> HIDE DEF c, xr, yr, y0, vx
<1>6. ((xr + vx) * t) \div (yr + y0 + t) \in Nat /\ ((xr + vx) * t) \div (yr + y0 + t) <= xr
  BY <1>2, <1>3, SaleWithinReserve
<1>. QED
  BY <1>4, <1>5, <1>6

\* What wallets hold of a trading coin is no more than what left its curve.
LEMMA Circulating ==
  ASSUME TypeOK, BookInv, NEW i \in Ids, Trading(i)
  PROVE  /\ coin[i].yr <= coin[i].y0
         /\ TokOutside(i) \in Nat /\ coin[i].yr + TokOutside(i) <= coin[i].y0
<1> DEFINE c == coin[i]
           alloc == CreatorAlloc(c.supply, c.bps)
<1>1. Launched(i) /\ c \in Coins /\ c.status # MIGRATED /\ Sound(c, tok[i])
  BY CoinTypes DEF Trading, BookInv, LIVE, GRADUATED, MIGRATED
<1>2. /\ c.yr \in Nat /\ tok[i] \in Nat /\ c.supply \in Nat
      /\ alloc \in Nat /\ Inventory(c.supply, c.bps) + alloc = c.supply
      /\ Inventory(c.supply, c.bps) \in Nat
  BY <1>1, CoinTypes, AllocBound
<1>3. /\ c.y0 = Inventory(c.supply, c.bps) /\ c.paid = 0
      /\ c.yr + alloc - c.paid <= tok[i] /\ tok[i] <= c.supply
  BY <1>1 DEF Sound
<1> HIDE DEF alloc
<1>. QED
  BY <1>2, <1>3 DEF TokOutside

LEMMA BookInvSolvent == TypeOK /\ BookInv => Solvency
<1> SUFFICES ASSUME TypeOK, BookInv
             PROVE  Solvency
  OBVIOUS
<1>1. TokenSolvency
  BY DEF TokenSolvency, BookInv, Sound
<1>2. WorstCaseCovered
  <2> SUFFICES ASSUME NEW i \in Ids, Trading(i)
               PROVE  /\ coin[i].yr <= coin[i].y0
                      /\ SellOut(coin[i], coin[i].y0 - coin[i].yr) <= coin[i].xr
    BY DEF WorstCaseCovered
  <2>1. coin[i].yr \in Nat /\ coin[i].y0 \in Nat
    BY CoinTypes DEF Trading
  <2> DEFINE t == coin[i].y0 - coin[i].yr
  <2>2. t \in Nat /\ coin[i].yr + t <= coin[i].y0
    BY <2>1, Circulating
  <2> HIDE DEF t
  <2>3. SellOut(coin[i], t) <= coin[i].xr
    BY <2>2, SalePaid
  <2>. QED
    BY <2>3, Circulating DEF t
<1>. QED
  BY <1>1, <1>2 DEF Solvency, BookInv

\* IC1, IC2, IC4: in every reachable state, for every supply, fee and virtual
\* reserve, the balances cover the curves, the fees and the creators, and the
\* real reserve of a curve pays for everything that circulates.
THEOREM Solvent == Spec => []Solvency
BY BookInvHolds, BookInvSolvent, PTL

\* A holder's sell worth at least a unit after its fee passes every check that
\* does not bound a lifetime counter.
LEMMA BookInvOpen == TypeOK /\ BookInv => SellsOpen
<1> SUFFICES ASSUME TypeOK, BookInv, NEW i \in Ids, Trading(i), NEW dep \in 1..TokOutside(i),
                    SellQuote(coin[i], dep) >= 1,
                    CollectChecked(SellOut(coin[i], dep) - SellQuote(coin[i], dep)),
                    RecordChecked(coin[i].sv, books.tsv, coin[i].vo, coin[i].tc,
                                  SellOut(coin[i], dep))
             PROVE  SellAccepted(i, dep, 0)
  BY DEF SellsOpen
<1> DEFINE c     == coin[i]
           gross == SellOut(c, dep)
           fee   == FeeTake(gross, TradingFee(c))
<1>1. Launched(i) /\ c \in Coins /\ c.status # MIGRATED
  BY CoinTypes DEF Trading, LIVE, GRADUATED, MIGRATED
<1>2. TokOutside(i) \in Nat /\ c.yr + TokOutside(i) <= c.y0 /\ c.yr \in Nat /\ c.y0 \in Nat
  BY <1>1, Circulating, CoinTypes
<1>3. dep \in Nat /\ dep >= 1 /\ dep <= TokOutside(i) /\ c.yr + dep <= c.y0
  BY <1>2
<1>4. gross \in Nat /\ gross <= c.xr
  BY <1>3, SalePaid
<1>5. fee \in Nat /\ gross - fee \in Nat /\ fee <= gross
  BY <1>1, <1>4, FeeSplits
<1>6. SellQuote(c, dep) = gross - fee
  BY <1>1 DEF SellQuote
<1>7. gross - SellQuote(c, dep) = fee
  BY <1>4, <1>5, <1>6
<1>8. gross - fee >= 1 /\ gross >= 1
  BY <1>4, <1>5, <1>6
<1>9. c.xr \in Nat /\ c.xr <= books.tcx
  <2> DEFINE f == [j \in Ids |-> Slot(j, "xr")]
  <2>1. f \in [Ids -> Nat] /\ f[i] = c.xr
    <3>1. \A j \in Ids : Slot(j, "xr") \in Nat
      BY CoinTypes DEF Slot
    <3>. QED
      BY <1>1, <3>1 DEF Slot
  <2>2. IsFiniteSet(Ids)
    BY CommunityConstants, FS_Interval DEF Ids
  <2>3. books.tcx = Total(f)
    BY DEF BookInv, XelSolvency
  <2> HIDE DEF f
  <2>4. f[i] <= Total(f)
    BY <2>1, <2>2, ShareWithinTotal
  <2>. QED
    BY <1>1, <2>1, <2>3, <2>4, CoinTypes
<1>10. books.tcx \in Nat /\ books.pfe \in Nat /\ xel \in Nat /\ books.tcx + books.pfe <= xel
  BY CommunityConstants DEF TypeOK, BookInv, XelSolvency
<1>11. gross <= books.tcx /\ gross - fee <= xel /\ c.xr >= 1
  BY <1>4, <1>5, <1>8, <1>9, <1>10
<1>12. CollectChecked(fee)
  BY <1>7
<1>13. RecordChecked(c.sv, books.tsv, c.vo, c.tc, gross) /\ gross - fee >= 0
  BY <1>8, <1>5
<1>14. gross <= c.xr /\ dep >= 1 /\ dep <= TokOutside(i) /\ SellGate(i)
  BY <1>3, <1>4 DEF SellGate
<1>. QED
  BY <1>8, <1>11, <1>12, <1>13, <1>14, Zenon DEF SellAccepted

\* C7: for every coin and every holding, no state of a curve that trades refuses
\* a sell the quote prices at one unit or more, the counters permitting.
THEOREM SellsStayOpen == Spec => []SellsOpen
BY BookInvHolds, BookInvOpen, PTL

-----------------------------------------------------------------------------
(* What the frontend shows.                                                *)

LEMMA LaunchShown ==
  ASSUME TypeOK, BookInv, NEW i \in Ids, Trading(i), coin[i].tc = 0
  PROVE  market_cap(coin[i].xr, coin[i].yr, coin[i].y0, coin[i].vx, coin[i].supply)
           = launch_fdv(coin[i].vx, coin[i].y0, coin[i].supply)
<1> DEFINE c == coin[i]
           n == c.supply
           y == c.y0
           v == c.vx
           q == (v * n) \div (2 * y)
<1>1. Launched(i) /\ c \in Coins /\ c.status # MIGRATED /\ Sound(c, tok[i])
  BY CoinTypes DEF Trading, BookInv, LIVE, GRADUATED, MIGRATED
<1>2. c.xr = 0 /\ c.yr = y
  BY <1>1 DEF Sound
<1>3. n \in Nat /\ y \in Nat \ {0} /\ n <= 2 * y
  BY <1>1, OpenPair, CoinTypes DEF Sound
<1>4. v \in Nat /\ v <= U64_MAX /\ U64_MAX \in Nat
  <2>1. v \in MIN_VIRTUAL_XEL..MAX_VIRTUAL_XEL
    BY <1>1 DEF Coins
  <2>. QED
    BY <2>1, CommunityConstants
<1>5. /\ market_cap(c.xr, c.yr, c.y0, c.vx, c.supply)
           = spot_price(0, y, y, v, n)
      /\ launch_fdv(c.vx, c.y0, c.supply) = q
  BY <1>2 DEF market_cap, launch_fdv
<1> HIDE DEF c, n, y, v
<1>6. v * n \in Nat /\ 2 * y \in Nat \ {0} /\ y + y = 2 * y /\ 0 + v = v /\ y + y # 0
  BY <1>3, <1>4
<1>7. q \in Nat /\ q * (2 * y) <= v * n
  BY <1>6, DivBounds
<1>8. v * n <= v * (2 * y)
  BY <1>3, <1>4, <1>6, MulMono
<1>9. q <= v
  <2>1. q * (2 * y) <= v * (2 * y)
    <3>1. q * (2 * y) \in Nat /\ v * (2 * y) \in Nat
      BY <1>4, <1>6, <1>7
    <3>. QED
      BY <1>6, <1>7, <1>8, <3>1
  <2> HIDE DEF q
  <2>. QED
    BY <1>4, <1>6, <1>7, <2>1, MulCancel
<1>10. q <= U64_MAX
  BY <1>4, <1>7, <1>9
<1>11. spot_price(0, y, y, v, n) = q
  BY <1>6, <1>10 DEF spot_price
<1>. QED
  BY <1>5, <1>11 DEF c

LEMMA BookInvShown == TypeOK /\ BookInv => ShownRight
<1> SUFFICES ASSUME TypeOK, BookInv
             PROVE  MirrorExact /\ GraduationNotMissed
  BY DEF ShownRight
<1>1. MirrorExact
  <2> SUFFICES ASSUME NEW i \in Ids, Trading(i)
               PROVE  LET c == coin[i]
                      IN /\ \A d \in Deposits :
                             buy_tokens_out(c.xr, c.yr, c.y0, c.vx, d - fee_take(d, TradingFee(c)))
                               = BuyOut(c, d - FeeTake(d, TradingFee(c)))
                         /\ \A d \in Sales : sell_xel_out(c.xr, c.yr, c.y0, c.vx, d) = SellOut(c, d)
                         /\ graduated(c.xr, c.yr, c.y0, c.vx, c.gx) = Graduates(c)
                         /\ c.tc = 0 => market_cap(c.xr, c.yr, c.y0, c.vx, c.supply)
                                          = launch_fdv(c.vx, c.y0, c.supply)
    BY DEF MirrorExact
  <2> DEFINE c == coin[i]
  <2>1. \A d \in Deposits :
          buy_tokens_out(c.xr, c.yr, c.y0, c.vx, d - fee_take(d, TradingFee(c)))
            = BuyOut(c, d - FeeTake(d, TradingFee(c)))
    BY DEF buy_tokens_out, BuyOut, XTotal, YTotal, fee_take, FeeTake
  <2>2. \A d \in Sales : sell_xel_out(c.xr, c.yr, c.y0, c.vx, d) = SellOut(c, d)
    BY DEF sell_xel_out, SellOut, XTotal, YTotal
  <2>3. graduated(c.xr, c.yr, c.y0, c.vx, c.gx) = Graduates(c)
    BY DEF graduated, Graduates
  <2>4. c.tc = 0 => market_cap(c.xr, c.yr, c.y0, c.vx, c.supply)
                     = launch_fdv(c.vx, c.y0, c.supply)
    BY LaunchShown
  <2>. QED
    BY <2>1, <2>2, <2>3, <2>4
<1>2. GraduationNotMissed
  BY DEF GraduationNotMissed, BookInv, Sound, Graduates
<1>. QED
  BY <1>1, <1>2

\* What a screen shows of a coin is what the contract would do, and the trade that
\* takes a curve to its graduation point graduates it: community.py:58 and C2.
THEOREM ShownTrue == Spec => []ShownRight
BY BookInvHolds, BookInvShown, PTL
=============================================================================

--------------------------- MODULE LaunchDEXProofs ---------------------------
(***************************************************************************)
(* Theorems about LaunchDEX, for every set of wallets and assets, every    *)
(* supply and every value of the contract's parameters: its types, its     *)
(* books and the ways out.  A pool's provider pot covers every claim, a    *)
(* holder can sell and a provider can leave, and no step takes from the    *)
(* curve or from what a provider is owed.  A provider who leaves through   *)
(* the SDK's terminal is shown and sends the same.                         *)
(***************************************************************************)
EXTENDS SdkDex, TotalsProofs, SequenceTheorems

\* What a fee can take.
LEMMA FeeTakeBound ==
  ASSUME NEW n \in Nat, NEW bps \in 0..BPS_DENOM
  PROVE  FeeTake(n, bps) \in Nat /\ FeeTake(n, bps) <= n
BY ShareBound, DexConstants DEF FeeTake

-----------------------------------------------------------------------------
(* Type correctness: one lemma per operation.                              *)

\* A pool slot holds either nothing or a pool.
LEMMA LivePool ==
  ASSUME TypeOK, NEW a \in Assets, Live(a)
  PROVE  pool[a] \in Pools
BY DEF TypeOK, Live

LEMMA CrystallisedType ==
  ASSUME TypeOK, NEW a \in Assets, NEW u \in Wallets, Live(a)
  PROVE  Crystallised(a, u) \in [Side -> Nat]
<1> SUFFICES ASSUME NEW s \in Side
             PROVE  pos[a][u].claim[s] + Accrued(a, u, s) \in Nat
  BY DEF Crystallised
<1>1. pool[a].acc[s] \in Nat
  BY LivePool DEF Pools
<1>2. /\ pos[a][u].snap[s] \in Nat /\ pos[a][u].claim[s] \in Nat
      /\ pos[a][u].parts \in Nat
  <2>1. pos[a][u] \in Positions
    BY DEF TypeOK
  <2>. QED
    BY <2>1 DEF Positions
<1>3. Accrued(a, u, s) \in Nat
  <2>1. CASE pool[a].acc[s] > pos[a][u].snap[s]
    <3>1. pool[a].acc[s] - pos[a][u].snap[s] \in Nat
      BY <1>1, <1>2, <2>1
    <3>2. (pool[a].acc[s] - pos[a][u].snap[s]) * pos[a][u].parts \in Nat
      BY <1>2, <3>1
    <3>. QED
      BY <2>1, <3>2, DivBounds, DexConstants DEF Accrued
  <2>2. CASE ~(pool[a].acc[s] > pos[a][u].snap[s])
    BY <2>2 DEF Accrued
  <2>. QED
    BY <2>1, <2>2
<1>. QED
  BY <1>2, <1>3

\* The quantities of a swap: what the fee, the net deposit, the payout and the
\* providers' share are bounded by.
LEMMA SwapAmounts ==
  ASSUME TypeOK, NEW a \in Assets, Live(a), NEW s \in Side, NEW dep \in Nat
  PROVE  LET p     == pool[a]
             fee   == FeeTake(dep, config.swapFee)
             net   == NetOf(dep, fee)
             share == FeeTake(fee, config.lpShare)
         IN  /\ fee \in Nat /\ fee <= dep
             /\ net \in Nat /\ net + fee = dep
             /\ share \in Nat /\ share <= fee
             /\ p.tl > 0 => AccrualUp(share, p.tl) \in Nat
             /\ p.res[s] > 0 => SwapOut(p.res[s], p.res[Other(s)], net) \in Nat
<1> DEFINE p     == pool[a]
           fee   == FeeTake(dep, config.swapFee)
           net   == NetOf(dep, fee)
           share == FeeTake(fee, config.lpShare)
<1>1. p \in Pools /\ Other(s) \in Side
  BY LivePool DEF Other, Side
<1>2. p.tl \in Nat /\ p.res[s] \in Nat /\ p.res[Other(s)] \in Nat
  BY <1>1 DEF Pools
<1>3. config.swapFee \in 0..BPS_DENOM /\ config.lpShare \in 0..BPS_DENOM
  BY DexConstants DEF TypeOK
<1>4. fee \in Nat /\ fee <= dep
  BY <1>3, FeeTakeBound
<1>5. net \in Nat /\ net + fee = dep
  BY <1>4 DEF NetOf
<1>6. share \in Nat /\ share <= fee
  BY <1>3, <1>4, FeeTakeBound
<1>7. p.tl > 0 => AccrualUp(share, p.tl) \in Nat
  <2>1. share * ACC_SCALE \in Nat
    BY <1>6, DexConstants
  <2>. QED
    BY <1>2, <2>1, DivBounds DEF AccrualUp
<1>8. p.res[s] > 0 => SwapOut(p.res[s], p.res[Other(s)], net) \in Nat
  <2>1. p.res[Other(s)] * net \in Nat /\ p.res[s] + net \in Nat
    BY <1>2, <1>5
  <2>. QED
    BY <1>2, <1>5, <2>1, DivBounds DEF SwapOut
<1>. QED
  BY <1>4, <1>5, <1>6, <1>7, <1>8

\* A swap keeps the type of the pool's slots.
LEMMA TradedType ==
  ASSUME NEW p \in Pools, NEW s \in Side, NEW net \in Nat, NEW out \in Nat,
         out <= p.res[Other(s)], NEW adminPart \in Nat, NEW lpPart \in Nat,
         NEW accUp \in Nat
  PROVE  Traded(p, s, net, out, adminPart, lpPart, accUp) \in Pools
<1> DEFINE r == [p.res EXCEPT ![s] = @ + net, ![Other(s)] = @ - out]
           f == [p.fees EXCEPT ![s] = @ + adminPart]
           q == [p.pot EXCEPT ![s] = @ + lpPart]
           c == [p.acc EXCEPT ![s] = @ + accUp]
<1>1. Other(s) \in Side /\ Other(s) # s
  BY DEF Other, Side
<1>2. /\ p.res \in [Side -> Nat] /\ p.fees \in [Side -> Nat]
      /\ p.pot \in [Side -> Nat] /\ p.acc \in [Side -> Nat]
  BY DEF Pools
<1>3. /\ r \in [Side -> Nat] /\ f \in [Side -> Nat]
      /\ q \in [Side -> Nat] /\ c \in [Side -> Nat]
  BY <1>1, <1>2
<1>4. Traded(p, s, net, out, adminPart, lpPart, accUp)
        = [p EXCEPT !.res = r, !.fees = f, !.pot = q, !.acc = c]
  BY DEF Traded
<1> HIDE DEF r, f, q, c
<1>. QED
  BY <1>3, <1>4 DEF Pools

\* Two different balances move, one by an addition and one by a subtraction.
LEMMA BalancesMove ==
  ASSUME TypeOK, NEW c \in Coins, NEW d \in Coins, c # d,
         NEW m \in Nat, NEW n \in Nat, m <= Outside(c), n <= bal[d],
         bal' = [bal EXCEPT ![c] = @ + m, ![d] = @ - n]
  PROVE  bal' \in [Coins -> Nat] /\ \A e \in Coins : bal'[e] <= Supply[e]
<1>1. bal \in [Coins -> Nat] /\ \A e \in Coins : bal[e] <= Supply[e]
  BY DEF TypeOK
<1>2. Supply \in [Coins -> Nat]
  BY DexConstants
<1>3. \A e \in Coins : bal'[e] = IF e = c THEN bal[c] + m
                                 ELSE IF e = d THEN bal[d] - n ELSE bal[e]
  BY <1>1
<1>4. bal' \in [Coins -> Nat]
  BY <1>1
<1>5. ASSUME NEW e \in Coins  PROVE bal'[e] <= Supply[e]
  <2>1. bal[c] + m <= Supply[c] /\ bal[e] \in Nat /\ bal[d] \in Nat
    BY <1>1, <1>2 DEF Outside
  <2>. QED
    BY <1>1, <1>2, <1>3, <2>1
<1>. QED
  BY <1>4, <1>5

LEMMA SwapType ==
  ASSUME TypeOK, NEW a \in Assets, Live(a), NEW s \in Side, NEW dep \in Nat,
         NEW minOut \in Nat, Swap(a, s, dep, minOut)
  PROVE  TypeOK'
<1> DEFINE o      == Other(s)
           p      == pool[a]
           fee    == FeeTake(dep, config.swapFee)
           net    == NetOf(dep, fee)
           out    == SwapOut(p.res[s], p.res[o], net)
           share  == FeeTake(fee, config.lpShare)
           lpPart == IF p.tl > 0 THEN share ELSE 0
           accUp  == IF lpPart > 0 THEN AccrualUp(lpPart, p.tl) ELSE 0
           bought == IF s = "x" THEN dep ELSE 0
           sold   == IF s = "x" THEN 0 ELSE out
           np     == Traded(p, s, net, out, fee - lpPart, lpPart, accUp)
<1>1. p \in Pools /\ o \in Side /\ o # s
  BY LivePool DEF Other, Side
<1>2. /\ p.res \in [Side -> Nat] /\ p.fees \in [Side -> Nat]
      /\ p.pot \in [Side -> Nat] /\ p.acc \in [Side -> Nat] /\ p.tl \in Nat
  BY <1>1 DEF Pools
<1>3. fee \in Nat /\ net \in Nat /\ share \in Nat /\ share <= fee
  BY SwapAmounts
<1>4. lpPart \in Nat /\ lpPart <= fee /\ accUp \in Nat
  BY <1>2, <1>3, SwapAmounts
<1>5. out \in Nat /\ out < p.res[o] /\ bought \in Nat /\ sold \in Nat
  BY SwapAmounts DEF Swap, SwapAccepted, Terms, Side
<1>6. pool' = [pool EXCEPT ![a] = np]
  BY DEF Swap, SwapAccepted, Terms
<1>7. /\ score' = [score EXCEPT ![a] = [fl |-> score[a].fl + fee,
                                       bv |-> score[a].bv + bought,
                                       sv |-> score[a].sv + sold,
                                       tc |-> score[a].tc + 1]]
      /\ bal' = [bal EXCEPT ![AssetOf(a, s)] = @ + dep, ![AssetOf(a, o)] = @ - out]
      /\ dep <= Outside(AssetOf(a, s)) /\ out <= bal[AssetOf(a, o)]
      /\ UNCHANGED <<config, index, pos>>
  BY DEF Swap, SwapAccepted, Terms
<1>8. np \in Pools
  <2> HIDE DEF p, net, out, lpPart, accUp, fee
  <2>1. fee - lpPart \in Nat
    BY <1>3, <1>4
  <2>2. out <= p.res[Other(s)]
    BY <1>1, <1>2, <1>5
  <2> HIDE DEF o
  <2>. QED
    BY <1>1, <1>3, <1>4, <1>5, <2>1, <2>2, TradedType
<1> HIDE DEF np, fee, out, o, bought, sold
<1>9. pool' \in [Assets -> Pools \cup {None}]
  BY <1>6, <1>8 DEF TypeOK
<1>10. score' \in [Assets -> Scores]
  <2>1. score \in [Assets -> Scores] /\ score[a] \in Scores
    BY DEF TypeOK
  <2>. QED
    BY <1>3, <1>5, <1>7, <2>1 DEF Scores
<1>11. bal' \in [Coins -> Nat] /\ \A c \in Coins : bal'[c] <= Supply[c]
  <2>1. AssetOf(a, s) \in Coins /\ AssetOf(a, o) \in Coins
        /\ AssetOf(a, s) # AssetOf(a, o)
    BY DexConstants DEF AssetOf, Coins, Other, Side, o
  <2>. QED
    BY <1>5, <1>7, <2>1, BalancesMove
<1>. QED
  BY <1>7, <1>9, <1>10, <1>11 DEF TypeOK

\* Both balances of a pool grow by what is attached to a call.
LEMMA BalancesGrow ==
  ASSUME TypeOK, NEW a \in Assets, NEW m \in [Side -> Nat],
         \A s \in Side : m[s] <= Outside(AssetOf(a, s)),
         bal' = [bal EXCEPT ![XEL] = @ + m["x"], ![a] = @ + m["y"]]
  PROVE  bal' \in [Coins -> Nat] /\ \A e \in Coins : bal'[e] <= Supply[e]
<1>1. bal \in [Coins -> Nat] /\ \A e \in Coins : bal[e] <= Supply[e]
  BY DEF TypeOK
<1>2. Supply \in [Coins -> Nat] /\ XEL \in Coins /\ a \in Coins /\ XEL # a
  BY DexConstants DEF Coins
<1>3. m["x"] \in Nat /\ m["y"] \in Nat
  BY DEF Side
<1>4. m["x"] <= Supply[XEL] - bal[XEL] /\ m["y"] <= Supply[a] - bal[a]
  BY DEF Outside, AssetOf, Side
<1>. QED
  BY <1>1, <1>2, <1>3, <1>4

\* Both balances of a pool shrink by what is paid out of them.
LEMMA BalancesPay ==
  ASSUME TypeOK, NEW a \in Assets, NEW m \in [Side -> Nat],
         \A s \in Side : m[s] <= bal[AssetOf(a, s)],
         bal' = [bal EXCEPT ![XEL] = @ - m["x"], ![a] = @ - m["y"]]
  PROVE  bal' \in [Coins -> Nat] /\ \A e \in Coins : bal'[e] <= Supply[e]
<1>1. bal \in [Coins -> Nat] /\ \A e \in Coins : bal[e] <= Supply[e]
  BY DEF TypeOK
<1>2. Supply \in [Coins -> Nat] /\ XEL \in Coins /\ a \in Coins /\ XEL # a
  BY DexConstants DEF Coins
<1>3. m["x"] \in Nat /\ m["y"] \in Nat
  BY DEF Side
<1>4. m["x"] <= bal[XEL] /\ m["y"] <= bal[a]
  BY DEF AssetOf, Side
<1>. QED
  BY <1>1, <1>2, <1>3, <1>4

LEMMA SeedType ==
  ASSUME TypeOK, NEW a \in Assets, NEW seed \in [Side -> Nat], SeedPool(a, seed, FALSE)
  PROVE  TypeOK'
<1> DEFINE np == [res |-> seed, fees |-> Zero, pot |-> Zero, acc |-> Zero,
                  tl |-> seed["x"], pl |-> seed["x"], bp |-> FALSE]
           nw == SeedPosition(pos[a][config.admin], seed["x"])
<1>1. seed["x"] \in Nat /\ Zero \in [Side -> Nat]
  BY DEF Side, Zero
<1>2. pool' \in [Assets -> Pools \cup {None}]
  <2>1. np \in Pools
    BY <1>1 DEF Pools
  <2>2. pool' = [pool EXCEPT ![a] = np]
    BY DEF SeedPool
  <2> HIDE DEF np
  <2>. QED
    BY <2>1, <2>2 DEF TypeOK
<1>3. pos' \in [Assets -> [Wallets -> Positions]]
  <2>1. pos[a][config.admin] \in Positions
    BY DEF TypeOK
  <2>2. nw \in Positions
    BY <1>1, <2>1 DEF Positions, SeedPosition
  <2>3. pos' = [pos EXCEPT ![a][config.admin] = nw]
    BY DEF SeedPool
  <2> HIDE DEF nw
  <2>. QED
    BY <2>2, <2>3 DEF TypeOK
<1>4. score' \in [Assets -> Scores]
  <2>1. NoScore \in Scores
    BY DEF NoScore, Scores
  <2>. QED
    BY <2>1 DEF SeedPool, TypeOK
<1>5. index' \in Seq(Assets)
  BY DEF SeedPool, TypeOK
<1>6. /\ config' \in [admin : Wallets, swapFee : 0..MAX_SWAP_FEE_BPS,
                 lpShare : MIN_LP_SHARE_BPS..MAX_LP_SHARE_BPS,
                 bounds : Bounds, paused : BOOLEAN,
                 lpx : Wallets \cup {None}, pinned : BOOLEAN]
  <2>1. Freezes \in BOOLEAN
    BY DEF Freezes, TypeOK
  <2>2. config' = [config EXCEPT !.pinned = Freezes]
    BY DEF SeedPool
  <2>. QED
    BY <2>1, <2>2 DEF TypeOK
<1>7. bal' \in [Coins -> Nat] /\ \A c \in Coins : bal'[c] <= Supply[c]
  BY BalancesGrow DEF SeedPool
<1>. QED
  BY <1>2, <1>3, <1>4, <1>5, <1>6, <1>7 DEF TypeOK

\* A deposit fitted to the pool's ratio.
LEMMA FitType ==
  ASSUME NEW res \in [Side -> Nat], NEW in \in [Side -> Nat],
         res["x"] > 0, res["y"] > 0
  PROVE  Fit(res, in) \in [Side -> Nat]
<1>1. /\ res["x"] \in Nat \ {0} /\ res["y"] \in Nat \ {0}
      /\ in["x"] \in Nat /\ in["y"] \in Nat
  BY DEF Side
<1>2. res["y"] * in["x"] \in Nat /\ res["x"] * in["y"] \in Nat
  BY <1>1
<1>3. (res["y"] * in["x"]) \div res["x"] \in Nat
      /\ (res["x"] * in["y"]) \div res["y"] \in Nat
  BY <1>1, <1>2, DivBounds
<1>. QED
  BY <1>1, <1>3 DEF Fit, Side

LEMMA AddType ==
  ASSUME TypeOK, NEW caller \in Wallets, NEW a \in Assets,
         NEW in \in [Side -> Nat], AddLiquidity(caller, a, in)
  PROVE  TypeOK'
<1> DEFINE p   == pool[a]
           eff == Fit(p.res, in)
           me  == pos[a][caller]
           r   == [s \in Side |-> p.res[s] + eff[s]]
           np  == [p EXCEPT !.res = r, !.tl = @ + eff["x"]]
           nw  == [parts |-> me.parts + eff["x"], w |-> me.w + eff["x"],
                   snap |-> Settle(a, caller).snap,
                   claim |-> Settle(a, caller).claim]
<1>1. Live(a) /\ p \in Pools /\ me \in Positions
  BY LivePool DEF AddLiquidity, TypeOK
<1>2. p.res \in [Side -> Nat] /\ p.acc \in [Side -> Nat] /\ p.tl \in Nat
      /\ me.parts \in Nat /\ me.w \in Nat
  BY <1>1 DEF Pools, Positions
<1>3. eff \in [Side -> Nat] /\ eff["x"] \in Nat
  <2>1. p.res["x"] > 0 /\ p.res["y"] > 0
    BY DEF AddLiquidity, Side
  <2>. QED
    BY <1>2, <2>1, FitType DEF Side
<1>4. Settle(a, caller).snap \in [Side -> Nat] /\ Settle(a, caller).claim \in [Side -> Nat]
  BY <1>1, <1>2, CrystallisedType DEF Settle
<1> HIDE DEF eff
<1>5. pool' \in [Assets -> Pools \cup {None}]
  <2>1. r \in [Side -> Nat] /\ p.tl + eff["x"] \in Nat
    BY <1>2, <1>3
  <2>2. pool' = [pool EXCEPT ![a] = np]
    BY DEF AddLiquidity, eff
  <2> HIDE DEF r, p
  <2>3. np \in Pools
    BY <1>1, <2>1 DEF Pools
  <2> HIDE DEF np
  <2>. QED
    BY <2>2, <2>3 DEF TypeOK
<1>6. pos' \in [Assets -> [Wallets -> Positions]]
  <2>1. nw \in Positions
    BY <1>2, <1>3, <1>4 DEF Positions
  <2>2. pos' = [pos EXCEPT ![a][caller] = nw]
    BY DEF AddLiquidity, eff
  <2> HIDE DEF nw
  <2>. QED
    BY <2>1, <2>2 DEF TypeOK
<1>7. bal' \in [Coins -> Nat] /\ \A c \in Coins : bal'[c] <= Supply[c]
  <2>1. ASSUME NEW s \in Side  PROVE eff[s] <= Outside(AssetOf(a, s))
    <3>1. eff[s] <= in[s] /\ in[s] <= Outside(AssetOf(a, s))
      BY DEF AddLiquidity, eff
    <3>2. AssetOf(a, s) \in Coins
      BY DEF AssetOf, Coins
    <3>3. Outside(AssetOf(a, s)) \in Int
      BY <3>2, DexConstants DEF Outside, TypeOK
    <3>. QED
      BY <1>3, <3>1, <3>3
  <2>2. bal' = [bal EXCEPT ![XEL] = @ + eff["x"], ![a] = @ + eff["y"]]
    BY DEF AddLiquidity, eff
  <2>. QED
    BY <1>3, <2>1, <2>2, BalancesGrow
<1>. QED
  BY <1>5, <1>6, <1>7 DEF AddLiquidity, TypeOK

LEMMA SliceType ==
  ASSUME TypeOK, NEW a \in Assets, Live(a), NEW n \in Nat, pool[a].tl > 0
  PROVE  Slice(a, n) \in [Side -> Nat]
<1> SUFFICES ASSUME NEW s \in Side
             PROVE  (n * pool[a].res[s]) \div pool[a].tl \in Nat
  BY DEF Slice
<1>1. pool[a].res[s] \in Nat /\ pool[a].tl \in Nat \ {0}
  BY LivePool DEF Pools
<1>2. n * pool[a].res[s] \in Nat
  BY <1>1
<1>. QED
  BY <1>1, <1>2, DivBounds

LEMMA RemoveType ==
  ASSUME TypeOK, NEW caller \in Wallets, NEW a \in Assets, NEW n \in Nat,
         NEW min \in [Side -> Nat], RemoveLiquidity(caller, a, n, min)
  PROVE  TypeOK'
<1> DEFINE p   == pool[a]
           out == Slice(a, n)
           me  == pos[a][caller]
           r   == [s \in Side |-> p.res[s] - out[s]]
           np  == [p EXCEPT !.res = r, !.tl = @ - n]
           nw  == [parts |-> me.parts - n, w |-> me.w - n,
                   snap |-> Settle(a, caller).snap,
                   claim |-> Settle(a, caller).claim]
<1>1. Live(a) /\ p \in Pools /\ me \in Positions
  BY LivePool DEF RemoveLiquidity, RemoveAccepted, TypeOK
<1>2. p.res \in [Side -> Nat] /\ p.acc \in [Side -> Nat] /\ p.tl \in Nat
      /\ p.pl \in Nat /\ me.parts \in Nat /\ me.w \in Nat
  BY <1>1 DEF Pools, Positions
<1>3. out \in [Side -> Nat]
  BY <1>1, SliceType DEF RemoveLiquidity, RemoveAccepted
<1>4. Settle(a, caller).snap \in [Side -> Nat] /\ Settle(a, caller).claim \in [Side -> Nat]
  BY <1>1, <1>2, CrystallisedType DEF Settle
<1>5. /\ p.tl - n >= p.pl /\ n <= me.w /\ n <= me.parts
      /\ \A s \in Side : p.res[s] > out[s] /\ out[s] <= bal[AssetOf(a, s)]
  BY DEF RemoveLiquidity, RemoveAccepted
<1>6. pool' \in [Assets -> Pools \cup {None}]
  <2>1. pool' = [pool EXCEPT ![a] = np]
    BY DEF RemoveLiquidity
  <2> HIDE DEF out
  <2>2. r \in [Side -> Nat] /\ p.tl - n \in Nat
    BY <1>2, <1>3, <1>5
  <2> HIDE DEF r, p
  <2>3. np \in Pools
    BY <1>1, <2>2 DEF Pools
  <2> HIDE DEF np
  <2>. QED
    BY <2>1, <2>3 DEF TypeOK
<1>7. pos' \in [Assets -> [Wallets -> Positions]]
  <2>1. nw \in Positions
    BY <1>2, <1>4, <1>5 DEF Positions
  <2>2. pos' = [pos EXCEPT ![a][caller] = nw]
    BY DEF RemoveLiquidity
  <2> HIDE DEF nw
  <2>. QED
    BY <2>1, <2>2 DEF TypeOK
<1>8. bal' \in [Coins -> Nat] /\ \A c \in Coins : bal'[c] <= Supply[c]
  <2>1. bal' = [bal EXCEPT ![XEL] = @ - out["x"], ![a] = @ - out["y"]]
    BY DEF RemoveLiquidity
  <2>. QED
    BY <1>3, <1>5, <2>1, BalancesPay
<1>. QED
  BY <1>6, <1>7, <1>8 DEF RemoveLiquidity, TypeOK

LEMMA ClaimType ==
  ASSUME TypeOK, NEW caller \in Wallets, NEW a \in Assets, ClaimLpFees(caller, a)
  PROVE  TypeOK'
<1> DEFINE p   == pool[a]
           due == Crystallised(a, caller)
           me  == pos[a][caller]
           q   == [s \in Side |-> p.pot[s] - due[s]]
           np  == [p EXCEPT !.pot = q]
           nw  == [me EXCEPT !.claim = Zero,
                             !.snap = IF me.parts > 0 THEN p.acc ELSE me.snap]
<1>1. Live(a) /\ p \in Pools /\ me \in Positions
  BY LivePool DEF ClaimLpFees, ClaimAccepted, TypeOK
<1>2. p.pot \in [Side -> Nat] /\ p.acc \in [Side -> Nat]
  BY <1>1 DEF Pools
<1>3. due \in [Side -> Nat]
  BY <1>1, CrystallisedType
<1>4. \A s \in Side : due[s] <= p.pot[s] /\ due[s] <= bal[AssetOf(a, s)]
  BY DEF ClaimLpFees, ClaimAccepted
<1>5. pool' \in [Assets -> Pools \cup {None}]
  <2>1. pool' = [pool EXCEPT ![a] = np]
    BY DEF ClaimLpFees
  <2> HIDE DEF due
  <2>2. q \in [Side -> Nat]
    BY <1>2, <1>3, <1>4
  <2> HIDE DEF q, p
  <2>3. np \in Pools
    BY <1>1, <2>2 DEF Pools
  <2> HIDE DEF np
  <2>. QED
    BY <2>1, <2>3 DEF TypeOK
<1>6. pos' \in [Assets -> [Wallets -> Positions]]
  <2>1. nw \in Positions
    BY <1>1, <1>2 DEF Positions, Zero, Side
  <2>2. pos' = [pos EXCEPT ![a][caller] = nw]
    BY DEF ClaimLpFees
  <2> HIDE DEF nw
  <2>. QED
    BY <2>1, <2>2 DEF TypeOK
<1>7. bal' \in [Coins -> Nat] /\ \A c \in Coins : bal'[c] <= Supply[c]
  <2>1. bal' = [bal EXCEPT ![XEL] = @ - due["x"], ![a] = @ - due["y"]]
    BY DEF ClaimLpFees
  <2>. QED
    BY <1>3, <1>4, <2>1, BalancesPay
<1>. QED
  BY <1>5, <1>6, <1>7 DEF ClaimLpFees, TypeOK

LEMMA WithdrawType ==
  ASSUME TypeOK, NEW caller \in Wallets, NEW a \in Assets,
         NEW amt \in [Side -> Nat], WithdrawFees(caller, a, amt)
  PROVE  TypeOK'
<1> DEFINE f  == [s \in Side |-> pool[a].fees[s] - amt[s]]
           np == [pool[a] EXCEPT !.fees = f]
<1>1. Live(a) /\ pool[a] \in Pools
  BY LivePool DEF WithdrawFees
<1>2. pool[a].fees \in [Side -> Nat] /\ pool[a].res \in [Side -> Nat]
  BY <1>1 DEF Pools
<1>3. \A s \in Side : /\ amt[s] <= pool[a].fees[s]
                      /\ amt[s] > 0 => pool[a].res[s] + amt[s] <= bal[AssetOf(a, s)]
  BY DEF WithdrawFees
<1>4. pool' \in [Assets -> Pools \cup {None}]
  <2>1. pool' = [pool EXCEPT ![a] = np]
    BY DEF WithdrawFees
  <2>2. f \in [Side -> Nat]
    BY <1>2, <1>3
  <2> HIDE DEF f
  <2>3. np \in Pools
    BY <1>1, <2>2 DEF Pools
  <2> HIDE DEF np
  <2>. QED
    BY <2>1, <2>3 DEF TypeOK
<1>5. bal' \in [Coins -> Nat] /\ \A c \in Coins : bal'[c] <= Supply[c]
  <2>1. ASSUME NEW s \in Side  PROVE amt[s] <= bal[AssetOf(a, s)]
    <3>1. bal[AssetOf(a, s)] \in Nat
      BY DEF TypeOK, AssetOf, Coins
    <3>. QED
      BY <1>2, <1>3, <3>1
  <2>2. bal' = [bal EXCEPT ![XEL] = @ - amt["x"], ![a] = @ - amt["y"]]
    BY DEF WithdrawFees
  <2>. QED
    BY <2>1, <2>2, BalancesPay
<1>. QED
  BY <1>4, <1>5 DEF WithdrawFees, TypeOK

LEMMA BuysPausedType ==
  ASSUME TypeOK, NEW caller \in Wallets, NEW a \in Assets, NEW flag \in BOOLEAN,
         SetPoolBuysPaused(caller, a, flag)
  PROVE  TypeOK'
<1>1. pool[a] \in Pools
  BY LivePool DEF SetPoolBuysPaused
<1>2. [pool[a] EXCEPT !.bp = flag] \in Pools
  BY <1>1 DEF Pools
<1>. QED
  BY <1>2 DEF SetPoolBuysPaused, TypeOK

LEMMA StrayType ==
  ASSUME TypeOK, NEW c \in Coins, NEW d \in Nat, StrayDeposit(c, d)
  PROVE  TypeOK'
<1>1. bal \in [Coins -> Nat] /\ \A e \in Coins : bal[e] <= Supply[e]
  BY DEF TypeOK
<1>2. Supply \in [Coins -> Nat]
  BY DexConstants
<1>3. d <= Supply[c] - bal[c] /\ bal' = [bal EXCEPT ![c] = @ + d]
  BY DEF StrayDeposit, Outside
<1>4. bal' \in [Coins -> Nat] /\ \A e \in Coins : bal'[e] <= Supply[e]
  BY <1>1, <1>2, <1>3
<1>. QED
  BY <1>4 DEF StrayDeposit, TypeOK

LEMMA GovernType ==
  ASSUME TypeOK, NEW u \in Wallets, Govern(u)
  PROVE  TypeOK'
<1>1. CASE \E bps \in FeeArgs : SetSwapFee(u, bps)
  <2>1. PICK bps \in FeeArgs : SetSwapFee(u, bps)
    BY <1>1
  <2>2. bps \in 0..MAX_SWAP_FEE_BPS
    BY <2>1, DexConstants DEF SetSwapFee, FeeAccepted
  <2>. QED
    BY <2>1, <2>2 DEF SetSwapFee, TypeOK
<1>2. CASE \E bps \in SplitArgs : SetFeeSplit(u, bps)
  <2>1. PICK bps \in SplitArgs : SetFeeSplit(u, bps)
    BY <1>2
  <2>2. bps \in MIN_LP_SHARE_BPS..MAX_LP_SHARE_BPS
    BY <2>1, DexConstants DEF SetFeeSplit
  <2>. QED
    BY <2>1, <2>2 DEF SetFeeSplit, TypeOK
<1>3. CASE \E b \in BoundsArgs : SetTradeBounds(u, b)
  BY <1>3, DexConstants, ZenonT(60) DEF SetTradeBounds, TypeOK
<1>4. CASE \E v \in AddrArgs : SetLaunchpad(u, v) \/ SetAdmin(u, v)
  BY <1>4, DexConstants, ZenonT(60) DEF SetLaunchpad, SetAdmin, TypeOK
<1>5. CASE \E flag \in FlagArgs : SetPaused(u, flag)
  BY <1>5, DexConstants, ZenonT(60) DEF SetPaused, TypeOK
<1>. QED
  BY <1>1, <1>2, <1>3, <1>4, <1>5 DEF Govern
-----------------------------------------------------------------------------
\* Nothing of the initial state is out of type.
LEMMA InitType == Init => TypeOK
<1> SUFFICES ASSUME Init
             PROVE  TypeOK
  OBVIOUS
<1>1. Zero \in [Side -> Nat] /\ NoScore \in Scores /\ NoPosition \in Positions
  BY DEF Zero, NoScore, Scores, NoPosition, Positions
<1>2. \A c \in Coins : 0 <= Supply[c]
  BY DexConstants
<1>3. config \in [admin : Wallets, swapFee : 0..MAX_SWAP_FEE_BPS,
                 lpShare : MIN_LP_SHARE_BPS..MAX_LP_SHARE_BPS,
                 bounds : Bounds, paused : BOOLEAN,
                 lpx : Wallets \cup {None}, pinned : BOOLEAN]
  BY DexConstants DEF Init
<1>. QED
  BY <1>1, <1>2, <1>3 DEF Init, TypeOK

LEMMA StepType == TypeOK /\ [Next]_vars => TypeOK'
<1> SUFFICES ASSUME TypeOK, [Next]_vars
             PROVE  TypeOK'
  OBVIOUS
<1>0. Pairs \subseteq [Side -> Nat] /\ [Side -> MinOuts] \subseteq [Side -> Nat]
  BY DexConstants DEF Pairs
<1>1. CASE \E u \in Wallets, a \in Assets, seed \in Pairs : CreatePool(u, a, seed)
  BY <1>0, <1>1, SeedType DEF CreatePool
<1>2. CASE \E a \in Assets, seed \in Pairs : CreatePoolOpen(a, seed)
  BY <1>0, <1>2, SeedType DEF CreatePoolOpen
<1>3. CASE \E a \in Assets : Trade(a)
  BY <1>3, DexConstants, SwapType
     DEF Trade, SwapXelForToken, SwapTokenForXel, BuyGate, SellGate, Side
<1>4. CASE \E u \in Wallets, a \in Assets : Provide(u, a)
  BY <1>0, <1>4, DexConstants, AddType, RemoveType, ClaimType DEF Provide
<1>5. CASE \E u \in Wallets : Govern(u)
  BY <1>5, GovernType
<1>6. CASE \E u \in Wallets, a \in Assets, flag \in FlagArgs : SetPoolBuysPaused(u, a, flag)
  BY <1>6, DexConstants, BuysPausedType
<1>7. CASE \E u \in Wallets, a \in Assets, amt \in Pairs : WithdrawFees(u, a, amt)
  BY <1>0, <1>7, WithdrawType
<1>8. CASE \E c \in Coins, d \in StrayArgs : StrayDeposit(c, d)
  BY <1>8, DexConstants, StrayType
<1>9. CASE UNCHANGED vars
  BY <1>9 DEF vars, TypeOK
<1>. QED
  BY <1>1, <1>2, <1>3, <1>4, <1>5, <1>6, <1>7, <1>8, <1>9 DEF Next

\* Every slot of the DEX keeps its type in every reachable state: no
\* subtraction of a reserve, a pot, a position or a balance underflows, and
\* the fee parameters never leave their caps.
THEOREM Typed == Spec => []TypeOK
BY InitType, StepType, PTL DEF Spec

-----------------------------------------------------------------------------
(* The books: what the pools owe is covered by the balances, and the        *)
(* providers' parts add up to the depth.                                    *)


\* What a pool owes on one side.
Owed(p, s) == p.res[s] + p.fees[s] + p.pot[s]

LEMMA OwedType ==
  ASSUME NEW p \in Pools, NEW s \in Side
  PROVE  Owed(p, s) \in Nat
BY DEF Owed, Pools

LEMMA HeldType ==
  ASSUME TypeOK, NEW a \in Assets, NEW s \in Side
  PROVE  Held(a, s) \in Nat /\ (Live(a) => Held(a, s) = Owed(pool[a], s))
BY LivePool, OwedType DEF Held, Owed

\* A step that rewrites one pool, and adds to what it owes on each side no
\* more than the balance gains, keeps the balances sufficient.
LEMMA Booked ==
  ASSUME TypeOK, TypeOK', Solvency, NEW a \in Assets, NEW np \in Pools,
         pool' = [pool EXCEPT ![a] = np],
         \A b \in Assets \ {a} : bal'[b] = bal[b],
         \A s \in Side : Owed(np, s) - Held(a, s)
                           <= bal'[AssetOf(a, s)] - bal[AssetOf(a, s)]
  PROVE  Solvency'
<1> DEFINE f == [b \in Assets |-> Held(b, "x")]
           g == [b \in Assets |-> Held(b, "x")']
<1>1. \A b \in Assets, s \in Side : Held(b, s) \in Nat
  BY HeldType
<1>2. pool'[a] = np /\ \A b \in Assets \ {a} : pool'[b] = pool[b]
  BY DEF TypeOK
<1>3. \A b \in Assets \ {a}, s \in Side : Held(b, s)' = Held(b, s)
  BY <1>2 DEF Held, Live
<1>4. \A s \in Side : Held(a, s)' \in Nat /\ Held(a, s)' <= Owed(np, s)
  BY <1>2, OwedType DEF Held, Live, Owed
<1>5. \A s \in Side : /\ bal[AssetOf(a, s)] \in Nat /\ bal'[AssetOf(a, s)] \in Nat
                      /\ Owed(np, s) \in Nat
  BY OwedType DEF TypeOK, AssetOf, Coins
<1>6. f \in [Assets -> Nat] /\ g \in [Assets -> Nat]
  BY <1>1, <1>3, <1>4 DEF Side
<1>7. /\ \A b \in Assets \ {a} : g[b] = f[b]
      /\ f[a] = Held(a, "x") /\ g[a] = Held(a, "x")'
  BY <1>3 DEF Side
<1>8. /\ Total(f) <= bal[XEL]
      /\ \A b \in Assets : Held(b, "y") <= bal[b]
  BY DEF Solvency
<1>9. Total(f) \in Nat /\ Total(g) \in Nat
  BY <1>6, DexConstants, TotalType
<1> HIDE DEF f, g
<1>10. Total(g) = Total(f) - f[a] + g[a]
  BY <1>6, <1>7, DexConstants, TotalUpdate
<1>11. Total(g) <= bal'[XEL]
  <2>1. Owed(np, "x") - Held(a, "x") <= bal'[XEL] - bal[XEL]
    BY DEF AssetOf, Side
  <2>2. /\ bal[XEL] \in Nat /\ bal'[XEL] \in Nat /\ Owed(np, "x") \in Nat
        /\ Held(a, "x") \in Nat /\ Held(a, "x")' \in Nat
        /\ Held(a, "x")' <= Owed(np, "x")
    BY <1>1, <1>4, <1>5 DEF AssetOf, Side
  <2>. QED
    BY <1>7, <1>8, <1>9, <1>10, <2>1, <2>2
<1>12. ASSUME NEW b \in Assets  PROVE Held(b, "y")' <= bal'[b]
  <2>1. CASE b # a
    BY <1>3, <1>8, <2>1 DEF Side
  <2>2. CASE b = a
    <3>1. Owed(np, "y") - Held(a, "y") <= bal'[a] - bal[a]
      BY DEF AssetOf, Side
    <3>2. /\ bal[a] \in Nat /\ bal'[a] \in Nat /\ Owed(np, "y") \in Nat
          /\ Held(a, "y") \in Nat /\ Held(a, "y")' \in Nat
          /\ Held(a, "y")' <= Owed(np, "y")
      BY <1>1, <1>4, <1>5 DEF AssetOf, Side
    <3>3. Held(a, "y") <= bal[a]
      BY <1>8
    <3>. QED
      BY <2>2, <3>1, <3>2, <3>3
  <2>. QED
    BY <2>1, <2>2
<1>. QED
  BY <1>11, <1>12 DEF Solvency, g

-----------------------------------------------------------------------------
(* Solvency: one lemma per operation.                                      *)

\* A pool's token is not the native asset, nor another pool's token.
LEMMA Distinct ==
  ASSUME NEW a \in Assets
  PROVE  /\ AssetOf(a, "x") = XEL /\ AssetOf(a, "y") = a
         /\ a # XEL /\ a \in Coins /\ XEL \in Coins /\ XEL \notin Assets
BY DexConstants DEF AssetOf, Coins

\* A swap books what it brings in on one side, and takes what it pays out from
\* the reserve on the other.
LEMMA SwapSolvent ==
  ASSUME TypeOK, TypeOK', Solvency, NEW a \in Assets, Live(a), NEW s \in Side,
         NEW dep \in Nat, NEW minOut \in Nat, Swap(a, s, dep, minOut)
  PROVE  Solvency'
<1> DEFINE o  == Other(s)
           p  == pool[a]
           t  == Terms(a, s, dep)
           np == Traded(p, s, t.net, t.out, t.fee - t.lpPart, t.lpPart, t.accUp)
<1>1. p \in Pools /\ o \in Side /\ o # s
  BY LivePool DEF Other, Side
<1>2. p.tl \in Nat /\ p.res[s] \in Nat /\ p.res[o] \in Nat
  BY <1>1 DEF Pools
<1>3. /\ t.fee \in Nat /\ t.net \in Nat /\ t.net + t.fee = dep
      /\ t.lpPart \in Nat /\ t.lpPart <= t.fee /\ t.accUp \in Nat
  BY <1>2, SwapAmounts DEF Terms
<1>4. t.out \in Nat /\ t.out < p.res[o]
  BY SwapAmounts DEF Swap, SwapAccepted, Terms, Side
<1>5. /\ pool' = [pool EXCEPT ![a] = np]
      /\ bal' = [bal EXCEPT ![AssetOf(a, s)] = @ + dep,
                            ![AssetOf(a, o)] = @ - t.out]
  BY DEF Swap
<1> HIDE DEF t
<1>6. t.fee - t.lpPart \in Nat
  BY <1>3
<1>7. np \in Pools
  <2>1. t.out <= p.res[Other(s)]
    BY <1>2, <1>4
  <2> HIDE DEF o, p
  <2>. QED
    BY <1>1, <1>3, <1>4, <1>6, <2>1, TradedType
<1>8. /\ Owed(np, s) = Owed(p, s) + dep
      /\ Owed(np, o) = Owed(p, o) - t.out
      /\ Owed(p, s) \in Nat /\ Owed(p, o) \in Nat
  <2> DEFINE r == [p.res EXCEPT ![s] = @ + t.net, ![o] = @ - t.out]
             f == [p.fees EXCEPT ![s] = @ + (t.fee - t.lpPart)]
             q == [p.pot EXCEPT ![s] = @ + t.lpPart]
  <2>1. np.res = r /\ np.fees = f /\ np.pot = q
    BY <1>1 DEF Traded, Pools
  <2>2. Owed(p, s) \in Nat /\ Owed(p, o) \in Nat
    BY <1>1, OwedType
  <2>3. /\ p.res \in [Side -> Nat] /\ p.fees \in [Side -> Nat]
        /\ p.pot \in [Side -> Nat]
    BY <1>1 DEF Pools
  <2> HIDE DEF np, p, o
  <2>4. /\ r[s] = p.res[s] + t.net /\ r[o] = p.res[o] - t.out
        /\ f[s] = p.fees[s] + (t.fee - t.lpPart) /\ f[o] = p.fees[o]
        /\ q[s] = p.pot[s] + t.lpPart /\ q[o] = p.pot[o]
    BY <1>1, <2>3
  <2>5. /\ p.res[s] \in Nat /\ p.fees[s] \in Nat /\ p.pot[s] \in Nat
        /\ p.res[o] \in Nat /\ p.fees[o] \in Nat /\ p.pot[o] \in Nat
    BY <1>1, <2>3
  <2> HIDE DEF r, f, q
  <2>. QED
    BY <1>3, <1>4, <1>6, <2>1, <2>2, <2>4, <2>5 DEF Owed
<1> HIDE DEF np
<1>9. /\ bal \in [Coins -> Nat]
      /\ AssetOf(a, s) \in Coins /\ AssetOf(a, o) \in Coins
      /\ AssetOf(a, s) # AssetOf(a, o)
  BY Distinct DEF TypeOK, AssetOf, Other, Side
<1>10. /\ bal'[AssetOf(a, s)] = bal[AssetOf(a, s)] + dep
       /\ bal'[AssetOf(a, o)] = bal[AssetOf(a, o)] - t.out
       /\ \A c \in Coins \ {AssetOf(a, s), AssetOf(a, o)} : bal'[c] = bal[c]
  BY <1>5, <1>9
<1>11. \A b \in Assets \ {a} : bal'[b] = bal[b]
  <2>1. \A c \in Assets \ {a} : c \in Coins /\ c # XEL /\ c # a
    BY DexConstants DEF Coins
  <2>2. AssetOf(a, s) \in {XEL, a} /\ AssetOf(a, o) \in {XEL, a}
    BY DEF AssetOf
  <2> HIDE DEF o
  <2>. QED
    BY <1>10, <2>1, <2>2
<1>12. ASSUME NEW e \in Side
       PROVE  Owed(np, e) - Held(a, e) <= bal'[AssetOf(a, e)] - bal[AssetOf(a, e)]
  <2>1. e = s \/ e = o
    BY DEF Other, Side
  <2>2. Held(a, e) = Owed(p, e)
    BY HeldType
  <2>3. bal[AssetOf(a, s)] \in Nat /\ bal[AssetOf(a, o)] \in Nat
    BY <1>9
  <2> HIDE DEF o, p
  <2>4. CASE e = s
    BY <1>8, <1>10, <2>2, <2>3, <2>4
  <2>5. CASE e = o
    BY <1>4, <1>8, <1>10, <2>2, <2>3, <2>5
  <2>. QED
    BY <2>1, <2>4, <2>5
<1>. QED
  BY <1>5, <1>7, <1>11, <1>12, Booked

\* What a call attaches on both sides, or is paid on both, moves the balances
\* as it moves what the pool owes.
LEMMA BookedGrow ==
  ASSUME TypeOK, TypeOK', Solvency, NEW a \in Assets, NEW np \in Pools,
         NEW m \in [Side -> Nat],
         pool' = [pool EXCEPT ![a] = np],
         bal' = [bal EXCEPT ![XEL] = @ + m["x"], ![a] = @ + m["y"]],
         \A s \in Side : Owed(np, s) = Held(a, s) + m[s]
  PROVE  Solvency'
<1>1. bal \in [Coins -> Nat] /\ m["x"] \in Nat /\ m["y"] \in Nat
  BY DEF TypeOK, Side
<1>2. \A b \in Assets \ {a} : b \in Coins /\ b # XEL /\ b # a
  BY DexConstants DEF Coins
<1>3. \A b \in Assets \ {a} : bal'[b] = bal[b]
  BY <1>1, <1>2
<1>4. ASSUME NEW s \in Side
      PROVE  Owed(np, s) - Held(a, s) <= bal'[AssetOf(a, s)] - bal[AssetOf(a, s)]
  <2>1. bal'[AssetOf(a, s)] = bal[AssetOf(a, s)] + m[s]
    BY <1>1, Distinct DEF AssetOf, Side
  <2>2. bal[AssetOf(a, s)] \in Nat /\ m[s] \in Nat /\ Held(a, s) \in Nat
    BY <1>1, Distinct, HeldType DEF AssetOf, Side
  <2>. QED
    BY <2>1, <2>2
<1>. QED
  BY <1>3, <1>4, Booked

LEMMA BookedPay ==
  ASSUME TypeOK, TypeOK', Solvency, NEW a \in Assets, NEW np \in Pools,
         NEW m \in [Side -> Nat],
         pool' = [pool EXCEPT ![a] = np],
         bal' = [bal EXCEPT ![XEL] = @ - m["x"], ![a] = @ - m["y"]],
         \A s \in Side : Owed(np, s) = Held(a, s) - m[s]
  PROVE  Solvency'
<1>1. bal \in [Coins -> Nat] /\ m["x"] \in Nat /\ m["y"] \in Nat
  BY DEF TypeOK, Side
<1>2. \A b \in Assets \ {a} : b \in Coins /\ b # XEL /\ b # a
  BY DexConstants DEF Coins
<1>3. \A b \in Assets \ {a} : bal'[b] = bal[b]
  BY <1>1, <1>2
<1>4. ASSUME NEW s \in Side
      PROVE  Owed(np, s) - Held(a, s) <= bal'[AssetOf(a, s)] - bal[AssetOf(a, s)]
  <2>1. bal'[AssetOf(a, s)] = bal[AssetOf(a, s)] - m[s]
    BY <1>1, Distinct DEF AssetOf, Side
  <2>2. bal[AssetOf(a, s)] \in Nat /\ m[s] \in Nat /\ Held(a, s) \in Nat
    BY <1>1, Distinct, HeldType DEF AssetOf, Side
  <2>. QED
    BY <2>1, <2>2
<1>. QED
  BY <1>3, <1>4, Booked

LEMMA SeedSolvent ==
  ASSUME TypeOK, TypeOK', Solvency, NEW a \in Assets, NEW seed \in [Side -> Nat],
         SeedPool(a, seed, FALSE)
  PROVE  Solvency'
<1> DEFINE np == [res |-> seed, fees |-> Zero, pot |-> Zero, acc |-> Zero,
                  tl |-> seed["x"], pl |-> seed["x"], bp |-> FALSE]
<1>1. /\ ~Live(a)
      /\ pool' = [pool EXCEPT ![a] = np]
      /\ bal' = [bal EXCEPT ![XEL] = @ + seed["x"], ![a] = @ + seed["y"]]
  BY DEF SeedPool
<1>2. np \in Pools
  BY DEF Pools, Zero, Side
<1>3. \A s \in Side : seed[s] \in Nat /\ Owed(np, s) = Held(a, s) + seed[s]
  BY <1>1 DEF Owed, Held, Zero
<1> HIDE DEF np
<1>. QED
  BY <1>1, <1>2, <1>3, BookedGrow

LEMMA AddSolvent ==
  ASSUME TypeOK, TypeOK', Solvency, NEW caller \in Wallets, NEW a \in Assets,
         NEW in \in [Side -> Nat], AddLiquidity(caller, a, in)
  PROVE  Solvency'
<1> DEFINE p   == pool[a]
           eff == Fit(p.res, in)
           r   == [s \in Side |-> p.res[s] + eff[s]]
           np  == [p EXCEPT !.res = r, !.tl = @ + eff["x"]]
<1>1. Live(a) /\ p \in Pools
  BY LivePool DEF AddLiquidity
<1>2. p.res \in [Side -> Nat] /\ p.fees \in [Side -> Nat]
      /\ p.pot \in [Side -> Nat] /\ p.tl \in Nat
  BY <1>1 DEF Pools
<1>3. eff \in [Side -> Nat] /\ eff["x"] \in Nat
  <2>1. p.res["x"] > 0 /\ p.res["y"] > 0
    BY DEF AddLiquidity, Side
  <2>. QED
    BY <1>2, <2>1, FitType DEF Side
<1>4. /\ pool' = [pool EXCEPT ![a] = np]
      /\ bal' = [bal EXCEPT ![XEL] = @ + eff["x"], ![a] = @ + eff["y"]]
  BY DEF AddLiquidity
<1> HIDE DEF eff
<1>5. r \in [Side -> Nat] /\ p.tl + eff["x"] \in Nat
  BY <1>2, <1>3
<1>6. np \in Pools /\ np.res = r /\ np.fees = p.fees /\ np.pot = p.pot
  <2> HIDE DEF r, p
  <2>. QED
    BY <1>1, <1>5 DEF Pools
<1>7. ASSUME NEW s \in Side  PROVE Owed(np, s) = Held(a, s) + eff[s]
  <2>1. Held(a, s) = Owed(p, s)
    BY <1>1, HeldType
  <2>2. r[s] = p.res[s] + eff[s]
    OBVIOUS
  <2>3. p.res[s] \in Nat /\ p.fees[s] \in Nat /\ p.pot[s] \in Nat /\ eff[s] \in Nat
    BY <1>2, <1>3
  <2> HIDE DEF np, p, r
  <2>. QED
    BY <1>6, <2>1, <2>2, <2>3 DEF Owed
<1> HIDE DEF np
<1>. QED
  BY <1>3, <1>4, <1>6, <1>7, BookedGrow

LEMMA RemoveSolvent ==
  ASSUME TypeOK, TypeOK', Solvency, NEW caller \in Wallets, NEW a \in Assets,
         NEW n \in Nat, NEW min \in [Side -> Nat], RemoveLiquidity(caller, a, n, min)
  PROVE  Solvency'
<1> DEFINE p   == pool[a]
           out == Slice(a, n)
           r   == [s \in Side |-> p.res[s] - out[s]]
           np  == [p EXCEPT !.res = r, !.tl = @ - n]
<1>1. Live(a) /\ p \in Pools
  BY LivePool DEF RemoveLiquidity, RemoveAccepted
<1>2. p.res \in [Side -> Nat] /\ p.fees \in [Side -> Nat]
      /\ p.pot \in [Side -> Nat] /\ p.tl \in Nat /\ p.pl \in Nat
  BY <1>1 DEF Pools
<1>3. out \in [Side -> Nat]
  BY <1>1, SliceType DEF RemoveLiquidity, RemoveAccepted
<1>4. p.tl - n >= p.pl /\ \A s \in Side : p.res[s] > out[s]
  BY DEF RemoveLiquidity, RemoveAccepted
<1>5. /\ pool' = [pool EXCEPT ![a] = np]
      /\ bal' = [bal EXCEPT ![XEL] = @ - out["x"], ![a] = @ - out["y"]]
  BY DEF RemoveLiquidity
<1> HIDE DEF out
<1>6. r \in [Side -> Nat] /\ p.tl - n \in Nat
  BY <1>2, <1>3, <1>4
<1>7. np \in Pools /\ np.res = r /\ np.fees = p.fees /\ np.pot = p.pot
  <2> HIDE DEF r, p
  <2>. QED
    BY <1>1, <1>6 DEF Pools
<1>8. ASSUME NEW s \in Side  PROVE Owed(np, s) = Held(a, s) - out[s]
  <2>1. Held(a, s) = Owed(p, s)
    BY <1>1, HeldType
  <2>2. r[s] = p.res[s] - out[s]
    OBVIOUS
  <2>3. p.res[s] \in Nat /\ p.fees[s] \in Nat /\ p.pot[s] \in Nat /\ out[s] \in Nat
    BY <1>2, <1>3
  <2> HIDE DEF np, p, r
  <2>. QED
    BY <1>7, <2>1, <2>2, <2>3 DEF Owed
<1> HIDE DEF np
<1>. QED
  BY <1>3, <1>5, <1>7, <1>8, BookedPay

LEMMA ClaimSolvent ==
  ASSUME TypeOK, TypeOK', Solvency, NEW caller \in Wallets, NEW a \in Assets,
         ClaimLpFees(caller, a)
  PROVE  Solvency'
<1> DEFINE p   == pool[a]
           due == Crystallised(a, caller)
           q   == [s \in Side |-> p.pot[s] - due[s]]
           np  == [p EXCEPT !.pot = q]
<1>1. Live(a) /\ p \in Pools
  BY LivePool DEF ClaimLpFees, ClaimAccepted
<1>2. p.res \in [Side -> Nat] /\ p.fees \in [Side -> Nat] /\ p.pot \in [Side -> Nat]
  BY <1>1 DEF Pools
<1>3. due \in [Side -> Nat]
  BY <1>1, CrystallisedType
<1>4. \A s \in Side : due[s] <= p.pot[s]
  BY DEF ClaimLpFees, ClaimAccepted
<1>5. /\ pool' = [pool EXCEPT ![a] = np]
      /\ bal' = [bal EXCEPT ![XEL] = @ - due["x"], ![a] = @ - due["y"]]
  BY DEF ClaimLpFees
<1> HIDE DEF due
<1>6. q \in [Side -> Nat]
  BY <1>2, <1>3, <1>4
<1>7. np \in Pools /\ np.res = p.res /\ np.fees = p.fees /\ np.pot = q
  <2> HIDE DEF q, p
  <2>. QED
    BY <1>1, <1>6 DEF Pools
<1>8. ASSUME NEW s \in Side  PROVE Owed(np, s) = Held(a, s) - due[s]
  <2>1. Held(a, s) = Owed(p, s)
    BY <1>1, HeldType
  <2>2. q[s] = p.pot[s] - due[s]
    OBVIOUS
  <2>3. p.res[s] \in Nat /\ p.fees[s] \in Nat /\ p.pot[s] \in Nat /\ due[s] \in Nat
    BY <1>2, <1>3
  <2> HIDE DEF np, p, q
  <2>. QED
    BY <1>7, <2>1, <2>2, <2>3 DEF Owed
<1> HIDE DEF np
<1>. QED
  BY <1>3, <1>5, <1>7, <1>8, BookedPay

LEMMA WithdrawSolvent ==
  ASSUME TypeOK, TypeOK', Solvency, NEW caller \in Wallets, NEW a \in Assets,
         NEW amt \in [Side -> Nat], WithdrawFees(caller, a, amt)
  PROVE  Solvency'
<1> DEFINE p  == pool[a]
           f  == [s \in Side |-> p.fees[s] - amt[s]]
           np == [p EXCEPT !.fees = f]
<1>1. Live(a) /\ p \in Pools
  BY LivePool DEF WithdrawFees
<1>2. p.res \in [Side -> Nat] /\ p.fees \in [Side -> Nat] /\ p.pot \in [Side -> Nat]
  BY <1>1 DEF Pools
<1>3. \A s \in Side : amt[s] <= p.fees[s]
  BY DEF WithdrawFees
<1>4. /\ pool' = [pool EXCEPT ![a] = np]
      /\ bal' = [bal EXCEPT ![XEL] = @ - amt["x"], ![a] = @ - amt["y"]]
  BY DEF WithdrawFees
<1>5. f \in [Side -> Nat]
  BY <1>2, <1>3
<1>6. np \in Pools /\ np.res = p.res /\ np.fees = f /\ np.pot = p.pot
  <2> HIDE DEF f, p
  <2>. QED
    BY <1>1, <1>5 DEF Pools
<1>7. ASSUME NEW s \in Side  PROVE Owed(np, s) = Held(a, s) - amt[s]
  <2>1. Held(a, s) = Owed(p, s)
    BY <1>1, HeldType
  <2>2. f[s] = p.fees[s] - amt[s]
    OBVIOUS
  <2>3. p.res[s] \in Nat /\ p.fees[s] \in Nat /\ p.pot[s] \in Nat /\ amt[s] \in Nat
    BY <1>2
  <2> HIDE DEF np, p, f
  <2>. QED
    BY <1>6, <2>1, <2>2, <2>3 DEF Owed
<1> HIDE DEF np
<1>. QED
  BY <1>4, <1>6, <1>7, BookedPay

LEMMA BuysPausedSolvent ==
  ASSUME TypeOK, TypeOK', Solvency, NEW caller \in Wallets, NEW a \in Assets,
         NEW flag \in BOOLEAN, SetPoolBuysPaused(caller, a, flag)
  PROVE  Solvency'
<1> DEFINE p  == pool[a]
           np == [p EXCEPT !.bp = flag]
<1>1. Live(a) /\ p \in Pools
  BY LivePool DEF SetPoolBuysPaused
<1>2. np \in Pools /\ np.res = p.res /\ np.fees = p.fees /\ np.pot = p.pot
  <2> HIDE DEF p
  <2>. QED
    BY <1>1 DEF Pools
<1>3. pool' = [pool EXCEPT ![a] = np] /\ bal' = bal
  BY DEF SetPoolBuysPaused
<1>4. ASSUME NEW s \in Side
      PROVE  Owed(np, s) - Held(a, s) <= bal'[AssetOf(a, s)] - bal[AssetOf(a, s)]
  <2>1. Owed(np, s) = Held(a, s) /\ Held(a, s) \in Nat
    BY <1>1, <1>2, HeldType DEF Owed
  <2>2. bal[AssetOf(a, s)] \in Nat
    BY DEF TypeOK, AssetOf, Coins
  <2>. QED
    BY <1>3, <2>1, <2>2
<1> HIDE DEF np
<1>. QED
  BY <1>2, <1>3, <1>4, Booked

\* A stray deposit only adds to a balance.
LEMMA StraySolvent ==
  ASSUME TypeOK, Solvency, NEW c \in Coins, NEW d \in Nat, StrayDeposit(c, d)
  PROVE  Solvency'
<1> DEFINE f == [a \in Assets |-> Held(a, "x")]
<1>1. bal \in [Coins -> Nat] /\ bal' = [bal EXCEPT ![c] = @ + d] /\ pool' = pool
  BY DEF TypeOK, StrayDeposit
<1>2. \A e \in Coins : bal'[e] \in Nat /\ bal[e] <= bal'[e]
  BY <1>1
<1>3. \A a \in Assets : Held(a, "x")' = Held(a, "x") /\ Held(a, "y")' = Held(a, "y")
                        /\ Held(a, "x") \in Nat /\ Held(a, "y") \in Nat
  BY <1>1, HeldType DEF Held, Live, Side
<1>4. Total(f) \in Nat /\ Total(f)' = Total(f)
  BY <1>1, <1>3, DexConstants, TotalType DEF Held, Live
<1>5. Total(f) <= bal[XEL] /\ \A a \in Assets : Held(a, "y") <= bal[a]
  BY DEF Solvency
<1>6. XEL \in Coins /\ Assets \subseteq Coins
  BY DEF Coins
<1>7. Total(f)' <= bal'[XEL]
  <2> HIDE DEF f
  <2>. QED
    BY <1>1, <1>2, <1>4, <1>5, <1>6
<1>8. \A a \in Assets : Held(a, "y")' <= bal'[a]
  BY <1>1, <1>2, <1>3, <1>5, <1>6
<1>. QED
  BY <1>7, <1>8 DEF Solvency

\* Nothing is owed before the first pool.
LEMMA InitSolvent == Init => Solvency
<1> SUFFICES ASSUME Init
             PROVE  Solvency
  OBVIOUS
<1> DEFINE f == [a \in Assets |-> Held(a, "x")]
<1>1. \A a \in Assets, s \in Side : Held(a, s) = 0
  BY DEF Init, Held, Live
<1>2. f \in [Assets -> Nat] /\ \A a \in Assets : f[a] = 0
  BY <1>1 DEF Side
<1>3. bal[XEL] = 0 /\ \A a \in Assets : bal[a] = 0
  BY DEF Init, Coins
<1>4. Total(f) = 0
  <2> HIDE DEF f
  <2>. QED
    BY <1>2, TotalZero
<1>. QED
  BY <1>1, <1>3, <1>4 DEF Solvency, Side

LEMMA StillSolvent ==
  ASSUME Solvency, UNCHANGED <<pool, bal>>
  PROVE  Solvency'
BY DEF Solvency, Held, Live

LEMMA StepSolvent == TypeOK /\ TypeOK' /\ Solvency /\ [Next]_vars => Solvency'
<1> SUFFICES ASSUME TypeOK, TypeOK', Solvency, [Next]_vars
             PROVE  Solvency'
  OBVIOUS
<1>0. Pairs \subseteq [Side -> Nat] /\ [Side -> MinOuts] \subseteq [Side -> Nat]
  BY DexConstants DEF Pairs
<1>1. CASE \E u \in Wallets, a \in Assets, seed \in Pairs : CreatePool(u, a, seed)
  BY <1>0, <1>1, SeedSolvent DEF CreatePool
<1>2. CASE \E a \in Assets, seed \in Pairs : CreatePoolOpen(a, seed)
  BY <1>0, <1>2, SeedSolvent DEF CreatePoolOpen
<1>3. CASE \E a \in Assets : Trade(a)
  BY <1>3, DexConstants, SwapSolvent
     DEF Trade, SwapXelForToken, SwapTokenForXel, BuyGate, SellGate, Side
<1>4. CASE \E u \in Wallets, a \in Assets : Provide(u, a)
  BY <1>0, <1>4, DexConstants, AddSolvent, RemoveSolvent, ClaimSolvent DEF Provide
<1>5. CASE \E u \in Wallets : Govern(u)
  BY <1>5, StillSolvent DEF Govern, SetSwapFee, SetFeeSplit, SetTradeBounds,
                            SetLaunchpad, SetAdmin, SetPaused
<1>6. CASE \E u \in Wallets, a \in Assets, flag \in FlagArgs : SetPoolBuysPaused(u, a, flag)
  BY <1>6, DexConstants, BuysPausedSolvent
<1>7. CASE \E u \in Wallets, a \in Assets, amt \in Pairs : WithdrawFees(u, a, amt)
  BY <1>0, <1>7, WithdrawSolvent
<1>8. CASE \E c \in Coins, d \in StrayArgs : StrayDeposit(c, d)
  BY <1>8, DexConstants, StraySolvent
<1>9. CASE UNCHANGED vars
  BY <1>9, StillSolvent DEF vars
<1>. QED
  BY <1>1, <1>2, <1>3, <1>4, <1>5, <1>6, <1>7, <1>8, <1>9 DEF Next

\* IX1, IX2, IX8: in every reachable state, for any number of pools and
\* providers, what the pools owe is in the contract's balances.
THEOREM Solvent == Spec => []Solvency
<1>1. TypeOK /\ Solvency /\ [Next]_vars => TypeOK' /\ Solvency'
  BY StepType, StepSolvent
<1>2. Init => TypeOK /\ Solvency
  BY InitType, InitSolvent
<1>. QED
  BY <1>1, <1>2, PTL DEF Spec

-----------------------------------------------------------------------------
(* The providers' parts.                                                   *)

AllParts(a) == Total([u \in Wallets |-> pos[a][u].parts])
Withdrawables(a) == Total([u \in Wallets |-> pos[a][u].w])

\* The part of PartsLedger about one pool, and what makes a seed start from
\* nothing: before its pool exists nobody holds a part of it.
LedgerOf(a) ==
  /\ AllParts(a) = pool[a].tl
  /\ Withdrawables(a) = pool[a].tl - pool[a].pl
  /\ \A u \in Wallets : pos[a][u].w <= pos[a][u].parts
  /\ pool[a].pl >= MIN_LP_ADD_XEL
Unseeded(a) == \A u \in Wallets : pos[a][u].parts = 0 /\ pos[a][u].w = 0
PartsInv == \A a \in Assets : IF Live(a) THEN LedgerOf(a) ELSE Unseeded(a)

LEMMA PartsInvImplies == PartsInv => PartsLedger
BY DEF PartsInv, LedgerOf, AllParts, Withdrawables, PartsLedger

\* Rewriting one position of a pool moves the sums by its change.
LEMMA PartsMove ==
  ASSUME TypeOK, TypeOK', NEW a \in Assets, NEW u \in Wallets,
         \A v \in Wallets \ {u} : pos'[a][v] = pos[a][v]
  PROVE  /\ AllParts(a) \in Nat /\ Withdrawables(a) \in Nat
         /\ AllParts(a)' = AllParts(a) - pos[a][u].parts + pos'[a][u].parts
         /\ Withdrawables(a)' = Withdrawables(a) - pos[a][u].w + pos'[a][u].w
<1> DEFINE f  == [v \in Wallets |-> pos[a][v].parts]
           g  == [v \in Wallets |-> pos'[a][v].parts]
           fw == [v \in Wallets |-> pos[a][v].w]
           gw == [v \in Wallets |-> pos'[a][v].w]
<1>1. /\ f \in [Wallets -> Nat] /\ g \in [Wallets -> Nat]
      /\ fw \in [Wallets -> Nat] /\ gw \in [Wallets -> Nat]
  <2>1. \A v \in Wallets : pos[a][v] \in Positions /\ pos'[a][v] \in Positions
    BY DEF TypeOK
  <2>. QED
    BY <2>1 DEF Positions
<1>2. /\ \A v \in Wallets \ {u} : g[v] = f[v] /\ gw[v] = fw[v]
      /\ f[u] = pos[a][u].parts /\ fw[u] = pos[a][u].w
      /\ g[u] = pos'[a][u].parts /\ gw[u] = pos'[a][u].w
  OBVIOUS
<1>3. /\ AllParts(a) = Total(f) /\ AllParts(a)' = Total(g)
      /\ Withdrawables(a) = Total(fw) /\ Withdrawables(a)' = Total(gw)
  BY DEF AllParts, Withdrawables
<1> HIDE DEF f, g, fw, gw
<1>4. Total(g) = Total(f) - f[u] + g[u] /\ Total(gw) = Total(fw) - fw[u] + gw[u]
  BY <1>1, <1>2, DexConstants, TotalUpdate
<1>5. Total(f) \in Nat /\ Total(fw) \in Nat
  BY <1>1, DexConstants, TotalType
<1>. QED
  BY <1>2, <1>3, <1>4, <1>5

\* The ledger of a pool that a step leaves alone.
LEMMA PartsElsewhere ==
  ASSUME PartsInv, NEW b \in Assets, pool'[b] = pool[b], pos'[b] = pos[b]
  PROVE  IF Live(b)' THEN LedgerOf(b)' ELSE Unseeded(b)'
BY DEF PartsInv, LedgerOf, Unseeded, Live, AllParts, Withdrawables

\* A step that mints or burns parts of one provider, in its position and in
\* the depth alike.
LEMMA PartsMoved ==
  ASSUME TypeOK, TypeOK', PartsInv, NEW a \in Assets, Live(a), Live(a)',
         NEW u \in Wallets,
         \A b \in Assets \ {a} : pool'[b] = pool[b] /\ pos'[b] = pos[b],
         \A v \in Wallets \ {u} : pos'[a][v] = pos[a][v],
         pool'[a].pl = pool[a].pl,
         pool'[a].tl - pool[a].tl = pos'[a][u].parts - pos[a][u].parts,
         pool'[a].tl - pool[a].tl = pos'[a][u].w - pos[a][u].w
  PROVE  PartsInv'
<1>1. /\ AllParts(a)' = AllParts(a) - pos[a][u].parts + pos'[a][u].parts
      /\ Withdrawables(a)' = Withdrawables(a) - pos[a][u].w + pos'[a][u].w
  BY PartsMove
<1>2. LedgerOf(a)
  BY DEF PartsInv
<1>3. /\ pos[a][u].parts \in Nat /\ pos[a][u].w \in Nat
      /\ pos'[a][u].parts \in Nat /\ pos'[a][u].w \in Nat
      /\ pool[a].tl \in Nat /\ pool[a].pl \in Nat /\ pool'[a].tl \in Nat
  <2>1. pool[a] \in Pools /\ pool'[a] \in Pools
    BY DEF TypeOK, Live
  <2>2. pos[a][u] \in Positions /\ pos'[a][u] \in Positions
    BY DEF TypeOK
  <2>. QED
    BY <2>1, <2>2 DEF Positions, Pools
<1>4. AllParts(a)' = pool'[a].tl /\ Withdrawables(a)' = pool'[a].tl - pool'[a].pl
  BY <1>1, <1>2, <1>3 DEF LedgerOf
<1>5. \A v \in Wallets : pos'[a][v].w <= pos'[a][v].parts
  BY <1>2, <1>3 DEF LedgerOf
<1>6. LedgerOf(a)'
  BY <1>2, <1>4, <1>5 DEF LedgerOf
<1>. QED
  BY <1>6, PartsElsewhere DEF PartsInv

\* A step that touches neither the positions nor the depths.
LEMMA PartsKept ==
  ASSUME PartsInv, pos' = pos,
         \A b \in Assets : /\ Live(b)' <=> Live(b)
                           /\ Live(b) => /\ pool'[b].tl = pool[b].tl
                                         /\ pool'[b].pl = pool[b].pl
  PROVE  PartsInv'
<1>1. \A b \in Assets : AllParts(b)' = AllParts(b) /\ Withdrawables(b)' = Withdrawables(b)
  BY DEF AllParts, Withdrawables
<1>. QED
  BY <1>1 DEF PartsInv, LedgerOf, Unseeded

\* The seed mints its parts to the admin, whose position of an unborn pool is
\* empty, and none of them is withdrawable.
LEMMA SeedParts ==
  ASSUME TypeOK, TypeOK', PartsInv, NEW a \in Assets, NEW seed \in [Side -> Nat],
         SeedPool(a, seed, FALSE)
  PROVE  PartsInv'
<1> DEFINE np == [res |-> seed, fees |-> Zero, pot |-> Zero, acc |-> Zero,
                  tl |-> seed["x"], pl |-> seed["x"], bp |-> FALSE]
<1>1. PICK u \in Wallets : u = config.admin
  BY DEF TypeOK
<1>2. /\ ~Live(a) /\ seed["x"] >= MIN_LP_ADD_XEL /\ seed["x"] \in Nat
      /\ pos' = [pos EXCEPT ![a][u] = SeedPosition(@, seed["x"])]
      /\ pool' = [pool EXCEPT ![a] = np]
      /\ np \in Pools
  <2>1. np \in Pools
    BY DEF Pools, Zero, Side
  <2>. QED
    BY <1>1, <2>1 DEF SeedPool, SeedAccepted, Side
<1>3. /\ \A b \in Assets \ {a} : pool'[b] = pool[b] /\ pos'[b] = pos[b]
      /\ \A v \in Wallets \ {u} : pos'[a][v] = pos[a][v]
      /\ pool'[a].tl = seed["x"] /\ pool'[a].pl = seed["x"] /\ pool'[a] \in Pools
      /\ pos'[a][u] = SeedPosition(pos[a][u], seed["x"])
  BY <1>2 DEF TypeOK
<1>4. \A v \in Wallets : pos[a][v].parts = 0 /\ pos[a][v].w = 0
  BY <1>2 DEF PartsInv, Unseeded
<1>5. pos'[a][u].parts = seed["x"] /\ pos'[a][u].w = 0
  BY <1>3, <1>4 DEF SeedPosition
<1>6. AllParts(a) = 0 /\ Withdrawables(a) = 0
  <2> DEFINE f  == [v \in Wallets |-> pos[a][v].parts]
             fw == [v \in Wallets |-> pos[a][v].w]
  <2>1. f \in [Wallets -> Nat] /\ \A v \in Wallets : f[v] = 0
    BY <1>4
  <2>2. fw \in [Wallets -> Nat] /\ \A v \in Wallets : fw[v] = 0
    BY <1>4
  <2>3. AllParts(a) = Total(f) /\ Withdrawables(a) = Total(fw)
    BY DEF AllParts, Withdrawables
  <2> HIDE DEF f, fw
  <2>. QED
    BY <2>1, <2>2, <2>3, TotalZero
<1>7. AllParts(a)' = seed["x"] /\ Withdrawables(a)' = 0
  <2>1. /\ AllParts(a)' = AllParts(a) - pos[a][u].parts + pos'[a][u].parts
        /\ Withdrawables(a)' = Withdrawables(a) - pos[a][u].w + pos'[a][u].w
    BY <1>3, PartsMove
  <2>. QED
    BY <1>2, <1>4, <1>5, <1>6, <2>1
<1>8. LedgerOf(a)'
  BY <1>2, <1>3, <1>4, <1>5, <1>7 DEF LedgerOf
<1>9. Live(a)'
  BY <1>3, NoneIsNoPool DEF Live
<1>. QED
  BY <1>3, <1>8, <1>9, PartsElsewhere DEF PartsInv

LEMMA AddParts ==
  ASSUME TypeOK, TypeOK', PartsInv, NEW caller \in Wallets, NEW a \in Assets,
         NEW in \in [Side -> Nat], AddLiquidity(caller, a, in)
  PROVE  PartsInv'
<1> DEFINE p   == pool[a]
           eff == Fit(p.res, in)
           r   == [s \in Side |-> p.res[s] + eff[s]]
           np  == [p EXCEPT !.res = r, !.tl = @ + eff["x"]]
<1>1. Live(a) /\ p \in Pools /\ pos[a][caller] \in Positions
  <2>1. Live(a)
    BY DEF AddLiquidity
  <2>2. pos[a][caller] \in Positions
    BY DEF TypeOK
  <2>. QED
    BY <2>1, <2>2, LivePool
<1>2. p.res \in [Side -> Nat] /\ p.tl \in Nat /\ p.pl \in Nat
  BY <1>1 DEF Pools
<1>3. eff \in [Side -> Nat] /\ eff["x"] \in Nat
  <2>1. p.res["x"] > 0 /\ p.res["y"] > 0
    BY DEF AddLiquidity, Side
  <2>. QED
    BY <1>2, <2>1, FitType DEF Side
<1>4. pool' = [pool EXCEPT ![a] = np]
  BY DEF AddLiquidity
<1>5. /\ \A b \in Assets \ {a} : pool'[b] = pool[b] /\ pos'[b] = pos[b]
      /\ \A v \in Wallets \ {caller} : pos'[a][v] = pos[a][v]
  BY DEF AddLiquidity, TypeOK
<1>6. /\ pos'[a][caller].parts = pos[a][caller].parts + eff["x"]
      /\ pos'[a][caller].w = pos[a][caller].w + eff["x"]
  BY DEF AddLiquidity, TypeOK
<1>7. pos[a][caller].parts \in Nat /\ pos[a][caller].w \in Nat
  BY <1>1 DEF Positions
<1>8. pool'[a] = np
  BY <1>4 DEF TypeOK
<1> HIDE DEF eff
<1>9. r \in [Side -> Nat] /\ p.tl + eff["x"] \in Nat
  BY <1>2, <1>3
<1>10. np \in Pools /\ np.pl = p.pl /\ np.tl = p.tl + eff["x"]
  <2> HIDE DEF r, p
  <2>. QED
    BY <1>1, <1>9 DEF Pools
<1> HIDE DEF np
<1>11. /\ pool'[a].pl = pool[a].pl /\ Live(a)'
       /\ pool'[a].tl - pool[a].tl = pos'[a][caller].parts - pos[a][caller].parts
       /\ pool'[a].tl - pool[a].tl = pos'[a][caller].w - pos[a][caller].w
  BY <1>2, <1>3, <1>6, <1>7, <1>8, <1>10, NoneIsNoPool DEF Live
<1>. QED
  BY <1>1, <1>5, <1>11, PartsMoved

LEMMA RemoveParts ==
  ASSUME TypeOK, TypeOK', PartsInv, NEW caller \in Wallets, NEW a \in Assets,
         NEW n \in Nat, NEW min \in [Side -> Nat], RemoveLiquidity(caller, a, n, min)
  PROVE  PartsInv'
<1> DEFINE p   == pool[a]
           out == Slice(a, n)
           r   == [s \in Side |-> p.res[s] - out[s]]
           np  == [p EXCEPT !.res = r, !.tl = @ - n]
<1>1. Live(a) /\ p \in Pools /\ pos[a][caller] \in Positions
  BY LivePool DEF RemoveLiquidity, RemoveAccepted, TypeOK
<1>2. p.res \in [Side -> Nat] /\ p.tl \in Nat /\ p.pl \in Nat
  BY <1>1 DEF Pools
<1>3. out \in [Side -> Nat]
  BY <1>1, SliceType DEF RemoveLiquidity, RemoveAccepted
<1>4. p.tl - n >= p.pl /\ \A s \in Side : p.res[s] > out[s]
  BY DEF RemoveLiquidity, RemoveAccepted
<1>5. pool' = [pool EXCEPT ![a] = np]
  BY DEF RemoveLiquidity
<1>6. /\ \A b \in Assets \ {a} : pool'[b] = pool[b] /\ pos'[b] = pos[b]
      /\ \A v \in Wallets \ {caller} : pos'[a][v] = pos[a][v]
  BY DEF RemoveLiquidity, TypeOK
<1>7. /\ pos'[a][caller].parts = pos[a][caller].parts - n
      /\ pos'[a][caller].w = pos[a][caller].w - n
  BY DEF RemoveLiquidity, TypeOK
<1>8. pos[a][caller].parts \in Nat /\ pos[a][caller].w \in Nat
  BY <1>1 DEF Positions
<1>9. pool'[a] = np
  BY <1>5 DEF TypeOK
<1> HIDE DEF out
<1>10. r \in [Side -> Nat] /\ p.tl - n \in Nat
  BY <1>2, <1>3, <1>4
<1>11. np \in Pools /\ np.pl = p.pl /\ np.tl = p.tl - n
  <2> HIDE DEF r, p
  <2>. QED
    BY <1>1, <1>10 DEF Pools
<1> HIDE DEF np
<1>12. /\ pool'[a].pl = pool[a].pl /\ Live(a)'
       /\ pool'[a].tl - pool[a].tl = pos'[a][caller].parts - pos[a][caller].parts
       /\ pool'[a].tl - pool[a].tl = pos'[a][caller].w - pos[a][caller].w
  BY <1>2, <1>7, <1>8, <1>9, <1>11, NoneIsNoPool DEF Live
<1>. QED
  BY <1>1, <1>6, <1>12, PartsMoved

\* A claim settles fees, not parts.
LEMMA ClaimParts ==
  ASSUME TypeOK, TypeOK', PartsInv, NEW caller \in Wallets, NEW a \in Assets,
         ClaimLpFees(caller, a)
  PROVE  PartsInv'
<1> DEFINE p   == pool[a]
           due == Crystallised(a, caller)
           q   == [s \in Side |-> p.pot[s] - due[s]]
           np  == [p EXCEPT !.pot = q]
<1>1. Live(a) /\ p \in Pools /\ pos[a][caller] \in Positions
  BY LivePool DEF ClaimLpFees, ClaimAccepted, TypeOK
<1>2. p.pot \in [Side -> Nat] /\ p.tl \in Nat /\ p.pl \in Nat
  BY <1>1 DEF Pools
<1>3. due \in [Side -> Nat]
  BY <1>1, CrystallisedType
<1>4. \A s \in Side : due[s] <= p.pot[s]
  BY DEF ClaimLpFees, ClaimAccepted
<1>5. pool' = [pool EXCEPT ![a] = np]
  BY DEF ClaimLpFees
<1>6. /\ \A b \in Assets \ {a} : pool'[b] = pool[b] /\ pos'[b] = pos[b]
      /\ \A v \in Wallets \ {caller} : pos'[a][v] = pos[a][v]
  BY DEF ClaimLpFees, TypeOK
<1>7. /\ pos'[a][caller].parts = pos[a][caller].parts
      /\ pos'[a][caller].w = pos[a][caller].w
  BY <1>1 DEF ClaimLpFees, TypeOK, Positions
<1>8. pos[a][caller].parts \in Nat /\ pos[a][caller].w \in Nat
  BY <1>1 DEF Positions
<1>9. pool'[a] = np
  BY <1>5 DEF TypeOK
<1> HIDE DEF due
<1>10. q \in [Side -> Nat]
  BY <1>2, <1>3, <1>4
<1>11. np \in Pools /\ np.pl = p.pl /\ np.tl = p.tl
  <2> HIDE DEF q, p
  <2>. QED
    BY <1>1, <1>10 DEF Pools
<1> HIDE DEF np
<1>12. /\ pool'[a].pl = pool[a].pl /\ Live(a)'
       /\ pool'[a].tl - pool[a].tl = pos'[a][caller].parts - pos[a][caller].parts
       /\ pool'[a].tl - pool[a].tl = pos'[a][caller].w - pos[a][caller].w
  BY <1>2, <1>7, <1>8, <1>9, <1>11, NoneIsNoPool DEF Live
<1>. QED
  BY <1>1, <1>6, <1>12, PartsMoved

\* A swap rewrites a pool, but neither its depth nor a position.
LEMMA SwapParts ==
  ASSUME TypeOK, TypeOK', PartsInv, NEW a \in Assets, Live(a), NEW s \in Side,
         NEW dep \in Nat, NEW minOut \in Nat, Swap(a, s, dep, minOut)
  PROVE  PartsInv'
<1> DEFINE o  == Other(s)
           p  == pool[a]
           t  == Terms(a, s, dep)
           np == Traded(p, s, t.net, t.out, t.fee - t.lpPart, t.lpPart, t.accUp)
<1>1. p \in Pools /\ o \in Side
  BY LivePool DEF Other, Side
<1>2. p.tl \in Nat /\ p.res[s] \in Nat /\ p.res[o] \in Nat
  BY <1>1 DEF Pools
<1>3. /\ t.fee \in Nat /\ t.net \in Nat
      /\ t.lpPart \in Nat /\ t.lpPart <= t.fee /\ t.accUp \in Nat
  BY <1>2, SwapAmounts DEF Terms
<1>4. t.out \in Nat /\ t.out < p.res[o]
  BY SwapAmounts DEF Swap, SwapAccepted, Terms, Side
<1>5. pool' = [pool EXCEPT ![a] = np] /\ pos' = pos
  BY DEF Swap
<1>6. np.tl = p.tl /\ np.pl = p.pl
  BY <1>1 DEF Traded, Pools
<1> HIDE DEF t
<1>7. t.fee - t.lpPart \in Nat /\ t.out <= p.res[Other(s)]
  BY <1>2, <1>3, <1>4
<1>8. np \in Pools
  <2> HIDE DEF o, p
  <2>. QED
    BY <1>1, <1>3, <1>4, <1>7, TradedType
<1> HIDE DEF np
<1>9. pool'[a] = np /\ \A b \in Assets \ {a} : pool'[b] = pool[b]
  BY <1>5 DEF TypeOK
<1>10. \A b \in Assets : /\ Live(b)' <=> Live(b)
                         /\ Live(b) => pool'[b].tl = pool[b].tl /\ pool'[b].pl = pool[b].pl
  BY <1>6, <1>8, <1>9, NoneIsNoPool DEF Live
<1>. QED
  BY <1>5, <1>10, PartsKept

LEMMA WithdrawParts ==
  ASSUME TypeOK, TypeOK', PartsInv, NEW caller \in Wallets, NEW a \in Assets,
         NEW amt \in [Side -> Nat], WithdrawFees(caller, a, amt)
  PROVE  PartsInv'
<1> DEFINE p  == pool[a]
           f  == [s \in Side |-> p.fees[s] - amt[s]]
           np == [p EXCEPT !.fees = f]
<1>1. Live(a) /\ p \in Pools
  BY LivePool DEF WithdrawFees
<1>2. f \in [Side -> Nat]
  <2>1. p.fees \in [Side -> Nat] /\ \A s \in Side : amt[s] <= p.fees[s]
    BY <1>1 DEF Pools, WithdrawFees
  <2>. QED
    BY <2>1
<1>3. pool' = [pool EXCEPT ![a] = np] /\ pos' = pos
  BY DEF WithdrawFees
<1>4. np \in Pools /\ np.tl = p.tl /\ np.pl = p.pl
  <2> HIDE DEF f, p
  <2>. QED
    BY <1>1, <1>2 DEF Pools
<1> HIDE DEF np
<1>5. \A b \in Assets : /\ Live(b)' <=> Live(b)
                        /\ Live(b) => pool'[b].tl = pool[b].tl /\ pool'[b].pl = pool[b].pl
  BY <1>1, <1>3, <1>4, NoneIsNoPool DEF Live, TypeOK
<1>. QED
  BY <1>3, <1>5, PartsKept

LEMMA BuysPausedParts ==
  ASSUME TypeOK, TypeOK', PartsInv, NEW caller \in Wallets, NEW a \in Assets,
         NEW flag \in BOOLEAN, SetPoolBuysPaused(caller, a, flag)
  PROVE  PartsInv'
<1> DEFINE p  == pool[a]
           np == [p EXCEPT !.bp = flag]
<1>1. Live(a) /\ p \in Pools
  BY LivePool DEF SetPoolBuysPaused
<1>2. pool' = [pool EXCEPT ![a] = np] /\ pos' = pos
  BY DEF SetPoolBuysPaused
<1>3. np \in Pools /\ np.tl = p.tl /\ np.pl = p.pl
  <2> HIDE DEF p
  <2>. QED
    BY <1>1 DEF Pools
<1> HIDE DEF np
<1>4. \A b \in Assets : /\ Live(b)' <=> Live(b)
                        /\ Live(b) => pool'[b].tl = pool[b].tl /\ pool'[b].pl = pool[b].pl
  BY <1>1, <1>2, <1>3, NoneIsNoPool DEF Live, TypeOK
<1>. QED
  BY <1>2, <1>4, PartsKept

LEMMA InitParts == Init => PartsInv
BY DEF Init, PartsInv, Unseeded, Live, NoPosition

LEMMA StillParts ==
  ASSUME PartsInv, UNCHANGED <<pool, pos>>
  PROVE  PartsInv'
BY PartsKept DEF Live

LEMMA StepParts == TypeOK /\ TypeOK' /\ PartsInv /\ [Next]_vars => PartsInv'
<1> SUFFICES ASSUME TypeOK, TypeOK', PartsInv, [Next]_vars
             PROVE  PartsInv'
  OBVIOUS
<1>0. Pairs \subseteq [Side -> Nat] /\ [Side -> MinOuts] \subseteq [Side -> Nat]
  BY DexConstants DEF Pairs
<1>1. CASE \E u \in Wallets, a \in Assets, seed \in Pairs : CreatePool(u, a, seed)
  BY <1>0, <1>1, SeedParts DEF CreatePool
<1>2. CASE \E a \in Assets, seed \in Pairs : CreatePoolOpen(a, seed)
  BY <1>0, <1>2, SeedParts DEF CreatePoolOpen
<1>3. CASE \E a \in Assets : Trade(a)
  BY <1>3, DexConstants, SwapParts
     DEF Trade, SwapXelForToken, SwapTokenForXel, BuyGate, SellGate, Side
<1>4. CASE \E u \in Wallets, a \in Assets : Provide(u, a)
  BY <1>0, <1>4, DexConstants, AddParts, RemoveParts, ClaimParts DEF Provide
<1>5. CASE \E u \in Wallets : Govern(u)
  BY <1>5, StillParts DEF Govern, SetSwapFee, SetFeeSplit, SetTradeBounds,
                          SetLaunchpad, SetAdmin, SetPaused
<1>6. CASE \E u \in Wallets, a \in Assets, flag \in FlagArgs : SetPoolBuysPaused(u, a, flag)
  BY <1>6, DexConstants, BuysPausedParts
<1>7. CASE \E u \in Wallets, a \in Assets, amt \in Pairs : WithdrawFees(u, a, amt)
  BY <1>0, <1>7, WithdrawParts
<1>8. CASE \E c \in Coins, d \in StrayArgs : StrayDeposit(c, d)
  BY <1>8, StillParts DEF StrayDeposit
<1>9. CASE UNCHANGED vars
  BY <1>9, StillParts DEF vars
<1>. QED
  BY <1>1, <1>2, <1>3, <1>4, <1>5, <1>6, <1>7, <1>8, <1>9 DEF Next

\* IX9: in every reachable state a pool's depth is the sum of its providers'
\* parts, and its seed can never be withdrawn.
THEOREM PartsAddUp == Spec => []PartsLedger
<1>1. TypeOK /\ PartsInv /\ [Next]_vars => TypeOK' /\ PartsInv'
  BY StepType, StepParts
<1>2. Init => TypeOK /\ PartsInv
  BY InitType, InitParts
<1>3. PartsInv => PartsLedger
  BY PartsInvImplies
<1>. QED
  BY <1>1, <1>2, <1>3, PTL DEF Spec


-----------------------------------------------------------------------------
(* What one step does to a pool.                                           *)

\* A swap: the other pools are left alone; the payout is at most what the curve
\* prices the net deposit at, and the accrual at most what the providers' part
\* of the fee is worth to the depth.
SwapMoves(a, s, fee, net, out, lp, up) ==
  LET p == pool[a]  q == pool'[a]  o == Other(s)
  IN  /\ Live(a)' /\ \A b \in Assets \ {a} : pool'[b] = pool[b]
      /\ lp <= fee /\ up * p.tl <= lp * ACC_SCALE
      /\ out * (p.res[s] + net) <= p.res[o] * net /\ out < p.res[o]
      /\ q.res[s] = p.res[s] + net /\ q.res[o] = p.res[o] - out
      /\ q.pot[s] = p.pot[s] + lp /\ q.pot[o] = p.pot[o]
      /\ q.acc[s] = p.acc[s] + up /\ q.acc[o] = p.acc[o]
      /\ q.tl = p.tl /\ q.pl = p.pl

\* The accrual of a fee share, in units of the pot.
LEMMA AccrualWorth ==
  ASSUME NEW share \in Nat, NEW tl \in Nat \ {0}
  PROVE  AccrualUp(share, tl) \in Nat /\ AccrualUp(share, tl) * tl <= share * ACC_SCALE
<1>1. share * ACC_SCALE \in Nat
  BY DexConstants
<1>. QED
  BY <1>1, DivBounds DEF AccrualUp

LEMMA SwapEffect ==
  ASSUME TypeOK, NEW a \in Assets, Live(a), NEW s \in Side, NEW dep \in Nat,
         NEW minOut \in Nat, Swap(a, s, dep, minOut)
  PROVE  LET t == Terms(a, s, dep)
         IN  /\ t.fee \in Nat /\ t.net \in Nat /\ t.out \in Nat
             /\ t.lpPart \in Nat /\ t.accUp \in Nat
             /\ SwapMoves(a, s, t.fee, t.net, t.out, t.lpPart, t.accUp)
<1> DEFINE o  == Other(s)
           p  == pool[a]
           t  == Terms(a, s, dep)
           np == Traded(p, s, t.net, t.out, t.fee - t.lpPart, t.lpPart, t.accUp)
<1>1. p \in Pools /\ o \in Side /\ o # s
  BY LivePool DEF Other, Side
<1>2. /\ p.tl \in Nat /\ p.res[s] \in Nat /\ p.res[o] \in Nat
      /\ p.res \in [Side -> Nat] /\ p.pot \in [Side -> Nat] /\ p.acc \in [Side -> Nat]
  BY <1>1 DEF Pools
<1>3. /\ t.fee \in Nat /\ t.net \in Nat
      /\ t.lpPart \in Nat /\ t.lpPart <= t.fee /\ t.accUp \in Nat
  BY <1>2, SwapAmounts DEF Terms
<1>4. t.out \in Nat /\ t.out < p.res[o] /\ p.res[s] > 0
  BY SwapAmounts DEF Swap, SwapAccepted, Terms, Side
<1>5. pool' = [pool EXCEPT ![a] = np]
  BY DEF Swap
<1>6. t.accUp * p.tl <= t.lpPart * ACC_SCALE
  <2>1. CASE t.lpPart > 0
    <3>1. p.tl > 0 /\ t.accUp = AccrualUp(t.lpPart, p.tl)
      BY <2>1 DEF Terms
    <3> HIDE DEF t
    <3>. QED
      BY <1>2, <1>3, <3>1, AccrualWorth
  <2>2. CASE ~(t.lpPart > 0)
    <3>1. t.accUp = 0
      BY <2>2 DEF Terms
    <3>2. 0 * p.tl = 0 /\ t.lpPart * ACC_SCALE \in Nat
      BY <1>2, <1>3, DexConstants
    <3> HIDE DEF t
    <3>. QED
      BY <3>1, <3>2
  <2>. QED
    BY <2>1, <2>2
<1>7. t.out * (p.res[s] + t.net) <= p.res[o] * t.net
  <2>1. t.out = (p.res[o] * t.net) \div (p.res[s] + t.net)
    BY DEF Terms, SwapOut
  <2> HIDE DEF t, o, p
  <2>2. p.res[o] * t.net \in Nat /\ p.res[s] + t.net \in Nat \ {0}
    BY <1>2, <1>3, <1>4
  <2>. QED
    BY <2>1, <2>2, DivBounds
<1> HIDE DEF t
<1>8. /\ np.res[s] = p.res[s] + t.net /\ np.res[o] = p.res[o] - t.out
      /\ np.pot[s] = p.pot[s] + t.lpPart /\ np.pot[o] = p.pot[o]
      /\ np.acc[s] = p.acc[s] + t.accUp /\ np.acc[o] = p.acc[o]
      /\ np.tl = p.tl /\ np.pl = p.pl
  <2> DEFINE r == [p.res EXCEPT ![s] = @ + t.net, ![o] = @ - t.out]
             c == [p.acc EXCEPT ![s] = @ + t.accUp]
             q == [p.pot EXCEPT ![s] = @ + t.lpPart]
  <2>1. np.res = r /\ np.acc = c /\ np.pot = q /\ np.tl = p.tl /\ np.pl = p.pl
    BY <1>1 DEF Traded, Pools
  <2> HIDE DEF np, p, o
  <2>2. /\ r[s] = p.res[s] + t.net /\ r[o] = p.res[o] - t.out
        /\ c[s] = p.acc[s] + t.accUp /\ c[o] = p.acc[o]
        /\ q[s] = p.pot[s] + t.lpPart /\ q[o] = p.pot[o]
    BY <1>1, <1>2
  <2> HIDE DEF r, c, q
  <2>. QED
    BY <2>1, <2>2
<1>9. pool'[a] = np /\ \A b \in Assets \ {a} : pool'[b] = pool[b]
  BY <1>5 DEF TypeOK
<1>10. np \in Pools
  <2>1. t.fee - t.lpPart \in Nat /\ t.out <= p.res[Other(s)]
    BY <1>2, <1>3, <1>4
  <2> HIDE DEF o, p
  <2>. QED
    BY <1>1, <1>3, <1>4, <2>1, TradedType
<1> HIDE DEF np, o, p
<1>11. Live(a)'
  BY <1>9, <1>10, NoneIsNoPool DEF Live
<1>12. SwapMoves(a, s, t.fee, t.net, t.out, t.lpPart, t.accUp)
  BY <1>3, <1>4, <1>6, <1>7, <1>8, <1>9, <1>11 DEF SwapMoves, p, o
<1>. QED
  BY <1>3, <1>4, <1>12 DEF t

\* An add: what joins the reserves keeps the ratio to less than a floor unit,
\* the caller's claimables are settled and its parts grow with the depth.
Joined(a, u, eff) ==
  LET p == pool[a]  q == pool'[a]
  IN  /\ Live(a)'
      /\ \A b \in Assets \ {a} : pool'[b] = pool[b] /\ pos'[b] = pos[b]
      /\ \A v \in Wallets \ {u} : pos'[a][v] = pos[a][v]
      /\ \A s \in Side : p.res[s] >= 1 /\ q.res[s] = p.res[s] + eff[s]
      /\ q.pot = p.pot /\ q.acc = p.acc
      /\ q.tl = p.tl + eff["x"] /\ q.pl = p.pl
      /\ pos'[a][u].claim = Crystallised(a, u) /\ pos'[a][u].snap = p.acc

LEMMA AddEffect ==
  ASSUME TypeOK, NEW u \in Wallets, NEW a \in Assets, NEW in \in [Side -> Nat],
         AddLiquidity(u, a, in)
  PROVE  LET eff == Fit(pool[a].res, in)
         IN  Live(a) /\ eff \in [Side -> Nat] /\ eff["x"] >= 1 /\ Joined(a, u, eff)
<1> DEFINE p   == pool[a]
           eff == Fit(p.res, in)
           r   == [s \in Side |-> p.res[s] + eff[s]]
           np  == [p EXCEPT !.res = r, !.tl = @ + eff["x"]]
<1>1. Live(a) /\ p \in Pools
  BY LivePool DEF AddLiquidity
<1>2. p.res \in [Side -> Nat] /\ p.tl \in Nat
  BY <1>1 DEF Pools
<1>3. \A s \in Side : p.res[s] > 0 /\ eff[s] >= 1
  BY DEF AddLiquidity
<1>4. eff \in [Side -> Nat]
  BY <1>2, <1>3, FitType DEF Side
<1>5. pool' = [pool EXCEPT ![a] = np]
  BY DEF AddLiquidity
<1>6. pos' = [pos EXCEPT ![a][u] = [parts |-> pos[a][u].parts + eff["x"],
                                    w |-> pos[a][u].w + eff["x"],
                                    snap |-> Settle(a, u).snap,
                                    claim |-> Settle(a, u).claim]]
  BY DEF AddLiquidity
<1> HIDE DEF eff
<1>7. /\ np.res = r /\ np.pot = p.pot /\ np.acc = p.acc /\ np.pl = p.pl
      /\ np.tl = p.tl + eff["x"] /\ np \in Pools
  <2>1. r \in [Side -> Nat] /\ p.tl + eff["x"] \in Nat
    BY <1>2, <1>4 DEF Side
  <2> HIDE DEF r, p
  <2>. QED
    BY <1>1, <2>1 DEF Pools
<1> HIDE DEF np
<1>8. /\ pool'[a] = np /\ \A b \in Assets \ {a} : pool'[b] = pool[b]
      /\ \A b \in Assets \ {a} : pos'[b] = pos[b]
      /\ \A v \in Wallets \ {u} : pos'[a][v] = pos[a][v]
      /\ pos'[a][u].claim = Crystallised(a, u) /\ pos'[a][u].snap = p.acc
  BY <1>5, <1>6 DEF TypeOK, Settle
<1>9. \A s \in Side : p.res[s] >= 1 /\ r[s] = p.res[s] + eff[s]
  BY <1>2, <1>3
<1> HIDE DEF p, r
<1>10. Joined(a, u, eff)
  BY <1>7, <1>8, <1>9, NoneIsNoPool DEF Joined, Live, p
<1>. QED
  BY <1>1, <1>3, <1>4, <1>10 DEF eff, p, Side

\* A remove: the caller's parts and the depth shrink alike, the seed stays, and
\* the floored slice of both reserves leaves.
Left(a, u, n, out) ==
  LET p == pool[a]  q == pool'[a]
  IN  /\ Live(a)'
      /\ \A b \in Assets \ {a} : pool'[b] = pool[b] /\ pos'[b] = pos[b]
      /\ \A v \in Wallets \ {u} : pos'[a][v] = pos[a][v]
      /\ \A s \in Side : out[s] < p.res[s] /\ q.res[s] = p.res[s] - out[s]
      /\ q.pot = p.pot /\ q.acc = p.acc
      /\ q.tl = p.tl - n /\ q.pl = p.pl /\ n <= p.tl
      /\ pos'[a][u].claim = Crystallised(a, u) /\ pos'[a][u].snap = p.acc

LEMMA RemoveEffect ==
  ASSUME TypeOK, NEW u \in Wallets, NEW a \in Assets, NEW n \in Nat,
         NEW min \in [Side -> Nat], RemoveLiquidity(u, a, n, min)
  PROVE  /\ Live(a) /\ Slice(a, n) \in [Side -> Nat] /\ n >= 1 /\ pool[a].tl > 0
         /\ Left(a, u, n, Slice(a, n))
<1> DEFINE p   == pool[a]
           out == Slice(a, n)
           r   == [s \in Side |-> p.res[s] - out[s]]
           np  == [p EXCEPT !.res = r, !.tl = @ - n]
<1>1. Live(a) /\ p \in Pools
  BY LivePool DEF RemoveLiquidity, RemoveAccepted
<1>2. p.res \in [Side -> Nat] /\ p.tl \in Nat /\ p.pl \in Nat
  BY <1>1 DEF Pools
<1>3. out \in [Side -> Nat] /\ p.tl > 0 /\ n >= 1
  BY <1>1, SliceType DEF RemoveLiquidity, RemoveAccepted
<1>4. p.tl - n >= p.pl /\ \A s \in Side : p.res[s] > out[s]
  BY DEF RemoveLiquidity, RemoveAccepted
<1>5. pool' = [pool EXCEPT ![a] = np]
  BY DEF RemoveLiquidity
<1>6. pos' = [pos EXCEPT ![a][u] = [parts |-> pos[a][u].parts - n,
                                    w |-> pos[a][u].w - n,
                                    snap |-> Settle(a, u).snap,
                                    claim |-> Settle(a, u).claim]]
  BY DEF RemoveLiquidity
<1> HIDE DEF out
<1>7. /\ np.res = r /\ np.pot = p.pot /\ np.acc = p.acc /\ np.pl = p.pl
      /\ np.tl = p.tl - n /\ np \in Pools
  <2>1. r \in [Side -> Nat] /\ p.tl - n \in Nat
    BY <1>2, <1>3, <1>4
  <2> HIDE DEF r, p
  <2>. QED
    BY <1>1, <2>1 DEF Pools
<1> HIDE DEF np
<1>8. /\ pool'[a] = np /\ \A b \in Assets \ {a} : pool'[b] = pool[b]
      /\ \A b \in Assets \ {a} : pos'[b] = pos[b]
      /\ \A v \in Wallets \ {u} : pos'[a][v] = pos[a][v]
      /\ pos'[a][u].claim = Crystallised(a, u) /\ pos'[a][u].snap = p.acc
  BY <1>5, <1>6 DEF TypeOK, Settle
<1>9. \A s \in Side : out[s] < p.res[s] /\ r[s] = p.res[s] - out[s]
  BY <1>2, <1>3, <1>4
<1>10. n <= p.tl
  BY <1>2, <1>4
<1> HIDE DEF p, r
<1>11. Left(a, u, n, out)
  BY <1>7, <1>8, <1>9, <1>10, NoneIsNoPool DEF Left, Live, p
<1>. QED
  BY <1>1, <1>3, <1>11 DEF out, p

\* A claim: what the caller is owed leaves the pot, and nothing else moves.
Paid(a, u, due) ==
  LET p == pool[a]  q == pool'[a]
  IN  /\ Live(a)'
      /\ \A b \in Assets \ {a} : pool'[b] = pool[b] /\ pos'[b] = pos[b]
      /\ \A v \in Wallets \ {u} : pos'[a][v] = pos[a][v]
      /\ \A s \in Side : due[s] <= p.pot[s] /\ q.pot[s] = p.pot[s] - due[s]
      /\ q.res = p.res /\ q.acc = p.acc /\ q.tl = p.tl /\ q.pl = p.pl
      /\ pos'[a][u].claim = Zero /\ pos'[a][u].parts = pos[a][u].parts
      /\ pos'[a][u].snap = IF pos[a][u].parts > 0 THEN p.acc ELSE pos[a][u].snap
      /\ bal' = [bal EXCEPT ![XEL] = @ - due["x"], ![a] = @ - due["y"]]

LEMMA ClaimEffect ==
  ASSUME TypeOK, NEW u \in Wallets, NEW a \in Assets, ClaimLpFees(u, a)
  PROVE  Live(a) /\ Paid(a, u, Crystallised(a, u))
<1> DEFINE p   == pool[a]
           due == Crystallised(a, u)
           me  == pos[a][u]
           q   == [s \in Side |-> p.pot[s] - due[s]]
           np  == [p EXCEPT !.pot = q]
<1>1. Live(a) /\ p \in Pools /\ me \in Positions
  BY LivePool DEF ClaimLpFees, ClaimAccepted, TypeOK
<1>2. \A s \in Side : due[s] <= p.pot[s] /\ q[s] = p.pot[s] - due[s]
  BY DEF ClaimLpFees, ClaimAccepted
<1>q. q \in [Side -> Nat]
  <2>1. p.pot \in [Side -> Nat] /\ due \in [Side -> Nat]
    BY <1>1, CrystallisedType DEF Pools
  <2>. QED
    BY <1>2, <2>1
<1>3. /\ pool' = [pool EXCEPT ![a] = np]
      /\ bal' = [bal EXCEPT ![XEL] = @ - due["x"], ![a] = @ - due["y"]]
  BY DEF ClaimLpFees
<1>4. pos' = [pos EXCEPT ![a][u] =
                [me EXCEPT !.claim = Zero,
                           !.snap = IF me.parts > 0 THEN p.acc ELSE me.snap]]
  BY DEF ClaimLpFees
<1> HIDE DEF due, q
<1>5. /\ np.res = p.res /\ np.pot = q /\ np.acc = p.acc /\ np.pl = p.pl
      /\ np.tl = p.tl /\ np \in Pools
  <2> HIDE DEF p
  <2>. QED
    BY <1>q, <1>1 DEF Pools
<1> HIDE DEF np
<1>6. /\ pool'[a] = np /\ \A b \in Assets \ {a} : pool'[b] = pool[b]
      /\ \A b \in Assets \ {a} : pos'[b] = pos[b]
      /\ \A v \in Wallets \ {u} : pos'[a][v] = pos[a][v]
  BY <1>3, <1>4 DEF TypeOK
<1>7. /\ pos'[a][u].claim = Zero /\ pos'[a][u].parts = me.parts
      /\ pos'[a][u].snap = IF me.parts > 0 THEN p.acc ELSE me.snap
  <2>1. pos'[a][u] = [me EXCEPT !.claim = Zero,
                                !.snap = IF me.parts > 0 THEN p.acc ELSE me.snap]
    BY <1>4 DEF TypeOK
  <2> HIDE DEF me, p
  <2>. QED
    BY <1>1, <2>1 DEF Positions
<1>8. Paid(a, u, due)
  <2> HIDE DEF q
  <2>. QED
    BY <1>2, <1>3, <1>5, <1>6, <1>7, NoneIsNoPool DEF Paid, Live
<1>. QED
  BY <1>1, <1>8 DEF due

-----------------------------------------------------------------------------
(* What the providers of a pool are owed, in units of the accrual: nothing  *)
(* is floored away, so a settlement moves what a position is owed only by    *)
(* what it rounds down, and an accrual is worth what it adds to the pot.     *)

Due(a, u, s) ==
  pos[a][u].claim[s] * ACC_SCALE + (pool[a].acc[s] - pos[a][u].snap[s]) * pos[a][u].parts
Dues(a, s) == Total([u \in Wallets |-> Due(a, u, s)])

\* No clock runs ahead of its pool, and the pot covers the exact dues.
Covered(a) ==
  \A s \in Side : /\ \A u \in Wallets : pos[a][u].snap[s] <= pool[a].acc[s]
                  /\ Dues(a, s) <= pool[a].pot[s] * ACC_SCALE
Untouched(a) == \A u \in Wallets : pos[a][u] = NoPosition
FeesInv == \A a \in Assets : IF Live(a) THEN Covered(a) ELSE Untouched(a)

\* The slots of a live pool and of a position in it.
LEMMA SlotTypes ==
  ASSUME TypeOK, NEW a \in Assets, Live(a), NEW s \in Side
  PROVE  /\ pool[a].res[s] \in Nat /\ pool[a].fees[s] \in Nat
         /\ pool[a].pot[s] \in Nat /\ pool[a].acc[s] \in Nat
         /\ pool[a].tl \in Nat /\ pool[a].pl \in Nat
         /\ \A u \in Wallets : /\ pos[a][u].snap[s] \in Nat
                               /\ pos[a][u].claim[s] \in Nat
                               /\ pos[a][u].parts \in Nat /\ pos[a][u].w \in Nat
<1>1. pool[a] \in Pools
  BY LivePool
<1>2. \A u \in Wallets : pos[a][u] \in Positions
  BY DEF TypeOK
<1>. QED
  BY <1>1, <1>2 DEF Pools, Positions

LEMMA SlotTypesNext ==
  ASSUME TypeOK', NEW a \in Assets, Live(a)', NEW s \in Side
  PROVE  /\ pool'[a].pot[s] \in Nat /\ pool'[a].acc[s] \in Nat
         /\ \A u \in Wallets : /\ pos'[a][u].snap[s] \in Nat
                               /\ pos'[a][u].claim[s] \in Nat
                               /\ pos'[a][u].parts \in Nat
<1>1. pool'[a] \in Pools
  BY DEF TypeOK, Live
<1>2. \A u \in Wallets : pos'[a][u] \in Positions
  BY DEF TypeOK
<1>. QED
  BY <1>1, <1>2 DEF Pools, Positions

\* A sum of naturals times the scale.
LEMMA DueType ==
  ASSUME TypeOK, NEW a \in Assets, Live(a), Covered(a), NEW u \in Wallets, NEW s \in Side
  PROVE  Due(a, u, s) \in Nat
<1>1. /\ pos[a][u].claim[s] \in Nat /\ pos[a][u].parts \in Nat
      /\ pool[a].acc[s] - pos[a][u].snap[s] \in Nat
  BY SlotTypes DEF Covered
<1>2. /\ pos[a][u].claim[s] * ACC_SCALE \in Nat
      /\ (pool[a].acc[s] - pos[a][u].snap[s]) * pos[a][u].parts \in Nat
  BY <1>1, DexConstants
<1>. QED
  BY <1>2 DEF Due

\* What a position can claim is its due, floored; a clock that stands at its
\* pool's leaves the crystallised claims alone.
LEMMA CrystallisedDue ==
  ASSUME TypeOK, NEW a \in Assets, Live(a), NEW u \in Wallets, NEW s \in Side,
         pos[a][u].snap[s] <= pool[a].acc[s]
  PROVE  /\ Crystallised(a, u)[s] = pos[a][u].claim[s]
              + ((pool[a].acc[s] - pos[a][u].snap[s]) * pos[a][u].parts) \div ACC_SCALE
         /\ Crystallised(a, u)[s] \in Nat
         /\ Crystallised(a, u)[s] * ACC_SCALE <= Due(a, u, s)
<1> DEFINE c == pos[a][u].claim[s]
           m == (pool[a].acc[s] - pos[a][u].snap[s]) * pos[a][u].parts
           e == m \div ACC_SCALE
<1>1. /\ c \in Nat /\ pos[a][u].parts \in Nat
      /\ pool[a].acc[s] - pos[a][u].snap[s] \in Nat
      /\ pool[a].acc[s] \in Nat /\ pos[a][u].snap[s] \in Nat
  BY SlotTypes
<1>2. m \in Nat
  BY <1>1
<1> HIDE DEF m
<1>3. e \in Nat /\ e * ACC_SCALE <= m
  BY <1>2, DivBounds, DexConstants
<1>4. Accrued(a, u, s) = e
  <2>1. CASE pool[a].acc[s] > pos[a][u].snap[s]
    BY <2>1 DEF Accrued, m
  <2>2. CASE ~(pool[a].acc[s] > pos[a][u].snap[s])
    <3>1. pool[a].acc[s] - pos[a][u].snap[s] = 0
      BY <1>1, <2>2
    <3>2. m = 0
      BY <1>1, <3>1 DEF m
    <3>3. 0 \div ACC_SCALE = 0
      BY DexConstants
    <3>. QED
      BY <2>2, <3>2, <3>3 DEF Accrued
  <2>. QED
    BY <2>1, <2>2
<1>5. Crystallised(a, u)[s] = c + e
  BY <1>4 DEF Crystallised
<1>6. (c + e) * ACC_SCALE = c * ACC_SCALE + e * ACC_SCALE
  BY <1>1, <1>3, DexConstants
<1>7. (c + e) * ACC_SCALE <= c * ACC_SCALE + m
  <2>1. c * ACC_SCALE \in Nat /\ e * ACC_SCALE \in Nat
    BY <1>1, <1>3, DexConstants
  <2> HIDE DEF c, e
  <2>. QED
    BY <1>2, <1>3, <1>6, <2>1
<1>8. Crystallised(a, u)[s] \in Nat
  BY <1>1, <1>3, <1>5
<1>. QED
  BY <1>5, <1>7, <1>8 DEF Due, m

\* Dues in the pot are claims in the pot.
LEMMA CoveredClaims ==
  ASSUME TypeOK, NEW a \in Assets, Live(a), Covered(a), NEW s \in Side
  PROVE  /\ Total([u \in Wallets |-> Crystallised(a, u)[s]]) <= pool[a].pot[s]
         /\ \A u \in Wallets : Crystallised(a, u)[s] \in 0..pool[a].pot[s]
<1> DEFINE f == [u \in Wallets |-> Crystallised(a, u)[s]]
           g == [u \in Wallets |-> ACC_SCALE * f[u]]
           h == [u \in Wallets |-> Due(a, u, s)]
<1>1. \A u \in Wallets : /\ Crystallised(a, u)[s] \in Nat
                         /\ Crystallised(a, u)[s] * ACC_SCALE <= Due(a, u, s)
                         /\ Due(a, u, s) \in Nat
  BY CrystallisedDue, DueType DEF Covered
<1>2. f \in [Wallets -> Nat] /\ h \in [Wallets -> Nat]
  BY <1>1
<1>3. g \in [Wallets -> Nat] /\ \A u \in Wallets : g[u] <= h[u]
  BY <1>1, DexConstants
<1>4. Total(h) <= pool[a].pot[s] * ACC_SCALE
  BY DEF Covered, Dues
<1> HIDE DEF f, h
<1>5. Total(g) = ACC_SCALE * Total(f) /\ Total(f) \in Nat
  BY <1>2, DexConstants, TotalScale, TotalType
<1>6. Total(g) <= Total(h) /\ Total(g) \in Nat /\ Total(h) \in Nat
  <2> HIDE DEF g
  <2>. QED
    BY <1>2, <1>3, DexConstants, TotalMonotone, TotalType
<1> HIDE DEF g
<1>7. pool[a].pot[s] \in Nat
  BY SlotTypes
<1>8. Total(f) * ACC_SCALE <= pool[a].pot[s] * ACC_SCALE
  <2>1. pool[a].pot[s] * ACC_SCALE \in Nat /\ Total(f) * ACC_SCALE = ACC_SCALE * Total(f)
    BY <1>5, <1>7, DexConstants
  <2>. QED
    BY <1>4, <1>5, <1>6, <2>1
<1>9. Total(f) <= pool[a].pot[s]
  BY <1>5, <1>7, <1>8, DexConstants, MulCancel
<1>10. ASSUME NEW u \in Wallets  PROVE f[u] \in 0..pool[a].pot[s]
  <2>1. f[u] <= Total(f) /\ f[u] \in Nat
    BY <1>2, DexConstants, ShareWithinTotal
  <2>. QED
    BY <1>5, <1>7, <1>9, <2>1
<1>. QED
  BY <1>9, <1>10 DEF f

\* Where neither the pool nor a position of it moves.
LEMMA FeesElsewhere ==
  ASSUME FeesInv, NEW b \in Assets, pool'[b] = pool[b], pos'[b] = pos[b]
  PROVE  IF Live(b)' THEN Covered(b)' ELSE Untouched(b)'
BY DEF FeesInv, Covered, Untouched, Live, Dues, Due

\* An accrual: every part earns what the accrual counters gain, all parts
\* together at most what the pot gains.
LEMMA Accrues ==
  ASSUME TypeOK, TypeOK', PartsInv, FeesInv, NEW a \in Assets, Live(a), Live(a)',
         \A b \in Assets \ {a} : pool'[b] = pool[b], pos' = pos,
         \A s \in Side : /\ pool'[a].acc[s] >= pool[a].acc[s]
                         /\ (pool'[a].acc[s] - pool[a].acc[s]) * pool[a].tl
                              <= (pool'[a].pot[s] - pool[a].pot[s]) * ACC_SCALE
  PROVE  FeesInv'
<1>1. Covered(a) /\ AllParts(a) = pool[a].tl
  BY DEF FeesInv, PartsInv, LedgerOf
<1>2. ASSUME NEW s \in Side
      PROVE  /\ \A u \in Wallets : pos'[a][u].snap[s] <= pool'[a].acc[s]
             /\ Dues(a, s)' <= pool'[a].pot[s] * ACC_SCALE
  <2> DEFINE k == pool'[a].acc[s] - pool[a].acc[s]
             f == [u \in Wallets |-> Due(a, u, s)]
             g == [u \in Wallets |-> pos[a][u].parts]
             m == [u \in Wallets |-> k * g[u]]
             h == [u \in Wallets |-> f[u] + m[u]]
  <2>1. /\ pool[a].acc[s] \in Nat /\ pool'[a].acc[s] \in Nat /\ pool[a].tl \in Nat
        /\ pool[a].pot[s] \in Nat /\ pool'[a].pot[s] \in Nat
        /\ \A u \in Wallets : /\ pos[a][u].snap[s] \in Nat /\ pos[a][u].parts \in Nat
                              /\ pos[a][u].claim[s] \in Nat
    BY SlotTypes, SlotTypesNext
  <2>2. k \in Nat
    BY <2>1
  <2>3. \A u \in Wallets : pos[a][u].snap[s] <= pool[a].acc[s] /\ Due(a, u, s) \in Nat
    BY <1>1, DueType DEF Covered
  <2>4. f \in [Wallets -> Nat] /\ g \in [Wallets -> Nat]
    BY <2>1, <2>3
  <2>5. ASSUME NEW u \in Wallets  PROVE Due(a, u, s)' = f[u] + k * g[u]
    <3> DEFINE d == pool[a].acc[s] - pos[a][u].snap[s]
    <3>1. d \in Nat /\ pool'[a].acc[s] - pos[a][u].snap[s] = d + k
      BY <2>1, <2>3
    <3>2. Due(a, u, s)' = pos[a][u].claim[s] * ACC_SCALE + (d + k) * pos[a][u].parts
      BY <3>1 DEF Due
    <3>3. f[u] = pos[a][u].claim[s] * ACC_SCALE + d * pos[a][u].parts
      BY DEF Due
    <3>4. (d + k) * pos[a][u].parts = d * pos[a][u].parts + k * pos[a][u].parts
      <4> HIDE DEF d, k
      <4>. QED
        BY <2>1, <2>2, <3>1
    <3>5. /\ pos[a][u].claim[s] * ACC_SCALE \in Nat
          /\ d * pos[a][u].parts \in Nat /\ k * pos[a][u].parts \in Nat
      <4> HIDE DEF d, k
      <4>. QED
        BY <2>1, <2>2, <3>1, DexConstants
    <3> HIDE DEF d, k, f
    <3>. QED
      BY <3>2, <3>3, <3>4, <3>5
  <2>6. Dues(a, s)' = Total(h)
    BY <2>5 DEF Dues
  <2> HIDE DEF k
  <2>7. m \in [Wallets -> Nat]
    BY <2>1, <2>2
  <2> HIDE DEF f
  <2>8. Total(m) = k * Total(g) /\ Total(g) \in Nat
    <3> HIDE DEF g
    <3>. QED
      BY <2>2, <2>4, DexConstants, TotalScale, TotalType
  <2>9. Total(h) = Total(f) + Total(m) /\ Total(f) \in Nat
    <3> HIDE DEF m
    <3>. QED
      BY <2>4, <2>7, DexConstants, TotalSum, TotalType
  <2>10. Total(g) = pool[a].tl
    BY <1>1 DEF AllParts
  <2>11. Total(f) <= pool[a].pot[s] * ACC_SCALE
    BY <1>1 DEF Covered, Dues, f
  <2>12. k * pool[a].tl <= (pool'[a].pot[s] - pool[a].pot[s]) * ACC_SCALE
    BY DEF k
  <2>13. (pool'[a].pot[s] - pool[a].pot[s]) * ACC_SCALE
           = pool'[a].pot[s] * ACC_SCALE - pool[a].pot[s] * ACC_SCALE
    BY <2>1, DexConstants
  <2>14. /\ k * pool[a].tl \in Nat /\ pool[a].pot[s] * ACC_SCALE \in Nat
         /\ pool'[a].pot[s] * ACC_SCALE \in Nat
    BY <2>1, <2>2, DexConstants
  <2> HIDE DEF m, g, h
  <2>15. Dues(a, s)' <= pool'[a].pot[s] * ACC_SCALE
    BY <2>6, <2>8, <2>9, <2>10, <2>11, <2>12, <2>13, <2>14
  <2>16. \A u \in Wallets : pos'[a][u].snap[s] <= pool'[a].acc[s]
    BY <2>1, <2>3
  <2>. QED
    BY <2>15, <2>16
<1>3. Covered(a)'
  BY <1>2 DEF Covered
<1>. QED
  BY <1>3, FeesElsewhere DEF FeesInv

\* A settlement: one position is rewritten so that its exact dues shrink by what
\* is paid out of the pot, or by more.
LEMMA Settles ==
  ASSUME TypeOK, TypeOK', FeesInv, NEW a \in Assets, Live(a), Live(a)',
         NEW u \in Wallets,
         \A b \in Assets \ {a} : pool'[b] = pool[b] /\ pos'[b] = pos[b],
         \A v \in Wallets \ {u} : pos'[a][v] = pos[a][v],
         pool'[a].acc = pool[a].acc,
         \A s \in Side : /\ pos'[a][u].snap[s] <= pool[a].acc[s]
                         /\ Due(a, u, s)' + (pool[a].pot[s] - pool'[a].pot[s]) * ACC_SCALE
                              <= Due(a, u, s)
  PROVE  FeesInv'
<1>1. Covered(a)
  BY DEF FeesInv
<1>2. ASSUME NEW s \in Side
      PROVE  /\ \A v \in Wallets : pos'[a][v].snap[s] <= pool'[a].acc[s]
             /\ Dues(a, s)' <= pool'[a].pot[s] * ACC_SCALE
  <2> DEFINE f == [v \in Wallets |-> Due(a, v, s)]
             g == [v \in Wallets |-> Due(a, v, s)']
  <2>1. \A v \in Wallets : pos'[a][v].snap[s] <= pool'[a].acc[s]
    BY <1>1 DEF Covered
  <2>2. \A v \in Wallets \ {u} : Due(a, v, s)' = Due(a, v, s)
    BY DEF Due
  <2>3. \A v \in Wallets : Due(a, v, s) \in Nat
    BY <1>1, DueType
  <2>4. Due(a, u, s)' \in Nat
    <3>1. /\ pos'[a][u].claim[s] \in Nat /\ pos'[a][u].parts \in Nat
          /\ pool'[a].acc[s] \in Nat /\ pos'[a][u].snap[s] \in Nat
      BY SlotTypesNext
    <3>2. pool'[a].acc[s] - pos'[a][u].snap[s] \in Nat
      BY <2>1, <3>1
    <3>3. /\ pos'[a][u].claim[s] * ACC_SCALE \in Nat
          /\ (pool'[a].acc[s] - pos'[a][u].snap[s]) * pos'[a][u].parts \in Nat
      BY <3>1, <3>2, DexConstants
    <3>. QED
      BY <3>3 DEF Due
  <2>5. f \in [Wallets -> Nat] /\ g \in [Wallets -> Nat]
    BY <2>2, <2>3, <2>4
  <2>6. /\ \A v \in Wallets \ {u} : g[v] = f[v]
        /\ f[u] = Due(a, u, s) /\ g[u] = Due(a, u, s)'
    BY <2>2
  <2>7. Dues(a, s) = Total(f) /\ Dues(a, s)' = Total(g)
    BY DEF Dues
  <2> HIDE DEF f, g
  <2>8. Total(g) = Total(f) - f[u] + g[u]
    BY <2>5, <2>6, DexConstants, TotalUpdate
  <2>9. Total(f) \in Nat /\ Total(f) <= pool[a].pot[s] * ACC_SCALE
    BY <1>1, <2>5, <2>7, DexConstants, TotalType DEF Covered
  <2>10. pool[a].pot[s] \in Nat /\ pool'[a].pot[s] \in Nat
    BY SlotTypes, SlotTypesNext
  <2>11. (pool[a].pot[s] - pool'[a].pot[s]) * ACC_SCALE
           = pool[a].pot[s] * ACC_SCALE - pool'[a].pot[s] * ACC_SCALE
    BY <2>10, DexConstants
  <2>12. pool[a].pot[s] * ACC_SCALE \in Nat /\ pool'[a].pot[s] * ACC_SCALE \in Nat
    BY <2>10, DexConstants
  <2>13. Due(a, u, s)' + (pool[a].pot[s] - pool'[a].pot[s]) * ACC_SCALE <= Due(a, u, s)
    OBVIOUS
  <2>14. Dues(a, s)' <= pool'[a].pot[s] * ACC_SCALE
    BY <2>3, <2>4, <2>6, <2>7, <2>8, <2>9, <2>11, <2>12, <2>13
  <2>. QED
    BY <2>1, <2>14
<1>3. Covered(a)'
  BY <1>2 DEF Covered
<1>. QED
  BY <1>3, FeesElsewhere DEF FeesInv


-----------------------------------------------------------------------------
(* The dues stay in the pot: one lemma per operation.                      *)

\* A step that leaves every position and every pool's depth, pots and counters
\* alone.
LEMMA FeesKept ==
  ASSUME FeesInv, pos' = pos,
         \A b \in Assets : /\ Live(b)' <=> Live(b)
                           /\ Live(b) => pool'[b].acc = pool[b].acc /\ pool'[b].pot = pool[b].pot
  PROVE  FeesInv'
<1>1. \A b \in Assets, s \in Side : Live(b) => Dues(b, s)' = Dues(b, s)
  BY DEF Dues, Due
<1>. QED
  BY <1>1 DEF FeesInv, Covered, Untouched

LEMMA SwapFees ==
  ASSUME TypeOK, TypeOK', PartsInv, FeesInv, NEW a \in Assets, Live(a), NEW s \in Side,
         NEW dep \in Nat, NEW minOut \in Nat, Swap(a, s, dep, minOut)
  PROVE  FeesInv'
<1> DEFINE t == Terms(a, s, dep)
           o == Other(s)
<1>1. t.lpPart \in Nat /\ t.accUp \in Nat
      /\ SwapMoves(a, s, t.fee, t.net, t.out, t.lpPart, t.accUp)
  BY SwapEffect
<1>2. Live(a)'
  BY <1>1 DEF SwapMoves
<1> HIDE DEF t
<1>3. pos' = pos /\ \A b \in Assets \ {a} : pool'[b] = pool[b]
  BY <1>1 DEF Swap, SwapMoves
<1>4. ASSUME NEW e \in Side
      PROVE  /\ pool'[a].acc[e] >= pool[a].acc[e]
             /\ (pool'[a].acc[e] - pool[a].acc[e]) * pool[a].tl
                  <= (pool'[a].pot[e] - pool[a].pot[e]) * ACC_SCALE
  <2>1. /\ pool[a].acc[e] \in Nat /\ pool[a].pot[e] \in Nat /\ pool[a].tl \in Nat
    BY SlotTypes
  <2>2. CASE e = s
    <3>1. /\ pool'[a].acc[e] - pool[a].acc[e] = t.accUp
          /\ pool'[a].pot[e] - pool[a].pot[e] = t.lpPart
          /\ pool'[a].acc[e] >= pool[a].acc[e]
      BY <1>1, <2>1, <2>2 DEF SwapMoves
    <3>. QED
      BY <1>1, <3>1 DEF SwapMoves
  <2>3. CASE e # s
    <3>1. e = o
      BY <2>3 DEF Other, Side
    <3>2. /\ pool'[a].acc[e] - pool[a].acc[e] = 0
          /\ pool'[a].pot[e] - pool[a].pot[e] = 0
          /\ pool'[a].acc[e] >= pool[a].acc[e]
      BY <1>1, <2>1, <3>1 DEF SwapMoves
    <3>3. 0 * pool[a].tl <= 0 * ACC_SCALE
      BY <2>1, DexConstants
    <3>. QED
      BY <3>2, <3>3
  <2>. QED
    BY <2>2, <2>3
<1>. QED
  BY <1>2, <1>3, <1>4, Accrues

\* A settled position is owed its claims: its clock stands at the pool's.
LEMMA SettledDue ==
  ASSUME TypeOK, TypeOK', FeesInv, NEW a \in Assets, Live(a), Live(a)',
         NEW u \in Wallets, NEW s \in Side,
         pool'[a].acc = pool[a].acc, pos'[a][u].snap = pool[a].acc,
         pos'[a][u].claim = Crystallised(a, u)
  PROVE  Due(a, u, s)' <= Due(a, u, s)
<1>1. /\ pos[a][u].snap[s] <= pool[a].acc[s]
      /\ pool[a].acc[s] \in Nat /\ pos'[a][u].parts \in Nat
  BY SlotTypes, SlotTypesNext DEF FeesInv, Covered
<1>2. /\ Crystallised(a, u)[s] * ACC_SCALE <= Due(a, u, s)
      /\ Crystallised(a, u)[s] \in Nat
  BY <1>1, CrystallisedDue
<1>3. Due(a, u, s)' = Crystallised(a, u)[s] * ACC_SCALE
                        + (pool[a].acc[s] - pool[a].acc[s]) * pos'[a][u].parts
  BY DEF Due
<1>4. (pool[a].acc[s] - pool[a].acc[s]) * pos'[a][u].parts = 0
  BY <1>1
<1>5. Crystallised(a, u)[s] * ACC_SCALE \in Nat
  BY <1>2, DexConstants
<1>. QED
  BY <1>2, <1>3, <1>4, <1>5

\* An add and a remove settle the caller and leave the pot alone.
LEMMA SettledFees ==
  ASSUME TypeOK, TypeOK', FeesInv, NEW a \in Assets, Live(a), Live(a)', NEW u \in Wallets,
         \A b \in Assets \ {a} : pool'[b] = pool[b] /\ pos'[b] = pos[b],
         \A v \in Wallets \ {u} : pos'[a][v] = pos[a][v],
         pool'[a].acc = pool[a].acc, pool'[a].pot = pool[a].pot,
         pos'[a][u].snap = pool[a].acc, pos'[a][u].claim = Crystallised(a, u)
  PROVE  FeesInv'
<1>1. ASSUME NEW s \in Side
      PROVE  /\ pos'[a][u].snap[s] <= pool[a].acc[s]
             /\ Due(a, u, s)' + (pool[a].pot[s] - pool'[a].pot[s]) * ACC_SCALE
                  <= Due(a, u, s)
  <2>1. pool[a].pot[s] \in Nat /\ pool[a].acc[s] \in Nat
    BY SlotTypes
  <2>2. (pool[a].pot[s] - pool'[a].pot[s]) * ACC_SCALE = 0
    BY <2>1, DexConstants
  <2>3. Due(a, u, s)' <= Due(a, u, s)
    BY SettledDue
  <2>4. Due(a, u, s) \in Nat
    BY DueType DEF FeesInv
  <2>5. Due(a, u, s)' \in Nat
    <3>1. /\ pos'[a][u].claim[s] \in Nat /\ pos'[a][u].parts \in Nat
          /\ pool'[a].acc[s] - pos'[a][u].snap[s] = 0
      BY <2>1, SlotTypesNext
    <3>2. /\ pos'[a][u].claim[s] * ACC_SCALE \in Nat
          /\ 0 * pos'[a][u].parts \in Nat
      BY <3>1, DexConstants
    <3>3. Due(a, u, s)' = pos'[a][u].claim[s] * ACC_SCALE + 0 * pos'[a][u].parts
      BY <3>1 DEF Due
    <3>. QED
      BY <3>2, <3>3
  <2>. QED
    BY <2>1, <2>2, <2>3, <2>4, <2>5
<1>. QED
  BY <1>1, Settles

LEMMA AddFees ==
  ASSUME TypeOK, TypeOK', FeesInv, NEW u \in Wallets, NEW a \in Assets,
         NEW in \in [Side -> Nat], AddLiquidity(u, a, in)
  PROVE  FeesInv'
<1>1. Live(a) /\ Joined(a, u, Fit(pool[a].res, in))
  BY AddEffect
<1>. QED
  BY <1>1, SettledFees DEF Joined

LEMMA RemoveFees ==
  ASSUME TypeOK, TypeOK', FeesInv, NEW u \in Wallets, NEW a \in Assets, NEW n \in Nat,
         NEW min \in [Side -> Nat], RemoveLiquidity(u, a, n, min)
  PROVE  FeesInv'
<1>1. Live(a) /\ Left(a, u, n, Slice(a, n))
  BY RemoveEffect
<1>. QED
  BY <1>1, SettledFees DEF Left

\* A claim takes out of the pot no more than the exact due it clears.
LEMMA ClaimFees ==
  ASSUME TypeOK, TypeOK', FeesInv, NEW u \in Wallets, NEW a \in Assets, ClaimLpFees(u, a)
  PROVE  FeesInv'
<1>1. Live(a) /\ Paid(a, u, Crystallised(a, u))
  BY ClaimEffect
<1>2. Covered(a) /\ Live(a)'
  BY <1>1 DEF FeesInv, Paid
<1>3. ASSUME NEW s \in Side
      PROVE  /\ pos'[a][u].snap[s] <= pool[a].acc[s]
             /\ Due(a, u, s)' + (pool[a].pot[s] - pool'[a].pot[s]) * ACC_SCALE
                  <= Due(a, u, s)
  <2>1. /\ pool[a].acc[s] \in Nat /\ pool[a].pot[s] \in Nat
        /\ pos[a][u].snap[s] \in Nat /\ pos[a][u].parts \in Nat
        /\ pos[a][u].snap[s] <= pool[a].acc[s]
    BY <1>1, <1>2, SlotTypes DEF Covered
  <2>2. /\ Crystallised(a, u)[s] \in Nat
        /\ Crystallised(a, u)[s] * ACC_SCALE <= Due(a, u, s)
    BY <1>1, <2>1, CrystallisedDue
  <2>3. pool[a].pot[s] - pool'[a].pot[s] = Crystallised(a, u)[s]
    BY <1>1, <2>1, <2>2 DEF Paid
  <2>4. Due(a, u, s)' = 0 /\ pos'[a][u].snap[s] <= pool[a].acc[s]
    <3>1. Due(a, u, s)' = 0 * ACC_SCALE
              + (pool[a].acc[s] - pos'[a][u].snap[s]) * pos[a][u].parts
      BY <1>1 DEF Due, Paid, Zero
    <3>2. 0 * ACC_SCALE = 0
      BY DexConstants
    <3>3. CASE pos[a][u].parts > 0
      <4>1. pos'[a][u].snap = pool[a].acc
        BY <1>1, <3>3 DEF Paid
      <4>2. (pool[a].acc[s] - pool[a].acc[s]) * pos[a][u].parts = 0
        BY <2>1
      <4>. QED
        BY <2>1, <3>1, <3>2, <4>1, <4>2
    <3>4. CASE ~(pos[a][u].parts > 0)
      <4>1. pos[a][u].parts = 0 /\ pos'[a][u].snap = pos[a][u].snap
        BY <1>1, <2>1, <3>4 DEF Paid
      <4>2. (pool[a].acc[s] - pos[a][u].snap[s]) * 0 = 0
        BY <2>1
      <4>. QED
        BY <2>1, <3>1, <3>2, <4>1, <4>2
    <3>. QED
      BY <3>3, <3>4
  <2>5. Due(a, u, s) \in Nat /\ Crystallised(a, u)[s] * ACC_SCALE \in Nat
    BY <1>1, <1>2, <2>2, DueType, DexConstants
  <2>. QED
    BY <2>2, <2>3, <2>4, <2>5
<1>4. /\ \A b \in Assets \ {a} : pool'[b] = pool[b] /\ pos'[b] = pos[b]
      /\ \A v \in Wallets \ {u} : pos'[a][v] = pos[a][v]
      /\ pool'[a].acc = pool[a].acc
  BY <1>1 DEF Paid
<1>. QED
  BY <1>1, <1>2, <1>3, <1>4, Settles

\* A seed starts every clock and every pot at zero.
LEMMA SeedFees ==
  ASSUME TypeOK, TypeOK', FeesInv, NEW a \in Assets, NEW seed \in [Side -> Nat],
         SeedPool(a, seed, FALSE)
  PROVE  FeesInv'
<1> DEFINE np == [res |-> seed, fees |-> Zero, pot |-> Zero, acc |-> Zero,
                  tl |-> seed["x"], pl |-> seed["x"], bp |-> FALSE]
<1>1. PICK u \in Wallets : u = config.admin
  BY DEF TypeOK
<1>2. /\ ~Live(a)
      /\ pos' = [pos EXCEPT ![a][u] = SeedPosition(@, seed["x"])]
      /\ pool' = [pool EXCEPT ![a] = np]
  BY <1>1 DEF SeedPool
<1>3. \A v \in Wallets : pos[a][v] = NoPosition
  BY <1>2 DEF FeesInv, Untouched
<1>4. /\ \A b \in Assets \ {a} : pool'[b] = pool[b] /\ pos'[b] = pos[b]
      /\ pool'[a] = np
      /\ \A v \in Wallets : /\ pos'[a][v].snap = Zero /\ pos'[a][v].claim = Zero
                            /\ pos'[a][v].parts \in Nat
  <2>1. seed["x"] \in Nat
    BY DEF Side
  <2>2. \A v \in Wallets : pos'[a][v] = IF v = u THEN SeedPosition(NoPosition, seed["x"])
                                                 ELSE NoPosition
    BY <1>2, <1>3 DEF TypeOK
  <2>. QED
    BY <1>2, <2>1, <2>2 DEF TypeOK, SeedPosition, NoPosition
<1>5. ASSUME NEW s \in Side
      PROVE  /\ \A v \in Wallets : pos'[a][v].snap[s] <= pool'[a].acc[s]
             /\ Dues(a, s)' <= pool'[a].pot[s] * ACC_SCALE
  <2> DEFINE h == [v \in Wallets |-> Due(a, v, s)']
  <2>1. pool'[a].acc[s] = 0 /\ pool'[a].pot[s] = 0
    BY <1>4 DEF Zero
  <2>2. ASSUME NEW v \in Wallets  PROVE h[v] = 0
    <3>1. Due(a, v, s)' = 0 * ACC_SCALE + (0 - 0) * pos'[a][v].parts
      BY <1>4, <2>1 DEF Due, Zero
    <3>2. 0 * ACC_SCALE = 0 /\ (0 - 0) * pos'[a][v].parts = 0
      BY <1>4, DexConstants
    <3>. QED
      BY <3>1, <3>2
  <2>3. h \in [Wallets -> Nat] /\ \A v \in Wallets : h[v] = 0
    BY <2>2
  <2>4. Dues(a, s)' = Total(h)
    BY DEF Dues
  <2> HIDE DEF h
  <2>5. Total(h) = 0
    BY <2>3, TotalZero
  <2>6. 0 * ACC_SCALE = 0
    BY DexConstants
  <2>. QED
    BY <1>4, <2>1, <2>4, <2>5, <2>6 DEF Zero
<1>6. Covered(a)'
  BY <1>5 DEF Covered
<1>7. Live(a)'
  <2>1. np \in Pools
    BY DEF Pools, Zero, Side
  <2>. QED
    BY <1>4, <2>1, NoneIsNoPool DEF Live
<1>. QED
  BY <1>4, <1>6, <1>7, FeesElsewhere DEF FeesInv

\* An admin's withdrawal and a pool's buys-pause leave the pots, the counters
\* and the positions alone.
LEMMA AdminFees ==
  ASSUME TypeOK, FeesInv, NEW caller \in Wallets, NEW a \in Assets,
         NEW amt \in [Side -> Nat], WithdrawFees(caller, a, amt)
  PROVE  FeesInv'
<1> DEFINE p  == pool[a]
           f  == [s \in Side |-> p.fees[s] - amt[s]]
           np == [p EXCEPT !.fees = f]
<1>1. Live(a) /\ p \in Pools
  BY LivePool DEF WithdrawFees
<1>2. f \in [Side -> Nat]
  <2>1. p.fees \in [Side -> Nat] /\ \A s \in Side : amt[s] <= p.fees[s]
    BY <1>1 DEF Pools, WithdrawFees
  <2>. QED
    BY <2>1
<1>3. pool' = [pool EXCEPT ![a] = np] /\ pos' = pos
  BY DEF WithdrawFees
<1>4. np \in Pools /\ np.acc = p.acc /\ np.pot = p.pot
  <2> HIDE DEF f, p
  <2>. QED
    BY <1>1, <1>2 DEF Pools
<1> HIDE DEF np
<1>5. \A b \in Assets : /\ Live(b)' <=> Live(b)
                        /\ Live(b) => pool'[b].acc = pool[b].acc /\ pool'[b].pot = pool[b].pot
  BY <1>1, <1>3, <1>4, NoneIsNoPool DEF Live, TypeOK
<1>. QED
  BY <1>3, <1>5, FeesKept

LEMMA BuysPausedFees ==
  ASSUME TypeOK, FeesInv, NEW caller \in Wallets, NEW a \in Assets,
         NEW flag \in BOOLEAN, SetPoolBuysPaused(caller, a, flag)
  PROVE  FeesInv'
<1> DEFINE p  == pool[a]
           np == [p EXCEPT !.bp = flag]
<1>1. Live(a) /\ p \in Pools
  BY LivePool DEF SetPoolBuysPaused
<1>2. pool' = [pool EXCEPT ![a] = np] /\ pos' = pos
  BY DEF SetPoolBuysPaused
<1>3. np \in Pools /\ np.acc = p.acc /\ np.pot = p.pot
  <2> HIDE DEF p
  <2>. QED
    BY <1>1 DEF Pools
<1> HIDE DEF np
<1>4. \A b \in Assets : /\ Live(b)' <=> Live(b)
                        /\ Live(b) => pool'[b].acc = pool[b].acc /\ pool'[b].pot = pool[b].pot
  BY <1>1, <1>2, <1>3, NoneIsNoPool DEF Live, TypeOK
<1>. QED
  BY <1>2, <1>4, FeesKept

LEMMA StillFees ==
  ASSUME FeesInv, UNCHANGED <<pool, pos>>
  PROVE  FeesInv'
BY FeesKept DEF Live

LEMMA InitFees == Init => FeesInv
BY DEF Init, FeesInv, Untouched, Live

LEMMA StepFees == TypeOK /\ TypeOK' /\ PartsInv /\ FeesInv /\ [Next]_vars => FeesInv'
<1> SUFFICES ASSUME TypeOK, TypeOK', PartsInv, FeesInv, [Next]_vars
             PROVE  FeesInv'
  OBVIOUS
<1>0. Pairs \subseteq [Side -> Nat] /\ [Side -> MinOuts] \subseteq [Side -> Nat]
  BY DexConstants DEF Pairs
<1>1. CASE \E u \in Wallets, a \in Assets, seed \in Pairs : CreatePool(u, a, seed)
  BY <1>0, <1>1, SeedFees DEF CreatePool
<1>2. CASE \E a \in Assets, seed \in Pairs : CreatePoolOpen(a, seed)
  BY <1>0, <1>2, SeedFees DEF CreatePoolOpen
<1>3. CASE \E a \in Assets : Trade(a)
  BY <1>3, DexConstants, SwapFees
     DEF Trade, SwapXelForToken, SwapTokenForXel, BuyGate, SellGate, Side
<1>4. CASE \E u \in Wallets, a \in Assets : Provide(u, a)
  BY <1>0, <1>4, DexConstants, AddFees, RemoveFees, ClaimFees DEF Provide
<1>5. CASE \E u \in Wallets : Govern(u)
  BY <1>5, StillFees DEF Govern, SetSwapFee, SetFeeSplit, SetTradeBounds,
                         SetLaunchpad, SetAdmin, SetPaused
<1>6. CASE \E u \in Wallets, a \in Assets, flag \in FlagArgs : SetPoolBuysPaused(u, a, flag)
  BY <1>6, DexConstants, BuysPausedFees
<1>7. CASE \E u \in Wallets, a \in Assets, amt \in Pairs : WithdrawFees(u, a, amt)
  BY <1>0, <1>7, AdminFees
<1>8. CASE \E c \in Coins, d \in StrayArgs : StrayDeposit(c, d)
  BY <1>8, StillFees DEF StrayDeposit
<1>9. CASE UNCHANGED vars
  BY <1>9, StillFees DEF vars
<1>. QED
  BY <1>1, <1>2, <1>3, <1>4, <1>5, <1>6, <1>7, <1>8, <1>9 DEF Next

LEMMA FeesInvImplies == TypeOK /\ FeesInv => LpSolvency
BY CoveredClaims DEF FeesInv, LpSolvency

\* IX8: in every reachable state, for any number of providers and any accrual
\* scale, all of a pool's providers can be paid at once out of its pot.
THEOREM LpSolvent == Spec => []LpSolvency
<1>1. Init => TypeOK /\ PartsInv /\ FeesInv
  BY InitType, InitParts, InitFees
<1>2. TypeOK /\ PartsInv /\ FeesInv /\ [Next]_vars => TypeOK' /\ PartsInv' /\ FeesInv'
  BY StepType, StepParts, StepFees
<1>. QED
  BY <1>1, <1>2, FeesInvImplies, PTL DEF Spec

-----------------------------------------------------------------------------
(* Room to leave: no reserve is ever empty, the accrual counters stay behind *)
(* the fees the scoreboard has counted, and the volumes fit their slots.     *)

RoomOf(a) ==
  \A s \in Side : pool[a].res[s] >= 1 /\ pool[a].acc[s] <= score[a].fl
RoomInv == /\ \A s \in Side : config.bounds.minSeed[s] >= SEED_FLOOR[s]
           /\ \A a \in Assets : Live(a) => RoomOf(a)
           /\ \A a \in Assets : score[a].bv <= U64_MAX

\* A step that leaves the scoreboard and the floor of a seed alone, the accrual
\* counters too, and empties no reserve.
LEMMA RoomKept ==
  ASSUME RoomInv, score' = score, config' = config,
         \A b \in Assets : Live(b)' =>
           /\ Live(b) /\ pool'[b].acc = pool[b].acc
           /\ \A s \in Side : pool'[b].res[s] >= 1
  PROVE  RoomInv'
BY DEF RoomInv, RoomOf

LEMMA SeedRoom ==
  ASSUME TypeOK, RoomInv, NEW a \in Assets, NEW seed \in [Side -> Nat],
         SeedPool(a, seed, FALSE)
  PROVE  RoomInv'
<1> DEFINE np == [res |-> seed, fees |-> Zero, pot |-> Zero, acc |-> Zero,
                  tl |-> seed["x"], pl |-> seed["x"], bp |-> FALSE]
<1>1. /\ pool' = [pool EXCEPT ![a] = np]
      /\ score' = [score EXCEPT ![a] = NoScore]
      /\ config' = [config EXCEPT !.pinned = Freezes]
      /\ \A s \in Side : seed[s] >= config.bounds.minSeed[s]
  BY DEF SeedPool, SeedAccepted
<1>2. \A s \in Side : seed[s] >= 1
  <2>1. \A s \in Side : /\ SEED_FLOOR[s] \in Nat \ {0} /\ config.bounds.minSeed[s] \in Nat
                        /\ config.bounds.minSeed[s] >= SEED_FLOOR[s]
    BY DexConstants DEF TypeOK, RoomInv, Bounds
  <2>. QED
    BY <1>1, <2>1
<1>3. config'.bounds = config.bounds
  BY <1>1 DEF TypeOK
<1>4. /\ pool'[a] = np /\ \A b \in Assets \ {a} : pool'[b] = pool[b]
      /\ score'[a] = NoScore /\ \A b \in Assets \ {a} : score'[b] = score[b]
  BY <1>1 DEF TypeOK
<1>5. RoomOf(a)'
  BY <1>2, <1>4 DEF RoomOf, Zero, NoScore
<1>6. \A b \in Assets : Live(b)' => RoomOf(b)'
  BY <1>4, <1>5 DEF RoomInv, RoomOf, Live
<1>7. \A b \in Assets : score'[b].bv <= U64_MAX
  BY <1>4, DexConstants DEF RoomInv, NoScore
<1>. QED
  BY <1>3, <1>6, <1>7 DEF RoomInv

LEMMA SwapRoom ==
  ASSUME TypeOK, PartsInv, RoomInv, NEW a \in Assets, Live(a), NEW s \in Side,
         NEW dep \in Nat, NEW minOut \in Nat, Swap(a, s, dep, minOut)
  PROVE  RoomInv'
<1> DEFINE t == Terms(a, s, dep)
           o == Other(s)
           p == pool[a]
<1>1. /\ t.fee \in Nat /\ t.net \in Nat /\ t.out \in Nat
      /\ t.lpPart \in Nat /\ t.accUp \in Nat
      /\ SwapMoves(a, s, t.fee, t.net, t.out, t.lpPart, t.accUp)
  BY SwapEffect
<1>2. /\ score'[a].fl = score[a].fl + t.fee /\ score'[a].bv = score[a].bv + t.bought
      /\ score[a].bv + t.bought <= U64_MAX
      /\ \A b \in Assets \ {a} : score'[b] = score[b]
      /\ config' = config
  BY DEF Swap, SwapAccepted, Checked, TypeOK
<1> HIDE DEF t
<1>3. o \in Side /\ o # s /\ \A e \in Side : e = s \/ e = o
  BY DEF Other, Side
<1>4. /\ \A e \in Side : p.res[e] \in Nat /\ p.acc[e] \in Nat /\ p.res[e] >= 1
                         /\ p.acc[e] <= score[a].fl
      /\ p.tl \in Nat /\ p.pl \in Nat /\ score[a].fl \in Nat
      /\ \A u \in Wallets : pos[a][u].w \in Nat /\ pos[a][u].parts \in Nat
  BY SlotTypes DEF RoomInv, RoomOf, TypeOK, Scores, Side
<1>5. t.accUp <= t.fee
  <2>1. p.tl >= ACC_SCALE
    <3>1. /\ Withdrawables(a) = p.tl - p.pl /\ p.pl >= MIN_LP_ADD_XEL
      BY DEF PartsInv, LedgerOf
    <3>2. [u \in Wallets |-> pos[a][u].w] \in [Wallets -> Nat]
      BY <1>4
    <3>3. Withdrawables(a) \in Nat
      BY <3>2, DexConstants, TotalType DEF Withdrawables
    <3>. QED
      BY <1>4, <3>1, <3>3, DexConstants
  <2>2. t.accUp * ACC_SCALE <= t.accUp * p.tl
    BY <1>1, <1>4, <2>1, DexConstants, MulMono
  <2>3. t.accUp * p.tl <= t.lpPart * ACC_SCALE /\ t.lpPart <= t.fee
    BY <1>1 DEF SwapMoves
  <2>4. /\ t.accUp * ACC_SCALE \in Nat /\ t.accUp * p.tl \in Nat
        /\ t.lpPart * ACC_SCALE \in Nat
    BY <1>1, <1>4, DexConstants
  <2>5. t.accUp * ACC_SCALE <= t.lpPart * ACC_SCALE
    BY <2>2, <2>3, <2>4
  <2>6. t.accUp <= t.lpPart
    BY <1>1, <2>5, DexConstants, MulCancel
  <2>. QED
    BY <1>1, <2>3, <2>6
<1>6. RoomOf(a)'
  <2>1. \A e \in Side : pool'[a].res[e] >= 1
    BY <1>1, <1>3, <1>4 DEF SwapMoves
  <2>2. \A e \in Side : pool'[a].acc[e] <= score'[a].fl
    BY <1>1, <1>2, <1>3, <1>4, <1>5 DEF SwapMoves
  <2>. QED
    BY <2>1, <2>2 DEF RoomOf
<1>7. \A b \in Assets \ {a} : pool'[b] = pool[b]
  BY <1>1 DEF SwapMoves
<1>8. \A b \in Assets : Live(b)' => RoomOf(b)'
  BY <1>2, <1>6, <1>7 DEF RoomInv, RoomOf, Live
<1>9. \A b \in Assets : score'[b].bv <= U64_MAX
  BY <1>2 DEF RoomInv
<1>. QED
  BY <1>2, <1>8, <1>9 DEF RoomInv

LEMMA AddRoom ==
  ASSUME TypeOK, RoomInv, NEW u \in Wallets, NEW a \in Assets,
         NEW in \in [Side -> Nat], AddLiquidity(u, a, in)
  PROVE  RoomInv'
<1>1. /\ Live(a) /\ Joined(a, u, Fit(pool[a].res, in))
      /\ Fit(pool[a].res, in) \in [Side -> Nat]
  BY AddEffect
<1>2. \A s \in Side : pool[a].res[s] \in Nat /\ Fit(pool[a].res, in)[s] \in Nat
  BY <1>1, SlotTypes
<1>3. \A s \in Side : pool'[a].res[s] >= 1
  BY <1>1, <1>2 DEF Joined
<1>4. \A b \in Assets : Live(b)' => /\ Live(b) /\ pool'[b].acc = pool[b].acc
                                    /\ \A s \in Side : pool'[b].res[s] >= 1
  BY <1>1, <1>3 DEF Joined, RoomInv, RoomOf, Live
<1>. QED
  BY <1>4, RoomKept DEF AddLiquidity

LEMMA RemoveRoom ==
  ASSUME TypeOK, RoomInv, NEW u \in Wallets, NEW a \in Assets, NEW n \in Nat,
         NEW min \in [Side -> Nat], RemoveLiquidity(u, a, n, min)
  PROVE  RoomInv'
<1>1. Live(a) /\ Left(a, u, n, Slice(a, n)) /\ Slice(a, n) \in [Side -> Nat]
  BY RemoveEffect
<1>2. \A s \in Side : pool[a].res[s] \in Nat /\ Slice(a, n)[s] \in Nat
  BY <1>1, SlotTypes
<1>3. \A s \in Side : pool'[a].res[s] >= 1
  BY <1>1, <1>2 DEF Left
<1>4. \A b \in Assets : Live(b)' => /\ Live(b) /\ pool'[b].acc = pool[b].acc
                                    /\ \A s \in Side : pool'[b].res[s] >= 1
  BY <1>1, <1>3 DEF Left, RoomInv, RoomOf, Live
<1>. QED
  BY <1>4, RoomKept DEF RemoveLiquidity

LEMMA ClaimRoom ==
  ASSUME TypeOK, RoomInv, NEW u \in Wallets, NEW a \in Assets, ClaimLpFees(u, a)
  PROVE  RoomInv'
<1>1. Live(a) /\ Paid(a, u, Crystallised(a, u))
  BY ClaimEffect
<1>2. \A b \in Assets : Live(b)' => /\ Live(b) /\ pool'[b].acc = pool[b].acc
                                    /\ \A s \in Side : pool'[b].res[s] >= 1
  BY <1>1 DEF Paid, RoomInv, RoomOf, Live
<1>. QED
  BY <1>2, RoomKept DEF ClaimLpFees

LEMMA AdminRoom ==
  ASSUME TypeOK, RoomInv, NEW caller \in Wallets, NEW a \in Assets,
         NEW amt \in [Side -> Nat], WithdrawFees(caller, a, amt)
  PROVE  RoomInv'
<1> DEFINE p  == pool[a]
           f  == [s \in Side |-> p.fees[s] - amt[s]]
           np == [p EXCEPT !.fees = f]
<1>1. Live(a) /\ p \in Pools
  BY LivePool DEF WithdrawFees
<1>2. pool' = [pool EXCEPT ![a] = np] /\ score' = score /\ config' = config
  BY DEF WithdrawFees
<1>3. np.acc = p.acc /\ np.res = p.res
  <2> HIDE DEF f, p
  <2>. QED
    BY <1>1 DEF Pools
<1> HIDE DEF np
<1>4. \A b \in Assets : Live(b)' => /\ Live(b) /\ pool'[b].acc = pool[b].acc
                                    /\ \A s \in Side : pool'[b].res[s] >= 1
  BY <1>1, <1>2, <1>3 DEF Live, TypeOK, RoomInv, RoomOf
<1>. QED
  BY <1>2, <1>4, RoomKept

LEMMA BuysPausedRoom ==
  ASSUME TypeOK, RoomInv, NEW caller \in Wallets, NEW a \in Assets,
         NEW flag \in BOOLEAN, SetPoolBuysPaused(caller, a, flag)
  PROVE  RoomInv'
<1> DEFINE p  == pool[a]
           np == [p EXCEPT !.bp = flag]
<1>1. Live(a) /\ p \in Pools
  BY LivePool DEF SetPoolBuysPaused
<1>2. pool' = [pool EXCEPT ![a] = np] /\ score' = score /\ config' = config
  BY DEF SetPoolBuysPaused
<1>3. np.acc = p.acc /\ np.res = p.res
  <2> HIDE DEF p
  <2>. QED
    BY <1>1 DEF Pools
<1> HIDE DEF np
<1>4. \A b \in Assets : Live(b)' => /\ Live(b) /\ pool'[b].acc = pool[b].acc
                                    /\ \A s \in Side : pool'[b].res[s] >= 1
  BY <1>1, <1>2, <1>3 DEF Live, TypeOK, RoomInv, RoomOf
<1>. QED
  BY <1>2, <1>4, RoomKept

\* Of the setters only set_trade_bounds touches the floor of a seed, and it
\* stays above the hard one.
LEMMA GovernRoom ==
  ASSUME TypeOK, RoomInv, NEW u \in Wallets, Govern(u)
  PROVE  RoomInv'
<1>1. pool' = pool /\ score' = score
  BY DEF Govern, SetSwapFee, SetFeeSplit, SetTradeBounds, SetLaunchpad, SetAdmin, SetPaused
<1>2. \A s \in Side : config'.bounds.minSeed[s] >= SEED_FLOOR[s]
  <2>1. CASE \E b \in BoundsArgs : SetTradeBounds(u, b)
    BY <2>1 DEF SetTradeBounds, TypeOK
  <2>2. CASE config'.bounds = config.bounds
    BY <2>2 DEF RoomInv
  <2>3. config \in [admin : Wallets, swapFee : 0..MAX_SWAP_FEE_BPS,
                    lpShare : MIN_LP_SHARE_BPS..MAX_LP_SHARE_BPS,
                    bounds : Bounds, paused : BOOLEAN,
                    lpx : Wallets \cup {None}, pinned : BOOLEAN]
    BY DEF TypeOK
  <2>4. \/ \E b \in BoundsArgs : SetTradeBounds(u, b)
        \/ config'.bounds = config.bounds
    BY <2>3 DEF Govern, SetSwapFee, SetFeeSplit, SetLaunchpad, SetAdmin, SetPaused
  <2>. QED
    BY <2>1, <2>2, <2>4
<1>. QED
  BY <1>1, <1>2 DEF RoomInv, RoomOf, Live

LEMMA InitRoom == Init => RoomInv
BY DexConstants DEF Init, RoomInv, Live, NoScore

LEMMA StillRoom ==
  ASSUME RoomInv, UNCHANGED <<config, pool, score>>
  PROVE  RoomInv'
BY DEF RoomInv, RoomOf, Live

LEMMA StepRoom == TypeOK /\ PartsInv /\ RoomInv /\ [Next]_vars => RoomInv'
<1> SUFFICES ASSUME TypeOK, PartsInv, RoomInv, [Next]_vars
             PROVE  RoomInv'
  OBVIOUS
<1>0. Pairs \subseteq [Side -> Nat] /\ [Side -> MinOuts] \subseteq [Side -> Nat]
  BY DexConstants DEF Pairs
<1>1. CASE \E u \in Wallets, a \in Assets, seed \in Pairs : CreatePool(u, a, seed)
  BY <1>0, <1>1, SeedRoom DEF CreatePool
<1>2. CASE \E a \in Assets, seed \in Pairs : CreatePoolOpen(a, seed)
  BY <1>0, <1>2, SeedRoom DEF CreatePoolOpen
<1>3. CASE \E a \in Assets : Trade(a)
  BY <1>3, DexConstants, SwapRoom
     DEF Trade, SwapXelForToken, SwapTokenForXel, BuyGate, SellGate, Side
<1>4. CASE \E u \in Wallets, a \in Assets : Provide(u, a)
  BY <1>0, <1>4, DexConstants, AddRoom, RemoveRoom, ClaimRoom DEF Provide
<1>5. CASE \E u \in Wallets : Govern(u)
  BY <1>5, GovernRoom
<1>6. CASE \E u \in Wallets, a \in Assets, flag \in FlagArgs : SetPoolBuysPaused(u, a, flag)
  BY <1>6, DexConstants, BuysPausedRoom
<1>7. CASE \E u \in Wallets, a \in Assets, amt \in Pairs : WithdrawFees(u, a, amt)
  BY <1>0, <1>7, AdminRoom
<1>8. CASE \E c \in Coins, d \in StrayArgs : StrayDeposit(c, d)
  BY <1>8, StillRoom DEF StrayDeposit
<1>9. CASE UNCHANGED vars
  BY <1>9, StillRoom DEF vars
<1>. QED
  BY <1>1, <1>2, <1>3, <1>4, <1>5, <1>6, <1>7, <1>8, <1>9 DEF Next

-----------------------------------------------------------------------------
(* Nobody is refused a way out.                                            *)

\* Every slot of a pool is in the balance its entries pay from, and so fits the
\* width of a slot.
LEMMA HeldInBalance ==
  ASSUME TypeOK, Solvency, NEW a \in Assets, Live(a), NEW s \in Side
  PROVE  /\ pool[a].res[s] + pool[a].fees[s] + pool[a].pot[s] <= bal[AssetOf(a, s)]
         /\ AssetOf(a, s) \in Coins /\ bal[AssetOf(a, s)] \in Nat
         /\ Supply[AssetOf(a, s)] \in Nat
         /\ bal[AssetOf(a, s)] <= Supply[AssetOf(a, s)]
         /\ Supply[AssetOf(a, s)] <= U64_MAX
<1> DEFINE f == [b \in Assets |-> Held(b, "x")]
<1>1. /\ AssetOf(a, s) \in Coins /\ bal[AssetOf(a, s)] \in Nat
      /\ Supply[AssetOf(a, s)] \in Nat
      /\ bal[AssetOf(a, s)] <= Supply[AssetOf(a, s)]
      /\ Supply[AssetOf(a, s)] <= U64_MAX
  BY DexConstants DEF TypeOK, AssetOf, Coins
<1>2. Held(a, s) = pool[a].res[s] + pool[a].fees[s] + pool[a].pot[s]
  BY DEF Held
<1>3. CASE s = "x"
  <2>1. \A b \in Assets : Held(b, "x") \in Nat
    BY HeldType DEF Side
  <2>2. f \in [Assets -> Nat] /\ f[a] = Held(a, "x") /\ f[a] \in Nat
    BY <2>1
  <2>3. Total(f) <= bal[XEL] /\ AssetOf(a, s) = XEL
    BY <1>3 DEF Solvency, AssetOf
  <2> HIDE DEF f
  <2>4. f[a] <= Total(f) /\ Total(f) \in Nat
    BY <2>2, DexConstants, ShareWithinTotal, TotalType
  <2>. QED
    BY <1>1, <1>2, <1>3, <2>2, <2>3, <2>4
<1>4. CASE s = "y"
  BY <1>1, <1>2, <1>4 DEF Solvency, AssetOf
<1>. QED
  BY <1>1, <1>3, <1>4 DEF Side

\* A floored part of a reserve that is not the whole is below it.
LEMMA PartBelow ==
  ASSUME NEW r \in Nat \ {0}, NEW n \in Nat, NEW d \in Nat \ {0}, n < d
  PROVE  (n * r) \div d \in Nat /\ (n * r) \div d < r
<1> DEFINE q == (n * r) \div d
<1>1. n * r \in Nat
  OBVIOUS
<1>2. q \in Nat /\ q * d <= n * r
  BY <1>1, DivBounds
<1> HIDE DEF q
<1>3. ASSUME r <= q  PROVE FALSE
  <2>1. d * r <= d * q
    BY <1>2, <1>3, MulMono
  <2>2. r * (n + 1) <= r * d
    BY MulMono
  <2>3. r * (n + 1) = n * r + r /\ r * d = d * r /\ d * q = q * d
    BY <1>2
  <2>4. d * r \in Nat /\ q * d \in Nat
    BY <1>2
  <2>. QED
    BY <1>1, <1>2, <2>1, <2>2, <2>3, <2>4
<1>. QED
  BY <1>2, <1>3 DEF q

LEMMA RemoveOpen ==
  ASSUME TypeOK, Solvency, PartsInv, FeesInv, RoomInv,
         NEW a \in Assets, Live(a), NEW u \in Wallets, NEW n \in 1..pos[a][u].w,
         \A s \in Side : Slice(a, n)[s] >= 1
  PROVE  RemoveAccepted(u, a, n, Zero)
<1> DEFINE p == pool[a]
           w == [v \in Wallets |-> pos[a][v].w]
<1>1. /\ \A s \in Side : p.res[s] \in Nat \ {0}
      /\ p.tl \in Nat /\ p.pl \in Nat
      /\ \A v \in Wallets : pos[a][v].w \in Nat /\ pos[a][v].parts \in Nat
  BY SlotTypes DEF RoomInv, RoomOf, Side
<1>2. LedgerOf(a) /\ Covered(a)
  BY DEF PartsInv, FeesInv
<1>3. pos[a][u].w <= p.tl - p.pl
  <2>1. w \in [Wallets -> Nat] /\ Total(w) = p.tl - p.pl
    BY <1>1, <1>2 DEF LedgerOf, Withdrawables
  <2>2. w[u] <= Total(w)
    <3> HIDE DEF w
    <3>. QED
      BY <2>1, DexConstants, ShareWithinTotal
  <2>. QED
    BY <2>1, <2>2
<1>4. p.pl >= 1
  BY <1>1, <1>2, DexConstants DEF LedgerOf
<1>5. n \in Nat /\ n < p.tl /\ p.tl - n >= p.pl /\ n <= pos[a][u].parts
  BY <1>1, <1>2, <1>3, <1>4 DEF LedgerOf
<1>6. ASSUME NEW s \in Side
      PROVE  /\ Checked(Crystallised(a, u)[s])
             /\ Slice(a, n)[s] >= Zero[s]
             /\ p.res[s] > Slice(a, n)[s]
             /\ Slice(a, n)[s] <= bal[AssetOf(a, s)]
  <2>1. /\ p.res[s] + p.fees[s] + p.pot[s] <= bal[AssetOf(a, s)]
        /\ bal[AssetOf(a, s)] <= Supply[AssetOf(a, s)] /\ bal[AssetOf(a, s)] \in Nat
        /\ Supply[AssetOf(a, s)] <= U64_MAX /\ Supply[AssetOf(a, s)] \in Nat
    BY HeldInBalance
  <2>2. p.fees[s] \in Nat /\ p.pot[s] \in Nat /\ p.res[s] \in Nat \ {0}
    BY <1>1, SlotTypes
  <2>3. Crystallised(a, u)[s] \in 0..p.pot[s]
    BY <1>2, CoveredClaims
  <2>4. Slice(a, n)[s] = (n * p.res[s]) \div p.tl
    BY DEF Slice
  <2>5. Slice(a, n)[s] \in Nat /\ Slice(a, n)[s] < p.res[s]
    <3>1. p.tl \in Nat \ {0}
      BY <1>1, <1>5
    <3> HIDE DEF p
    <3>. QED
      BY <1>5, <2>2, <2>4, <3>1, PartBelow
  <2> HIDE DEF p
  <2>. QED
    BY <2>1, <2>2, <2>3, <2>5, DexConstants DEF Checked, Zero
<1>7. p.res["x"] > 0 /\ p.res["y"] > 0 /\ p.tl > 0 /\ n >= 1 /\ n <= pos[a][u].w
  BY <1>1, <1>5 DEF Side
<1>. QED
  BY <1>5, <1>6, <1>7 DEF RemoveAccepted

LEMMA ClaimOpen ==
  ASSUME TypeOK, Solvency, FeesInv, NEW a \in Assets, Live(a), NEW u \in Wallets,
         \E s \in Side : Crystallised(a, u)[s] > 0
  PROVE  ClaimAccepted(u, a)
<1>1. ASSUME NEW s \in Side
      PROVE  /\ Checked(Crystallised(a, u)[s])
             /\ Crystallised(a, u)[s] <= pool[a].pot[s]
             /\ Crystallised(a, u)[s] <= bal[AssetOf(a, s)]
  <2>1. /\ pool[a].res[s] + pool[a].fees[s] + pool[a].pot[s] <= bal[AssetOf(a, s)]
        /\ bal[AssetOf(a, s)] <= Supply[AssetOf(a, s)] /\ bal[AssetOf(a, s)] \in Nat
        /\ Supply[AssetOf(a, s)] <= U64_MAX /\ Supply[AssetOf(a, s)] \in Nat
    BY HeldInBalance
  <2>2. /\ pool[a].res[s] \in Nat /\ pool[a].fees[s] \in Nat /\ pool[a].pot[s] \in Nat
    BY SlotTypes
  <2>3. Crystallised(a, u)[s] \in 0..pool[a].pot[s]
    BY CoveredClaims DEF FeesInv
  <2>. QED
    BY <2>1, <2>2, <2>3, DexConstants DEF Checked
<1>. QED
  BY <1>1 DEF ClaimAccepted

\* A sell the scoreboard has room for is refused by nothing else: the counters
\* of the fees and of the providers' accrual never outgrow the scoreboard, and
\* the payout is short of the reserve.
LEMMA SellOpen ==
  ASSUME TypeOK, Solvency, PartsInv, RoomInv, NEW a \in Assets, Live(a),
         NEW dep \in Nat, dep <= Outside(a), AmountOut(a, "y", dep) >= 1,
         dep >= config.bounds.minSwap["y"], dep <= config.bounds.maxSwap["y"],
         Checked(score[a].fl + FeeTake(dep, config.swapFee)),
         Checked(score[a].sv + AmountOut(a, "y", dep)),
         Checked(score[a].tc + 1)
  PROVE  SwapAccepted(a, "y", dep, 0)
<1> DEFINE p == pool[a]
           t == Terms(a, "y", dep)
           fee == FeeTake(dep, config.swapFee)
           net == NetOf(dep, fee)
           share == FeeTake(fee, config.lpShare)
<1>1. "x" \in Side /\ "y" \in Side /\ Other("y") = "x"
      /\ AssetOf(a, "y") = a /\ AssetOf(a, "x") = XEL
  BY DEF Side, Other, AssetOf
<1>2. /\ p.res["x"] \in Nat \ {0} /\ p.res["y"] \in Nat \ {0}
      /\ p.fees["y"] \in Nat /\ p.pot["y"] \in Nat /\ p.acc["y"] \in Nat
      /\ p.acc["y"] <= score[a].fl /\ p.tl \in Nat /\ p.pl \in Nat
      /\ p.fees["x"] \in Nat /\ p.pot["x"] \in Nat
  BY <1>1, SlotTypes DEF RoomInv, RoomOf
<1>3. /\ score[a].fl \in Nat /\ score[a].bv \in Nat /\ score[a].bv <= U64_MAX
  BY DEF TypeOK, Scores, RoomInv
<1>4. /\ fee \in Nat /\ fee <= dep /\ net \in Nat /\ net + fee = dep
      /\ share \in Nat /\ share <= fee
  BY <1>1, SwapAmounts
<1>5. p.tl > 0 /\ p.tl >= ACC_SCALE
  <2>1. Withdrawables(a) = p.tl - p.pl /\ p.pl >= MIN_LP_ADD_XEL
    BY DEF PartsInv, LedgerOf
  <2>2. [u \in Wallets |-> pos[a][u].w] \in [Wallets -> Nat]
    BY <1>1, SlotTypes
  <2>3. Withdrawables(a) \in Nat
    BY <2>2, DexConstants, TotalType DEF Withdrawables
  <2>. QED
    BY <1>2, <2>1, <2>3, DexConstants
<1>6. /\ t.fee = fee /\ t.net = net /\ t.lpPart = share
      /\ t.out = SwapOut(p.res["y"], p.res["x"], net)
      /\ t.accUp = IF share > 0 THEN AccrualUp(share, p.tl) ELSE 0
      /\ t.bought = 0 /\ t.sold = t.out
  BY <1>1, <1>5 DEF Terms
<1>7. AmountOut(a, "y", dep) = t.out
  BY <1>1, <1>2, <1>6 DEF AmountOut
<1>8. t.out \in Nat /\ t.out < p.res["x"]
  <2>1. p.res["y"] + net \in Nat \ {0} /\ net < p.res["y"] + net
    BY <1>2, <1>4
  <2>2. (net * p.res["x"]) \div (p.res["y"] + net) \in Nat
        /\ (net * p.res["x"]) \div (p.res["y"] + net) < p.res["x"]
    <3> HIDE DEF p, net
    <3>. QED
      BY <1>2, <1>4, <2>1, PartBelow
  <2>3. p.res["x"] * net = net * p.res["x"]
    BY <1>2, <1>4
  <2>. QED
    BY <1>6, <2>2, <2>3 DEF SwapOut
<1>9. t.accUp \in Nat /\ t.accUp <= share
  <2>1. CASE share > 0
    <3>1. AccrualUp(share, p.tl) \in Nat /\ AccrualUp(share, p.tl) * p.tl <= share * ACC_SCALE
      BY <1>2, <1>4, <1>5, AccrualWorth
    <3> DEFINE k == AccrualUp(share, p.tl)
    <3> HIDE DEF k, share, p
    <3>2. k * ACC_SCALE <= k * p.tl
      BY <1>2, <1>5, <3>1, DexConstants, MulMono DEF k
    <3>3. k * ACC_SCALE \in Nat /\ k * p.tl \in Nat /\ share * ACC_SCALE \in Nat
      BY <1>2, <1>4, <3>1, DexConstants DEF k
    <3>4. k * ACC_SCALE <= share * ACC_SCALE
      BY <3>1, <3>2, <3>3 DEF k
    <3>5. k <= share
      BY <1>4, <3>1, <3>4, DexConstants, MulCancel DEF k
    <3>. QED
      BY <1>6, <2>1, <3>1, <3>5 DEF k
  <2>2. CASE ~(share > 0)
    BY <1>4, <1>6, <2>2
  <2>. QED
    BY <2>1, <2>2
<1>10. /\ p.res["x"] + p.fees["x"] + p.pot["x"] <= bal[XEL] /\ bal[XEL] \in Nat
       /\ p.res["y"] + p.fees["y"] + p.pot["y"] <= bal[a] /\ bal[a] \in Nat
       /\ Supply[a] <= U64_MAX /\ Supply[a] \in Nat
  BY <1>1, HeldInBalance
<1>11. dep <= Supply[a] - bal[a]
  BY DEF Outside
<1>12. score[a].fl + fee <= U64_MAX
  BY DEF Checked
<1> HIDE DEF p, t, fee, net, share
<1>13. /\ Checked(p.pot["y"] + t.lpPart) /\ Checked(p.acc["y"] + t.accUp)
       /\ Checked(p.fees["y"] + t.fee - t.lpPart) /\ Checked(score[a].bv + t.bought)
       /\ t.out <= bal[XEL]
  BY <1>2, <1>3, <1>4, <1>6, <1>8, <1>9, <1>10, <1>11, <1>12, DexConstants DEF Checked
<1>14. /\ Checked(score[a].fl + t.fee) /\ Checked(score[a].sv + t.sold)
       /\ t.out >= 1 /\ t.out >= 0
  BY <1>6, <1>7, <1>8 DEF fee
<1>. QED
  BY <1>1, <1>2, <1>8, <1>13, <1>14 DEF SwapAccepted, t, p

ExitInv == TypeOK /\ Solvency /\ PartsInv /\ FeesInv /\ RoomInv

LEMMA ExitInvImplies == ExitInv => ExitsOpen
<1> SUFFICES ASSUME ExitInv
             PROVE  ExitsOpen
  OBVIOUS
<1>1. LpSolvency
  BY FeesInvImplies DEF ExitInv
<1>2. LpExitsOpen
  BY RemoveOpen, ClaimOpen DEF ExitInv, LpExitsOpen
<1>3. SellsOpen
  BY SellOpen, DexConstants DEF ExitInv, SellsOpen, SellGate
<1>. QED
  BY <1>1, <1>2, <1>3 DEF ExitsOpen

LEMMA ExitInvHolds == Spec => []ExitInv
<1>1. Init => ExitInv
  BY InitType, InitSolvent, InitParts, InitFees, InitRoom DEF ExitInv
<1>2. ExitInv /\ [Next]_vars => ExitInv'
  BY StepType, StepSolvent, StepParts, StepFees, StepRoom DEF ExitInv
<1>. QED
  BY <1>1, <1>2, PTL DEF Spec

\* IX6, X12: in every reachable state, under any pause, fee or bound, every
\* provider can remove what is worth a unit and claim what it is owed, and
\* every sell the scoreboard has room for is accepted.
THEOREM ExitsStayOpen == Spec => []ExitsOpen
BY ExitInvHolds, ExitInvImplies, PTL

-----------------------------------------------------------------------------
(* No step takes from the curve.                                           *)

\* Paying at most the curve's price never shrinks the product.
LEMMA ProductGrows ==
  ASSUME NEW x \in Nat, NEW y \in Nat, NEW n \in Nat, NEW out \in Nat,
         out <= y, out * (x + n) <= y * n
  PROVE  (x + n) * (y - out) >= x * y
<1>1. (x + n) * (y - out) = (x + n) * y - (x + n) * out
  OBVIOUS
<1>2. (x + n) * y = x * y + y * n /\ (x + n) * out = out * (x + n)
  OBVIOUS
<1>3. x * y \in Nat /\ y * n \in Nat /\ out * (x + n) \in Nat
  OBVIOUS
<1>. QED
  BY <1>1, <1>2, <1>3

\* The price the reserves move to, against the one they had.
Drift(r, q) == q["x"] * r["y"] - r["x"] * q["y"]
Steady(r, q) == \E s \in Side : Drift(r, q) < r[s] /\ -Drift(r, q) < r[s]

\* Adding in the pool's ratio, floored on one side, moves the price by the
\* remainder of one division.
LEMMA FloorGap ==
  ASSUME NEW n \in Nat, NEW d \in Nat \ {0}
  PROVE  /\ n \div d \in Nat /\ n - (n \div d) * d >= 0 /\ n - (n \div d) * d < d
<1>1. n \div d \in Nat /\ n % d \in 0..(d - 1) /\ n = d * (n \div d) + (n % d)
  BY Division
<1>2. d * (n \div d) = (n \div d) * d
  BY <1>1
<1>. QED
  BY <1>1, <1>2

LEMMA FitSteady ==
  ASSUME NEW r \in [Side -> Nat], NEW in \in [Side -> Nat], NEW q \in [Side -> Nat],
         r["x"] >= 1, r["y"] >= 1,
         \A s \in Side : q[s] = r[s] + Fit(r, in)[s]
  PROVE  Steady(r, q)
<1> DEFINE e == Fit(r, in)
<1>1. /\ r["x"] \in Nat \ {0} /\ r["y"] \in Nat \ {0}
      /\ in["x"] \in Nat /\ in["y"] \in Nat
      /\ "x" \in Side /\ "y" \in Side
  BY DEF Side
<1>2. e \in [Side -> Nat]
  BY <1>1, FitType
<1>3. e["x"] \in Nat /\ e["y"] \in Nat
  BY <1>1, <1>2
<1>4. Drift(r, q) = e["x"] * r["y"] - r["x"] * e["y"]
  <2> DEFINE a == r["x"]
             b == r["y"]
             c == e["x"]
             d == e["y"]
  <2>1. q["x"] = a + c /\ q["y"] = b + d
    BY <1>1
  <2>2. a \in Nat /\ b \in Nat /\ c \in Nat /\ d \in Nat
    BY <1>1, <1>3
  <2>3. Drift(r, q) = (a + c) * b - a * (b + d)
    BY <2>1 DEF Drift
  <2> HIDE DEF a, b, c, d
  <2>4. (a + c) * b = a * b + c * b /\ a * (b + d) = a * b + a * d
    BY <2>2
  <2>5. a * b \in Nat /\ c * b \in Nat /\ a * d \in Nat
    BY <2>2
  <2>6. Drift(r, q) = c * b - a * d
    BY <2>3, <2>4, <2>5
  <2>. QED
    BY <2>6 DEF a, b, c, d
<1>5. CASE in["y"] >= (r["y"] * in["x"]) \div r["x"]
  <2> DEFINE k == (r["y"] * in["x"]) \div r["x"]
             n == r["y"] * in["x"]
  <2>1. e["x"] = in["x"] /\ e["y"] = k
    BY <1>5 DEF Fit
  <2>2. n \in Nat
    BY <1>1
  <2>3. k \in Nat /\ n - k * r["x"] >= 0 /\ n - k * r["x"] < r["x"]
    <3> HIDE DEF n
    <3>. QED
      BY <1>1, <2>2, FloorGap DEF n
  <2>4. e["x"] * r["y"] = n /\ r["x"] * e["y"] = k * r["x"]
    <3> HIDE DEF k
    <3>. QED
      BY <1>1, <2>1, <2>3
  <2>5. k * r["x"] \in Nat
    <3> HIDE DEF k
    <3>. QED
      BY <1>1, <2>3
  <2> HIDE DEF k, n, e
  <2>6. Drift(r, q) \in Nat /\ Drift(r, q) < r["x"]
    BY <1>1, <1>4, <2>2, <2>3, <2>4, <2>5
  <2>. QED
    BY <1>1, <2>6 DEF Steady
<1>6. CASE ~(in["y"] >= (r["y"] * in["x"]) \div r["x"])
  <2> DEFINE k == (r["x"] * in["y"]) \div r["y"]
             n == r["x"] * in["y"]
  <2>1. e["y"] = in["y"] /\ e["x"] = k
    BY <1>6 DEF Fit
  <2>2. n \in Nat
    BY <1>1
  <2>3. k \in Nat /\ n - k * r["y"] >= 0 /\ n - k * r["y"] < r["y"]
    <3> HIDE DEF n
    <3>. QED
      BY <1>1, <2>2, FloorGap DEF n
  <2>4. e["x"] * r["y"] = k * r["y"] /\ r["x"] * e["y"] = n
    BY <2>1
  <2>5. k * r["y"] \in Nat
    <3> HIDE DEF k
    <3>. QED
      BY <1>1, <2>3
  <2> HIDE DEF k, n, e
  <2>6. -Drift(r, q) \in Nat /\ -Drift(r, q) < r["y"] /\ Drift(r, q) < r["y"]
    BY <1>1, <1>4, <2>2, <2>3, <2>4, <2>5
  <2>. QED
    BY <1>1, <2>6 DEF Steady
<1>. QED
  BY <1>5, <1>6

\* The same for a slice, floored on both sides: scaled by the depth, the move of
\* the price is the difference of the two remainders.
LEMMA SliceSteady ==
  ASSUME NEW r \in [Side -> Nat], NEW q \in [Side -> Nat], NEW n \in Nat,
         NEW d \in Nat \ {0}, r["x"] >= 1, r["y"] >= 1,
         \A s \in Side : q[s] = r[s] - (n * r[s]) \div d
  PROVE  Steady(r, q)
<1> DEFINE x == r["x"]
           y == r["y"]
           k == (n * x) \div d
           l == (n * y) \div d
           a == n * x - k * d
           b == n * y - l * d
           m == Drift(r, q)
<1>1. x \in Nat \ {0} /\ y \in Nat \ {0} /\ q["x"] = x - k /\ q["y"] = y - l
  BY DEF Side
<1> HIDE DEF x, y
<1>2. n * x \in Nat /\ n * y \in Nat
  BY <1>1
<1>3. k \in Nat /\ a \in Nat /\ a < d /\ l \in Nat /\ b \in Nat /\ b < d
  <2>1. k \in Nat /\ l \in Nat
    BY <1>2, FloorGap
  <2>2. n * x - k * d >= 0 /\ n * x - k * d < d /\ n * y - l * d >= 0 /\ n * y - l * d < d
    BY <1>2, FloorGap
  <2>3. k * d \in Nat /\ l * d \in Nat
    <3> HIDE DEF k, l
    <3>. QED
      BY <2>1
  <2> HIDE DEF k, l
  <2>. QED
    BY <1>2, <2>1, <2>2, <2>3
<1>4. m = x * l - k * y /\ m \in Int
  <2> HIDE DEF k, l
  <2>1. m = (x - k) * y - x * (y - l)
    BY <1>1 DEF Drift, x, y
  <2>2. (x - k) * y = x * y - k * y /\ x * (y - l) = x * y - x * l
    BY <1>1, <1>3
  <2>3. x * y \in Nat /\ k * y \in Nat /\ x * l \in Nat
    BY <1>1, <1>3
  <2> HIDE DEF m
  <2>. QED
    BY <2>1, <2>2, <2>3
<1>5. m * d = a * y - b * x /\ a * y \in Nat /\ b * x \in Nat
  <2> HIDE DEF k, l, m
  <2>1. m * d = (x * l) * d - (k * y) * d
    BY <1>1, <1>3, <1>4
  <2>2. a * y = (n * x) * y - (k * d) * y /\ b * x = (n * y) * x - (l * d) * x
    BY <1>1, <1>2, <1>3
  <2>3. /\ (n * x) * y = (n * y) * x /\ (k * d) * y = (k * y) * d
        /\ (l * d) * x = (x * l) * d
    BY <1>1, <1>3
  <2>4. /\ (n * y) * x \in Nat /\ (k * y) * d \in Nat /\ (x * l) * d \in Nat
    BY <1>1, <1>3
  <2>5. a * y \in Nat /\ b * x \in Nat
    <3> HIDE DEF a, b
    <3>. QED
      BY <1>1, <1>3
  <2> HIDE DEF a, b
  <2>. QED
    BY <2>1, <2>2, <2>3, <2>4, <2>5
<1> HIDE DEF k, l, a, b, m
<1>6. ASSUME m >= y  PROVE FALSE
  <2>1. d * y <= d * m /\ y * (a + 1) <= y * d
    BY <1>1, <1>3, <1>4, <1>6, MulMono
  <2>2. d * m = m * d /\ y * (a + 1) = a * y + y /\ y * d = d * y
    BY <1>1, <1>3, <1>4
  <2>3. m * d \in Int /\ d * y \in Nat
    BY <1>1, <1>3, <1>4
  <2>. QED
    BY <1>1, <1>5, <2>1, <2>2, <2>3
<1>7. ASSUME -m >= x  PROVE FALSE
  <2> DEFINE j == -m
  <2>0. j \in Nat /\ j >= x
    BY <1>1, <1>4, <1>7
  <2>1. d * x <= d * j /\ x * (b + 1) <= x * d
    <3> HIDE DEF j
    <3>. QED
      BY <1>1, <1>3, <2>0, MulMono
  <2>2. d * j = -(m * d) /\ x * (b + 1) = b * x + x /\ x * d = d * x
    BY <1>1, <1>3, <1>4
  <2>3. m * d \in Int /\ d * x \in Nat
    BY <1>1, <1>3, <1>4
  <2> HIDE DEF j
  <2>. QED
    BY <1>1, <1>5, <2>1, <2>2, <2>3
<1>8. "x" \in Side /\ "y" \in Side /\ r["x"] = x /\ r["y"] = y
  BY DEF Side, x, y
<1>9. CASE m >= 0
  BY <1>1, <1>4, <1>6, <1>8, <1>9 DEF Steady, m
<1>10. CASE ~(m >= 0)
  BY <1>1, <1>4, <1>7, <1>8, <1>10 DEF Steady, m
<1>. QED
  BY <1>9, <1>10

\* What CurveHolds says of one pool's step.
OnCurve(a) ==
  IF pool'[a].tl = pool[a].tl THEN Product(pool'[a]) >= Product(pool[a])
                              ELSE Steady(pool[a].res, pool'[a].res)

LEMMA StillOnCurve ==
  ASSUME TypeOK, NEW a \in Assets, Live(a),
         pool'[a].res = pool[a].res, pool'[a].tl = pool[a].tl
  PROVE  OnCurve(a)
<1>1. pool[a].res["x"] \in Nat /\ pool[a].res["y"] \in Nat
  BY SlotTypes DEF Side
<1>2. Product(pool[a]) \in Nat
  BY <1>1 DEF Product
<1>. QED
  BY <1>2 DEF OnCurve, Product

LEMMA SwapOnCurve ==
  ASSUME TypeOK, NEW a \in Assets, Live(a), NEW s \in Side, NEW dep \in Nat,
         NEW minOut \in Nat, Swap(a, s, dep, minOut)
  PROVE  \A b \in Assets : Live(b) => OnCurve(b)
<1> DEFINE t == Terms(a, s, dep)
           o == Other(s)
           p == pool[a]
           q == pool'[a]
<1>1. /\ t.net \in Nat /\ t.out \in Nat
      /\ SwapMoves(a, s, t.fee, t.net, t.out, t.lpPart, t.accUp)
  BY SwapEffect
<1>2. o \in Side /\ p.res[s] \in Nat /\ p.res[o] \in Nat
  BY SlotTypes DEF Other, Side
<1> HIDE DEF t
<1>3. /\ q.res[s] = p.res[s] + t.net /\ q.res[o] = p.res[o] - t.out
      /\ t.out <= p.res[o] /\ t.out * (p.res[s] + t.net) <= p.res[o] * t.net
      /\ q.tl = p.tl
  <2>1. t.out < p.res[o]
    BY <1>1 DEF SwapMoves
  <2>. QED
    BY <1>1, <1>2, <2>1 DEF SwapMoves
<1>4. q.res[s] * q.res[o] >= p.res[s] * p.res[o]
  <2> HIDE DEF o, p, q
  <2>. QED
    BY <1>1, <1>2, <1>3, ProductGrows
<1>5. Product(q) >= Product(p)
  <2>1. CASE s = "x"
    BY <1>4, <2>1 DEF Product, Other
  <2>2. CASE s = "y"
    <3>1. p.res["x"] \in Nat /\ p.res["y"] \in Nat
      BY SlotTypes DEF Side
    <3>2. q.res["x"] \in Int /\ q.res["y"] \in Int
      BY <1>1, <1>2, <1>3, <2>2 DEF Other
    <3>3. /\ q.res["y"] * q.res["x"] = q.res["x"] * q.res["y"]
          /\ p.res["y"] * p.res["x"] = p.res["x"] * p.res["y"]
      BY <3>1, <3>2
    <3>. QED
      BY <1>4, <2>2, <3>3 DEF Product, Other
  <2>. QED
    BY <2>1, <2>2 DEF Side
<1>6. \A b \in Assets \ {a} : pool'[b] = pool[b]
  BY <1>1 DEF SwapMoves
<1>7. OnCurve(a)
  BY <1>3, <1>5 DEF OnCurve
<1>. QED
  BY <1>6, <1>7, StillOnCurve

LEMMA AddOnCurve ==
  ASSUME TypeOK, TypeOK', NEW u \in Wallets, NEW a \in Assets, NEW in \in [Side -> Nat],
         AddLiquidity(u, a, in)
  PROVE  \A b \in Assets : Live(b) => OnCurve(b)
<1> DEFINE e == Fit(pool[a].res, in)
<1>1. Live(a) /\ e \in [Side -> Nat] /\ e["x"] >= 1 /\ Joined(a, u, e)
  BY AddEffect
<1>2. pool[a] \in Pools /\ pool'[a] \in Pools
  BY <1>1 DEF TypeOK, Live, Joined
<1>3. /\ pool[a].res \in [Side -> Nat] /\ pool'[a].res \in [Side -> Nat]
      /\ pool[a].tl \in Nat
  BY <1>2 DEF Pools
<1>4. /\ pool[a].res["x"] >= 1 /\ pool[a].res["y"] >= 1
      /\ \A s \in Side : pool'[a].res[s] = pool[a].res[s] + e[s]
  BY <1>1 DEF Joined, Side
<1>5. Steady(pool[a].res, pool'[a].res)
  BY <1>3, <1>4, FitSteady
<1> HIDE DEF e
<1>6. pool'[a].tl # pool[a].tl
  BY <1>1, <1>3 DEF Joined, Side
<1>7. \A b \in Assets \ {a} : pool'[b] = pool[b]
  BY <1>1 DEF Joined
<1>. QED
  BY <1>5, <1>6, <1>7, StillOnCurve DEF OnCurve

LEMMA RemoveOnCurve ==
  ASSUME TypeOK, TypeOK', NEW u \in Wallets, NEW a \in Assets, NEW n \in Nat,
         NEW min \in [Side -> Nat], RemoveLiquidity(u, a, n, min)
  PROVE  \A b \in Assets : Live(b) => OnCurve(b)
<1>1. Live(a) /\ n >= 1 /\ pool[a].tl > 0 /\ Left(a, u, n, Slice(a, n))
  BY RemoveEffect
<1>2. pool[a] \in Pools /\ pool'[a] \in Pools
  BY <1>1 DEF TypeOK, Live, Left
<1>3. /\ pool[a].res \in [Side -> Nat] /\ pool'[a].res \in [Side -> Nat]
      /\ pool[a].tl \in Nat \ {0}
  BY <1>1, <1>2 DEF Pools
<1>4. pool[a].res["x"] >= 1 /\ pool[a].res["y"] >= 1
  BY <1>3 DEF RemoveLiquidity, RemoveAccepted, Side
<1>5. \A s \in Side : pool'[a].res[s] = pool[a].res[s] - (n * pool[a].res[s]) \div pool[a].tl
  BY <1>1 DEF Left, Slice
<1>6. Steady(pool[a].res, pool'[a].res)
  BY <1>3, <1>4, <1>5, SliceSteady
<1>7. pool'[a].tl # pool[a].tl
  BY <1>1, <1>3 DEF Left
<1>8. \A b \in Assets \ {a} : pool'[b] = pool[b]
  BY <1>1 DEF Left
<1>. QED
  BY <1>6, <1>7, <1>8, StillOnCurve DEF OnCurve

\* A seed, a withdrawal of the admin's fees and a stop of the buys leave the
\* reserves, the depth and the counters of every live pool alone, and every
\* position in one.
Spared(b) ==
  /\ Live(b)' /\ pool'[b].res = pool[b].res /\ pool'[b].tl = pool[b].tl
  /\ pool'[b].acc = pool[b].acc /\ pos'[b] = pos[b]

LEMMA SeedSpares ==
  ASSUME TypeOK, NEW a \in Assets, NEW seed \in [Side -> Nat], SeedPool(a, seed, FALSE)
  PROVE  \A b \in Assets : Live(b) => Spared(b)
BY DEF SeedPool, TypeOK, Spared, Live

LEMMA WithdrawSpares ==
  ASSUME TypeOK, NEW caller \in Wallets, NEW a \in Assets, NEW amt \in [Side -> Nat],
         WithdrawFees(caller, a, amt)
  PROVE  \A b \in Assets : Live(b) => Spared(b)
<1> DEFINE p  == pool[a]
           np == [p EXCEPT !.fees = [s \in Side |-> p.fees[s] - amt[s]]]
<1>1. /\ p \in Pools /\ pool' = [pool EXCEPT ![a] = np] /\ pos' = pos
      /\ \A s \in Side : amt[s] <= p.fees[s]
  BY LivePool DEF WithdrawFees
<1>2. [s \in Side |-> p.fees[s] - amt[s]] \in [Side -> Nat]
  <2>1. \A s \in Side : p.fees[s] \in Nat /\ amt[s] \in Nat
    BY <1>1 DEF Pools
  <2>. QED
    BY <1>1, <2>1
<1>3. np.res = p.res /\ np.tl = p.tl /\ np.acc = p.acc /\ np \in Pools
  BY <1>1, <1>2 DEF Pools
<1> HIDE DEF np
<1>. QED
  BY <1>1, <1>3, NoneIsNoPool DEF Spared, TypeOK, Live

LEMMA BuysPausedSpares ==
  ASSUME TypeOK, NEW caller \in Wallets, NEW a \in Assets, NEW flag \in BOOLEAN,
         SetPoolBuysPaused(caller, a, flag)
  PROVE  \A b \in Assets : Live(b) => Spared(b)
<1> DEFINE p  == pool[a]
           np == [p EXCEPT !.bp = flag]
<1>1. p \in Pools /\ pool' = [pool EXCEPT ![a] = np] /\ pos' = pos
  BY LivePool DEF SetPoolBuysPaused
<1>2. np.res = p.res /\ np.tl = p.tl /\ np.acc = p.acc /\ np \in Pools
  BY <1>1 DEF Pools
<1> HIDE DEF np
<1>. QED
  BY <1>1, <1>2, NoneIsNoPool DEF Spared, TypeOK, Live

\* The steps that are neither a swap, an add, a remove nor a claim.
LEMMA OtherSpares ==
  ASSUME TypeOK,
         \/ \E u \in Wallets, a \in Assets, seed \in Pairs : CreatePool(u, a, seed)
         \/ \E a \in Assets, seed \in Pairs : CreatePoolOpen(a, seed)
         \/ \E u \in Wallets : Govern(u)
         \/ \E u \in Wallets, a \in Assets, flag \in FlagArgs : SetPoolBuysPaused(u, a, flag)
         \/ \E u \in Wallets, a \in Assets, amt \in Pairs : WithdrawFees(u, a, amt)
         \/ \E c \in Coins, d \in StrayArgs : StrayDeposit(c, d)
         \/ UNCHANGED vars
  PROVE  \A b \in Assets : Live(b) => Spared(b)
<1>0. Pairs \subseteq [Side -> Nat]
  BY DexConstants DEF Pairs
<1>1. CASE \E u \in Wallets, a \in Assets, seed \in Pairs : CreatePool(u, a, seed)
  BY <1>0, <1>1, SeedSpares DEF CreatePool
<1>2. CASE \E a \in Assets, seed \in Pairs : CreatePoolOpen(a, seed)
  BY <1>0, <1>2, SeedSpares DEF CreatePoolOpen
<1>3. CASE \E u \in Wallets : Govern(u)
  BY <1>3 DEF Spared, Live, Govern, SetSwapFee, SetFeeSplit, SetTradeBounds,
              SetLaunchpad, SetAdmin, SetPaused
<1>4. CASE \E u \in Wallets, a \in Assets, flag \in FlagArgs : SetPoolBuysPaused(u, a, flag)
  BY <1>4, DexConstants, BuysPausedSpares
<1>5. CASE \E u \in Wallets, a \in Assets, amt \in Pairs : WithdrawFees(u, a, amt)
  BY <1>0, <1>5, WithdrawSpares
<1>6. CASE \E c \in Coins, d \in StrayArgs : StrayDeposit(c, d)
  BY <1>6 DEF Spared, Live, StrayDeposit
<1>7. CASE UNCHANGED vars
  BY <1>7 DEF Spared, Live, vars
<1>. QED
  BY <1>1, <1>2, <1>3, <1>4, <1>5, <1>6, <1>7

LEMMA StepOnCurve ==
  TypeOK /\ TypeOK' /\ [Next]_vars => \A b \in Assets : Live(b) => OnCurve(b)
<1> SUFFICES ASSUME TypeOK, TypeOK', [Next]_vars
             PROVE  \A b \in Assets : Live(b) => OnCurve(b)
  OBVIOUS
<1>0. Pairs \subseteq [Side -> Nat] /\ [Side -> MinOuts] \subseteq [Side -> Nat]
  BY DexConstants DEF Pairs
<1>1. CASE \E a \in Assets : Trade(a)
  BY <1>1, DexConstants, SwapOnCurve
     DEF Trade, SwapXelForToken, SwapTokenForXel, BuyGate, SellGate, Side
<1>2. CASE \E u \in Wallets, a \in Assets : Provide(u, a)
  <2>1. PICK u \in Wallets, a \in Assets : Provide(u, a)
    BY <1>2
  <2>2. CASE \E in \in Pairs : AddLiquidity(u, a, in)
    BY <1>0, <2>2, AddOnCurve
  <2>3. CASE \E n \in Amounts, min \in [Side -> MinOuts] : RemoveLiquidity(u, a, n, min)
    BY <1>0, <2>3, DexConstants, RemoveOnCurve
  <2>4. CASE ClaimLpFees(u, a)
    BY <2>4, ClaimEffect, StillOnCurve DEF Paid
  <2>. QED
    BY <2>1, <2>2, <2>3, <2>4 DEF Provide
<1>3. ASSUME NEW b \in Assets, Live(b), Spared(b)  PROVE OnCurve(b)
  BY <1>3, StillOnCurve DEF Spared
<1>. QED
  BY <1>1, <1>2, <1>3, OtherSpares DEF Next

\* IX3, IX7: no swap, whatever its size, fee or rounding, takes from the product
\* of a pool's reserves, and no add or remove moves the price by a floor unit.
THEOREM CurveKept == Spec => CurveHolds
<1>1. TypeOK /\ TypeOK' /\ [Next]_vars =>
        [\A a \in Assets : Live(a) =>
           LET r == pool[a].res  r1 == pool'[a].res
               drift == r1["x"] * r["y"] - r["x"] * r1["y"]
           IN  IF pool'[a].tl = pool[a].tl THEN Product(pool'[a]) >= Product(pool[a])
               ELSE \E s \in Side : drift < r[s] /\ -drift < r[s]]_vars
  BY StepOnCurve DEF OnCurve, Steady, Drift
<1>. QED
  BY <1>1, Typed, PTL DEF Spec, CurveHolds

-----------------------------------------------------------------------------
(* No step takes from what a provider is owed.                             *)

DueKept(a, u) ==
  \A s \in Side :
    Crystallised(a, u)'[s] < Crystallised(a, u)[s] =>
      /\ Crystallised(a, u)' = Zero
      /\ bal' = [bal EXCEPT ![XEL] = @ - Crystallised(a, u)["x"],
                            ![a] = @ - Crystallised(a, u)["y"]]

LEMMA DivMono ==
  ASSUME NEW n \in Nat, NEW m \in Nat, NEW d \in Nat \ {0}, n <= m
  PROVE  n \div d <= m \div d
<1> DEFINE j == n \div d
           k == m \div d
<1>1. j \in Nat /\ n - j * d >= 0 /\ k \in Nat /\ m - k * d < d
  BY FloorGap
<1> HIDE DEF j, k
<1>2. j * d \in Nat /\ k * d \in Nat
  BY <1>1
<1>3. ASSUME k + 1 <= j  PROVE FALSE
  <2>1. d * (k + 1) <= d * j
    BY <1>1, <1>3, MulMono
  <2>2. d * (k + 1) = k * d + d /\ d * j = j * d
    BY <1>1
  <2>. QED
    BY <1>1, <1>2, <2>1, <2>2
<1>. QED
  BY <1>1, <1>3 DEF j, k

\* A position that stays earns from a counter that does not fall.
LEMMA EarnedMore ==
  ASSUME TypeOK, NEW a \in Assets, Live(a), Live(a)', TypeOK', NEW u \in Wallets,
         pos'[a][u] = pos[a][u],
         \A s \in Side : pool'[a].acc[s] >= pool[a].acc[s]
  PROVE  \A s \in Side : /\ Crystallised(a, u)'[s] >= Crystallised(a, u)[s]
                         /\ Crystallised(a, u)'[s] \in Nat
<1>1. ASSUME NEW s \in Side
      PROVE  /\ Crystallised(a, u)'[s] >= Crystallised(a, u)[s]
             /\ Crystallised(a, u)'[s] \in Nat
  <2> DEFINE j == pool[a].acc[s]
             k == pool'[a].acc[s]
             c == pos[a][u].snap[s]
             w == pos[a][u].parts
  <2>1. /\ j \in Nat /\ k \in Nat /\ c \in Nat /\ w \in Nat /\ j <= k
        /\ pos[a][u].claim[s] \in Nat
    BY SlotTypes, SlotTypesNext
  <2>2. /\ Accrued(a, u, s) = IF j > c THEN ((j - c) * w) \div ACC_SCALE ELSE 0
        /\ Accrued(a, u, s)' = IF k > c THEN ((k - c) * w) \div ACC_SCALE ELSE 0
    BY DEF Accrued
  <2>3. /\ Crystallised(a, u)[s] = pos[a][u].claim[s] + Accrued(a, u, s)
        /\ Crystallised(a, u)'[s] = pos[a][u].claim[s] + Accrued(a, u, s)'
    BY DEF Crystallised
  <2> HIDE DEF j, k, c, w
  <2>4. CASE j > c
    <3>1. j - c \in Nat /\ k - c \in Nat /\ j - c <= k - c /\ k > c
      BY <2>1, <2>4
    <3>2. w * (j - c) <= w * (k - c)
      BY <2>1, <3>1, MulMono
    <3>3. /\ w * (j - c) = (j - c) * w /\ w * (k - c) = (k - c) * w
          /\ (j - c) * w \in Nat /\ (k - c) * w \in Nat
      BY <2>1, <3>1
    <3>4. ((j - c) * w) \div ACC_SCALE <= ((k - c) * w) \div ACC_SCALE
      BY <3>2, <3>3, DexConstants, DivMono
    <3>5. /\ ((j - c) * w) \div ACC_SCALE \in Nat
          /\ ((k - c) * w) \div ACC_SCALE \in Nat
      BY <3>3, DexConstants, DivBounds
    <3>. QED
      BY <2>1, <2>2, <2>3, <2>4, <3>1, <3>4, <3>5
  <2>5. CASE ~(j > c)
    <3>1. k > c => (k - c) * w \in Nat
      BY <2>1
    <3>2. k > c => ((k - c) * w) \div ACC_SCALE \in Nat
      BY <3>1, DexConstants, DivBounds
    <3>. QED
      BY <2>1, <2>2, <2>3, <2>5, <3>2
  <2>. QED
    BY <2>4, <2>5
<1>. QED
  BY <1>1

LEMMA EarnedKept ==
  ASSUME TypeOK, NEW a \in Assets, Live(a), Live(a)', TypeOK', NEW u \in Wallets,
         pos'[a][u] = pos[a][u],
         \A s \in Side : pool'[a].acc[s] >= pool[a].acc[s]
  PROVE  DueKept(a, u)
<1>1. \A s \in Side : /\ Crystallised(a, u)'[s] >= Crystallised(a, u)[s]
                      /\ Crystallised(a, u)'[s] \in Nat
  BY EarnedMore
<1>2. \A s \in Side : Crystallised(a, u)[s] \in Nat
  BY CrystallisedType DEF Live
<1>. QED
  BY <1>1, <1>2 DEF DueKept

\* An add and a remove crystallise what the caller has earned, to the unit.
LEMMA SettledKept ==
  ASSUME TypeOK, NEW a \in Assets, Live(a), NEW u \in Wallets,
         pool'[a].acc = pool[a].acc, pos'[a][u].snap = pool[a].acc,
         pos'[a][u].claim = Crystallised(a, u)
  PROVE  DueKept(a, u)
<1>1. ASSUME NEW s \in Side
      PROVE  Crystallised(a, u)'[s] = Crystallised(a, u)[s] /\ Crystallised(a, u)[s] \in Nat
  <2>1. pool[a].acc[s] \in Nat /\ Crystallised(a, u)[s] \in Nat
    BY SlotTypes, CrystallisedType
  <2>2. Accrued(a, u, s)' = 0
    BY <2>1 DEF Accrued
  <2>3. Crystallised(a, u)'[s] = pos'[a][u].claim[s] + Accrued(a, u, s)'
    BY DEF Crystallised
  <2>. QED
    BY <2>1, <2>2, <2>3
<1>. QED
  BY <1>1 DEF DueKept

\* A claim pays all of it out.
LEMMA PaidKept ==
  ASSUME TypeOK, NEW a \in Assets, Live(a), NEW u \in Wallets,
         Paid(a, u, Crystallised(a, u))
  PROVE  DueKept(a, u)
<1>1. ASSUME NEW s \in Side  PROVE Crystallised(a, u)'[s] = 0
  <2>1. /\ pool[a].acc[s] \in Nat /\ pos[a][u].parts \in Nat /\ pos[a][u].snap[s] \in Nat
    BY SlotTypes
  <2>2. Accrued(a, u, s)' = 0
    <3>1. /\ pool'[a].acc = pool[a].acc /\ pos'[a][u].parts = pos[a][u].parts
          /\ pos'[a][u].snap = IF pos[a][u].parts > 0 THEN pool[a].acc ELSE pos[a][u].snap
      BY DEF Paid
    <3>2. CASE pos[a][u].parts > 0
      BY <2>1, <3>1, <3>2 DEF Accrued
    <3>3. CASE pos[a][u].parts = 0
      <4>1. (pool[a].acc[s] - pos[a][u].snap[s]) * 0 = 0 /\ 0 \div ACC_SCALE = 0
        BY <2>1, DexConstants
      <4>. QED
        BY <3>1, <3>3, <4>1 DEF Accrued
    <3>. QED
      BY <2>1, <3>2, <3>3
  <2>3. Crystallised(a, u)'[s] = pos'[a][u].claim[s] + Accrued(a, u, s)'
    BY DEF Crystallised
  <2>4. pos'[a][u].claim[s] = 0
    BY DEF Paid, Zero
  <2>. QED
    BY <2>2, <2>3, <2>4
<1>2. Crystallised(a, u)' = Zero
  BY <1>1 DEF Zero, Crystallised
<1>3. bal' = [bal EXCEPT ![XEL] = @ - Crystallised(a, u)["x"],
                         ![a] = @ - Crystallised(a, u)["y"]]
  BY DEF Paid
<1>. QED
  BY <1>2, <1>3 DEF DueKept

LEMMA StepDueKept ==
  TypeOK /\ TypeOK' /\ [Next]_vars =>
    \A b \in Assets, v \in Wallets : Live(b) => DueKept(b, v)
<1> SUFFICES ASSUME TypeOK, TypeOK', [Next]_vars, NEW b \in Assets, NEW v \in Wallets, Live(b)
             PROVE  DueKept(b, v)
  OBVIOUS
<1>0. Pairs \subseteq [Side -> Nat] /\ [Side -> MinOuts] \subseteq [Side -> Nat]
  BY DexConstants DEF Pairs
<1>1. ASSUME pos'[b][v] = pos[b][v], pool'[b].acc = pool[b].acc
      PROVE  DueKept(b, v)
  <2>1. ASSUME NEW s \in Side
        PROVE  /\ Crystallised(b, v)'[s] = Crystallised(b, v)[s]
               /\ Crystallised(b, v)[s] \in Nat
    BY <1>1, CrystallisedType DEF Crystallised, Accrued
  <2>. QED
    BY <2>1 DEF DueKept
<1>2. CASE \E a \in Assets : Trade(a)
  <2>1. PICK a \in Assets, s \in Side, dep \in Nat, minOut \in Nat :
          Live(a) /\ Swap(a, s, dep, minOut)
    BY <1>2, DexConstants
       DEF Trade, SwapXelForToken, SwapTokenForXel, BuyGate, SellGate, Side
  <2> DEFINE t == Terms(a, s, dep)
  <2>2. /\ t.accUp \in Nat /\ SwapMoves(a, s, t.fee, t.net, t.out, t.lpPart, t.accUp)
        /\ pos' = pos
    BY <2>1, SwapEffect DEF Swap
  <2> HIDE DEF t
  <2>3. CASE b = a
    <3>1. ASSUME NEW e \in Side  PROVE pool'[a].acc[e] >= pool[a].acc[e]
      <4>1. pool[a].acc[e] \in Nat
        BY <2>1, SlotTypes
      <4>. QED
        BY <2>2, <4>1 DEF SwapMoves, Other, Side
    <3>2. Live(a)'
      BY <2>2 DEF SwapMoves
    <3>. QED
      BY <2>2, <2>3, <3>1, <3>2, EarnedKept
  <2>4. CASE b # a
    BY <1>1, <2>2, <2>4 DEF SwapMoves
  <2>. QED
    BY <2>3, <2>4
<1>3. CASE \E u \in Wallets, a \in Assets : Provide(u, a)
  <2>1. PICK u \in Wallets, a \in Assets : Provide(u, a)
    BY <1>3
  <2>2. CASE \E in \in Pairs : AddLiquidity(u, a, in)
    <3>1. Live(a) /\ \E eff : Joined(a, u, eff)
      BY <1>0, <2>2, AddEffect
    <3>. QED
      BY <1>1, <3>1, SettledKept DEF Joined
  <2>3. CASE \E n \in Amounts, min \in [Side -> MinOuts] : RemoveLiquidity(u, a, n, min)
    <3>1. Live(a) /\ \E n, out : Left(a, u, n, out)
      BY <1>0, <2>3, DexConstants, RemoveEffect
    <3>. QED
      BY <1>1, <3>1, SettledKept DEF Left
  <2>4. CASE ClaimLpFees(u, a)
    <3>1. Live(a) /\ Paid(a, u, Crystallised(a, u))
      BY <2>4, ClaimEffect
    <3>2. /\ \A c \in Assets \ {a} : pool'[c] = pool[c] /\ pos'[c] = pos[c]
          /\ \A w \in Wallets \ {u} : pos'[a][w] = pos[a][w]
          /\ pool'[a].acc = pool[a].acc
      BY <3>1 DEF Paid
    <3>. QED
      BY <1>1, <3>1, <3>2, PaidKept
  <2>. QED
    BY <2>1, <2>2, <2>3, <2>4 DEF Provide
<1>4. CASE Spared(b)
  BY <1>1, <1>4 DEF Spared
<1>. QED
  BY <1>2, <1>3, <1>4, OtherSpares DEF Next

\* X10, X12: no step of any operation takes a unit from what a provider is owed
\* except the provider's own claim, and that one pays all of it out.
THEOREM DuesStay == Spec => DuesKept
<1>1. TypeOK /\ TypeOK' /\ [Next]_vars =>
        [\A a \in Assets, u \in Wallets, s \in Side :
           Live(a) /\ Crystallised(a, u)'[s] < Crystallised(a, u)[s] =>
             /\ Crystallised(a, u)' = Zero
             /\ bal' = [bal EXCEPT ![XEL] = @ - Crystallised(a, u)["x"],
                                   ![a] = @ - Crystallised(a, u)["y"]]]_vars
  BY StepDueKept DEF DueKept
<1>. QED
  BY <1>1, Typed, PTL DEF Spec, DuesKept

-----------------------------------------------------------------------------
(* The SDK's formulas are the contract's.                                  *)

\* The mirrored slots of a live pool.
LEMMA MirroredSlots ==
  ASSUME ExitInv, NEW a \in Assets, Live(a)
  PROVE  /\ \A s \in Side : pool[a].res[s] \in Nat \ {0}
         /\ pool[a].tl \in Nat \ {0} /\ pool[a].pl \in Nat \ {0}
         /\ config.lpShare \in 0..BPS_DENOM /\ config.swapFee \in 0..BPS_DENOM
<1> DEFINE w == [u \in Wallets |-> pos[a][u].w]
<1>1. Total(w) = pool[a].tl - pool[a].pl /\ pool[a].pl >= MIN_LP_ADD_XEL
  BY DEF ExitInv, PartsInv, LedgerOf, Withdrawables
<1>2. \A s \in Side : pool[a].res[s] \in Nat /\ pool[a].tl \in Nat /\ pool[a].pl \in Nat
  BY SlotTypes DEF ExitInv
<1>3. \A s \in Side : pool[a].res[s] >= 1
  BY DEF ExitInv, RoomInv, RoomOf
<1>4. config.lpShare \in 0..BPS_DENOM /\ config.swapFee \in 0..BPS_DENOM
  BY DexConstants DEF ExitInv, TypeOK
<1>5. Total(w) \in Nat
  <2>1. w \in [Wallets -> Nat]
    BY SlotTypes DEF ExitInv, Side
  <2> HIDE DEF w
  <2>. QED
    BY <2>1, DexConstants, TotalType
<1> HIDE DEF w
<1>. QED
  BY <1>1, <1>2, <1>3, <1>4, <1>5, DexConstants DEF Side

LEMMA QuoteExact ==
  ASSUME ExitInv, NEW a \in Assets, Live(a), NEW s \in Side, NEW d \in Nat
  PROVE  Quote(a, s, d) = AmountOut(a, s, d)
<1>1. pool[a].res["x"] # 0 /\ pool[a].res["y"] # 0
  BY MirroredSlots DEF Side
<1>2. AmountOut(a, s, d) = SwapOut(pool[a].res[s], pool[a].res[Other(s)],
                                   d - FeeTake(d, config.swapFee))
  BY <1>1 DEF AmountOut, NetOf
<1>3. CASE d = 0
  <2>1. FeeTake(0, config.swapFee) = 0
    <3>1. 0 * config.swapFee = 0 /\ 0 \div BPS_DENOM = 0
      BY DexConstants, MirroredSlots
    <3>. QED
      BY <3>1 DEF FeeTake
  <2>2. \A r, q \in Nat \ {0} : (q * 0) \div (r + 0) = 0
    OBVIOUS
  <2>3. pool[a].res[s] \in Nat \ {0} /\ pool[a].res[Other(s)] \in Nat \ {0}
    BY MirroredSlots DEF Other, Side
  <2>4. d - FeeTake(d, config.swapFee) = 0
    BY <1>3, <2>1
  <2>. QED
    BY <1>2, <1>3, <2>2, <2>3, <2>4 DEF SwapOut, Quote
<1>4. CASE d # 0
  BY <1>2, <1>4 DEF Quote, Side, Other, SwapOut, xel_to_tokens_out, tokens_to_xel_out,
                    fee_take, FeeTake
<1>. QED
  BY <1>3, <1>4

LEMMA SplitExact ==
  ASSUME ExitInv, NEW a \in Assets, Live(a), NEW s \in Side, NEW d \in Nat
  PROVE  LET t == Terms(a, s, d)  split == fee_split(t.fee, config.lpShare)
         IN  t.lpPart = split.lp /\ t.accUp = accrual_increment(split.lp, pool[a].tl)
<1> DEFINE t == Terms(a, s, d)
<1>1. pool[a].tl \in Nat \ {0}
  BY MirroredSlots
<1>2. t.fee = FeeTake(d, config.swapFee) /\ t.fee \in Nat
  BY FeeTakeBound, MirroredSlots DEF Terms
<1>3. t.lpPart = FeeTake(t.fee, config.lpShare) /\ t.lpPart \in Nat
  BY <1>1, <1>2, FeeTakeBound, MirroredSlots DEF Terms
<1>4. t.accUp = IF t.lpPart > 0 THEN AccrualUp(t.lpPart, pool[a].tl) ELSE 0
  BY DEF Terms
<1>5. \A k \in Nat \ {0} : (0 * ACC_SCALE) \div k = 0
  BY DexConstants
<1>6. fee_split(t.fee, config.lpShare).lp = t.lpPart
  BY <1>3 DEF fee_split, fee_take, FeeTake
<1> HIDE DEF t
<1>7. accrual_increment(t.lpPart, pool[a].tl) = t.accUp
  BY <1>1, <1>3, <1>4, <1>5 DEF accrual_increment, AccrualUp
<1>. QED
  BY <1>6, <1>7 DEF t

LEMMA FitExact ==
  ASSUME ExitInv, NEW a \in Assets, Live(a), NEW in \in [Side -> Nat \ {0}]
  PROVE  LET res == pool[a].res
             fit == liquidity_fit(res["x"], res["y"], in["x"], in["y"])
             eff == Fit(res, in)
         IN  IF fit.ok THEN eff["x"] = fit.x /\ eff["y"] = fit.y
             ELSE \/ \E s \in Side : eff[s] < 1 \/ eff[s] > in[s]
                  \/ eff["x"] < MIN_LP_ADD_XEL
<1> DEFINE r == pool[a].res
           nt == (r["y"] * in["x"]) \div r["x"]
           nx == (r["x"] * in["y"]) \div r["y"]
           fit == liquidity_fit(r["x"], r["y"], in["x"], in["y"])
           eff == Fit(r, in)
<1>1. /\ r["x"] \in Nat \ {0} /\ r["y"] \in Nat \ {0}
      /\ in["x"] \in Nat \ {0} /\ in["y"] \in Nat \ {0}
  BY MirroredSlots DEF Side
<1>2. nt \in Nat /\ nx \in Nat
  <2>1. r["y"] * in["x"] \in Nat /\ r["x"] * in["y"] \in Nat
    BY <1>1
  <2>. QED
    BY <1>1, <2>1, DivBounds
<1>3. eff = IF in["y"] >= nt THEN [x |-> in["x"], y |-> nt] ELSE [x |-> nx, y |-> in["y"]]
  BY DEF Fit
<1> DEFINE joins == IF in["y"] >= nt THEN [ok |-> TRUE, x |-> in["x"], y |-> nt]
                    ELSE [ok |-> in["x"] >= nx, x |-> nx, y |-> in["y"]]
<1>4. fit = IF joins.ok /\ joins.x >= 1 /\ joins.y >= 1 /\ joins.x >= MIN_LP_ADD_XEL
            THEN joins ELSE Refused
  BY DEF liquidity_fit
<1> HIDE DEF nt, nx, fit, eff
<1>5. CASE in["y"] >= nt
  <2>1. joins.ok /\ joins.x = in["x"] /\ joins.y = nt /\ eff["x"] = in["x"] /\ eff["y"] = nt
    BY <1>3, <1>5
  <2> HIDE DEF joins
  <2>2. ~fit.ok => \/ eff["x"] < 1 \/ eff["y"] < 1 \/ eff["x"] > in["x"]
                   \/ eff["x"] < MIN_LP_ADD_XEL
    BY <1>1, <1>2, <1>4, <2>1, DexConstants DEF Refused
  <2>3. fit.ok => eff["x"] = fit.x /\ eff["y"] = fit.y
    BY <1>4, <2>1 DEF Refused
  <2>. QED
    BY <2>2, <2>3 DEF Side, fit, eff, r
<1>6. CASE ~(in["y"] >= nt)
  <2>1. /\ (joins.ok <=> in["x"] >= nx) /\ joins.x = nx /\ joins.y = in["y"]
        /\ eff["x"] = nx /\ eff["y"] = in["y"]
    BY <1>3, <1>6
  <2> HIDE DEF joins
  <2>2. ~fit.ok => \/ eff["x"] < 1 \/ eff["y"] < 1 \/ eff["x"] > in["x"]
                   \/ eff["x"] < MIN_LP_ADD_XEL
    BY <1>1, <1>2, <1>4, <2>1, DexConstants DEF Refused
  <2>3. fit.ok => eff["x"] = fit.x /\ eff["y"] = fit.y
    BY <1>4, <2>1 DEF Refused
  <2>. QED
    BY <2>2, <2>3 DEF Side, fit, eff, r
<1>. QED
  BY <1>5, <1>6

LEMMA RemoveExact ==
  ASSUME ExitInv, NEW a \in Assets, Live(a), NEW u \in Wallets, NEW n \in 1..pos[a][u].w
  PROVE  LET quote == remove_outs(pool[a].res["x"], pool[a].res["y"], n, pool[a].tl)
         IN  IF quote.ok THEN Slice(a, n)["x"] = quote.x /\ Slice(a, n)["y"] = quote.y
             ELSE ~RemoveAccepted(u, a, n, Zero)
<1> DEFINE x == pool[a].res["x"]
           y == pool[a].res["y"]
           ox == (n * x) \div pool[a].tl
           oy == (n * y) \div pool[a].tl
           fine == /\ pool[a].tl > 0 /\ n > 0 /\ n < pool[a].tl
                   /\ ox >= 1 /\ oy >= 1 /\ ox < x /\ oy < y
           quote == remove_outs(x, y, n, pool[a].tl)
<1>1. /\ pool[a].tl \in Nat \ {0} /\ pool[a].pl \in Nat \ {0}
      /\ x \in Nat \ {0} /\ y \in Nat \ {0} /\ n \in Nat \ {0}
  <2>1. pos[a][u].w \in Nat
    BY SlotTypes DEF ExitInv, Side
  <2>. QED
    BY <2>1, MirroredSlots DEF Side
<1>2. Slice(a, n)["x"] = ox /\ Slice(a, n)["y"] = oy
  BY DEF Slice, Side
<1>3. ox \in Nat /\ oy \in Nat
  <2>1. n * x \in Nat /\ n * y \in Nat
    BY <1>1
  <2>. QED
    BY <1>1, <2>1, DivBounds
<1>4. quote = IF fine THEN [ok |-> TRUE, x |-> ox, y |-> oy] ELSE Refused
  BY DEF remove_outs
<1>5. ASSUME RemoveAccepted(u, a, n, Zero)  PROVE fine
  <2>1. /\ pool[a].tl - n >= pool[a].pl
        /\ Slice(a, n)["x"] >= 1 /\ Slice(a, n)["y"] >= 1
        /\ x > Slice(a, n)["x"] /\ y > Slice(a, n)["y"]
    BY <1>5 DEF RemoveAccepted, Side
  <2> HIDE DEF ox, oy, x, y
  <2>. QED
    BY <1>1, <1>2, <1>3, <2>1
<1> HIDE DEF ox, oy, fine
<1>. QED
  BY <1>2, <1>4, <1>5 DEF Refused

LEMMA EarningsExact ==
  ASSUME ExitInv, NEW a \in Assets, Live(a), NEW u \in Wallets, NEW s \in Side
  PROVE  Crystallised(a, u)[s] = pos[a][u].claim[s]
           + lp_earnings(pool[a].acc[s], pos[a][u].snap[s], pos[a][u].parts)
<1> DEFINE acc == pool[a].acc[s]
           snap == pos[a][u].snap[s]
           n == pos[a][u].parts
<1>1. acc \in Nat /\ snap \in Nat /\ n \in Nat
  BY SlotTypes DEF ExitInv
<1>2. Accrued(a, u, s) = IF acc > snap THEN ((acc - snap) * n) \div ACC_SCALE ELSE 0
  BY DEF Accrued
<1>3. \A k \in Nat : (k * 0) \div ACC_SCALE = 0
  BY DexConstants
<1>4. lp_earnings(acc, snap, n) = IF n <= 0 \/ acc <= snap THEN 0
                                  ELSE ((acc - snap) * n) \div ACC_SCALE
  BY DEF lp_earnings
<1>5. Crystallised(a, u)[s] = pos[a][u].claim[s] + Accrued(a, u, s)
  BY DEF Crystallised
<1> HIDE DEF acc, snap, n
<1>6. Accrued(a, u, s) = lp_earnings(acc, snap, n)
  <2>1. CASE n = 0 /\ acc > snap
    <3>1. acc - snap \in Nat
      BY <1>1, <2>1
    <3>. QED
      BY <1>2, <1>3, <1>4, <2>1, <3>1
  <2>. QED
    BY <1>1, <1>2, <1>4, <2>1
<1>. QED
  BY <1>5, <1>6 DEF acc, snap, n

LEMMA MirrorHolds == ExitInv => MirrorExact
<1> SUFFICES ASSUME ExitInv, NEW a \in Assets, Live(a)
             PROVE  LET res == pool[a].res
                    IN /\ \A s \in Side, d \in Amounts : Quote(a, s, d) = AmountOut(a, s, d)
                       /\ \A s \in Side, d \in Amounts \ {0} :
                            LET t == Terms(a, s, d) split == fee_split(t.fee, config.lpShare)
                            IN t.lpPart = split.lp
                               /\ t.accUp = accrual_increment(split.lp, pool[a].tl)
                       /\ \A in \in [Side -> Amounts \ {0}] :
                            LET fit == liquidity_fit(res["x"], res["y"], in["x"], in["y"])
                                eff == Fit(res, in)
                            IN IF fit.ok THEN eff["x"] = fit.x /\ eff["y"] = fit.y
                               ELSE \/ \E s \in Side : eff[s] < 1 \/ eff[s] > in[s]
                                    \/ eff["x"] < MIN_LP_ADD_XEL
                       /\ \A u \in Wallets, n \in Amounts :
                            n \in 1..pos[a][u].w =>
                              LET quote == remove_outs(res["x"], res["y"], n, pool[a].tl)
                              IN IF quote.ok
                                 THEN Slice(a, n)["x"] = quote.x /\ Slice(a, n)["y"] = quote.y
                                 ELSE ~RemoveAccepted(u, a, n, Zero)
                       /\ \A u \in Wallets, s \in Side :
                            Crystallised(a, u)[s] = pos[a][u].claim[s]
                              + lp_earnings(pool[a].acc[s], pos[a][u].snap[s], pos[a][u].parts)
                       /\ (status_label(a) = "live") = BuyGate(a)
  BY DEF MirrorExact
<1>0. Amounts \subseteq Nat /\ [Side -> Amounts \ {0}] \subseteq [Side -> Nat \ {0}]
  BY DexConstants
<1>1. (status_label(a) = "live") = BuyGate(a)
  BY DEF status_label, BuyGate
<1>. QED
  BY <1>0, <1>1, QuoteExact, SplitExact, FitExact, RemoveExact, EarningsExact

-----------------------------------------------------------------------------
(* The terminal.  What it has read of its wallet's position is the         *)
(* position, and the counters it has read lie between those of the start   *)
(* and those of now, so what it shows lies between what was and is owed.   *)

\* A pool stays, and its counters do not fall.
LEMMA StepClock ==
  TypeOK /\ [Next]_vars =>
    \A b \in Assets : Live(b) => /\ Live(b)'
                                 /\ \A s \in Side : pool'[b].acc[s] >= pool[b].acc[s]
<1> SUFFICES ASSUME TypeOK, [Next]_vars, NEW b \in Assets, Live(b)
             PROVE  Live(b)' /\ \A s \in Side : pool'[b].acc[s] >= pool[b].acc[s]
  OBVIOUS
<1>0. Pairs \subseteq [Side -> Nat] /\ [Side -> MinOuts] \subseteq [Side -> Nat]
  BY DexConstants DEF Pairs
<1>1. \A s \in Side : pool[b].acc[s] \in Nat
  BY SlotTypes
<1>2. CASE \E a \in Assets : Trade(a)
  <2>1. PICK a \in Assets, s \in Side, dep \in Nat, minOut \in Nat :
          Live(a) /\ Swap(a, s, dep, minOut)
    BY <1>2, DexConstants
       DEF Trade, SwapXelForToken, SwapTokenForXel, BuyGate, SellGate, Side
  <2> DEFINE t == Terms(a, s, dep)
  <2>2. t.accUp \in Nat /\ SwapMoves(a, s, t.fee, t.net, t.out, t.lpPart, t.accUp)
    BY <2>1, SwapEffect
  <2> HIDE DEF t
  <2>3. CASE b = a
    BY <1>1, <2>2, <2>3 DEF SwapMoves, Other, Side
  <2>4. CASE b # a
    BY <1>1, <2>2, <2>4 DEF SwapMoves, Live
  <2>. QED
    BY <2>3, <2>4
<1>3. CASE \E u \in Wallets, a \in Assets : Provide(u, a)
  <2>1. PICK u \in Wallets, a \in Assets : Provide(u, a)
    BY <1>3
  <2>2. /\ Live(a)' /\ \A c \in Assets \ {a} : pool'[c] = pool[c]
        /\ pool'[a].acc = pool[a].acc
    <3>1. CASE \E in \in Pairs : AddLiquidity(u, a, in)
      BY <1>0, <3>1, AddEffect DEF Joined
    <3>2. CASE \E n \in Amounts, min \in [Side -> MinOuts] : RemoveLiquidity(u, a, n, min)
      BY <1>0, <3>2, DexConstants, RemoveEffect DEF Left
    <3>3. CASE ClaimLpFees(u, a)
      BY <3>3, ClaimEffect DEF Paid
    <3>. QED
      BY <2>1, <3>1, <3>2, <3>3 DEF Provide
  <2>. QED
    BY <1>1, <2>2 DEF Live
<1>4. CASE Spared(b)
  BY <1>1, <1>4 DEF Spared
<1>. QED
  BY <1>2, <1>3, <1>4, OtherSpares DEF Next

\* What a claim of Me would pay on a side whose counter stands at acc.
OwedAt(a, s, acc) ==
  pos[a][Me].claim[s] + lp_earnings(acc, pos[a][Me].snap[s], pos[a][Me].parts)

\* A counter read since the command began, when owed was due.
ReadSince(a, s, acc, owed) ==
  acc \in Nat /\ acc <= pool[a].acc[s] /\ owed[s] <= OwedAt(a, s, acc)

\* What the j-th read of a command of Me found.
ReadAt(a, j, v, owed) ==
  LET me == pos[a][Me]
  IN  /\ j = 1 => v = me.parts
      /\ j = 2 => v = me.claim["x"]
      /\ j = 3 => v = me.claim["y"]
      /\ j = 4 => ReadSince(a, "x", v, owed)
      /\ j = 5 => v = me.snap["x"]
      /\ j = 6 => ReadSince(a, "y", v, owed)
      /\ j = 7 => v = me.snap["y"]
      /\ j = 19 => v = me.w

TermInv ==
  term # Shell =>
    /\ call = Nothing
    /\ term \in [cmd : {"lp", "claim", "remove"}, a : Assets, n : Amounts \cup {0},
                got : Seq(Nat), owed : [Side -> Nat]]
    /\ Live(term.a)
    /\ \A s \in Side : term.owed[s] <= Crystallised(term.a, Me)[s]
    /\ term.cmd = "remove" => term.n \in Amounts
    /\ \A j \in 1..Len(term.got) : ReadAt(term.a, j, term.got[j], term.owed)

CallInv ==
  call # Nothing =>
    /\ term = Shell
    /\ call.cmd \in {"claim", "remove"}
    /\ call.a \in Assets /\ Live(call.a)
    /\ \A s \in Side : call.shown[s] \in Nat /\ call.shown[s] <= Crystallised(call.a, Me)[s]
    /\ call.cmd = "remove" => call.n \in Amounts /\ call.n \in 1..pos[call.a][Me].w

ClientInv == ExitInv /\ TermInv /\ CallInv

LEMMA SlotValues ==
  ASSUME TypeOK, NEW a \in Assets, Live(a)
  PROVE  /\ Slot(a, "parts") = pos[a][Me].parts /\ Slot(a, "w") = pos[a][Me].w
         /\ Slot(a, "cx") = pos[a][Me].claim["x"] /\ Slot(a, "cy") = pos[a][Me].claim["y"]
         /\ Slot(a, "sx") = pos[a][Me].snap["x"] /\ Slot(a, "sy") = pos[a][Me].snap["y"]
         /\ Slot(a, "ax") = pool[a].acc["x"] /\ Slot(a, "ay") = pool[a].acc["y"]
         /\ \A f \in {"parts", "cx", "cy", "ax", "sx", "ay", "sy", "w", "xr", "yr", "tl"} :
              Slot(a, f) \in Nat
<1>1. \A s \in Side : /\ pool[a].res[s] \in Nat /\ pool[a].acc[s] \in Nat /\ pool[a].tl \in Nat
                      /\ pos[a][Me].snap[s] \in Nat /\ pos[a][Me].claim[s] \in Nat
                      /\ pos[a][Me].parts \in Nat /\ pos[a][Me].w \in Nat
  BY SlotTypes, SdkConstants
<1>. QED
  BY <1>1 DEF Slot, Side

\* The order of the reads.
InOrder(cmd, r) ==
  /\ Len(r) \in Nat /\ Len(r) >= 8
  /\ IF cmd = "remove" THEN Len(r) = 19 /\ r[19] = "w" ELSE Len(r) <= 11
  /\ \A k \in 1..Len(r) :
       r[k] \in {"parts", "cx", "cy", "ax", "sx", "ay", "sy", "w", "xr", "yr", "tl"}
  /\ r[1] = "parts" /\ r[2] = "cx" /\ r[3] = "cy" /\ r[4] = "ax"
  /\ r[5] = "sx" /\ r[6] = "ay" /\ r[7] = "sy" /\ r[8] = "w"

LEMMA ReadOrder ==
  ASSUME NEW cmd \in {"lp", "claim", "remove"}
  PROVE  InOrder(cmd, Reads(cmd))
<1> DEFINE names == {"parts", "cx", "cy", "ax", "sx", "ay", "sy", "w", "xr", "yr", "tl"}
<1>1. Lp \in Seq(names) /\ Len(Lp) = 8 /\ Depths \in Seq(names) /\ Len(Depths) = 3
  BY DEF Lp, Depths
<1>2. /\ Lp[1] = "parts" /\ Lp[2] = "cx" /\ Lp[3] = "cy" /\ Lp[4] = "ax" /\ Lp[5] = "sx"
      /\ Lp[6] = "ay" /\ Lp[7] = "sy" /\ Lp[8] = "w"
  BY DEF Lp
<1> HIDE DEF names
<1>3. \A q \in Seq(names) : \A k \in 1..Len(q) : q[k] \in names
  BY ElementOfSeq
<1> DEFINE shown == Lp \o Depths
<1>5. /\ shown \in Seq(names) /\ Len(shown) = 11
      /\ \A k \in 1..11 : shown[k] = IF k <= 8 THEN Lp[k] ELSE Depths[k - 8]
  <2>1. /\ shown \in Seq(names) /\ Len(shown) = Len(Lp) + Len(Depths)
        /\ \A k \in 1..(Len(Lp) + Len(Depths)) :
             shown[k] = IF k <= Len(Lp) THEN Lp[k] ELSE Depths[k - Len(Lp)]
    BY <1>1, ConcatProperties, Zenon
  <2> HIDE DEF shown
  <2>. QED
    BY <1>1, <2>1
<1> DEFINE both == shown \o Lp
<1>6. /\ both \in Seq(names) /\ Len(both) = 19
      /\ \A k \in 1..19 : both[k] = IF k <= 11 THEN shown[k] ELSE Lp[k - 11]
  <2> HIDE DEF shown
  <2>1. /\ both \in Seq(names) /\ Len(both) = Len(shown) + Len(Lp)
        /\ \A k \in 1..(Len(shown) + Len(Lp)) :
             both[k] = IF k <= Len(shown) THEN shown[k] ELSE Lp[k - Len(shown)]
    BY <1>1, <1>5, ConcatProperties, Zenon
  <2>2. Len(shown) = 11 /\ Len(Lp) = 8
    BY <1>1, <1>5
  <2> HIDE DEF both, shown
  <2>3. Len(shown) + Len(Lp) = 19
    BY <2>2
  <2>5. PICK m, p, z : m = Len(shown) /\ p = Len(Lp) /\ z = Len(shown) + Len(Lp)
    OBVIOUS
  <2>6. m = 11 /\ p = 8 /\ z = 19
    BY <2>2, <2>3, <2>5
  <2>7. Len(both) = z /\ \A k \in 1..z : both[k] = IF k <= m THEN shown[k] ELSE Lp[k - m]
    BY <2>1, <2>5, Zenon
  <2>4. Len(both) = 19 /\ \A k \in 1..19 : both[k] = IF k <= 11 THEN shown[k] ELSE Lp[k - 11]
    BY <2>6, <2>7, Zenon
  <2>. QED
    BY <2>1, <2>4
<1>7. Reads("lp") = shown /\ Reads("claim") = Lp /\ Reads("remove") = both
  BY DEF Reads
<1> HIDE DEF shown, both
<1>8. /\ Lp \in Seq(names) /\ Len(Lp) >= 8 /\ shown \in Seq(names) /\ Len(shown) >= 8
      /\ both \in Seq(names) /\ Len(both) >= 8
  BY <1>1, <1>5, <1>6
<1>9. \A k \in 1..8 : shown[k] = Lp[k] /\ both[k] = Lp[k]
  <2> TAKE k \in 1..8
  <2>1. k \in 1..11 /\ k \in 1..19 /\ k <= 8 /\ k <= 11
    OBVIOUS
  <2>2. shown[k] = Lp[k]
    BY <1>5, <2>1, Zenon
  <2>. QED
    BY <1>6, <2>1, <2>2, Zenon
<1> HIDE DEF names
<1>10. /\ Reads(cmd) \in Seq(names) /\ Len(Reads(cmd)) >= 8
       /\ \A k \in 1..8 : Reads(cmd)[k] = Lp[k]
  BY <1>7, <1>8, <1>9
<1>11. cmd # "remove" => Len(Reads(cmd)) <= 11
  <2>1. Len(Lp) <= 11 /\ Len(shown) <= 11
    BY <1>1, <1>5
  <2>. QED
    BY <1>7, <2>1
<1>12. cmd = "remove" => Len(Reads(cmd)) = 19 /\ Reads(cmd)[19] = "w"
  <2>1. both[19] = Lp[8]
    BY <1>6
  <2>. QED
    BY <1>2, <1>6, <1>7, <2>1
<1> DEFINE r == Reads(cmd)
<1> HIDE DEF r
<1>13. /\ r \in Seq(names) /\ Len(r) >= 8 /\ (\A k \in 1..8 : r[k] = Lp[k])
       /\ (cmd = "remove" => Len(r) = 19 /\ r[19] = "w")
  BY <1>10, <1>12 DEF r
<1>14. /\ r[1] = "parts" /\ r[2] = "cx" /\ r[3] = "cy" /\ r[4] = "ax"
       /\ r[5] = "sx" /\ r[6] = "ay" /\ r[7] = "sy" /\ r[8] = "w"
  BY <1>2, <1>13
<1>15. \A k \in 1..Len(r) : r[k] \in {"parts", "cx", "cy", "ax", "sx", "ay", "sy", "w",
                                     "xr", "yr", "tl"}
  BY <1>3, <1>13 DEF names
<1>16. Len(r) \in Nat
  BY <1>13
<1>. QED
  BY <1>11, <1>13, <1>14, <1>15, <1>16 DEF r, InOrder

\* Every step beside or of the terminal is one of the contract or leaves it alone.
LEMMA ClientStep ==
  ASSUME CallInv, Elsewhere \/ Terminal \/ UNCHANGED <<vars, term, call>>
  PROVE  [Next]_vars
<1>1. CASE Elsewhere
  BY <1>1 DEF Elsewhere
<1>2. CASE UNCHANGED <<vars, term, call>>
  BY <1>2
<1>3. CASE Include
  <2>1. CASE UNCHANGED vars
    BY <2>1
  <2>2. CASE ~(UNCHANGED vars)
    <3>1. /\ call # Nothing /\ Accepted
          /\ IF call.cmd = "claim" THEN ClaimLpFees(Me, call.a)
                                   ELSE RemoveLiquidity(Me, call.a, call.n, Zero)
      BY <1>3, <2>2 DEF Include, Keep
    <3>2. call.a \in Assets /\ (call.cmd # "claim" => call.n \in Amounts)
      BY <3>1 DEF CallInv
    <3>3. Zero \in [Side -> MinOuts] /\ Me \in Wallets
      BY SdkConstants DEF Zero
    <3>4. Provide(Me, call.a)
      BY <3>1, <3>2, <3>3 DEF Provide
    <3>. QED
      BY <3>2, <3>3, <3>4 DEF Next
  <2>. QED
    BY <2>1, <2>2
<1>4. CASE (\E a \in Assets : Start(a)) \/ ReadSlot \/ Send \/ Quit
  BY <1>4 DEF Start, ReadSlot, Send, Quit, Keep
<1>. QED
  BY <1>1, <1>2, <1>3, <1>4 DEF Terminal

\* Earnings grow with the counter.
LEMMA OwedMore ==
  ASSUME TypeOK, NEW a \in Assets, Live(a), NEW s \in Side,
         NEW i \in Nat, NEW j \in Nat, i <= j
  PROVE  OwedAt(a, s, i) \in Nat /\ OwedAt(a, s, i) <= OwedAt(a, s, j)
<1> DEFINE c == pos[a][Me].snap[s]
           n == pos[a][Me].parts
           e(k) == lp_earnings(k, c, n)
<1>1. pos[a][Me].claim[s] \in Nat /\ c \in Nat /\ n \in Nat
  BY SlotTypes, SdkConstants
<1>2. \A k \in Nat : e(k) = IF n <= 0 \/ k <= c THEN 0 ELSE ((k - c) * n) \div ACC_SCALE
  BY DEF lp_earnings
<1>3. OwedAt(a, s, i) = pos[a][Me].claim[s] + e(i) /\ OwedAt(a, s, j) = pos[a][Me].claim[s] + e(j)
  BY DEF OwedAt
<1> HIDE DEF c, n, e
<1>4. \A k \in Nat : e(k) \in Nat
  <2> TAKE k \in Nat
  <2>1. CASE n <= 0 \/ k <= c
    BY <1>2, <2>1
  <2>2. CASE ~(n <= 0 \/ k <= c)
    <3>1. (k - c) * n \in Nat
      BY <1>1, <2>2
    <3>. QED
      BY <1>2, <2>2, <3>1, DexConstants, DivBounds
  <2>. QED
    BY <2>1, <2>2
<1>5. e(i) <= e(j)
  <2>1. CASE n <= 0 \/ i <= c
    BY <1>2, <1>4, <2>1
  <2>2. CASE ~(n <= 0 \/ i <= c)
    <3>1. i - c \in Nat /\ j - c \in Nat /\ i - c <= j - c /\ ~(j <= c)
      BY <1>1, <2>2
    <3>2. n * (i - c) <= n * (j - c)
      BY <1>1, <3>1, MulMono
    <3>3. /\ n * (i - c) = (i - c) * n /\ n * (j - c) = (j - c) * n
          /\ (i - c) * n \in Nat /\ (j - c) * n \in Nat
      BY <1>1, <3>1
    <3>4. ((i - c) * n) \div ACC_SCALE <= ((j - c) * n) \div ACC_SCALE
      BY <3>2, <3>3, DexConstants, DivMono
    <3>. QED
      BY <1>2, <2>2, <3>1, <3>4
  <2>. QED
    BY <2>1, <2>2
<1>. QED
  BY <1>1, <1>3, <1>4, <1>5

\* The others' steps leave the position of a command alone and move the counters
\* on; between commands there is nothing to keep.
LEMMA ElsewhereClient ==
  ASSUME ClientInv, ExitInv', Elsewhere
  PROVE  TermInv' /\ CallInv'
<1>1. /\ [Next]_vars /\ term' = term /\ call' = call /\ TypeOK /\ TypeOK' /\ Me \in Wallets
  BY SdkConstants DEF Elsewhere, ExitInv, ClientInv
<1>2. ASSUME ~AtRest, NEW a \in Assets, Live(a)
      PROVE  /\ Live(a)' /\ pos'[a][Me] = pos[a][Me]
             /\ \A s \in Side : pool'[a].acc[s] >= pool[a].acc[s]
             /\ \A s \in Side : /\ Crystallised(a, Me)[s] \in Nat
                                /\ Crystallised(a, Me)'[s] \in Nat
                                /\ Crystallised(a, Me)'[s] >= Crystallised(a, Me)[s]
  <2>1. /\ Live(a)' /\ pos'[a][Me] = pos[a][Me]
        /\ \A s \in Side : pool'[a].acc[s] >= pool[a].acc[s]
    BY <1>1, <1>2, StepClock DEF Elsewhere
  <2>. QED
    BY <1>1, <1>2, <2>1, EarnedMore, CrystallisedType
<1>3. TermInv'
  <2> SUFFICES ASSUME term # Shell
               PROVE  TermInv'
    BY <1>1 DEF TermInv
  <2>0. PICK a \in Assets : a = term.a
    BY DEF TermInv, ClientInv
  <2>1. ~AtRest /\ Live(a) /\ TermInv
    BY <2>0 DEF AtRest, TermInv, ClientInv
  <2>2. /\ Live(a)' /\ pos'[a][Me] = pos[a][Me]
        /\ \A s \in Side : pool'[a].acc[s] >= pool[a].acc[s]
        /\ \A s \in Side : /\ Crystallised(a, Me)[s] \in Nat
                           /\ Crystallised(a, Me)'[s] \in Nat
                           /\ Crystallised(a, Me)'[s] >= Crystallised(a, Me)[s]
    BY <1>2, <2>1
  <2>3. \A s \in Side : term.owed[s] <= Crystallised(a, Me)'[s]
    <3>1. \A s \in Side : term.owed[s] \in Nat /\ term.owed[s] <= Crystallised(a, Me)[s]
      BY <2>0, <2>1 DEF TermInv
    <3>. QED
      BY <2>2, <3>1
  <2>4. \A s \in Side : \A n, owed : ReadSince(a, s, n, owed) => ReadSince(a, s, n, owed)'
    <3> SUFFICES ASSUME NEW s \in Side, NEW n, NEW owed, ReadSince(a, s, n, owed)
                 PROVE  ReadSince(a, s, n, owed)'
      OBVIOUS
    <3>1. pool[a].acc[s] \in Nat /\ pool'[a].acc[s] \in Nat
      BY <1>1, <2>1, <2>2, SlotTypes, SlotTypesNext
    <3>. QED
      BY <2>2, <3>1 DEF ReadSince, OwedAt
  <2>5. \A j, v, owed : ReadAt(a, j, v, owed) => ReadAt(a, j, v, owed)'
    BY <2>2, <2>4 DEF ReadAt, Side
  <2>. QED
    BY <1>1, <2>0, <2>1, <2>2, <2>3, <2>5 DEF TermInv
<1>4. CallInv'
  <2> SUFFICES ASSUME call # Nothing
               PROVE  CallInv'
    BY <1>1 DEF CallInv
  <2>0. PICK a \in Assets : a = call.a
    BY DEF CallInv, ClientInv
  <2>1. ~AtRest /\ Live(a) /\ CallInv
    BY <2>0 DEF AtRest, CallInv, ClientInv
  <2>2. /\ Live(a)' /\ pos'[a][Me] = pos[a][Me]
        /\ \A s \in Side : /\ Crystallised(a, Me)[s] \in Nat
                           /\ Crystallised(a, Me)'[s] \in Nat
                           /\ Crystallised(a, Me)'[s] >= Crystallised(a, Me)[s]
    BY <1>2, <2>1
  <2>3. \A s \in Side : call.shown[s] \in Nat /\ call.shown[s] <= Crystallised(a, Me)'[s]
    BY <2>0, <2>1, <2>2 DEF CallInv
  <2>. QED
    BY <1>1, <2>0, <2>1, <2>2, <2>3 DEF CallInv
<1>. QED
  BY <1>3, <1>4

LEMMA StartClient ==
  ASSUME ClientInv, NEW a \in Assets, Start(a)
  PROVE  TermInv' /\ CallInv'
<1>1. /\ TypeOK /\ Live(a) /\ call = Nothing /\ call' = call
      /\ pool' = pool /\ pos' = pos /\ Me \in Wallets /\ Live(a)'
  BY SdkConstants DEF Start, Keep, vars, Live, ClientInv, ExitInv
<1>2. \A s \in Side : Crystallised(a, Me)[s] \in Nat
  BY <1>1, CrystallisedType
<1>3. Crystallised(a, Me)' = Crystallised(a, Me)
  BY <1>1 DEF Crystallised, Accrued
<1>4. PICK cmd \in {"lp", "claim", "remove"}, n \in Parts :
        term' = [cmd |-> cmd, a |-> a, n |-> IF cmd = "remove" THEN n ELSE 0,
                 got |-> <<>>, owed |-> Crystallised(a, Me)]
  BY DEF Start
<1>5. /\ term'.cmd = cmd /\ term'.a = a /\ term'.got = <<>>
      /\ term'.owed = Crystallised(a, Me) /\ term'.n = IF cmd = "remove" THEN n ELSE 0
  BY <1>4
<1>6. n \in Amounts
  BY SdkConstants
<1>7. <<>> \in Seq(Nat) /\ Len(<<>>) = 0
  OBVIOUS
<1>8. \A j \in 1..Len(term'.got) : FALSE
  BY <1>5, <1>7
<1>9. \A s \in Side : term'.owed[s] <= Crystallised(a, Me)'[s]
  <2> DEFINE c == Crystallised(a, Me)
  <2> HIDE DEF c
  <2>. QED
    BY <1>2, <1>3, <1>5 DEF c
<1>10. term' \in [cmd : {"lp", "claim", "remove"}, a : Assets, n : Amounts \cup {0},
                 got : Seq(Nat), owed : [Side -> Nat]]
  BY <1>1, <1>4, <1>6, <1>7, CrystallisedType
<1>. QED
  BY <1>1, <1>5, <1>6, <1>8, <1>9, <1>10 DEF TermInv, CallInv

\* A read takes the next slot as it stands.
LEMMA ReadClient ==
  ASSUME ClientInv, ReadSlot
  PROVE  TermInv' /\ CallInv'
<1>1. /\ TypeOK /\ term # Shell /\ Unread /\ call = Nothing /\ call' = call
      /\ pool' = pool /\ pos' = pos /\ Me \in Wallets
  BY SdkConstants DEF ReadSlot, Keep, vars, ClientInv, ExitInv, TermInv
<1>2. TermInv
  BY DEF ClientInv
<1>3. PICK a \in Assets : a = term.a
  BY <1>1, <1>2 DEF TermInv
<1>4. /\ Live(a) /\ Live(a)'
      /\ term \in [cmd : {"lp", "claim", "remove"}, a : Assets, n : Amounts \cup {0},
                   got : Seq(Nat), owed : [Side -> Nat]]
      /\ \A j \in 1..Len(term.got) : ReadAt(a, j, term.got[j], term.owed)
  BY <1>1, <1>2, <1>3 DEF TermInv, Live
<1>5. PICK cmd \in {"lp", "claim", "remove"}, n \in Amounts \cup {0}, got \in Seq(Nat),
           owed \in [Side -> Nat] :
        term = [cmd |-> cmd, a |-> a, n |-> n, got |-> got, owed |-> owed]
  BY <1>3, <1>4
<1> DEFINE r == Reads(cmd)
           k == Len(got) + 1
<1>6. InOrder(cmd, r)
  BY ReadOrder
<1>7. Len(got) < Len(r)
  BY <1>1, <1>5 DEF Unread
<1>8. PICK v : v = Slot(a, r[k])
  OBVIOUS
<1> DEFINE new == Append(got, v)
<1>15. term' = [cmd |-> cmd, a |-> a, n |-> n, got |-> new, owed |-> owed]
  BY <1>5, <1>8 DEF ReadSlot
<1> HIDE DEF r
<1>9. v \in Nat /\ Len(got) \in Nat /\ k \in 1..Len(r)
  <2>1. Len(got) \in Nat
    OBVIOUS
  <2>2. k \in 1..Len(r)
    BY <2>1, <1>6, <1>7 DEF InOrder
  <2> HIDE DEF k
  <2>3. Slot(a, r[k]) \in Nat
    BY <1>1, <1>4, <1>6, <2>2, SlotValues DEF InOrder
  <2>. QED
    BY <1>8, <2>1, <2>2, <2>3
<1>10. new \in Seq(Nat) /\ Len(new) = k /\ new[k] = v /\ \A j \in 1..(k - 1) : new[j] = got[j]
  BY <1>9
<1> HIDE DEF new, k
<1>11. /\ k = 1 => v = pos[a][Me].parts
       /\ k = 2 => v = pos[a][Me].claim["x"]
       /\ k = 3 => v = pos[a][Me].claim["y"]
       /\ k = 4 => v = pool[a].acc["x"]
       /\ k = 5 => v = pos[a][Me].snap["x"]
       /\ k = 6 => v = pool[a].acc["y"]
       /\ k = 7 => v = pos[a][Me].snap["y"]
       /\ k = 19 => v = pos[a][Me].w
  <2>1. /\ Slot(a, "parts") = pos[a][Me].parts /\ Slot(a, "w") = pos[a][Me].w
        /\ Slot(a, "cx") = pos[a][Me].claim["x"] /\ Slot(a, "cy") = pos[a][Me].claim["y"]
        /\ Slot(a, "sx") = pos[a][Me].snap["x"] /\ Slot(a, "sy") = pos[a][Me].snap["y"]
        /\ Slot(a, "ax") = pool[a].acc["x"] /\ Slot(a, "ay") = pool[a].acc["y"]
    BY <1>1, <1>4, SlotValues
  <2>2. k = 19 => r[19] = "w"
    BY <1>6, <1>9 DEF InOrder
  <2>3. /\ r[1] = "parts" /\ r[2] = "cx" /\ r[3] = "cy" /\ r[4] = "ax"
        /\ r[5] = "sx" /\ r[6] = "ay" /\ r[7] = "sy"
    BY <1>6 DEF InOrder
  <2>4. (k = 1 => v = pos[a][Me].parts) /\ (k = 2 => v = pos[a][Me].claim["x"])
    BY <1>8, <2>1, <2>3, Zenon
  <2>5. (k = 3 => v = pos[a][Me].claim["y"]) /\ (k = 4 => v = pool[a].acc["x"])
    BY <1>8, <2>1, <2>3, Zenon
  <2>6. (k = 5 => v = pos[a][Me].snap["x"]) /\ (k = 6 => v = pool[a].acc["y"])
    BY <1>8, <2>1, <2>3, Zenon
  <2>7. (k = 7 => v = pos[a][Me].snap["y"]) /\ (k = 19 => v = pos[a][Me].w)
    BY <1>8, <2>1, <2>2, <2>3, Zenon
  <2>. QED
    BY <2>4, <2>5, <2>6, <2>7
<1>12. k - 1 = Len(got) /\ k \in Nat /\ Len(got) \in Nat
  BY <1>9 DEF k
<1>13. \A i \in Side : ReadSince(a, i, pool[a].acc[i], owed)
  <2> TAKE i \in Side
  <2>1. pool[a].acc[i] \in Nat
    BY <1>1, <1>4, SlotTypes
  <2>2. Crystallised(a, Me)[i] = OwedAt(a, i, pool[a].acc[i])
    BY <1>1, <1>4, EarningsExact DEF OwedAt, ClientInv
  <2>. QED
    BY <1>1, <1>2, <1>5, <2>1, <2>2 DEF TermInv, ReadSince
<1>14. \A j \in 1..k : ReadAt(a, j, new[j], owed)
  <2>1. ReadAt(a, k, v, owed)
    BY <1>11, <1>13 DEF ReadAt, Side
  <2>2. \A j \in 1..Len(got) : ReadAt(a, j, got[j], owed)
    BY <1>4, <1>5
  <2>. SUFFICES ASSUME NEW j \in 1..k
                PROVE  ReadAt(a, j, new[j], owed)
    OBVIOUS
  <2>3. CASE j = k
    BY <1>10, <2>1, <2>3
  <2>4. CASE j # k
    <3>1. j \in 1..(k - 1) /\ j \in 1..Len(got)
      BY <1>12, <2>4
    <3>. QED
      BY <1>10, <2>2, <3>1
  <2>. QED
    BY <2>3, <2>4
<1>16. \A j, w : ReadAt(a, j, w, owed) => ReadAt(a, j, w, owed)'
  BY <1>1 DEF ReadAt, ReadSince, OwedAt
<1>. QED
  <2>1. \A s \in Side : owed[s] <= Crystallised(a, Me)'[s]
    BY <1>1, <1>2, <1>5 DEF TermInv, Crystallised, Accrued
  <2>2. cmd = "remove" => n \in Amounts
    BY <1>1, <1>2, <1>5 DEF TermInv
  <2>3. \A j \in 1..Len(new) : ReadAt(a, j, new[j], owed)'
    BY <1>10, <1>14, <1>16
  <2>4. /\ term'.a = a /\ term'.got = new /\ term'.owed = owed /\ term'.cmd = cmd
        /\ term'.n = n
    BY <1>15
  <2>5. term' \in [cmd : {"lp", "claim", "remove"}, a : Assets, n : Amounts \cup {0},
                  got : Seq(Nat), owed : [Side -> Nat]]
    BY <1>10, <1>15
  <2>. QED
    BY <1>1, <1>4, <2>1, <2>2, <2>3, <2>4, <2>5 DEF TermInv, CallInv

\* What a command shows lies between what was owed and what is owed.
LEMMA ShownBetween ==
  ASSUME ClientInv, term # Shell, Len(term.got) >= 8, NEW s \in Side
  PROVE  LET shown == Info(term.got, 0).available[s]
         IN  /\ shown \in Nat
             /\ term.owed[s] <= shown /\ shown <= Crystallised(term.a, Me)[s]
<1>1. TermInv /\ TypeOK /\ Me \in Wallets
  BY SdkConstants DEF ClientInv, ExitInv
<1>2. PICK a \in Assets, got \in Seq(Nat), owed \in [Side -> Nat] :
        a = term.a /\ got = term.got /\ owed = term.owed
  BY <1>1 DEF TermInv
<1>3. /\ Live(a) /\ 1..7 \subseteq 1..Len(got)
      /\ \A j \in 1..Len(got) : ReadAt(a, j, got[j], owed)
  BY <1>1, <1>2 DEF TermInv
<1>4. /\ got[1] = pos[a][Me].parts
      /\ got[2] = pos[a][Me].claim["x"] /\ got[3] = pos[a][Me].claim["y"]
      /\ ReadSince(a, "x", got[4], owed) /\ ReadSince(a, "y", got[6], owed)
      /\ got[5] = pos[a][Me].snap["x"] /\ got[7] = pos[a][Me].snap["y"]
  <2>1. \A j \in 1..7 : ReadAt(a, j, got[j], owed)
    BY <1>3
  <2>. QED
    BY <2>1 DEF ReadAt
<1>5. PICK n \in Nat : n = IF s = "x" THEN got[4] ELSE got[6]
  BY <1>4 DEF ReadSince
<1>6. ReadSince(a, s, n, owed)
  BY <1>4, <1>5 DEF Side
<1>7. Info(got, 0).available[s] = OwedAt(a, s, n)
  <2>1. Info(got, 0).available
          = [x |-> got[2] + lp_earnings(got[4], got[5], got[1]),
             y |-> got[3] + lp_earnings(got[6], got[7], got[1])]
    BY DEF Info
  <2>2. CASE s = "x"
    BY <1>4, <1>5, <2>1, <2>2 DEF OwedAt
  <2>3. CASE s = "y"
    BY <1>4, <1>5, <2>1, <2>3 DEF OwedAt
  <2>. QED
    BY <2>2, <2>3 DEF Side
<1>8. OwedAt(a, s, pool[a].acc[s]) = Crystallised(a, Me)[s] /\ pool[a].acc[s] \in Nat
  BY <1>1, <1>3, EarningsExact, SlotTypes DEF OwedAt, ClientInv
<1>9. OwedAt(a, s, n) \in Nat /\ OwedAt(a, s, n) <= OwedAt(a, s, pool[a].acc[s])
  BY <1>1, <1>3, <1>6, <1>8, OwedMore DEF ReadSince
<1>. QED
  BY <1>2, <1>6, <1>7, <1>8, <1>9 DEF ReadSince

LEMMA SendClient ==
  ASSUME ClientInv, Send
  PROVE  TermInv' /\ CallInv'
<1>1. /\ TermInv /\ term # Shell /\ Passes /\ term' = Shell
      /\ pool' = pool /\ pos' = pos /\ Me \in Wallets
      /\ call' = [cmd |-> term.cmd, a |-> term.a, n |-> term.n,
                  shown |-> Info(term.got, 0).available]
  BY SdkConstants DEF Send, Keep, vars, ClientInv
<1>2. PICK cmd \in {"claim", "remove"}, a \in Assets, n \in Amounts \cup {0}, got \in Seq(Nat) :
        cmd = term.cmd /\ a = term.a /\ n = term.n /\ got = term.got
  BY <1>1 DEF TermInv, Passes
<1> DEFINE l == Len(Reads(cmd))
<1>3. l \in Nat /\ l >= 8 /\ (cmd = "remove" => l = 19) /\ Len(got) \in Nat
  <2>1. InOrder(cmd, Reads(cmd))
    BY ReadOrder
  <2>. QED
    BY <2>1 DEF InOrder
<1>9. ~(Len(got) < l)
  BY <1>1, <1>2 DEF Passes, Unread
<1> HIDE DEF l
<1>4. Len(got) >= 8 /\ (cmd = "remove" => Len(got) >= 19)
  BY <1>3, <1>9
<1>5. \A s \in Side : /\ Info(got, 0).available[s] \in Nat
                      /\ Info(got, 0).available[s] <= Crystallised(a, Me)'[s]
  <2>1. \A s \in Side : /\ Info(got, 0).available[s] \in Nat
                        /\ Info(got, 0).available[s] <= Crystallised(a, Me)[s]
    BY <1>1, <1>2, <1>4, ShownBetween
  <2>2. Crystallised(a, Me)' = Crystallised(a, Me)
    BY <1>1 DEF Crystallised, Accrued
  <2>. QED
    BY <2>1, <2>2
<1>6. ASSUME cmd = "remove"
      PROVE  n \in Amounts /\ n \in 1..pos[a][Me].w
  <2>1. n \in Amounts /\ n \in Nat /\ RemovePasses(got, n)
    BY <1>1, <1>2, <1>6, DexConstants DEF TermInv, Passes
  <2>6. 19 \in 1..Len(got)
    BY <1>3, <1>4, <1>6
  <2>7. \A j \in 1..Len(got) : ReadAt(a, j, got[j], term.owed)
    BY <1>1, <1>2 DEF TermInv
  <2>2. ReadAt(a, 19, got[19], term.owed)
    BY <2>6, <2>7
  <2>3. n <= pos[a][Me].w
    <3>1. n <= got[11 + 8]
      BY <2>1 DEF RemovePasses, Info
    <3>2. got[19] = pos[a][Me].w
      BY <2>2 DEF ReadAt
    <3>. QED
      BY <3>1, <3>2
  <2>4. n > 0
    BY <2>1 DEF RemovePasses, remove_outs, Refused
  <2>5. pos[a][Me].w \in Nat
    BY <1>1, <1>2, SlotTypes DEF TermInv, ClientInv, ExitInv, Side
  <2>. QED
    BY <2>1, <2>3, <2>4, <2>5
<1>7. Live(a)'
  BY <1>1, <1>2 DEF TermInv, Live
<1>8. /\ call'.cmd = cmd /\ call'.a = a /\ call'.n = n
      /\ call'.shown = Info(got, 0).available
  BY <1>1, <1>2
<1>. QED
  BY <1>1, <1>5, <1>6, <1>7, <1>8 DEF TermInv, CallInv

LEMMA StepClient ==
  ASSUME ClientInv, Elsewhere \/ Terminal \/ UNCHANGED <<vars, term, call>>
  PROVE  ClientInv'
<1>1. [Next]_vars /\ ExitInv /\ CallInv /\ TermInv
  BY ClientStep DEF ClientInv
<1>2. ExitInv'
  BY <1>1, StepType, StepSolvent, StepParts, StepFees, StepRoom DEF ExitInv
<1>3. TermInv' /\ CallInv'
  <2>1. CASE Elsewhere
    BY <1>2, <2>1, ElsewhereClient
  <2>2. CASE \E a \in Assets : Start(a)
    BY <2>2, StartClient
  <2>3. CASE ReadSlot
    BY <2>3, ReadClient
  <2>4. CASE Send
    BY <2>4, SendClient
  <2>5. CASE Quit
    <3>1. term' = Shell /\ call' = call /\ call = Nothing
      BY <1>1, <2>5 DEF Quit, TermInv
    <3>. QED
      BY <3>1 DEF TermInv, CallInv
  <2>6. CASE Include
    <3>1. call' = Nothing /\ term' = Shell
      BY <1>1, <2>6 DEF Include, CallInv
    <3>. QED
      BY <3>1 DEF TermInv, CallInv
  <2>7. CASE UNCHANGED <<vars, term, call>>
    <3>1. pool' = pool /\ pos' = pos /\ term' = term /\ call' = call
      BY <2>7 DEF vars
    <3>. QED
      BY <1>1, <3>1
         DEF TermInv, CallInv, Live, Crystallised, Accrued, ReadAt, ReadSince, OwedAt
  <2>. QED
    BY <2>1, <2>2, <2>3, <2>4, <2>5, <2>6, <2>7 DEF Terminal
<1>. QED
  BY <1>2, <1>3 DEF ClientInv

LEMMA ClientInvImplies == ClientInv => ClientTrue
<1> SUFFICES ASSUME ClientInv
             PROVE  ClientTrue
  OBVIOUS
<1>1. MirrorExact
  BY MirrorHolds DEF ClientInv
<1>2. ShownIsOwed
  <2>1. Len(Lp) = 8
    BY DEF Lp
  <2>. QED
    BY <2>1, ShownBetween DEF ShownIsOwed
<1>3. CheckedLands
  <2> SUFFICES ASSUME call # Nothing
               PROVE  /\ call.cmd = "claim" /\ (\E s \in Side : call.shown[s] > 0) => Accepted
                      /\ call.cmd = "remove" /\ (\A s \in Side : Slice(call.a, call.n)[s] >= 1)
                           => Accepted
    BY DEF CheckedLands
  <2>1. LpExitsOpen /\ CallInv /\ TypeOK /\ Me \in Wallets
    BY ExitInvImplies, SdkConstants DEF ClientInv, ExitInv, ExitsOpen
  <2>2. PICK a \in Assets : a = call.a
    BY <2>1 DEF CallInv
  <2>3. Live(a) /\ Crystallised(a, Me) \in [Side -> Nat]
    BY <2>1, <2>2, CrystallisedType DEF CallInv
  <2>4. ASSUME call.cmd = "claim", NEW s \in Side, call.shown[s] > 0
        PROVE  Accepted
    <3>1. Crystallised(a, Me)[s] > 0
      BY <2>1, <2>2, <2>3, <2>4 DEF CallInv
    <3>2. ClaimAccepted(Me, a)
      BY <2>1, <2>3, <3>1 DEF LpExitsOpen
    <3>. QED
      BY <2>2, <2>4, <3>2 DEF Accepted
  <2>5. ASSUME call.cmd = "remove", \A s \in Side : Slice(call.a, call.n)[s] >= 1
        PROVE  Accepted
    <3>1. PICK n \in 1..pos[a][Me].w : n = call.n
      BY <2>1, <2>2, <2>5 DEF CallInv
    <3>2. RemoveAccepted(Me, a, n, Zero)
      BY <2>1, <2>2, <2>3, <2>5, <3>1 DEF LpExitsOpen
    <3>. QED
      BY <2>2, <2>5, <3>1, <3>2 DEF Accepted
  <2>. QED
    BY <2>4, <2>5
<1>. QED
  BY <1>1, <1>2, <1>3 DEF ClientTrue

\* dex.py:4-6, cli.py:885: whatever blocks fall between the reads of a command
\* and before its call is included, a provider's terminal shows between what was
\* owed and what is owed, its formulas are the contract's, and what its checks
\* let through lands.
THEOREM TerminalTrue == SdkSpec => []ClientTrue
<1>1. Init /\ SdkInit => ClientInv
  BY InitType, InitSolvent, InitParts, InitFees, InitRoom
     DEF ClientInv, ExitInv, SdkInit, TermInv, CallInv
<1>2. ClientInv /\ [Elsewhere \/ Terminal]_<<vars, term, call>> => ClientInv'
  BY StepClient
<1>. QED
  BY <1>1, <1>2, ClientInvImplies, PTL DEF SdkSpec
=============================================================================

----------------------------- MODULE LaunchDEX ------------------------------
(***************************************************************************)
(* contracts/dex/LaunchDEX.slx: the XEL-quoted constant-product pools that *)
(* graduated tokens migrate to.                                            *)
(*                                                                         *)
(* Every entry of the contract is one atomic transaction of the chain: it  *)
(* either runs to `return 0`, or a failed require, checked_add or transfer *)
(* rolls all of it back.  So each entry is one action, its requires are    *)
(* the guards, and interleaving is the order in which wallets' calls are   *)
(* included in blocks.                                                     *)
(*                                                                         *)
(* The two sides of a pool are handled by mirrored code; the pool's        *)
(* side-wise slots (xr/yr, xf/yf, lx/ly, ax/ay) and a provider's (sx/sy,   *)
(* cx/cy) are functions of the side, "x" for XEL and "y" for the token.    *)
(***************************************************************************)
EXTENDS Totals, Sequences

CONSTANTS
  Wallets,            \* addresses that sign transactions
  Assets,             \* token assets, each the token side of at most one pool
  XEL,                \* the native asset
  None,               \* an unset storage slot
  Supply,             \* Supply[c]: units of asset c in existence
  Amounts,            \* deposits and amounts a caller may choose
  MinOuts,            \* slippage floors a caller may choose
  FeeArgs,            \* arguments an admin may pass to set_swap_fee
  SplitArgs,          \* ... to set_fee_split
  BoundsArgs,         \* ... to set_trade_bounds
  AddrArgs,           \* ... to set_launchpad and set_admin
  FlagArgs,           \* ... to set_paused; the launchpad's to its buys-pause
  StrayArgs,          \* deposits attached to entries that do not read them
  BPS_DENOM, ACC_SCALE, U64_MAX, MAX_POOLS, MIN_LP_ADD_XEL,
  MAX_SWAP_FEE_BPS, MIN_LP_SHARE_BPS, MAX_LP_SHARE_BPS,
  MAX_SEED, MAX_SWAP_CAP,  \* per side: MAX_SEED_XEL / _TOKENS, MAX_SWAP_CAP_...
  SEED_FLOOR, SWAP_FLOOR,  \* per side: MIN_SEED_FLOOR_..., MIN_SWAP_FLOOR_...
  DEFAULT_SWAP_FEE_BPS, DEFAULT_LP_SHARE_BPS, DefaultBounds

Side == {"x", "y"}
Other(s) == IF s = "x" THEN "y" ELSE "x"
AssetOf(a, s) == IF s = "x" THEN XEL ELSE a
Coins == Assets \cup {XEL}

\* The slots set_trade_bounds writes, per side: the smallest accepted seed and
\* the range of an accepted swap deposit.
Bounds == [minSeed : [Side -> Nat], minSwap : [Side -> Nat],
           maxSwap : [Side -> Nat]]

ASSUME DexConstants ==
  /\ IsFiniteSet(Wallets) /\ IsFiniteSet(Assets)
  /\ XEL \notin Assets /\ None \notin Wallets
  /\ Supply \in [Coins -> Nat]
  /\ Amounts \subseteq Nat /\ MinOuts \subseteq Nat
  /\ BPS_DENOM \in Nat \ {0} /\ ACC_SCALE \in Nat \ {0}
  /\ U64_MAX \in Nat /\ MAX_POOLS \in Nat
  /\ \A c \in Coins : Supply[c] <= U64_MAX
  /\ MIN_LP_ADD_XEL \in Nat /\ MIN_LP_ADD_XEL >= ACC_SCALE
  /\ MAX_SWAP_FEE_BPS \in 0..BPS_DENOM
  /\ MIN_LP_SHARE_BPS \in 0..BPS_DENOM /\ MAX_LP_SHARE_BPS \in 0..BPS_DENOM
  /\ MAX_SEED \in [Side -> Nat] /\ MAX_SWAP_CAP \in [Side -> Nat]
  /\ SEED_FLOOR \in [Side -> Nat \ {0}] /\ SWAP_FLOOR \in [Side -> Nat \ {0}]
  /\ DEFAULT_SWAP_FEE_BPS \in 0..MAX_SWAP_FEE_BPS
  /\ DEFAULT_LP_SHARE_BPS \in MIN_LP_SHARE_BPS..MAX_LP_SHARE_BPS
  /\ FeeArgs \subseteq Nat /\ SplitArgs \subseteq Nat
  /\ AddrArgs \subseteq Wallets /\ FlagArgs \subseteq BOOLEAN
  /\ StrayArgs \subseteq Nat
  /\ BoundsArgs \subseteq Bounds /\ DefaultBounds \in Bounds
  /\ \A s \in Side : /\ DefaultBounds.minSeed[s] >= SEED_FLOOR[s]
                     /\ DefaultBounds.minSwap[s] >= SWAP_FLOOR[s]

VARIABLES
  config,   \* the global slots: adm, sfe, lpx, lpp, xpa, fsl and the bounds
  index,    \* pc and i:{index}: the listed assets, in creation order
  pool,     \* q:{asset}: the accounting slots of each pool, None before creation
  score,    \* q:{asset}: the scoreboard slots fl, bv, sv, tc
  pos,      \* l:{asset}:{wallet}: the providers' positions
  bal       \* the contract's balance of each asset, kept by the chain

vars == <<config, index, pool, score, pos, bal>>

Zero == [s \in Side |-> 0]
NoPosition == [parts |-> 0, w |-> 0, snap |-> Zero, claim |-> Zero]
NoScore == [fl |-> 0, bv |-> 0, sv |-> 0, tc |-> 0]

Live(a) == pool[a] # None
-----------------------------------------------------------------------------
(* Arithmetic helpers.                                                     *)

\* An operator whose name ends in _ is a mutant: no definition of the model
\* reads it, it is a plausible slip in the operator that follows it.

FeeTake(amount, bps) == (amount * bps) \div BPS_DENOM

Checked(n) == n <= U64_MAX

\* What is left of a deposit for the reserves.
GrossIn_(dep, fee) == dep
NetOf(dep, fee) == dep - fee

\* The accrual per part that a fee share adds on a depth of tl.
InBps_(share, tl) == (share * BPS_DENOM * ACC_SCALE) \div tl
AccrualUp(share, tl) == (share * ACC_SCALE) \div tl

\* What a net deposit buys from reserves (rin, rout), floored.
CeilingOut_(rin, rout, net) == (rout * net + rin + net - 1) \div (rin + net)
SwapOut(rin, rout, net) == (rout * net) \div (rin + net)

\* What a provider has earned on side s since its last touch.
Accrued(a, u, s) ==
  IF pool[a].acc[s] > pos[a][u].snap[s]
  THEN ((pool[a].acc[s] - pos[a][u].snap[s]) * pos[a][u].parts) \div ACC_SCALE
  ELSE 0

\* The provider's claimables once its accrual is crystallised.
Crystallised(a, u) == [s \in Side |-> pos[a][u].claim[s] + Accrued(a, u, s)]

\* The position slots every change of a provider's parts rewrites: what it has
\* earned is crystallised and its clock restarts at the current counters.
SettleForfeits_(a, u) == [claim |-> pos[a][u].claim, snap |-> pool[a].acc]
SettleLate_(a, u) == [claim |-> Crystallised(a, u),
                      snap |-> IF pos[a][u].parts = 0 THEN pos[a][u].snap
                                                      ELSE pool[a].acc]
Settle(a, u) == [claim |-> Crystallised(a, u), snap |-> pool[a].acc]

\* Assets held outside the contract: what callers can attach to a call.
Outside(c) == Supply[c] - bal[c]
-----------------------------------------------------------------------------
(* Pool creation.                                                          *)

Init ==
  /\ \E deployer \in Wallets :
       config = [admin |-> deployer, swapFee |-> DEFAULT_SWAP_FEE_BPS,
                 lpShare |-> DEFAULT_LP_SHARE_BPS, bounds |-> DefaultBounds,
                 paused |-> FALSE, lpx |-> None, pinned |-> FALSE]
  /\ index = <<>>
  /\ pool = [a \in Assets |-> None]
  /\ score = [a \in Assets |-> NoScore]
  /\ pos = [a \in Assets |-> [u \in Wallets |-> NoPosition]]
  /\ bal = [c \in Coins |-> 0]

SeedAccepted(seed) ==
  /\ \A s \in Side : seed[s] >= config.bounds.minSeed[s] /\ seed[s] <= MAX_SEED[s]
  /\ seed["x"] >= MIN_LP_ADD_XEL

\* The admin's position when the seed mints its parts: none withdrawable.
SeedWithdrawable_(old, n) == [parts |-> n, w |-> n, snap |-> Zero, claim |-> Zero]
SeedPosition(old, n) == [parts |-> n, w |-> old.w, snap |-> Zero, claim |-> Zero]

Freezes == config.pinned \/ index = <<>>

\* The body create_pool and create_pool_open share once their callers' gates
\* are passed: seed[s] is the deposit attached on side s.  A launchpad may stop
\* the buys in the same transaction.
SeedPool(a, seed, stopped) ==
  /\ ~config.paused
  /\ ~Live(a)
  /\ Len(index) < MAX_POOLS
  /\ SeedAccepted(seed)
  /\ \A s \in Side : seed[s] <= Outside(AssetOf(a, s))
  /\ pool' = [pool EXCEPT ![a] =
                [res |-> seed, fees |-> Zero, pot |-> Zero, acc |-> Zero,
                 tl |-> seed["x"], pl |-> seed["x"], bp |-> stopped]]
  /\ pos' = [pos EXCEPT ![a][config.admin] = SeedPosition(@, seed["x"])]
  /\ score' = [score EXCEPT ![a] = NoScore]
  /\ index' = Append(index, a)
  /\ config' = [config EXCEPT !.pinned = Freezes]
  /\ bal' = [bal EXCEPT ![XEL] = @ + seed["x"], ![a] = @ + seed["y"]]

Launchpad(caller) == config.lpx # None /\ caller = config.lpx
CreatePool(caller, a, seed) == Launchpad(caller) /\ SeedPool(a, seed, FALSE)

CreatePoolOpen(a, seed) ==
  /\ config.lpx # None
  /\ SeedPool(a, seed, FALSE)
-----------------------------------------------------------------------------
(* Swaps.                                                                  *)

\* The pool slots after a swap that brings net in on side s, pays out on the
\* other, and books a fee between the admin's and the providers' pots.
Traded(p, s, net, out, adminPart, lpPart, accUp) ==
  [p EXCEPT !.res = [p.res EXCEPT ![s] = @ + net, ![Other(s)] = @ - out],
            !.fees = [p.fees EXCEPT ![s] = @ + adminPart],
            !.pot = [p.pot EXCEPT ![s] = @ + lpPart],
            !.acc = [p.acc EXCEPT ![s] = @ + accUp]]

\* The amounts of a swap of dep on side s, common to both directions.  A buy
\* adds its deposit to the buy volume, a sell what it pays to the sell volume.
Terms(a, s, dep) ==
  LET p      == pool[a]
      fee    == FeeTake(dep, config.swapFee)
      net    == NetOf(dep, fee)
      out    == SwapOut(p.res[s], p.res[Other(s)], net)
      lpPart == IF p.tl > 0 THEN FeeTake(fee, config.lpShare) ELSE 0
  IN  [fee |-> fee, net |-> net, out |-> out, lpPart |-> lpPart,
       accUp |-> IF lpPart > 0 THEN AccrualUp(lpPart, p.tl) ELSE 0,
       bought |-> IF s = "x" THEN dep ELSE 0,
       sold |-> IF s = "x" THEN 0 ELSE out]

\* Every require, checked_add and transfer of a swap passes.
SwapAccepted(a, s, dep, minOut) ==
  LET o == Other(s)
      p == pool[a]
      t == Terms(a, s, dep)
  IN
  /\ dep <= Outside(AssetOf(a, s))
  /\ dep >= config.bounds.minSwap[s] /\ dep <= config.bounds.maxSwap[s]
  /\ p.res["x"] > 0 /\ p.res["y"] > 0
  /\ t.out >= 1 /\ t.out < p.res[o] /\ t.out >= minOut
  /\ Checked(p.pot[s] + t.lpPart) /\ Checked(p.acc[s] + t.accUp)
  /\ Checked(p.fees[s] + t.fee - t.lpPart) /\ Checked(score[a].fl + t.fee)
  /\ Checked(score[a].bv + t.bought) /\ Checked(score[a].sv + t.sold)
  /\ Checked(score[a].tc + 1)
  /\ t.out <= bal[AssetOf(a, o)]

Swap(a, s, dep, minOut) ==
  LET t == Terms(a, s, dep)
  IN
  /\ SwapAccepted(a, s, dep, minOut)
  /\ pool' = [pool EXCEPT ![a] = Traded(pool[a], s, t.net, t.out,
                                        t.fee - t.lpPart, t.lpPart, t.accUp)]
  /\ score' = [score EXCEPT ![a] = [fl |-> @.fl + t.fee, bv |-> @.bv + t.bought,
                                    sv |-> @.sv + t.sold, tc |-> @.tc + 1]]
  /\ bal' = [bal EXCEPT ![AssetOf(a, s)] = @ + dep,
                        ![AssetOf(a, Other(s))] = @ - t.out]
  /\ UNCHANGED <<config, index, pos>>

\* Buying: stopped by the emergency pause and by the pool's buys-pause.
BuyGate(a) == ~config.paused /\ Live(a) /\ ~pool[a].bp

\* Selling: no pause stops it.
SellGatePaused_(a) == ~config.paused /\ Live(a)
SellGate(a) == Live(a)

SwapXelForToken(a, dep, minOut) ==
  /\ BuyGate(a)
  /\ Swap(a, "x", dep, minOut)

SwapTokenForXel(a, dep, minOut) ==
  /\ SellGate(a)
  /\ Swap(a, "y", dep, minOut)

AmountOut(a, s, d) ==
  LET net == NetOf(d, FeeTake(d, config.swapFee))
      res == pool[a].res
  IN  IF res["x"] = 0 \/ res["y"] = 0 THEN 0
      ELSE SwapOut(res[s], res[Other(s)], net)
-----------------------------------------------------------------------------
(* Liquidity.                                                              *)

\* The largest pair at the pool's ratio that fits a deposit in: the part of
\* the deposit on each side that joins the reserves.
Unfitted_(res, in) == in
Fit(res, in) ==
  LET needTok == (res["y"] * in["x"]) \div res["x"]
      needXel == (res["x"] * in["y"]) \div res["y"]
  IN  IF in["y"] >= needTok THEN [x |-> in["x"], y |-> needTok]
                            ELSE [x |-> needXel, y |-> in["y"]]

AddLiquidity(caller, a, in) ==
  LET p   == pool[a]
      eff == Fit(p.res, in)
      me  == pos[a][caller]
  IN
  /\ ~config.paused
  /\ Live(a)
  /\ \A s \in Side : /\ in[s] <= Outside(AssetOf(a, s))
                     /\ in[s] >= 1 /\ in[s] <= MAX_SEED[s]
                     /\ p.res[s] > 0
                     /\ eff[s] >= 1 /\ eff[s] <= in[s]
  /\ eff["x"] >= MIN_LP_ADD_XEL
  /\ \A s \in Side : Checked(Crystallised(a, caller)[s])
  /\ Checked(me.parts + eff["x"]) /\ Checked(me.w + eff["x"])
  /\ Checked(p.tl + eff["x"])
  /\ pool' = [pool EXCEPT ![a] =
                [p EXCEPT !.res = [s \in Side |-> p.res[s] + eff[s]],
                          !.tl = @ + eff["x"]]]
  /\ pos' = [pos EXCEPT ![a][caller] =
                [parts |-> me.parts + eff["x"], w |-> me.w + eff["x"],
                 snap |-> Settle(a, caller).snap,
                 claim |-> Settle(a, caller).claim]]
  /\ bal' = [bal EXCEPT ![XEL] = @ + eff["x"], ![a] = @ + eff["y"]]
  /\ UNCHANGED <<config, index, score>>

\* The floored pro-rata slice of both reserves that n parts are worth.
Slice(a, n) == [s \in Side |-> (n * pool[a].res[s]) \div pool[a].tl]

RemoveAccepted(caller, a, n, min) ==
  LET p   == pool[a]
      out == Slice(a, n)
      me  == pos[a][caller]
  IN
  /\ Live(a)
  /\ n >= 1 /\ n <= me.w
  /\ p.res["x"] > 0 /\ p.res["y"] > 0 /\ p.tl > 0
  /\ p.tl - n >= p.pl
  /\ n <= me.parts
  /\ \A s \in Side : /\ Checked(Crystallised(a, caller)[s])
                     /\ out[s] >= 1 /\ out[s] >= min[s]
                     /\ p.res[s] > out[s]
                     /\ out[s] <= bal[AssetOf(a, s)]

RemoveLiquidity(caller, a, n, min) ==
  LET p   == pool[a]
      out == Slice(a, n)
      me  == pos[a][caller]
  IN
  /\ RemoveAccepted(caller, a, n, min)
  /\ pool' = [pool EXCEPT ![a] =
                [p EXCEPT !.res = [s \in Side |-> p.res[s] - out[s]],
                          !.tl = @ - n]]
  /\ pos' = [pos EXCEPT ![a][caller] =
                [parts |-> me.parts - n, w |-> me.w - n,
                 snap |-> Settle(a, caller).snap,
                 claim |-> Settle(a, caller).claim]]
  /\ bal' = [bal EXCEPT ![XEL] = @ - out["x"], ![a] = @ - out["y"]]
  /\ UNCHANGED <<config, index, score>>

ClaimAccepted(caller, a) ==
  LET due == Crystallised(a, caller)
  IN
  /\ Live(a)
  /\ \E s \in Side : due[s] > 0
  /\ \A s \in Side : /\ Checked(due[s])
                     /\ due[s] <= pool[a].pot[s]
                     /\ due[s] <= bal[AssetOf(a, s)]

ClaimLpFees(caller, a) ==
  LET p   == pool[a]
      due == Crystallised(a, caller)
      me  == pos[a][caller]
  IN
  /\ ClaimAccepted(caller, a)
  /\ pool' = [pool EXCEPT ![a] =
                [p EXCEPT !.pot = [s \in Side |-> p.pot[s] - due[s]]]]
  /\ pos' = [pos EXCEPT ![a][caller] =
                [me EXCEPT !.claim = Zero,
                           !.snap = IF me.parts > 0 THEN p.acc ELSE me.snap]]
  /\ bal' = [bal EXCEPT ![XEL] = @ - due["x"], ![a] = @ - due["y"]]
  /\ UNCHANGED <<config, index, score>>
-----------------------------------------------------------------------------
(* Administration.                                                         *)

OnlyAdmin(caller) == caller = config.admin

FeeUncapped_(bps) == TRUE
FeeAccepted(bps) == bps <= MAX_SWAP_FEE_BPS

SetSwapFee(caller, bps) ==
  /\ OnlyAdmin(caller)
  /\ FeeAccepted(bps)
  /\ config' = [config EXCEPT !.swapFee = bps]
  /\ UNCHANGED <<index, pool, score, pos, bal>>

SetFeeSplit(caller, bps) ==
  /\ OnlyAdmin(caller)
  /\ bps >= MIN_LP_SHARE_BPS /\ bps <= MAX_LP_SHARE_BPS
  /\ config' = [config EXCEPT !.lpShare = bps]
  /\ UNCHANGED <<index, pool, score, pos, bal>>

SetTradeBounds(caller, b) ==
  /\ OnlyAdmin(caller)
  /\ \A s \in Side : /\ b.minSeed[s] >= SEED_FLOOR[s] /\ b.minSeed[s] <= MAX_SEED[s]
                     /\ b.minSwap[s] >= SWAP_FLOOR[s] /\ b.minSwap[s] < b.maxSwap[s]
                     /\ b.maxSwap[s] <= MAX_SWAP_CAP[s]
  /\ config' = [config EXCEPT !.bounds = b]
  /\ UNCHANGED <<index, pool, score, pos, bal>>

SetLaunchpad(caller, addr) ==
  /\ OnlyAdmin(caller)
  /\ ~config.pinned
  /\ config' = [config EXCEPT !.lpx = addr]
  /\ UNCHANGED <<index, pool, score, pos, bal>>

SetAdmin(caller, new) ==
  /\ OnlyAdmin(caller)
  /\ config' = [config EXCEPT !.admin = new]
  /\ UNCHANGED <<index, pool, score, pos, bal>>

SetPaused(caller, flag) ==
  /\ OnlyAdmin(caller)
  /\ config' = [config EXCEPT !.paused = flag]
  /\ UNCHANGED <<index, pool, score, pos, bal>>

SetPoolBuysPaused(caller, a, flag) ==
  /\ Launchpad(caller)
  /\ Live(a)
  /\ pool' = [pool EXCEPT ![a] = [pool[a] EXCEPT !.bp = flag]]
  /\ UNCHANGED <<config, index, score, pos, bal>>

WithdrawFees(caller, a, amt) ==
  /\ OnlyAdmin(caller)
  /\ Live(a)
  /\ \E s \in Side : amt[s] > 0
  /\ \A s \in Side : /\ amt[s] <= pool[a].fees[s]
                     /\ amt[s] > 0 =>
                          pool[a].res[s] + amt[s] <= bal[AssetOf(a, s)]
  /\ pool' = [pool EXCEPT ![a] =
                [pool[a] EXCEPT
                   !.fees = [s \in Side |-> pool[a].fees[s] - amt[s]]]]
  /\ bal' = [bal EXCEPT ![XEL] = @ - amt["x"], ![a] = @ - amt["y"]]
  /\ UNCHANGED <<config, index, score, pos>>

\* A deposit that the called entry does not read (XEL attached to a sell, any
\* asset attached to a claim): the chain credits it, no slot records it.
StrayDeposit(c, d) ==
  /\ d >= 1 /\ d <= Outside(c)
  /\ bal' = [bal EXCEPT ![c] = @ + d]
  /\ UNCHANGED <<config, index, pool, score, pos>>
-----------------------------------------------------------------------------
Pairs == [Side -> Amounts]

Trade(a) ==
  \E dep \in Amounts, minOut \in MinOuts :
    SwapXelForToken(a, dep, minOut) \/ SwapTokenForXel(a, dep, minOut)

Provide(u, a) ==
  \/ \E in \in Pairs : AddLiquidity(u, a, in)
  \/ \E n \in Amounts, min \in [Side -> MinOuts] : RemoveLiquidity(u, a, n, min)
  \/ ClaimLpFees(u, a)

Govern(u) ==
  \/ \E bps \in FeeArgs : SetSwapFee(u, bps)
  \/ \E bps \in SplitArgs : SetFeeSplit(u, bps)
  \/ \E b \in BoundsArgs : SetTradeBounds(u, b)
  \/ \E v \in AddrArgs : SetLaunchpad(u, v) \/ SetAdmin(u, v)
  \/ \E flag \in FlagArgs : SetPaused(u, flag)

Next ==
  \/ \E u \in Wallets, a \in Assets, seed \in Pairs : CreatePool(u, a, seed)
  \/ \E a \in Assets, seed \in Pairs : CreatePoolOpen(a, seed)
  \/ \E a \in Assets : Trade(a)
  \/ \E u \in Wallets, a \in Assets : Provide(u, a)
  \/ \E u \in Wallets : Govern(u)
  \/ \E u \in Wallets, a \in Assets, flag \in FlagArgs : SetPoolBuysPaused(u, a, flag)
  \/ \E u \in Wallets, a \in Assets, amt \in Pairs : WithdrawFees(u, a, amt)
  \/ \E c \in Coins, d \in StrayArgs : StrayDeposit(c, d)

Spec == Init /\ [][Next]_vars
-----------------------------------------------------------------------------
(* What the contract promises.                                             *)

Positions == [parts : Nat, w : Nat, snap : [Side -> Nat], claim : [Side -> Nat]]
Pools == [res : [Side -> Nat], fees : [Side -> Nat], pot : [Side -> Nat],
          acc : [Side -> Nat], tl : Nat, pl : Nat, bp : BOOLEAN]
Scores == [fl : Nat, bv : Nat, sv : Nat, tc : Nat]

\* The unset slot is no pool.
ASSUME NoneIsNoPool == None \notin Pools

\* Every slot keeps its type, the parameters their range and the balances the
\* supply: no subtraction underflows and no setter leaves a cap.
TypeOK ==
  /\ config \in [admin : Wallets, swapFee : 0..MAX_SWAP_FEE_BPS,
                 lpShare : MIN_LP_SHARE_BPS..MAX_LP_SHARE_BPS,
                 bounds : Bounds, paused : BOOLEAN,
                 lpx : Wallets \cup {None}, pinned : BOOLEAN]
  /\ index \in Seq(Assets)
  /\ pool \in [Assets -> Pools \cup {None}]
  /\ score \in [Assets -> Scores]
  /\ pos \in [Assets -> [Wallets -> Positions]]
  /\ bal \in [Coins -> Nat] /\ \A c \in Coins : bal[c] <= Supply[c]

\* What the contract owes out of a pool on one side.
Held(a, s) == IF Live(a) THEN pool[a].res[s] + pool[a].fees[s] + pool[a].pot[s]
                         ELSE 0

\* IX1, IX2, IX8: the reserves, admin pots and provider pots of all the pools
\* never exceed what the contract holds.  The XEL of all pools sits in one
\* balance, so one pool's slots drifting would be paid from another pool.
Solvency ==
  /\ Total([a \in Assets |-> Held(a, "x")]) <= bal[XEL]
  /\ \A a \in Assets : Held(a, "y") <= bal[a]

\* IX8: what all providers of a pool could claim at once, crystallised or
\* still accrued, is in the pool's provider pot.  Snapshots, depth changes and
\* two levels of flooring have to agree for this to hold.
LpSolvency ==
  \A a \in Assets : Live(a) =>
    \A s \in Side :
      Total([u \in Wallets |-> Crystallised(a, u)[s]]) <= pool[a].pot[s]

\* IX9: the depth is exactly the providers' parts, what they may withdraw is
\* exactly the depth above the seed, and the seed carries the precision floor.
PartsLedger ==
  \A a \in Assets : Live(a) =>
    /\ Total([u \in Wallets |-> pos[a][u].parts]) = pool[a].tl
    /\ Total([u \in Wallets |-> pos[a][u].w]) = pool[a].tl - pool[a].pl
    /\ \A u \in Wallets : pos[a][u].w <= pos[a][u].parts
    /\ pool[a].pl >= MIN_LP_ADD_XEL

\* X12: whoever holds withdrawable parts can burn any of them that are worth
\* a unit of both sides, and whoever is owed fees can claim them, under any
\* pause, fee or bound: no refusal of either entry ever triggers.
LpExitsOpen ==
  \A a \in Assets, u \in Wallets : Live(a) =>
    /\ \A n \in 1..pos[a][u].w :
         (\A s \in Side : Slice(a, n)[s] >= 1)
           => RemoveAccepted(u, a, n, Zero)
    /\ (\E s \in Side : Crystallised(a, u)[s] > 0) => ClaimAccepted(u, a)

\* IX6 as the code has it: a sell within the trade bounds that buys at least
\* one unit is accepted while the scoreboard counters have room.
SellsOpen ==
  \A a \in Assets, dep \in Amounts :
    LET fee == FeeTake(dep, config.swapFee)
        out == AmountOut(a, "y", dep)
    IN  /\ Live(a) /\ dep <= Outside(a) /\ out >= 1
        /\ dep >= config.bounds.minSwap["y"] /\ dep <= config.bounds.maxSwap["y"]
        /\ Checked(score[a].fl + fee) /\ Checked(score[a].sv + out)
        /\ Checked(score[a].tc + 1)
        => SellGate(a) /\ SwapAccepted(a, "y", dep, 0)

\* The ways out: providers are covered together and paid one by one, and holders
\* can sell.
ExitsOpen == LpSolvency /\ LpExitsOpen /\ SellsOpen

Product(p) == p.res["x"] * p.res["y"]

\* IX3, IX7: a step that leaves the depth alone (every step but an add or a
\* remove) never shrinks the product of a pool's reserves; and an add or a remove
\* moves the price by less than one floor unit.
CurveHolds ==
  [][\A a \in Assets : Live(a) =>
       LET r == pool[a].res  r1 == pool'[a].res
           drift == r1["x"] * r["y"] - r["x"] * r1["y"]
       IN  IF pool'[a].tl = pool[a].tl THEN Product(pool'[a]) >= Product(pool[a])
           ELSE \E s \in Side : drift < r[s] /\ -drift < r[s]]_vars

\* X10, X12: what a provider is owed never shrinks except by its own claim,
\* which pays it out whole.  In particular an add, a remove, a new split or
\* a new admin forfeits nothing.
DuesKept ==
  [][\A a \in Assets, u \in Wallets, s \in Side :
       Live(a) /\ Crystallised(a, u)'[s] < Crystallised(a, u)[s] =>
         /\ Crystallised(a, u)' = Zero
         /\ bal' = [bal EXCEPT ![XEL] = @ - Crystallised(a, u)["x"],
                               ![a] = @ - Crystallised(a, u)["y"]]]_vars
-----------------------------------------------------------------------------
(* Two statements of the documentation the code does not keep.             *)

\* docs/LAUNCHPAD.md:271-274: nobody can drain a pool below its migration.  A
\* migration seeds pl XEL and at least minSeed tokens, so the product of the
\* reserves should never fall below theirs (the seed minimum is not changed in
\* the instance that checks this).
MigrationFloor ==
  \A a \in Assets : Live(a) =>
    Product(pool[a]) >= pool[a].pl * DefaultBounds.minSeed["y"]
=============================================================================

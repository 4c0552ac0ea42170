----------------------------- MODULE VaultLaunch -----------------------------
(***************************************************************************)
(* contracts/launchpad/VaultLaunch.slx: the community-voted launchpad.     *)
(*                                                                         *)
(* Entries are atomic transactions, as in LaunchDEX.  A project is         *)
(* numbered by its pid and its asset is created from that number, so the   *)
(* pid stands for the asset too.  The calls into the DEX belong to the     *)
(* calling transaction: either they succeed, or the entry is undone.       *)
(***************************************************************************)
EXTENDS Totals, Sequences

CONSTANTS
  Wallets, None,
  Symbols,            \* tickers a creator may choose
  Infos,              \* versions of a project's editable card
  XelSupply,          \* units of XEL in existence
  Deposits,           \* XEL deposits a caller may attach
  Sales,              \* token deposits a caller may attach
  Supplies, TeamBpsArgs,      \* propose's tokenomics arguments
  Plans,              \* vesting durations a caller may pass
  AssetCosts,         \* what the chain may charge for creating an asset
  Params,             \* sets of values of the parameters an admin may set
  AddrArgs, FlagArgs, StrayArgs,
  DexArgs,            \* hashes an admin may pin
  BPS_DENOM, U64_MAX, MAX_PROJECTS,
  MIN_TOTAL_SUPPLY, MAX_TOTAL_SUPPLY, MAX_TEAM_BPS,
  MIN_BUY_XEL, MAX_TRADE_XEL, MAX_LIQUIDITY,
  Low, High,          \* Low[f], High[f]: the hard caps of each parameter f
  Defaults,           \* the parameters the constructor stores
  MAX_ROUNDS,         \* bounds the revalidations of a project
  MAX_TOPO            \* bounds the height of the chain

Ids == 0..(MAX_PROJECTS - 1)
Rounds == 0..MAX_ROUNDS
Names == {"subFee", "budget", "minLiq", "tradeFee", "gradFee", "migFee",
          "direct", "minPart", "approval", "duration", "mult", "delay",
          "vestMin", "vestMax", "recFee", "recPart", "recRatio", "voteDep"}

VALIDATION == 0
REJECTED == 1
BONDING == 2
GRADUATED == 3
TRUSTED == 4
UNTRUSTED == 5
RECOVERY == 6
Buying == {BONDING, GRADUATED, TRUSTED}
Selling == Buying \cup {UNTRUSTED, RECOVERY}
Voting == {VALIDATION, RECOVERY}

ASSUME VaultConstants ==
  /\ IsFiniteSet(Wallets) /\ None \notin Nat
  /\ XelSupply \in Nat /\ U64_MAX \in Nat /\ XelSupply <= U64_MAX
  /\ Deposits \subseteq Nat /\ Sales \subseteq Nat /\ Plans \subseteq Nat
  /\ Supplies \subseteq Nat /\ TeamBpsArgs \subseteq Nat
  /\ AssetCosts \subseteq Nat /\ StrayArgs \subseteq Nat
  /\ AddrArgs \subseteq Wallets /\ FlagArgs \subseteq BOOLEAN
  /\ BPS_DENOM \in Nat \ {0} /\ MAX_PROJECTS \in Nat
  /\ MIN_TOTAL_SUPPLY \in Nat \ {0} /\ MAX_TOTAL_SUPPLY \in 0..U64_MAX
  /\ MAX_TEAM_BPS \in 0..(BPS_DENOM - 1)
  /\ MIN_BUY_XEL \in Nat \ {0} /\ MAX_TRADE_XEL \in Nat /\ MAX_LIQUIDITY \in Nat
  /\ Low \in [Names -> Nat] /\ High \in [Names -> Nat]
  /\ Low.minLiq > 0 /\ Low.vestMin > 0 /\ Low.mult > 1 /\ Low.minPart > 0
  /\ 2 * Low.approval > BPS_DENOM /\ 2 * Low.recRatio > BPS_DENOM
  /\ \A f \in {"tradeFee", "gradFee", "migFee", "approval", "recRatio"} :
       High[f] <= BPS_DENOM
  /\ High.migFee < BPS_DENOM
  /\ Params \in [Names -> SUBSET Nat]
  /\ Defaults \in [Names -> Nat]
  /\ \A f \in Names : Defaults[f] \in Low[f]..High[f]
  /\ Defaults.gradFee <= Defaults.tradeFee
  /\ Defaults.minLiq <= Defaults.direct
  /\ Defaults.vestMin < Defaults.vestMax
  /\ MAX_ROUNDS \in Nat /\ MAX_TOPO \in Nat \ {0}

VARIABLES
  config,    \* adm, pz and dxa: the admin, the pause and the DEX pin
  params,    \* the tunable parameters, by name
  count,     \* pc: projects ever proposed
  proj,      \* p:{id}: the slots of each project, None before its proposal
  ticker,    \* t:{symbol}: the project that reserved the symbol
  vote,      \* v:{id}:{round}:{addr}: the deposit a vote locks, None before it
  moved,     \* m:{order} and mgc: the migrated projects, in order
  books,     \* the global accumulators
  xel, tok,  \* the contract's balances of XEL and of each project's asset
  topo       \* the chain's height

vars == <<config, params, count, proj, ticker, vote, moved, books, xel, tok, topo>>

Proposed(i) == proj[i] # None
-----------------------------------------------------------------------------
(* Arithmetic helpers.  A name ending in _ is a mutant, read by nothing.   *)

FeeTake(amount, bps) == (amount * bps) \div BPS_DENOM
Checked(n) == n <= U64_MAX
Floor0(n) == IF n > 0 THEN n ELSE 0
Least(m, n) == IF m <= n THEN m ELSE n

BuyOutUp_(p, net) == (p.cs * net + p.rv + net - 1) \div (p.rv + net)
BuyOut(p, net) == (p.cs * net) \div (p.rv + net)
SellOut(p, t) == (p.rv * t) \div (p.cs + t)

TeamAlloc(supply, bps) == FeeTake(supply, bps)
Team(p) == TeamAlloc(p.supply, p.bps)
TeamRemaining(p) == Floor0(Team(p) - p.paid)

\* current_fee_bps: the graduated fee is clamped to the bonding one.
TradingFee(p) ==
  IF p.gr THEN Least(params.gradFee, params.tradeFee) ELSE params.tradeFee

\* What of the allocation has unlocked at height now.
LateClaim(p, now) ==
  p.status \in {BONDING, UNTRUSTED, RECOVERY} /\ p.bt > 0 /\ now >= p.bt + params.delay
Streamed(p, now) ==
  IF p.vd = 0 THEN Team(p) ELSE Least(Team(p), (Team(p) * Floor0(now - p.vs)) \div p.vd)
GradFirst_(p, now) ==
  IF p.gr \/ LateClaim(p, now) THEN Team(p)
  ELSE IF p.vs > 0 THEN Streamed(p, now) ELSE 0
TeamUnlocked(p, now) ==
  IF p.vs > 0 THEN Streamed(p, now)
  ELSE IF p.gr \/ LateClaim(p, now) THEN Team(p) ELSE 0

TeamCirculates_(p) ==
  IF p.cs = 0 THEN 0 ELSE Least(U64_MAX, (p.rv * (p.supply - p.cs)) \div p.cs)
\* update_market_cap; the stored cap saturates at the width of a slot.
MarketCap(p) ==
  IF p.cs = 0 THEN 0
  ELSE Least(U64_MAX, (p.rv * (p.supply - p.cs - TeamRemaining(p))) \div p.cs)
Valued(p) == [p EXCEPT !.mc = MarketCap(p),
                       !.mh = IF MarketCap(p) > @ THEN MarketCap(p) ELSE @]

\* get_market_cap, the view of the same number.
CapView(p) ==
  LET circulating == p.supply - p.cs - TeamRemaining(p)
  IN  IF p.cs = 0 \/ circulating = 0 THEN 0
      ELSE Least(U64_MAX, (p.rv * circulating) \div p.cs)

\* What wallets hold, and so can attach to a call.
XelOutside == XelSupply - xel
TokOutside(i) == proj[i].supply - tok[i]

\* Every window the model opens ends before the model does.
WithinHorizon(n) == topo + n <= MAX_TOPO
-----------------------------------------------------------------------------
Init ==
  /\ \E deployer \in Wallets :
       config = [admin |-> deployer, paused |-> FALSE, dex |-> None]
  /\ params = Defaults
  /\ count = 0
  /\ proj = [i \in Ids |-> None]
  /\ ticker = [s \in Symbols |-> None]
  /\ vote = [i \in Ids |-> [r \in Rounds |-> [w \in Wallets |-> None]]]
  /\ moved = <<>>
  /\ books = [tcx |-> 0, pfe |-> 0, fcl |-> 0, lrf |-> 0, tbb |-> 0, tvp |-> 0,
              tbv |-> 0, tsv |-> 0, tvl |-> 0, ttc |-> 0]
  /\ xel = 0
  /\ tok = [i \in Ids |-> 0]
  /\ topo = 1
-----------------------------------------------------------------------------
(* Proposing a project.                                                    *)

NewProject(creator, sym, info, supply, bps, plan, liq) ==
  [creator |-> creator, sym |-> sym, info |-> info, supply |-> supply,
   bps |-> bps, plan |-> plan, status |-> VALIDATION, lq |-> liq,
   ab |-> params.budget, rv |-> liq, cs |-> supply - TeamAlloc(supply, bps),
   dl |-> liq >= params.direct, ve |-> topo + params.duration, rd |-> 0,
   sp |-> 0, rp |-> 0, gr |-> FALSE, rc |-> FALSE, bt |-> 0, paid |-> 0,
   vs |-> 0, vd |-> 0, ah |-> FALSE, mi |-> FALSE, mx |-> 0, mt |-> 0,
   dsy |-> FALSE, bv |-> 0, sv |-> 0, vo |-> 0, tc |-> 0, mc |-> 0, mh |-> 0,
   mg |-> 0]

\* Whatever of the deposit is neither fee nor budget is the seed liquidity.
SeedOf(dep) == dep - params.subFee - params.budget

ProposeAccepted(sym, supply, bps, plan, dep) ==
  /\ ~config.paused
  /\ count < MAX_PROJECTS
  /\ ticker[sym] = None
  /\ supply >= MIN_TOTAL_SUPPLY /\ supply <= MAX_TOTAL_SUPPLY
  /\ bps <= MAX_TEAM_BPS
  /\ plan = 0 \/ (plan >= params.vestMin /\ plan <= params.vestMax)
  /\ dep <= XelOutside
  /\ SeedOf(dep) >= params.minLiq /\ SeedOf(dep) <= MAX_LIQUIDITY
  /\ WithinHorizon(params.duration)
  /\ Checked(books.tcx + SeedOf(dep)) /\ Checked(books.tbb + params.budget)
  /\ Checked(books.pfe + params.subFee)

Propose(caller, sym, info, supply, bps, plan, dep) ==
  /\ ProposeAccepted(sym, supply, bps, plan, dep)
  /\ proj' = [proj EXCEPT ![count] =
                NewProject(caller, sym, info, supply, bps, plan, SeedOf(dep))]
  /\ ticker' = [ticker EXCEPT ![sym] = count]
  /\ count' = count + 1
  /\ books' = [books EXCEPT !.tcx = @ + SeedOf(dep), !.tbb = @ + params.budget,
                            !.pfe = @ + params.subFee]
  /\ xel' = xel + dep
  /\ UNCHANGED <<config, params, vote, moved, tok, topo>>
-----------------------------------------------------------------------------
(* Votes.                                                                  *)

VoteOpen(p) == p.status # REJECTED /\ (p.status \in Voting => topo < p.ve)
VoteTwice_(i, w) == TRUE
NotVoted(i, w) == vote[i][proj[i].rd][w] = None

\* The bar of a quorum and a ratio, on one side of the tallies.
Reaches(n, p, quorum, ratio) ==
  p.sp + p.rp >= quorum /\ n * BPS_DENOM >= ratio * (p.sp + p.rp)
Distrusted(p) == Reaches(p.rp, p, params.minPart, params.approval)

\* trust_guard, on the tallies that include the vote.
Unguarded_(p) == p
TrustGuard(p) ==
  IF p.status \in Buying /\ Distrusted(p) THEN [p EXCEPT !.status = UNTRUSTED]
                                          ELSE p

\* Of the deposit only the configured amount stays; the rest goes back.
Stake(dep) == params.voteDep
Vote(caller, i, dep, voted) ==
  LET p == proj[i]
  IN
  /\ Proposed(i)
  /\ VoteOpen(p)
  /\ NotVoted(i, caller)
  /\ dep <= XelOutside /\ dep >= params.voteDep
  /\ Checked(books.tvp + params.voteDep)
  /\ vote' = [vote EXCEPT ![i][p.rd][caller] = Stake(dep)]
  /\ books' = [books EXCEPT !.tvp = @ + params.voteDep]
  /\ proj' = [proj EXCEPT ![i] = TrustGuard(voted)]
  /\ xel' = xel + params.voteDep
  /\ UNCHANGED <<config, params, count, ticker, moved, tok, topo>>

Support(caller, i, dep) == Vote(caller, i, dep, [proj[i] EXCEPT !.sp = @ + 1])
Report(caller, i, dep) == Vote(caller, i, dep, [proj[i] EXCEPT !.rp = @ + 1])

RoundClosed(p, r) == r <= p.rd /\ (r = p.rd => topo >= p.ve)

\* The slot is zeroed but kept: the vote still counts.
DepositAccepted(caller, i, r) ==
  /\ Proposed(i)
  /\ RoundClosed(proj[i], r)
  /\ vote[i][r][caller] # None /\ vote[i][r][caller] > 0
  /\ vote[i][r][caller] <= books.tvp /\ vote[i][r][caller] <= xel
ClaimVoteDeposit(caller, i, r) ==
  /\ DepositAccepted(caller, i, r)
  /\ vote' = [vote EXCEPT ![i][r][caller] = 0]
  /\ books' = [books EXCEPT !.tvp = @ - vote[i][r][caller]]
  /\ xel' = xel - vote[i][r][caller]
  /\ UNCHANGED <<config, params, count, proj, ticker, moved, tok, topo>>
-----------------------------------------------------------------------------
(* The end of a voting window.                                             *)

\* take_migration_fee and graduate.
NoMigrationFee_(p) == 0
MigrationFee(p) == FeeTake(p.rv, params.migFee)
FeeMoved(b, fee) == [b EXCEPT !.tcx = @ - fee, !.pfe = @ + fee]

Graduated(p) ==
  LET g == Valued([p EXCEPT !.status = GRADUATED, !.gr = TRUE,
                            !.rv = @ - MigrationFee(p),
                            !.vs = IF p.plan > 0 THEN topo ELSE @,
                            !.vd = IF p.plan > 0 THEN p.plan ELSE @])
  IN  [g EXCEPT !.mg = g.mc]

\* What create_project_asset sends back to the creator once the chain has
\* charged the asset's creation.
Unspent(ab, topup, cost) == ab + topup - cost

\* A passed validation: the asset is created, then the curve opens or, for a
\* direct listing, the project graduates at once.
Accept(i, topup, cost) ==
  LET p    == proj[i]
      born == [p EXCEPT !.ab = 0, !.ah = TRUE, !.bt = topo]
  IN
  /\ p.status = VALIDATION
  /\ Reaches(p.sp, p, params.minPart, params.approval)
  /\ ~p.ah
  /\ cost <= xel + topup
  /\ Checked(p.ab + topup) /\ p.ab + topup >= cost
  /\ p.ab <= books.tbb
  /\ p.dl => Checked(books.pfe + MigrationFee(p))
  /\ proj' = [proj EXCEPT ![i] = IF p.dl THEN Graduated(born)
                                 ELSE [born EXCEPT !.status = BONDING]]
  /\ books' = [IF p.dl THEN FeeMoved(books, MigrationFee(p)) ELSE books
                 EXCEPT !.tbb = @ - p.ab]
  /\ xel' = xel + topup - cost - Unspent(p.ab, topup, cost)
  /\ tok' = [tok EXCEPT ![i] = p.supply]

\* A failed one: the seed becomes a refund, the budget stays earmarked.
SeedKept_(b, lq) == [b EXCEPT !.lrf = @ + lq]
SeedReleased(b, lq) == [b EXCEPT !.lrf = @ + lq, !.tcx = @ - lq]

Reject(i, topup) ==
  LET p == proj[i]
  IN
  /\ p.status = VALIDATION
  /\ ~Reaches(p.sp, p, params.minPart, params.approval)
  /\ Checked(books.lrf + p.lq) /\ p.lq <= books.tcx
  /\ proj' = [proj EXCEPT ![i] = [p EXCEPT !.status = REJECTED, !.rv = 0]]
  /\ books' = SeedReleased(books, p.lq)
  /\ xel' = xel + topup
  /\ tok' = tok

\* A recovery vote, under the stricter bar once the project has graduated.
EasyBar_(p) == Reaches(p.sp, p, params.minPart, params.approval)
Recovered(p) ==
  IF p.gr THEN Reaches(p.sp, p, params.recPart, params.recRatio)
          ELSE Reaches(p.sp, p, params.minPart, params.approval)
StillOpen_(p) ==
  IF ~Recovered(p) THEN RECOVERY ELSE IF p.gr THEN TRUSTED ELSE BONDING
RecoveryOutcome(p) ==
  IF ~Recovered(p) THEN UNTRUSTED ELSE IF p.gr THEN TRUSTED ELSE BONDING

Recover(i, topup) ==
  /\ proj[i].status = RECOVERY
  /\ proj' = [proj EXCEPT ![i] = [proj[i] EXCEPT !.status = RecoveryOutcome(proj[i])]]
  /\ xel' = xel + topup
  /\ UNCHANGED <<books, tok>>

FinalizeValidation(i, topup, cost) ==
  /\ Proposed(i)
  /\ topo >= proj[i].ve
  /\ topup <= XelOutside
  /\ Accept(i, topup, cost) \/ Reject(i, topup) \/ Recover(i, topup)
  /\ UNCHANGED <<config, params, count, ticker, vote, moved, topo>>

\* MAX_ROUNDS and the horizon bound the model, not the contract.
RequestRevalidation(caller, i, dep) ==
  LET p   == proj[i]
      fee == IF p.gr THEN params.recFee ELSE 0
  IN
  /\ Proposed(i)
  /\ p.status = UNTRUSTED
  /\ caller = p.creator
  /\ dep = fee /\ dep <= XelOutside
  /\ Checked(books.pfe + fee)
  /\ p.rd < MAX_ROUNDS /\ WithinHorizon(params.duration)
  /\ proj' = [proj EXCEPT ![i] = [p EXCEPT !.rd = @ + 1, !.sp = 0, !.rp = 0,
                                          !.ve = topo + params.duration,
                                          !.status = RECOVERY]]
  /\ books' = [books EXCEPT !.pfe = @ + fee]
  /\ xel' = xel + dep
  /\ UNCHANGED <<config, params, count, ticker, vote, moved, tok, topo>>

ClaimRefund(caller, i) ==
  LET p == proj[i]
  IN
  /\ Proposed(i)
  /\ p.status = REJECTED
  /\ caller = p.creator
  /\ ~p.rc
  /\ p.lq <= books.lrf /\ p.ab <= books.tbb
  /\ Checked(p.lq + p.ab) /\ p.lq + p.ab <= xel
  /\ proj' = [proj EXCEPT ![i] = [p EXCEPT !.rc = TRUE, !.ab = 0]]
  /\ books' = [books EXCEPT !.lrf = @ - p.lq, !.tbb = @ - p.ab]
  /\ xel' = xel - p.lq - p.ab
  /\ UNCHANGED <<config, params, count, ticker, vote, moved, tok, topo>>
-----------------------------------------------------------------------------
(* Trading on a curve.                                                     *)

\* record_trade: a buy records its deposit, a sell its gross.
BuyRecorded(b, n) == [b EXCEPT !.tbv = @ + n, !.tvl = @ + n, !.ttc = @ + 1]
SellRecorded(b, n) == [b EXCEPT !.tsv = @ + n, !.tvl = @ + n, !.ttc = @ + 1]
RecordChecked(own, total, vo, tc, n) ==
  /\ Checked(own + n) /\ Checked(total + n)
  /\ Checked(vo + n) /\ Checked(books.tvl + n)
  /\ Checked(tc + 1) /\ Checked(books.ttc + 1)

\* The multiplier is read when the buy runs.
Graduates(p) == p.status = BONDING /\ p.rv >= p.lq * params.mult

BuyGate(p) == ~config.paused /\ p.status \in Buying /\ ~p.mi

Buy(i, dep) ==
  LET p      == proj[i]
      fee    == FeeTake(dep, TradingFee(p))
      net    == dep - fee
      out    == BuyOut(p, net)
      traded == [p EXCEPT !.rv = @ + net, !.cs = @ - out,
                          !.bv = @ + dep, !.vo = @ + dep, !.tc = @ + 1]
      booked == [BuyRecorded(books, dep) EXCEPT !.tcx = @ + net, !.pfe = @ + fee]
  IN
  /\ Proposed(i)
  /\ BuyGate(p)
  /\ dep <= XelOutside
  /\ dep >= MIN_BUY_XEL /\ dep <= MAX_TRADE_XEL
  /\ p.rv > 0 /\ p.cs > 0
  /\ out >= 1 /\ out <= p.cs
  /\ Checked(books.tcx + net) /\ Checked(books.pfe + fee)
  /\ RecordChecked(p.bv, books.tbv, p.vo, p.tc, dep)
  /\ p.ah /\ out <= tok[i]
  /\ IF Graduates(traded)
     THEN /\ Checked(books.pfe + fee + MigrationFee(traded))
          /\ proj' = [proj EXCEPT ![i] = Graduated(traded)]
          /\ books' = FeeMoved(booked, MigrationFee(traded))
     ELSE /\ proj' = [proj EXCEPT ![i] = Valued(traded)]
          /\ books' = booked
  /\ xel' = xel + dep
  /\ tok' = [tok EXCEPT ![i] = @ - out]
  /\ UNCHANGED <<config, params, count, ticker, vote, moved, topo>>

\* No pause, distrust or window stops a sell.
SellGateTrusted_(p) == p.status \in Buying /\ ~p.mi
SellGate(p) == p.status \in Selling /\ ~p.mi

SellAccepted(i, dep) ==
  LET p     == proj[i]
      gross == SellOut(p, dep)
      fee   == FeeTake(gross, TradingFee(p))
      out   == gross - fee
  IN
  /\ Proposed(i)
  /\ SellGate(p)
  /\ p.ah
  /\ dep >= 1 /\ dep <= TokOutside(i)
  /\ p.rv > 0 /\ p.cs > 0
  /\ gross >= 1 /\ gross <= p.rv
  /\ out >= 1
  /\ gross <= books.tcx /\ Checked(books.pfe + fee)
  /\ RecordChecked(p.sv, books.tsv, p.vo, p.tc, gross)
  /\ out <= xel

Sell(i, dep) ==
  LET p     == proj[i]
      gross == SellOut(p, dep)
      fee   == FeeTake(gross, TradingFee(p))
  IN
  /\ SellAccepted(i, dep)
  /\ proj' = [proj EXCEPT ![i] =
                Valued([p EXCEPT !.rv = @ - gross, !.cs = @ + dep,
                                 !.sv = @ + gross, !.vo = @ + gross,
                                 !.tc = @ + 1])]
  /\ books' = [SellRecorded(books, gross) EXCEPT !.tcx = @ - gross, !.pfe = @ + fee]
  /\ xel' = xel - (gross - fee)
  /\ tok' = [tok EXCEPT ![i] = @ + dep]
  /\ UNCHANGED <<config, params, count, ticker, vote, moved, topo>>

SellQuote(p, t) == SellOut(p, t) - FeeTake(SellOut(p, t), TradingFee(p))
-----------------------------------------------------------------------------
(* The team's allocation and the move to the DEX.                          *)

UpdateProjectInfo(caller, i, info) ==
  /\ Proposed(i)
  /\ proj[i].status # REJECTED
  /\ caller = proj[i].creator
  /\ proj' = [proj EXCEPT ![i] = [proj[i] EXCEPT !.info = info]]
  /\ UNCHANGED <<config, params, count, ticker, vote, moved, books, xel, tok, topo>>

Unvested(p) == p.plan = 0 /\ p.vs = 0

StartTeamVesting(caller, i, dur) ==
  LET p == proj[i]
  IN
  /\ Proposed(i)
  /\ caller = p.creator
  /\ Unvested(p)
  /\ TeamRemaining(p) > 0
  /\ dur >= params.vestMin /\ dur <= params.vestMax
  /\ TeamUnlocked(p, topo) > 0
  /\ proj' = [proj EXCEPT ![i] = [p EXCEPT !.vs = topo, !.vd = dur]]
  /\ UNCHANGED <<config, params, count, ticker, vote, moved, books, xel, tok, topo>>

ClaimTeamAllocation(caller, i) ==
  LET p   == proj[i]
      pay == TeamUnlocked(p, topo) - p.paid
  IN
  /\ Proposed(i)
  /\ caller = p.creator
  /\ pay > 0
  /\ p.ah /\ pay <= tok[i]
  /\ proj' = [proj EXCEPT ![i] = Valued([p EXCEPT !.paid = @ + pay])]
  /\ tok' = [tok EXCEPT ![i] = @ - pay]
  /\ UNCHANGED <<config, params, count, ticker, vote, moved, books, xel, topo>>

EscrowSeeded_(p) == [x |-> p.rv, y |-> p.cs + TeamRemaining(p)]
Seed(p) == [x |-> p.rv, y |-> p.cs]

\* migrate_to_dex's state flips; the pool of a project that is Untrusted now
\* has its buys paused in the same transaction.
Closed(p) ==
  Valued([p EXCEPT !.mi = TRUE, !.mx = Seed(p).x, !.mt = Seed(p).y,
                   !.rv = 0, !.cs = 0, !.dsy = (p.status = UNTRUSTED)])

MigrateAccepted(i) ==
  LET p == proj[i]
  IN
  /\ Proposed(i)
  /\ p.gr /\ ~p.mi
  /\ config.dex # None
  /\ p.ah
  /\ p.rv >= 1 /\ p.cs >= 1
  /\ p.rv <= xel /\ p.cs + TeamRemaining(p) <= tok[i]
  /\ p.rv <= books.tcx

Migrate(i) ==
  LET p == proj[i]
  IN
  /\ MigrateAccepted(i)
  /\ proj' = [proj EXCEPT ![i] = Closed(p)]
  /\ moved' = Append(moved, i)
  /\ books' = [books EXCEPT !.tcx = @ - p.rv]
  /\ xel' = xel - Seed(p).x
  /\ tok' = [tok EXCEPT ![i] = @ - Seed(p).y]
  /\ UNCHANGED <<config, params, count, ticker, vote, topo>>

\* dsy is what the pool's buys-pause was last set to.
SyncFlag(p) == p.status = UNTRUSTED
SyncAccepted(i) ==
  /\ Proposed(i)
  /\ proj[i].mi
  /\ proj[i].dsy # SyncFlag(proj[i])
  /\ config.dex # None /\ proj[i].ah
SyncTrustToDex(i) ==
  /\ SyncAccepted(i)
  /\ proj' = [proj EXCEPT ![i] = [proj[i] EXCEPT !.dsy = SyncFlag(proj[i])]]
  /\ UNCHANGED <<config, params, count, ticker, vote, moved, books, xel, tok, topo>>
-----------------------------------------------------------------------------
(* Administration.                                                         *)

OnlyAdmin(caller) == caller = config.admin

\* A setter stores one parameter within its hard caps.
Capped_(f, n) == n >= Low[f]
Capped(f, n) == n >= Low[f] /\ n <= High[f]
Set(caller, p) ==
  /\ OnlyAdmin(caller)
  /\ params' = p
  /\ UNCHANGED <<config, count, proj, ticker, vote, moved, books, xel, tok, topo>>
SetOne(caller, f, n) == Capped(f, n) /\ Set(caller, [params EXCEPT ![f] = n])

\* The cross-check of a pair of parameters.
InOrder(low, high) == low <= high

SetSubmissionFee(u, n) == SetOne(u, "subFee", n)
SetTradingFee(u, n) == InOrder(params.gradFee, n) /\ SetOne(u, "tradeFee", n)
SetGraduatedTradingFee(u, n) == InOrder(n, params.tradeFee) /\ SetOne(u, "gradFee", n)
SetMigrationFee(u, n) == SetOne(u, "migFee", n)
SetDirectListingThreshold(u, n) == InOrder(params.minLiq, n) /\ SetOne(u, "direct", n)
SetMinLiquidity(u, n) == InOrder(n, params.direct) /\ SetOne(u, "minLiq", n)
SetMinParticipants(u, n) == SetOne(u, "minPart", n)
SetMinApprovalRatio(u, n) == SetOne(u, "approval", n)
SetValidationDuration(u, n) == SetOne(u, "duration", n)
SetGraduationMultiplier(u, n) == SetOne(u, "mult", n)
SetTeamUnlockDelay(u, n) == SetOne(u, "delay", n)
SetRecoveryFee(u, n) == SetOne(u, "recFee", n)
SetAssetBudget(u, n) == SetOne(u, "budget", n)
SetVoteDeposit(u, n) == SetOne(u, "voteDep", n)
SetVestingBounds(u, m, n) ==
  /\ Capped("vestMin", m) /\ Capped("vestMax", n) /\ InOrder(m + 1, n)
  /\ Set(u, [params EXCEPT !.vestMin = m, !.vestMax = n])
SetRecoveryParams(u, m, n) ==
  /\ Capped("recPart", m) /\ Capped("recRatio", n)
  /\ Set(u, [params EXCEPT !.recPart = m, !.recRatio = n])

PinOpen == moved = <<>>
SetConfig(caller, c) ==
  /\ OnlyAdmin(caller)
  /\ config' = c
  /\ UNCHANGED <<params, count, proj, ticker, vote, moved, books, xel, tok, topo>>
SetDexAddress(u, addr) == PinOpen /\ SetConfig(u, [config EXCEPT !.dex = addr])
SetAdmin(u, new) == SetConfig(u, [config EXCEPT !.admin = new])
SetPaused(u, flag) == SetConfig(u, [config EXCEPT !.paused = flag])

\* Everything the balance owes to someone other than the admin.
Committed == books.tcx + books.lrf + books.tbb + books.tvp

WithdrawFees(caller, n) ==
  /\ OnlyAdmin(caller)
  /\ n > 0 /\ n <= books.pfe
  /\ n + Committed <= xel
  /\ Checked(books.fcl + n)
  /\ books' = [books EXCEPT !.pfe = @ - n, !.fcl = @ + n]
  /\ xel' = xel - n
  /\ UNCHANGED <<config, params, count, proj, ticker, vote, moved, tok, topo>>

\* A deposit the called entry does not read.
StrayXel(n) ==
  /\ n >= 1 /\ n <= XelOutside
  /\ xel' = xel + n
  /\ UNCHANGED <<config, params, count, proj, ticker, vote, moved, books, tok, topo>>
StrayTokens(i, n) ==
  /\ Proposed(i) /\ proj[i].ah
  /\ n >= 1 /\ n <= TokOutside(i)
  /\ tok' = [tok EXCEPT ![i] = @ + n]
  /\ UNCHANGED <<config, params, count, proj, ticker, vote, moved, books, xel, topo>>

\* The chain grows by one block, up to the model's horizon.
Tick ==
  /\ topo < MAX_TOPO
  /\ topo' = topo + 1
  /\ UNCHANGED <<config, params, count, proj, ticker, vote, moved, books, xel, tok>>
-----------------------------------------------------------------------------
Ballot(u, i) ==
  \/ \E dep \in Deposits : Support(u, i, dep) \/ Report(u, i, dep)
  \/ \E r \in Rounds : ClaimVoteDeposit(u, i, r)

Create(u) ==
  \E sym \in Symbols, info \in Infos, supply \in Supplies, bps \in TeamBpsArgs,
     plan \in Plans \cup {0}, dep \in Deposits :
    Propose(u, sym, info, supply, bps, plan, dep)

Close(i) ==
  \E topup \in Deposits, cost \in AssetCosts : FinalizeValidation(i, topup, cost)

Found(u, i) ==
  \/ \E dep \in Deposits : RequestRevalidation(u, i, dep)
  \/ ClaimRefund(u, i)
  \/ \E info \in Infos : UpdateProjectInfo(u, i, info)
  \/ \E dur \in Plans : StartTeamVesting(u, i, dur)
  \/ ClaimTeamAllocation(u, i)

Trade(i) ==
  \/ \E dep \in Deposits : Buy(i, dep)
  \/ \E dep \in Sales : Sell(i, dep)

Tune(u) ==
  \/ \E n \in Params.subFee : SetSubmissionFee(u, n)
  \/ \E n \in Params.tradeFee : SetTradingFee(u, n)
  \/ \E n \in Params.gradFee : SetGraduatedTradingFee(u, n)
  \/ \E n \in Params.migFee : SetMigrationFee(u, n)
  \/ \E n \in Params.direct : SetDirectListingThreshold(u, n)
  \/ \E n \in Params.minLiq : SetMinLiquidity(u, n)
  \/ \E n \in Params.minPart : SetMinParticipants(u, n)
  \/ \E n \in Params.approval : SetMinApprovalRatio(u, n)
  \/ \E n \in Params.duration : SetValidationDuration(u, n)
  \/ \E n \in Params.mult : SetGraduationMultiplier(u, n)
  \/ \E n \in Params.delay : SetTeamUnlockDelay(u, n)
  \/ \E n \in Params.recFee : SetRecoveryFee(u, n)
  \/ \E n \in Params.budget : SetAssetBudget(u, n)
  \/ \E n \in Params.voteDep : SetVoteDeposit(u, n)
  \/ \E m \in Params.vestMin, n \in Params.vestMax : SetVestingBounds(u, m, n)
  \/ \E m \in Params.recPart, n \in Params.recRatio : SetRecoveryParams(u, m, n)

Govern(u) ==
  \/ \E v \in AddrArgs : SetAdmin(u, v)
  \/ \E v \in DexArgs : SetDexAddress(u, v)
  \/ \E flag \in FlagArgs : SetPaused(u, flag)
  \/ \E n \in Deposits : WithdrawFees(u, n)

\* Every entry but the two that call the DEX.
NextHere ==
  \/ \E u \in Wallets : Create(u) \/ Tune(u) \/ Govern(u)
  \/ \E u \in Wallets, i \in Ids : Ballot(u, i) \/ Found(u, i)
  \/ \E i \in Ids : Close(i) \/ Trade(i)
  \/ \E n \in StrayArgs : StrayXel(n) \/ \E i \in Ids : StrayTokens(i, n)
  \/ Tick

Next == NextHere \/ \E i \in Ids : Migrate(i) \/ SyncTrustToDex(i)

Spec == Init /\ [][Next]_vars

\* Blocks keep coming, and a closed window is finalized by someone: the entry
\* is permissionless and the founder and the community each want its outcome.
Fairness == WF_vars(Tick) /\ \A i \in Ids : WF_vars(Close(i))
FairSpec == Spec /\ Fairness
-----------------------------------------------------------------------------
(* What the launchpad promises.                                            *)

Amount == 0..U64_MAX
Projects ==
  [creator : Wallets, sym : Symbols, info : Infos, supply : Nat,
   bps : 0..MAX_TEAM_BPS, plan : Nat, status : Selling \cup {VALIDATION, REJECTED},
   lq : Nat, ab : Nat, rv : Nat, cs : Nat, dl : BOOLEAN, ve : Nat, rd : Rounds,
   sp : Nat, rp : Nat, gr : BOOLEAN, rc : BOOLEAN, bt : Nat, paid : Nat, vs : Nat,
   vd : Nat, ah : BOOLEAN, mi : BOOLEAN, mx : Nat, mt : Nat, dsy : BOOLEAN,
   bv : Nat, sv : Nat, vo : Nat, tc : Nat, mc : Amount, mh : Amount, mg : Amount]

\* The unset slot is no project.
ASSUME NoneIsNoProject == None \notin Projects

\* Every slot keeps its type and the parameters their caps; in particular no
\* subtraction of a reserve, of an accumulator or of a balance underflows.
TypeOK ==
  /\ config \in [admin : Wallets, paused : BOOLEAN, dex : DexArgs \cup {None}]
  /\ DOMAIN params = Names /\ \A f \in Names : params[f] \in Low[f]..High[f]
  /\ count \in 0..MAX_PROJECTS
  /\ proj \in [Ids -> Projects \cup {None}]
  /\ ticker \in [Symbols -> Ids \cup {None}]
  /\ vote \in [Ids -> [Rounds -> [Wallets -> Nat \cup {None}]]]
  /\ moved \in Seq(Ids)
  /\ books \in [tcx : Nat, pfe : Nat, fcl : Nat, lrf : Nat, tbb : Nat, tvp : Nat,
                tbv : Nat, tsv : Nat, tvl : Nat, ttc : Nat]
  /\ xel \in 0..XelSupply
  /\ tok \in [Ids -> Nat]
  /\ topo \in 1..MAX_TOPO

Slot(i, f) == IF Proposed(i) THEN proj[i][f] ELSE 0
Refundable(i) ==
  IF Proposed(i) /\ proj[i].status = REJECTED /\ ~proj[i].rc THEN proj[i].lq ELSE 0
Locked(i, r, w) == IF vote[i][r][w] = None THEN 0 ELSE vote[i][r][w]

\* I2, D20: each global accumulator is the exact sum of the slots it stands
\* for (live reserves, refunds in waiting, earmarked budgets, locked vote
\* deposits), and the balance covers them together with the pending fees.
XelSolvency ==
  /\ books.tcx = Total([i \in Ids |-> Slot(i, "rv")])
  /\ books.lrf = Total([i \in Ids |-> Refundable(i)])
  /\ books.tbb = Total([i \in Ids |-> Slot(i, "ab")])
  /\ books.tvp = Total([s \in Ids \X Rounds \X Wallets |-> Locked(s[1], s[2], s[3])])
  /\ Committed + books.pfe <= xel

\* I1, I10: the contract's balance of an asset covers the curve's inventory
\* and the team's unpaid escrow, before and after the migration.
TokenSolvency ==
  \A i \in Ids : Proposed(i) /\ proj[i].ah =>
    LET p == proj[i]
    IN  /\ p.paid <= Team(p)
        /\ p.cs + Team(p) - p.paid <= tok[i] /\ tok[i] <= p.supply

\* What the contract holds covers what it owes, in XEL and in every asset.
Solvency == XelSolvency /\ TokenSolvency

\* I8: in every state of an open curve, distrusted, in a window or paused, a
\* sell worth at least a unit after its fee is accepted while the counters
\* have room.
SellsOpen ==
  \A i \in Ids : Proposed(i) /\ proj[i].ah /\ ~proj[i].mi =>
    \A dep \in 1..TokOutside(i) :
      LET p == proj[i]  gross == SellOut(p, dep)
      IN  /\ SellQuote(p, dep) >= 1
          /\ Checked(books.pfe + gross - SellQuote(p, dep))
          /\ RecordChecked(p.sv, books.tsv, p.vo, p.tc, gross)
          => SellAccepted(i, dep) /\ gross < p.rv

\* D15: once a project has graduated, nothing short of a missing pin keeps it
\* from migrating; no mix of trades, claims and votes empties a side.
MigrationReady ==
  \A i \in Ids : Proposed(i) /\ proj[i].gr /\ ~proj[i].mi /\ config.dex # None =>
    MigrateAccepted(i)

\* The ways out of a curve: a holder's sell, and the move to the DEX.
ExitsOpen == SellsOpen /\ MigrationReady

\* I5: the tallies of the round count the wallets that voted in it, each once,
\* and no slot of a round to come is taken.
OneVotePerRound ==
  \A i \in Ids : Proposed(i) =>
    /\ proj[i].sp + proj[i].rp
         = Cardinality({w \in Wallets : vote[i][proj[i].rd][w] # None})
    /\ \A r \in Rounds, w \in Wallets : vote[i][r][w] # None => r <= proj[i].rd

\* I6: a project changes status only along its lifecycle, on the ground the
\* lifecycle names.  A rejection is final; graduation is never lost; nobody
\* leaves a voting window before its deadline.
StatusPaths ==
  [][\A i \in Ids : Proposed(i) =>
       LET p == proj[i]  q == proj'[i]
       IN  /\ q # None /\ (p.gr => q.gr) /\ (p.mi => q.mi)
           /\ q.status # p.status =>
                \/ /\ p.status = VALIDATION /\ topo >= p.ve
                   /\ \/ q.status = REJECTED /\ ~q.ah
                      \/ q.status = (IF p.dl THEN GRADUATED ELSE BONDING) /\ q.ah
                \/ p.status = BONDING /\ q.status = GRADUATED /\ q.bv > p.bv
                \/ /\ p.status \in Buying /\ q.status = UNTRUSTED
                   /\ 2 * q.rp > q.sp + q.rp
                \/ p.status = UNTRUSTED /\ q.status = RECOVERY /\ q.rd > p.rd
                \/ /\ p.status = RECOVERY /\ topo >= p.ve
                   /\ \/ q.status = UNTRUSTED
                      \/ /\ q.status = (IF p.gr THEN TRUSTED ELSE BONDING)
                         /\ p.gr => Reaches(p.sp, p, params.recPart, params.recRatio)
           /\ q.gr # p.gr => q.status = GRADUATED]_vars

\* D4: no vote leaves a project open to buys on tallies that distrust it, and
\* no window lets one out on them.
TrustLossNotMissed ==
  [][\A i \in Ids : Proposed(i) =>
       LET p == proj[i]  q == proj'[i]
       IN  /\ <<p.sp, p.rp>> # <<q.sp, q.rp>> \/ (p.status \in Voting /\ q.status # p.status)
           /\ q.status \in Buying
           => ~Distrusted(q)]_vars

\* D9, I9: a buy never leaves a bonding project beyond its threshold;
\* graduation takes the fee once, and the cap at graduation is written there.
GraduationOnce ==
  [][\A i \in Ids : Proposed(i) =>
       LET p == proj[i]  q == proj'[i]
       IN  /\ p.tc < q.tc /\ q.bv > p.bv /\ q.status = BONDING =>
                q.rv < q.lq * params.mult
           /\ q.gr # p.gr =>
                LET dep == q.bv - p.bv
                    grown == p.rv + dep - FeeTake(dep, params.tradeFee)
                IN  /\ q.rv = grown - FeeTake(grown, params.migFee)
                    /\ q.mg = q.mc
                    /\ p.status = BONDING => grown >= p.lq * params.mult
           /\ q.gr = p.gr => q.mg = p.mg]_vars

\* A project lives through its votes, windows and graduation as its status says.
Lifecycle == [][OneVotePerRound']_vars /\ StatusPaths /\ TrustLossNotMissed /\ GraduationOnce

\* I4, D3, D10: team tokens leave the escrow only as far as they have
\* unlocked: along the stream once one runs, after the delay when the project
\* never graduated; a declared plan binds at graduation, and a stream is
\* never replaced.
VestingKept ==
  [][\A i \in Ids : Proposed(i) =>
       LET p == proj[i]  q == proj'[i]
       IN  /\ p.vs > 0 => <<q.vs, q.vd>> = <<p.vs, p.vd>>
           /\ q.paid > p.paid =>
                /\ p.vs > 0 => q.paid * p.vd <= Team(p) * (topo - p.vs)
                /\ p.gr /\ p.plan > 0 => p.vs > 0 /\ p.vd = p.plan
                /\ ~p.gr /\ p.vs = 0 => p.bt > 0 /\ topo >= p.bt + Low.delay]_vars

\* Every voting window is decided, under blocks and finalizers that keep
\* coming: even one whose asset costs more than was earmarked.
WindowCloses(i) == (Proposed(i) /\ proj[i].status \in Voting)
                     ~> (Proposed(i) /\ proj[i].status \notin Voting)
WindowsClose == \A i \in Ids : WindowCloses(i)
=============================================================================

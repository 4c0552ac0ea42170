----------------------------- MODULE SdkLaunchpad -----------------------------
(***************************************************************************)
(* sdk/xvault/xvault/launchpad.py and the launchpad commands of cli.py: a  *)
(* creator's terminal next to VaultLaunch.                                 *)
(*                                                                         *)
(* Like the DEX client, the reader asks for one slot at a time, and calls  *)
(* of other wallets fall between any two of them and before the inclusion  *)
(* of what a command sends.  Slots that never change once written (supply, *)
(* team share, plan) are read when they are needed.                        *)
(***************************************************************************)
EXTENDS VaultLaunch

CONSTANTS Me,      \* the terminal's wallet
          Seeds,   \* seed liquidities its user asks for
          PRICE_SCALE   \* a token's decimals, 10^8

VARIABLES
  term,   \* the command that runs: its arguments, and the slots read so far
  call    \* the transaction it has broadcast, Nothing before and after
-----------------------------------------------------------------------------
(* The formulas of launchpad.py.                                           *)

fee_take(amount, bps) == (amount * bps) \div BPS_DENOM
buy_tokens_out(reserves, curve, net) == (curve * net) \div (reserves + net)
sell_xel_out(reserves, curve, tokens) == (reserves * tokens) \div (curve + tokens)
team_alloc_of(supply, bps) == (supply * bps) \div BPS_DENOM
current_fee_bps(graduated, bonding, grad) ==
  IF graduated THEN Least(grad, bonding) ELSE bonding

team_unlocked_grad_(alloc, gr, vs, vd, status, bt, delay, now) ==
  IF gr THEN alloc ELSE IF vs > 0 /\ vd > 0 THEN Least((alloc * Floor0(now - vs)) \div vd, alloc)
                        ELSE IF bt > 0 /\ now >= bt + delay THEN alloc ELSE 0
team_unlocked(alloc, gr, vs, vd, status, bt, delay, now) ==
  LET stream == IF vd = 0 THEN alloc
                ELSE IF now <= vs THEN 0 ELSE Least((alloc * (now - vs)) \div vd, alloc)
      late == /\ status \in {BONDING, UNTRUSTED, RECOVERY}
              /\ bt > 0 /\ now >= bt + delay
  IN  IF vs > 0 THEN stream ELSE IF gr \/ late THEN alloc ELSE 0
team_remaining(alloc, paid) == Floor0(alloc - paid)

buy_quote(reserves, curve, amount, bps) ==
  buy_tokens_out(reserves, curve, amount - fee_take(amount, bps))
sell_quote(reserves, curve, tokens, bps) ==
  LET gross == sell_xel_out(reserves, curve, tokens) IN gross - fee_take(gross, bps)

current_price(reserves, curve) ==
  IF curve = 0 THEN 0 ELSE Least((reserves * PRICE_SCALE) \div curve, U64_MAX)

market_cap(reserves, curve, supply, bps, paid) ==
  LET circulating == supply - curve - team_remaining(team_alloc_of(supply, bps), paid)
  IN  IF curve = 0 \/ circulating <= 0 THEN 0
      ELSE Least(U64_MAX, (reserves * circulating) \div curve)

propose_deposits(fee, budget, liquidity) == fee + budget + liquidity
-----------------------------------------------------------------------------
(* What LaunchpadReader reads, one RPC each, in its order.                 *)

Panel == <<"topo", "status", "gr", "bt", "paid", "vs", "vd", "delay">>
\* mutant: the high is read before the cap
CapLast_ == <<"rv", "cs", "mh", "mc">>
Card == <<"rv", "cs", "mc", "mh">>
Reads(cmd) ==
  [team |-> Panel,
   project |-> Card,
   migrate |-> <<"rv", "cs", "gr", "mi", "dex">>,
   sync |-> <<"status", "dsy", "mi">>,
   deposit |-> <<>>,
   propose |-> <<"subFee", "budget", "minLiq", "vestMin", "vestMax">>][cmd]

Read(i, f) ==
  CASE f = "topo" -> topo
    [] f = "dex" -> config.dex
    [] f \in Names -> params[f]
    [] OTHER -> proj[i][f]

Got(f) == term.got[CHOOSE n \in DOMAIN term.got : Reads(term.cmd)[n] = f]

Allocation(i) == team_alloc_of(proj[i].supply, proj[i].bps)
\* the claimable line of team_allocation
claimable_now ==
  Floor0(team_unlocked(Allocation(term.i), Got("gr"), Got("vs"), Got("vd"),
                       Got("status"), Got("bt"), Got("delay"), Got("topo")) - Got("paid"))

\* what the card shows of the curve
quotes == [price |-> current_price(Got("rv"), Got("cs"))]
market_cap_history == [current |-> Got("mc"), all_time_high |-> Got("mh")]

NoArgs == [sym |-> None, supply |-> 0, bps |-> 0, plan |-> 0, liq |-> 0, round |-> 0]
Nothing == [cmd |-> "none", i |-> 0, args |-> NoArgs, dep |-> 0, cfg |-> None]
Shell == [cmd |-> "none", i |-> 0, args |-> NoArgs, got |-> <<>>, owed |-> 0, gr |-> FALSE,
          prices |-> {}]
AtRest == term = Shell /\ call = Nothing

SdkInit == term = Shell /\ call = Nothing
Keep == UNCHANGED vars
-----------------------------------------------------------------------------
\* cmd_launchpad_project, _team, _migrate, _sync and _claim_deposit: the project
\* exists.
Owed(i) == Floor0(TeamUnlocked(proj[i], topo) - proj[i].paid)
StartOn(i) ==
  /\ AtRest /\ Proposed(i)
  /\ \E cmd \in {"project", "team", "migrate", "sync", "deposit"}, r \in Rounds :
       /\ cmd # "deposit" => r = 0
       /\ term' = [cmd |-> cmd, i |-> i, args |-> [NoArgs EXCEPT !.round = r],
                   got |-> <<>>, owed |-> Owed(i), gr |-> proj[i].gr, prices |-> {}]
  /\ Keep /\ UNCHANGED call

\* cmd_launchpad_propose, its arguments within the limits it checks itself
StartPropose ==
  /\ AtRest
  /\ \E sym \in Symbols, supply \in Supplies, bps \in TeamBpsArgs,
        plan \in Plans \cup {0}, liq \in Seeds :
       /\ supply >= MIN_TOTAL_SUPPLY /\ supply <= MAX_TOTAL_SUPPLY /\ bps <= MAX_TEAM_BPS
       /\ term' = [Shell EXCEPT !.cmd = "propose",
                     !.args = [sym |-> sym, supply |-> supply, bps |-> bps, plan |-> plan,
                               liq |-> liq, round |-> 0]]
  /\ Keep /\ UNCHANGED call

\* the price when a slot of it is read
PriceNow(i) == current_price(proj[i].rv, proj[i].cs)

Unread == Len(term.got) < Len(Reads(term.cmd))
ReadSlot ==
  /\ term # Shell /\ Unread
  /\ LET slot == Reads(term.cmd)[Len(term.got) + 1]
         quoted == term.cmd = "project" /\ slot \in {"rv", "cs"}
     IN  term' = [term EXCEPT !.got = Append(@, Read(term.i, slot)),
                              !.prices = IF quoted THEN @ \cup {PriceNow(term.i)} ELSE @]
  /\ Keep /\ UNCHANGED call

\* the checks a command makes on what it has read
MigratePasses_ == ~Got("mi") /\ Got("dex") # None
MigratePasses == Got("gr") /\ ~Got("mi") /\ Got("dex") # None
SyncPasses == Got("mi") /\ Got("dsy") # (Got("status") = UNTRUSTED)
ProposePasses ==
  /\ term.args.liq >= Got("minLiq")
  /\ term.args.plan = 0 \/ (Got("vestMin") <= term.args.plan /\ term.args.plan <= Got("vestMax"))
Passes ==
  /\ ~Unread
  /\ \/ term.cmd = "deposit"
     \/ term.cmd = "migrate" /\ MigratePasses
     \/ term.cmd = "sync" /\ SyncPasses
     \/ term.cmd = "propose" /\ ProposePasses

\* the command is over, or goes on to WalletClient.invoke
Send ==
  /\ term # Shell /\ Passes
  /\ call' = [cmd |-> term.cmd, i |-> term.i, args |-> term.args,
              dep |-> IF term.cmd = "propose"
                      THEN propose_deposits(Got("subFee"), Got("budget"), term.args.liq) ELSE 0,
              cfg |-> IF term.cmd = "propose" THEN term.got ELSE None]
  /\ term' = Shell
  /\ Keep
Quit ==
  /\ term # Shell /\ ~Unread /\ ~Passes
  /\ term' = Shell
  /\ Keep /\ UNCHANGED call

\* the chain takes the call, or reverts it
Proposal == call.args
Accepted ==
  CASE call.cmd = "migrate" -> MigrateAccepted(call.i)
    [] call.cmd = "sync" -> SyncAccepted(call.i)
    [] call.cmd = "deposit" -> DepositAccepted(Me, call.i, call.args.round)
    [] call.cmd = "propose" ->
         ProposeAccepted(Proposal.sym, Proposal.supply, Proposal.bps, Proposal.plan, call.dep)
Landed ==
  \/ call.cmd = "migrate" /\ Migrate(call.i)
  \/ call.cmd = "sync" /\ SyncTrustToDex(call.i)
  \/ call.cmd = "deposit" /\ ClaimVoteDeposit(Me, call.i, call.args.round)
  \/ /\ call.cmd = "propose"
     /\ \E info \in Infos : Propose(Me, Proposal.sym, info, Proposal.supply, Proposal.bps,
                                    Proposal.plan, call.dep)
Include ==
  /\ call # Nothing
  /\ IF Accepted THEN Landed ELSE Keep
  /\ call' = Nothing
  /\ UNCHANGED term

Terminal == (\E i \in Ids : StartOn(i)) \/ StartPropose \/ ReadSlot \/ Send \/ Quit \/ Include
-----------------------------------------------------------------------------
(* What the client is for.                                                 *)

\* launchpad.py:81, "the contract's exact integer formulas": in every state of
\* a project the fee, the quotes, the unlocked team tokens at every height and
\* the market cap are what the contract computes and stores, and the stored cap
\* never passes its high.
MirrorExact ==
  \A i \in Ids : Proposed(i) =>
    LET p == proj[i]
        bps == current_fee_bps(p.gr, params.tradeFee, params.gradFee)
    IN  /\ bps = TradingFee(p)
        /\ p.rv > 0 => \A d \in Deposits \ {0} :
             buy_quote(p.rv, p.cs, d, bps) = BuyOut(p, d - FeeTake(d, TradingFee(p)))
        /\ p.cs > 0 => \A d \in Sales : sell_quote(p.rv, p.cs, d, bps) = SellQuote(p, d)
        /\ \A now \in 0..MAX_TOPO :
             team_unlocked(Allocation(i), p.gr, p.vs, p.vd, p.status, p.bt,
                           params.delay, now) = TeamUnlocked(p, now)
        /\ market_cap(p.rv, p.cs, p.supply, p.bps, p.paid) = p.mc
        /\ p.mc = CapView(p) /\ p.mc <= p.mh

\* The team panel, read while votes and trades go on, shows what the creator
\* could claim at some height since it was asked for, unless the project has
\* graduated under a declared plan in the meantime.
PanelTrue ==
  term.cmd = "team" /\ ~Unread =>
    \/ proj[term.i].gr /\ ~term.gr /\ proj[term.i].plan > 0
    \/ term.owed <= claimable_now /\ claimable_now <= Owed(term.i)

\* The card of a project, read the same way: the price it shows lies between the
\* prices when one and when the other reserve was read, a trade or a migration
\* in between (with more trades, up to their rounding), and the market cap it
\* shows is not above the high it shows.
CardTrue ==
  term.cmd = "project" /\ ~Unread =>
    /\ \E p, q \in term.prices : p <= quotes.price /\ quotes.price <= q
    /\ market_cap_history.current <= market_cap_history.all_time_high

\* What a command checks before it sends is what the contract asks for: a
\* migration or a trust sync lands or has been made by someone else, and a
\* proposal lands while the launchpad is open, its ticker is free, the wallet
\* holds the deposit, no parameter it read has moved and the seed is not above
\* the contract's cap, which the command does not check.
CheckedLands ==
  /\ call.cmd = "migrate" => Accepted \/ proj[call.i].mi
  /\ call.cmd = "sync" => Accepted \/ proj[call.i].dsy = SyncFlag(proj[call.i])
  /\ /\ call.cmd = "propose"
     /\ call.cfg = [n \in DOMAIN call.cfg |-> Read(0, Reads("propose")[n])]
     /\ ~config.paused /\ ticker[Proposal.sym] = None /\ count < MAX_PROJECTS
     /\ call.dep <= XelOutside /\ Proposal.liq <= MAX_LIQUIDITY
     /\ WithinHorizon(params.duration)
     => Accepted /\ SeedOf(call.dep) = Proposal.liq

\* A creator at a terminal is told and sends the truth.
ClientTrue == MirrorExact /\ PanelTrue /\ CardTrue /\ CheckedLands
=============================================================================

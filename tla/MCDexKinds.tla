------------------------------ MODULE MCDexKinds ------------------------------
(***************************************************************************)
(* Kinds of behaviours of LaunchDEX, each followed to its end:             *)
(*   "one"     one pool, two providers and their trades;                   *)
(*   "two"     two pools over one balance, with stray deposits;            *)
(*   "govern"  a small pool under its administration;                      *)
(*   "client"  the seed's holder at the SDK's terminal while others trade.        *)
(***************************************************************************)
EXTENDS MCLaunchDEX, SdkDex

VARIABLE kind

mcVars == <<kind, vars, term, call>>

Kinds == {"one", "two", "govern", "client"}
PoolsOf(k) == IF k = "two" THEN Assets ELSE {t1}
Providers(k) == CASE k = "two" -> {u1} [] k = "client" -> {} [] OTHER -> Wallets
Trades(k) == CASE k = "one" -> MaxTrades [] k = "client" -> 2 [] OTHER -> 1
SeedsOf(k) == IF k = "client" THEN {[x |-> 2, y |-> 2], [x |-> 4, y |-> 4]} ELSE Pairs
-----------------------------------------------------------------------------
MCCreate(a) == \E seed \in SeedsOf(kind) : \/ \E u \in Wallets : CreatePool(u, a, seed)
                                           \/ kind # "client" /\ CreatePoolOpen(a, seed)
MCTrade(a) == score[a].tc < Trades(kind) /\ Trade(a)
MCCollect(a) == kind # "client" /\ \E u \in Wallets, amt \in Pairs : WithdrawFees(u, a, amt)
MCPause(a) ==
  kind = "govern" /\ \E u \in Wallets, flag \in FlagArgs : SetPoolBuysPaused(u, a, flag)
MCGovern == kind = "govern" /\ \E u \in Wallets : Govern(u)
MCPin == kind # "govern" /\ SetLaunchpad(u1, u1)
MCStray == kind = "two" /\ \E c \in Coins, d \in StrayArgs : StrayDeposit(c, d)
MCJoin == kind = "client" /\ AtRest /\ \E in \in SeedsOf(kind) : AddLiquidity(Me, t1, in)

Contract(A) == A /\ UNCHANGED <<kind, term, call>>
Client(A) == kind = "client" /\ A /\ UNCHANGED kind

MCNext ==
  \/ \E a \in PoolsOf(kind) : \/ Contract(MCCreate(a)) \/ Contract(MCTrade(a))
                              \/ Contract(MCCollect(a)) \/ Contract(MCPause(a))
  \/ \E a \in PoolsOf(kind), u \in Providers(kind) : Contract(Provide(u, a))
  \/ Contract(MCPin) \/ Contract(MCGovern) \/ Contract(MCStray) \/ Contract(MCJoin)
  \/ Client(Terminal)

MCInit == Init /\ SdkInit /\ config.admin = u1 /\ kind \in Kinds

\* Every behaviour of MCSpec is a behaviour of Spec.
MCSpec == MCInit /\ [][MCNext]_mcVars

\* Where the balances of the wider kinds stay small.
InReach == /\ kind = "two" => bal[XEL] <= 8 /\ \A a \in Assets : bal[a] <= 6
           /\ kind = "govern" => bal[XEL] <= 6 /\ bal[t1] <= 6
=============================================================================

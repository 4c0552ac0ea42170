---------------------------- MODULE MCVaultKinds ----------------------------
(***************************************************************************)
(* Kinds of behaviours of VaultLaunch, each followed to its end:           *)
(*   "curve"   one project, its three voters and its trades, from the      *)
(*             opening to the migration, trusted or not;                   *)
(*   "votes"   every ballot of a validation, a distrust and a recovery     *)
(*             while the admin moves the quorum and the asset costs more   *)
(*             than its budget;                                            *)
(*   "team"    the team's unlock paths against the height;                 *)
(*   "two"     two projects over one balance, with stray deposits;         *)
(*   "govern"  one proposal under the administration, a parameter or a     *)
(*             slot moved at a time;                                       *)
(*   "client"  a creator at the SDK's terminal while others vote and trade;*)
(*   "pool"    a project that loses and regains its trust around its       *)
(*             migration, while its pool is traded or was opened by others.*)
(* Each bounds the number of projects, trades and blocks its own way.      *)
(***************************************************************************)
EXTENDS MCVaultLaunch, SdkLaunchpad, VaultPools

VARIABLE kind

mcVars == <<kind, vars, term, call, pools>>

Kinds == {"curve", "votes", "team", "two", "govern", "client", "pool"}
ProjectsOf(k) == IF k = "two" THEN 2 ELSE 1
Electors(k) == IF k \in {"curve", "votes", "client", "pool"} THEN Wallets ELSE {u1}
Shares(k) == IF k = "votes" THEN {1} ELSE TeamBpsArgs \ {1}
Tokenomics(k) == IF k = "team" THEN Plans \cup {0} ELSE {0}
AssetCost(k) == IF k = "votes" THEN 2 ELSE 1
Blocks(k) == [curve |-> 3, votes |-> 3, team |-> MAX_TOPO, two |-> 2, govern |-> 2,
              client |-> 3, pool |-> 3][k]
Trades(k) == [curve |-> MaxTrades, votes |-> 0, team |-> 1, two |-> 1, govern |-> 1,
              client |-> 0, pool |-> 0][k]

\* A curve trades less once it is reported.
TradesLeft(i) ==
  /\ Proposed(i)
  /\ books.ttc < (IF proj[i].rd = 0 /\ proj[i].rp = 0 THEN Trades(kind) ELSE 1)

\* The others vote once u1's vote has opened the curve; u2 is the first of them.
Voted(u, i) == vote[i][proj[i].rd][u] # None
Orderly(u, i) == /\ kind = "two" => count = 2
                 /\ Proposed(i) /\ proj[i].status = VALIDATION => u = u1
                 /\ Proposed(i) /\ u = u3 => Voted(u2, i)
\* Next to the terminal, u2 then u3 report an open curve, u1 then u2 recover it.
AsTold(u, i, for) ==
  CASE proj[i].status = VALIDATION -> (for /\ u = u1)
    [] proj[i].status = RECOVERY -> (for /\ (u = u1 \/ (u = u2 /\ Voted(u1, i))))
    [] OTHER -> (~for /\ u # u1)
Says(u, i, for) == kind \in {"client", "pool"} /\ Proposed(i) => AsTold(u, i, for)
MCVote(u, i) ==
  \E dep \in Deposits :
    /\ kind # "votes" => dep = params.voteDep /\ Orderly(u, i)
    /\ \/ Says(u, i, TRUE) /\ Support(u, i, dep)
       \/ Says(u, i, FALSE) /\ Report(u, i, dep)
MCClaim(u, i) == \E r \in Rounds : kind \notin {"curve", "client", "pool"} /\ ClaimVoteDeposit(u, i, r)
MCTrade(i) == \/ kind = "votes" /\ books.ttc = 0 /\ \E dep \in Deposits : Buy(i, dep)
              \/ kind = "client" /\ books.ttc = 0 /\ Buy(i, 4)
              \/ kind = "pool" /\ books.ttc <= 1 /\ (Buy(i, 4) \/ Sell(i, 1))
              \/ TradesLeft(i) /\ Trade(i)
TopUps(k) == IF k = "client" THEN {0} ELSE Deposits
MCClose(i) == \E topup \in TopUps(kind) : FinalizeValidation(i, topup, AssetCost(kind))

\* A ballot's windows end before its blocks do.
InTime == topo + params.duration <= Blocks(kind)

MCPropose ==
  \E sym \in Symbols, info \in Infos, supply \in Supplies, bps \in Shares(kind),
     plan \in Tokenomics(kind), dep \in Deposits :
    /\ kind = "votes" => config.dex # None /\ InTime
    /\ kind # "client" /\ count < ProjectsOf(kind) /\ (sym = s1 <=> count = 0)
    /\ Propose(u1, sym, info, supply, bps, plan, dep)

\* The terminal's wallet signs one transaction at a time.
MCFound(i) ==
  /\ kind = "client" => AtRest
  /\ kind = "votes" => InTime
  /\ IF kind = "pool" THEN RequestRevalidation(u1, i, 1) \/ ClaimTeamAllocation(u1, i)
                      ELSE Found(u1, i)

\* What the admin does, by kind.
MCGovern == \/ kind = "govern" /\ \E u \in Wallets : Tune(u) \/ Govern(u)
            \/ kind = "votes" /\ \E n \in {0, 1, 3, 4} : SetMinParticipants(u1, n)
MCCollect == /\ kind # "govern"
             /\ \/ SetDexAddress(u1, d1)
                \/ kind \notin {"votes", "client", "pool"} /\ \E n \in Deposits : WithdrawFees(u1, n)
MCStray == /\ kind = "two"
           /\ \E n \in StrayArgs : StrayXel(n) \/ \E i \in Ids : StrayTokens(i, n)
\* A block falls into the commands whose slots or calls depend on the height.
MCTick == /\ topo < Blocks(kind)
          /\ kind = "client" => term.cmd \notin {"project", "migrate", "sync"}
          /\ Tick

Contract(A) == (IF kind = "pool" THEN OnCurves(A) ELSE A /\ UNCHANGED pools)
               /\ UNCHANGED <<kind, term, call>>
\* A proposal declares a plan or brings enough for a direct listing, and the
\* last block is for claiming the deposits of the latest round.
Asked(t) ==
  /\ t.cmd = "propose" => /\ config.dex # None /\ t.args.sym = s1 /\ t.args.bps = 2
                          /\ (t.args.plan = 0) = (t.args.liq = 4)
  /\ t.cmd = "deposit" => topo = Blocks(kind) /\ t.args.round = proj[t.i].rd
Client(A) == kind = "client" /\ A /\ Asked(term') /\ UNCHANGED <<kind, pools>>

\* The pool's side: the pin of the launchpad's wallet, a pool somebody opens
\* with two XEL, two trades and one provider.
MCDex ==
  \/ dex.lpx = None /\ D!SetLaunchpad(u1, u2)
  \/ \E flag \in FlagArgs : D!SetPaused(u1, flag)
  \/ D!CreatePoolOpen(0, [x |-> 2, y |-> 1])
  \/ score[0].tc < 2 /\ D!Trade(0)
  \/ score[0].tc > 0 /\ D!Provide(u3, 0)
MCPool == /\ kind = "pool"
          /\ OnPools(MCDex) \/ \E u \in Wallets : Joint(u, 0)
          /\ UNCHANGED <<kind, term, call>>

MCNext ==
  \/ Contract(MCPropose) \/ Contract(MCGovern) \/ Contract(MCCollect)
  \/ Contract(MCStray) \/ Contract(MCTick)
  \/ \E u \in Electors(kind), i \in Ids : Contract(MCVote(u, i)) \/ Contract(MCClaim(u, i))
  \/ \E i \in Ids : \/ Contract(MCClose(i)) \/ Contract(MCFound(i)) \/ Contract(MCTrade(i))
                    \/ kind # "pool" /\ (Contract(Migrate(i)) \/ Contract(SyncTrustToDex(i)))
  \/ Client(Terminal)
  \/ MCPool

MCInit == PoolsInit /\ SdkInit /\ config.admin = u1 /\ dex.admin = u1 /\ kind \in Kinds

\* Every behaviour of MCSpec is a behaviour of Spec, and of FairSpec where the
\* votes are.
MCFairness ==
  /\ WF_mcVars(kind = "votes" /\ Contract(MCTick))
  /\ WF_mcVars(kind = "votes" /\ Contract(MCClose(0)))
MCSpec == MCInit /\ [][MCNext]_mcVars /\ MCFairness

\* Every window of the one project the ballots are about is decided.
VotesClose == kind = "votes" => WindowCloses(0)

\* Where the DEX is part of the behaviour, the two contracts agree.
PoolsAgree == kind = "pool" => PoolsSound

\* Strays come with two projects only, and there the balance is small.
InReach ==
  /\ kind = "two" => xel <= 9
  /\ kind \in {"curve", "team", "govern"} => xel <= Committed + books.pfe
  /\ Cardinality({f \in Names : params[f] # Defaults[f]}) <= 1
=============================================================================

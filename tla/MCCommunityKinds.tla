--------------------------- MODULE MCCommunityKinds ---------------------------
(***************************************************************************)
(* Three kinds of behaviours of CommunityLaunch, each followed to its end: *)
(*   "one"     one coin through its life, traded in every order;           *)
(*   "two"     two coins over one balance, with stray deposits;            *)
(*   "govern"  one coin under the administration, a parameter or a slot    *)
(*             moved at a time.                                            *)
(***************************************************************************)
EXTENDS MCCommunityLaunch, SdkCommunity

VARIABLE kind

Kinds == {"one", "two", "govern"}
CoinsOf(k) == IF k = "two" THEN 2 ELSE 1
SuppliesOf(k) == IF k = "one" THEN Supplies ELSE {8}
Allocations(k) == IF k = "one" THEN CreatorBpsArgs ELSE {1}
Trades(k) == [one |-> MaxTrades, two |-> 2, govern |-> 2][k]

MCLaunch ==
  \E sym \in Symbols, supply \in SuppliesOf(kind), bps \in Allocations(kind),
     dep \in Deposits, cost \in AssetCosts :
    /\ count < CoinsOf(kind) /\ (sym = s1 <=> count = 0)
    /\ LaunchCoin(u1, sym, i1, supply, bps, dep, cost)
MCTrade(i) == books.ttc < Trades(kind) /\ Trade(i)
MCUpdate(i) == kind = "govern" /\ \E info \in Infos : UpdateCoinInfo(u1, i, info)

MCGovern == kind = "govern" /\ \E u \in Wallets : Govern(u)
MCCollect == /\ kind # "govern"
             /\ SetDexAddress(u1, d1) \/ \E n \in Deposits : WithdrawFees(u1, n)
MCStray == /\ kind = "two"
           /\ \E n \in StrayArgs : StrayXel(n) \/ \E i \in Ids : StrayTokens(i, n)

MCNext ==
  \/ MCLaunch /\ UNCHANGED kind
  \/ \E i \in Ids : \/ MCTrade(i) /\ UNCHANGED kind
                    \/ Migrate(i) /\ UNCHANGED kind
                    \/ ClaimCreatorAllocation(u1, i) /\ UNCHANGED kind
                    \/ MCUpdate(i) /\ UNCHANGED kind
  \/ MCGovern /\ UNCHANGED kind
  \/ MCCollect /\ UNCHANGED kind
  \/ MCStray /\ UNCHANGED kind

MCInit == Init /\ config.admin = u1 /\ kind \in Kinds

\* Every behaviour of MCSpec is a behaviour of Spec.
MCSpec == MCInit /\ [][MCNext]_<<vars, kind>>

\* Where the balance stays small and one parameter at most is moved.
InReach == /\ kind = "two" => xel <= 8
           /\ kind = "govern" => xel <= 7
           /\ Cardinality({f \in DOMAIN params : params[f] # Defaults[f]}) <= 1
=============================================================================

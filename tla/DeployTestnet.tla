---------------------------- MODULE DeployTestnet ----------------------------
(***************************************************************************)
(* The testnet deployment (legacy/deploy/deploy_testnet.py): one process   *)
(* that deploys every contract, creates the two assets, wires and          *)
(* registers what it deployed, opens the first feed, hands out the VLT,    *)
(* fills the faucet, verifies and writes deployment.json.  It keeps no     *)
(* state file: a failed deployment ends it, a failed call is a warning,    *)
(* and another run starts with contracts of its own.  Contract entries are *)
(* modelled by what the script means to call.                              *)
(***************************************************************************)
EXTENDS Integers, Sequences, FiniteSets, SequencesExt, Folds

CONSTANTS
  InRun,       \* contracts of CONTRACTS_IN_ORDER that are looked at
  MaxRuns,     \* bound: how often the script is started
  MaxTroubles  \* bound: calls that fail or whose answer is lost

VARIABLES
  run,       \* number of the process that runs, or ran last
  step,      \* its place in the program; 0 when it is not running
  onChain,   \* settings in force on the contracts of this run: <<on, fn, arg>>
  shares,    \* VLT this run's token has minted, by recipient
  supply,    \* and in all
  assets,    \* asset hashes the process holds
  warned,    \* it logged a warning or an error
  said,      \* what the verification said of the supply
  saved,     \* file: the run whose contracts deployment.json names, 0 if none
  troubles

vlt == <<shares, supply>>
testnetVars == <<run, step, onChain, vlt, assets, warned, said, saved, troubles>>

\* deployment order; Asset("VLT") stands for create_asset and the reading of its hash
InOrder ==
  <<"ContractRegistry", "VLTToken", "XelisVaultMiner", "StakedOracle", "xUSD", "VaultEngine",
    "PSM", "VaultSwap", "GovernanceVault", "Governor", "Timelock", "GuardianMultisig",
    "OracleGovernance", "FlashLoan", "FlashCallback", "SealedBidAuction", "PrivacyMixer",
    "VaultChat", "SavingsRate", "InsurancePool", "PrivateInsurance", "InterestRateModel",
    "LendingMarket", "PeerLoan", "SyndicatePool", "RevenueShare", "FaucetContract",
    "TreasuryVault", "Payroll", "AssetVault", "ComplianceModule", "MinerPool",
    "FounderVesting", "FeeDistributor">>

\* VLT_ALLOCATION and the faucet's VLT, in units of 50,000 VLT
VLT_ALLOCATION ==
  [oracle_rewards |-> 120, team |-> 30, treasury |-> 24, dex_liquidity |-> 20,
   airdrop |-> 4, bug_bounty |-> 2]
Recipients == <<"oracle_rewards", "team", "treasury", "dex_liquidity", "airdrop", "bug_bounty">>
FAUCET_VLT == 1
MAX_SUPPLY == 200
Allocated == FoldFunction(+, 0, VLT_ALLOCATION)
NoShares == [to \in DOMAIN VLT_ALLOCATION \cup {"faucet"} |-> 0]

Call(on, fn, a) == [op |-> "call", on |-> on, fn |-> fn, arg |-> a]
\* one that an option leaves out
Option(o, on, fn, a) == [op |-> o, on |-> on, fn |-> fn, arg |-> a]
Calls(on, pairs) == [i \in 1..Len(pairs) |-> Call(on, pairs[i][1], pairs[i][2])]

Wiring ==
  <<Call("ContractRegistry", "register", "ContractRegistry"),
    Call("VLTToken", "set_registry", "ContractRegistry")>> \o
  Calls("XelisVaultMiner",
    <<<<"set_vlt_contract", "VLTToken">>, <<"set_vlt_asset", "VLT">>, <<"set_treasury", "treasury">>,
      <<"set_registry", "ContractRegistry">>, <<"set_timelock", "Timelock">>,
      <<"set_guardian", "GuardianMultisig">>, <<"set_emergency", "GuardianMultisig">>,
      <<"register_service", "StakedOracle">>, <<"register_service", "VaultChat">>>>) \o
  Calls("StakedOracle",
    <<<<"set_miner_contract", "XelisVaultMiner">>, <<"set_registry", "ContractRegistry">>,
      <<"set_timelock", "Timelock">>, <<"set_guardian", "GuardianMultisig">>,
      <<"set_emergency", "GuardianMultisig">>>>) \o
  Calls("VLTToken", <<<<"set_minter", "StakedOracle">>, <<"set_minter", "XelisVaultMiner">>>>) \o
  Calls("xUSD",
    <<<<"set_minter", "VaultEngine">>, <<"set_burner", "VaultEngine">>, <<"set_minter", "PSM">>,
      <<"set_burner", "PSM">>, <<"set_minter", "VaultSwap">>, <<"set_burner", "VaultSwap">>>>) \o
  Calls("VaultEngine",
    <<<<"set_registry", "ContractRegistry">>, <<"set_treasury", "treasury">>,
      <<"set_xusd_contract", "xUSD">>, <<"set_xusd_asset", "xUSD_asset">>, <<"set_oracle", "StakedOracle">>>>) \o
  Calls("PSM",
    <<<<"set_xusd_contract", "xUSD">>, <<"set_xusd_asset", "xUSD_asset">>, <<"set_oracle", "StakedOracle">>,
      <<"set_treasury", "treasury">>, <<"set_registry", "ContractRegistry">>>>) \o
  Calls("VaultSwap",
    <<<<"set_registry", "ContractRegistry">>, <<"set_treasury", "treasury">>,
      <<"set_xusd_asset", "xUSD_asset">>, <<"set_xusd_contract", "xUSD">>, <<"set_oracle", "StakedOracle">>>>) \o
  Calls("GovernanceVault",
    <<<<"set_vlt_contract", "VLTToken">>, <<"set_vlt_asset", "VLT">>, <<"set_registry", "ContractRegistry">>,
      <<"set_timelock", "Timelock">>, <<"set_governor", "Governor">>>>) \o
  Calls("Governor",
    <<<<"set_governance_vault", "GovernanceVault">>, <<"set_timelock", "Timelock">>,
      <<"set_guardian", "GuardianMultisig">>, <<"set_registry", "ContractRegistry">>>>) \o
  Calls("Timelock",
    <<<<"set_guardian_contract", "GuardianMultisig">>, <<"set_governor", "Governor">>,
      <<"set_registry", "ContractRegistry">>>>) \o
  Calls("GuardianMultisig", <<<<"set_timelock", "Timelock">>, <<"set_registry", "ContractRegistry">>>>) \o
  Calls("OracleGovernance",
    <<<<"set_oracle", "StakedOracle">>, <<"set_governance_vault", "GovernanceVault">>,
      <<"set_registry", "ContractRegistry">>>>) \o
  Calls("FaucetContract", <<<<"set_vlt_asset", "VLT">>, <<"set_vlt_contract", "VLTToken">>>>)

Deployments == [i \in 1..Len(InOrder) |-> [op |-> "deploy", on |-> InOrder[i], fn |-> "", arg |-> ""]]
Registrations ==
  LET others == SelectSeq(InOrder, LAMBDA c : c # "ContractRegistry")
  IN  [i \in 1..Len(others) |-> Call("ContractRegistry", "register", others[i])]
Doing(o, on) == <<[op |-> o, on |-> on, fn |-> "", arg |-> ""]>>

Program ==
  SelectSeq(
    Deployments \o Doing("vlt_asset", "VLTToken") \o Doing("xusd_asset", "xUSD") \o
    Wiring \o Registrations \o <<Option("feed", "StakedOracle", "add_feed", "XEL/USD")>> \o
    Doing("mint", "VLTToken") \o [i \in 1..Len(Recipients) |-> Doing("mint_one", "VLTToken")[1]] \o
    <<Option("refill", "FaucetContract", "refill_xel", "XEL")>> \o Doing("faucet", "VLTToken") \o
    Doing("verify", "VLTToken") \o Doing("save", "VLTToken"),
    LAMBDA s : s.on \in InRun)

PlaceOf(o) == CHOOSE i \in 1..Len(Program) : Program[i].op = o

\* What the order of the program provides for: an asset is read before its hash
\* is passed, the mints follow each other, the faucet gets XEL before VLT, the
\* supply is read behind all of them, and the file is written last.
ProgramOrdered ==
  LET After(i, o) == \E j \in 1..(i - 1) : Program[j].op = o
      m == PlaceOf("mint")
      n == Len(Recipients)
  IN  /\ \A i \in 1..Len(Program) : LET s == Program[i] IN
           /\ s.op = "call" /\ s.arg = "VLT" => After(i, "vlt_asset")
           /\ s.op = "call" /\ (s.on = "xUSD" \/ s.arg = "xUSD_asset") => After(i, "xusd_asset")
           /\ s.op = "mint" <=> i = m
           /\ s.op = "mint_one" <=> i \in (m + 1)..(m + n)
           /\ s.op = "refill" => i = PlaceOf("faucet") - 1
           /\ s.op = "faucet" <=> i = PlaceOf("faucet")
           /\ s.op = "verify" <=> i = PlaceOf("verify")
           /\ s.op = "save" <=> i = Len(Program)
      /\ m >= 1 /\ m + n < PlaceOf("faucet") /\ PlaceOf("faucet") < PlaceOf("verify")
      /\ PlaceOf("verify") < Len(Program)
      /\ {m, PlaceOf("faucet"), PlaceOf("verify"), Len(Program)} \subseteq Nat
      /\ Allocated = MAX_SUPPLY

-----------------------------------------------------------------------------
TestnetInit ==
  /\ run = 0 /\ step = 0 /\ onChain = {} /\ shares = NoShares /\ supply = 0 /\ assets = {}
  /\ warned = FALSE /\ said = "nothing" /\ saved = 0 /\ troubles = 0

At(o) == step > 0 /\ Program[step].op = o

\* VLTToken.mint_to and mint_batch: refused beyond the maximal supply
MintTo(to, units) ==
  IF supply + units <= MAX_SUPPLY
    THEN supply' = supply + units /\ shares' = [shares EXCEPT ![to] = @ + units]
    ELSE UNCHANGED vlt
MintAll ==
  IF supply + Allocated <= MAX_SUPPLY
    THEN /\ supply' = supply + Allocated
         /\ shares' = [to \in DOMAIN shares |->
                         shares[to] + IF to = "faucet" THEN 0 ELSE VLT_ALLOCATION[to]]
    ELSE UNCHANGED vlt

Trouble == troubles < MaxTroubles /\ troubles' = troubles + 1
Fine == UNCHANGED troubles

Launch ==
  /\ step = 0 /\ run < MaxRuns
  /\ run' = run + 1 /\ step' = 1
  /\ onChain' = {} /\ shares' = NoShares /\ supply' = 0 /\ assets' = {}
  /\ warned' = FALSE /\ said' = "nothing"
  /\ UNCHANGED <<saved, troubles>>

Exit == step' = 0 /\ Trouble
Onward == step' = step + 1

\* deploy_contract: any exception is sys.exit
DeployOne ==
  /\ At("deploy")
  /\ (Onward /\ Fine) \/ Exit
  /\ UNCHANGED <<run, onChain, vlt, assets, warned, said, saved>>

\* create_assets: the process reads a hash once the asset is there; an
\* exception ends it for the VLT and is a warning for xUSD.  wait_for_tx that
\* gives up is a warning, and the hash read then is none
CreateAsset(o, a) ==
  /\ At(o)
  /\ \/ Onward /\ Fine /\ assets' = assets \cup {a} /\ UNCHANGED warned
     \/ Onward /\ Trouble /\ warned' = TRUE /\ UNCHANGED assets
     \/ o = "vlt_asset" /\ Exit /\ UNCHANGED <<assets, warned>>
  /\ UNCHANGED <<run, onChain, vlt, said, saved>>

\* what the process passes for an argument: an asset's hash only if it has one
Passed(a) == IF a \in {"VLT", "xUSD_asset"} /\ a \notin assets THEN "none" ELSE a
\* without the xUSD asset its minters are not set
LeftOut(s) == s.on = "xUSD" /\ s.fn \in {"set_minter", "set_burner"} /\ "xUSD_asset" \notin assets

\* call, call_named, register, add_feed: a failure is a warning
MakeCall ==
  /\ At("call") \/ At("feed") \/ At("refill")
  /\ Onward
  /\ LET s == Program[step]
         lands == onChain' = onChain \cup {<<s.on, s.fn, Passed(s.arg)>>}
     IN  \/ ~ LeftOut(s) /\ lands /\ Fine /\ UNCHANGED warned
         \/ LeftOut(s) /\ Fine /\ UNCHANGED <<onChain, warned>>
         \/ ~ LeftOut(s) /\ Trouble /\ warned' = TRUE /\ (lands \/ UNCHANGED onChain)
  /\ UNCHANGED <<run, vlt, assets, said, saved>>

\* --skip-feed, --skip-faucet
SkipFeed ==
  /\ At("feed") /\ Onward /\ Fine
  /\ UNCHANGED <<run, onChain, vlt, assets, warned, said, saved>>
SkipFaucet ==
  /\ At("refill") /\ step' = PlaceOf("faucet") + 1 /\ Fine
  /\ UNCHANGED <<run, onChain, vlt, assets, warned, said, saved>>

\* distribute_vlt: the batch, and one call each when anything was raised, the
\* reading of the supply included; --skip-distribution leaves both out
SkipMint ==
  /\ At("mint") /\ step' = PlaceOf("mint") + Len(Recipients) + 1 /\ Fine
  /\ UNCHANGED <<run, onChain, vlt, assets, warned, said, saved>>
MintBatch ==
  /\ At("mint")
  /\ \/ MintAll /\ step' = PlaceOf("mint") + Len(Recipients) + 1 /\ Fine /\ UNCHANGED warned
     \/ (MintAll \/ UNCHANGED vlt) /\ Onward /\ Trouble /\ warned' = TRUE
  /\ UNCHANGED <<run, onChain, assets, said, saved>>
ThisOne == Recipients[step - PlaceOf("mint")]
MintThis == MintTo(ThisOne, VLT_ALLOCATION[ThisOne])
\* mutant: a call whose answer is lost is made again
MintAgain_ ==
  /\ At("mint_one") /\ MintThis
  /\ \/ Onward /\ Fine /\ UNCHANGED warned
     \/ UNCHANGED step /\ Trouble /\ warned' = TRUE
  /\ UNCHANGED <<run, onChain, assets, said, saved>>
MintOne ==
  /\ At("mint_one") /\ Onward
  /\ \/ MintThis /\ Fine /\ UNCHANGED warned
     \/ (MintThis \/ UNCHANGED vlt) /\ Trouble /\ warned' = TRUE
  /\ UNCHANGED <<run, onChain, assets, said, saved>>

FillFaucet ==
  /\ At("faucet") /\ Onward
  /\ LET mint == MintTo("faucet", FAUCET_VLT)
     IN  \/ mint /\ Fine /\ UNCHANGED warned
         \/ (mint \/ UNCHANGED vlt) /\ Trouble /\ warned' = TRUE
  /\ UNCHANGED <<run, onChain, assets, said, saved>>

\* verify_deployment: a supply that cannot be read ends the process
Verify ==
  /\ At("verify")
  /\ \/ /\ Onward /\ Fine
        /\ said' = IF supply = Allocated THEN "correct" ELSE "mismatch"
        /\ warned' = (warned \/ supply # Allocated)
     \/ Exit /\ UNCHANGED <<said, warned>>
  /\ UNCHANGED <<run, onChain, vlt, assets, saved>>

Save ==
  /\ At("save")
  /\ saved' = run /\ step' = 0
  /\ UNCHANGED <<run, onChain, vlt, assets, warned, said, troubles>>

TestnetNext ==
  \/ Launch \/ DeployOne \/ CreateAsset("vlt_asset", "VLT") \/ CreateAsset("xusd_asset", "xUSD_asset")
  \/ MakeCall \/ SkipFeed \/ SkipFaucet \/ SkipMint \/ MintBatch \/ MintOne \/ FillFaucet \/ Verify \/ Save

TestnetSpec == TestnetInit /\ [][TestnetNext]_testnetVars

-----------------------------------------------------------------------------
(***************************************************************************)
(* A run that wrote deployment.json without a warning on the way has made  *)
(* every setting and registration, each with the hash it is about.         *)
(***************************************************************************)
WiredWhenQuiet ==
  run > 0 /\ saved = run /\ step = 0 /\ ~ warned =>
    \A i \in 1..Len(Program) :
      Program[i].op = "call" => <<Program[i].on, Program[i].fn, Program[i].arg>> \in onChain

(***************************************************************************)
(* "VLT allocation - must sum to 10,000,000 VLT": whatever failed in the   *)
(* batch, whatever the one-by-one fallback repeated and whatever the       *)
(* faucet got, nobody is minted more than their share, and a verification  *)
(* that calls the supply correct means that everybody has it.              *)
(***************************************************************************)
SharesExact ==
  /\ \A to \in DOMAIN VLT_ALLOCATION : shares[to] \in {0, VLT_ALLOCATION[to]}
  /\ said = "correct" =>
       \A to \in DOMAIN VLT_ALLOCATION : shares[to] = VLT_ALLOCATION[to]
=============================================================================

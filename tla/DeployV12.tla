------------------------------ MODULE DeployV12 ------------------------------
(***************************************************************************)
(* deploy_v12.py: the redeployment orchestrator.  One process, run phase   *)
(* by phase by an operator who starts a phase again until it prints        *)
(* COMPLETE; its only memory is docs/deployment_state.json.                *)
(***************************************************************************)
EXTENDS ScriptRunner

CONSTANT
  Again      \* bound: how many of the last complete phases are run again

VARIABLES
  phase,      \* the process: the --phase it runs, 0 when none runs
  complete    \* history: the phases that printed COMPLETE

deployVars == <<runnerVars, phase, complete>>

-----------------------------------------------------------------------------
(* The phases, in the order of the guide; phase 9 is skipped.  ADMIN and   *)
(* literal arguments are "external".                                       *)
Phase1 ==
  << Dep("ContractRegistry"), Dep("ComplianceModule"),
     Set("ComplianceModule", "set_registry", "ContractRegistry"),
     Instance("REGISTRY", "ContractRegistry") >>

Token(c, a) ==
  << Dep(c), Once(c, "create_asset"), Asset(a, c),
     Set(c, "set_registry", "ContractRegistry"), Reg(c, c) >>

Phase2 ==
  Token("VLTToken", "VLT") \o Token("xUSD", "XUSD") \o
  << Dep("FaucetContract"), Set("FaucetContract", "set_registry", "ContractRegistry"),
     Reg("FaucetContract", "FaucetContract") >>

Phase3 ==
  << Dep("XelisVaultMiner") >> \o
  Settings("XelisVaultMiner",
    << <<"set_registry", "ContractRegistry">>, <<"set_vlt_contract", "VLTToken">>,
       <<"set_vlt_asset", "VLT">>, <<"set_treasury", "external">> >>) \o
  << Reg("XelisVaultMiner", "XelisVaultMiner"),
     Dep("StakedOracle"), Set("StakedOracle", "set_registry", "ContractRegistry"),
     Set("StakedOracle", "set_miner_contract", "XelisVaultMiner"),
     Once("StakedOracle", "add_feed_entry"), Reg("StakedOracle", "StakedOracle"),
     Set("VLTToken", "set_minter", "XelisVaultMiner"),
     Set("XelisVaultMiner", "register_service", "StakedOracle"), Dep("MinerPool") >> \o
  Settings("MinerPool",
    << <<"set_registry", "ContractRegistry">>, <<"set_miner_contract", "XelisVaultMiner">>,
       <<"set_vlt_asset", "VLT">> >>) \o
  << Reg("MinerPool", "MinerPool") >>

XusdUser(c, more) ==
  << Dep(c) >> \o
  Settings(c, << <<"set_registry", "ContractRegistry">>, <<"set_xusd_contract", "xUSD">>,
                 <<"set_xusd_asset", "XUSD">>, <<"set_treasury", "external">> >> \o more)

MinterBurner(c) == << Set("xUSD", "set_minter", c), Set("xUSD", "set_burner", c) >>

Phase4 ==
  << Dep("InterestRateModel"), Set("InterestRateModel", "set_rates", "external"),
     Reg("InterestRateModel", "InterestRateModel") >> \o
  XusdUser("VaultEngineV3", <<>>) \o
  << Reg("VaultEngine", "VaultEngineV3"), Reg("VaultEngineV3", "VaultEngineV3") >> \o
  MinterBurner("VaultEngineV3") \o
  XusdUser("SavingsRate", <<>>) \o
  << Set("xUSD", "set_minter", "SavingsRate"), Reg("SavingsRate", "SavingsRate"),
     Dep("FlashCallback"), Dep("FlashLoan") >> \o
  Settings("FlashLoan",
    << <<"set_registry", "ContractRegistry">>, <<"set_treasury", "external">>,
       <<"verify_callback", "FlashCallback">> >>) \o
  << Set("FlashCallback", "set_flash_loan", "FlashLoan"),
     Reg("FlashLoan", "FlashLoan"), Reg("FlashCallback", "FlashCallback") >>

Phase5 ==
  XusdUser("VaultSwapV2", << <<"set_oracle", "StakedOracle">> >>) \o
  MinterBurner("VaultSwapV2") \o
  XusdUser("PSM", << <<"set_oracle", "StakedOracle">> >>) \o
  MinterBurner("PSM") \o
  << Set("VaultSwapV2", "set_psm_contract", "PSM"), Reg("VaultSwapV2", "VaultSwapV2"),
     Reg("VaultSwap", "VaultSwapV2"), Reg("PSM", "PSM") >>

Market(c) ==
  << Dep(c) >> \o
  Settings(c, << <<"set_registry", "ContractRegistry">>, <<"set_oracle", "StakedOracle">>,
                 <<"set_treasury", "external">> >>) \o
  << Reg(c, c) >>

Phase6 == Market("LendingMarket") \o Market("PeerLoan") \o Market("SyndicatePool")

Plain(c) == << Dep(c), Set(c, "set_registry", "ContractRegistry"), Reg(c, c) >>

Phase7 == Plain("SealedBidAuction") \o Plain("PrivacyMixer")

Phase8 ==
  << Dep("AssetVault"), Set("AssetVault", "set_registry", "ContractRegistry"),
     Set("AssetVault", "set_compliance", "ComplianceModule"), Reg("AssetVault", "AssetVault"),
     Dep("TreasuryVault"), Reg("TreasuryVault", "TreasuryVault"),
     Dep("RevenueShare"), Set("RevenueShare", "set_registry", "ContractRegistry"),
     Set("RevenueShare", "set_share_token", "VLT"), Reg("RevenueShare", "RevenueShare"),
     Dep("Payroll"), Set("Payroll", "set_registry", "ContractRegistry"),
     Set("Payroll", "set_treasury", "external"), Reg("Payroll", "Payroll") >>

Phase10 ==
  << Dep("GovernanceVault") >> \o
  Settings("GovernanceVault",
    << <<"set_registry", "ContractRegistry">>, <<"set_vlt_contract", "VLTToken">>,
       <<"set_vlt_asset", "VLT">> >>) \o
  << Reg("GovernanceVault", "GovernanceVault"), Dep("Timelock"), Reg("Timelock", "Timelock"),
     Dep("GuardianMultisig"), Set("GuardianMultisig", "set_timelock", "Timelock"),
     Reg("GuardianMultisig", "GuardianMultisig"),
     Dep("Governor"), Set("Governor", "set_governance_vault", "GovernanceVault"),
     Set("Governor", "set_timelock", "Timelock"), Reg("Governor", "Governor"),
     Dep("OracleGovernance") >> \o
  Settings("OracleGovernance",
    << <<"set_governance_vault", "GovernanceVault">>, <<"set_oracle", "StakedOracle">>,
       <<"set_timelock", "Timelock">> >>) \o
  << Reg("OracleGovernance", "OracleGovernance"),
     Set("Timelock", "set_governor", "Governor"),
     Set("Timelock", "set_guardian_contract", "GuardianMultisig") >>

Phase11 ==
  << Dep("VaultChat"), Set("VaultChat", "set_vlt_asset", "VLT"),
     Add("VLTToken", "mint_to_entry"), Add("VaultChat", "stake_relayer_bond"),
     Set("VaultChat", "set_relayer", "external"), Reg("VaultChat", "VaultChat"),
     Set("XelisVaultMiner", "register_service", "VaultChat") >>

Vesting(n) ==
  << Instance(n, "FounderVesting"), Set(n, "set_founder", "external"),
     Set(n, "set_vlt_contract", "VLTToken"), Set(n, "set_vlt_asset", "VLT"),
     Add(n, "fund"), Reg(n, n) >>

Phase12 ==
  Vesting("FounderVesting4y") \o Vesting("FounderVesting10y") \o
  << Dep("FeeDistributor") >> \o
  Settings("FeeDistributor",
    << <<"set_founder", "external">>, <<"set_treasury", "TreasuryVault">>,
       <<"set_vlt_contract", "VLTToken">>, <<"set_vlt_asset", "VLT">>,
       <<"set_registry", "ContractRegistry">> >>) \o
  << Reg("FeeDistributor", "FeeDistributor"), Dep("MinerDelegation") >> \o
  Settings("MinerDelegation",
    << <<"set_vlt_asset", "VLT">>, <<"set_miner_contract_hash", "XelisVaultMiner">>,
       <<"set_registry", "ContractRegistry">> >>) \o
  << Reg("MinerDelegation", "MinerDelegation"),
     Set("XelisVaultMiner", "set_delegation_contract", "MinerDelegation"),
     Set("StakedOracle", "set_delegation_contract", "MinerDelegation") >>

Recorders == << "XelisVaultMiner", "StakedOracle", "VaultChat", "Governor",
                "VaultEngineV3", "VaultSwapV2", "PSM" >>

Phase13 ==
  << Dep("AirdropTracker"), Set("AirdropTracker", "set_registry", "ContractRegistry"),
     Set("AirdropTracker", "set_vlt_contract", "VLTToken") >> \o
  [k \in 1..Len(Recorders) |->
     Set("AirdropTracker", "set_authorized_recorder", Recorders[k])] \o
  << Reg("AirdropTracker", "AirdropTracker") >>

Phases ==
  << Phase1, Phase2, Phase3, Phase4, Phase5, Phase6, Phase7, Phase8,
     Phase10, Phase11, Phase12, Phase13 >>

Instructions(p) == {Phases[p][k] : k \in 1..Len(Phases[p])}

\* What the order of the guide provides for: a contract or an asset is in the
\* state file before an instruction calls or names it, an asset is one
\* contract's, and the label of a step names one instruction.
All == UNION {Instructions(p) : p \in 1..Len(Phases)}
Makes(ins) == IF ins.op \in {"deploy", "instance", "asset"} THEN {ins.on} ELSE {}
Made == (UNION {Makes(ins) : ins \in All}) \cup {ins.arg : ins \in {i \in All : i.op = "instance"}}
Before(p, k) ==
  (UNION {Makes(ins) : ins \in UNION {Instructions(q) : q \in 1..(p - 1)}}) \cup
  (UNION {Makes(Phases[p][j]) : j \in 1..(k - 1)})
PhasesOrdered ==
  /\ Len(Phases) \in Nat /\ \A p \in 1..Len(Phases) : Len(Phases[p]) \in Nat
  /\ \A p \in 1..Len(Phases) : \A k \in 1..Len(Phases[p]) : LET ins == Phases[p][k] IN
       /\ ins.on \in Names /\ ins.arg \in Names
       /\ ins.op = "deploy" => ins.arg = ins.on
       /\ ins.op = "asset" => ins.arg \in Before(p, k)
       /\ ins.op \in {"set", "once", "add", "register"} =>
            {ins.on, ins.arg} \cap Made \subseteq Before(p, k)
  /\ \A i, j \in All :
       /\ i.op = "asset" /\ j.op \in {"deploy", "instance"} => i.on \notin {j.on, j.arg}
       /\ i.op = "asset" /\ j.op = "asset" /\ i.on = j.on => i.arg = j.arg
       /\ i.on = j.on /\ i.fn = j.fn /\ i.arg = j.arg => i.op = j.op

ASSUME GuideOrdered == PhasesOrdered

-----------------------------------------------------------------------------
DeployInit == RunnerInit /\ phase = 0 /\ complete = {}

CurIns == Phases[phase][at]

\* main: --phase p.  The operator follows the guide: p once what comes before
\* it is complete, and again as long as it likes.
Start(p) ==
  /\ phase = 0
  /\ 1..(p - 1) \subseteq complete
  /\ phase' = p
  /\ UNCHANGED <<runnerVars, complete>>

StartNext == \E p \in (1..Len(Phases)) \ complete : Start(p)
StartAgain == \E p \in complete : p + Again > Cardinality(complete) /\ Start(p)

RunningPhase == phase # 0 /\ at <= Len(Phases[phase])

\* deploy, invoke, register: the steps of one instruction
DeployStep ==
  /\ RunningPhase
  /\ SkipDeploy(CurIns) \/ LandDeploy(CurIns) \/ BookDeploy(CurIns) \/ BookInstance(CurIns)
  /\ UNCHANGED <<phase, complete>>

InvokeStep ==
  /\ RunningPhase
  /\ \/ SkipStep(CurIns) \/ LandStep(CurIns, book.contracts[CurIns.arg])
     \/ LandRefused(CurIns) \/ BookStep(CurIns)
  /\ UNCHANGED <<phase, complete>>

RegisterStep ==
  RunningPhase /\ SkipRegister(CurIns, book.contracts[CurIns.arg]) /\ UNCHANGED <<phase, complete>>

AssetStep == RunningPhase /\ BookAsset(CurIns) /\ UNCHANGED <<phase, complete>>

Finish ==
  /\ phase # 0 /\ at = Len(Phases[phase]) + 1
  /\ complete' = complete \cup {phase}
  /\ phase' = 0 /\ at' = 1
  /\ UNCHANGED <<inst, wired, times, book, landed, crashes, lost>>

DeployDies == RunningPhase /\ (Crash(CurIns) \/ Refused(CurIns)) /\ phase' = 0 /\ UNCHANGED complete

RunPhases == DeployStep \/ InvokeStep \/ RegisterStep \/ AssetStep \/ Finish

DeployNext == StartNext \/ StartAgain \/ RunPhases \/ DeployDies

\* The operator comes back to the phase that did not finish, and a process
\* that runs goes on; nothing makes it die.
DeploySpec == DeployInit /\ [][DeployNext]_deployVars /\ WF_deployVars(RunPhases) /\ SF_deployVars(StartNext)

-----------------------------------------------------------------------------
(* Once a phase has printed COMPLETE every contract it set up is the one   *)
(* the state file names, and each of its settings names the contract the   *)
(* state file names, however often the script died on the way and however  *)
(* many orphans it deployed.  deploy and invoke, deploy_v12.py:62-110.     *)
WiredToCurrent ==
  phase = 0 => \A p \in complete : \A ins \in Instructions(p) :
    /\ ins.op \in {"deploy", "instance", "asset"} => book.contracts[ins.on] # 0
    /\ ins.op \in {"set", "register"} => Setting(ins, book.contracts[ins.arg]) \in wired

(* Minting the admin's VLT, staking the relayer bond and funding a vesting *)
(* contract are no idempotent setters: a phase that is run again does not  *)
(* repeat them, except for one the process died on between the block and   *)
(* the state file.  invoke, deploy_v12.py:95-110.                          *)
EffectsOnce ==
  /\ \A k \in DOMAIN times : k \notin lost => times[k] <= 1
  /\ \A p \in complete : \A ins \in Instructions(p) :
       ins.op = "add" => Times(Key(ins)) >= 1

\* create_asset or add_feed_entry is on the chain and not in the state file
DeployTrapped == \E k \in lost : k[3] \in {"create_asset", "add_feed_entry"} /\ k \notin book.steps

(* "Resumable": an operator who runs the phases again after every crash    *)
(* gets through all of them, unless the process died between the block of  *)
(* a one-shot entry and the state file (the entry then reverts for good).  *)
Deployed == complete = 1..Len(Phases) \/ DeployTrapped
DeployResumes == <>[]Deployed

(* "instances distinctes", deploy_v12.py:489: the two founder vestings are *)
(* two contracts.                                                          *)
VestingsDistinct ==
  LET four == book.contracts["FounderVesting4y"]
      ten  == book.contracts["FounderVesting10y"]
  IN four # 0 /\ ten # 0 => four # ten
=============================================================================

----------------------------- MODULE ConsoleCalls -----------------------------
(***************************************************************************)
(* What the console xvault.py can ask of the chain: the operations of its  *)
(* Backend (cli_backend.py), each a call of one contract, and the screens  *)
(* that offer them.  A call is told by the types of its arguments and the  *)
(* number of assets attached; amounts, gas and wording are left out.       *)
(* Entries is the other side, what the contracts declare.                  *)
(***************************************************************************)
EXTENDS Naturals, Sequences, TLC

Op(to, entry, args, pays) == [to |-> to, entry |-> entry, args |-> args, pays |-> pays]
Takes(args, deposits) == [args |-> args, takes |-> deposits]

-----------------------------------------------------------------------------
(* Backend: one operation per method. *)

PsmOps ==
  [psm_mint   |-> Op("PSM", "mint", <<"u64", "u64">>, 1),
   psm_redeem |-> Op("PSM", "redeem", <<"u64", "u64">>, 1)]

VaultOps ==
  [vault_deposit  |-> Op("VaultEngineV3", "deposit", <<"hash", "u64", "hash">>, 1),
   vault_borrow   |-> Op("VaultEngineV3", "borrow", <<"u64", "u64">>, 0),
   vault_repay    |-> Op("VaultEngineV3", "repay", <<"u64", "u64">>, 1),
   vault_withdraw |-> Op("VaultEngineV3", "withdraw", <<"u64", "u64">>, 0)]

AmmOps ==
  [amm_swap |-> Op("VaultSwapV2", "swap", <<"hash", "hash", "u64", "u64">>, 1),
   amm_add_liquidity |->
     Op("VaultSwapV2", "add_liquidity", <<"hash", "hash", "u64", "u64">>, 2)]

SavingsOps ==
  [savings_deposit |-> Op("SavingsRate", "deposit", <<"u64">>, 1),
   savings_withdraw |-> Op("SavingsRate", "withdraw", <<"u64">>, 0),
   savings_claim_interest |-> Op("SavingsRate", "claim_interest", <<>>, 0)]

MixerOps ==
  [mixer_deposit  |-> Op("PrivacyMixer", "deposit", <<"hash", "hash">>, 1),
   mixer_withdraw |-> Op("PrivacyMixer", "withdraw", <<"addr", "hash", "u64", "hash">>, 0)]

TreasuryOps ==
  [treasury_deposit |-> Op("TreasuryVault", "deposit", <<"hash", "u64">>, 1),
   treasury_propose |-> Op("TreasuryVault", "propose", <<"hash", "addr", "u64", "bytes">>, 0),
   treasury_confirm |-> Op("TreasuryVault", "confirm", <<"u64">>, 0),
   treasury_revoke  |-> Op("TreasuryVault", "revoke", <<"u64">>, 0),
   treasury_execute |-> Op("TreasuryVault", "execute", <<"u64">>, 0),
   rwa_mint         |-> Op("AssetVault", "mint", <<"addr", "u64">>, 0),
   rwa_transfer     |-> Op("AssetVault", "transfer_asset", <<"addr", "u64">>, 1)]

MinerOps ==
  [miner_heartbeat      |-> Op("XelisVaultMiner", "submit_heartbeat", <<>>, 0),
   miner_increase_stake |-> Op("XelisVaultMiner", "increase_stake", <<"u64">>, 1),
   miner_register |-> Op("XelisVaultMiner", "register_miner", <<"str", "hash", "u8">>, 1),
   miner_claim_rewards  |-> Op("XelisVaultMiner", "claim_rewards", <<>>, 0)]

GovernanceOps ==
  [miner_enable_service |-> Op("XelisVaultMiner", "enable_service", <<"u8">>, 0),
   faucet_distribute    |-> Op("FaucetContract", "distribute", <<"addr[]">>, 0),
   gov_stake            |-> Op("GovernanceVault", "stake", <<"u64", "u64">>, 1),
   gov_unstake          |-> Op("GovernanceVault", "unstake", <<"u64">>, 0),
   gov_claim_rewards    |-> Op("GovernanceVault", "claim_rewards", <<>>, 0),
   gov_propose |-> Op("Governor", "propose", <<"hash", "u16", "bytes", "str">>, 0),
   gov_vote             |-> Op("Governor", "vote", <<"u64", "u8">>, 0),
   gov_queue            |-> Op("Governor", "queue", <<"u64">>, 0)]

FlashOps ==
  [flashloan_borrow |-> Op("FlashLoan", "flash_loan", <<"hash", "u64", "hash", "bytes">>, 0),
   flashloan_fund   |-> Op("FlashLoan", "set_fee_bps", <<"u64">>, 1),
   flashloan_verify_cb |-> Op("FlashLoan", "verify_callback", <<"hash">>, 0),
   flashcb_fund     |-> Op("FlashCallback", "set_flash_loan", <<"hash">>, 1),
   flashcb_profit   |-> Op("FlashCallback", "claim_profit", <<"hash">>, 0)]

Six == <<"hash", "u64", "u64", "u64", "hash", "u64">>

LoanOps ==
  [pl_create_offer |-> Op("PeerLoan", "create_offer", Six, 1),
   pl_cancel_offer |-> Op("PeerLoan", "cancel_offer", <<"u64">>, 0),
   pl_accept_offer |-> Op("PeerLoan", "accept_offer", <<"u64">>, 1),
   pl_repay        |-> Op("PeerLoan", "repay", <<"u64">>, 1),
   sp_create_pool  |-> Op("SyndicatePool", "create_pool", Six, 0),
   sp_supply       |-> Op("SyndicatePool", "supply", <<"u64", "u64">>, 1),
   sp_activate     |-> Op("SyndicatePool", "activate_pool", <<"u64">>, 0),
   sp_repay        |-> Op("SyndicatePool", "repay", <<"u64", "u64">>, 1),
   sp_claim        |-> Op("SyndicatePool", "claim", <<"u64">>, 0)]

AuctionOps ==
  [au_create |-> Op("SealedBidAuction", "create_auction",
                    <<"hash", "u64", "hash", "u64", "u64", "u64">>, 1),
   au_commit |-> Op("SealedBidAuction", "commit", <<"u64", "hash">>, 0),
   au_reveal |-> Op("SealedBidAuction", "reveal", <<"u64", "u64", "u64">>, 0),
   au_settle |-> Op("SealedBidAuction", "settle", <<"u64">>, 0),
   au_declare_winner |->
     Op("SealedBidAuction", "declare_winner", <<"u64", "addr", "u64">>, 0),
   au_claim_asset    |-> Op("SealedBidAuction", "claim_asset", <<"u64">>, 0),
   au_claim_proceeds |-> Op("SealedBidAuction", "claim_proceeds", <<"u64">>, 0),
   tl_execute |-> Op("Timelock", "execute_proposal", <<"u64">>, 0),
   tl_cancel  |-> Op("Timelock", "cancel_proposal", <<"u64">>, 0)]

ChatOps ==
  [chat_register        |-> Op("VaultChat", "register_session", <<"hash">>, 0),
   chat_send_dm |-> Op("VaultChat", "send_direct_message", <<"addr", "bytes", "u64">>, 0),
   chat_store_message   |-> Op("VaultChat", "store_message", <<"addr", "bytes", "u64">>, 0),
   chat_create_group    |-> Op("VaultChat", "create_group", <<"hash">>, 0),
   chat_add_member |-> Op("VaultChat", "add_group_member", <<"u64", "addr", "bytes">>, 0),
   chat_group_msg |-> Op("VaultChat", "store_group_message", <<"u64", "bytes", "u64">>, 0),
   chat_anchor |-> Op("VaultChat", "anchor_messages", <<"hash", "u64", "u64", "u8">>, 0),
   chat_stake_bond      |-> Op("VaultChat", "stake_relayer_bond", <<"u64">>, 1),
   chat_set_relayer     |-> Op("VaultChat", "set_relayer", <<"addr", "bool">>, 0),
   chat_register_relayer |->
     Op("VaultChat", "register_as_relayer", <<"str", "u64", "u64">>, 0),
   chat_update_endpoint |-> Op("VaultChat", "update_relayer_endpoint", <<"str">>, 0),
   chat_set_fee         |-> Op("VaultChat", "set_relayer_fee", <<"u64", "u8">>, 0),
   chat_claim_fees      |-> Op("VaultChat", "claim_relayer_fees", <<>>, 0)]

RecordOps ==
  [rwa_register |-> Op("AssetVault", "create_asset", <<"str", "str", "u8", "u64">>, 0),
   airdrop_record_mainnet |-> Op("AirdropTracker", "record_mainnet_address", <<"addr">>, 0)]

Ops ==
  PsmOps @@ VaultOps @@ AmmOps @@ SavingsOps @@ MixerOps @@ TreasuryOps @@ MinerOps
    @@ GovernanceOps @@ FlashOps @@ LoanOps @@ AuctionOps @@ ChatOps @@ RecordOps

\* CHUNKS: the compiled id of an entry is the one of that name, but for the
\* profit of FlashCallback, whose id is now set_registry's
EntryAt(to, entry) ==
  IF to = "FlashCallback" /\ entry = "claim_profit" THEN "set_registry" ELSE entry

\* an operation whose arguments cannot be made: val_bool is not imported
Unbuildable == {"chat_set_relayer"}

-----------------------------------------------------------------------------
(* The contracts: what their entries declare and the deposits they take.   *)

MoneyEntries ==
  [PSM |-> [mint |-> Takes(<<"u64", "u64">>, 1), redeem |-> Takes(<<"u64", "u64">>, 1)],
   VaultEngineV3 |->
     [deposit |-> Takes(<<"hash", "u64", "hash">>, 1), borrow |-> Takes(<<"u64", "u64">>, 0),
      repay |-> Takes(<<"u64", "u64">>, 0), withdraw |-> Takes(<<"u64", "u64">>, 0)],
   VaultSwapV2 |->
     [swap |-> Takes(<<"hash", "hash", "u64", "u64">>, 1),
      add_liquidity |-> Takes(<<"hash", "hash", "u64", "u64">>, 2)],
   SavingsRate |->
     [deposit |-> Takes(<<"u64">>, 1), withdraw |-> Takes(<<"u64">>, 0),
      claim_interest |-> Takes(<<>>, 0)],
   PrivacyMixer |->
     [deposit |-> Takes(<<"hash", "hash">>, 1),
      withdraw |-> Takes(<<"addr", "hash", "u64", "hash">>, 0)],
   TreasuryVault |->
     [deposit |-> Takes(<<"hash", "u64">>, 1),
      propose |-> Takes(<<"hash", "addr", "u64", "bytes">>, 0),
      confirm |-> Takes(<<"u64">>, 0), revoke |-> Takes(<<"u64">>, 0),
      execute |-> Takes(<<"u64">>, 0)],
   AssetVault |->
     [mint |-> Takes(<<"addr", "u64">>, 0), transfer_asset |-> Takes(<<"addr", "u64">>, 1),
      create_asset |-> Takes(<<"str", "str", "u8", "u64">>, 0)]]

LoanEntries ==
  [FlashLoan |->
     [flash_loan |-> Takes(<<"hash", "u64", "hash", "bytes">>, 0),
      set_fee_bps |-> Takes(<<"u64">>, 0), verify_callback |-> Takes(<<"hash">>, 0)],
   FlashCallback |->
     [set_flash_loan |-> Takes(<<"hash">>, 0), set_registry |-> Takes(<<"hash">>, 0)],
   PeerLoan |->
     [create_offer |-> Takes(Six, 1), cancel_offer |-> Takes(<<"u64">>, 0),
      accept_offer |-> Takes(<<"u64">>, 1), repay |-> Takes(<<"u64">>, 1)],
   SyndicatePool |->
     [create_pool |-> Takes(Six, 0), supply |-> Takes(<<"u64", "u64">>, 1),
      activate_pool |-> Takes(<<"u64">>, 1), repay |-> Takes(<<"u64", "u64">>, 1),
      claim |-> Takes(<<"u64">>, 0)],
   SealedBidAuction |->
     [create_auction |-> Takes(<<"hash", "u64", "hash", "u64", "u64", "u64">>, 1),
      commit |-> Takes(<<"u64", "hash">>, 0), reveal |-> Takes(<<"u64", "u64", "u64">>, 1),
      settle |-> Takes(<<"u64">>, 0), declare_winner |-> Takes(<<"u64", "addr", "u64">>, 0),
      claim_asset |-> Takes(<<"u64">>, 0), claim_proceeds |-> Takes(<<"u64">>, 0)]]

NetworkEntries ==
  [XelisVaultMiner |->
     [register_miner |-> Takes(<<"str", "hash", "u8">>, 1),
      enable_service |-> Takes(<<"u8">>, 0), increase_stake |-> Takes(<<"u64">>, 1),
      submit_heartbeat |-> Takes(<<>>, 0), claim_rewards |-> Takes(<<>>, 0)],
   FaucetContract |-> [distribute |-> Takes(<<"addr[]">>, 0)],
   GovernanceVault |->
     [stake |-> Takes(<<"u64", "u64">>, 1), unstake |-> Takes(<<"u64">>, 0),
      claim_rewards |-> Takes(<<>>, 0)],
   Governor |->
     [propose |-> Takes(<<"hash", "u16", "bytes", "str">>, 0),
      vote |-> Takes(<<"u64", "u8">>, 0), queue |-> Takes(<<"u64">>, 0)],
   Timelock |->
     [execute_proposal |-> Takes(<<"u64">>, 0), cancel_proposal |-> Takes(<<"u64">>, 0)],
   VaultChat |->
     [register_session |-> Takes(<<"hash">>, 0), create_group |-> Takes(<<"hash">>, 0),
      add_group_member |-> Takes(<<"u64", "addr", "bytes">>, 0),
      anchor_messages |-> Takes(<<"hash", "u64", "u64", "u8">>, 0),
      store_message |-> Takes(<<"addr", "bytes", "u64">>, 0),
      store_group_message |-> Takes(<<"u64", "bytes", "u64">>, 0),
      send_direct_message |-> Takes(<<"addr", "bytes", "u64">>, 0),
      set_relayer |-> Takes(<<"addr", "bool">>, 0),
      set_relayer_fee |-> Takes(<<"u64", "u8">>, 0), claim_relayer_fees |-> Takes(<<>>, 0),
      stake_relayer_bond |-> Takes(<<"u64">>, 1),
      register_as_relayer |-> Takes(<<"str", "u64", "u64">>, 0),
      update_relayer_endpoint |-> Takes(<<"str">>, 0)],
   AirdropTracker |-> [record_mainnet_address |-> Takes(<<"addr">>, 0)]]

Entries == MoneyEntries @@ LoanEntries @@ NetworkEntries

\* the contract can decode the call and finds the deposits it takes
Declared(op) == Entries[Ops[op].to][EntryAt(Ops[op].to, Ops[op].entry)]
WellTyped(op) == Declared(op).args = Ops[op].args
Fits(op) == WellTyped(op) /\ Ops[op].pays >= Declared(op).takes

-----------------------------------------------------------------------------
(* The screens of xvault.py and the actions of xvault-miner.py: the        *)
(* operations each offers, those it offers only to who holds a position    *)
(* (a vault, a miner's profile), those only to who holds none, and what    *)
(* it tells once an operation is sent.                                     *)

\* run_tx follows the transaction to its end
Screen(offers, holding) ==
  [offers |-> offers, holding |-> holding, newcomer |-> {}, tells |-> "outcome"]
\* the miner's console is content with the wallet having sent it
MinerScreen(offers, holding, newcomer) ==
  [offers |-> offers, holding |-> holding, newcomer |-> newcomer, tells |-> "sent"]

screen_vault ==
  Screen({"vault_deposit"}, {"vault_borrow", "vault_repay", "vault_withdraw"})
screen_swap == Screen({"psm_mint", "psm_redeem", "amm_swap"}, {})
screen_savings ==
  Screen({"savings_deposit", "savings_withdraw", "savings_claim_interest"}, {})
screen_privacy == Screen({"mixer_deposit", "mixer_withdraw"}, {})
screen_treasury ==
  Screen({"treasury_deposit", "treasury_propose", "treasury_confirm", "treasury_execute"}, {})
screen_rwa == Screen({"rwa_transfer", "rwa_register"}, {})
screen_faucet == Screen({"faucet_distribute"}, {})
screen_governance == Screen({"gov_stake", "gov_unstake", "gov_claim_rewards"}, {})
gov_proposals == Screen({"gov_vote", "gov_queue"}, {})
gov_propose == Screen({"gov_propose"}, {})
screen_flashloan == Screen({"flashloan_borrow", "flashloan_fund"}, {})
screen_peerloan ==
  Screen({"pl_create_offer", "pl_accept_offer", "pl_repay", "pl_cancel_offer"}, {})
screen_syndicate ==
  Screen({"sp_create_pool", "sp_supply", "sp_activate", "sp_repay", "sp_claim"}, {})
screen_auctions ==
  Screen({"au_create", "au_commit", "au_reveal", "au_settle", "au_claim_asset",
          "au_claim_proceeds"}, {})
screen_chat ==
  Screen({"chat_register", "chat_send_dm", "chat_store_message", "chat_create_group",
          "chat_add_member", "chat_group_msg", "chat_anchor", "chat_stake_bond",
          "chat_set_fee", "chat_claim_fees"}, {})
screen_relayer ==
  Screen({"chat_stake_bond", "chat_set_relayer", "chat_register_relayer", "chat_set_fee",
          "chat_claim_fees"}, {})

action_registration_flow == MinerScreen({}, {}, {"miner_register"})
action_heartbeat == MinerScreen({"miner_heartbeat"}, {}, {})
action_increase_stake == MinerScreen({"miner_increase_stake"}, {}, {})
action_enable_service == MinerScreen({"miner_enable_service"}, {}, {})
action_claim_rewards == MinerScreen({}, {"miner_claim_rewards"}, {})

Screens ==
  {screen_vault, screen_swap, screen_savings, screen_privacy, screen_treasury, screen_rwa,
   screen_faucet, screen_governance, gov_proposals, gov_propose, screen_flashloan,
   screen_peerloan, screen_syndicate, screen_auctions, screen_chat, screen_relayer,
   action_registration_flow, action_heartbeat, action_increase_stake,
   action_enable_service, action_claim_rewards}

\* "Relayer: bond + register" of the chat screen sends the registration behind
\* the bond, whatever became of it
Then(screen, op) ==
  IF screen = screen_chat /\ op = "chat_stake_bond" THEN "chat_register_relayer" ELSE "none"
=============================================================================

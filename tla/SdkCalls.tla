------------------------------- MODULE SdkCalls -------------------------------
(***************************************************************************)
(* What the SDK can ask of the chain: the commands of xvault               *)
(* (sdk/xvault/xvault/cli.py) that send a transaction and the parameter    *)
(* builders of the library, with the chunk-id tables of protocol.py that   *)
(* turn an entry's name into the id a transaction carries.  A call is told *)
(* by that id, the types of its parameters and the number of assets        *)
(* attached; the contracts by their functions in declaration order.        *)
(***************************************************************************)
EXTENDS Naturals, Sequences, TLC

-----------------------------------------------------------------------------
(* The contracts: their functions in declaration order, the constructor    *)
(* being chunk 0.                                                          *)

Fn(sort, name, args, takes) == [kind |-> sort, name |-> name, args |-> args, takes |-> takes]
E(name, args) == <<Fn("entry", name, args, 0)>>
Paid(name, args, takes) == <<Fn("entry", name, args, takes)>>
Pub(name, args, takes) == <<Fn("pub", name, args, takes)>>
Internal(n) == [i \in 1..n |-> Fn("fn", "internal", <<>>, 0)]
Getters(n) == [i \in 1..n |-> Fn("pub", "get", <<>>, 0)]
One == <<"u64">>
Setters(names) == [i \in DOMAIN names |-> Fn("entry", names[i], One, 0)]
Strings == <<"str", "str", "str", "str", "str", "str">>

PrivacyMixerV5Fns ==
  Internal(12) \o Paid("deposit", <<"hash", "u64">>, 1)
  \o E("release", <<"addr", "hash", "u64", "u64", "hash[]">>)
  \o E("release_many", <<"addr[]", "hash[]", "u64[]", "u64[]", "hash[]">>)
  \o E("pause", <<>>) \o E("unpause", <<>>) \o E("emergency_exit", <<>>) \o E("raise_alarm", <<>>)
  \o Setters(<<"set_fee_bps", "set_bounty">>) \o E("set_fee_recipient", <<"addr">>)
  \o E("claim_fees", One) \o E("propose_owner", <<"addr">>) \o E("accept_owner", <<>>)
  \o E("renounce_ownership", <<>>) \o Getters(16)

VaultLaunchFns ==
  Internal(19)
  \o Paid("propose", Strings \o <<"str", "str", "u64", "u64", "u64">>, 1)
  \o Setters(<<"support", "report", "finalize_validation">>)
  \o Paid("buy", One, 1) \o Paid("sell", One, 1) \o E("claim_refund", One)
  \o E("claim_vote_deposit", <<"u64", "u64">>) \o E("request_revalidation", One)
  \o E("update_project_info", One \o Strings) \o E("start_team_vesting", <<"u64", "u64">>)
  \o Setters(<<"claim_team_allocation", "migrate", "sync_trust_to_dex",
       "set_submission_fee", "set_trading_fee", "set_graduated_trading_fee", "set_migration_fee",
       "set_direct_listing_threshold", "set_min_liquidity", "set_min_participants",
       "set_min_approval_ratio", "set_validation_duration", "set_graduation_multiplier",
       "set_team_unlock_delay">>)
  \o E("set_vesting_bounds", <<"u64", "u64">>) \o E("set_recovery_fee", One)
  \o E("set_recovery_params", <<"u64", "u64">>) \o Setters(<<"set_asset_budget", "set_vote_deposit">>)
  \o E("set_dex_address", <<"hash">>) \o E("set_admin", <<"addr">>) \o E("set_paused", <<"bool">>)
  \o E("withdraw_fees", One) \o Getters(35)

LaunchDEXFns ==
  Internal(5) \o Pub("create_pool", <<"hash">>, 2) \o Pub("set_pool_buys_paused", <<"hash", "bool">>, 0)
  \o Paid("swap_xel_for_token", <<"hash", "u64">>, 1)
  \o Paid("swap_token_for_xel", <<"hash", "u64">>, 1) \o Paid("add_liquidity", <<"hash">>, 2)
  \o E("set_swap_fee", One)
  \o E("set_trade_bounds", <<"u64", "u64", "u64", "u64", "u64", "u64">>)
  \o E("set_launchpad", <<"addr">>) \o E("set_admin", <<"addr">>) \o E("set_paused", <<"bool">>)
  \o E("withdraw_fees", <<"hash", "u64", "u64">>) \o Getters(12) \o E("set_fee_split", One)
  \o E("claim_lp_fees", <<"hash">>) \o Getters(1)
  \o E("remove_liquidity", <<"hash", "u64", "u64", "u64">>) \o Pub("create_pool_open", <<"hash">>, 2)

CommunityLaunchFns ==
  Internal(14) \o Paid("launch_coin", Strings \o <<"str", "str", "u64", "u64">>, 1)
  \o Paid("buy", <<"u64", "u64">>, 1) \o Paid("sell", <<"u64", "u64">>, 1)
  \o Setters(<<"migrate", "claim_creator_allocation">>) \o E("update_coin_info", One \o Strings)
  \o Setters(<<"set_submission_fee", "set_asset_budget", "set_curve_fee", "set_graduated_fee",
               "set_migration_fee", "set_graduation_depth", "set_virtual_xel">>)
  \o E("set_dex_address", <<"hash">>) \o E("set_admin", <<"addr">>) \o E("set_paused", <<"bool">>)
  \o E("withdraw_fees", One) \o Getters(19)

Functions ==
  [PrivacyMixerV5 |-> PrivacyMixerV5Fns, VaultLaunch |-> VaultLaunchFns,
   LaunchDEX |-> LaunchDEXFns, CommunityLaunch |-> CommunityLaunchFns]
TxEntries(c) == {i \in DOMAIN Functions[c] : Functions[c][i].kind = "entry"}

\* DEX_CREATE_POOL_CHUNK, DEX_SET_PAUSED_CHUNK, DEX_CREATE_POOL_OPEN_CHUNK:
\* what the launchpads call in the exchange
CrossCalls == [create_pool |-> 6, set_pool_buys_paused |-> 7, create_pool_open |-> 33]

-----------------------------------------------------------------------------
(* protocol.py: the chunk-id tables. *)

Numbered(first, names) ==
  [n \in {names[i] : i \in DOMAIN names} |-> first - 1 + CHOOSE i \in DOMAIN names : names[i] = n]

MixerNames ==
  <<"deposit", "release", "release_many", "pause", "unpause", "emergency_exit", "raise_alarm",
    "set_fee_bps", "set_bounty", "set_fee_recipient", "claim_fees", "propose_owner",
    "accept_owner", "renounce_ownership">>
MIXER_ENTRY_IDS == Numbered(13, MixerNames)
MIXER_ENTRY_IDS_ALT == Numbered(0, MixerNames)

LaunchpadNames ==
  <<"propose", "support", "report", "finalize_validation", "buy", "sell", "claim_refund",
    "claim_vote_deposit", "request_revalidation", "update_project_info", "start_team_vesting",
    "claim_team_allocation", "migrate", "sync_trust_to_dex", "set_submission_fee",
    "set_trading_fee", "set_graduated_trading_fee", "set_migration_fee",
    "set_direct_listing_threshold", "set_min_liquidity", "set_min_participants",
    "set_min_approval_ratio", "set_validation_duration", "set_graduation_multiplier",
    "set_team_unlock_delay", "set_vesting_bounds", "set_recovery_fee", "set_recovery_params",
    "set_asset_budget", "set_vote_deposit", "set_dex_address", "set_admin", "set_paused",
    "withdraw_fees">>
LAUNCHPAD_ENTRY_IDS == Numbered(20, LaunchpadNames)
LAUNCHPAD_ENTRY_IDS_ALT == Numbered(0, LaunchpadNames)

DexNames ==
  <<"swap_xel_for_token", "swap_token_for_xel", "add_liquidity", "set_swap_fee",
    "set_trade_bounds", "set_launchpad", "set_admin", "set_paused", "withdraw_fees",
    "set_fee_split", "claim_lp_fees", "remove_liquidity">>
LAUNCHDEX_ENTRY_IDS ==
  [set_fee_split |-> 29, claim_lp_fees |-> 30, remove_liquidity |-> 32]
  @@ Numbered(8, SubSeq(DexNames, 1, 9))
LAUNCHDEX_ENTRY_IDS_ALT == Numbered(0, DexNames)

CommunityNames ==
  <<"launch_coin", "buy", "sell", "migrate", "claim_creator_allocation", "update_coin_info",
    "set_submission_fee", "set_asset_budget", "set_curve_fee", "set_graduated_fee",
    "set_migration_fee", "set_graduation_depth", "set_virtual_xel", "set_dex_address",
    "set_admin", "set_paused", "withdraw_fees">>
COMMUNITY_ENTRY_IDS == Numbered(15, CommunityNames)
COMMUNITY_ENTRY_IDS_ALT == Numbered(0, CommunityNames)

Ids ==
  [PrivacyMixerV5 |-> MIXER_ENTRY_IDS, VaultLaunch |-> LAUNCHPAD_ENTRY_IDS,
   LaunchDEX |-> LAUNCHDEX_ENTRY_IDS, CommunityLaunch |-> COMMUNITY_ENTRY_IDS]
AltIds ==
  [PrivacyMixerV5 |-> MIXER_ENTRY_IDS_ALT, VaultLaunch |-> LAUNCHPAD_ENTRY_IDS_ALT,
   LaunchDEX |-> LAUNCHDEX_ENTRY_IDS_ALT, CommunityLaunch |-> COMMUNITY_ENTRY_IDS_ALT]

-----------------------------------------------------------------------------
(* cli.py: what each command invokes; dex.py, launchpad.py, mixer.py: what *)
(* their parameter and deposit builders make of a call.                    *)

Call(to, entry, args, pays) == [to |-> to, entry |-> entry, args |-> args, pays |-> pays]
Mixer(entry, args) == Call("PrivacyMixerV5", entry, args, 0)
Launchpad(entry, args) == Call("VaultLaunch", entry, args, 0)
Dex(entry, args) == Call("LaunchDEX", entry, args, 0)

\* the entry of an owner action is its name with the dashes replaced
OwnerActions ==
  [owner_pause |-> Mixer("pause", <<>>), owner_unpause |-> Mixer("unpause", <<>>),
   owner_emergency_exit |-> Mixer("emergency_exit", <<>>),
   owner_set_fee |-> Mixer("set_fee", One), owner_set_bounty |-> Mixer("set_bounty", One),
   owner_set_fee_recipient |-> Mixer("set_fee_recipient", <<"addr">>),
   owner_claim_fees |-> Mixer("claim_fees", One),
   owner_propose_owner |-> Mixer("propose_owner", <<"addr">>),
   owner_accept_owner |-> Mixer("accept_owner", <<>>),
   owner_renounce_ownership |-> Mixer("renounce_ownership", <<>>)]

alarm == Mixer("raise_alarm", <<>>)
deposit_params == Call("PrivacyMixerV5", "deposit", <<"hash", "u64">>, 1)
release_params == Mixer("release", <<"addr", "hash", "u64", "u64", "hash[]">>)
release_many_params ==
  Mixer("release_many", <<"addr[]", "hash[]", "u64[]", "u64[]", "hash[]">>)
propose_params ==
  Call("VaultLaunch", "propose",
       <<"str", "str", "str", "str", "str", "str", "str", "str", "u64", "u64", "u64">>, 1)
pid_params == <<"u64">>
without_round_ == <<"u64">>
claim_vote_deposit_params == <<"u64", "u64">>
set_vote_deposit == Launchpad("set_vote_deposit", One)
claim_lp_fees_params == <<"hash">>
remove_liquidity_params == <<"hash", "u64", "u64", "u64">>
set_fee_split == Dex("set_fee_split", One)

Commands ==
  OwnerActions @@
  [alarm |-> alarm, mixer_deposit |-> deposit_params, mixer_release |-> release_params,
   mixer_release_many |-> release_many_params, launchpad_propose |-> propose_params,
   launchpad_migrate |-> Launchpad("migrate", pid_params),
   launchpad_sync |-> Launchpad("sync_trust_to_dex", pid_params),
   launchpad_claim_deposit |-> Launchpad("claim_vote_deposit", claim_vote_deposit_params),
   launchpad_set_vote_deposit |-> set_vote_deposit,
   dex_claim_lp_fees |-> Dex("claim_lp_fees", claim_lp_fees_params),
   dex_remove_liquidity |-> Dex("remove_liquidity", remove_liquidity_params),
   dex_set_fee_split |-> set_fee_split]

LaunchpadBuilders ==
  [lib_support |-> Call("VaultLaunch", "support", pid_params, 1),
   lib_report |-> Call("VaultLaunch", "report", pid_params, 1),
   lib_finalize |-> Call("VaultLaunch", "finalize_validation", pid_params, 1),
   lib_buy |-> Call("VaultLaunch", "buy", pid_params, 1),
   lib_sell |-> Call("VaultLaunch", "sell", pid_params, 1),
   lib_start_team_vesting |-> Launchpad("start_team_vesting", <<"u64", "u64">>),
   lib_set_recovery_params |-> Launchpad("set_recovery_params", <<"u64", "u64">>),
   lib_set_vesting_bounds |-> Launchpad("set_vesting_bounds", <<"u64", "u64">>),
   lib_set_dex_address |-> Launchpad("set_dex_address", <<"hash">>)]
\* without the project's id, which the entry takes first
update_info_params == Launchpad("update_project_info", Strings)

DexBuilders ==
  [lib_swap_xel |-> Call("LaunchDEX", "swap_xel_for_token", <<"hash", "u64">>, 1),
   lib_swap_token |-> Call("LaunchDEX", "swap_token_for_xel", <<"hash", "u64">>, 1),
   lib_add_liquidity |-> Call("LaunchDEX", "add_liquidity", <<"hash">>, 2),
   lib_set_swap_fee |-> Dex("set_swap_fee", One),
   lib_set_trade_bounds |-> Dex("set_trade_bounds", <<"u64", "u64", "u64", "u64", "u64", "u64">>),
   lib_set_launchpad |-> Dex("set_launchpad", <<"addr">>),
   lib_withdraw_fees |-> Dex("withdraw_fees", <<"hash", "u64", "u64">>)]

\* what only another contract may call, which the tables leave out
CrossBuilders ==
  [create_pool |-> Dex("create_pool", <<"hash">>),
   set_pool_buys_paused |-> Dex("set_pool_buys_paused", <<"hash", "bool">>)]

\* its builders are of deposits, the parameters are the caller's
CommunityBuilders ==
  [lib_launch |-> Call("CommunityLaunch", "launch_coin", Strings \o <<"str", "str", "u64", "u64">>, 1),
   lib_coin_buy |-> Call("CommunityLaunch", "buy", <<"u64", "u64">>, 1),
   lib_coin_sell |-> Call("CommunityLaunch", "sell", <<"u64", "u64">>, 1)]

Calls ==
  Commands @@ LaunchpadBuilders @@ DexBuilders @@ CommunityBuilders
  @@ [lib_update_info |-> update_info_params]

\* MIXER_ENTRY_IDS[entry] and the like: a KeyError when there is none
Known(c) == Calls[c].entry \in DOMAIN Ids[Calls[c].to]
Reached(c) == Ids[Calls[c].to][Calls[c].entry]

\* what the virtual machine makes of it: an entry, the arguments it declares,
\* the assets it asks for
Suits(c) ==
  LET chunk == Reached(c) IN
  /\ chunk \in TxEntries(Calls[c].to)
  /\ LET f == Functions[Calls[c].to][chunk]
     IN f.args = Calls[c].args /\ f.takes <= Calls[c].pays

-----------------------------------------------------------------------------
\* Every call reaches the entry it names with the arguments it declares, and
\* every table is its contract's: chunk by chunk in the compiler's numbering, in
\* the same order in the other.  What a contract calls in another is public.
TablesExact ==
  /\ \A c \in DOMAIN Functions :
       /\ {Ids[c][n] : n \in DOMAIN Ids[c]} = TxEntries(c)
       /\ \A n \in DOMAIN Ids[c] : Functions[c][Ids[c][n]].name = n
       /\ \A n, p \in DOMAIN AltIds[c] : AltIds[c][n] < AltIds[c][p] <=> Ids[c][n] < Ids[c][p]
  /\ \A n \in DOMAIN CrossCalls :
       /\ Functions["LaunchDEX"][CrossCalls[n]].name = n
       /\ Functions["LaunchDEX"][CrossCalls[n]].kind = "pub"
  /\ \A n \in DOMAIN CrossBuilders :
       Functions["LaunchDEX"][CrossCalls[n]].args = CrossBuilders[n].args
EntriesMeant(cmds) ==
  /\ TablesExact
  /\ \A cmd \in cmds :
       /\ cmd # "lib_update_info" => Suits(cmd)
       /\ Functions[Calls[cmd].to][Reached(cmd)].name = Calls[cmd].entry
=============================================================================

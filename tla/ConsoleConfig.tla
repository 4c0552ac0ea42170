---------------------------- MODULE ConsoleConfig ----------------------------
(***************************************************************************)
(* The one configuration file of the two consoles, config.json, and the    *)
(* wallet that xvault.py sets up and is to bring back when it is down.     *)
(* Each console starts from its defaults, reads the keys it declares, and  *)
(* writes all of its memory whenever it saves; some screens read and save  *)
(* a configuration of their own.  A file being written is empty for a      *)
(* moment, and a file that cannot be read counts as no file.  Of the keys  *)
(* only one console uses, a configuration says here whether it has them;   *)
(* services, contracts, network, vlt_asset, mode and miner_threads, which  *)
(* no step here reads, are left out.                                       *)
(* A console ends at a menu: a kill within a screen is left out.           *)
(***************************************************************************)
EXTENDS Naturals, Functions

CONSTANTS XConsoles, MConsoles,  \* xvault and xvault-miner processes
          MayOverlap,            \* whether two consoles may be open at once
          Local, Public,         \* the default endpoint, the public node
          Urls,                  \* endpoints and wallets a user enters
          MaxWallets             \* bound: passwords made up

VARIABLES
  file,     \* config.json: a function on keys, or None, or Torn
  mem,      \* [console -> cfg.data]
  pc,       \* [console -> [at, out]]: the screen, and what save is writing
  firstRun, \* [xvault console -> first_run]: not set up
  wallet,   \* the managed wallet's directory: its password, 0 while there is none
  up,       \* whether the managed wallet runs
  made,     \* passwords made up so far
  latest    \* history: [key -> the values entered or found last]

vars == <<file, mem, pc, firstRun, wallet, up, made, latest>>

Processes == XConsoles \cup MConsoles

None == << >>
Torn == [torn |-> TRUE]
NoKeys == << >>
Blank == ""
Some == "some"

Shared == {"rpc_url", "wallet_url", "wallet_cred", "miner_address"}

\* a configuration, with some of its values given
Over(given, cfg) ==
  [k \in DOMAIN given \cup DOMAIN cfg |-> IF k \in DOMAIN given THEN given[k] ELSE cfg[k]]

Undeclared_(c) ==
  Over(IF c \in XConsoles THEN [wallet_cred |-> "wallet"] ELSE [miner_endpoint |-> Some],
       [rpc_url |-> Local, wallet_url |-> IF c \in XConsoles THEN Local ELSE Blank,
        miner_address |-> Blank])

\* Config.__init__; wallet_cred is wallet_user and wallet_pass
Default(c) ==
  Over(IF c \in XConsoles THEN NoKeys ELSE [miner_endpoint |-> Some],
       [rpc_url |-> Local, wallet_url |-> IF c \in XConsoles THEN Local ELSE Blank,
        wallet_cred |-> "wallet", miner_address |-> Blank])

Has(cfg, k) == k \in DOMAIN cfg

\* Config.load: of the keys in memory, those the file has
Loaded(cfg) == Over(Restrict(file, DOMAIN cfg \cap DOMAIN file), cfg)
Load(c) == Loaded(Default(c))

Closed == [at |-> "closed", out |-> None]

Init ==
  /\ file = None
  /\ mem = [c \in Processes |-> NoKeys]
  /\ pc = [c \in Processes |-> Closed]
  /\ firstRun = [c \in XConsoles |-> FALSE]
  /\ wallet = 0 /\ up = FALSE /\ made = 0
  /\ latest = NoKeys

-----------------------------------------------------------------------------
managed == <<wallet, up, made>>
others == <<firstRun, managed>>

At(c, at) == pc[c].at = at /\ pc[c].out = None

\* Config.save opens the file for writing, which empties it, and writes out
SaveTo(c, cfg, next) ==
  /\ file' = Torn
  /\ pc' = [pc EXCEPT ![c].at = next, ![c].out = cfg]

Written(c) ==
  /\ pc[c].out # None
  /\ file' = pc[c].out
  /\ pc' = [pc EXCEPT ![c].out = None]
  /\ UNCHANGED <<mem, others, latest>>

\* values given: of a shared key, which one stands is remembered
Stands(given) == [k \in Shared \cap DOMAIN given |-> {given[k]}]

\* cfg.data.update(given)
Keep(c, given) ==
  /\ mem' = [mem EXCEPT ![c] = Over(given, @)]
  /\ latest' = Over(Stands(given), latest)

\* cfg.data.update(given); cfg.save()
Enter(c, given, next) == Keep(c, given) /\ SaveTo(c, mem'[c], next)

\* cfg.save() of what is there
Again(c, next) == SaveTo(c, mem[c], next) /\ UNCHANGED <<mem, latest>>

Skip(c, next) ==
  /\ pc' = [pc EXCEPT ![c].at = next]
  /\ UNCHANGED <<file, mem, latest>>

\* text_input: an empty answer keeps what is there
Answers(c, k) == Urls \cup {mem[c][k]}

Open(c, overrides) ==
  /\ At(c, "closed")
  /\ MayOverlap \/ \A d \in Processes : pc[d] = Closed
  /\ mem' = [mem EXCEPT ![c] = Over(overrides, Load(c))]
  /\ pc' = [pc EXCEPT ![c].at = "main"]
  /\ firstRun' = [d \in XConsoles |-> IF d = c THEN file = None ELSE firstRun[d]]
  /\ latest' = [k \in DOMAIN latest |->
                  latest[k] \cup (IF Has(overrides, k) THEN {overrides[k]} ELSE {})]
  /\ UNCHANGED <<file, managed>>

\* xvault.py takes no options; xvault-miner's hold until something is saved
OpenX(c) == c \in XConsoles /\ Open(c, NoKeys)
OpenM(c) ==
  /\ c \in MConsoles
  /\ \E keys \in SUBSET {"rpc_url", "wallet_url"} :
       \E overrides \in [keys -> Urls] : Open(c, overrides)

Quit(c) ==
  /\ At(c, IF c \in XConsoles THEN "menu" ELSE "main")
  /\ mem' = [mem EXCEPT ![c] = NoKeys]
  /\ pc' = [pc EXCEPT ![c] = Closed]
  /\ UNCHANGED <<file, others, latest>>

-----------------------------------------------------------------------------
(* The managed wallet. *)

\* ensure_wallet_alive, in every turn of xvault's main loop: the password in
\* memory opens the wallet if it is the wallet's
EnsureWalletAlive(c) ==
  /\ At(c, "main") /\ c \in XConsoles
  /\ \/ UNCHANGED up
     \/ /\ ~firstRun[c] /\ ~up
        /\ Has(mem[c], "wallet_password") /\ mem[c]["wallet_password"] = wallet
        /\ up' = TRUE
  /\ Skip(c, "menu")
  /\ UNCHANGED <<firstRun, wallet, made>>

WalletEnds ==
  /\ up /\ up' = FALSE
  /\ UNCHANGED <<file, mem, pc, firstRun, wallet, made, latest>>

-----------------------------------------------------------------------------
(* run_onboarding of xvault: wallet, daemon, miner, contracts, services.   *)
(* Every step is followed by the next, whether it succeeded or not; that   *)
(* the wallet's failed is kept in first_run.                               *)

\* offered in a first run and while no wallet answers
Setup(c) ==
  /\ At(c, "menu") /\ c \in XConsoles
  /\ Skip(c, "wallet")
  /\ UNCHANGED others

\* what ensure_wallet returns: whether there is a working wallet
Ensures(c, ok) == At(c, "wallet") /\ firstRun' = [firstRun EXCEPT ![c] = ~ok]

\* a wallet answers at the configured URL: an address already there stays.
\* An address goes by the URL of its wallet.
Detected(c) ==
  /\ Ensures(c, TRUE) /\ mem[c]["wallet_url"] # Blank
  /\ LET addr == IF mem[c]["miner_address"] # Blank THEN mem[c]["miner_address"]
                 ELSE mem[c]["wallet_url"]
     IN Keep(c, [miner_address |-> addr])
  /\ pc' = [pc EXCEPT ![c].at = "daemon"]
  /\ UNCHANGED <<file, managed>>

\* "connect", when the wallet answers with its address; after a refusal the
\* user may try again
Connect(c) ==
  /\ Ensures(c, TRUE)
  /\ \E w \in Answers(c, "wallet_url") \ {Blank}, cred \in {"own", mem[c]["wallet_cred"]} :
       Enter(c, [wallet_url |-> w, wallet_cred |-> cred, miner_address |-> w], "daemon")
  /\ UNCHANGED managed

\* "readonly"
ReadOnly(c) ==
  /\ Ensures(c, TRUE)
  /\ Enter(c, [wallet_url |-> Blank, miner_address |-> Blank], "daemon")
  /\ UNCHANGED managed

\* no choice, no binary, no retry
NoWallet(c) ==
  /\ Ensures(c, FALSE)
  /\ Skip(c, "daemon")
  /\ UNCHANGED managed

\* "bootstrap": a wallet is launched on a free port with a new password, in a
\* directory (one for each network, here of one) that may hold an older one.  A new wallet is made with it, an old
\* one does not open; nothing is saved unless the wallet answers in time.
Launch == made < MaxWallets /\ made' = made + 1 /\ wallet' = IF wallet = 0 THEN made' ELSE wallet

Bootstrapped(c) ==
  /\ Ensures(c, TRUE)
  /\ Launch /\ wallet' = made'
  /\ up' = TRUE
  /\ \E url \in Urls :
       Enter(c, [wallet_url |-> url, wallet_cred |-> "wallet", miner_address |-> url,
                 wallet_password |-> made'], "daemon")

SavesEarly_(c) ==
  /\ Ensures(c, FALSE)
  /\ Launch
  /\ Enter(c, [wallet_password |-> made'], "daemon")
  /\ UNCHANGED up
NoAnswer(c) ==
  /\ Ensures(c, FALSE)
  /\ Launch
  /\ up' \in {up, up \/ wallet' = made'}
  /\ Skip(c, "daemon")

\* of the candidates the first that answers; if none does, a URL entered that
\* answers, the default kept, or nothing
EnsureDaemon(c) ==
  /\ At(c, "daemon")
  /\ \/ \E url \in {mem[c]["rpc_url"], Public, Local} :
          Enter(c, [rpc_url |-> url], "miner")
     \/ \E url \in Urls \cup {Local} : Enter(c, [rpc_url |-> url], "miner")
     \/ Again(c, "miner")
     \/ Skip(c, "miner")
  /\ UNCHANGED others

EnsureMinerConfigured(c) ==
  /\ At(c, "miner")
  /\ \/ /\ ~Has(mem[c], "miner_binary")
        /\ Enter(c, [miner_binary |-> Some], "contracts")
     \/ Skip(c, "contracts")
  /\ UNCHANGED others

\* the guided setup of xvault-miner, every field
Fields(c) ==
  {[rpc_url |-> rpc, wallet_url |-> w, miner_address |-> addr,
    miner_endpoint |-> Some] :
     rpc \in Answers(c, "rpc_url"), w \in Answers(c, "wallet_url"),
     addr \in Answers(c, "miner_address")}

InteractiveSetup(c, next) == \E fields \in Fields(c) : Enter(c, fields, next)

\* without a bundle the guided setup takes its place, and it may fail
ApplyBundledContracts(c) ==
  /\ At(c, "contracts")
  /\ \/ Again(c, "services")
     \/ InteractiveSetup(c, "services")
     \/ Skip(c, "services")
  /\ UNCHANGED others

ChooseServices(c) ==
  /\ At(c, "services")
  /\ Enter(c, [miner_endpoint |-> Some], "reload")
  /\ UNCHANGED others

\* run_onboarding of xvault.py reads the file again
Reload(c) ==
  /\ At(c, "reload")
  /\ mem' = [mem EXCEPT ![c] = Loaded(@)]
  /\ pc' = [pc EXCEPT ![c].at = "main"]
  /\ UNCHANGED <<file, others, latest>>

-----------------------------------------------------------------------------
(* Other screens that save. *)

\* Settings, "rpc"
EditEndpoints(c) ==
  /\ At(c, "menu") /\ c \in XConsoles
  /\ \E rpc \in Answers(c, "rpc_url"), w \in Answers(c, "wallet_url") :
       Enter(c, [rpc_url |-> rpc, wallet_url |-> w], "main")
  /\ UNCHANGED others

\* Settings, "reset"
ResetConfiguration(c) ==
  /\ At(c, "menu") /\ c \in XConsoles
  /\ file' = None
  /\ mem' = [mem EXCEPT ![c] = Default(c)]
  /\ pc' = [pc EXCEPT ![c].at = "main"]
  /\ latest' = NoKeys
  /\ UNCHANGED others

\* what start_miner adds, unless it runs or there is no binary of it
Started == [miner_binary |-> Some]

\* Miner tools, "start" and "threads": on a configuration read anew
MinerTools(c) ==
  /\ At(c, "menu") /\ c \in XConsoles
  /\ LET cfg == Load(c)
     IN \/ cfg["miner_address"] # Blank /\ SaveTo(c, Over(Started, cfg), "main")
        \/ SaveTo(c, cfg, "main")
  /\ UNCHANGED <<mem, others, latest>>

\* any other screen of xvault
OtherScreen(c) ==
  /\ At(c, "menu") /\ c \in XConsoles
  /\ Skip(c, "main")
  /\ UNCHANGED others

\* xvault-miner: "s", --setup, or an answer of check_contracts
Reconfigure(c) ==
  /\ At(c, "main") /\ c \in MConsoles
  /\ InteractiveSetup(c, "main")
  /\ UNCHANGED others

\* xvault-miner's "startminer": without an address the binary is only noted
StartMiner(c) ==
  /\ At(c, "main") /\ c \in MConsoles
  /\ \/ mem[c]["miner_address"] # Blank /\ Enter(c, Started, "main")
     \/ /\ mem[c]["miner_address"] = Blank
        /\ mem' = [mem EXCEPT ![c] = Over([miner_binary |-> Some], @)]
        /\ UNCHANGED <<file, pc, latest>>
  /\ UNCHANGED others

-----------------------------------------------------------------------------
Onboarding(c) ==
  \/ Setup(c)
  \/ Detected(c) \/ Connect(c) \/ ReadOnly(c) \/ NoWallet(c)
  \/ Bootstrapped(c) \/ NoAnswer(c)
  \/ EnsureDaemon(c) \/ EnsureMinerConfigured(c)
  \/ ApplyBundledContracts(c) \/ ChooseServices(c) \/ Reload(c)

Screens(c) ==
  \/ OpenX(c) \/ OpenM(c) \/ Quit(c) \/ Written(c)
  \/ EditEndpoints(c) \/ ResetConfiguration(c) \/ MinerTools(c) \/ OtherScreen(c)
  \/ Reconfigure(c) \/ StartMiner(c)
  \/ EnsureWalletAlive(c)

Next ==
  \/ \E c \in XConsoles : Onboarding(c)
  \/ \E c \in Processes : Screens(c)
  \/ WalletEnds

Spec == Init /\ [][Next]_vars

-----------------------------------------------------------------------------
(* Properties. *)

\* What was entered in one console is what the other finds.  Each rewrites
\* the whole file from what it declares and what it holds in memory, and two
\* screens of xvault write a configuration the main loop does not see; used
\* one after the other, none of that loses an endpoint, a credential or the
\* mining address, or puts an older one back.
SharedKept ==
  (file # Torn /\ \A c \in Processes : pc[c].at \in {"closed", "main", "menu"}) =>
    \A k \in DOMAIN latest : Has(file, k) /\ file[k] \in latest[k]

\* A password that is saved or held opens the wallet: launching a wallet over
\* an older one, or one that answers too late, does not replace it.
PasswordOpens ==
  \A cfg \in {file} \cup {mem[c] : c \in Processes} :
    Has(cfg, "wallet_password") => cfg["wallet_password"] = wallet
=============================================================================

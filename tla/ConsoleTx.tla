------------------------------ MODULE ConsoleTx ------------------------------
(***************************************************************************)
(* How a console (xvault.py) carries out one operation: the Backend finds  *)
(* the contract, WalletClient.invoke (protocol.py) builds and broadcasts   *)
(* with retries, run_tx waits for the block, asks the chain whether the    *)
(* call was applied, and writes the transaction into the local history     *)
(* (tx_ledger.py), a file all consoles of the machine share.  The wallet   *)
(* process and the daemon are external.  Every reply may be lost, every    *)
(* wait may time out, and contracts are upgraded while consoles run.       *)
(***************************************************************************)
EXTENDS ConsoleCalls, SequencesExt, FiniteSetsExt

CONSTANTS Consoles,
          Picks,              \* the operations its users ask for
          ATTEMPTS,           \* _with_retries: builds of one operation
          POSTS,              \* _post: posts of one build
          MAX_ENTRIES,        \* what tx_history.json keeps
          MayOverlap,         \* whether two consoles write the history at once
          MaxAsks, MaxFaults, MaxUpgrades   \* bounds

ASSUME HistoryRoom == MAX_ENTRIES \in Nat \ {0}

VARIABLES
  con,      \* [console -> what it does, see AtMain]
  sent,     \* transactions the daemon accepted, in nonce order: [ask, op, ver]
  fate,     \* [index of sent -> "pool", "ok" or "reverted"]
  wnonce,   \* the nonce the wallet has stored
  cur,      \* [contract -> the deployed version], which the registry serves
  bundle,   \* [contract -> the version in the published network/testnet.json]
  history,  \* tx_history.json: sequence of [seq, tx]
  asks,     \* history: operations asked for
  faults,   \* history: replies lost and services that did not answer
  lost,     \* history: the asks that had a reply of the wallet lost
  late,     \* history: the asks whose fate the chain did not tell in time
  told      \* history: what users were told, [ask, tx, says]

vars == <<con, sent, fate, wnonce, cur, bundle, history, asks, faults, lost, late, told>>
Chain == <<sent, fate, wnonce, cur, bundle>>
Told == <<asks, lost, late, told>>

Contracts == {Ops[op].to : op \in Picks}
Zero == [n \in Contracts |-> 0]
\* with no operation under way
Quiet(pc, screen, map, reads) ==
  [pc |-> pc, screen |-> screen, map |-> map, reads |-> reads,
   op |-> "none", ask |-> 0, posts |-> 0, tries |-> 0, nonce |-> 0, tx |-> 0,
   says |-> "none", file |-> <<>>, then |-> "none"]
\* in the main menu, or not running
AtMain == Quiet("main", screen_vault, Zero, Zero)

Init ==
  /\ con = [c \in Consoles |-> AtMain]
  /\ sent = <<>> /\ fate = <<>> /\ wnonce = 0
  /\ cur = Zero /\ bundle = Zero
  /\ history = <<>>
  /\ asks = 0 /\ faults = 0 /\ lost = {} /\ late = {} /\ told = {}

Mined == Cardinality({i \in DOMAIN fate : fate[i] # "pool"})

\* a service that does not answer, or an answer that is lost
Fault == faults < MaxFaults /\ faults' = faults + 1

Goto(c, pc) == con' = [con EXCEPT ![c].pc = pc]

-----------------------------------------------------------------------------
(* Backend.__init__, done again at every turn of the main menu: the        *)
(* addresses the screens work with.                                        *)

\* keys of network/testnet.json
BundleKey ==
  [PSM |-> "psm", VaultEngineV3 |-> "vault_engine", VaultSwapV2 |-> "vault_swap",
   SavingsRate |-> "savings_rate", PrivacyMixer |-> "privacy_mixer",
   TreasuryVault |-> "treasury_vault", AssetVault |-> "asset_vault", FlashLoan |-> "flash_loan",
   FlashCallback |-> "flash_callback", PeerLoan |-> "peer_loan",
   SyndicatePool |-> "syndicate_pool", SealedBidAuction |-> "sealed_bid_auction",
   XelisVaultMiner |-> "miner", FaucetContract |-> "faucet",
   GovernanceVault |-> "governance_vault", Governor |-> "governor", Timelock |-> "timelock",
   VaultChat |-> "vault_chat", AirdropTracker |-> "airdrop_tracker"]

\* the names asked of the registry that are keys of operations too
RegistryNames ==
  {"XelisVaultMiner", "VaultEngineV3", "PSM", "SavingsRate", "PrivacyMixer",
   "TreasuryVault", "AssetVault", "FaucetContract", "AirdropTracker"}

\* contracts: the registry's answer, else the bundle, else what the code has
\* built in; a read looks under the bundle's key
Addresses(answered) ==
  LET registry == [n \in {m \in RegistryNames \cap Contracts : answered} |-> cur[n]]
      file == [k \in {BundleKey[n] : n \in Contracts} |->
                 bundle[CHOOSE n \in Contracts : BundleKey[n] = k]]
  IN registry @@ file @@ Zero

Enter(c) ==
  /\ con[c].pc = "main"
  /\ \E answered \in BOOLEAN, screen \in Screens :
       /\ (screen.offers \cup screen.holding \cup screen.newcomer) \cap Picks # {}
       /\ IF answered THEN UNCHANGED faults ELSE Fault
       /\ LET known == Addresses(answered)
          IN con' = [con EXCEPT ![c] =
               [@ EXCEPT !.pc = "menu", !.screen = screen,
                         !.map = [n \in Contracts |-> known[n]],
                         !.reads =
                           [n \in Contracts |->
                              known[IF answered /\ n \in RegistryNames THEN n ELSE BundleKey[n]]]]]
  /\ UNCHANGED <<Chain, history, Told>>

\* back to the main menu, or the window is closed in the middle of anything
Leave(c) ==
  /\ con[c].pc # "main"
  /\ con' = [con EXCEPT ![c] = AtMain]
  /\ UNCHANGED <<Chain, history, faults, Told>>

-----------------------------------------------------------------------------
(* One operation. *)

\* the user is told how it ended; then comes what is sent behind it
Tell(c, says) ==
  /\ told' = told \cup {[ask |-> con[c].ask, tx |-> con[c].tx, says |-> says]}
  /\ con' = [con EXCEPT ![c] = Quiet(IF @.then = "none" THEN "menu" ELSE "next",
                                    @.screen, @.map, @.reads)]

Start(c, op, then) ==
  /\ asks' = asks + 1
  /\ IF op \in Unbuildable
       THEN /\ told' = told \cup {[ask |-> asks + 1, tx |-> 0, says |-> "rejected"]}
            /\ UNCHANGED con
       ELSE /\ con' = [con EXCEPT ![c] = [@ EXCEPT !.pc = "catchup", !.op = op,
                                           !.ask = asks + 1, !.then = then]]
            /\ UNCHANGED told

\* a position the screen sees: a vault opened, or a profile made, in the
\* contract it reads
Holds(c) ==
  \E i \in DOMAIN sent :
    /\ sent[i].op \in {"vault_deposit", "miner_register"} /\ fate[i] = "ok"
    /\ sent[i].ver = con[c].reads[Ops[sent[i].op].to]

Choose(c) ==
  /\ con[c].pc = "menu" /\ asks < MaxAsks
  /\ \E op \in Picks :
       /\ \/ op \in con[c].screen.offers
          \/ op \in con[c].screen.holding /\ Holds(c)
          \/ op \in con[c].screen.newcomer /\ ~Holds(c)
       /\ Start(c, op, Then(con[c].screen, op))
  /\ UNCHANGED <<Chain, history, faults, lost, late>>

\* the registration that follows the bond, whatever became of the bond
FollowUp(c) ==
  /\ con[c].pc = "next"
  /\ Start(c, "chat_register_relayer", "none")
  /\ UNCHANGED <<Chain, history, faults, lost, late>>

-----------------------------------------------------------------------------
(* WalletClient.invoke.  An exception of it reads "was rejected by the     *)
(* chain", whatever the wallet did.                                        *)

\* the wallet's nonce has caught up with the chain's, or two minutes passed
WaitsForever_(c) ==
  /\ con[c].pc = "catchup" /\ wnonce = Len(sent)
  /\ Goto(c, "build")
  /\ UNCHANGED <<Chain, history, faults, Told>>
CatchUp(c) ==
  /\ con[c].pc = "catchup"
  /\ Goto(c, "build")
  /\ UNCHANGED <<Chain, history, faults, Told>>

WalletGone(c) ==
  /\ con[c].pc = "catchup" /\ Fault
  /\ Tell(c, "rejected")
  /\ UNCHANGED <<Chain, history, asks, lost, late>>

Accepted(c) ==
  /\ sent' = Append(sent, [ask |-> con[c].ask, op |-> con[c].op,
                           ver |-> con[c].map[Ops[con[c].op].to]])
  /\ fate' = Append(fate, "pool")

\* one more build of the same operation, if any is left
Again(c) ==
  IF con[c].tries + 1 < ATTEMPTS
    THEN /\ con' = [con EXCEPT ![c].tries = @ + 1, ![c].posts = 0]
         /\ UNCHANGED told
    ELSE Tell(c, "rejected")

\* build_transaction with broadcast: the daemon takes it at the next nonce
Build(c) ==
  /\ con[c].pc = "build"
  /\ Accepted(c)
  /\ con' = [con EXCEPT ![c].pc = "broadcast", ![c].tx = Len(sent) + 1]
  /\ UNCHANGED <<wnonce, cur, bundle, history, faults, Told>>

\* no answer comes, the wallet having done it or not
BuildUnanswered(c) ==
  /\ con[c].pc = "build" /\ Fault
  /\ \/ Accepted(c)
     \/ UNCHANGED <<sent, fate>>
  /\ lost' = lost \cup {con[c].ask}
  /\ Again(c)
  /\ UNCHANGED <<wnonce, cur, bundle, history, asks, late>>

\* the answer is not JSON: _post posts again by itself
BuildGarbled(c) ==
  /\ con[c].pc = "build" /\ Fault
  /\ \/ Accepted(c)
     \/ UNCHANGED <<sent, fate>>
  /\ lost' = lost \cup {con[c].ask}
  /\ IF con[c].posts + 1 < POSTS
       THEN con' = [con EXCEPT ![c].posts = @ + 1] /\ UNCHANGED told
       ELSE Again(c)
  /\ UNCHANGED <<wnonce, cur, bundle, history, asks, late>>

\* refused for the nonce or a proof that raced: worth another try
BuildRaced(c) ==
  /\ con[c].pc = "build" /\ wnonce < Len(sent)
  /\ Again(c)
  /\ UNCHANGED <<Chain, history, faults, asks, lost, late>>

\* refused for good: not enough funds
BuildRefused(c) ==
  /\ con[c].pc = "build"
  /\ Tell(c, "rejected")
  /\ UNCHANGED <<Chain, history, faults, asks, lost, late>>

\* the nonce to wait beyond is read after the broadcast
ReadNonce(c) ==
  /\ con[c].pc = "broadcast"
  /\ con' = [con EXCEPT ![c].pc = "advance", ![c].nonce = wnonce]
  /\ UNCHANGED <<Chain, history, faults, Told>>

\* the wallet's nonce passes it, or three minutes do
Rebuilds_(c) ==
  /\ con[c].pc = "advance"
  /\ Goto(c, IF wnonce > con[c].nonce THEN "wait" ELSE "build")
  /\ UNCHANGED <<Chain, history, faults, Told>>
Advanced(c) ==
  /\ con[c].pc = "advance" /\ con[c].screen.tells = "outcome"
  /\ Goto(c, "wait")
  /\ UNCHANGED <<Chain, history, faults, Told>>

\* "Miner profile created", whatever the chain will make of it
AdvancedMiner(c) ==
  /\ con[c].pc = "advance" /\ con[c].screen.tells = "sent"
  /\ Tell(c, "sent")
  /\ UNCHANGED <<Chain, history, faults, asks, lost, late>>

\* the wallet does not say its nonce
NonceUnanswered(c) ==
  /\ con[c].pc \in {"broadcast", "advance"} /\ Fault
  /\ lost' = lost \cup {con[c].ask}
  /\ Tell(c, "rejected")
  /\ UNCHANGED <<Chain, history, asks, late>>

-----------------------------------------------------------------------------
(* run_tx, once the operation is broadcast.                                *)

\* wait_confirm finds it in a block, or gives up
Confirm(c) ==
  /\ con[c].pc = "wait"
  /\ \/ fate[con[c].tx] # "pool" /\ Goto(c, "verify") /\ UNCHANGED late
     \/ /\ late' = late \cup {con[c].ask}
        /\ con' = [con EXCEPT ![c].pc = "load", ![c].says = "pending"]
  /\ UNCHANGED <<Chain, history, faults, asks, lost, told>>

\* the daemon does not answer: the screen is left with an error
ConfirmUnanswered(c) ==
  /\ con[c].pc = "wait" /\ Fault
  /\ con' = [con EXCEPT ![c] = AtMain]
  /\ UNCHANGED <<Chain, history, Told>>

\* verify_onchain: an error exit in the logs, a clean one, or no logs in time,
\* which counts as clean
Unverified_(c) ==
  /\ con[c].pc = "verify"
  /\ con' = [con EXCEPT ![c].pc = "load", ![c].says = "confirmed"]
  /\ UNCHANGED <<Chain, history, faults, Told>>
Verify(c) ==
  /\ con[c].pc = "verify"
  /\ LET reverted == fate[con[c].tx] = "reverted" IN
     \/ reverted /\ Tell(c, "reverted") /\ UNCHANGED late
     \/ /\ ~reverted /\ UNCHANGED <<late, told>>
        /\ con' = [con EXCEPT ![c].pc = "load", ![c].says = "confirmed"]
     \/ /\ late' = late \cup {con[c].ask} /\ UNCHANGED told
        /\ con' = [con EXCEPT ![c].pc = "load", ![c].says = "confirmed"]
  /\ UNCHANGED <<Chain, history, faults, asks, lost>>

\* tx_ledger.record reads the file ...
Load(c) ==
  /\ con[c].pc = "load"
  /\ MayOverlap \/ \A d \in Consoles : con[d].pc # "save"
  /\ con' = [con EXCEPT ![c].pc = "save", ![c].file = history]
  /\ UNCHANGED <<Chain, history, faults, Told>>

\* ... and replaces it by what it read and the new line
KeepsOldest_(c) ==
  LET file == con[c].file
      line == [seq |-> IF file = <<>> THEN 1 ELSE Last(file).seq + 1, tx |-> con[c].tx]
      all == Append(file, line)
  IN /\ con[c].pc = "save"
     /\ history' = IF \E i \in DOMAIN file : file[i].tx = con[c].tx THEN history
                   ELSE IF Len(all) > MAX_ENTRIES THEN file ELSE all
     /\ Tell(c, con[c].says)
     /\ UNCHANGED <<Chain, faults, asks, lost, late>>
SaveLine(c) ==
  LET file == con[c].file
      line == [seq |-> IF file = <<>> THEN 1 ELSE Last(file).seq + 1, tx |-> con[c].tx]
      all == Append(file, line)
  IN /\ con[c].pc = "save"
     /\ history' = IF \E i \in DOMAIN file : file[i].tx = con[c].tx THEN history
                   ELSE IF Len(all) > MAX_ENTRIES THEN Tail(all) ELSE all
     /\ Tell(c, con[c].says)
     /\ UNCHANGED <<Chain, faults, asks, lost, late>>

-----------------------------------------------------------------------------
(* The chain, the wallet and the releases. *)

\* a call the contract cannot take reverts; any call may
Mine ==
  /\ Mined < Len(sent)
  /\ \E out \in IF Fits(sent[Mined + 1].op) THEN {"ok", "reverted"} ELSE {"reverted"} :
       fate' = [fate EXCEPT ![Mined + 1] = out]
  /\ UNCHANGED <<con, sent, wnonce, cur, bundle, history, faults, Told>>

WalletSync ==
  /\ wnonce < Mined /\ wnonce' = Mined
  /\ UNCHANGED <<con, sent, fate, cur, bundle, history, faults, Told>>

Upgrade(n) ==
  /\ cur[n] < MaxUpgrades
  /\ cur' = [cur EXCEPT ![n] = @ + 1]
  /\ UNCHANGED <<con, sent, fate, wnonce, bundle, history, faults, Told>>

Publish ==
  /\ bundle # cur /\ bundle' = cur
  /\ UNCHANGED <<con, sent, fate, wnonce, cur, history, faults, Told>>

-----------------------------------------------------------------------------
Work(c) ==
  \/ FollowUp(c) \/ CatchUp(c) \/ WalletGone(c)
  \/ Build(c) \/ BuildUnanswered(c) \/ BuildGarbled(c) \/ BuildRaced(c) \/ BuildRefused(c)
  \/ ReadNonce(c) \/ Advanced(c) \/ AdvancedMiner(c) \/ NonceUnanswered(c)
  \/ Confirm(c) \/ ConfirmUnanswered(c) \/ Verify(c) \/ Load(c) \/ SaveLine(c)

Next ==
  \/ \E c \in Consoles : Enter(c) \/ Leave(c) \/ Choose(c) \/ Work(c)
  \/ Mine \/ WalletSync \/ (\E n \in Contracts : Upgrade(n)) \/ Publish

\* a console goes on with what it has begun: every wait of it ends by a timeout
Spec == Init /\ [][Next]_vars /\ \A c \in Consoles : WF_vars(Work(c))

-----------------------------------------------------------------------------
\* An operation a user asked for once reaches the chain twice only when an
\* answer of the wallet was lost: _with_retries repeats what was refused, never
\* what was taken.
OnceUnlessLost ==
  \A i, j \in DOMAIN sent : sent[i].ask = sent[j].ask => i = j \/ sent[i].ask \in lost

\* What run_tx tells is what the chain did: success is believed of a reverted
\* transaction only when the chain did not tell in time, a revert is one, and
\* "rejected" hides a transaction only when an answer was lost.
ToldTrue ==
  \A t \in told :
    /\ t.says \in {"confirmed", "pending"} /\ fate[t.tx] = "reverted" => t.ask \in late
    /\ t.says = "reverted" => fate[t.tx] = "reverted"
    /\ t.says = "rejected" /\ t.ask \in {sent[i].ask : i \in DOMAIN sent} => t.ask \in lost

\* tx_history.json misses nothing and repeats nothing: its last line has the
\* number of the transactions shown as sent, and it keeps the last MAX_ENTRIES
\* of them.
Shown == {t.tx : t \in {u \in told : u.says \in {"confirmed", "pending"}}}
HistoryKept ==
  /\ Len(history) = Min({Cardinality(Shown), MAX_ENTRIES})
  /\ history # <<>> => Last(history).seq = Cardinality(Shown)
  /\ \A i, j \in DOMAIN history :
       /\ history[i].tx \in Shown
       /\ i < j => history[i].seq < history[j].seq /\ history[i].tx # history[j].tx

\* Every operation asked for ends: the console is back in a menu, whatever the
\* wallet and the daemon do.
Answered == \A c \in Consoles : con[c].pc \notin {"main", "menu"} ~> con[c].pc \in {"main", "menu"}

\* xvault.py:278-279: "The operation needs funds attached to the transaction.
\* The CLI attaches them automatically".
FundsAttached == \A i \in DOMAIN sent : Ops[sent[i].op].pays >= Declared(sent[i].op).takes
=============================================================================

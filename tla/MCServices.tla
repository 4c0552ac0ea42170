------------------------------ MODULE MCServices ------------------------------
(***************************************************************************)
(* Kinds of behaviours of what runs on a user's machine: the operations of *)
(* the consoles and of the SDK's command line, the configuration consoles  *)
(* share, the background services they start and stop, and two of these,   *)
(* the relayer daemon and the oracle keeper with the feed it keeps.        *)
(***************************************************************************)
EXTENDS Services, SdkCalls

CONSTANTS a, b  \* two users of the chat

VARIABLE kind

consoleVars ==
  <<con, sent, fate, wnonce, cur, bundle, history, asks, faults, lost, late, told>>
relayerVars ==
  <<topo, inbox, count, pool, anchored, lastOnChain, ledger, ledgerFile, outbox, senders,
    thread, posted, noticed, ids, mishaps, resent>>
supervisorVars == <<open, job, proc, pidFile, log, endpoint, crashes>>
configVars == <<config, mem, desk, firstRun, wallet, up, made, latest>>
sdkVars == <<term, mempool, mined, nonce, runs, losses, unsure, says>>
keeperVars == <<height, feed, flight, slashed, keeper, saved, troubles, accepted, unread>>
mcVars ==
  <<kind, consoleVars, relayerVars, supervisorVars, configVars, sdkVars, keeperVars>>

Letter(from, to, blob) == [from |-> from, to |-> to, blob |-> blob]
TwoLetters == {Letter(a, b, "m1"), Letter(b, b, "m2"), Letter(a, a, "m2")}

\* settings in proportion to the real ones: a round every 5 blocks where the
\* keeper has 200, with prices that deviate too much and that trip the breaker
TwoProviders == <<"p1", "p2">>
EvenStakes == [p1 |-> 100, p2 |-> 100]

\* the console whose users bond as relayers, while contracts are upgraded
D == INSTANCE ConsoleTx WITH
       Picks <- {"chat_stake_bond", "chat_set_relayer"}, MaxAsks <- 1, MaxUpgrades <- 1

\* the miner's console: who has no profile registers, who has one claims
M == INSTANCE ConsoleTx WITH
       Picks <- {"miner_register", "miner_claim_rewards"}, MaxAsks <- 2, MaxUpgrades <- 0

\* two commands of one account on their way together, and every command alone
Suiting == {c \in DOMAIN Calls : Known(c) /\ Suits(c)}
K == INSTANCE SdkCli WITH
       Asked <- DOMAIN Calls, Nameless <- {c \in DOMAIN Calls : ~Known(c)}, MaxRuns <- 1

Operating(A) ==
  A /\ UNCHANGED <<kind, relayerVars, supervisorVars, configVars, sdkVars, keeperVars>>
Relaying(A) ==
  /\ kind = "relayer" /\ A
  /\ UNCHANGED <<kind, consoleVars, supervisorVars, configVars, sdkVars, keeperVars>>
Supervising(A) ==
  /\ kind = "supervisor" /\ A
  /\ UNCHANGED <<kind, consoleVars, relayerVars, configVars, sdkVars, keeperVars>>
Configuring(A) ==
  /\ kind = "config" /\ A
  /\ UNCHANGED <<kind, consoleVars, relayerVars, supervisorVars, sdkVars, keeperVars>>
Commanding(k, A) ==
  /\ kind = k /\ A
  /\ UNCHANGED <<kind, consoleVars, relayerVars, supervisorVars, configVars, keeperVars>>
Feeding(A) ==
  /\ kind = "keeper" /\ A
  /\ UNCHANGED <<kind, consoleVars, relayerVars, supervisorVars, configVars, sdkVars>>

MCInit ==
  /\ R!Init /\ S!Init /\ C!Init /\ J!Init /\ P!KeeperInit
  /\ \/ /\ Init
        /\ kind \in {"vaults", "relayer", "supervisor", "config", "two commands", "any command",
                    "keeper"}
     \/ D!Init /\ kind = "chat"
     \/ M!Init /\ kind = "miner"

MCNext ==
  \/ kind = "vaults" /\ Operating(Next)
  \/ kind = "chat" /\ Operating(D!Next)
  \/ kind = "miner" /\ Operating(M!Next)
  \/ Feeding(P!KeeperNext)
  \/ Relaying(R!Next) \/ Supervising(S!Next) \/ Configuring(C!Next)
  \/ Commanding("two commands", J!Next) \/ Commanding("any command", K!Next)

MCSpec ==
  /\ MCInit /\ [][MCNext]_mcVars
  /\ \A c \in Consoles :
       /\ WF_mcVars(kind = "vaults" /\ Operating(Work(c)))
       /\ WF_mcVars(kind = "chat" /\ Operating(D!Work(c)))
       /\ WF_mcVars(kind = "miner" /\ Operating(M!Work(c)))

\* every entry the SDK calls is one the contract has, with its parameters
EntryMeant == EntriesMeant({mempool[i].cmd : i \in DOMAIN mempool})
ActionsKnown == J!ActionsKnown
=============================================================================

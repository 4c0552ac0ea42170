------------------------------- MODULE Services -------------------------------
(***************************************************************************)
(* What runs on a user's machine: the operations of the consoles, the      *)
(* configuration they share, the background services they start and stop,  *)
(* two of these, the relayer daemon and the oracle keeper with its feed,   *)
(* and the SDK's command line; and what they promise together.             *)
(***************************************************************************)
EXTENDS ConsoleTx

CONSTANTS
  XConsoles, MConsoles, Local, Public, Urls,     \* the configuration
  Desks,                                         \* the consoles that start services
  Users, Letters, Self, Threads,                 \* the relayer
  ANCHOR_MIN_MESSAGES, ANCHOR_MIN_SENDERS, ANCHOR_RATE_LIMIT_BLOCKS, MAX_ONCHAIN_MESSAGES,
  CallBlocks,
  Providers, Stake, Quotes, MinQuote, MaxQuote,  \* the keeper and its feed
  AGG_BLOCKS, MAX_STALE, MAX_DEV, CB_THRESH, SUBMIT_EVERY, HEARTBEAT_EVERY, SEND_ATTEMPTS,
  Terminals, Asked, Nameless, Suited, TRIES,     \* the SDK's command line
  MaxWallets, MaxPids, MaxCrashes, MaxTopo, MaxPosts, MaxHeight, MaxRuns, MaxLost  \* bounds

VARIABLES
  config, mem, desk, firstRun, wallet, up, made, latest,
  open, job, proc, pidFile, log, endpoint, crashes,
  topo, inbox, count, pool, anchored, lastOnChain, ledger, ledgerFile, outbox, senders,
  thread, posted, noticed, ids, mishaps, resent,
  height, feed, flight, slashed, keeper, saved, troubles, accepted, unread,
  term, mempool, mined, nonce, runs, losses, unsure, says

C == INSTANCE ConsoleConfig WITH file <- config, pc <- desk
S == INSTANCE Supervisor WITH Consoles <- Desks, file <- pidFile, pc <- job
R == INSTANCE RelayerServer WITH file <- ledgerFile, pc <- thread, faults <- mishaps
P == INSTANCE PriceKeeper WITH ATTEMPTS <- SEND_ATTEMPTS, faults <- troubles
J == INSTANCE SdkCli

ASSUME AgentConstants == R!Assumptions /\ P!KeeperConstants

-----------------------------------------------------------------------------
(* Properties. *)

\* An operation of a console and a command of the SDK reach the chain once,
\* unless an answer of the wallet was lost.
SentOnce == OnceUnlessLost /\ J!RunOnce

\* What the user is told became of it is what became of it.
ToldRight == ToldTrue /\ J!ConfirmedOwn

\* The files two consoles share keep what each of them wrote.
FilesKept == HistoryKept /\ C!SharedKept /\ C!PasswordOpens

\* What the relayer claims on chain it carried, and claims once; what the feed
\* publishes its providers said, and what the keeper falls back on was taken.
AgentsSound ==
  R!AnchorsHonest /\ R!AnchoredOnce /\ P!PublishedHonest /\ P!FallbackAccepted

\* A service that runs can be stopped.
Stoppable == S!Stoppable
=============================================================================

-------------------------------- MODULE SdkCli --------------------------------
(***************************************************************************)
(* How a command of the SDK's xvault (sdk/xvault/xvault/cli.py) sends its  *)
(* transaction through the wallet client of protocol.py, and what it tells *)
(* of it.  The calls are those of SdkCalls; the wallet and the chain are   *)
(* external.  Any reply may be lost and any wait may time out.             *)
(***************************************************************************)
EXTENDS Naturals, Sequences

CONSTANTS Terminals,
          Asked,             \* the commands that are run
          Nameless,          \* those whose entry is in no table
          Suited,            \* those the contract can take
          TRIES,             \* _with_retries: builds of one invocation
          MaxRuns, MaxLost   \* bounds

VARIABLES
  term,    \* [terminal -> the command it runs, see Shell]
  mempool, \* transactions of the account the daemon accepted, in nonce order
  mined,   \* how many of them are in blocks
  nonce,   \* the nonce the wallet has stored
  runs,    \* history: commands run
  losses,  \* history: replies lost
  unsure,  \* history: the runs that had a reply lost
  says     \* history: what the commands printed, [run, before, line]

cliVars == <<term, mempool, mined, nonce, runs, losses, unsure, says>>

-----------------------------------------------------------------------------
(* A terminal, where commands of the account are run. *)

Shell == [pc |-> "shell", cmd |-> "none", run |-> 0, sends |-> FALSE, tries |-> 0, before |-> 0]

Init ==
  /\ term = [t \in Terminals |-> Shell]
  /\ mempool = <<>> /\ mined = <<>> /\ nonce = 0
  /\ runs = 0 /\ losses = 0 /\ unsure = {} /\ says = {}

Chain == <<mempool, mined, nonce>>
Past == <<runs, losses, unsure>>
Goto(t, pc) == term' = [term EXCEPT ![t].pc = pc]
Lose == losses < MaxLost /\ losses' = losses + 1

\* the command's last line, and the process exits
Exit(t, run, line) ==
  /\ says' = says \cup {[run |-> run, before |-> term[t].before, line |-> line]}
  /\ term' = [term EXCEPT ![t] = Shell]

\* A command is typed, or a program of the library started, which sends
\* without asking.  The id is looked up for the first line it prints.
Type(t) ==
  /\ term[t].pc = "shell" /\ runs < MaxRuns
  /\ runs' = runs + 1
  /\ \E cmd \in Asked, broadcast \in BOOLEAN :
       IF cmd \notin Nameless
       THEN /\ term' = [term EXCEPT ![t] = [Shell EXCEPT !.pc = "checks", !.cmd = cmd,
                                              !.run = runs + 1, !.sends = broadcast]]
            /\ UNCHANGED says
       ELSE Exit(t, runs + 1, "KeyError")
  /\ UNCHANGED <<Chain, losses, unsure>>

\* what it checks, of its arguments and on the chain (a position, a project, the
\* pool's health), passes or not; without --broadcast it ends here
Checks(t) ==
  /\ term[t].pc = "checks"
  /\ \/ term[t].sends /\ Goto(t, "nonce") /\ UNCHANGED says
     \/ ~term[t].sends /\ Exit(t, term[t].run, "dry-run")
     \/ Exit(t, term[t].run, "error")
  /\ UNCHANGED <<Chain, Past>>

\* before = w.nonce()
ReadNonce(t) ==
  /\ term[t].pc = "nonce"
  /\ term' = [term EXCEPT ![t].pc = "invoke", ![t].before = nonce]
  /\ UNCHANGED <<Chain, Past, says>>
NonceUnanswered(t) ==
  /\ term[t].pc = "nonce" /\ Lose
  /\ Exit(t, term[t].run, "error")
  /\ UNCHANGED <<Chain, runs, unsure>>

\* WalletClient.invoke: build_transaction with broadcast
Accept(t) == mempool' = Append(mempool, [run |-> term[t].run, cmd |-> term[t].cmd])
Invoked(t) ==
  /\ term[t].pc = "invoke"
  /\ Accept(t) /\ Goto(t, "wait")
  /\ UNCHANGED <<mined, nonce, Past, says>>

\* _with_retries: any RPCError, a refusal or an answer that does not come
Again(t) ==
  IF term[t].tries + 1 < TRIES
    THEN term' = [term EXCEPT ![t].tries = @ + 1] /\ UNCHANGED says
    ELSE Exit(t, term[t].run, "error")
Refused(t) ==
  /\ term[t].pc = "invoke" /\ Again(t)
  /\ UNCHANGED <<Chain, Past>>
Unanswered(t) ==
  /\ term[t].pc = "invoke" /\ Lose
  /\ (Accept(t) \/ UNCHANGED mempool) /\ Again(t)
  /\ unsure' = unsure \cup {term[t].run}
  /\ UNCHANGED <<mined, nonce, runs>>

\* wait_nonce_advance: what it sees as an advance, and three minutes
Answers_(t) == nonce >= term[t].before
Advanced(t) == nonce > term[t].before
Confirmed(t) ==
  /\ term[t].pc = "wait" /\ Advanced(t)
  /\ Exit(t, term[t].run, "confirmed")
  /\ UNCHANGED <<Chain, Past>>
Resends_(t) ==
  /\ term[t].pc = "wait"
  /\ Goto(t, "invoke")
  /\ UNCHANGED <<Chain, Past, says>>
TimedOut(t) ==
  /\ term[t].pc = "wait"
  /\ Exit(t, term[t].run, "error")
  /\ UNCHANGED <<Chain, Past>>

Killed(t) ==
  /\ term[t].pc # "shell"
  /\ term' = [term EXCEPT ![t] = Shell]
  /\ UNCHANGED <<Chain, Past, says>>

\* a block takes the account's next transaction; a call that fits may revert too
Mine ==
  /\ Len(mined) < Len(mempool)
  /\ \E fate \in IF mempool[Len(mined) + 1].cmd \in Suited THEN {"ran", "reverted"} ELSE {"reverted"} :
       mined' = Append(mined, fate)
  /\ UNCHANGED <<term, mempool, nonce, Past, says>>
WalletSync ==
  /\ nonce < Len(mined) /\ nonce' = Len(mined)
  /\ UNCHANGED <<term, mempool, mined, Past, says>>

Work(t) ==
  \/ Checks(t) \/ ReadNonce(t) \/ NonceUnanswered(t) \/ Invoked(t) \/ Refused(t)
  \/ Unanswered(t) \/ Confirmed(t) \/ TimedOut(t)
Next ==
  \/ \E t \in Terminals : Type(t) \/ Work(t) \/ Killed(t)
  \/ Mine \/ WalletSync

Spec == Init /\ [][Next]_cliVars

-----------------------------------------------------------------------------
\* A command run once reaches the chain twice only when an answer of the wallet
\* was lost, and only with --broadcast.
RunOnce ==
  \A i, j \in DOMAIN mempool :
    mempool[i].run = mempool[j].run => i = j \/ mempool[i].run \in unsure

\* "confirmed" means the command's own transaction is in a block, unless another
\* command of the account was on its way: the nonce alone does not tell them apart.
ConfirmedOwn ==
  \A s \in says : s.line = "confirmed" =>
    \/ \E i \in DOMAIN mined : mempool[i].run = s.run
    \/ \E i \in DOMAIN mempool : i > s.before /\ mempool[i].run # s.run

\* cli.py:1060-1064 offers the action set-fee, "bps for set-fee": no entry has
\* that name in MIXER_ENTRY_IDS.
ActionsKnown == \A s \in says : s.line # "KeyError"
=============================================================================

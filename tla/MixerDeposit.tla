----------------------------- MODULE MixerDeposit -----------------------------
(***************************************************************************)
(* sdk/xvault/xvault/cli.py and protocol.py: the deposit command, its      *)
(* wallet client and what they leave on disk.                              *)
(*                                                                         *)
(* The command is a process of RPC calls; the wallet, the mempool and the  *)
(* pool it deposits into go on between any two.  A call may time out after *)
(* the wallet has done its part.  The contract is PrivacyMixerV5.          *)
(***************************************************************************)
EXTENDS PrivacyMixerV5

CONSTANTS
  MyNote, MyDelay,   \* what prepare_deposit drew
  ATTEMPTS           \* _with_retries: build_transaction calls per invoke

ASSUME DepositConstants == MyNote \in Notes /\ MyDelay \in Nat /\ ATTEMPTS \in Nat \ {0}

VARIABLES
  cmd,     \* the command: its step, tries, nonce before, leaf read, note file
  wallet,  \* the account's confirmed nonce and its transactions in the mempool
  others   \* deposits of others and reverted inclusions since the start

cliVars == <<vars, cmd, wallet, others>>

\* prepare_deposit refuses what the contract would.
Prepared == MyNote.amount \in Denominations /\ MyDelay \in MIN_DELAY_TOPO..MAX_DELAY_TOPO

\* A command that is about to run, or none.
CliInit(step) ==
  /\ cmd = [step |-> step, tries |-> 0, before |-> 0, leaf |-> None, file |-> None]
  /\ wallet = [nonce |-> 0, mempool |-> 0]
  /\ others = 0

Step(c) == cmd' = c /\ UNCHANGED <<vars, others>>

\* before = w.nonce()
ReadNonce ==
  /\ cmd.step = "start" /\ Prepared
  /\ Step([cmd EXCEPT !.step = "invoke", !.before = wallet.nonce])
  /\ UNCHANGED wallet

\* build_transaction: the wallet signs and broadcasts a transaction, or not.
Build(sent) ==
  wallet' = IF sent THEN [wallet EXCEPT !.mempool = @ + 1] ELSE wallet

Invoked ==
  /\ cmd.step = "invoke"
  /\ Build(TRUE) /\ Step([cmd EXCEPT !.step = "wait"])

\* An RPCError, whether or not the wallet had broadcast: _with_retries calls
\* again, and gives up after ATTEMPTS.
InvokeRetried(sent) ==
  /\ cmd.step = "invoke"
  /\ Build(sent)
  /\ Step([cmd EXCEPT !.tries = @ + 1,
                      !.step = IF cmd.tries + 1 < ATTEMPTS THEN "invoke" ELSE "failed"])

\* wait_nonce_advance
Advanced == wallet.nonce > cmd.before
Confirmed ==
  cmd.step = "wait" /\ Advanced /\ Step([cmd EXCEPT !.step = "read"]) /\ UNCHANGED wallet
TimedOut ==
  cmd.step = "wait" /\ Step([cmd EXCEPT !.step = "failed"]) /\ UNCHANGED wallet

\* note.leaf_index = reader.leaf_count() - 1, then the file is written.
NextLeaf_ == Count
LastLeaf == Count - 1
ReadLeaf ==
  /\ cmd.step = "read"
  /\ Step([cmd EXCEPT !.step = "save", !.leaf = LastLeaf]) /\ UNCHANGED wallet
SaveNote ==
  /\ cmd.step = "save"
  /\ Step([cmd EXCEPT !.step = "done", !.file = cmd.leaf]) /\ UNCHANGED wallet

\* The process is killed.
Killed ==
  /\ cmd.step \notin {"done", "failed"}
  /\ Step([cmd EXCEPT !.step = "failed"]) /\ UNCHANGED wallet

\* A block takes one transaction of the account: its nonce advances and the
\* deposit runs, or reverts.
Include ==
  /\ wallet.mempool > 0
  /\ wallet' = [nonce |-> wallet.nonce + 1, mempool |-> wallet.mempool - 1]
  /\ \/ Deposit(MyNote, MyDelay) /\ UNCHANGED others
     \/ ~ENABLED Deposit(MyNote, MyDelay) /\ UNCHANGED vars /\ others' = others + 1
  /\ UNCHANGED cmd

OtherDeposit(note, delay) ==
  /\ note # MyNote /\ Deposit(note, delay)
  /\ others' = IF cmd.step = "start" THEN others ELSE others + 1
  /\ UNCHANGED <<cmd, wallet>>

Command ==
  \/ ReadNonce \/ Invoked \/ \E sent \in BOOLEAN : InvokeRetried(sent)
  \/ Confirmed \/ TimedOut \/ ReadLeaf \/ SaveNote \/ Killed

\* what the pool goes through besides new notes
Quiet == Next /\ UNCHANGED unlock /\ UNCHANGED <<cmd, wallet, others>>

\* One command next to the pool and its other users.
DepositNext ==
  \/ Command \/ Include \/ Quiet
  \/ \E note \in Notes, delay \in DelayArgs : OtherDeposit(note, delay)
DepositSpec == Init /\ CliInit("start") /\ [][DepositNext]_cliVars
-----------------------------------------------------------------------------
(* What the command keeps.                                                 *)

Mine == {i \in 0..(Count - 1) : LeafOf(i) = MyNote}
Ended == cmd.step \in {"done", "failed"} /\ wallet.mempool = 0

\* As long as nobody else deposits meanwhile and no inclusion reverts, the leaf
\* the command writes down holds its note, over every retry.
LeafOwnWhenAlone ==
  cmd.file # None /\ others = 0 => cmd.file \in Mine
-----------------------------------------------------------------------------
(* Statements of the command's texts the code does not keep.               *)

\* cli.py:128-129: the note file, the only way to the funds, exists whenever
\* the command has ended with its deposit in the pool.
NoteKept == Ended /\ Mine # {} => cmd.file # None
=============================================================================

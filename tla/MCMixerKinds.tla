----------------------------- MODULE MCMixerKinds -----------------------------
(***************************************************************************)
(* Kinds of behaviours of PrivacyMixerV5 and of its clients, each followed *)
(* to its end:                                                             *)
(*   "tree"    as many notes as the tree takes, released in any order;     *)
(*   "books"   two notes with fees, their claims and stray deposits;       *)
(*   "short"   an anomaly, the alarm and the emergency exits after it;     *)
(*   "owner"   one note under every owner;                                 *)
(*   "bot"     the holders of two leaves run the SDK's release commands; *)
(*   "deposit" one user runs the SDK's deposit command.                    *)
(***************************************************************************)
EXTENDS MixerBot, MixerDeposit

CONSTANTS u1, u2, k1

VARIABLE kind

clientVars == <<prep, cmd, wallet, others>>
mcVars == <<kind, vars, clientVars>>

Kinds == {"tree", "books", "short", "owner", "bot", "deposit"}
LeavesOf(k) == CASE k = "owner" -> 1 [] k = "books" -> 2 [] OTHER -> CAPACITY
DelaysOf(k) == IF k \in {"books", "bot"} THEN DelayArgs ELSE {1}
AmountsOf(k) == IF k = "bot" THEN {2} ELSE Denominations
Blocks(k) == IF k \in {"books", "bot"} THEN MAX_TOPO ELSE 1
MyClaims == {c \in Claims : c.note.to = u1}
MCMyNote == [secret |-> k1, to |-> u1, amount |-> 2]
MCOtherNote == [secret |-> k1, to |-> u2, amount |-> 2]
-----------------------------------------------------------------------------
MCDeposit == \E note \in Notes, delay \in DelaysOf(kind) :
               /\ kind # "deposit" /\ note.to = u1 /\ note.amount \in AmountsOf(kind)
               /\ Count < LeavesOf(kind) /\ Deposit(note, delay)
MCRelease == kind # "deposit" /\ \E c \in MyClaims : Release(c.note, c.i, c.siblings)
MCBatch == kind \notin {"owner", "bot", "deposit"} /\ \E c, d \in MyClaims : ReleaseMany(<<c, d>>)

MCOwned == kind = "owner" /\ \E u \in Wallets : Owned(u) \/ AcceptOwner(u)
MCOwner ==
  \/ kind \in {"bot", "deposit"} /\ (Pause(u1) \/ Unpause(u1))
  \/ kind = "bot" /\ (EmergencyExit(u1) \/ RenounceOwnership(u1))
MCFees == /\ kind = "books"
          /\ \/ \E bps \in FeeArgs : SetFeeBps(u1, bps)
             \/ \E n \in ClaimArgs : ClaimFees(u1, n)
MCEmergency == kind = "short" /\ (EmergencyExit(u1) \/ Unpause(u1))
MCAlarm == kind \in {"short", "owner"} /\ RaiseAlarm
MCLoss == kind \in {"short", "owner"} /\ \E n \in LossArgs : Anomaly(n)
MCStray == kind \in {"books", "short"} /\ \E n \in StrayArgs : Stray(n)
MCTick == topo < Blocks(kind) /\ Tick

Pool_(A) == A /\ UNCHANGED <<kind, clientVars>>
Bot(A) == kind = "bot" /\ A /\ UNCHANGED <<kind, cmd, wallet, others>>
Depositor(A) == kind = "deposit" /\ A /\ UNCHANGED <<kind, prep>>

MCNext ==
  \/ Pool_(MCDeposit) \/ Pool_(MCRelease) \/ Pool_(MCBatch)
  \/ Pool_(MCOwned) \/ Pool_(MCOwner) \/ Pool_(MCFees) \/ Pool_(MCEmergency)
  \/ Pool_(MCAlarm) \/ Pool_(MCLoss) \/ Pool_(MCStray) \/ Pool_(MCTick)
  \/ Bot(Together) \/ \E i \in Holders : Bot(Alone(i))
  \/ Depositor(Command) \/ Depositor(Include) \/ Depositor(OtherDeposit(MCOtherNote, 1))

MCInit ==
  /\ Init /\ config.owner = u1 /\ kind \in Kinds
  /\ BotInit(IF kind = "bot" THEN {0, 1} ELSE {})
  /\ CliInit(IF kind = "deposit" THEN "start" ELSE "failed")

\* Blocks keep coming, and the holder of each note keeps trying.
MCSpec ==
  /\ MCInit /\ [][MCNext]_mcVars
  /\ WF_mcVars(Pool_(MCTick)) /\ \A i \in {0, 1} : WF_mcVars(i \in Holders /\ Bot(Alone(i)))
=============================================================================

--------------------------- MODULE AirdropPipeline ---------------------------
(***************************************************************************)
(* How testnet activity becomes airdrop points: the off-chain indexer      *)
(* (airdrop_offchain_indexer.py --daemon) scans blocks into a points book  *)
(* and writes a checkpoint and a leaderboard; the injector                 *)
(* (airdrop_onchain_injector.py --daemon) sends what the leaderboard has   *)
(* and its own state file has not to the AirdropTracker.  Two processes    *)
(* and three files; each process may be killed at any point and a file     *)
(* that is being written is then cut short.                                *)
(*                                                                         *)
(* Points are counted in halves: an xel_param score is a fraction, and the *)
(* injector rounds.                                                        *)
(***************************************************************************)
EXTENDS Naturals, Sequences, FiniteSets, SequencesExt, FiniteSetsExt, Functions

CONSTANTS
  Addrs,        \* addresses that mine or send
  EXCLUDE_ADDRS,\* the admin's, never scored
  TxHashes,     \* transactions
  TxOf,         \* [TxHashes -> [source, contract, entry, params]]
  UNIT,         \* 10 ** XEL_DECIMALS
  BATCH,        \* blocks per lot, workers * 4
  CHUNK,        \* points per record_manual_attribution
  MaxTopo,      \* bound: height of the chain
  MaxFaults     \* bound: kills, failed calls, lost replies

VARIABLES
  chain,    \* the blocks in topological order, [miner, txs]
  book,     \* indexer: PointsBook; book.scored is history: the topos counted
  ipc,      \* indexer: "off", "poll", "scan", "written" (checkpoint saved, leaderboard not)
  lot,      \* indexer: what is left of the scan: [todo : fetched topos, at, end]
  ckpt,     \* file: the checkpoint; a file is absent, torn (cut short) or whole
  lb,       \* file: the leaderboard
  inj,      \* injector: state["injected"] in memory
  jpc,      \* injector: "off", "idle", "pass", "save"
  rows,     \* injector: the leaderboard of this pass
  injFile,  \* file: the injector's state
  tracker,  \* chain: points recorded by the AirdropTracker
  faults,   \* history: how many of the bounded faults happened
  doubled,  \* history: an injection is on the chain that the state file may not know
  reverted  \* history: an injection is in the state that the tracker refused

indexerVars == <<book, ipc, lot, ckpt, lb>>
injectorVars == <<inj, jpc, rows, injFile, tracker, doubled, reverted>>
vars == <<chain, indexerVars, injectorVars, faults>>

-----------------------------------------------------------------------------
Cats == {"MINING", "RELAYER", "GOVERNANCE", "CHAT", "LIQUIDITY"}

\* points of a recognised call, in halves: fixed, or from a parameter that
\* holds an amount of XEL
Fixed(cat, pts) == [cat |-> cat, pts |-> 2 * pts, param |-> 0]
Xel(k) == [cat |-> "LIQUIDITY", pts |-> 0, param |-> k]

SCORE_MAP ==
  [ VaultChat |->
      [e \in {113, 38, 48, 7, 9} |-> Fixed("CHAT", 1)] @@ (8 :> Fixed("CHAT", 100)) @@
      (11 :> Fixed("RELAYER", 10)) @@ (66 :> Fixed("RELAYER", 50)) @@
      [e \in {51, 121} |-> Fixed("RELAYER", 5)],
    Governor |-> (4 :> Fixed("GOVERNANCE", 50)) @@ (3 :> Fixed("GOVERNANCE", 500)),
    GovernanceVault |-> (4 :> Fixed("GOVERNANCE", 5)),
    StakedOracle |-> (16 :> Fixed("MINING", 1)),
    XelisVaultMiner |-> (21 :> Fixed("MINING", 50)) @@ (15 :> Fixed("MINING", 10)),
    VaultEngineV3 |-> (17 :> Xel(1)) @@ (18 :> Fixed("LIQUIDITY", 0)),
    PSM |-> (8 :> Xel(1)),
    VaultSwapV2 |-> (17 :> Xel(1)),
    SavingsRate |-> (8 :> Xel(1)),
    PrivacyMixer |-> (6 :> Xel(2)) ]

Recognised(tx) ==
  tx.contract \in DOMAIN SCORE_MAP /\ tx.entry \in DOMAIN SCORE_MAP[tx.contract]

\* ten points per XEL
Scored(tx) ==
  LET rule == SCORE_MAP[tx.contract][tx.entry]
  IN IF rule.param = 0 THEN rule.pts
     ELSE IF rule.param > Len(tx.params) THEN 0
     ELSE (tx.params[rule.param] * 20) \div UNIT

NoPoints == [a \in Addrs |-> [c \in Cats |-> 0]]
NoBook == [pts |-> NoPoints, seen |-> {}, last |-> 0, scored |-> {}]

\* PointsBook.add
Add(pts, a, cat, n) ==
  IF n = 0 \/ a \in EXCLUDE_ADDRS THEN pts ELSE [pts EXCEPT ![a][cat] = @ + n]

\* score_block: one point for its miner, then its transactions not seen yet
ScoreTxs(pts, txs) ==
  FoldSet(LAMBDA t, acc :
            IF Recognised(TxOf[t])
              THEN Add(acc, TxOf[t].source, SCORE_MAP[TxOf[t].contract][TxOf[t].entry].cat,
                       Scored(TxOf[t]))
              ELSE acc,
          pts, txs)

ScoresAgain_(b, t) ==
  [pts |-> ScoreTxs(Add(b.pts, chain[t].miner, "MINING", 2), chain[t].txs),
   seen |-> b.seen \cup chain[t].txs, last |-> t, scored |-> b.scored \cup {t}]

ScoreBlock(b, t) ==
  [pts |-> ScoreTxs(Add(b.pts, chain[t].miner, "MINING", 2), chain[t].txs \ b.seen),
   seen |-> b.seen \cup chain[t].txs, last |-> t, scored |-> b.scored \cup {t}]

-----------------------------------------------------------------------------
Absent(v) == [state |-> "absent", holds |-> v]
Torn(v) == [state |-> "torn", holds |-> v]
Whole(v) == [state |-> "whole", holds |-> v]
Readable(f) == f.state = "whole"

Idle == [todo |-> <<>>, at |-> 0, end |-> 0]

Init ==
  /\ chain = <<>>
  /\ book = NoBook /\ ipc = "off" /\ lot = Idle
  /\ ckpt = Absent(NoBook) /\ lb = Absent(NoPoints)
  /\ inj = NoPoints /\ jpc = "off" /\ rows = NoPoints /\ injFile = Absent(NoPoints)
  /\ tracker = NoPoints
  /\ faults = 0 /\ doubled = FALSE /\ reverted = FALSE

\* The same transaction may be in several blocks of a block DAG.
Mine ==
  /\ Len(chain) < MaxTopo
  /\ \E m \in Addrs, ts \in SUBSET TxHashes :
       /\ Cardinality(ts) <= 1
       /\ chain' = Append(chain, [miner |-> m, txs |-> ts])
  /\ UNCHANGED <<indexerVars, injectorVars, faults>>

Fault == faults < MaxFaults /\ faults' = faults + 1

-----------------------------------------------------------------------------
(* The indexer.                                                            *)

\* main --daemon: --resume takes the checkpoint when it can be read
StartIndexer(resume) ==
  /\ ipc = "off"
  /\ book' = IF resume /\ Readable(ckpt) THEN ckpt.holds ELSE NoBook
  /\ ipc' = "poll" /\ lot' = Idle
  /\ UNCHANGED <<chain, ckpt, lb, injectorVars, faults>>

\* run_daemon: new blocks to scan
Poll ==
  /\ ipc = "poll" /\ Len(chain) > book.last
  /\ ipc' = "scan"
  /\ lot' = [todo |-> <<>>, at |-> book.last + 1, end |-> Len(chain)]
  /\ UNCHANGED <<chain, book, ckpt, lb, injectorVars, faults>>

\* scan_range: fetch a lot of blocks and the transactions not seen; a block
\* that cannot be had after the retries is passed over
FetchLot ==
  /\ ipc = "scan" /\ lot.todo = <<>> /\ lot.at <= lot.end
  /\ LET next == IF lot.at + BATCH > lot.end + 1 THEN lot.end + 1 ELSE lot.at + BATCH
     IN \E failed \in SUBSET (lot.at..(next - 1)) :
          /\ IF failed = {} THEN UNCHANGED faults ELSE Fault
          /\ lot' = [todo |-> SetToSortSeq((lot.at..(next - 1)) \ failed, <),
                     at |-> next, end |-> lot.end]
  /\ UNCHANGED <<chain, book, ipc, ckpt, lb, injectorVars>>

\* a transaction that cannot be had ends the scan, the daemon polls again
FetchFails ==
  /\ ipc = "scan" /\ lot.todo = <<>> /\ lot.at <= lot.end
  /\ Fault
  /\ ipc' = "poll" /\ lot' = Idle
  /\ UNCHANGED <<chain, book, ckpt, lb, injectorVars>>

\* score a block; on_progress saves the checkpoint once 20 seconds are over
ScoreNext ==
  /\ ipc = "scan" /\ lot.todo # <<>>
  /\ book' = ScoreBlock(book, Head(lot.todo))
  /\ ckpt' \in {ckpt, Whole(book')}
  /\ lot' = [lot EXCEPT !.todo = Tail(@)]
  /\ UNCHANGED <<chain, ipc, lb, injectorVars, faults>>

EndScan ==
  /\ ipc = "scan" /\ lot.todo = <<>> /\ lot.at > lot.end
  /\ ipc' = "poll" /\ lot' = Idle
  /\ UNCHANGED <<chain, book, ckpt, lb, injectorVars, faults>>

\* the checkpoint, then the leaderboard: when the interval is over, and on a
\* poll that finds no new block
SaveCheckpoint ==
  /\ ipc = "poll" /\ (ckpt # Whole(book) \/ lb # Whole(book.pts))
  /\ ckpt' = Whole(book) /\ ipc' = "written"
  /\ UNCHANGED <<chain, book, lot, lb, injectorVars, faults>>

WriteLeaderboard ==
  /\ ipc = "written"
  /\ lb' = Whole(book.pts) /\ ipc' = "poll"
  /\ UNCHANGED <<chain, book, lot, ckpt, injectorVars, faults>>

\* killed, maybe in the middle of a write
KillIndexer ==
  /\ ipc # "off" /\ Fault
  /\ ipc' = "off" /\ book' = NoBook /\ lot' = Idle
  /\ ckpt' \in {ckpt} \cup (IF ipc # "written" THEN {Torn(NoBook)} ELSE {})
  /\ lb' \in {lb} \cup (IF ipc = "written" THEN {Torn(NoPoints)} ELSE {})
  /\ UNCHANGED <<chain, injectorVars>>

-----------------------------------------------------------------------------
(* The injector.                                                           *)

\* int(round(pts)), half to even
Round(h) == IF h % 2 = 0 \/ (h \div 2) % 2 = 0 THEN h \div 2 ELSE h \div 2 + 1

\* _load_state: what cannot be read counts as nothing injected
StartInjector ==
  /\ jpc = "off" /\ jpc' = "idle"   \* inj still is what the process held
  /\ inj' = IF Readable(injFile) THEN injFile.holds ELSE NoPoints
  /\ doubled' = (doubled \/ inj' # inj)
  /\ UNCHANGED <<chain, indexerVars, rows, injFile, tracker, reverted, faults>>

\* sync_once: no leaderboard, or half of one, is an error the daemon survives
LoadLeaderboard ==
  /\ jpc = "idle" /\ Readable(lb)
  /\ rows' = lb.holds /\ jpc' = "pass"
  /\ UNCHANGED <<chain, indexerVars, inj, injFile, tracker, doubled, reverted, faults>>

\* deliver_delta: what this address has not been given yet, in chunks
Due(a, c) == Round(rows[a][c]) > inj[a][c] /\ a \notin EXCLUDE_ADDRS
WholeTotal_(a, c) == Round(rows[a][c])
Chunk(a, c) ==
  IF Round(rows[a][c]) - inj[a][c] > CHUNK THEN CHUNK ELSE Round(rows[a][c]) - inj[a][c]

InjectOne(a, c) ==
  /\ jpc = "pass" /\ Due(a, c)
  /\ inj' = [inj EXCEPT ![a][c] = @ + Chunk(a, c)]
  /\ \/ /\ tracker' = [tracker EXCEPT ![a][c] = @ + Chunk(a, c)]
        /\ UNCHANGED <<reverted, faults>>
     \/ /\ Fault /\ reverted' = TRUE     \* the tracker is paused: nobody looks
        /\ UNCHANGED tracker
  /\ UNCHANGED <<chain, indexerVars, jpc, rows, injFile, doubled>>

\* invoke_hash raises: before the broadcast, or while it reads the nonce after
InjectFails(a, c) ==
  /\ jpc = "pass" /\ Due(a, c)
  /\ Fault /\ jpc' = "idle"
  /\ \/ UNCHANGED <<tracker, doubled>>
     \/ /\ tracker' = [tracker EXCEPT ![a][c] = @ + Chunk(a, c)]
        /\ doubled' = TRUE
  /\ UNCHANGED <<chain, indexerVars, inj, rows, injFile, reverted>>

\* the end of the pass: _save_state
SaveState ==
  /\ jpc = "pass" /\ \A a \in Addrs, c \in Cats : ~Due(a, c)
  /\ injFile' = Whole(inj) /\ jpc' = "idle"
  /\ UNCHANGED <<chain, indexerVars, inj, rows, tracker, doubled, reverted, faults>>

KillInjector ==
  /\ jpc # "off" /\ Fault
  /\ jpc' = "off"
  /\ injFile' \in {injFile} \cup
       (IF jpc = "pass" /\ \A a \in Addrs, c \in Cats : ~Due(a, c) THEN {Torn(NoPoints)} ELSE {})
  /\ UNCHANGED <<chain, indexerVars, inj, rows, tracker, doubled, reverted>>

-----------------------------------------------------------------------------
ScanWork == Poll \/ FetchLot \/ ScoreNext \/ EndScan \/ SaveCheckpoint \/ WriteLeaderboard
Resume == StartIndexer(TRUE)
InjectWork ==
  LoadLeaderboard \/ SaveState \/ \E a \in Addrs, c \in Cats : InjectOne(a, c)

Next ==
  \/ Mine
  \/ StartIndexer(FALSE) \/ Resume \/ ScanWork \/ FetchFails \/ KillIndexer
  \/ StartInjector \/ InjectWork \/ KillInjector
  \/ \E a \in Addrs, c \in Cats : InjectFails(a, c)

\* Two daemons that are started again when they are down.
Spec ==
  /\ Init /\ [][Next]_vars
  /\ WF_vars(Resume) /\ WF_vars(ScanWork)
  /\ WF_vars(StartInjector) /\ WF_vars(InjectWork)

-----------------------------------------------------------------------------
\* what the blocks in ts are worth: a point per block, each transaction once
Earned(ts) ==
  ScoreTxs(FoldSet(LAMBDA t, acc : Add(acc, chain[t].miner, "MINING", 2), NoPoints, ts),
           UNION {chain[t].txs : t \in ts})

(* Whatever the indexer holds, has checkpointed or resumes from is worth   *)
(* exactly the blocks it counted, each block and each transaction once and *)
(* none of the admin's, through kills, torn files, failed lots and         *)
(* restarts.  scan_range, save_checkpoint, airdrop_offchain_indexer.py.    *)
BookExact ==
  \A b \in {book, ckpt.holds} :
    /\ b.pts = Earned(b.scored)
    /\ b.scored \subseteq 1..b.last
    /\ \A a \in EXCLUDE_ADDRS, c \in Cats : b.pts[a][c] = 0

(* The tracker never holds more than the activity is worth, as long as no  *)
(* injection reached the chain without reaching the injector's state file. *)
NeverOverpaid ==
  ~doubled => \A a \in Addrs, c \in Cats :
                tracker[a][c] <= Round(Earned(1..Len(chain))[a][c])

(* "injecte les DELTAS de points (nouveaux points non encore injectés)",   *)
(* airdrop_onchain_injector.py:16-17: the same without that proviso.       *)
DeltasOnly ==
  \A a \in Addrs, c \in Cats : tracker[a][c] <= Round(Earned(1..Len(chain))[a][c])

(* Once the faults are over everything the indexer counted is on the       *)
(* chain, and it counted every block but those it could not fetch.         *)
AllDelivered ==
  /\ book.last = Len(chain)
  /\ reverted \/ \A a \in Addrs \ EXCLUDE_ADDRS, c \in Cats :
                   tracker[a][c] >= Round(book.pts[a][c])
Delivered == <>[]AllDelivered
=============================================================================

------------------------------- MODULE MCTools -------------------------------
(***************************************************************************)
(* Kinds of behaviours of the project's scripts: a redeployment of the     *)
(* whole protocol by deploy_v12.py, an upgrade of two of its contracts     *)
(* by upgrade_v12.py, the airdrop's indexer and injector over a growing    *)
(* chain, the distribution file made of one input file, a change to the    *)
(* contracts on its way through the gates, the legacy contracts' build and *)
(* the testnet deployment by deploy_testnet.py.                            *)
(***************************************************************************)
EXTENDS DeployV12, UpgradeV12

CONSTANTS alice, admin, t1, t2, UNIT, BATCH, CHUNK, MaxTopo, MaxFaults, MaxUsers,
  Known, Edited, MaxEdits, MaxChanges, MaxKills, InRun, MaxRuns, MaxTroubles

VARIABLES kind,
  chain, points, ipc, lot, ckpt, lb, inj, jpc, rows, injFile, tracker, faults, doubled,
  reverted,
  users, distribution,
  tree, main, edits,
  source, broken, hex, chunkmap, json, build, changes, kills, recorded,
  run, step, onChain, shares, supply, assets, warned, said, saved, troubles

MCScope == {"AirdropTracker", "StakedOracle"}
MCNames ==
  {"external", "ContractRegistry"} \cup MCScope \cup
  UNION {UNION {{ins.on, ins.arg} : ins \in Instructions(p)} : p \in 1..Len(Phases)}

Invoke(src, c, e, ps) == [source |-> src, contract |-> c, entry |-> e, params |-> ps]

\* two points and a half, and a call nobody scores
P == INSTANCE AirdropPipeline WITH
       book <- points, Addrs <- {alice, admin}, EXCLUDE_ADDRS <- {admin},
       TxHashes <- {t1, t2},
       TxOf <- (t1 :> Invoke(alice, "PrivacyMixer", 6, <<0, 5>>)) @@
               (t2 :> Invoke(alice, "Timelock", 1, <<>>))
M == INSTANCE AirdropMerkle
G == INSTANCE ChunkIds
B == INSTANCE ChunkMaps
T == INSTANCE DeployTestnet

ASSUME TestnetOrdered == T!ProgramOrdered

releaseVars == <<upgradeVars, phase, complete>>
pipelineVars ==
  <<chain, points, ipc, lot, ckpt, lb, inj, jpc, rows, injFile, tracker, faults, doubled,
    reverted>>
merkleVars == <<users, distribution>>
gateVars == <<tree, main, edits>>
buildVars == <<source, broken, hex, chunkmap, json, build, changes, kills, recorded>>
testnetVars == <<run, step, onChain, shares, supply, assets, warned, said, saved, troubles>>
abiVars == <<gateVars, buildVars, testnetVars>>
mcVars == <<kind, releaseVars, pipelineVars, merkleVars, abiVars>>

Deploying(A) ==
  /\ kind = "deploy" /\ A
  /\ UNCHANGED <<trackers, files, process, history, kind, pipelineVars, merkleVars, abiVars>>
Upgrading(A) ==
  /\ kind = "upgrade" /\ A
  /\ UNCHANGED <<phase, complete, kind, pipelineVars, merkleVars, abiVars>>
Counting(A) == kind = "points" /\ A /\ UNCHANGED <<kind, releaseVars, merkleVars, abiVars>>
Distributing(A) ==
  kind = "merkle" /\ A /\ UNCHANGED <<kind, releaseVars, pipelineVars, abiVars>>
Gating(A) ==
  /\ kind = "gate" /\ A
  /\ UNCHANGED <<kind, releaseVars, pipelineVars, merkleVars, buildVars, testnetVars>>
Building(A) ==
  /\ kind = "build" /\ A
  /\ UNCHANGED <<kind, releaseVars, pipelineVars, merkleVars, gateVars, testnetVars>>
OnTestnet(A) ==
  /\ kind = "testnet" /\ A
  /\ UNCHANGED <<kind, releaseVars, pipelineVars, merkleVars, gateVars, buildVars>>

MCInit ==
  /\ DeployInit /\ UpgradeInit /\ P!Init /\ G!GateInit /\ B!MapsInit /\ T!TestnetInit
  /\ kind \in {"deploy", "upgrade", "points", "merkle", "gate", "build", "testnet"}
  /\ kind # "upgrade" => Len(old.users) = 1
  /\ IF kind = "merkle" THEN M!Init ELSE users = <<>> /\ distribution = <<>>

MCNext ==
  \/ Deploying(DeployNext) \/ Upgrading(UpgradeNext)
  \/ Counting(P!Next) \/ Distributing(M!Generate)
  \/ Gating(G!GateNext) \/ Building(B!MapsNext)
  \/ OnTestnet(T!TestnetNext)

\* a behaviour has one kind, so that fairness of a disjunction over the kinds
\* is that of the kind's own action
MCSpec ==
  /\ MCInit /\ [][MCNext]_mcVars
  /\ WF_mcVars(Deploying(RunPhases) \/ Upgrading(Work) \/ Counting(P!Resume))
  /\ SF_mcVars(Deploying(StartNext) \/ Upgrading(BeginNext))
  /\ WF_mcVars(Counting(P!ScanWork))
  /\ WF_mcVars(Counting(P!StartInjector))
  /\ WF_mcVars(Counting(P!InjectWork))

\* the settings of a deployment that got through, by either script
DeploymentsWired == WiredToCurrent /\ (kind = "testnet" => T!WiredWhenQuiet)
\* what must happen once, whatever was killed, repeated or answered late
OnceOnly == EffectsOnce /\ (kind = "testnet" => T!SharesExact)

\* what the airdrop scripts book, what they pay and what they promise to prove
AirdropExact == P!BookExact /\ P!NeverOverpaid /\ M!ProofsVerify

\* the numbers by which a contract's functions are called: those of the main
\* branch, and those the legacy contracts' build hands to the deployment
IdsExact ==
  /\ kind = "gate" => G!MainExact /\ G!PinLands
  /\ kind = "build" => B!LayoutKept /\ B!ProductsAgree /\ B!CheckedCallsLand

\* DeployResumes, UpgradeResumes and Delivered, each in its kind: whatever died
\* on the way, every procedure gets to its end.
Finishes ==
  <>[](/\ kind = "deploy" => Deployed
       /\ kind = "upgrade" => Upgraded
       /\ kind = "points" => P!AllDelivered)
=============================================================================

----------------------------- MODULE UpgradeV12 -----------------------------
(***************************************************************************)
(* upgrade_v12.py: deploys eleven contracts anew, configures them, copies  *)
(* the old AirdropTracker into the new one, moves the registry over,       *)
(* unpauses the new tracker and rewrites network/testnet.json.  The state  *)
(* file is docs/upgrade_v12_state.json; the old tracker stays in use while *)
(* the script runs, by the injector, which takes its tracker from          *)
(* network/testnet.json.  Instance 0 stands for the hash a contract had    *)
(* before the upgrade.                                                     *)
(***************************************************************************)
EXTENDS ScriptRunner, SequencesExt, FiniteSetsExt

CONSTANTS
  Users,          \* who earns points
  InScope,        \* the upgraded contracts of this instance, AirdropTracker among them
  CursorEvery,    \* MIG_CURSOR_EVERY
  BatchSize,      \* users per finalize_migration
  MaxPoints       \* bound: points recorded on the old tracker

VARIABLES
  old,       \* chain: the old tracker, users in order of arrival and their points
  new,       \* chain: the new tracker
  cur,       \* chain: the registry's cur_<name>
  net,       \* file: the hashes of network/testnet.json
  phases,    \* the process: phases left to run, its head is running; <<>> when none runs
  snap,      \* the process: old tracker at the start of phase D
  up,        \* the process: a user's struct as read from the old tracker
  done,      \* history: phases that came to their end
  first      \* history: old tracker at the first phase D, <<>> before

trackers == <<old, new>>
files == <<cur, net>>
process == <<phases, snap, up>>
history == <<done, first>>
upgradeVars == <<runnerVars, trackers, files, process, history>>

-----------------------------------------------------------------------------
UPGRADE_CONTRACTS ==
  << "AirdropTracker", "XelisVaultMiner", "StakedOracle", "VaultChat", "Governor",
     "GovernanceVault", "PSM", "VaultSwapV2", "SavingsRate", "VaultEngineV3", "PrivacyMixer" >>

\* the names of the registry, in the order of KEY_TO_NAME and REGISTRY_NAMES
REGISTRY_NAMES ==
  << <<"AirdropTracker", "AirdropTracker">>, <<"XelisVaultMiner", "XelisVaultMiner">>,
     <<"StakedOracle", "StakedOracle">>, <<"VaultChat", "VaultChat">>,
     <<"Governor", "Governor">>, <<"GovernanceVault", "GovernanceVault">>,
     <<"PSM", "PSM">>, <<"VaultSwap", "VaultSwapV2">>, <<"VaultSwapV2", "VaultSwapV2">>,
     <<"SavingsRate", "SavingsRate">>, <<"VaultEngineV3", "VaultEngineV3">>,
     <<"PrivacyMixer", "PrivacyMixer">> >>

RECORDERS == Tail(UPGRADE_CONTRACTS)

PhaseA == [k \in 1..Len(UPGRADE_CONTRACTS) |-> Dep(UPGRADE_CONTRACTS[k])]

Authorize(c) == Set("AirdropTracker", "set_authorized_recorder", c)
Wire(c) == Set(c, "set_airdrop_tracker", "AirdropTracker")

PhaseC ==
  << Set("AirdropTracker", "set_registry", "external") >> \o
  [k \in 1..Len(RECORDERS) |-> Authorize(RECORDERS[k])] \o
  Settings("XelisVaultMiner",
    << <<"set_vlt_contract", "external">>, <<"set_vlt_asset", "external">>,
       <<"set_delegation_contract", "external">>, <<"set_treasury", "external">>,
       <<"set_registry", "external">>, <<"register_service", "StakedOracle">>,
       <<"set_heartbeat_interval", "external">>, <<"set_heartbeat_timeout", "external">>,
       <<"set_airdrop_tracker", "AirdropTracker">> >>) \o
  << Set("StakedOracle", "set_miner_contract", "XelisVaultMiner"),
     Set("StakedOracle", "set_registry", "external"),
     Once("StakedOracle", "add_feed_entry"), Wire("StakedOracle") >> \o
  Settings("VaultChat",
    << <<"set_vlt_asset", "external">>, <<"set_treasury", "external">>,
       <<"set_miner_contract", "XelisVaultMiner">> >>) \o
  Settings("Governor",
    << <<"set_governance_vault", "GovernanceVault">>, <<"set_timelock", "external">> >>) \o
  Settings("PSM",
    << <<"set_xusd_contract", "external">>, <<"set_xusd_asset", "external">>,
       <<"set_oracle", "StakedOracle">>, <<"set_treasury", "external">> >>) \o
  Settings("VaultSwapV2",
    << <<"set_oracle", "StakedOracle">>, <<"set_registry", "external">> >>) \o
  Settings("VaultEngineV3",
    << <<"set_registry", "external">>, <<"set_xusd_contract", "external">>,
       <<"set_xusd_asset", "external">>, <<"set_treasury", "external">> >>) \o
  Settings("SavingsRate",
    << <<"set_registry", "external">>, <<"set_xusd_asset", "external">> >>) \o
  Settings("xUSD",
    << <<"set_minter", "PSM">>, <<"set_burner", "PSM">>,
       <<"set_minter", "VaultEngineV3">>, <<"set_burner", "VaultEngineV3">>,
       <<"set_minter", "VaultSwapV2">>, <<"set_burner", "VaultSwapV2">> >>) \o
  << Set("VLTToken", "set_minter", "XelisVaultMiner"),
     Set("PrivacyMixer", "set_registry", "external"),
     Set("PrivacyMixer", "set_treasury", "external") >> \o
  << Wire("VaultChat"), Wire("Governor"), Wire("GovernanceVault"), Wire("PSM"),
     Wire("VaultSwapV2"), Wire("SavingsRate"), Wire("VaultEngineV3"), Wire("PrivacyMixer") >>

\* the instructions that concern the contracts of this instance only
Scope == InScope \cup {"external"}
Program(ph) ==
  SelectSeq(CASE ph = "a" -> PhaseA [] ph = "c" -> PhaseC,
            LAMBDA ins : ins.on \in Scope /\ ins.arg \in Scope)
UpgradeNames == SelectSeq(REGISTRY_NAMES, LAMBDA e : e[2] \in Scope)

-----------------------------------------------------------------------------
AllPhases == << "a", "c", "d", "b", "u", "e" >>

\* a tracker's constructor: version 12.1 starts paused, older bytecode does not
Fresh(paused) ==
  [users |-> <<>>, pts |-> [u \in Users |-> 0], tp |-> 0, paused |-> paused,
   mig |-> 0, migd |-> FALSE, cursor |-> 0, acc |-> 0]

Total(t) == MapThenSumSet(LAMBDA u : t.pts[u], ToSet(t.users))

UpgradeInit ==
  /\ RunnerInit
  /\ \E k \in 1..Cardinality(Users) :
       LET us == SubSeq(SetToSeq(Users), 1, k)
       IN old = [users |-> us, pts |-> [u \in Users |-> IF Contains(us, u) THEN 1 ELSE 0]]
  /\ new = Fresh(TRUE)
  /\ cur = [k \in 1..Len(UpgradeNames) |-> 0]
  /\ net = [c \in InScope |-> 0]
  /\ phases = <<>> /\ snap = <<>> /\ up = <<>>
  /\ done = {} /\ first = <<>>

Ph == IF phases = <<>> THEN "off" ELSE Head(phases)

\* main: --phase all, or one phase whose predecessors came to their end; the
\* operator is through when phase E is.
Begin(ps) ==
  /\ phases = <<>> /\ "e" \notin done
  /\ phases' = ps
  /\ UNCHANGED <<runnerVars, trackers, files, snap, up, history>>

BeginNext ==
  Begin(<<AllPhases[CHOOSE k \in 1..Len(AllPhases) :
                      {AllPhases[j] : j \in 1..k} \ done = {AllPhases[k]}]>>)
BeginAll == Begin(AllPhases)
BeginAgain == \E ph \in done : Begin(<<ph>>)

\* the phase comes to its end
EndPhase ==
  /\ phases' = Tail(phases)
  /\ done' = done \cup {Ph}
  /\ at' = 1 /\ landed' = FALSE

\* an exception, a timeout or an interrupt
Stop ==
  /\ phases' = <<>> /\ snap' = <<>> /\ up' = <<>>
  /\ UNCHANGED <<trackers, files, history>>

InProgram == Ph \in {"a", "c"} /\ at <= Len(Program(Ph))
Ins == Program(Ph)[at]

\* the hash an instruction passes: phase C takes the recorders to authorize
\* from network/testnet.json, everything else from the state file
ArgOf(ins) ==
  IF ins.fn = "set_authorized_recorder" THEN net[ins.arg] ELSE book.contracts[ins.arg]

ProgramStep ==
  /\ InProgram
  /\ \/ SkipDeploy(Ins) \/ BookDeploy(Ins)
     \/ SkipStep(Ins) \/ LandStep(Ins, ArgOf(Ins)) \/ LandRefused(Ins) \/ BookStep(Ins)
  /\ UNCHANGED <<trackers, files, process, history>>

DeployNew ==
  /\ InProgram
  /\ LandDeploy(Ins)
  /\ IF Ins.on = "AirdropTracker" THEN \E p \in BOOLEAN : new' = Fresh(p)
                                  ELSE UNCHANGED new
  /\ UNCHANGED <<old, files, process, history>>

\* One more invoke, of entry fn of contract c with argument x, whose effect on
\* the chain is Effect.
Invoked(k) == k \in book.steps
Effect(k) ==
  /\ ~landed /\ ~Invoked(k) /\ landed' = TRUE
  /\ UNCHANGED <<inst, wired, times, book, at, crashes, lost>>
Booked(k) ==
  /\ landed /\ landed' = FALSE
  /\ book' = [book EXCEPT !.steps = @ \cup {k}]
  /\ UNCHANGED <<inst, wired, times, crashes, lost>>
TrackerKey(fn, x) == <<"AirdropTracker", book.contracts["AirdropTracker"], fn, x>>

-----------------------------------------------------------------------------
(* Phase A, the end: a tracker that does not say it is paused is paused.   *)
AtEndOfA == Ph = "a" /\ at = Len(Program("a")) + 1
PauseKey == TrackerKey("pause", 0)

EndA ==
  /\ AtEndOfA /\ ~landed
  /\ new.paused \/ Invoked(PauseKey)
  /\ EndPhase
  /\ UNCHANGED <<inst, wired, times, book, crashes, lost, trackers, files, snap, up, first>>

PauseTracker ==
  /\ AtEndOfA /\ ~new.paused
  /\ Effect(PauseKey)
  /\ new' = [new EXCEPT !.paused = TRUE]
  /\ UNCHANGED <<old, files, process, history>>

PauseBooked ==
  /\ AtEndOfA
  /\ Booked(PauseKey)
  /\ UNCHANGED <<at, trackers, files, process, history>>

EndC ==
  /\ Ph = "c" /\ at = Len(Program("c")) + 1
  /\ EndPhase
  /\ UNCHANGED <<inst, wired, times, book, crashes, lost, trackers, files, snap, up, first>>

-----------------------------------------------------------------------------
(* Phase D.  at is the loop index of the imports (from the cursor on chain *)
(* up to the users of the snapshot), then counts on with the batches.      *)
Unchanged == <<inst, wired, times, book, crashes, lost>>
Totals(t) == [uc |-> Len(t.users), tp |-> Total(t)]

InD == Ph = "d"
Importing == InD /\ snap # <<>> /\ at < snap[1].uc
Finalizing == InD /\ snap # <<>> /\ at >= snap[1].uc
Batch == at - snap[1].uc
MaxBatches == Len(new.users) \div BatchSize + 2

PastCursor_ ==
  /\ InD /\ snap = <<>>
  /\ snap' = << Totals(old) >>
  /\ at' = new.mig + 1
  /\ first' = IF first = <<>> THEN << old >> ELSE first
  /\ landed' = FALSE
  /\ UNCHANGED <<Unchanged, trackers, files, phases, up, done>>
TakeSnapshot ==
  /\ InD /\ snap = <<>>
  /\ snap' = << Totals(old) >>
  /\ at' = new.mig
  /\ first' = IF first = <<>> THEN << old >> ELSE first
  /\ landed' = FALSE
  /\ UNCHANGED <<Unchanged, trackers, files, phases, up, done>>

ReadUser ==
  /\ Importing /\ up = <<>>
  /\ up' = << old.pts[old.users[at + 1]] >>
  /\ UNCHANGED <<runnerVars, trackers, files, phases, snap, history>>

\* import_user_state overwrites the user's record and leaves the totals alone
ImportKey == TrackerKey("migrate", at)
Import ==
  /\ Importing /\ up # <<>>
  /\ Effect(ImportKey)
  /\ LET u == old.users[at + 1]
     IN new' = [new EXCEPT !.pts[u] = up[1],
                           !.users = IF Contains(@, u) THEN @ ELSE Append(@, u)]
  /\ UNCHANGED <<old, files, process, history>>

\* every CursorEvery imports, and after the last one
CursorKey == TrackerKey("mig_cursor", at + 1)
WithCursor == (at + 1) % CursorEvery = 0 \/ at + 1 = snap[1].uc
SetCursor ==
  /\ Importing /\ up # <<>> /\ Invoked(ImportKey) /\ WithCursor
  /\ Effect(CursorKey)
  /\ new' = [new EXCEPT !.mig = at + 1]
  /\ UNCHANGED <<old, files, process, history>>

ImportBooked ==
  /\ Importing /\ up # <<>>
  /\ Booked(IF Invoked(ImportKey) THEN CursorKey ELSE ImportKey)
  /\ UNCHANGED <<at, trackers, files, process, history>>

NextUser ==
  /\ Importing /\ up # <<>> /\ ~landed
  /\ Invoked(ImportKey) /\ (WithCursor => Invoked(CursorKey))
  /\ up' = <<>> /\ at' = at + 1
  /\ UNCHANGED <<Unchanged, landed, trackers, files, phases, snap, history>>

\* finalize_migration: one batch from the cursor the tracker keeps; the
\* totals are published with the last one, and after that it does nothing
FinalizeKey == TrackerKey("finalize", Batch)
AfterBatch(t) ==
  LET end == IF t.cursor + BatchSize > Len(t.users) THEN Len(t.users) ELSE t.cursor + BatchSize
      acc == t.acc + MapThenSumSet(LAMBDA k : t.pts[t.users[k]], (t.cursor + 1)..end)
  IN IF t.migd THEN t
     ELSE IF end >= Len(t.users) THEN [t EXCEPT !.tp = acc, !.acc = 0, !.cursor = 0, !.migd = TRUE]
     ELSE [t EXCEPT !.acc = acc, !.cursor = end]

Finalize ==
  /\ Finalizing /\ ~new.migd /\ Batch < MaxBatches
  /\ Effect(FinalizeKey)
  /\ new' = AfterBatch(new)
  /\ UNCHANGED <<old, files, process, history>>

FinalizeBooked ==
  /\ Finalizing
  /\ landed /\ landed' = FALSE /\ at' = at + 1
  /\ book' = [book EXCEPT !.steps = @ \cup {FinalizeKey}]
  /\ UNCHANGED <<inst, wired, times, crashes, lost, trackers, files, process, history>>

FinalizeWaits_ ==
  /\ Finalizing /\ ~landed /\ ~new.migd /\ Batch < MaxBatches
  /\ Invoked(FinalizeKey)
  /\ UNCHANGED upgradeVars
FinalizeSkip ==
  /\ Finalizing /\ ~landed /\ ~new.migd /\ Batch < MaxBatches
  /\ Invoked(FinalizeKey)
  /\ at' = at + 1
  /\ UNCHANGED <<Unchanged, landed, trackers, files, process, history>>

AnyBatch_ == Finalizing /\ ~landed /\ Batch < MaxBatches
Finalized == Finalizing /\ ~landed /\ new.migd /\ Batch < MaxBatches

\* "cutover is SAFE"
EndD ==
  /\ Finalized /\ Totals(old) = snap[1]
  /\ EndPhase
  /\ snap' = <<>>
  /\ UNCHANGED <<Unchanged, trackers, files, up, first>>

\* FAIL CLOSED, and the batches that did not complete
RaiseInD ==
  /\ \/ Finalized /\ Totals(old) # snap[1]
     \/ Finalizing /\ ~landed /\ Batch = MaxBatches
  /\ Stop /\ Die(Dep("AirdropTracker"))
  /\ UNCHANGED crashes

-----------------------------------------------------------------------------
(* Phase B: the registry names one by one.                                 *)
InB == Ph = "b" /\ at <= Len(UpgradeNames)
Target == book.contracts[UpgradeNames[at][2]]
UpgradeKey == <<"ContractRegistry", 0, "upgrade", UpgradeNames[at][1]>>

SkipUpgrade ==
  /\ InB /\ ~landed
  /\ cur[at] = Target \/ Invoked(UpgradeKey)
  /\ at' = at + 1
  /\ UNCHANGED <<Unchanged, landed, trackers, files, process, history>>

UpgradeEntry ==
  /\ InB /\ cur[at] # Target
  /\ Effect(UpgradeKey)
  /\ cur' = [cur EXCEPT ![at] = Target]
  /\ UNCHANGED <<net, trackers, process, history>>

UpgradeBooked ==
  /\ InB
  /\ Booked(UpgradeKey)
  /\ at' = at + 1
  /\ UNCHANGED <<trackers, files, process, history>>

EndB ==
  /\ Ph = "b" /\ at = Len(UpgradeNames) + 1
  /\ EndPhase
  /\ UNCHANGED <<Unchanged, trackers, files, snap, up, first>>

-----------------------------------------------------------------------------
(* Phase U: unpause unless the tracker says it is; then read it again.     *)
UnpauseKey == TrackerKey("unpause", 0)

Unpause ==
  /\ Ph = "u" /\ new.paused
  /\ Effect(UnpauseKey)
  /\ new' = [new EXCEPT !.paused = FALSE]
  /\ UNCHANGED <<old, files, process, history>>

UnpauseBooked ==
  /\ Ph = "u"
  /\ Booked(UnpauseKey)
  /\ UNCHANGED <<at, trackers, files, process, history>>

EndU ==
  /\ Ph = "u" /\ ~landed /\ ~new.paused
  /\ EndPhase
  /\ UNCHANGED <<Unchanged, trackers, files, snap, up, first>>

\* "tracker still paused after unpause": the label is in the state file
RaiseInU ==
  /\ Ph = "u" /\ ~landed /\ new.paused /\ Invoked(UnpauseKey)
  /\ Stop /\ Die(Dep("AirdropTracker"))
  /\ UNCHANGED crashes

\* Phase E: the repository's network file names the new hashes
PhaseE ==
  /\ Ph = "e"
  /\ net' = [c \in InScope |-> book.contracts[c]]
  /\ EndPhase
  /\ UNCHANGED <<Unchanged, trackers, cur, snap, up, first>>

-----------------------------------------------------------------------------
\* what the process is doing when it dies, for lost
DyingAt ==
  IF InProgram THEN Ins ELSE Set("AirdropTracker", Ph, "external")

Dies ==
  /\ phases # <<>>
  /\ \/ Crash(DyingAt)
     \/ InProgram /\ Refused(Ins)
  /\ Stop

\* The injector and the contracts go on recording: on the old tracker until
\* the network file names the new one.
Record(u) ==
  /\ net["AirdropTracker"] = 0
  /\ Total(old) < MaxPoints
  /\ old' = [old EXCEPT !.pts[u] = @ + 1,
                        !.users = IF Contains(@, u) THEN @ ELSE Append(@, u)]
  /\ UNCHANGED <<runnerVars, new, files, process, history>>

DeployWork == ProgramStep \/ DeployNew \/ EndA \/ PauseTracker \/ PauseBooked \/ EndC
MigrateWork ==
  \/ TakeSnapshot \/ ReadUser \/ Import \/ SetCursor \/ ImportBooked \/ NextUser
  \/ Finalize \/ FinalizeBooked \/ FinalizeSkip \/ EndD \/ RaiseInD
CutoverWork ==
  \/ SkipUpgrade \/ UpgradeEntry \/ UpgradeBooked \/ EndB
  \/ Unpause \/ UnpauseBooked \/ EndU \/ RaiseInU \/ PhaseE
Work == DeployWork \/ MigrateWork \/ CutoverWork

UpgradeNext ==
  BeginNext \/ BeginAll \/ BeginAgain \/ Work \/ Dies \/ \E u \in Users : Record(u)

\* The operator comes back to the phase that did not finish, and a process
\* that runs goes on.
UpgradeSpec ==
  UpgradeInit /\ [][UpgradeNext]_upgradeVars /\ WF_upgradeVars(Work) /\ SF_upgradeVars(BeginNext)

-----------------------------------------------------------------------------
Exact ==
  /\ ToSet(new.users) = ToSet(old.users)
  /\ \A u \in ToSet(old.users) : new.pts[u] = old.pts[u]
  /\ new.tp = Total(old)

(* When phase D prints "cutover is SAFE" and the old tracker is as it was  *)
(* when the phase first began, the new one holds every user with the old   *)
(* points and the old total, however often the script died and resumed.    *)
(* phase_d, upgrade_v12.py:466-564.                                        *)
MigratedExact == [][EndD /\ <<old>> = first => Exact]_upgradeVars

(* The same for every run of phase D, as its FAIL CLOSED message promises: *)
(* "re-run phase D to re-import the updated state (re-imports are          *)
(* idempotent), then run phase B + U".  upgrade_v12.py:558-563.            *)
SafeMeansExact == [][EndD => Exact]_upgradeVars

(* The registry hands out the new tracker only after its migration passed  *)
(* the check, and an upgraded contract under all of its names or under     *)
(* none once phase B is through; a new tracker records for nobody before   *)
(* that, since it is paused.                                               *)
CutoverOrder ==
  /\ \A k \in DOMAIN cur : cur[k] # 0 => "d" \in done /\ new.migd
  /\ "b" \in done => \A k \in DOMAIN cur : cur[k] = book.contracts[UpgradeNames[k][2]]
  /\ "a" \in done /\ ~new.paused => new.migd

(* An upgrade moves its users' points once and hands out only what is done. *)
CutoverSound == []CutoverOrder /\ MigratedExact

(* "Authorize every recorder contract (activates auto-recording)",         *)
(* upgrade_v12.py:323: when the script is through, each upgraded contract  *)
(* is authorized on the new tracker.                                       *)
RecordersLive ==
  "e" \in done =>
    \A c \in InScope \ {"AirdropTracker"} :
      Setting(Authorize(c), book.contracts[c]) \in wired

\* add_feed_entry is on the chain and not in the state file, or the tracker
\* was paused again after its unpause was written to the state file
UpgradeTrapped ==
  \/ \E k \in lost : k[3] = "add_feed_entry" /\ k \notin book.steps
  \/ new.paused /\ Invoked(UnpauseKey)

(* "Crash-safe": an operator who starts the script again after every crash *)
(* gets through phase E, except in the two traps.                          *)
Upgraded == "e" \in done \/ UpgradeTrapped
UpgradeResumes == <>[]Upgraded
=============================================================================

---------------------------- MODULE ScriptRunner ----------------------------
(***************************************************************************)
(* The Deployer class both deployment scripts carry (deploy_v12.py and     *)
(* upgrade_v12.py): a script is a list of instructions, each of which      *)
(* either is found in the state file and skipped, or is sent to the chain, *)
(* waited for, and then written to the state file.  The process may die    *)
(* between any two of these steps (an exception of the RPC client, a       *)
(* timeout of wait(), an interrupt); what is on the chain and in the file  *)
(* survives, what the process holds does not.                              *)
(*                                                                         *)
(* An instance number stands for a contract hash: every deployment of the  *)
(* same name gives a new one, 0 is no hash at all.                         *)
(***************************************************************************)
EXTENDS Naturals, Sequences, FiniteSets

CONSTANTS
  Names,      \* contracts, assets and other things a script refers to
  MaxCrashes  \* bound: how often the process dies

VARIABLES
  inst,     \* chain: [Names -> Nat], how many instances were deployed
  wired,    \* chain: settings in force, <<on, inst of on, fn, arg, inst of arg>>
  times,    \* chain: how often an effect that is no plain setting took place,
            \*        a function from the keys that occurred
  book,     \* the state file: [contracts : [Names -> Nat], steps : set of keys]
  at,       \* the process: index of the instruction it is at
  landed,   \* the process: that instruction is on the chain, not in the file
  crashes,  \* history: how often the process died
  lost      \* history: keys that were on the chain and not in the file when it died

runnerVars == <<inst, wired, times, book, at, landed, crashes, lost>>

-----------------------------------------------------------------------------
(* Instructions.  "deploy" makes an instance; "set" is an idempotent       *)
(* setter; "once" is refused by the contract the second time; "add" takes  *)
(* effect as often as it lands; "register" is skipped when the registry    *)
(* already answers with the hash; "asset" reads the hash of the asset a    *)
(* contract created; "instance" books a deployment under another name.     *)
Dep(c)          == [op |-> "deploy", on |-> c, fn |-> "deploy", arg |-> c]
Set(c, fn, a)   == [op |-> "set", on |-> c, fn |-> fn, arg |-> a]
Once(c, fn)     == [op |-> "once", on |-> c, fn |-> fn, arg |-> "external"]
Add(c, fn)      == [op |-> "add", on |-> c, fn |-> fn, arg |-> "external"]
Reg(name, c)    == [op |-> "register", on |-> "ContractRegistry", fn |-> name, arg |-> c]
Asset(a, c)     == [op |-> "asset", on |-> a, fn |-> "ah", arg |-> c]
Instance(n, c)  == [op |-> "instance", on |-> n, fn |-> "deploy", arg |-> c]

Settings(c, fns) == [k \in 1..Len(fns) |-> Set(c, fns[k][1], fns[k][2])]

\* label@contract[:12], the name of a step in the state file
Key(ins) == <<ins.on, book.contracts[ins.on], ins.fn, ins.arg>>

Times(k) == IF k \in DOMAIN times THEN times[k] ELSE 0
Happen(k) == times' = [x \in DOMAIN times \cup {k} |-> Times(x) + IF x = k THEN 1 ELSE 0]

Setting(ins, a) == <<ins.on, book.contracts[ins.on], ins.fn, ins.arg, a>>

-----------------------------------------------------------------------------
RunnerInit ==
  /\ inst = [n \in Names |-> 0]
  /\ wired = {}
  /\ times = <<>>
  /\ book = [contracts |-> [n \in Names |-> 0], steps |-> {}]
  /\ at = 1 /\ landed = FALSE
  /\ crashes = 0 /\ lost = {}

Advance == at' = at + 1 /\ landed' = FALSE

Book(n, i) == book' = [book EXCEPT !.contracts[n] = i]

\* deploy: the name is in the state file
SkipDeploy(ins) ==
  /\ ins.op \in {"deploy", "instance"} /\ ~landed
  /\ book.contracts[ins.on] # 0
  /\ Advance
  /\ UNCHANGED <<inst, wired, times, book, crashes, lost>>

\* deploy: build_transaction, then wait() for the block that holds it
LandDeploy(ins) ==
  /\ ins.op \in {"deploy", "instance"} /\ ~landed
  /\ book.contracts[ins.on] = 0 /\ book.contracts[ins.arg] = 0
  /\ inst' = [inst EXCEPT ![ins.arg] = @ + 1]
  /\ landed' = TRUE
  /\ UNCHANGED <<wired, times, book, at, crashes, lost>>

BookDeploy(ins) ==
  /\ ins.op \in {"deploy", "instance"} /\ landed
  /\ Book(ins.arg, inst[ins.arg])
  /\ at' = IF ins.op = "deploy" THEN at + 1 ELSE at
  /\ landed' = FALSE
  /\ UNCHANGED <<inst, wired, times, crashes, lost>>

\* the hash deploy() returned, be it new or out of the state file
BookInstance(ins) ==
  /\ ins.op = "instance" /\ ~landed
  /\ book.contracts[ins.on] = 0 /\ book.contracts[ins.arg] # 0
  /\ Book(ins.on, book.contracts[ins.arg])
  /\ Advance
  /\ UNCHANGED <<inst, wired, times, crashes, lost>>

\* invoke: the label is in the state file
SkipStep(ins) ==
  /\ ins.op \in {"set", "once", "add", "register"} /\ ~landed
  /\ Key(ins) \in book.steps
  /\ Advance
  /\ UNCHANGED <<inst, wired, times, book, crashes, lost>>

\* register: the registry already answers with the target
SkipRegister(ins, a) ==
  /\ ins.op = "register" /\ ~landed
  /\ Setting(ins, a) \in wired
  /\ Advance
  /\ UNCHANGED <<inst, wired, times, book, crashes, lost>>

LandsAgain_(ins, a) ==
  /\ ins.op \in {"set", "once", "add"} /\ ~landed
  /\ Happen(Key(ins)) /\ landed' = TRUE
  /\ wired' = wired \cup {Setting(ins, a)}
  /\ UNCHANGED <<inst, book, at, crashes, lost>>
\* invoke: the transaction is in a block and did not revert
LandStep(ins, a) ==
  /\ ~landed /\ Key(ins) \notin book.steps
  /\ \/ /\ \/ ins.op = "set"
           \/ ins.op = "register" /\ Setting(ins, a) \notin wired
        /\ wired' = wired \cup {Setting(ins, a)}
        /\ UNCHANGED times
     \/ /\ \/ ins.op = "add"
           \/ ins.op = "once" /\ Times(Key(ins)) = 0
        /\ Happen(Key(ins))
        /\ UNCHANGED wired
  /\ landed' = TRUE
  /\ UNCHANGED <<inst, book, at, crashes, lost>>

\* invoke: the contract refuses to do it twice, and the log that says so is
\* late, so that revert_reason() answers None ("None on success/unknown")
LandRefused(ins) ==
  /\ ins.op = "once" /\ ~landed
  /\ Key(ins) \notin book.steps /\ Times(Key(ins)) > 0
  /\ landed' = TRUE
  /\ UNCHANGED <<inst, wired, times, book, at, crashes, lost>>

BookUnlanded_(ins) ==
  /\ ins.op \in {"set", "once", "add", "register"}
  /\ book' = [book EXCEPT !.steps = @ \cup {Key(ins)}]
  /\ Advance
  /\ UNCHANGED <<inst, wired, times, crashes, lost>>
BookStep(ins) ==
  /\ ins.op \in {"set", "once", "add", "register"} /\ landed
  /\ book' = [book EXCEPT !.steps = @ \cup {Key(ins)}]
  /\ Advance
  /\ UNCHANGED <<inst, wired, times, crashes, lost>>

\* extract_new_asset: the asset exists once create_asset has run
BookAsset(ins) ==
  /\ ins.op = "asset"
  /\ Times(<<ins.arg, book.contracts[ins.arg], "create_asset", "external">>) > 0
  /\ Book(ins.on, book.contracts[ins.arg])
  /\ Advance
  /\ UNCHANGED <<inst, wired, times, crashes, lost>>

\* The process dies at instruction ins and is later started again at the
\* beginning of its list.
Die(ins) ==
  /\ at' = 1 /\ landed' = FALSE
  /\ lost' = IF landed THEN lost \cup {Key(ins)} ELSE lost
  /\ UNCHANGED <<inst, wired, times, book>>

Crash(ins) == crashes < MaxCrashes /\ crashes' = crashes + 1 /\ Die(ins)

\* invoke: "REVERTED", a RuntimeError
Refused(ins) ==
  /\ ins.op = "once" /\ ~landed
  /\ Key(ins) \notin book.steps /\ Times(Key(ins)) > 0
  /\ Die(ins)
  /\ UNCHANGED crashes

=============================================================================

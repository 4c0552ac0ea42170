------------------------------ MODULE ChunkMaps ------------------------------
(***************************************************************************)
(* The legacy contracts' build (legacy/scripts/compile_all.py,             *)
(* gen_chunk_map.py, validate_chunk_ids.py, audit_cross_calls.py).  The    *)
(* deployment reads two products of it, the bytecode of a contract and the *)
(* ids of docs/entry_chunk_ids.json; the recorded chunk map is the memory  *)
(* of what was built before.  One run compiles contract after contract,    *)
(* may be killed anywhere, and may be given some of the contracts only.    *)
(***************************************************************************)
EXTENDS Integers, Sequences, FiniteSets, SequencesExt, TLC

CONSTANTS
  Known,       \* contracts the build knows
  Edited,      \* bound: the contracts under change
  MaxChanges,  \* bound: changes the developer makes to the sources
  MaxKills     \* bound: builds that die

VARIABLES
  source,    \* [Known -> functions in order of declaration]
  broken,    \* contracts that do not compile
  hex,       \* [Known -> the functions of the bytecode file]
  chunkmap,  \* [Known -> the functions of the recorded map]
  json,      \* [Known -> the ids file: chunk id -> function]
  build,     \* the running build
  changes, kills,
  recorded   \* ghost: every chunk that was ever in a recorded map

buildVars == <<source, broken, hex, chunkmap, json, build, changes, kills, recorded>>

Fun(k, f) == [kind |-> k, name |-> f, place |-> "line"]
Ctor == Fun("hook", "constructor")
Public == Fun("pub fn", "get_price")
Helper == Fun("fn", "helper")
\* every contract calls one of these chunks of another, under a fixed id
CallId == 1

\* the compiler numbers what is not commented out, from zero
Compiled(c) == SelectSeq(source[c], LAMBDA f : f.place # "block")
Chunks(fns) == [i \in 0..(Len(fns) - 1) |-> [kind |-> fns[i + 1].kind, name |-> fns[i + 1].name]]

Idle == [pc |-> "idle", queue |-> <<>>, ids |-> <<>>, changed |-> {}, failed |-> {}]
AsBuilt == [c \in Known |-> <<Ctor, Public>>]

MapsInit ==
  /\ source = AsBuilt /\ broken = {}
  /\ hex = [c \in Known |-> Chunks(AsBuilt[c])] /\ chunkmap = hex /\ json = hex
  /\ build = Idle /\ changes = 0 /\ kills = 0
  /\ recorded = [c \in Known |-> {<<i, chunkmap[c][i]>> : i \in DOMAIN chunkmap[c]}]

-----------------------------------------------------------------------------
(***************************************************************************)
(* The developer, between two builds.                                      *)
(***************************************************************************)
Change(c, fns, b) ==
  /\ build.pc = "idle" /\ changes < MaxChanges
  /\ source' = [source EXCEPT ![c] = fns] /\ broken' = b
  /\ changes' = changes + 1
  /\ UNCHANGED <<hex, chunkmap, json, build, kills, recorded>>

Changing ==
  \E c \in Edited :
    \/ \E i \in 1..(Len(source[c]) + 1) :
         Helper \notin ToSet(source[c]) /\ Change(c, InsertAt(source[c], i, Helper), broken)
    \/ \E i \in 2..Len(source[c]) :
         \/ Change(c, RemoveAt(source[c], i), broken)
         \/ Change(c, [source[c] EXCEPT ![i].place = "block"], broken)
         \/ Change(c, [source[c] EXCEPT ![i].kind = "entry"], broken)
    \/ Change(c, source[c], broken \cup {c})
    \/ Change(c, AsBuilt[c], broken \ {c})

-----------------------------------------------------------------------------
(***************************************************************************)
(* compile_all.py.                                                         *)
(***************************************************************************)
Start(names) ==
  /\ build.pc = "idle" /\ names # {}
  /\ build' = [Idle EXCEPT !.pc = "compile", !.queue = SetToSeq(names), !.ids = json]
  /\ UNCHANGED <<source, broken, hex, chunkmap, json, changes, kills, recorded>>

Fail(c) == [build EXCEPT !.pc = "compile", !.queue = Tail(@), !.failed = @ \cup {c}]

\* the tool writes the bytecode before anything is compared
Compile ==
  /\ build.pc = "compile" /\ build.queue # <<>>
  /\ LET c == Head(build.queue)
     IN  IF c \in broken
         THEN build' = Fail(c) /\ UNCHANGED hex
         ELSE /\ hex' = [hex EXCEPT ![c] = Chunks(Compiled(c))]
              /\ build' = [build EXCEPT !.pc = "compare"]
  /\ UNCHANGED <<source, broken, chunkmap, json, changes, kills, recorded>>

\* mutant: only a map that got shorter is refused
ByLength_(old, new) == \A i \in DOMAIN old : i \in DOMAIN new
AppendOnly(old, new) == \A i \in DOMAIN old : i \in DOMAIN new /\ new[i] = old[i]

Compare ==
  /\ build.pc = "compare"
  /\ LET c == Head(build.queue)
         new == Chunks(Compiled(c))
     IN  IF AppendOnly(chunkmap[c], new)
         THEN /\ chunkmap' = [chunkmap EXCEPT ![c] = new]
              /\ build' = [build EXCEPT !.pc = "compile", !.queue = Tail(@),
                             !.ids[c] = new, !.changed = @ \cup {c}]
              /\ recorded' = [recorded EXCEPT ![c] = @ \cup {<<i, new[i]>> : i \in DOMAIN new}]
         ELSE build' = Fail(c) /\ UNCHANGED <<chunkmap, recorded>>
  /\ UNCHANGED <<source, broken, hex, json, changes, kills>>

WriteIds ==
  /\ build.pc = "compile" /\ build.queue = <<>>
  /\ json' = IF build.changed # {} THEN build.ids ELSE json
  /\ build' = [build EXCEPT !.pc = "done"]
  /\ UNCHANGED <<source, broken, hex, chunkmap, changes, kills, recorded>>

Leave ==
  /\ build.pc = "done" /\ build' = Idle
  /\ UNCHANGED <<source, broken, hex, chunkmap, json, changes, kills, recorded>>

KillBuild ==
  /\ build.pc \in {"compile", "compare"} /\ kills < MaxKills
  /\ build' = Idle /\ kills' = kills + 1
  /\ UNCHANGED <<source, broken, hex, chunkmap, json, changes, recorded>>

(***************************************************************************)
(* gen_chunk_map.py writes the ids file anew with the contracts it was     *)
(* given and nothing else, only the functions a transaction or a contract  *)
(* may call, and only when all of them compile.                            *)
(***************************************************************************)
GenChunkMap(names) ==
  /\ build.pc = "idle" /\ names # {} /\ names \cap broken = {}
  /\ json' = [c \in Known |->
                IF c \in names
                THEN LET chunks == Chunks(Compiled(c))
                     IN  [i \in {j \in DOMAIN chunks : chunks[j].kind \in {"entry", "pub fn"}}
                            |-> chunks[i]]
                ELSE <<>>]
  /\ json' # json
  /\ UNCHANGED <<source, broken, hex, chunkmap, build, changes, kills, recorded>>

-----------------------------------------------------------------------------
(***************************************************************************)
(* The two checks of the calls between contracts: validate_chunk_ids.py    *)
(* counts the functions in the text as it is, commented out or not;        *)
(* audit_cross_calls.py asks the compiler.                                 *)
(***************************************************************************)
Callable(fns) == CallId < Len(fns) /\ fns[CallId + 1].kind = "pub fn"
Validated == \A c \in Known : Callable(source[c])
\* a contract that does not compile leaves its calls unresolved, which is no error
Audited == \A c \in Known \ broken : Callable(Compiled(c))

MapsNext ==
  \/ Changing
  \/ \E names \in SUBSET Known : Start(names) \/ GenChunkMap(names)
  \/ Compile \/ Compare \/ WriteIds \/ Leave \/ KillBuild

-----------------------------------------------------------------------------
(***************************************************************************)
(* The append-only guarantee of build/README.md: a chunk once recorded     *)
(* keeps its position, its kind and its name in every later map, whatever  *)
(* was built, refused or interrupted in between.                           *)
(***************************************************************************)
LayoutKept == \A c \in Known : \A r \in recorded[c] : r[1] \in DOMAIN chunkmap[c] /\ chunkmap[c][r[1]] = r[2]

(***************************************************************************)
(* When a build ends, the contracts it reports as compiled have the same   *)
(* functions in the bytecode, the recorded map and the ids file; a kill    *)
(* in an earlier build leaves no trace in them.                            *)
(***************************************************************************)
ProductsAgree ==
  build.pc = "done" => \A c \in build.changed : hex[c] = chunkmap[c] /\ json[c] = chunkmap[c]

(***************************************************************************)
(* When the audit passes the sources, the chunk a call names is public in  *)
(* the bytecode of every contract a build of them reports as compiled; the *)
(* validator's word is as good when nothing is commented out as a block.   *)
(***************************************************************************)
CheckedCallsLand ==
  build.pc = "done" =>
    \A c \in build.changed :
      (Audited \/ (Validated /\ \A i \in 1..Len(source[c]) : source[c][i].place = "line"))
        => CallId \in DOMAIN hex[c] /\ hex[c][CallId].kind = "pub fn"
=============================================================================

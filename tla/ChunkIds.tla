------------------------------ MODULE ChunkIds -------------------------------
(***************************************************************************)
(* The numbering of a contract's functions on its way from a developer's   *)
(* editor to the main branch (scripts/silex_parse.py, verify_chunk_ids.py, *)
(* regen_chunk_table.py, regen_sdk_entry_ids.py, silex_compile_check.py,   *)
(* the tests and verify_pass4_parity.py).                                  *)
(*                                                                         *)
(* The compiler gives every function the next chunk id in the order of     *)
(* declaration.  Four copies of that order are kept by hand or by a tool:  *)
(* the table in the contract's header, the client library's two id         *)
(* tables, the committed ABI and the ids a calling contract pins.  A       *)
(* change reaches the main branch only when every gate agrees with it, and *)
(* the gates read the source in two ways: one parser blanks the comments   *)
(* first and accepts an indented declaration, the others match the raw     *)
(* text at the beginning of a line.                                        *)
(***************************************************************************)
EXTENDS Integers, Sequences, FiniteSets, SequencesExt, TLC

CONSTANTS
  MaxEdits   \* bound: changes the developer makes to the sources

VARIABLES
  tree,    \* the working tree: the sources and everything derived from them
  main,    \* the tree at the head of the main branch
  edits

gateVars == <<tree, main, edits>>

\* a gated contract others call, and the mixer, which must call nobody
Contracts == {"dex", "mixer"}
Fn(k, f) == [kind |-> k, name |-> f, place |-> "line"]
Written ==
  [dex |-> <<Fn("hook", "constructor"), Fn("pub fn", "create_pool"), Fn("entry", "swap")>>,
   mixer |-> <<Fn("hook", "constructor"), Fn("entry", "deposit")>>]
NewFns == {Fn("fn", "helper"), Fn("entry", "claim")}
Pinned == "create_pool"

(***************************************************************************)
(* The readings of a source: what the compiler numbers, which is what the  *)
(* masking parser finds, and what a match on the raw text finds.           *)
(***************************************************************************)
Parsed(fns) == SelectSeq(fns, LAMBDA f : f.place # "block")
Raw(fns) == SelectSeq(fns, LAMBDA f : f.place # "indent")
NamesIn(fns) == [i \in 1..Len(fns) |-> fns[i].name]
Entries(fns) == SelectSeq(fns, LAMBDA f : f.kind = "entry")

\* list.index: the first place of a name, counted from zero
Has(fns, name) == \E i \in 1..Len(fns) : fns[i].name = name
Index(fns, name) ==
  (CHOOSE i \in 1..Len(fns) :
     fns[i].name = name /\ \A j \in 1..(i - 1) : fns[j].name # name) - 1

\* a dictionary built over the list: the last place of a name stays
Ids(fns, names) ==
  [n \in names |->
     (CHOOSE i \in 1..Len(fns) :
        fns[i].name = n /\ \A j \in (i + 1)..Len(fns) : fns[j].name # n) - 1]

EntryNames(fns) == {f.name : f \in ToSet(Entries(fns))}
FullIds(raw) == Ids(raw, EntryNames(raw))
AltIds(raw) ==
  LET entries == SelectSeq(raw, LAMBDA f : f.name \in EntryNames(raw))
  IN  Ids(entries, EntryNames(raw))
\* silex-cli abi: the entries under the ids the compiler gave
Abi(fns) == Ids(Parsed(fns), EntryNames(Parsed(fns)))

Consistent(fns) ==
  [fns |-> fns,
   table |-> [c \in Contracts |-> NamesIn(Parsed(fns[c]))],
   ids |-> FullIds(Raw(fns["dex"])), alt |-> AltIds(Raw(fns["dex"])),
   abi |-> Abi(fns["dex"]), pin |-> Index(Raw(fns["dex"]), Pinned),
   calls |-> {}]

GateInit == tree = Consistent(Written) /\ main = tree /\ edits = 0

-----------------------------------------------------------------------------
(***************************************************************************)
(* The developer.                                                          *)
(***************************************************************************)
Edit(t) == edits < MaxEdits /\ tree' = t /\ edits' = edits + 1 /\ UNCHANGED main

Insert(c, i, f) ==
  /\ ~ Has(Parsed(tree.fns[c]), f.name)
  /\ Edit([tree EXCEPT !.fns[c] = InsertAt(@, i, f)])
Delete(c, i) == Edit([tree EXCEPT !.fns[c] = RemoveAt(@, i)])
\* a function is commented out as a block, or ends up indented
Displace(c, i, place) ==
  /\ tree.fns[c][i].place = "line" /\ tree.fns[c][i].name # "constructor"
  /\ Edit([tree EXCEPT !.fns[c][i].place = place])
\* the mixer gets a call to another contract, in its code or in a comment
CallOut(place) == Edit([tree EXCEPT !.calls = @ \cup {place}])
\* an id is typed by hand
TypeId(n, id) ==
  n \in DOMAIN tree.ids /\ tree.ids[n] # id /\ Edit([tree EXCEPT !.ids[n] = id])

\* bound: one contract under change
EditDex ==
  /\ tree.fns["mixer"] = Written["mixer"] /\ tree.calls = {}
  /\ \/ \E i \in 2..(Len(tree.fns["dex"]) + 1), f \in NewFns : Insert("dex", i, f)
     \/ \E i \in 2..Len(tree.fns["dex"]) :
          /\ tree.fns["dex"][i].name # Pinned
          /\ Delete("dex", i) \/ \E p \in {"block", "indent"} : Displace("dex", i, p)
     \/ \E n \in DOMAIN tree.ids, id \in {1, 3} : TypeId(n, id)

EditMixer ==
  /\ tree.fns["dex"] = Written["dex"]
  /\ \/ \E i \in 2..(Len(tree.fns["mixer"]) + 1) : Insert("mixer", i, Fn("fn", "helper"))
     \/ \E p \in {"line", "block"} : CallOut(p)

\* the tools that write the copies again, and the constant the pin's test asks for
Regen(t) == tree' = t /\ tree' # tree /\ UNCHANGED <<main, edits>>
RegenTable(c) == Regen([tree EXCEPT !.table[c] = NamesIn(Parsed(tree.fns[c]))])
RegenSdk ==
  LET raw == Raw(tree.fns["dex"])
  IN  Regen([tree EXCEPT !.ids = FullIds(raw), !.alt = AltIds(raw)])
RegenAbi == Regen([tree EXCEPT !.abi = Abi(tree.fns["dex"])])
Repin == Regen([tree EXCEPT !.pin = Index(Raw(tree.fns["dex"]), Pinned)])

-----------------------------------------------------------------------------
(***************************************************************************)
(* The gates.                                                              *)
(***************************************************************************)
\* verify_chunk_ids.py: the header's table, and the mixer's isolation
TableMatches(t, c) == t.table[c] = NamesIn(Parsed(t.fns[c]))
MixerAlone(t) == "line" \notin t.calls
VerifyChunkIds(t) == (\A c \in Contracts : TableMatches(t, c)) /\ MixerAlone(t)

\* the tests: every id of the two tables is a place in the raw order
SdkMatches(t) ==
  LET raw == Raw(t.fns["dex"])
      entries == SelectSeq(raw, LAMBDA f : f.name \in EntryNames(raw))
  IN  /\ \A n \in DOMAIN t.ids : Has(raw, n) /\ Index(raw, n) = t.ids[n]
      /\ \A n \in DOMAIN t.alt : Has(entries, n) /\ Index(entries, n) = t.alt[n]
PinMatches(t) == Index(Raw(t.fns["dex"]), Pinned) = t.pin

\* mutant: the committed ABI is compared by its names
AbiByNames_(t) == DOMAIN t.abi = DOMAIN Abi(t.fns["dex"])
\* silex_compile_check.py: the committed ABI is the compiler's
CompileCheck(t) == t.abi = Abi(t.fns["dex"])

\* verify_pass4_parity.py, part 4: every entry of the ABI has its id in the library
ParityHolds(t) == \A n \in DOMAIN t.abi : n \in DOMAIN t.ids /\ t.ids[n] = t.abi[n]

GatesPass(t) ==
  VerifyChunkIds(t) /\ SdkMatches(t) /\ PinMatches(t) /\ CompileCheck(t) /\ ParityHolds(t)

Merge ==
  /\ tree # main /\ GatesPass(tree)
  /\ main' = tree
  /\ UNCHANGED <<tree, edits>>

GateNext ==
  \/ EditDex \/ EditMixer
  \/ \E c \in Contracts : RegenTable(c)
  \/ RegenSdk \/ RegenAbi \/ Repin
  \/ Merge

-----------------------------------------------------------------------------
(***************************************************************************)
(* On the main branch the library sends every entry of the compiled        *)
(* contract to its own chunk, by either of its tables, although the tests  *)
(* count commented-out functions and miss indented ones: the ABI gate      *)
(* ties the raw order to the compiler's.  The headers are exact and the    *)
(* mixer calls nobody.                                                     *)
(***************************************************************************)
MainExact ==
  LET compiled == Parsed(main.fns["dex"])
  IN  /\ \A n \in EntryNames(compiled) :
           /\ n \in DOMAIN main.ids /\ main.ids[n] = Index(compiled, n)
           /\ n \in DOMAIN main.alt /\ main.alt[n] = Index(Entries(compiled), n)
           /\ main.abi[n] = Index(compiled, n)
      /\ \A c \in Contracts : main.table[c] = NamesIn(Parsed(main.fns[c]))
      /\ "line" \notin main.calls

(***************************************************************************)
(* A pinned id of a contract's call lands on its function when an entry    *)
(* is declared after it (the test reads "A renumbering on either side      *)
(* fails here"): with none behind it nothing ties the raw order there to   *)
(* the compiler's, and LaunchDEX's create_pool_open is the last function   *)
(* of its contract.                                                        *)
(***************************************************************************)
PinLands ==
  LET compiled == Parsed(main.fns["dex"])
      at == Index(compiled, Pinned)
  IN  (\E i \in (at + 2)..Len(compiled) : compiled[i].kind = "entry") => main.pin = at
=============================================================================

----------------------------- MODULE ToolsProofs -----------------------------
(***************************************************************************)
(* What the deployment scripts keep, proved.  deploy_v12.py first: any     *)
(* number of deaths, of repetitions of a phase and of contracts left       *)
(* behind on the chain.                                                    *)
(***************************************************************************)
EXTENDS MCTools, TLAPS

-----------------------------------------------------------------------------
(* The state file.  A name in it that is Fixed never gets another value.   *)

Calling == {"set", "once", "add", "register"}
Making == {"deploy", "instance", "asset"}

Fixed(n) == book.contracts[n] # 0 \/ n \notin Made

\* what an instruction has achieved once the script is past it
Done(ins) ==
  /\ ins.op \in Making => book.contracts[ins.on] # 0
  /\ ins.op \in Calling => Fixed(ins.on) /\ Fixed(ins.arg)
  /\ ins.op \in {"set", "register"} => Setting(ins, book.contracts[ins.arg]) \in wired
  /\ ins.op = "add" => Times(Key(ins)) >= 1

BookInv ==
  /\ book = [contracts |-> book.contracts, steps |-> book.steps]
  /\ book.contracts \in [Names -> Nat] /\ inst \in [Names -> Nat]
  /\ \A ins \in All : ins.op = "asset" /\ book.contracts[ins.on] # 0 =>
       book.contracts[ins.on] = book.contracts[ins.arg]

\* a label in the state file is of an instruction whose effect is on the chain
StepsInv ==
  \A k \in book.steps : \E ins \in All : ins.op \in Calling /\ k = Key(ins) /\ Done(ins)

\* an effect took place once; its label is in the file, or the script is at it
TimesInv ==
  \A k \in DOMAIN times :
    /\ times[k] \in Nat /\ times[k] >= 1
    /\ \/ k \in lost
       \/ /\ times[k] = 1
          /\ \/ k \in book.steps
             \/ landed /\ CurIns.op \in {"once", "add"} /\ k = Key(CurIns)

\* what is on the chain and not in the file
LandedInv ==
  landed =>
    /\ RunningPhase /\ CurIns.op # "asset"
    /\ CurIns.op \in {"deploy", "instance"} =>
         book.contracts[CurIns.arg] = 0 /\ inst[CurIns.arg] >= 1
    /\ CurIns.op \in {"set", "register"} =>
         Setting(CurIns, book.contracts[CurIns.arg]) \in wired
    /\ CurIns.op \in {"once", "add"} => Times(Key(CurIns)) >= 1

PlaceInv ==
  /\ complete \subseteq 1..Len(Phases)
  /\ \A p \in complete : \A ins \in Instructions(p) : Done(ins)
  /\ at \in Nat /\ at >= 1
  /\ phase = 0 => at = 1 /\ ~landed
  /\ phase # 0 =>
       /\ phase \in 1..Len(Phases) /\ 1..(phase - 1) \subseteq complete
       /\ at <= Len(Phases[phase]) + 1
       /\ \A j \in 1..(at - 1) : Done(Phases[phase][j])

GuideInv == BookInv /\ StepsInv /\ TimesInv /\ LandedInv /\ PlaceInv

\* The instruction at hand is one of the guide's, and what it calls and names is
\* in the state file for good.
LEMMA AtHand ==
  ASSUME GuideInv, RunningPhase
  PROVE  /\ CurIns \in All /\ CurIns.on \in Names /\ CurIns.arg \in Names
         /\ CurIns.op = "deploy" => CurIns.arg = CurIns.on
         /\ CurIns.op = "asset" => book.contracts[CurIns.arg] # 0
         /\ CurIns.op \in Calling => Fixed(CurIns.on) /\ Fixed(CurIns.arg)
<1>1. /\ phase \in 1..Len(Phases) /\ at \in 1..Len(Phases[phase])
      /\ Len(Phases) \in Nat /\ Len(Phases[phase]) \in Nat
  BY GuideOrdered DEF GuideInv, PlaceInv, RunningPhase, PhasesOrdered
<1>2. CurIns \in All
  BY <1>1 DEF CurIns, All, Instructions
<1>3. /\ CurIns.on \in Names /\ CurIns.arg \in Names
      /\ CurIns.op = "deploy" => CurIns.arg = CurIns.on
      /\ CurIns.op = "asset" => CurIns.arg \in Before(phase, at)
      /\ CurIns.op \in Calling => {CurIns.on, CurIns.arg} \cap Made \subseteq Before(phase, at)
  BY <1>1, GuideOrdered DEF PhasesOrdered, CurIns, Calling
<1>4. ASSUME NEW ins, Done(ins), NEW n \in Makes(ins)
      PROVE  book.contracts[n] # 0
  <2>1. ins.op \in Making /\ n = ins.on
    BY DEF Makes, Making
  <2>2. book.contracts[ins.on] # 0
    BY <1>4, <2>1 DEF Done
  <2>. QED
    BY <2>1, <2>2
<1>5. ASSUME NEW n \in Before(phase, at)
      PROVE  book.contracts[n] # 0
  <2>1. CASE n \in UNION {Makes(ins) : ins \in UNION {Instructions(q) : q \in 1..(phase - 1)}}
    <3>1. PICK ins \in UNION {Instructions(q) : q \in 1..(phase - 1)} : n \in Makes(ins)
      BY <2>1
    <3>2. PICK q \in 1..(phase - 1) : ins \in Instructions(q)
      BY <3>1
    <3>3. q \in complete
      BY <1>1, <3>2 DEF GuideInv, PlaceInv
    <3>4. Done(ins)
      BY <3>2, <3>3 DEF GuideInv, PlaceInv
    <3>. QED
      BY <1>4, <3>1, <3>4
  <2>2. CASE n \in UNION {Makes(Phases[phase][j]) : j \in 1..(at - 1)}
    <3>1. PICK j \in 1..(at - 1) : n \in Makes(Phases[phase][j])
      BY <2>2
    <3>2. PICK ins : ins = Phases[phase][j]
      OBVIOUS
    <3>3. Done(ins)
      BY <1>1, <3>1, <3>2 DEF GuideInv, PlaceInv
    <3>. QED
      BY <1>4, <3>1, <3>2, <3>3
  <2> DEFINE InPhases == UNION {Makes(ins) : ins \in UNION {Instructions(q) : q \in 1..(phase - 1)}}
             InThis == UNION {Makes(Phases[phase][j]) : j \in 1..(at - 1)}
  <2>3. Before(phase, at) = InPhases \cup InThis
    BY DEF Before
  <2>4. n \in InPhases \/ n \in InThis
    <3> HIDE DEF InPhases, InThis
    <3>. QED
      BY <2>3
  <2>. QED
    BY <2>1, <2>2, <2>4
<1>. QED
  BY <1>2, <1>3, <1>5 DEF Fixed

\* Labels tell instructions apart, as far as what they do.
LEMMA SameLabel ==
  ASSUME NEW i \in All, NEW j \in All, Key(i) = Key(j), Done(i)
  PROVE  Done(j)
<1>1. i.on = j.on /\ i.fn = j.fn /\ i.arg = j.arg
  BY DEF Key
<1>2. i.op = j.op
  BY <1>1, GuideOrdered DEF PhasesOrdered
<1>. QED
  BY <1>1, <1>2 DEF Done, Setting, Key, Times

\* What is in the file already is skipped rightly.
LEMMA Labelled ==
  ASSUME GuideInv, RunningPhase, CurIns.op \in Calling, Key(CurIns) \in book.steps
  PROVE  Done(CurIns)
<1>1. PICK ins \in All : Key(CurIns) = Key(ins) /\ Done(ins)
  BY DEF GuideInv, StepsInv
<1>2. PICK j \in All : j = CurIns
  BY AtHand
<1>. QED
  BY <1>1, <1>2, SameLabel

\* A hash that is new to the file, or the one it has: nothing that was done is
\* undone, and no label changes its meaning.
LEMMA Booked1 ==
  ASSUME GuideInv, NEW n \in Names, n \in Made, NEW i \in Nat \ {0},
         book.contracts[n] \in {0, i}, Book(n, i), UNCHANGED <<wired, times>>
  PROVE  /\ book' = [contracts |-> book'.contracts, steps |-> book'.steps]
         /\ book'.contracts \in [Names -> Nat] /\ book'.contracts[n] = i
         /\ \A m \in Names \ {n} : book'.contracts[m] = book.contracts[m]
         /\ book'.steps = book.steps
         /\ \A m \in Names : Fixed(m) => Fixed(m)' /\ book'.contracts[m] = book.contracts[m]
         /\ \A ins \in All : Done(ins) => Done(ins)'
         /\ StepsInv'
<1>1. PICK b, s : b = book.contracts /\ s = book.steps
  OBVIOUS
<1>2. book = [contracts |-> b, steps |-> s] /\ b \in [Names -> Nat] /\ b[n] \in {0, i}
  BY <1>1 DEF GuideInv, BookInv
<1>3. book' = [contracts |-> [b EXCEPT ![n] = i], steps |-> s]
  BY <1>2 DEF Book
<1>4. /\ book' = [contracts |-> book'.contracts, steps |-> book'.steps]
      /\ book'.contracts \in [Names -> Nat] /\ book'.contracts[n] = i
      /\ \A m \in Names \ {n} : book'.contracts[m] = book.contracts[m]
      /\ book'.steps = book.steps
  BY <1>1, <1>2, <1>3
<1>5. \A m \in Names : Fixed(m) => Fixed(m)' /\ book'.contracts[m] = book.contracts[m]
  <2>. SUFFICES ASSUME NEW m \in Names, Fixed(m)
                PROVE  Fixed(m)' /\ book'.contracts[m] = book.contracts[m]
    OBVIOUS
  <2>1. CASE m = n
    BY <1>1, <1>2, <1>4, <2>1 DEF Fixed
  <2>2. CASE m # n
    BY <1>4, <2>2 DEF Fixed
  <2>. QED
    BY <2>1, <2>2
<1>6. ASSUME NEW ins \in All, Done(ins)
      PROVE  Done(ins)' /\ (ins.op \in Calling => Key(ins)' = Key(ins))
  <2>1. ins.on \in Names /\ ins.arg \in Names
    BY GuideOrdered DEF PhasesOrdered, All, Instructions
  <2>2. ins.op \in Making => book'.contracts[ins.on] # 0
    BY <1>4, <1>6, <2>1 DEF Done
  <2>3. ins.op \in Calling =>
          /\ Fixed(ins.on)' /\ Fixed(ins.arg)'
          /\ book'.contracts[ins.on] = book.contracts[ins.on]
          /\ book'.contracts[ins.arg] = book.contracts[ins.arg]
    BY <1>5, <1>6, <2>1 DEF Done
  <2>4. ins.op \in Calling => Key(ins)' = Key(ins)
    BY <2>3 DEF Key
  <2>5. ins.op \in {"set", "register"} => Setting(ins, book.contracts[ins.arg])' \in wired
    BY <1>6, <2>3 DEF Done, Setting, Calling
  <2>6. ins.op = "add" => Times(Key(ins))' >= 1
    BY <1>6, <2>4 DEF Done, Times, Calling
  <2>. QED
    BY <2>2, <2>3, <2>4, <2>5, <2>6 DEF Done
<1>7. StepsInv'
  BY <1>4, <1>6 DEF GuideInv, StepsInv
<1>. QED
  BY <1>4, <1>5, <1>6, <1>7

\* The script goes on to the next instruction.
LEMMA Onwards ==
  ASSUME GuideInv, RunningPhase, Advance, UNCHANGED <<phase, complete>>,
         BookInv', StepsInv', TimesInv', \A ins \in All : Done(ins) => Done(ins)',
         NEW c, c = CurIns, Done(c)'
  PROVE  GuideInv'
<1>1. /\ phase \in 1..Len(Phases) /\ at \in 1..Len(Phases[phase])
      /\ Len(Phases) \in Nat /\ Len(Phases[phase]) \in Nat
  BY GuideOrdered DEF GuideInv, PlaceInv, RunningPhase, PhasesOrdered
<1>2. \A p \in 1..Len(Phases) : \A ins \in Instructions(p) : ins \in All
  BY DEF All
<1>3. \A j \in 1..Len(Phases[phase]) : Phases[phase][j] \in All
  BY <1>1, <1>2 DEF Instructions
<1>4. \A j \in 1..at : Done(Phases[phase][j])'
  <2>. SUFFICES ASSUME NEW j \in 1..at
                PROVE  Done(Phases[phase][j])'
    OBVIOUS
  <2>1. CASE j = at
    BY <2>1 DEF CurIns
  <2>2. CASE j # at
    <3>1. j \in 1..(at - 1) /\ j \in 1..Len(Phases[phase])
      BY <1>1, <2>2
    <3>2. PICK i \in All : i = Phases[phase][j]
      BY <1>3, <3>1
    <3>3. Done(i)
      BY <1>1, <3>1, <3>2 DEF GuideInv, PlaceInv
    <3>4. Done(i)'
      BY <3>3
    <3>. QED
      BY <3>2, <3>4
  <2>. QED
    BY <2>1, <2>2
<1>5. PlaceInv'
  <2>1. \A p \in complete' : \A ins \in Instructions(p) : Done(ins)'
    BY <1>2 DEF GuideInv, PlaceInv
  <2>2. at' = at + 1 /\ at' - 1 = at /\ ~landed'
    BY <1>1 DEF Advance
  <2>. QED
    BY <1>1, <1>4, <2>1, <2>2 DEF GuideInv, PlaceInv
<1>. QED
  BY <1>5 DEF GuideInv, LandedInv, Advance

\* The script stays where it is, and nothing that was done is undone.
LEMMA Kept ==
  ASSUME GuideInv, phase # 0, UNCHANGED <<phase, complete, at>>,
         \A ins \in All : Done(ins) => Done(ins)'
  PROVE  PlaceInv'
<1>1. phase \in 1..Len(Phases) /\ at <= Len(Phases[phase]) + 1 /\ at \in Nat
      /\ Len(Phases) \in Nat /\ Len(Phases[phase]) \in Nat
  BY GuideOrdered DEF GuideInv, PlaceInv, PhasesOrdered
<1>2. \A p \in 1..Len(Phases) : \A ins \in Instructions(p) : ins \in All
  BY DEF All
<1>3. \A p \in complete' : \A ins \in Instructions(p) : Done(ins)'
  BY <1>2 DEF GuideInv, PlaceInv
<1>4. ASSUME NEW j \in 1..(at - 1)
      PROVE  Done(Phases[phase][j])'
  <2>1. PICK ins : ins = Phases[phase][j]
    OBVIOUS
  <2>2. ins \in All
    BY <1>1, <1>2, <2>1 DEF Instructions
  <2>3. Done(ins)
    BY <2>1 DEF GuideInv, PlaceInv
  <2>4. Done(ins)'
    BY <2>2, <2>3
  <2>. QED
    BY <2>1, <2>4
<1>. QED
  BY <1>3, <1>4 DEF GuideInv, PlaceInv

\* What neither the chain nor the file changes of.
LEMMA Same ==
  ASSUME GuideInv, UNCHANGED <<inst, wired, times, book>>
  PROVE  /\ BookInv' /\ StepsInv'
         /\ \A ins : Done(ins) => Done(ins)'
<1>1. \A ins : Done(ins) => Done(ins)'
  BY DEF Done, Fixed, Setting, Key, Times
<1>2. BookInv'
  BY DEF GuideInv, BookInv
<1>3. StepsInv'
  BY <1>1 DEF GuideInv, StepsInv, Key
<1>. QED
  BY <1>1, <1>2, <1>3

\* What a step reads of an instruction.
LEMMA Rigid ==
  ASSUME GuideInv, RunningPhase
  PROVE  \E c \in All : c = CurIns
BY AtHand

-----------------------------------------------------------------------------
(* The steps, one by one.                                                  *)

LEMMA SkipDeploySafe ==
  ASSUME GuideInv, RunningPhase, SkipDeploy(CurIns), UNCHANGED <<phase, complete>>
  PROVE  GuideInv'
<1>1. PICK c \in All : c = CurIns
  BY Rigid
<1>2. /\ Advance /\ UNCHANGED <<inst, wired, times, book, lost>> /\ ~landed
      /\ c.op \in {"deploy", "instance"} /\ book.contracts[c.on] # 0
  BY <1>1 DEF SkipDeploy
<1>3. BookInv' /\ StepsInv' /\ \A ins : Done(ins) => Done(ins)'
  BY <1>2, Same
<1>4. TimesInv'
  BY <1>2 DEF GuideInv, TimesInv
<1>5. Done(c)'
  BY <1>2 DEF Done, Making, Calling
<1>. QED
  BY <1>1, <1>2, <1>3, <1>4, <1>5, Onwards

LEMMA LandDeploySafe ==
  ASSUME GuideInv, RunningPhase, LandDeploy(CurIns), UNCHANGED <<phase, complete>>
  PROVE  GuideInv'
<1>1. PICK c \in All : c = CurIns
  BY Rigid
<1>2. /\ UNCHANGED <<wired, times, book, at, lost>> /\ ~landed /\ landed'
      /\ c.op \in {"deploy", "instance"}
      /\ book.contracts[c.on] = 0 /\ book.contracts[c.arg] = 0
      /\ inst' = [inst EXCEPT ![c.arg] = @ + 1] /\ c.arg \in Names
  BY <1>1, AtHand DEF LandDeploy
<1>3. inst \in [Names -> Nat]
  BY DEF GuideInv, BookInv
<1>4. inst' \in [Names -> Nat] /\ inst'[c.arg] >= 1
  BY <1>2, <1>3
<1>5. \A ins : Done(ins) => Done(ins)'
  BY <1>2 DEF Done, Fixed, Setting, Key, Times
<1>6. CurIns' = c
  BY <1>1, <1>2 DEF CurIns
<1>7. BookInv'
  BY <1>2, <1>4 DEF GuideInv, BookInv
<1>8. StepsInv'
  BY <1>2, <1>5 DEF GuideInv, StepsInv, Key
<1>9. TimesInv'
  BY <1>2 DEF GuideInv, TimesInv
<1>10. LandedInv'
  BY <1>2, <1>4, <1>6 DEF LandedInv, RunningPhase
<1>11. PlaceInv'
  <2>1. phase # 0
    BY DEF RunningPhase
  <2>. QED
    BY <1>2, <1>5, <2>1 DEF GuideInv, PlaceInv
<1>. QED
  BY <1>7, <1>8, <1>9, <1>10, <1>11 DEF GuideInv

\* A hash goes into the file: what BookInv and TimesInv say of it.
LEMMA Booked2 ==
  ASSUME GuideInv, NEW n \in Names, n \in Made, NEW i \in Nat \ {0},
         book.contracts[n] \in {0, i}, Book(n, i), UNCHANGED <<wired, times, inst>>,
         \A ins \in All : ins.op = "asset" /\ ins.on = n => book.contracts[ins.arg] = i,
         landed => CurIns.op \notin {"once", "add"}, lost' = lost
  PROVE  BookInv' /\ TimesInv'
<1>1. TimesInv'
  BY Booked1 DEF GuideInv, TimesInv
<1>2. ASSUME NEW ins \in All, ins.op = "asset", book'.contracts[ins.on] # 0
      PROVE  book'.contracts[ins.on] = book'.contracts[ins.arg]
  <2>1. ins.on \in Names /\ ins.arg \in Names
    BY GuideOrdered DEF PhasesOrdered, All, Instructions
  <2>2. CASE ins.on = n
    <3>1. book.contracts[ins.arg] = i
      BY <1>2, <2>2
    <3>2. Fixed(ins.arg)
      BY <3>1 DEF Fixed
    <3>. QED
      BY <2>1, <2>2, <3>1, <3>2, Booked1
  <2>3. CASE ins.on # n
    <3>1. book'.contracts[ins.on] = book.contracts[ins.on]
      BY <2>1, <2>3, Booked1
    <3>2. book.contracts[ins.on] = book.contracts[ins.arg]
      BY <1>2, <3>1 DEF GuideInv, BookInv
    <3>3. Fixed(ins.arg)
      BY <1>2, <3>1, <3>2 DEF Fixed
    <3>. QED
      BY <2>1, <3>1, <3>2, <3>3, Booked1
  <2>. QED
    BY <2>2, <2>3
<1>3. inst' \in [Names -> Nat]
  BY DEF GuideInv, BookInv
<1>4. BookInv'
  BY <1>2, <1>3, Booked1 DEF BookInv
<1>. QED
  BY <1>1, <1>4

LEMMA BookDeploySafe ==
  ASSUME GuideInv, RunningPhase, BookDeploy(CurIns), UNCHANGED <<phase, complete>>
  PROVE  GuideInv'
<1>1. PICK c \in All : c = CurIns
  BY Rigid
<1>2. PICK n, i : n = c.arg /\ i = inst[c.arg]
  OBVIOUS
<1>3. /\ c.op \in {"deploy", "instance"} /\ landed /\ ~landed'
      /\ Book(n, i) /\ at' = (IF c.op = "deploy" THEN at + 1 ELSE at)
      /\ UNCHANGED <<inst, wired, times, lost>>
  BY <1>1, <1>2 DEF BookDeploy
<1>4. /\ n \in Names /\ i \in Nat \ {0} /\ book.contracts[n] = 0
      /\ c.op = "deploy" => c.on = n
  <2>1. n \in Names /\ (c.op = "deploy" => c.on = n)
    BY <1>1, <1>2, AtHand
  <2>2. inst \in [Names -> Nat]
    BY DEF GuideInv, BookInv
  <2>3. book.contracts[n] = 0 /\ inst[n] >= 1
    BY <1>1, <1>2, <1>3 DEF GuideInv, LandedInv
  <2>. QED
    BY <1>2, <2>1, <2>2, <2>3
<1>5. n \in Made
  <2>1. CASE c.op = "deploy"
    <3>1. n \in Makes(c)
      BY <1>4, <2>1 DEF Makes
    <3>. QED
      BY <3>1 DEF Made
  <2>2. CASE c.op = "instance"
    <3>1. c \in {x \in All : x.op = "instance"}
      BY <2>2
    <3>2. n \in {ins.arg : ins \in {x \in All : x.op = "instance"}}
      BY <1>2, <3>1
    <3>. QED
      BY <3>2 DEF Made
  <2>. QED
    BY <1>3, <2>1, <2>2
<1>6. \A ins \in All : ins.op = "asset" => ins.on # n
  BY <1>2, <1>3, GuideOrdered DEF PhasesOrdered
<1>7. BookInv' /\ TimesInv'
  BY <1>1, <1>3, <1>4, <1>5, <1>6, Booked2
<1>8. StepsInv' /\ (\A ins \in All : Done(ins) => Done(ins)') /\ book'.contracts[n] = i
  BY <1>3, <1>4, <1>5, Booked1
<1>9. CASE c.op = "deploy"
  <2>1. Advance
    BY <1>3, <1>9 DEF Advance
  <2>2. Done(c)'
    BY <1>4, <1>8, <1>9 DEF Done, Calling
  <2>. QED
    BY <1>1, <1>7, <1>8, <2>1, <2>2, Onwards
<1>10. CASE c.op # "deploy"
  <2>1. at' = at
    BY <1>3, <1>10
  <2>2. LandedInv'
    BY <1>3 DEF LandedInv
  <2>3. phase # 0
    BY DEF RunningPhase
  <2>4. PlaceInv'
    BY <1>8, <2>1, <2>3, Kept
  <2>. QED
    BY <1>7, <1>8, <2>2, <2>4 DEF GuideInv
<1>. QED
  BY <1>9, <1>10

LEMMA BookInstanceSafe ==
  ASSUME GuideInv, RunningPhase, BookInstance(CurIns), UNCHANGED <<phase, complete>>
  PROVE  GuideInv'
<1>1. PICK c \in All : c = CurIns
  BY Rigid
<1>2. PICK n, i : n = c.on /\ i = book.contracts[c.arg]
  OBVIOUS
<1>3. /\ c.op = "instance" /\ ~landed /\ Book(n, i) /\ Advance
      /\ book.contracts[n] = 0 /\ i # 0 /\ UNCHANGED <<inst, wired, times, lost>>
  BY <1>1, <1>2 DEF BookInstance
<1>4. n \in Names /\ i \in Nat \ {0}
  <2>1. n \in Names /\ c.arg \in Names
    BY <1>1, <1>2, AtHand
  <2>2. book.contracts \in [Names -> Nat]
    BY DEF GuideInv, BookInv
  <2>. QED
    BY <1>2, <1>3, <2>1, <2>2
<1>5. n \in Made
  <2>1. n \in Makes(c)
    BY <1>2, <1>3 DEF Makes
  <2>. QED
    BY <2>1 DEF Made
<1>6. \A ins \in All : ins.op = "asset" => ins.on # n
  BY <1>2, <1>3, GuideOrdered DEF PhasesOrdered
<1>7. BookInv' /\ TimesInv'
  BY <1>3, <1>4, <1>5, <1>6, Booked2
<1>8. StepsInv' /\ (\A ins \in All : Done(ins) => Done(ins)') /\ book'.contracts[n] = i
  BY <1>3, <1>4, <1>5, Booked1
<1>9. Done(c)'
  BY <1>2, <1>3, <1>4, <1>8 DEF Done, Calling
<1>. QED
  BY <1>1, <1>3, <1>7, <1>8, <1>9, Onwards

\* The asset of a contract: read again, it is the same.
LEMMA BookAssetSafe ==
  ASSUME GuideInv, RunningPhase, BookAsset(CurIns), UNCHANGED <<phase, complete>>
  PROVE  GuideInv'
<1>1. PICK c \in All : c = CurIns
  BY Rigid
<1>2. PICK n, i : n = c.on /\ i = book.contracts[c.arg]
  OBVIOUS
<1>3. /\ c.op = "asset" /\ Book(n, i) /\ Advance /\ UNCHANGED <<inst, wired, times, lost>>
  BY <1>1, <1>2 DEF BookAsset
<1>4. n \in Names /\ i \in Nat \ {0}
  <2>1. n \in Names /\ c.arg \in Names /\ i # 0
    BY <1>1, <1>2, <1>3, AtHand
  <2>2. book.contracts \in [Names -> Nat]
    BY DEF GuideInv, BookInv
  <2>. QED
    BY <1>2, <2>1, <2>2
<1>5. n \in Made
  <2>1. n \in Makes(c)
    BY <1>2, <1>3 DEF Makes
  <2>. QED
    BY <2>1 DEF Made
<1>6. book.contracts[n] \in {0, i}
  BY <1>2, <1>3 DEF GuideInv, BookInv
<1>7. \A ins \in All : ins.op = "asset" /\ ins.on = n => book.contracts[ins.arg] = i
  BY <1>2, <1>3, GuideOrdered DEF PhasesOrdered
<1>8. ~landed
  BY <1>1, <1>3 DEF GuideInv, LandedInv
<1>9. BookInv' /\ TimesInv'
  BY <1>3, <1>4, <1>5, <1>6, <1>7, <1>8, Booked2
<1>10. StepsInv' /\ (\A ins \in All : Done(ins) => Done(ins)') /\ book'.contracts[n] = i
  BY <1>3, <1>4, <1>5, <1>6, Booked1
<1>11. Done(c)'
  BY <1>2, <1>3, <1>4, <1>10 DEF Done, Calling
<1>. QED
  BY <1>1, <1>3, <1>9, <1>10, <1>11, Onwards

LEMMA SkipStepSafe ==
  ASSUME GuideInv, RunningPhase, SkipStep(CurIns), UNCHANGED <<phase, complete>>
  PROVE  GuideInv'
<1>1. PICK c \in All : c = CurIns
  BY Rigid
<1>2. /\ Advance /\ UNCHANGED <<inst, wired, times, book, lost>> /\ ~landed
      /\ CurIns.op \in Calling /\ Key(CurIns) \in book.steps
  BY DEF SkipStep, Calling
<1>3. Done(c)
  BY <1>1, <1>2, Labelled
<1>4. TimesInv'
  BY <1>2 DEF GuideInv, TimesInv
<1>5. Done(c)'
  BY <1>2, <1>3, Same
<1>. QED
  BY <1>1, <1>2, <1>4, <1>5, Same, Onwards

LEMMA SkipRegisterSafe ==
  ASSUME GuideInv, RunningPhase, SkipRegister(CurIns, book.contracts[CurIns.arg]),
         UNCHANGED <<phase, complete>>
  PROVE  GuideInv'
<1>1. PICK c \in All : c = CurIns
  BY Rigid
<1>2. /\ Advance /\ UNCHANGED <<inst, wired, times, book, lost>> /\ ~landed
      /\ c.op = "register" /\ Setting(c, book.contracts[c.arg]) \in wired
  BY <1>1 DEF SkipRegister
<1>3. Done(c)
  BY <1>1, <1>2, AtHand DEF Done, Calling, Making
<1>4. TimesInv'
  BY <1>2 DEF GuideInv, TimesInv
<1>5. Done(c)'
  BY <1>2, <1>3, Same
<1>. QED
  BY <1>1, <1>2, <1>4, <1>5, Same, Onwards

\* A call that landed is the one of its label, and no label before it is its.
LEMMA LandStepSafe ==
  ASSUME GuideInv, RunningPhase, LandStep(CurIns, book.contracts[CurIns.arg]),
         UNCHANGED <<phase, complete>>
  PROVE  GuideInv'
<1>1. PICK c \in All : c = CurIns
  BY Rigid
<1>2. /\ UNCHANGED <<inst, book, at, lost>> /\ ~landed /\ landed'
      /\ Key(c) \notin book.steps /\ c.op \in Calling
      /\ \/ /\ c.op \in {"set", "register"} /\ UNCHANGED times
            /\ wired' = wired \cup {Setting(c, book.contracts[c.arg])}
         \/ /\ c.op \in {"once", "add"} /\ Happen(Key(c)) /\ UNCHANGED wired
            /\ c.op = "once" => Times(Key(c)) = 0
  BY <1>1 DEF LandStep, Calling
<1>3. CurIns' = c
  BY <1>1, <1>2 DEF CurIns
<1>4. /\ Key(c)' = Key(c)
      /\ Setting(c, book.contracts[c.arg])' = Setting(c, book.contracts[c.arg])
  BY <1>2 DEF Key, Setting
<1>5. PICK k : k = Key(c)
  OBVIOUS
<1>6. /\ \A x : Times(x)' >= 1 \/ ~(Times(x) >= 1)
      /\ c.op \in {"once", "add"} => Times(k)' >= 1
      /\ TimesInv'
  <2>1. CASE c.op \in {"set", "register"}
    <3>1. UNCHANGED times
      BY <1>2, <2>1
    <3>2. TimesInv'
      BY <1>2, <3>1 DEF GuideInv, TimesInv
    <3>. QED
      BY <2>1, <3>1, <3>2 DEF Times
  <2>2. CASE c.op \in {"once", "add"}
    <3>1. /\ DOMAIN times' = DOMAIN times \cup {k}
          /\ \A x \in DOMAIN times \cup {k} : times'[x] = Times(x) + IF x = k THEN 1 ELSE 0
      BY <1>2, <1>5, <2>2 DEF Happen
    <3>2. \A x \in DOMAIN times \ {k} : times'[x] = times[x]
      BY <3>1 DEF Times, GuideInv, TimesInv
    <3>3. k \in DOMAIN times => times'[k] = times[k] + 1 /\ k \in lost
      BY <1>2, <1>5, <3>1 DEF Times, GuideInv, TimesInv
    <3>4. k \notin DOMAIN times => times'[k] = 1
      BY <3>1 DEF Times
    <3>5. \A x \in DOMAIN times : times[x] \in Nat /\ times[x] >= 1
      BY DEF GuideInv, TimesInv
    <3>6. \A x \in DOMAIN times' : times'[x] \in Nat /\ times'[x] >= 1
      BY <3>1, <3>2, <3>3, <3>4, <3>5
    <3>7. ASSUME NEW x \in DOMAIN times', x \notin lost
          PROVE  times'[x] = 1 /\ (x \in book.steps \/ x = k)
      BY <1>2, <3>1, <3>2, <3>3, <3>4, <3>7 DEF GuideInv, TimesInv
    <3>8. TimesInv'
      BY <1>2, <1>3, <1>4, <1>5, <2>2, <3>6, <3>7 DEF TimesInv
    <3>9. \A x : Times(x) >= 1 => x \in DOMAIN times
      BY DEF Times
    <3>. QED
      BY <3>1, <3>6, <3>8, <3>9 DEF Times
  <2>. QED
    BY <1>2, <2>1, <2>2 DEF Calling
<1>7. \A ins \in All : Done(ins) => Done(ins)'
  <2>. SUFFICES ASSUME NEW ins \in All, Done(ins)
                PROVE  Done(ins)'
    OBVIOUS
  <2>1. Key(ins)' = Key(ins) /\ wired \subseteq wired'
    BY <1>2 DEF Key
  <2>2. ins.op = "add" => Times(Key(ins))' >= 1
    <3>1. PICK x : x = Key(ins)
      OBVIOUS
    <3>2. ins.op = "add" => Times(x) >= 1
      BY <3>1 DEF Done
    <3>3. Times(x)' = Times(Key(ins))'
      BY <2>1, <3>1 DEF Times
    <3>. QED
      BY <1>6, <3>2, <3>3
  <2>. QED
    BY <1>2, <2>1, <2>2 DEF Done, Fixed, Setting
<1>8. StepsInv'
  BY <1>2, <1>7 DEF GuideInv, StepsInv, Key
<1>9. BookInv'
  BY <1>2 DEF GuideInv, BookInv
<1>10. LandedInv'
  <2>1. RunningPhase'
    BY <1>2 DEF RunningPhase
  <2>2. c.op \in {"set", "register"} => Setting(c, book.contracts[c.arg])' \in wired'
    BY <1>2, <1>4
  <2>3. c.op \in {"once", "add"} => Times(Key(c))' >= 1
    BY <1>4, <1>5, <1>6 DEF Times
  <2>. QED
    BY <1>2, <1>3, <2>1, <2>2, <2>3 DEF LandedInv, Calling
<1>11. PlaceInv'
  <2>1. phase # 0
    BY DEF RunningPhase
  <2>. QED
    BY <1>2, <1>7, <2>1, Kept
<1>. QED
  BY <1>6, <1>8, <1>9, <1>10, <1>11 DEF GuideInv

LEMMA LandRefusedSafe ==
  ASSUME GuideInv, RunningPhase, LandRefused(CurIns), UNCHANGED <<phase, complete>>
  PROVE  GuideInv'
<1>1. PICK c \in All : c = CurIns
  BY Rigid
<1>2. /\ UNCHANGED <<inst, wired, times, book, at, lost>> /\ ~landed /\ landed'
      /\ c.op = "once" /\ Times(Key(c)) > 0
  BY <1>1 DEF LandRefused
<1>3. CurIns' = c
  BY <1>1, <1>2 DEF CurIns
<1>4. TimesInv'
  BY <1>2 DEF GuideInv, TimesInv
<1>5. LandedInv'
  <2>1. RunningPhase'
    BY <1>2 DEF RunningPhase
  <2>2. Times(Key(c)) >= 1
    BY <1>2 DEF Times, GuideInv, TimesInv
  <2>3. Times(Key(c))' >= 1
    BY <1>2, <2>2 DEF Times, Key
  <2>. QED
    BY <1>2, <1>3, <2>1, <2>3 DEF LandedInv
<1>6. PlaceInv'
  <2>1. phase # 0
    BY DEF RunningPhase
  <2>. QED
    BY <1>2, <2>1, Same, Kept
<1>. QED
  BY <1>2, <1>4, <1>5, <1>6, Same DEF GuideInv

\* The label goes into the file once the effect is on the chain.
LEMMA BookStepSafe ==
  ASSUME GuideInv, RunningPhase, BookStep(CurIns), UNCHANGED <<phase, complete>>
  PROVE  GuideInv'
<1>1. PICK c \in All : c = CurIns
  BY Rigid
<1>2. PICK k : k = Key(c)
  OBVIOUS
<1>3. /\ c.op \in Calling /\ landed /\ Advance /\ UNCHANGED <<inst, wired, times, lost>>
      /\ book' = [book EXCEPT !.steps = @ \cup {k}]
  BY <1>1, <1>2 DEF BookStep, Calling
<1>4. /\ book' = [contracts |-> book'.contracts, steps |-> book'.steps]
      /\ book'.contracts = book.contracts /\ book'.steps = book.steps \cup {k}
  <2>1. PICK b, s : b = book.contracts /\ s = book.steps
    OBVIOUS
  <2>2. book = [contracts |-> b, steps |-> s]
    BY <2>1 DEF GuideInv, BookInv
  <2>3. book' = [contracts |-> b, steps |-> s \cup {k}]
    BY <1>3, <2>2
  <2>. QED
    BY <2>1, <2>2, <2>3
<1>5. \A ins : (Done(ins) => Done(ins)') /\ Key(ins)' = Key(ins)
  BY <1>3, <1>4 DEF Done, Fixed, Setting, Key, Times
<1>6. Done(c)
  BY <1>1, <1>3, AtHand DEF GuideInv, LandedInv, Done, Calling, Making
<1>7. StepsInv'
  BY <1>2, <1>3, <1>4, <1>5, <1>6 DEF GuideInv, StepsInv
<1>8. TimesInv'
  BY <1>1, <1>2, <1>3, <1>4 DEF GuideInv, TimesInv
<1>9. BookInv'
  BY <1>3, <1>4 DEF GuideInv, BookInv
<1>10. Done(c)'
  BY <1>5, <1>6
<1>. QED
  BY <1>1, <1>3, <1>5, <1>7, <1>8, <1>9, <1>10, Onwards

\* A process that dies leaves the chain and the file as they are, and what it had
\* on the way is lost.
LEMMA DieSafe ==
  ASSUME GuideInv, RunningPhase, Die(CurIns), phase' = 0, UNCHANGED complete
  PROVE  GuideInv'
<1>1. /\ at' = 1 /\ ~landed' /\ UNCHANGED <<inst, wired, times, book>>
      /\ lost' = IF landed THEN lost \cup {Key(CurIns)} ELSE lost
  BY DEF Die
<1>2. TimesInv'
  <2>. SUFFICES ASSUME NEW x \in DOMAIN times
                PROVE  /\ times[x] \in Nat /\ times[x] >= 1
                       /\ x \in lost' \/ (times[x] = 1 /\ x \in book.steps)
    BY <1>1 DEF TimesInv
  <2>. QED
    BY <1>1 DEF GuideInv, TimesInv
<1>3. LandedInv'
  BY <1>1 DEF LandedInv
<1>4. PlaceInv'
  BY <1>1, Same DEF GuideInv, PlaceInv
<1>. QED
  BY <1>1, <1>2, <1>3, <1>4, Same DEF GuideInv

LEMMA StartSafe ==
  ASSUME GuideInv, NEW p \in 1..Len(Phases), Start(p)
  PROVE  GuideInv'
<1>1. /\ phase = 0 /\ phase' = p /\ 1..(p - 1) \subseteq complete
      /\ UNCHANGED <<inst, wired, times, book, at, landed, lost, complete>>
  BY DEF Start, runnerVars
<1>2. at = 1 /\ ~landed /\ Len(Phases[p]) \in Nat /\ Len(Phases) \in Nat
  BY <1>1, GuideOrdered DEF GuideInv, PlaceInv, PhasesOrdered
<1>3. TimesInv'
  BY <1>1, <1>2 DEF GuideInv, TimesInv
<1>4. LandedInv'
  BY <1>1, <1>2 DEF LandedInv
<1>5. PlaceInv'
  BY <1>1, <1>2, Same DEF GuideInv, PlaceInv
<1>. QED
  BY <1>1, <1>3, <1>4, <1>5, Same DEF GuideInv

LEMMA FinishSafe ==
  ASSUME GuideInv, Finish
  PROVE  GuideInv'
<1>1. /\ phase # 0 /\ at = Len(Phases[phase]) + 1 /\ phase' = 0 /\ at' = 1
      /\ complete' = complete \cup {phase}
      /\ UNCHANGED <<inst, wired, times, book, landed, lost>>
  BY DEF Finish
<1>2. ~landed
  BY <1>1, GuideOrdered DEF GuideInv, LandedInv, RunningPhase, PlaceInv, PhasesOrdered
<1>3. TimesInv'
  BY <1>1, <1>2 DEF GuideInv, TimesInv
<1>4. LandedInv'
  BY <1>1, <1>2 DEF LandedInv
<1>5. phase \in 1..Len(Phases) /\ Len(Phases[phase]) \in Nat
  BY <1>1, GuideOrdered DEF GuideInv, PlaceInv, PhasesOrdered
<1>6. \A ins \in Instructions(phase) : Done(ins)
  BY <1>1, <1>5 DEF GuideInv, PlaceInv, Instructions
<1>7. PlaceInv'
  <2>1. \A p \in complete' : \A ins \in Instructions(p) : Done(ins)
    BY <1>1, <1>6 DEF GuideInv, PlaceInv
  <2>2. \A p \in complete' : \A ins \in Instructions(p) : Done(ins)'
    BY <1>1, <2>1, Same
  <2>3. phase' = 0 /\ at' = 1 /\ ~landed' /\ complete' \subseteq 1..Len(Phases)
    BY <1>1, <1>2, <1>5 DEF GuideInv, PlaceInv
  <2>. QED
    BY <2>2, <2>3 DEF PlaceInv
<1>. QED
  BY <1>1, <1>3, <1>4, <1>7, Same DEF GuideInv

LEMMA GuideStarts == DeployInit => GuideInv
<1>. SUFFICES ASSUME DeployInit
              PROVE  GuideInv
  OBVIOUS
<1>. USE DEF DeployInit, RunnerInit
<1>1. BookInv
  BY GuideOrdered DEF BookInv, PhasesOrdered, All, Instructions
<1>2. StepsInv /\ TimesInv /\ LandedInv
  BY DEF StepsInv, TimesInv, LandedInv
<1>3. PlaceInv
  BY DEF PlaceInv
<1>. QED
  BY <1>1, <1>2, <1>3 DEF GuideInv

LEMMA GuideSteps == GuideInv /\ [DeployNext]_deployVars => GuideInv'
<1>. SUFFICES ASSUME GuideInv, [DeployNext]_deployVars
              PROVE  GuideInv'
  OBVIOUS
<1>1. CASE StartNext
  BY <1>1, StartSafe DEF StartNext
<1>2. CASE StartAgain
  <2>1. complete \subseteq 1..Len(Phases)
    BY DEF GuideInv, PlaceInv
  <2>. QED
    BY <1>2, <2>1, StartSafe DEF StartAgain
<1>3. CASE DeployStep
  BY <1>3, SkipDeploySafe, LandDeploySafe, BookDeploySafe, BookInstanceSafe DEF DeployStep
<1>4. CASE InvokeStep
  BY <1>4, SkipStepSafe, LandStepSafe, LandRefusedSafe, BookStepSafe DEF InvokeStep
<1>5. CASE RegisterStep
  BY <1>5, SkipRegisterSafe DEF RegisterStep
<1>6. CASE AssetStep
  BY <1>6, BookAssetSafe DEF AssetStep
<1>7. CASE Finish
  BY <1>7, FinishSafe
<1>8. CASE DeployDies
  BY <1>8, DieSafe DEF DeployDies, Crash, Refused
<1>9. CASE UNCHANGED deployVars
  <2>1. UNCHANGED <<inst, wired, times, book, at, landed, lost, phase, complete>>
    BY <1>9 DEF deployVars, runnerVars
  <2>2. TimesInv'
    BY <2>1 DEF GuideInv, TimesInv, CurIns, Key
  <2>3. LandedInv'
    BY <2>1 DEF GuideInv, LandedInv, CurIns, Key, RunningPhase, Setting, Times
  <2>4. PlaceInv'
    BY <2>1, Same DEF GuideInv, PlaceInv
  <2>. QED
    BY <2>1, <2>2, <2>3, <2>4, Same DEF GuideInv
<1>. QED
  BY <1>1, <1>2, <1>3, <1>4, <1>5, <1>6, <1>7, <1>8, <1>9 DEF DeployNext, RunPhases

THEOREM GuideAlways == DeploySpec => []GuideInv
BY GuideStarts, GuideSteps, PTL DEF DeploySpec

\* A phase that is complete is wired to what the file names.
LEMMA GuideWired == GuideInv => WiredToCurrent
<1>. SUFFICES ASSUME GuideInv, NEW p \in complete, NEW ins \in Instructions(p)
              PROVE  /\ ins.op \in {"deploy", "instance", "asset"} => book.contracts[ins.on] # 0
                     /\ ins.op \in {"set", "register"} =>
                          Setting(ins, book.contracts[ins.arg]) \in wired
  BY DEF WiredToCurrent
<1>1. Done(ins)
  BY DEF GuideInv, PlaceInv
<1>. QED
  BY <1>1 DEF Done, Making

LEMMA GuideOnce == GuideInv => EffectsOnce
<1>. SUFFICES ASSUME GuideInv
              PROVE  EffectsOnce
  OBVIOUS
<1>1. \A k \in DOMAIN times : k \notin lost => times[k] <= 1
  BY DEF GuideInv, TimesInv
<1>2. \A p \in complete : \A ins \in Instructions(p) : ins.op = "add" => Times(Key(ins)) >= 1
  BY DEF GuideInv, PlaceInv, Done
<1>. QED
  BY <1>1, <1>2 DEF EffectsOnce

-----------------------------------------------------------------------------
(* deploy_testnet.py: what a run without a warning has wired, and who got  *)
(* which of the VLT.                                                       *)

MintAt == T!PlaceOf("mint")
FaucetAt == T!PlaceOf("faucet")
VerifyAt == T!PlaceOf("verify")
EndAt == Len(T!Program)
OpAt(i) == T!Program[i].op
SettingAt(i) == <<T!Program[i].on, T!Program[i].fn, T!Program[i].arg>>

\* what a run that was fine so far has done
QuietInv ==
  step > 0 /\ ~warned =>
    \A i \in 1..(step - 1) :
      /\ OpAt(i) = "call" => SettingAt(i) \in onChain
      /\ OpAt(i) = "vlt_asset" => "VLT" \in assets
      /\ OpAt(i) = "xusd_asset" => "xUSD_asset" \in assets

RunInv ==
  /\ run \in Nat /\ saved \in Nat /\ saved <= run
  /\ step \in 0..EndAt
  /\ step > 0 => saved < run

Everyone == {"oracle_rewards", "team", "treasury", "dex_liquidity", "airdrop", "bug_bounty"}
Full == \A to \in Everyone : shares[to] = T!VLT_ALLOCATION[to]

\* each has nothing or the share, and the supply is what they have
SharesInv ==
  /\ shares \in [Everyone \cup {"faucet"} -> Nat]
  /\ \A to \in Everyone : shares[to] \in {0, T!VLT_ALLOCATION[to]}
  /\ shares["faucet"] \in {0, 1}
  /\ supply = shares["oracle_rewards"] + shares["team"] + shares["treasury"] + shares["dex_liquidity"] +
              shares["airdrop"] + shares["bug_bounty"] + shares["faucet"]

\* while the mints are on their way: the batch landed, or those whose turn has
\* not come have nothing
TurnsInv ==
  step > 0 =>
    /\ step <= MintAt => \A to \in Everyone : shares[to] = 0
    /\ step \in (MintAt + 1)..(MintAt + 6) =>
         Full \/ \A j \in (step - MintAt)..6 : shares[T!Recipients[j]] = 0
    /\ step <= FaucetAt => shares["faucet"] = 0
    /\ step <= VerifyAt => said = "nothing"

VerifiedInv == said = "correct" => supply = 200

MintInv == SharesInv /\ TurnsInv /\ VerifiedInv
TestnetInv == RunInv /\ QuietInv /\ T!WiredWhenQuiet /\ MintInv

LEMMA Places ==
  /\ MintAt \in Nat /\ FaucetAt \in Nat /\ VerifyAt \in Nat /\ EndAt \in Nat
  /\ 1 <= MintAt /\ MintAt + 6 < FaucetAt /\ FaucetAt < VerifyAt /\ VerifyAt < EndAt
  /\ \A i \in 1..EndAt :
       /\ OpAt(i) = "mint" <=> i = MintAt
       /\ OpAt(i) = "mint_one" <=> i \in (MintAt + 1)..(MintAt + 6)
       /\ OpAt(i) = "refill" => i = FaucetAt - 1
       /\ OpAt(i) = "faucet" <=> i = FaucetAt
       /\ OpAt(i) = "verify" <=> i = VerifyAt
       /\ OpAt(i) = "save" <=> i = EndAt
<1>1. Len(T!Recipients) = 6
  BY DEF T!Recipients
<1>. QED
  BY <1>1, TestnetOrdered
  DEF T!ProgramOrdered, MintAt, FaucetAt, VerifyAt, EndAt, OpAt

\* the hash of an asset is read before a call that is about it
LEMMA AssetsFirst ==
  ASSUME NEW i \in 1..EndAt, OpAt(i) = "call"
  PROVE  /\ T!Program[i].arg = "VLT" => \E j \in 1..(i - 1) : OpAt(j) = "vlt_asset"
         /\ T!Program[i].on = "xUSD" \/ T!Program[i].arg = "xUSD_asset" =>
              \E j \in 1..(i - 1) : OpAt(j) = "xusd_asset"
BY TestnetOrdered DEF T!ProgramOrdered, EndAt, OpAt

LEMMA AllotmentIs ==
  /\ DOMAIN T!VLT_ALLOCATION = Everyone
  /\ T!VLT_ALLOCATION["oracle_rewards"] = 120 /\ T!VLT_ALLOCATION["team"] = 30
  /\ T!VLT_ALLOCATION["treasury"] = 24 /\ T!VLT_ALLOCATION["dex_liquidity"] = 20
  /\ T!VLT_ALLOCATION["airdrop"] = 4 /\ T!VLT_ALLOCATION["bug_bounty"] = 2
  /\ T!MAX_SUPPLY = 200 /\ T!Allocated = 200
  /\ T!NoShares = [to \in Everyone \cup {"faucet"} |-> 0]
<1>1. T!MAX_SUPPLY = 200
  BY DEF T!MAX_SUPPLY
<1>2. T!Allocated = 200
  BY <1>1, TestnetOrdered DEF T!ProgramOrdered
<1>3. DOMAIN T!VLT_ALLOCATION = Everyone
  BY DEF T!VLT_ALLOCATION, Everyone
<1>4. T!NoShares = [to \in Everyone \cup {"faucet"} |-> 0]
  BY <1>3 DEF T!NoShares
<1>. QED
  BY <1>1, <1>2, <1>3, <1>4 DEF T!VLT_ALLOCATION

\* The place after this one.
LEMMA OnwardIn ==
  ASSUME RunInv, step > 0, OpAt(step) # "save", T!Onward
  PROVE  step' = step + 1 /\ step \in 1..EndAt /\ step' \in 1..EndAt
<1>1. step \in 1..EndAt /\ EndAt \in Nat
  BY Places DEF RunInv
<1>2. step # EndAt
  BY <1>1, Places
<1>. QED
  BY <1>1, <1>2 DEF T!Onward

\* A run that goes on, or ends without the file, keeps what it has.
LEMMA QuietOnward ==
  ASSUME RunInv, QuietInv, step > 0, OpAt(step) # "save",
         T!Onward \/ step' = 0 \/
           (step' \in 1..EndAt /\ step' > step /\
            \A i \in step..(step' - 1) : OpAt(i) \in {"mint", "mint_one", "refill", "faucet"}),
         UNCHANGED <<run, saved>>, onChain \subseteq onChain', assets \subseteq assets',
         warned => warned',
         ~warned' /\ step' > 0 =>
           /\ OpAt(step) = "call" => SettingAt(step) \in onChain'
           /\ OpAt(step) = "vlt_asset" => "VLT" \in assets'
           /\ OpAt(step) = "xusd_asset" => "xUSD_asset" \in assets'
  PROVE  RunInv' /\ QuietInv' /\ T!WiredWhenQuiet'
<1>1. step \in 1..EndAt /\ EndAt \in Nat /\ run \in Nat /\ saved \in Nat /\ saved < run
  BY Places DEF RunInv
<1>2. step' \in 0..EndAt
  BY <1>1, OnwardIn
<1>3. RunInv'
  BY <1>1, <1>2 DEF RunInv
<1>4. T!WiredWhenQuiet'
  BY <1>1 DEF T!WiredWhenQuiet
<1>5. ASSUME step' > 0, ~warned', NEW i \in 1..(step' - 1)
      PROVE  /\ OpAt(i) = "call" => SettingAt(i) \in onChain'
             /\ OpAt(i) = "vlt_asset" => "VLT" \in assets'
             /\ OpAt(i) = "xusd_asset" => "xUSD_asset" \in assets'
  <2>1. CASE i \in 1..(step - 1)
    BY <1>5, <2>1 DEF QuietInv
  <2>2. CASE i = step
    BY <1>5, <2>2
  <2>3. CASE i > step
    <3>1. PICK s, t : s = step /\ t = step'
      OBVIOUS
    <3>2. s \in Nat /\ t \in Nat /\ i \in Int /\ i > s /\ i <= t - 1
      <4>1. s \in Nat /\ t \in Nat
        BY <1>1, <1>2, <3>1
      <4>2. i \in 1..(t - 1) /\ i > s
        BY <2>3, <3>1
      <4>. QED
        BY <4>1, <4>2
    <3>3. t # s + 1 /\ t # 0
      BY <3>2
    <3>4. \A j \in s..(t - 1) : OpAt(j) \in {"mint", "mint_one", "refill", "faucet"}
      BY <3>1, <3>3 DEF T!Onward
    <3>5. i \in s..(t - 1)
      BY <3>2
    <3>. QED
      BY <3>4, <3>5
  <2>. QED
    BY <1>1, <1>2, <1>5, <2>1, <2>2, <2>3
<1>6. QuietInv'
  BY <1>5 DEF QuietInv, OpAt, SettingAt
<1>. QED
  BY <1>3, <1>4, <1>6

\* A step that mints nothing, where nothing is minted.
LEMMA MintIdle ==
  ASSUME RunInv, MintInv, step > 0, OpAt(step) \notin {"mint", "mint_one", "faucet", "verify", "save"},
         T!Onward \/ step' = 0, UNCHANGED <<shares, supply, said>>
  PROVE  MintInv'
<1>1. step \in 1..EndAt /\ EndAt \in Nat /\ step' \in Nat
  BY Places, OnwardIn DEF RunInv, T!Onward
<1>2. /\ step # MintAt /\ step \notin (MintAt + 1)..(MintAt + 6)
      /\ step # FaucetAt /\ step # VerifyAt
  BY <1>1, Places
<1>3. SharesInv' /\ VerifiedInv'
  BY DEF MintInv, SharesInv, VerifiedInv
<1>4. TurnsInv'
  BY <1>1, <1>2, Places DEF MintInv, TurnsInv, T!Onward, MintAt, FaucetAt, VerifyAt
<1>. QED
  BY <1>3, <1>4 DEF MintInv

LEMMA LaunchSafe ==
  ASSUME TestnetInv, T!Launch
  PROVE  TestnetInv'
<1>1. /\ step = 0 /\ run' = run + 1 /\ step' = 1 /\ shares' = T!NoShares /\ supply' = 0
      /\ said' = "nothing" /\ saved' = saved
  BY DEF T!Launch
<1>2. /\ run' \in Nat /\ saved' \in Nat /\ saved' < run' /\ EndAt \in Nat /\ 1 <= EndAt
  BY <1>1, Places DEF TestnetInv, RunInv
<1>3. RunInv'
  BY <1>1, <1>2 DEF RunInv, EndAt
<1>4. QuietInv' /\ T!WiredWhenQuiet'
  BY <1>1 DEF QuietInv, T!WiredWhenQuiet
<1>5. /\ shares' \in [Everyone \cup {"faucet"} -> Nat]
      /\ \A to \in Everyone \cup {"faucet"} : shares'[to] = 0
  BY <1>1, AllotmentIs
<1>6. SharesInv'
  BY <1>1, <1>5 DEF SharesInv, Everyone
<1>7. TurnsInv'
  BY <1>1, <1>5, Places DEF TurnsInv
<1>8. VerifiedInv'
  BY <1>1 DEF VerifiedInv
<1>. QED
  BY <1>3, <1>4, <1>6, <1>7, <1>8 DEF TestnetInv, MintInv

LEMMA DeployOneSafe ==
  ASSUME TestnetInv, T!DeployOne
  PROVE  TestnetInv'
<1>1. /\ step > 0 /\ OpAt(step) = "deploy" /\ (T!Onward \/ step' = 0)
      /\ UNCHANGED <<run, onChain, shares, supply, assets, warned, said, saved>>
  BY DEF T!DeployOne, T!At, T!Exit, T!vlt, OpAt
<1>2. RunInv' /\ QuietInv' /\ T!WiredWhenQuiet'
  BY <1>1, QuietOnward DEF TestnetInv
<1>3. MintInv'
  BY <1>1, MintIdle DEF TestnetInv
<1>. QED
  BY <1>2, <1>3 DEF TestnetInv

LEMMA CreateAssetSafe ==
  ASSUME TestnetInv,
         \/ T!CreateAsset("vlt_asset", "VLT")
         \/ T!CreateAsset("xusd_asset", "xUSD_asset")
  PROVE  TestnetInv'
<1>1. PICK o, a : /\ T!CreateAsset(o, a)
                  /\ \/ o = "vlt_asset" /\ a = "VLT"
                     \/ o = "xusd_asset" /\ a = "xUSD_asset"
  OBVIOUS
<1>2. /\ step > 0 /\ OpAt(step) = o /\ UNCHANGED <<run, onChain, shares, supply, said, saved>>
      /\ \/ T!Onward /\ assets' = assets \cup {a} /\ UNCHANGED warned
         \/ T!Onward /\ warned' = TRUE /\ UNCHANGED assets
         \/ step' = 0 /\ UNCHANGED <<assets, warned>>
  BY <1>1 DEF T!CreateAsset, T!At, T!Exit, T!vlt, OpAt
<1>3. RunInv' /\ QuietInv' /\ T!WiredWhenQuiet'
  <2>1. /\ assets \subseteq assets' /\ (warned => warned')
        /\ ~warned' /\ step' > 0 => a \in assets'
    BY <1>2
  <2>2. T!Onward \/ step' = 0
    BY <1>2
  <2>. QED
    BY <1>1, <1>2, <2>1, <2>2, QuietOnward DEF TestnetInv
<1>4. MintInv'
  BY <1>1, <1>2, MintIdle DEF TestnetInv
<1>. QED
  BY <1>3, <1>4 DEF TestnetInv

\* A call without a warning passes the hash it is about, and none is left out.
LEMMA MakeCallSafe ==
  ASSUME TestnetInv, T!MakeCall
  PROVE  TestnetInv'
<1>1. PICK s : s = T!Program[step]
  OBVIOUS
<1>2. /\ step > 0 /\ OpAt(step) \in {"call", "feed", "refill"} /\ T!Onward
      /\ UNCHANGED <<run, shares, supply, assets, said, saved>>
      /\ \/ ~T!LeftOut(s) /\ onChain' = onChain \cup {<<s.on, s.fn, T!Passed(s.arg)>>} /\ UNCHANGED warned
         \/ T!LeftOut(s) /\ UNCHANGED <<onChain, warned>>
         \/ warned' = TRUE /\ onChain \subseteq onChain'
  BY <1>1 DEF T!MakeCall, T!At, T!vlt, OpAt
<1>3. ASSUME ~warned', OpAt(step) = "call"
      PROVE  SettingAt(step) \in onChain'
  <2>1. step \in 1..EndAt /\ ~warned
    BY <1>2, <1>3, Places DEF TestnetInv, RunInv
  <2>2. \A j \in 1..(step - 1) :
          /\ OpAt(j) = "vlt_asset" => "VLT" \in assets
          /\ OpAt(j) = "xusd_asset" => "xUSD_asset" \in assets
    BY <1>2, <2>1 DEF TestnetInv, QuietInv
  <2>3. /\ s.arg = "VLT" => "VLT" \in assets
        /\ s.on = "xUSD" \/ s.arg = "xUSD_asset" => "xUSD_asset" \in assets
    BY <1>1, <1>3, <2>1, <2>2, AssetsFirst
  <2>4. T!Passed(s.arg) = s.arg /\ ~T!LeftOut(s)
    BY <2>3 DEF T!Passed, T!LeftOut
  <2>. QED
    BY <1>1, <1>2, <1>3, <2>4 DEF SettingAt
<1>4. onChain \subseteq onChain' /\ (warned => warned') /\ assets \subseteq assets'
  BY <1>2
<1>5. RunInv' /\ QuietInv' /\ T!WiredWhenQuiet'
  BY <1>2, <1>3, <1>4, QuietOnward DEF TestnetInv
<1>6. MintInv'
  BY <1>2, MintIdle DEF TestnetInv
<1>. QED
  BY <1>5, <1>6 DEF TestnetInv

\* What an option leaves out: no call is in it, and no mint but the faucet's.
LEMMA SkipsSafe ==
  ASSUME TestnetInv, T!SkipFeed \/ T!SkipFaucet
  PROVE  TestnetInv'
<1>1. /\ step > 0 /\ UNCHANGED <<run, onChain, shares, supply, assets, warned, said, saved>>
      /\ \/ OpAt(step) = "feed" /\ T!Onward
         \/ OpAt(step) = "refill" /\ step' = FaucetAt + 1
  BY DEF T!SkipFeed, T!SkipFaucet, T!At, T!vlt, OpAt, FaucetAt
<1>2. CASE OpAt(step) = "feed"
  <2>1. RunInv' /\ QuietInv' /\ T!WiredWhenQuiet'
    BY <1>1, <1>2, QuietOnward DEF TestnetInv
  <2>2. MintInv'
    BY <1>1, <1>2, MintIdle DEF TestnetInv
  <2>. QED
    BY <2>1, <2>2 DEF TestnetInv
<1>3. CASE OpAt(step) = "refill"
  <2>1. PICK s, f, v, e, m :
          s = step /\ f = FaucetAt /\ v = VerifyAt /\ e = EndAt /\ m = MintAt
    OBVIOUS
  <2>2. /\ s \in 1..e /\ s = f - 1 /\ step' = f + 1
        /\ m \in Nat /\ f \in Nat /\ v \in Nat /\ e \in Nat /\ m + 6 < f /\ f < v /\ v < e
    BY <1>1, <1>3, <2>1, Places DEF TestnetInv, RunInv
  <2>3. \A i \in s..f : i = s \/ (i \in 1..e /\ i = f)
    BY <2>2
  <2>4. \A i \in s..f : OpAt(i) \in {"refill", "faucet"}
    BY <1>3, <2>1, <2>3, Places
  <2>5. f + 1 \in 1..e /\ f + 1 > s /\ (f + 1) - 1 = f
    BY <2>2
  <2>6. RunInv' /\ QuietInv' /\ T!WiredWhenQuiet'
    <3>1. /\ step' \in 1..EndAt /\ step' > step
          /\ \A i \in step..(step' - 1) : OpAt(i) \in {"mint", "mint_one", "refill", "faucet"}
      <4>1. PICK t : t = step'
        OBVIOUS
      <4>2. t = f + 1 /\ t \in 1..e /\ t > s /\ t - 1 = f
        BY <2>2, <2>5, <4>1
      <4>3. \A i \in s..(t - 1) : OpAt(i) \in {"mint", "mint_one", "refill", "faucet"}
        BY <2>4, <4>2
      <4>4. step' = t /\ step = s /\ EndAt = e
        BY <2>1, <4>1
      <4>5. t \in 1..EndAt /\ t > step
        BY <4>2, <4>4
      <4>6. \A i \in step..(t - 1) : OpAt(i) \in {"mint", "mint_one", "refill", "faucet"}
        BY <4>3, <4>4
      <4>. QED
        BY <4>4, <4>5, <4>6
    <3>. QED
      BY <1>1, <1>3, <3>1, QuietOnward DEF TestnetInv
  <2>7. SharesInv' /\ VerifiedInv'
    BY <1>1 DEF TestnetInv, MintInv, SharesInv, VerifiedInv
  <2>8. said = "nothing"
    BY <1>1, <2>1, <2>2 DEF TestnetInv, MintInv, TurnsInv
  <2>9. TurnsInv'
    <3>1. MintAt' = MintAt /\ FaucetAt' = FaucetAt /\ VerifyAt' = VerifyAt
      BY DEF MintAt, FaucetAt, VerifyAt
    <3>2. PICK t : t = step'
      OBVIOUS
    <3>3. ~(t <= m) /\ t \notin (m + 1)..(m + 6) /\ ~(t <= f)
      BY <2>2, <3>2
    <3>4. ~(step' <= MintAt) /\ step' \notin (MintAt + 1)..(MintAt + 6) /\ ~(step' <= FaucetAt)
      BY <2>1, <3>2, <3>3
    <3>5. said' = "nothing"
      BY <1>1, <2>8
    <3>. QED
      BY <3>1, <3>4, <3>5 DEF TurnsInv
  <2>. QED
    BY <2>6, <2>7, <2>9 DEF TestnetInv, MintInv
<1>. QED
  BY <1>1, <1>2, <1>3

LEMMA SaveSafe ==
  ASSUME TestnetInv, T!Save
  PROVE  TestnetInv'
<1>1. /\ step > 0 /\ OpAt(step) = "save" /\ saved' = run /\ step' = 0
      /\ UNCHANGED <<run, onChain, shares, supply, assets, warned, said>>
  BY DEF T!Save, T!At, T!vlt, OpAt
<1>2. step = EndAt /\ EndAt \in Nat /\ run \in Nat
  BY <1>1, Places DEF TestnetInv, RunInv
<1>3. RunInv' /\ QuietInv'
  BY <1>1, <1>2 DEF RunInv, QuietInv, EndAt
<1>4. ASSUME ~warned, NEW i \in 1..EndAt, OpAt(i) = "call"
      PROVE  SettingAt(i) \in onChain
  <2>1. i # EndAt
    BY <1>1, <1>2, <1>4
  <2>2. i \in 1..(step - 1)
    BY <1>2, <2>1
  <2>. QED
    BY <1>1, <1>4, <2>2 DEF TestnetInv, QuietInv
<1>5. T!WiredWhenQuiet'
  BY <1>1, <1>4 DEF T!WiredWhenQuiet, SettingAt, OpAt, EndAt
<1>6. MintInv'
  BY <1>1 DEF TestnetInv, MintInv, SharesInv, TurnsInv, VerifiedInv
<1>. QED
  BY <1>3, <1>5, <1>6 DEF TestnetInv

LEMMA VerifySafe ==
  ASSUME TestnetInv, T!Verify
  PROVE  TestnetInv'
<1>1. /\ step > 0 /\ OpAt(step) = "verify" /\ (T!Onward \/ step' = 0)
      /\ UNCHANGED <<run, onChain, shares, supply, assets, saved>>
      /\ \/ said' = said
         \/ T!Onward /\ said' = (IF supply = T!Allocated THEN "correct" ELSE "mismatch")
      /\ warned' = warned \/ warned' = (warned \/ supply # T!Allocated)
      /\ step' # 0 => T!Onward
  BY DEF T!Verify, T!At, T!Exit, T!vlt, OpAt
<1>2. step = VerifyAt /\ step \in Nat /\ (T!Onward => step' = step + 1)
  BY <1>1, Places DEF TestnetInv, RunInv, T!Onward
<1>3. RunInv' /\ QuietInv' /\ T!WiredWhenQuiet'
  <2>1. warned => warned'
    BY <1>1
  <2>. QED
    BY <1>1, <2>1, QuietOnward DEF TestnetInv
<1>4. SharesInv'
  BY <1>1 DEF TestnetInv, MintInv, SharesInv
<1>5. TurnsInv'
  BY <1>1, <1>2, Places DEF TurnsInv, MintAt, FaucetAt, VerifyAt
<1>6. VerifiedInv'
  BY <1>1, AllotmentIs DEF TestnetInv, MintInv, VerifiedInv
<1>. QED
  BY <1>3, <1>4, <1>5, <1>6 DEF TestnetInv, MintInv

LEMMA RecipientsAre ==
  /\ \A j \in 1..6 : T!Recipients[j] \in Everyone
  /\ \A i, j \in 1..6 : i # j => T!Recipients[i] # T!Recipients[j]
  /\ \A to \in Everyone : \E j \in 1..6 : to = T!Recipients[j]
BY DEF T!Recipients, Everyone

\* The supply is a sum of numbers.
LEMMA Holdings ==
  ASSUME SharesInv
  PROVE  /\ shares["oracle_rewards"] \in Nat /\ shares["team"] \in Nat /\ shares["treasury"] \in Nat
         /\ shares["dex_liquidity"] \in Nat /\ shares["airdrop"] \in Nat /\ shares["bug_bounty"] \in Nat
         /\ shares["faucet"] \in {0, 1} /\ supply \in Nat
<1>1. \A x \in Everyone \cup {"faucet"} : shares[x] \in Nat
  BY DEF SharesInv
<1>2. /\ shares["oracle_rewards"] \in Nat /\ shares["team"] \in Nat /\ shares["treasury"] \in Nat
      /\ shares["dex_liquidity"] \in Nat /\ shares["airdrop"] \in Nat /\ shares["bug_bounty"] \in Nat
      /\ shares["faucet"] \in {0, 1}
  BY <1>1 DEF Everyone, SharesInv
<1>3. supply = shares["oracle_rewards"] + shares["team"] + shares["treasury"] + shares["dex_liquidity"] +
               shares["airdrop"] + shares["bug_bounty"] + shares["faucet"]
  BY DEF SharesInv
<1>. QED
  BY <1>2, <1>3

LEMMA FullSupply ==
  ASSUME SharesInv, Full
  PROVE  supply >= 200
BY AllotmentIs DEF SharesInv, Full, Everyone

\* One mint: nothing beyond the maximal supply, and nobody twice.
LEMMA MintsOne ==
  ASSUME SharesInv, NEW to \in Everyone, Full \/ shares[to] = 0,
         T!MintTo(to, T!VLT_ALLOCATION[to])
  PROVE  /\ SharesInv' /\ (Full => Full')
         /\ \A x \in (Everyone \cup {"faucet"}) \ {to} : shares'[x] = shares[x]
<1>1. CASE supply + T!VLT_ALLOCATION[to] <= T!MAX_SUPPLY
  <2>1. /\ supply' = supply + T!VLT_ALLOCATION[to]
        /\ shares' = [shares EXCEPT ![to] = @ + T!VLT_ALLOCATION[to]]
    BY <1>1 DEF T!MintTo
  <2>2. T!VLT_ALLOCATION[to] \in Nat \ {0}
    BY AllotmentIs DEF Everyone
  <2>3. supply \in Nat
    BY Holdings
  <2>4. ~Full
    BY <1>1, <2>2, <2>3, AllotmentIs, FullSupply
  <2>5. shares[to] = 0
    BY <2>4
  <2>6. shares' = [shares EXCEPT ![to] = T!VLT_ALLOCATION[to]]
    <3>1. PICK u \in Nat : u = T!VLT_ALLOCATION[to]
      BY <2>2
    <3>2. shares[to] + u = u
      BY <2>5, <3>1
    <3>. QED
      BY <2>1, <3>1, <3>2
  <2>7. SharesInv'
    <3>1. shares' \in [Everyone \cup {"faucet"} -> Nat]
      BY <2>2, <2>6 DEF SharesInv
    <3>2. /\ \A x \in Everyone : shares'[x] \in {0, T!VLT_ALLOCATION[x]}
          /\ shares'["faucet"] = shares["faucet"]
      BY <2>6 DEF SharesInv, Everyone
    <3>3. /\ shares'["oracle_rewards"] = (IF to = "oracle_rewards" THEN T!VLT_ALLOCATION[to] ELSE shares["oracle_rewards"])
          /\ shares'["team"] = (IF to = "team" THEN T!VLT_ALLOCATION[to] ELSE shares["team"])
          /\ shares'["treasury"] = (IF to = "treasury" THEN T!VLT_ALLOCATION[to] ELSE shares["treasury"])
          /\ shares'["dex_liquidity"] = (IF to = "dex_liquidity" THEN T!VLT_ALLOCATION[to] ELSE shares["dex_liquidity"])
          /\ shares'["airdrop"] = (IF to = "airdrop" THEN T!VLT_ALLOCATION[to] ELSE shares["airdrop"])
          /\ shares'["bug_bounty"] = (IF to = "bug_bounty" THEN T!VLT_ALLOCATION[to] ELSE shares["bug_bounty"])
      BY <2>6 DEF SharesInv, Everyone
    <3>4. \A x \in Everyone \cup {"faucet"} : shares[x] \in Nat
      BY DEF SharesInv
    <3>5. supply' = shares'["oracle_rewards"] + shares'["team"] + shares'["treasury"] + shares'["dex_liquidity"] +
                    shares'["airdrop"] + shares'["bug_bounty"] + shares'["faucet"]
      BY <2>1, <2>2, <2>5, <3>2, <3>3, <3>4 DEF SharesInv, Everyone
    <3>. QED
      BY <3>1, <3>2, <3>5 DEF SharesInv
  <2>. QED
    BY <2>4, <2>6, <2>7 DEF SharesInv
<1>2. CASE ~(supply + T!VLT_ALLOCATION[to] <= T!MAX_SUPPLY)
  <2>1. UNCHANGED <<shares, supply>>
    BY <1>2 DEF T!MintTo, T!vlt
  <2>. QED
    BY <2>1 DEF SharesInv, Full
<1>. QED
  BY <1>1, <1>2

LEMMA MintOneSafe ==
  ASSUME TestnetInv, T!MintOne
  PROVE  TestnetInv'
<1>1. /\ step > 0 /\ OpAt(step) = "mint_one" /\ T!Onward
      /\ UNCHANGED <<run, onChain, assets, said, saved>> /\ (warned => warned')
      /\ T!MintThis \/ UNCHANGED <<shares, supply>>
  BY DEF T!MintOne, T!At, T!vlt, OpAt
<1>2. RunInv' /\ QuietInv' /\ T!WiredWhenQuiet'
  BY <1>1, QuietOnward DEF TestnetInv
<1>3. /\ step \in (MintAt + 1)..(MintAt + 6) /\ step' = step + 1
      /\ MintAt \in Nat /\ FaucetAt \in Nat /\ VerifyAt \in Nat
      /\ MintAt + 6 < FaucetAt /\ FaucetAt < VerifyAt
  BY <1>1, Places DEF TestnetInv, RunInv, T!Onward
<1>4. PICK j \in 1..6 : j = step - MintAt
  BY <1>3
<1>5. PICK to \in Everyone : to = T!Recipients[j]
  BY RecipientsAre
<1>6. Full \/ \A i \in j..6 : shares[T!Recipients[i]] = 0
  BY <1>1, <1>3, <1>4 DEF TestnetInv, MintInv, TurnsInv
<1>7. shares["faucet"] = 0 /\ said = "nothing" /\ SharesInv
  BY <1>1, <1>3 DEF TestnetInv, MintInv, TurnsInv
<1>8. /\ SharesInv' /\ (Full => Full')
      /\ \A x \in (Everyone \cup {"faucet"}) \ {to} : shares'[x] = shares[x]
  <2>1. CASE T!MintThis
    <3>1. T!MintTo(to, T!VLT_ALLOCATION[to])
      BY <1>4, <1>5, <2>1 DEF T!MintThis, T!ThisOne, MintAt
    <3>2. Full \/ shares[to] = 0
      BY <1>5, <1>6
    <3>. QED
      BY <1>7, <3>1, <3>2, MintsOne
  <2>2. CASE UNCHANGED <<shares, supply>>
    BY <1>7, <2>2 DEF SharesInv, Full
  <2>. QED
    BY <1>1, <2>1, <2>2
<1>9. Full' \/ \A i \in (j + 1)..6 : shares'[T!Recipients[i]] = 0
  <2>. SUFFICES ASSUME ~Full, NEW i \in (j + 1)..6
                PROVE  shares'[T!Recipients[i]] = 0
    BY <1>8
  <2>1. i \in 1..6 /\ i \in j..6 /\ i # j
    OBVIOUS
  <2>2. PICK x \in Everyone : x = T!Recipients[i]
    BY <2>1, RecipientsAre
  <2>3. x # to /\ shares[x] = 0
    BY <1>5, <1>6, <2>1, <2>2, RecipientsAre
  <2>. QED
    BY <1>8, <2>2, <2>3
<1>10. shares'["faucet"] = 0
  BY <1>7, <1>8 DEF Everyone
<1>11. TurnsInv'
  <2>1. MintAt' = MintAt /\ FaucetAt' = FaucetAt /\ VerifyAt' = VerifyAt
    BY DEF MintAt, FaucetAt, VerifyAt
  <2>2. PICK s, m : s = step' /\ m = MintAt
    OBVIOUS
  <2>3. s - m = j + 1 /\ ~(s <= m)
    BY <1>3, <1>4, <2>2
  <2>. QED
    BY <1>1, <1>7, <1>9, <1>10, <2>1, <2>2, <2>3 DEF TurnsInv
<1>12. VerifiedInv'
  BY <1>1, <1>7 DEF VerifiedInv
<1>. QED
  BY <1>2, <1>8, <1>11, <1>12 DEF TestnetInv, MintInv

\* The batch gives everyone the share, or nothing happens.
LEMMA MintsAll ==
  ASSUME SharesInv, shares["faucet"] = 0, \A to \in Everyone : shares[to] = 0, T!MintAll
  PROVE  SharesInv' /\ Full' /\ shares'["faucet"] = 0
<1>1. supply = 0
  BY DEF SharesInv, Everyone
<1>2. /\ supply' = 200
      /\ shares' = [x \in DOMAIN shares |->
                      shares[x] + IF x = "faucet" THEN 0 ELSE T!VLT_ALLOCATION[x]]
  BY <1>1, AllotmentIs DEF T!MintAll
<1>3. DOMAIN shares = Everyone \cup {"faucet"}
  BY DEF SharesInv
<1>4. /\ DOMAIN shares' = Everyone \cup {"faucet"} /\ shares'["faucet"] = 0
      /\ shares' = [x \in Everyone \cup {"faucet"} |-> shares'[x]]
  BY <1>2, <1>3 DEF Everyone
<1>5. \A x \in Everyone : shares'[x] = T!VLT_ALLOCATION[x] /\ T!VLT_ALLOCATION[x] \in Nat
  <2>1. \A x \in Everyone : x # "faucet" /\ T!VLT_ALLOCATION[x] \in Nat
    BY AllotmentIs DEF Everyone
  <2>. QED
    BY <1>2, <1>3, <2>1
<1>6. shares' \in [Everyone \cup {"faucet"} -> Nat]
  BY <1>4, <1>5
<1>7. SharesInv'
  <2>1. /\ shares'["oracle_rewards"] = 120 /\ shares'["team"] = 30 /\ shares'["treasury"] = 24
        /\ shares'["dex_liquidity"] = 20 /\ shares'["airdrop"] = 4 /\ shares'["bug_bounty"] = 2
    BY <1>5, AllotmentIs DEF Everyone
  <2>. QED
    BY <1>2, <1>4, <1>5, <1>6, <2>1 DEF SharesInv
<1>. QED
  BY <1>4, <1>5, <1>7 DEF Full

LEMMA MintBatchSafe ==
  ASSUME TestnetInv, T!MintBatch \/ T!SkipMint
  PROVE  TestnetInv'
<1>1. /\ step > 0 /\ OpAt(step) = "mint"
      /\ UNCHANGED <<run, onChain, assets, said, saved>> /\ (warned => warned')
      /\ T!MintAll \/ UNCHANGED <<shares, supply>>
      /\ \/ step' = MintAt + 6 + 1 /\ (T!MintAll \/ UNCHANGED <<shares, supply>>)
         \/ T!Onward
  <2>1. Len(T!Recipients) = 6
    BY DEF T!Recipients
  <2>. QED
    BY <2>1 DEF T!MintBatch, T!SkipMint, T!At, T!vlt, OpAt, MintAt
<1>2. /\ step = MintAt /\ step \in Nat /\ step' \in {step + 1, step + 7}
      /\ MintAt \in Nat /\ FaucetAt \in Nat /\ VerifyAt \in Nat /\ EndAt \in Nat
      /\ MintAt + 6 < FaucetAt /\ FaucetAt < VerifyAt /\ VerifyAt < EndAt /\ 1 <= MintAt
  BY <1>1, Places DEF TestnetInv, RunInv, T!Onward
<1>3. RunInv' /\ QuietInv' /\ T!WiredWhenQuiet'
  <2>1. PICK s, t : s = step /\ t = step'
    OBVIOUS
  <2>2. t \in 1..EndAt /\ t > s
    BY <1>2, <2>1
  <2>3. \A i \in s..(t - 1) : OpAt(i) \in {"mint", "mint_one"}
    <3>. SUFFICES ASSUME NEW i \in s..(t - 1)
                  PROVE  OpAt(i) \in {"mint", "mint_one"}
      OBVIOUS
    <3>1. s \in Nat /\ t \in {s + 1, s + 7} /\ s = MintAt /\ s >= 1 /\ s + 7 <= EndAt
      BY <1>2, <2>1
    <3>2. i \in s..(s + 6) /\ i \in 1..EndAt
      BY <1>2, <3>1
    <3>3. i = MintAt \/ i \in (MintAt + 1)..(MintAt + 6)
      BY <3>1, <3>2
    <3>. QED
      BY <3>2, <3>3, Places
  <2>4. /\ step' \in 1..EndAt /\ step' > step
        /\ \A i \in step..(step' - 1) : OpAt(i) \in {"mint", "mint_one"}
    BY <2>1, <2>2, <2>3
  <2>. QED
    BY <1>1, <2>4, QuietOnward DEF TestnetInv
<1>4. /\ shares["faucet"] = 0 /\ said = "nothing" /\ SharesInv
      /\ \A to \in Everyone : shares[to] = 0
  BY <1>1, <1>2 DEF TestnetInv, MintInv, TurnsInv
<1>5. /\ SharesInv' /\ shares'["faucet"] = 0
      /\ Full' \/ \A to \in Everyone : shares'[to] = 0
  <2>1. CASE T!MintAll
    BY <1>4, <2>1, MintsAll
  <2>2. CASE UNCHANGED <<shares, supply>>
    BY <1>4, <2>2 DEF SharesInv
  <2>. QED
    BY <1>1, <2>1, <2>2
<1>6. Full' \/ \A j \in 1..6 : shares'[T!Recipients[j]] = 0
  BY <1>5, RecipientsAre
<1>7. TurnsInv'
  <2>1. MintAt' = MintAt /\ FaucetAt' = FaucetAt /\ VerifyAt' = VerifyAt
    BY DEF MintAt, FaucetAt, VerifyAt
  <2>2. PICK s, m : s = step' /\ m = MintAt
    OBVIOUS
  <2>3. m \in Nat /\ s \in {m + 1, m + 7}
    BY <1>2, <2>2
  <2>4. ~(s <= m) /\ (s \in (m + 1)..(m + 6) => s - m = 1)
    BY <2>3
  <2>. QED
    BY <1>1, <1>4, <1>5, <1>6, <2>1, <2>2, <2>4 DEF TurnsInv
<1>8. VerifiedInv'
  BY <1>1, <1>4 DEF VerifiedInv
<1>. QED
  BY <1>3, <1>5, <1>7, <1>8 DEF TestnetInv, MintInv

LEMMA FillFaucetSafe ==
  ASSUME TestnetInv, T!FillFaucet
  PROVE  TestnetInv'
<1>1. /\ step > 0 /\ OpAt(step) = "faucet" /\ T!Onward
      /\ UNCHANGED <<run, onChain, assets, said, saved>> /\ (warned => warned')
      /\ T!MintTo("faucet", 1) \/ UNCHANGED <<shares, supply>>
  BY DEF T!FillFaucet, T!At, T!vlt, OpAt, T!FAUCET_VLT
<1>2. RunInv' /\ QuietInv' /\ T!WiredWhenQuiet'
  BY <1>1, QuietOnward DEF TestnetInv
<1>3. /\ step = FaucetAt /\ step \in Nat /\ step' = step + 1
      /\ MintAt \in Nat /\ FaucetAt \in Nat /\ VerifyAt \in Nat
      /\ MintAt + 6 < FaucetAt /\ FaucetAt < VerifyAt
  BY <1>1, Places DEF TestnetInv, RunInv, T!Onward
<1>4. shares["faucet"] = 0 /\ said = "nothing" /\ SharesInv
  BY <1>1, <1>3 DEF TestnetInv, MintInv, TurnsInv
<1>5. SharesInv'
  <2>1. CASE UNCHANGED <<shares, supply>>
    BY <1>4, <2>1 DEF SharesInv
  <2>2. CASE supply' = supply + 1 /\ shares' = [shares EXCEPT !["faucet"] = @ + 1]
    <3>1. shares' = [shares EXCEPT !["faucet"] = 1]
      BY <1>4, <2>2 DEF SharesInv
    <3>2. /\ shares' \in [Everyone \cup {"faucet"} -> Nat] /\ shares'["faucet"] = 1
          /\ \A x \in Everyone : shares'[x] = shares[x]
      BY <1>4, <3>1 DEF SharesInv, Everyone
    <3>3. /\ shares'["oracle_rewards"] = shares["oracle_rewards"] /\ shares'["team"] = shares["team"]
          /\ shares'["treasury"] = shares["treasury"] /\ shares'["dex_liquidity"] = shares["dex_liquidity"]
          /\ shares'["airdrop"] = shares["airdrop"]
          /\ shares'["bug_bounty"] = shares["bug_bounty"]
      BY <3>2 DEF Everyone
    <3>4. supply' = shares'["oracle_rewards"] + shares'["team"] + shares'["treasury"] + shares'["dex_liquidity"] +
                    shares'["airdrop"] + shares'["bug_bounty"] + shares'["faucet"]
      <4>1. supply = shares["oracle_rewards"] + shares["team"] + shares["treasury"] + shares["dex_liquidity"] +
                     shares["airdrop"] + shares["bug_bounty"]
        BY <1>4, Holdings DEF SharesInv
      <4>. QED
        BY <1>4, <2>2, <3>2, <3>3, <4>1, Holdings
    <3>. QED
      BY <1>4, <3>2, <3>4 DEF SharesInv
  <2>. QED
    BY <1>1, <2>1, <2>2 DEF T!MintTo, T!vlt
<1>6. TurnsInv'
  <2>1. MintAt' = MintAt /\ FaucetAt' = FaucetAt /\ VerifyAt' = VerifyAt
    BY DEF MintAt, FaucetAt, VerifyAt
  <2>2. step' > MintAt + 6 /\ step' > FaucetAt
    BY <1>3
  <2>. QED
    BY <1>1, <1>3, <1>4, <2>1, <2>2 DEF TurnsInv
<1>7. VerifiedInv'
  BY <1>1, <1>4 DEF VerifiedInv
<1>. QED
  BY <1>2, <1>5, <1>6, <1>7 DEF TestnetInv, MintInv

LEMMA TestnetStarts == T!TestnetInit => TestnetInv
<1>. SUFFICES ASSUME T!TestnetInit
              PROVE  TestnetInv
  OBVIOUS
<1>1. /\ run = 0 /\ step = 0 /\ shares = T!NoShares /\ supply = 0 /\ said = "nothing" /\ saved = 0
  BY DEF T!TestnetInit
<1>2. RunInv /\ QuietInv /\ T!WiredWhenQuiet
  BY <1>1, Places DEF RunInv, QuietInv, T!WiredWhenQuiet
<1>3. /\ shares \in [Everyone \cup {"faucet"} -> Nat]
      /\ \A to \in Everyone \cup {"faucet"} : shares[to] = 0
  BY <1>1, AllotmentIs
<1>4. SharesInv
  BY <1>1, <1>3 DEF SharesInv, Everyone
<1>5. TurnsInv /\ VerifiedInv
  BY <1>1 DEF TurnsInv, VerifiedInv
<1>. QED
  BY <1>2, <1>4, <1>5 DEF TestnetInv, MintInv

LEMMA TestnetSteps == TestnetInv /\ [T!TestnetNext]_(T!testnetVars) => TestnetInv'
<1>. SUFFICES ASSUME TestnetInv, [T!TestnetNext]_(T!testnetVars)
              PROVE  TestnetInv'
  OBVIOUS
<1>1. CASE UNCHANGED T!testnetVars
  <2>1. UNCHANGED <<run, step, onChain, shares, supply, assets, warned, said, saved>>
    BY <1>1 DEF T!testnetVars, T!vlt
  <2>2. RunInv' /\ QuietInv' /\ T!WiredWhenQuiet'
    BY <2>1 DEF TestnetInv, RunInv, QuietInv, T!WiredWhenQuiet, EndAt, OpAt, SettingAt
  <2>3. MintInv'
    BY <2>1 DEF TestnetInv, MintInv, SharesInv, TurnsInv, VerifiedInv, Full, MintAt, FaucetAt, VerifyAt
  <2>. QED
    BY <2>2, <2>3 DEF TestnetInv
<1>. QED
  BY <1>1, LaunchSafe, DeployOneSafe, CreateAssetSafe, MakeCallSafe, SkipsSafe, MintOneSafe, MintBatchSafe,
     FillFaucetSafe, VerifySafe, SaveSafe
  DEF T!TestnetNext

THEOREM TestnetAlways == T!TestnetSpec => []TestnetInv
BY TestnetStarts, TestnetSteps, PTL DEF T!TestnetSpec

\* What everyone holds cannot come to 200 without everyone's share: the shares
\* are even numbers of units, the faucet's is one.
LEMMA MintExact == TestnetInv => T!SharesExact
<1>. SUFFICES ASSUME TestnetInv
              PROVE  T!SharesExact
  OBVIOUS
<1>1. \A to \in DOMAIN T!VLT_ALLOCATION : shares[to] \in {0, T!VLT_ALLOCATION[to]}
  BY AllotmentIs DEF TestnetInv, MintInv, SharesInv
<1>2. ASSUME said = "correct"
      PROVE  Full
  <2>1. supply = 200
    BY <1>2 DEF TestnetInv, MintInv, VerifiedInv
  <2>2. PICK o, t, r, d, a, b, f :
          /\ o = shares["oracle_rewards"] /\ t = shares["team"] /\ r = shares["treasury"]
          /\ d = shares["dex_liquidity"] /\ a = shares["airdrop"] /\ b = shares["bug_bounty"]
          /\ f = shares["faucet"]
    OBVIOUS
  <2>3. /\ o \in {0, 120} /\ t \in {0, 30} /\ r \in {0, 24} /\ d \in {0, 20}
        /\ a \in {0, 4} /\ b \in {0, 2} /\ f \in {0, 1}
    BY <2>2, AllotmentIs DEF TestnetInv, MintInv, SharesInv, Everyone
  <2>4. o + t + r + d + a + b + f = 200
    BY <2>1, <2>2 DEF TestnetInv, MintInv, SharesInv
  <2>5. o = 120 /\ t = 30 /\ r = 24 /\ d = 20 /\ a = 4 /\ b = 2
    BY <2>3, <2>4
  <2>6. /\ shares["oracle_rewards"] = T!VLT_ALLOCATION["oracle_rewards"]
        /\ shares["team"] = T!VLT_ALLOCATION["team"]
        /\ shares["treasury"] = T!VLT_ALLOCATION["treasury"]
        /\ shares["dex_liquidity"] = T!VLT_ALLOCATION["dex_liquidity"]
        /\ shares["airdrop"] = T!VLT_ALLOCATION["airdrop"]
        /\ shares["bug_bounty"] = T!VLT_ALLOCATION["bug_bounty"]
    BY <2>2, <2>5, AllotmentIs
  <2>. QED
    BY <2>6 DEF Full, Everyone
<1>. QED
  BY <1>1, <1>2, AllotmentIs DEF T!SharesExact, Full

-----------------------------------------------------------------------------
\* Whatever died, was run again or was left behind on the chain, a deployment
\* that got through is wired to the contracts its file names; and one by the
\* testnet script that warned of nothing has made every setting.
\* deploy_v12.py:62-110, deploy_testnet.py:446-470.
THEOREM WiredAlways == DeploySpec /\ T!TestnetSpec => []DeploymentsWired
<1>1. GuideInv /\ TestnetInv => DeploymentsWired
  BY GuideWired DEF DeploymentsWired, TestnetInv
<1>. QED
  BY <1>1, GuideAlways, TestnetAlways, PTL

\* What must happen once happens once, except where a process died between the
\* block and the file; nobody is minted more than their share, and a verification
\* that calls the supply correct is right about everyone.
\* deploy_v12.py:95-110, deploy_testnet.py distribute_vlt.
THEOREM OnceAlways == DeploySpec /\ T!TestnetSpec => []OnceOnly
<1>1. GuideInv /\ TestnetInv => OnceOnly
  BY GuideOnce, MintExact DEF OnceOnly
<1>. QED
  BY <1>1, GuideAlways, TestnetAlways, PTL
=============================================================================

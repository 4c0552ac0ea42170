----------------------------- MODULE ConsoleProofs -----------------------------
(***************************************************************************)
(* What holds of the consoles and of the SDK's command line, for any       *)
(* number of them, any number of retries and any settings: an operation    *)
(* reaches the chain once, its user is told what became of it, and the     *)
(* files the consoles share keep what each of them wrote.                  *)
(***************************************************************************)
EXTENDS Services, FiniteSetTheorems, SequenceTheorems, TLAPS

-----------------------------------------------------------------------------
(* An operation of a console.  From "catchup" to "save" it has an ask of   *)
(* its own; from "broadcast" on also a transaction of its own.             *)

Fields ==
  {"pc", "screen", "map", "reads", "op", "ask", "posts", "tries", "nonce", "tx", "says",
   "file", "then"}
Asking == {"catchup", "build"}
Placed == {"broadcast", "advance", "wait", "verify", "load", "save"}
Working == Asking \cup Placed
Believed == {"confirmed", "pending"}

\* the chain: transactions in order, the first of them in blocks
ChainInv ==
  /\ \E X : sent \in Seq(X)
  /\ fate \in Seq({"pool", "ok", "reverted"}) /\ Len(fate) = Len(sent)
  /\ \E k \in 0..Len(fate) : \A i \in 1..Len(fate) : fate[i] = "pool" <=> i > k
  /\ \A i \in 1..Len(sent) : sent[i].ask \in 1..asks
  /\ OnceUnlessLost

\* a console, whose memory is r
Cell(r) ==
  /\ DOMAIN r = Fields
  /\ r.pc \in Working => r.ask \in 1..asks /\ \A t \in told : t.ask # r.ask
  /\ r.pc \in Asking => \A i \in 1..Len(sent) : sent[i].ask = r.ask => r.ask \in lost
  /\ r.pc \in Placed => r.tx \in 1..Len(sent) /\ sent[r.tx].ask = r.ask
  /\ r.pc = "verify" => fate[r.tx] # "pool"
  /\ r.pc \in {"load", "save"} => r.says \in Believed /\ (r.ask \in late \/ fate[r.tx] = "ok")
  /\ r.pc = "save" => MayOverlap \/ r.file = history

\* what a user was told
Answer(t) ==
  /\ t.ask \in 1..asks
  /\ t.says \in Believed =>
       /\ t.tx \in 1..Len(sent) /\ sent[t.tx].ask = t.ask
       /\ t.ask \in late \/ fate[t.tx] = "ok"
  /\ t.says = "reverted" => t.tx \in 1..Len(sent) /\ fate[t.tx] = "reverted"
  /\ t.says = "rejected" => \A i \in 1..Len(sent) : sent[i].ask = t.ask => t.ask \in lost

\* no two consoles share an ask, or write the history together
Apart ==
  \A c, d \in Consoles : c # d =>
    /\ con[c].pc \in Working /\ con[d].pc \in Working => con[c].ask # con[d].ask
    /\ con[c].pc = "save" /\ con[d].pc = "save" => MayOverlap

Lines == [seq : Nat, tx : Nat]

\* the history, where no two consoles write it together
BookInv == ~MayOverlap => history \in Seq(Lines) /\ HistoryKept

ConsoleInv ==
  /\ asks \in Nat /\ ChainInv
  /\ DOMAIN con = Consoles /\ (\A c \in Consoles : Cell(con[c])) /\ Apart
  /\ \A t \in told : Answer(t)
  /\ BookInv

-----------------------------------------------------------------------------
(* The steps of a console, by what they change. *)

\* The chain after a step of console c: as it was, or longer by a transaction of c.
Grows(c) ==
  /\ ChainInv' /\ Len(sent) \in Nat /\ Len(sent') \in Nat /\ Len(sent) <= Len(sent')
  /\ \A i \in 1..Len(sent) : sent'[i] = sent[i] /\ fate'[i] = fate[i]
  /\ \A i \in 1..Len(sent') : i > Len(sent) => sent'[i].ask = con[c].ask
  /\ lost \subseteq lost' /\ late \subseteq late'

\* The console takes a step of an operation, or gives it up.
LEMMA MoveStep ==
  ASSUME ConsoleInv, NEW c \in Consoles, NEW r, con' = [con EXCEPT ![c] = r],
         Grows(c), UNCHANGED <<asks, told, history>>,
         con[c].pc \in Working \/ sent' = sent, Cell(r)',
         r.pc \in Working => con[c].pc \in Working /\ r.ask = con[c].ask,
         r.pc = "save" => MayOverlap \/ \A d \in Consoles : con[d].pc # "save"
  PROVE  ConsoleInv'
<1>1. DOMAIN con' = Consoles /\ con'[c] = r /\ \A d \in Consoles : d # c => con'[d] = con[d]
  BY DEF ConsoleInv
<1>2. \A i \in 1..Len(sent') : i > Len(sent) => sent'[i].ask = con[c].ask /\ con[c].pc \in Working
  BY DEF Grows
<1>3. ASSUME NEW d \in Consoles, d # c
      PROVE  Cell(con[d])'
  <2>1. con'[d] = con[d] /\ Cell(con[d]) /\ DOMAIN con[d] = Fields
    BY <1>1, <1>3 DEF ConsoleInv, Cell
  <2>2. con[d].pc \in Working /\ con[c].pc \in Working => con[d].ask # con[c].ask
    BY <1>3 DEF ConsoleInv, Apart
  <2>3. con[d].pc \in Asking =>
          \A i \in 1..Len(sent') : sent'[i].ask = con[d].ask => con[d].ask \in lost'
    BY <1>2, <2>1, <2>2 DEF Grows, Cell, Working
  <2>4. con[d].pc \in Placed =>
          con[d].tx \in 1..Len(sent') /\ con[d].tx \in 1..Len(sent) /\ sent'[con[d].tx].ask = con[d].ask
    BY <2>1 DEF Grows, Cell
  <2>5. con[d].pc \in Placed => fate'[con[d].tx] = fate[con[d].tx]
    BY <2>4 DEF Grows
  <2>. QED
    BY <2>1, <2>3, <2>4, <2>5 DEF Grows, Cell, Placed
<1>4. Apart'
  BY <1>1 DEF ConsoleInv, Apart
<1>5. ASSUME NEW t \in told
      PROVE  Answer(t)'
  <2>1. Answer(t)
    BY <1>5 DEF ConsoleInv
  <2>2. con[c].pc \in Working => t.ask # con[c].ask
    BY <1>5 DEF ConsoleInv, Cell
  <2>. QED
    BY <1>2, <2>1, <2>2 DEF Grows, Answer
<1>6. BookInv'
  BY DEF ConsoleInv, BookInv, HistoryKept, Shown
<1>. QED
  BY <1>1, <1>3, <1>4, <1>5, <1>6 DEF ConsoleInv, Grows

\* The operation ends and its user is told, but nothing is written of it.
LEMMA TellStep ==
  ASSUME ConsoleInv, NEW c \in Consoles, NEW r, con' = [con EXCEPT ![c] = r],
         Grows(c), UNCHANGED <<asks, history>>,
         con[c].pc \in Working, DOMAIN r = Fields, r.pc \notin Working,
         NEW t, told' = told \cup {t}, t.ask = con[c].ask, t.says \notin Believed, Answer(t)'
  PROVE  ConsoleInv'
<1>1. DOMAIN con' = Consoles /\ con'[c] = r /\ \A d \in Consoles : d # c => con'[d] = con[d]
  BY DEF ConsoleInv
<1>2. Cell(con[c])'
  BY <1>1 DEF Cell, Working, Asking, Placed
<1>3. ASSUME NEW d \in Consoles, d # c
      PROVE  Cell(con[d])'
  <2>1. con'[d] = con[d] /\ Cell(con[d]) /\ DOMAIN con[d] = Fields
    BY <1>1, <1>3 DEF ConsoleInv, Cell
  <2>2. con[d].pc \in Working => con[d].ask # con[c].ask
    BY <1>3 DEF ConsoleInv, Apart
  <2>3. con[d].pc \in Asking =>
          \A i \in 1..Len(sent') : sent'[i].ask = con[d].ask => con[d].ask \in lost'
    BY <2>1, <2>2 DEF Grows, Cell, Working
  <2>4. con[d].pc \in Placed =>
          con[d].tx \in 1..Len(sent') /\ con[d].tx \in 1..Len(sent) /\ sent'[con[d].tx].ask = con[d].ask
    BY <2>1 DEF Grows, Cell
  <2>5. con[d].pc \in Placed => fate'[con[d].tx] = fate[con[d].tx]
    BY <2>4 DEF Grows
  <2>. QED
    BY <2>1, <2>2, <2>3, <2>4, <2>5 DEF Grows, Cell, Placed
<1>4. Apart'
  BY <1>1 DEF ConsoleInv, Apart, Working, Placed, Asking
<1>5. ASSUME NEW u \in told
      PROVE  Answer(u)'
  <2>1. Answer(u)
    BY <1>5 DEF ConsoleInv
  <2>2. u.ask # con[c].ask
    BY <1>5 DEF ConsoleInv, Cell
  <2>. QED
    BY <2>1, <2>2 DEF Grows, Answer
<1>6. BookInv'
  <2>1. Shown' = Shown
    BY DEF Shown, Believed
  <2>. QED
    BY <2>1 DEF ConsoleInv, BookInv, HistoryKept
<1>. QED
  BY <1>1, <1>2, <1>3, <1>4, <1>5, <1>6 DEF ConsoleInv, Grows

LEMMA GrowsSame ==
  ASSUME ConsoleInv, NEW c \in Consoles, UNCHANGED <<sent, fate, asks>>,
         lost \subseteq lost', late \subseteq late'
  PROVE  Grows(c)
<1>1. Len(sent) \in Nat /\ DOMAIN sent = 1..Len(sent)
  BY DEF ConsoleInv, ChainInv
<1>2. ChainInv'
  BY DEF ConsoleInv, ChainInv, OnceUnlessLost
<1>. QED
  BY <1>1, <1>2 DEF Grows

LEMMA AppendAny ==
  ASSUME NEW X, NEW s \in Seq(X), NEW e
  PROVE  /\ Append(s, e) \in Seq(X \cup {e}) /\ Len(s) \in Nat
         /\ Len(Append(s, e)) = Len(s) + 1
         /\ \A i \in 1..Len(s) : Append(s, e)[i] = s[i]
         /\ Append(s, e)[Len(s) + 1] = e
<1>1. s \in Seq(X \cup {e})
  OBVIOUS
<1>. QED
  BY <1>1, AppendProperties

\* The daemon takes a transaction of the console.
LEMMA GrowsAccepted ==
  ASSUME ConsoleInv, NEW c \in Consoles, con[c].pc = "build", Accepted(c), UNCHANGED asks,
         lost \subseteq lost', late \subseteq late'
  PROVE  Grows(c) /\ Len(sent') = Len(sent) + 1 /\ sent'[Len(sent) + 1].ask = con[c].ask
<1>1. PICK X : sent \in Seq(X)
  BY DEF ConsoleInv, ChainInv
<1>2. PICK e : sent' = Append(sent, e) /\ e.ask = con[c].ask
  BY DEF Accepted
<1>3. /\ sent' \in Seq(X \cup {e}) /\ Len(sent) \in Nat /\ Len(sent') = Len(sent) + 1
      /\ (\A i \in 1..Len(sent) : sent'[i] = sent[i]) /\ sent'[Len(sent) + 1] = e
  BY <1>1, <1>2, AppendAny
<1>4. PICK n : n = Len(sent)
  OBVIOUS
<1>5. PICK F : F = {"pool", "ok", "reverted"}
  OBVIOUS
<1>6. PICK p : p = "pool"
  OBVIOUS
<1>7. fate \in Seq(F) /\ p \in F /\ fate' = Append(fate, p) /\ Len(fate) = n
  BY <1>4, <1>5, <1>6 DEF Accepted, ConsoleInv, ChainInv
<1>8. /\ fate' \in Seq(F) /\ Len(fate') = n + 1
      /\ (\A i \in 1..n : fate'[i] = fate[i]) /\ fate'[n + 1] = p
  BY <1>7, AppendProperties
<1>9. con[c].ask \in 1..asks /\ \A i \in 1..n : sent[i].ask = con[c].ask => con[c].ask \in lost
  BY <1>4 DEF ConsoleInv, Cell, Working, Asking
<1>10. \E k \in 0..Len(fate') : \A i \in 1..Len(fate') : fate'[i] = "pool" <=> i > k
  <2>1. PICK k \in 0..n : \A i \in 1..n : fate[i] = "pool" <=> i > k
    BY <1>7 DEF ConsoleInv, ChainInv
  <2>2. k \in 0..(n + 1) /\ \A i \in 1..(n + 1) : fate'[i] = "pool" <=> i > k
    BY <1>3, <1>4, <1>6, <1>8, <2>1
  <2>. QED
    BY <1>8, <2>2
<1>11. \A i \in 1..Len(sent') : sent'[i].ask \in 1..asks
  BY <1>2, <1>3, <1>9 DEF ConsoleInv, ChainInv
<1>12. OnceUnlessLost'
  <2>1. \A i, j \in 1..n : sent[i].ask = sent[j].ask => i = j \/ sent[i].ask \in lost
    BY <1>1, <1>4 DEF ConsoleInv, ChainInv, OnceUnlessLost
  <2>2. DOMAIN sent' = 1..(n + 1)
    BY <1>3, <1>4
  <2>. QED
    BY <1>2, <1>3, <1>4, <1>9, <2>1, <2>2 DEF OnceUnlessLost
<1>13. ChainInv'
  BY <1>3, <1>4, <1>5, <1>8, <1>10, <1>11, <1>12 DEF ChainInv
<1>14. \A i \in 1..Len(sent') : i > Len(sent) => sent'[i].ask = con[c].ask
  BY <1>2, <1>3
<1>. QED
  BY <1>2, <1>3, <1>4, <1>8, <1>13, <1>14 DEF Grows

LEMMA ToldStep ==
  ASSUME ConsoleInv, NEW c \in Consoles, con[c].pc \in Working, NEW words, Tell(c, words),
         Grows(c), UNCHANGED <<asks, history>>, words \notin Believed,
         words = "reverted" => con[c].pc \in Placed /\ fate'[con[c].tx] = "reverted",
         words = "rejected" =>
           \A i \in 1..Len(sent') : sent'[i].ask = con[c].ask => con[c].ask \in lost'
  PROVE  ConsoleInv'
<1>1. Cell(con[c]) /\ DOMAIN con[c] = Fields
  BY DEF ConsoleInv, Cell
<1>2. PICK t : t = [ask |-> con[c].ask, tx |-> con[c].tx, says |-> words]
  OBVIOUS
<1>3. PICK r : r = Quiet(IF con[c].then = "none" THEN "menu" ELSE "next",
                         con[c].screen, con[c].map, con[c].reads)
  OBVIOUS
<1>4. con' = [con EXCEPT ![c] = r] /\ told' = told \cup {t}
  BY <1>1, <1>2, <1>3 DEF ConsoleInv, Tell
<1>5. DOMAIN r = Fields /\ r.pc \notin Working
  BY <1>3 DEF Quiet, Fields, Working, Asking, Placed
<1>6. t.ask = con[c].ask /\ t.says = words /\ t.tx = con[c].tx
  BY <1>2
<1>7. con[c].pc \in Placed => con[c].tx \in 1..Len(sent')
  BY <1>1 DEF Cell, Grows
<1>8. Answer(t)'
  BY <1>1, <1>6, <1>7 DEF Answer, Cell, Grows
<1>. QED
  BY <1>1, <1>4, <1>5, <1>6, <1>8, TellStep

\* One more build, or none: then the operation was refused, or an answer lost.
LEMMA AgainStep ==
  ASSUME ConsoleInv, NEW c \in Consoles, con[c].pc = "build", Again(c),
         Grows(c), UNCHANGED <<asks, history>>,
         sent' = sent \/ con[c].ask \in lost'
  PROVE  ConsoleInv'
<1>1. /\ Cell(con[c]) /\ DOMAIN con[c] = Fields /\ con[c].pc \in Working
      /\ \A i \in 1..Len(sent') : sent'[i].ask = con[c].ask => con[c].ask \in lost'
  BY DEF ConsoleInv, Cell, Working, Asking, Grows
<1>2. CASE con' = [con EXCEPT ![c].tries = @ + 1, ![c].posts = 0] /\ UNCHANGED told
  <2>1. PICK r : r = [con[c] EXCEPT !.tries = con[c].tries + 1, !.posts = 0]
    OBVIOUS
  <2>2. con' = [con EXCEPT ![c] = r]
    BY <1>1, <1>2, <2>1 DEF ConsoleInv, Fields
  <2>3. r.pc = "build" /\ r.ask = con[c].ask /\ DOMAIN r = Fields
    BY <1>1, <2>1 DEF Fields
  <2>4. Cell(r)'
    BY <1>1, <1>2, <2>3 DEF Cell, Asking, Placed, Working
  <2>. QED
    BY <1>1, <1>2, <2>2, <2>3, <2>4, MoveStep
<1>3. CASE Tell(c, "rejected")
  BY <1>1, <1>3, ToldStep DEF Believed
<1>. QED
  BY <1>2, <1>3 DEF Again

LEMMA StartStep ==
  ASSUME ConsoleInv, NEW c \in Consoles, NEW op, NEW then, Start(c, op, then),
         con[c].pc \notin Working, UNCHANGED <<Chain, history, lost, late>>
  PROVE  ConsoleInv'
<1>1. /\ asks \in Nat /\ asks' = asks + 1 /\ UNCHANGED <<sent, fate, history, lost, late>>
      /\ DOMAIN con = Consoles /\ DOMAIN con[c] = Fields
  BY DEF ConsoleInv, Cell, Start, Chain
<1>2. 1..asks \subseteq 1..asks' /\ asks' \in 1..asks' /\ asks' \notin 1..asks
  BY <1>1
<1>3. ChainInv'
  BY <1>1, <1>2 DEF ConsoleInv, ChainInv, OnceUnlessLost
<1>4. ASSUME NEW t \in told
      PROVE  Answer(t)' /\ t.ask # asks'
  <2>1. Answer(t)
    BY <1>4 DEF ConsoleInv
  <2>. QED
    BY <1>1, <1>2, <2>1 DEF Answer
<1>5. ASSUME told' = told \/ \E t : told' = told \cup {t} /\ t.ask = asks',
             NEW d \in Consoles, con'[d] = con[d]
      PROVE  Cell(con[d])'
  <2>1. Cell(con[d])
    BY DEF ConsoleInv
  <2>2. con[d].pc \in Working => con[d].ask \in 1..asks' /\ con[d].ask # asks'
    BY <1>2, <2>1 DEF Cell
  <2>. QED
    BY <1>1, <1>5, <2>1, <2>2 DEF Cell
<1>6. CASE op \in Unbuildable
  <2>1. PICK t : t = [ask |-> asks + 1, tx |-> 0, says |-> "rejected"]
    OBVIOUS
  <2>2. told' = told \cup {t} /\ con' = con
    BY <1>6, <2>1 DEF Start
  <2>3. t.ask = asks' /\ t.says = "rejected"
    BY <1>1, <2>1
  <2>4. \A i \in 1..Len(sent) : sent[i].ask # asks'
    BY <1>2 DEF ConsoleInv, ChainInv
  <2>5. Answer(t)'
    BY <1>1, <1>2, <2>3, <2>4 DEF Answer, Believed
  <2>6. Shown' = Shown
    BY <2>2, <2>3 DEF Shown
  <2>7. BookInv' /\ Apart'
    BY <1>1, <2>2, <2>6 DEF ConsoleInv, BookInv, HistoryKept, Apart
  <2>. QED
    BY <1>1, <1>3, <1>4, <1>5, <2>2, <2>3, <2>5, <2>7 DEF ConsoleInv
<1>7. CASE op \notin Unbuildable
  <2>1. PICK r : r = [con[c] EXCEPT !.pc = "catchup", !.op = op, !.ask = asks + 1, !.then = then]
    OBVIOUS
  <2>2. con' = [con EXCEPT ![c] = r] /\ told' = told
    BY <1>1, <1>7, <2>1 DEF Start
  <2>3. DOMAIN r = Fields /\ r.pc = "catchup" /\ r.ask = asks'
    BY <1>1, <2>1 DEF Fields
  <2>4. con'[c] = r /\ DOMAIN con' = Consoles /\ \A d \in Consoles : d # c => con'[d] = con[d]
    BY <1>1, <2>2
  <2>5. Cell(r)'
    <3>1. \A i \in 1..Len(sent) : sent[i].ask # asks'
      BY <1>2 DEF ConsoleInv, ChainInv
    <3>. QED
      BY <1>1, <1>2, <1>4, <2>2, <2>3, <3>1 DEF Cell, Working, Asking, Placed
  <2>6. \A d \in Consoles : con[d].pc \in Working => con[d].ask # asks'
    BY <1>2 DEF ConsoleInv, Cell
  <2>7. Apart'
    BY <2>3, <2>4, <2>6 DEF ConsoleInv, Apart
  <2>8. BookInv'
    BY <1>1, <2>2 DEF ConsoleInv, BookInv, HistoryKept, Shown
  <2>. QED
    BY <1>1, <1>3, <1>4, <1>5, <2>2, <2>4, <2>5, <2>7, <2>8 DEF ConsoleInv
<1>. QED
  BY <1>6, <1>7

\* Steps that leave the chain and what was told as they are.
LEMMA PlainStep ==
  ASSUME ConsoleInv, NEW c \in Consoles, NEW r, con' = [con EXCEPT ![c] = r],
         UNCHANGED <<sent, fate, asks, told, history, lost>>, late \subseteq late', Cell(r)',
         r.pc \in Working => con[c].pc \in Working /\ r.ask = con[c].ask,
         r.pc = "save" => MayOverlap \/ \A d \in Consoles : con[d].pc # "save"
  PROVE  ConsoleInv'
<1>1. Grows(c)
  BY GrowsSame
<1>. QED
  BY <1>1, MoveStep

\* The console and its user between two operations.
LEMMA MenuStep ==
  ASSUME ConsoleInv, NEW c \in Consoles, Enter(c) \/ Leave(c) \/ Choose(c) \/ FollowUp(c)
  PROVE  ConsoleInv'
<1>0. DOMAIN con = Consoles /\ DOMAIN con[c] = Fields
  BY DEF ConsoleInv, Cell
<1>1. ASSUME NEW r, con' = [con EXCEPT ![c] = r], DOMAIN r = Fields, r.pc \in {"main", "menu"},
             UNCHANGED <<sent, fate, asks, told, history, lost, late>>
      PROVE  ConsoleInv'
  <2>1. r.pc \notin Working /\ Cell(r)'
    BY <1>1 DEF Cell, Working, Asking, Placed
  <2>. QED
    BY <1>1, <2>1, PlainStep DEF Working, Placed
<1>2. CASE Enter(c)
  <2>1. PICK answered, place, s, m, o : con' = [con EXCEPT ![c] =
                [@ EXCEPT !.pc = s, !.screen = place, !.map = m, !.reads = o]] /\ s = "menu"
    BY <1>2 DEF Enter
  <2>2. PICK r : r = [con[c] EXCEPT !.pc = s, !.screen = place, !.map = m, !.reads = o]
    OBVIOUS
  <2>3. con' = [con EXCEPT ![c] = r] /\ DOMAIN r = Fields /\ r.pc = "menu"
    BY <1>0, <2>1, <2>2 DEF Fields
  <2>. QED
    BY <1>1, <1>2, <2>3 DEF Enter, Chain, Told
<1>3. CASE Leave(c)
  <2>1. PICK r : r = AtMain
    OBVIOUS
  <2>2. con' = [con EXCEPT ![c] = r] /\ DOMAIN r = Fields /\ r.pc = "main"
    BY <1>3, <2>1 DEF Leave, AtMain, Quiet, Fields
  <2>. QED
    BY <1>1, <1>3, <2>2 DEF Leave, Chain, Told
<1>4. CASE Choose(c)
  BY <1>4, StartStep DEF Choose, Working, Asking, Placed
<1>5. CASE FollowUp(c)
  BY <1>5, StartStep DEF FollowUp, Working, Asking, Placed
<1>. QED
  BY <1>2, <1>3, <1>4, <1>5

\* The wallet is waited for, and builds.
LEMMA BuildStep ==
  ASSUME ConsoleInv, NEW c \in Consoles,
         CatchUp(c) \/ WalletGone(c) \/ Build(c) \/ BuildUnanswered(c) \/ BuildGarbled(c)
           \/ BuildRaced(c) \/ BuildRefused(c)
  PROVE  ConsoleInv'
<1>0. /\ DOMAIN con = Consoles /\ DOMAIN con[c] = Fields /\ Cell(con[c])
      /\ con[c].pc \in Asking
  BY DEF ConsoleInv, Cell, CatchUp, WalletGone, Build, BuildUnanswered, BuildGarbled,
         BuildRaced, BuildRefused, Asking
<1>a. con[c].pc \in Working
  BY <1>0 DEF Working
<1>b. UNCHANGED <<sent, fate, asks>> /\ lost \subseteq lost' /\ late \subseteq late' =>
        Grows(c) /\ \A i \in 1..Len(sent') : sent'[i].ask = con[c].ask => con[c].ask \in lost'
  BY <1>0, GrowsSame DEF Cell
<1>1. CASE CatchUp(c)
  <2>1. PICK r : r = [con[c] EXCEPT !.pc = "build"]
    OBVIOUS
  <2>2. /\ con' = [con EXCEPT ![c] = r] /\ DOMAIN r = Fields /\ r.pc = "build"
        /\ r.ask = con[c].ask /\ UNCHANGED <<sent, fate, asks, told, history, lost, late>>
    BY <1>0, <1>1, <2>1 DEF CatchUp, Goto, Fields, Chain, Told
  <2>3. Cell(r)'
    BY <1>0, <2>2 DEF Cell, Asking, Placed, Working
  <2>. QED
    BY <1>a, <2>2, <2>3, PlainStep
<1>2. CASE WalletGone(c) \/ BuildRefused(c)
  BY <1>0, <1>a, <1>b, <1>2, ToldStep DEF WalletGone, BuildRefused, Chain, Believed
<1>3. CASE Build(c)
  <2>1. PICK r : r = [con[c] EXCEPT !.pc = "broadcast", !.tx = Len(sent) + 1]
    OBVIOUS
  <2>2. /\ con' = [con EXCEPT ![c] = r] /\ DOMAIN r = Fields /\ r.pc = "broadcast"
        /\ r.ask = con[c].ask /\ r.tx = Len(sent) + 1
    BY <1>0, <1>3, <2>1 DEF Build, Fields
  <2>3. con[c].pc = "build" /\ Accepted(c) /\ UNCHANGED <<asks, told, history, lost, late>>
    BY <1>3 DEF Build, Told
  <2>4. Grows(c) /\ Len(sent') = Len(sent) + 1 /\ sent'[Len(sent) + 1].ask = con[c].ask
    BY <2>3, GrowsAccepted
  <2>5. Len(sent) + 1 \in 1..Len(sent')
    BY <2>4 DEF Grows
  <2>6. Cell(r)'
    BY <1>0, <1>a, <2>2, <2>3, <2>4, <2>5 DEF Cell, Asking, Placed, Working
  <2>. QED
    BY <1>a, <2>2, <2>3, <2>4, <2>6, MoveStep
<1>4. ASSUME con[c].pc = "build", Accepted(c) \/ UNCHANGED <<sent, fate>>,
             lost' = lost \cup {con[c].ask}, UNCHANGED <<asks, late>>
      PROVE  Grows(c)
  BY <1>4, GrowsSame, GrowsAccepted
<1>5. CASE BuildUnanswered(c)
  BY <1>4, <1>5, AgainStep DEF BuildUnanswered
<1>6. CASE BuildGarbled(c)
  <2>1. /\ con[c].pc = "build" /\ UNCHANGED <<asks, history>> /\ Grows(c) /\ con[c].ask \in lost'
    BY <1>4, <1>6 DEF BuildGarbled
  <2>2. CASE Again(c)
    BY <2>1, <2>2, AgainStep
  <2>3. CASE con' = [con EXCEPT ![c].posts = @ + 1] /\ UNCHANGED told
    <3>1. PICK r : r = [con[c] EXCEPT !.posts = con[c].posts + 1]
      OBVIOUS
    <3>2. con' = [con EXCEPT ![c] = r] /\ DOMAIN r = Fields /\ r.pc = "build" /\ r.ask = con[c].ask
      BY <1>0, <2>1, <2>3, <3>1 DEF Fields
    <3>3. Cell(r)'
      BY <1>0, <1>a, <2>1, <2>3, <3>2 DEF Cell, Asking, Placed, Working
    <3>. QED
      BY <1>a, <2>1, <2>3, <3>2, <3>3, MoveStep
  <2>. QED
    BY <1>6, <2>2, <2>3 DEF BuildGarbled
<1>7. CASE BuildRaced(c)
  BY <1>b, <1>7, AgainStep DEF BuildRaced, Chain
<1>. QED
  BY <1>1, <1>2, <1>3, <1>5, <1>6, <1>7

\* The transaction is followed to its end.
LEMMA FollowStep ==
  ASSUME ConsoleInv, NEW c \in Consoles,
         ReadNonce(c) \/ Advanced(c) \/ AdvancedMiner(c) \/ NonceUnanswered(c)
           \/ Confirm(c) \/ ConfirmUnanswered(c) \/ Verify(c) \/ Load(c)
  PROVE  ConsoleInv'
<1>0. /\ DOMAIN con = Consoles /\ DOMAIN con[c] = Fields /\ Cell(con[c])
      /\ con[c].pc \in Placed /\ UNCHANGED <<sent, fate, asks, history>>
      /\ lost \subseteq lost' /\ late \subseteq late'
  BY DEF ConsoleInv, Cell, ReadNonce, Advanced, AdvancedMiner, NonceUnanswered,
         Confirm, ConfirmUnanswered, Verify, Load, Placed, Chain, Told
<1>a. con[c].pc \in Working /\ Grows(c) /\ con[c].pc \notin Asking
  BY <1>0, GrowsSame DEF Working, Placed, Asking
<1>b. ASSUME NEW r, con' = [con EXCEPT ![c] = r], UNCHANGED <<told, lost>>,
             DOMAIN r = Fields, r.ask = con[c].ask, r.tx = con[c].tx,
             r.pc \in Placed,
             r.pc = "verify" => fate[con[c].tx] # "pool",
             r.pc \in {"load", "save"} => r.says \in Believed /\ (r.ask \in late' \/ fate[r.tx] = "ok"),
             r.pc = "save" => /\ MayOverlap \/ r.file = history
                              /\ MayOverlap \/ \A d \in Consoles : con[d].pc # "save"
      PROVE  ConsoleInv'
  <2>1. r.pc \notin Asking
    BY <1>b DEF Placed, Asking
  <2>2. Cell(r)'
    BY <1>0, <1>a, <1>b, <2>1 DEF Cell, Working
  <2>. QED
    BY <1>0, <1>a, <1>b, <2>2, PlainStep
<1>c. fate[con[c].tx] \in {"pool", "ok", "reverted"}
  BY <1>0 DEF Cell, ConsoleInv, ChainInv
<1>1. CASE ReadNonce(c)
  <2>1. PICK r : r = [con[c] EXCEPT !.pc = "advance", !.nonce = wnonce]
    OBVIOUS
  <2>2. /\ con' = [con EXCEPT ![c] = r] /\ DOMAIN r = Fields /\ r.pc = "advance"
        /\ r.ask = con[c].ask /\ r.tx = con[c].tx /\ UNCHANGED <<told, lost>>
    BY <1>0, <1>1, <2>1 DEF ReadNonce, Fields, Told
  <2>. QED
    BY <1>b, <2>2 DEF Placed
<1>2. CASE Advanced(c)
  <2>1. PICK r : r = [con[c] EXCEPT !.pc = "wait"]
    OBVIOUS
  <2>2. /\ con' = [con EXCEPT ![c] = r] /\ DOMAIN r = Fields /\ r.pc = "wait"
        /\ r.ask = con[c].ask /\ r.tx = con[c].tx /\ UNCHANGED <<told, lost>>
    BY <1>0, <1>2, <2>1 DEF Advanced, Goto, Fields, Told
  <2>. QED
    BY <1>b, <2>2 DEF Placed
<1>3. CASE AdvancedMiner(c)
  BY <1>0, <1>a, <1>3, ToldStep DEF AdvancedMiner, Believed
<1>4. CASE NonceUnanswered(c)
  BY <1>0, <1>a, <1>4, ToldStep DEF NonceUnanswered, Believed
<1>5. CASE Confirm(c)
  <2>1. PICK r : /\ con' = [con EXCEPT ![c] = r]
                 /\ \/ /\ fate[con[c].tx] # "pool" /\ r = [con[c] EXCEPT !.pc = "verify"]
                    \/ /\ con[c].ask \in late'
                       /\ r = [con[c] EXCEPT !.pc = "load", !.says = "pending"]
    <3>1. CASE fate[con[c].tx] # "pool" /\ Goto(c, "verify")
      <4>1. con' = [con EXCEPT ![c] = [con[c] EXCEPT !.pc = "verify"]]
        BY <1>0, <3>1 DEF Goto
      <4>. QED
        BY <3>1, <4>1
    <3>2. CASE /\ late' = late \cup {con[c].ask}
               /\ con' = [con EXCEPT ![c].pc = "load", ![c].says = "pending"]
      <4>1. con' = [con EXCEPT ![c] = [con[c] EXCEPT !.pc = "load", !.says = "pending"]]
        BY <1>0, <3>2 DEF Fields
      <4>. QED
        BY <3>2, <4>1
    <3>. QED
      BY <1>5, <3>1, <3>2 DEF Confirm
  <2>2. /\ DOMAIN r = Fields /\ r.ask = con[c].ask /\ r.tx = con[c].tx
        /\ \/ r.pc = "verify" /\ fate[con[c].tx] # "pool"
           \/ r.pc = "load" /\ r.says = "pending" /\ con[c].ask \in late'
    BY <1>0, <2>1 DEF Fields
  <2>3. UNCHANGED <<told, lost>>
    BY <1>5 DEF Confirm
  <2>. QED
    BY <1>b, <2>1, <2>2, <2>3 DEF Placed, Believed
<1>6. CASE ConfirmUnanswered(c)
  <2>1. PICK r : r = AtMain
    OBVIOUS
  <2>2. con' = [con EXCEPT ![c] = r] /\ DOMAIN r = Fields /\ r.pc = "main"
    BY <1>6, <2>1 DEF ConfirmUnanswered, AtMain, Quiet, Fields
  <2>3. r.pc \notin Working /\ Cell(r)' /\ r.pc # "save"
    BY <2>2 DEF Cell, Working, Asking, Placed
  <2>. QED
    BY <1>0, <1>6, <2>2, <2>3, PlainStep DEF ConfirmUnanswered, Told
<1>7. CASE Verify(c)
  <2>1. CASE fate[con[c].tx] = "reverted" /\ Tell(c, "reverted")
    BY <1>0, <1>a, <2>1, ToldStep DEF Believed
  <2>2. CASE /\ fate[con[c].tx] # "reverted" \/ con[c].ask \in late'
             /\ con' = [con EXCEPT ![c].pc = "load", ![c].says = "confirmed"]
             /\ UNCHANGED <<told, lost>>
    <3>1. PICK r : r = [con[c] EXCEPT !.pc = "load", !.says = "confirmed"]
      OBVIOUS
    <3>2. /\ con' = [con EXCEPT ![c] = r] /\ DOMAIN r = Fields /\ r.pc = "load"
          /\ r.says = "confirmed" /\ r.ask = con[c].ask /\ r.tx = con[c].tx
      BY <1>0, <2>2, <3>1 DEF Fields
    <3>3. con[c].pc = "verify"
      BY <1>7 DEF Verify
    <3>4. fate[con[c].tx] = "ok" \/ con[c].ask \in late'
      BY <1>0, <1>c, <2>2, <3>3 DEF Cell
    <3>. QED
      BY <1>b, <2>2, <3>2, <3>4 DEF Placed, Believed
  <2>. QED
    BY <1>7, <2>1, <2>2 DEF Verify
<1>8. CASE Load(c)
  <2>1. PICK r : r = [con[c] EXCEPT !.pc = "save", !.file = history]
    OBVIOUS
  <2>2. /\ con' = [con EXCEPT ![c] = r] /\ DOMAIN r = Fields /\ r.pc = "save" /\ r.file = history
        /\ r.says = con[c].says /\ r.ask = con[c].ask /\ r.tx = con[c].tx /\ UNCHANGED <<told, lost>>
    BY <1>0, <1>8, <2>1 DEF Load, Fields, Told
  <2>3. MayOverlap \/ \A d \in Consoles : con[d].pc # "save"
    BY <1>8 DEF Load
  <2>4. con[c].says \in Believed /\ (con[c].ask \in late \/ fate[con[c].tx] = "ok")
    BY <1>0, <1>8 DEF Load, Cell
  <2>. QED
    BY <1>0, <1>b, <2>2, <2>3, <2>4 DEF Placed
<1>. QED
  BY <1>1, <1>2, <1>3, <1>4, <1>5, <1>6, <1>7, <1>8

LEMMA ShownFinite ==
  ASSUME ConsoleInv
  PROVE  /\ Shown \subseteq 1..Len(sent) /\ IsFiniteSet(Shown) /\ Cardinality(Shown) \in Nat
         /\ \A c \in Consoles : con[c].pc \in Placed => con[c].tx \notin Shown
<1>1. Shown \subseteq 1..Len(sent) /\ Len(sent) \in Nat
  BY DEF ConsoleInv, ChainInv, Answer, Shown, Believed
<1>2. IsFiniteSet(1..Len(sent))
  BY <1>1, FS_Interval
<1>3. IsFiniteSet(Shown) /\ Cardinality(Shown) \in Nat
  BY <1>1, <1>2, FS_Subset, FS_CardinalityType
<1>4. ASSUME NEW c \in Consoles, con[c].pc \in Placed, con[c].tx \in Shown
      PROVE  FALSE
  <2>1. PICK t \in told : t.says \in Believed /\ t.tx = con[c].tx
    BY <1>4 DEF Shown, Believed
  <2>2. sent[con[c].tx].ask = t.ask
    BY <2>1 DEF ConsoleInv, Answer
  <2>3. sent[con[c].tx].ask = con[c].ask /\ t.ask # con[c].ask
    BY <1>4, <2>1 DEF ConsoleInv, Cell, Working
  <2>. QED
    BY <2>2, <2>3
<1>. QED
  BY <1>1, <1>3, <1>4

LEMMA MinPair ==
  ASSUME NEW a \in Nat, NEW b \in Nat
  PROVE  Min({a, b}) = IF a <= b THEN a ELSE b
<1>1. \E x \in {a, b} : \A y \in {a, b} : x <= y
  OBVIOUS
<1>. QED
  BY <1>1 DEF Min

\* A history h that shows the last of n transactions, those of T.
Kept(h, n, T) ==
  /\ Len(h) = IF n <= MAX_ENTRIES THEN n ELSE MAX_ENTRIES
  /\ h # <<>> => h[Len(h)].seq = n
  /\ \A i, j \in 1..Len(h) :
       h[i].tx \in T /\ (i < j => h[i].seq < h[j].seq /\ h[i].tx # h[j].tx)

LEMMA KeptForm ==
  ASSUME NEW h \in Seq(Lines), NEW T, NEW n \in Nat, n = Cardinality(T)
  PROVE  Kept(h, n, T) <=>
           /\ Len(h) = Min({Cardinality(T), MAX_ENTRIES})
           /\ h # <<>> => Last(h).seq = Cardinality(T)
           /\ \A i, j \in DOMAIN h :
                /\ h[i].tx \in T
                /\ i < j => h[i].seq < h[j].seq /\ h[i].tx # h[j].tx
<1>1. Min({n, MAX_ENTRIES}) = IF n <= MAX_ENTRIES THEN n ELSE MAX_ENTRIES
  BY HistoryRoom, MinPair
<1>2. DOMAIN h = 1..Len(h) /\ Last(h) = h[Len(h)]
  BY DEF Last
<1>3. PICK m : m = IF n <= MAX_ENTRIES THEN n ELSE MAX_ENTRIES
  OBVIOUS
<1>. QED
  BY <1>1, <1>2, Zenon DEF Kept

\* A line written behind the others, the oldest making room.
LEMMA LineKept ==
  ASSUME NEW n \in Nat, NEW h \in Seq(Lines), NEW T, NEW x \in Nat, x \notin T, Kept(h, n, T),
         NEW e \in Lines, e.seq = n + 1, e.tx = x, NEW all, all = Append(h, e),
         NEW g, g = IF Len(all) > MAX_ENTRIES THEN Tail(all) ELSE all
  PROVE  g \in Seq(Lines) /\ Kept(g, n + 1, T \cup {x})
<1>0. /\ Len(h) = IF n <= MAX_ENTRIES THEN n ELSE MAX_ENTRIES
      /\ h # <<>> => h[Len(h)].seq = n
      /\ \A i, j \in 1..Len(h) :
           h[i].tx \in T /\ (i < j => h[i].seq < h[j].seq /\ h[i].tx # h[j].tx)
  BY DEF Kept
<1>3. /\ all \in Seq(Lines) /\ Len(h) \in Nat /\ Len(all) = Len(h) + 1
      /\ (\A i \in 1..Len(h) : all[i] = h[i]) /\ all[Len(h) + 1] = e
  BY AppendProperties
<1>4. MAX_ENTRIES \in Nat /\ MAX_ENTRIES >= 1
  BY HistoryRoom
<1>a. \A l \in Lines : l.seq \in Nat
  BY DEF Lines
<1>5. \A i \in 1..Len(h) : h[i] \in Lines /\ h[i].seq \in Nat /\ h[i].seq <= n /\ h[i].tx # x
  <2>1. \A i \in 1..Len(h) : h[i] \in Lines
    BY <1>3
  <2>2. ASSUME NEW i \in 1..Len(h)
        PROVE  h[i].seq <= n
    <3>1. Len(h) \in 1..Len(h) /\ h[i] \in Lines /\ h[Len(h)] \in Lines
      BY <1>3, <2>1
    <3>2. h # <<>> /\ h[Len(h)].seq = n
      BY <1>0, <3>1
    <3>3. i # Len(h) => h[i].seq < h[Len(h)].seq
      BY <1>0, <1>3, <3>1
    <3>. QED
      BY <1>0, <1>a, <3>1, <3>2, <3>3
  <2>. QED
    BY <1>0, <1>a, <2>1, <2>2
<1>6. \A i, j \in 1..Len(all) :
        /\ all[i].tx \in T \cup {x}
        /\ i < j => all[i].seq < all[j].seq /\ all[i].tx # all[j].tx
  <2>1. \A i \in 1..Len(all) : i \in 1..Len(h) \/ i = Len(h) + 1
    BY <1>3
  <2>2. \A i, j \in 1..Len(all) : i < j => i \in 1..Len(h)
    BY <1>3
  <2>3. \A i \in 1..Len(h) : h[i].seq < e.seq /\ h[i].tx # e.tx
    BY <1>5
  <2>. SUFFICES ASSUME NEW i \in 1..Len(all), NEW j \in 1..Len(all)
                PROVE  /\ all[i].tx \in T \cup {x}
                       /\ i < j => all[i].seq < all[j].seq /\ all[i].tx # all[j].tx
    OBVIOUS
  <2>4. all[i].tx \in T \cup {x}
    BY <1>0, <1>3, <2>1
  <2>5. ASSUME i < j
        PROVE  all[i].seq < all[j].seq /\ all[i].tx # all[j].tx
    <3>1. i \in 1..Len(h) /\ all[i] = h[i]
      BY <1>3, <2>2, <2>5
    <3>2. CASE j \in 1..Len(h)
      BY <1>0, <1>3, <2>5, <3>1, <3>2
    <3>3. CASE j = Len(h) + 1
      BY <1>3, <2>3, <3>1, <3>3
    <3>. QED
      BY <2>1, <3>2, <3>3
  <2>. QED
    BY <2>4, <2>5
<1>7. all[Len(all)].seq = n + 1
  BY <1>3
<1>8. CASE Len(all) > MAX_ENTRIES
  <2>0. Len(all) # 0 /\ Len(<<>>) = 0
    BY <1>3
  <2>1. g = Tail(all) /\ all # <<>>
    BY <1>8, <2>0
  <2>2. /\ g \in Seq(Lines) /\ Len(g) = Len(h)
        /\ \A i \in 1..Len(g) : i + 1 \in 1..Len(all) /\ g[i] = all[i + 1]
    BY <1>3, <2>1
  <2>3. Len(h) = MAX_ENTRIES /\ ~(n + 1 <= MAX_ENTRIES)
    BY <1>0, <1>3, <1>4, <1>8
  <2>4. g[Len(g)].seq = n + 1
    BY <1>3, <1>4, <1>7, <2>2, <2>3
  <2>5. \A i, j \in 1..Len(g) :
          g[i].tx \in T \cup {x} /\ (i < j => g[i].seq < g[j].seq /\ g[i].tx # g[j].tx)
    <3>. SUFFICES ASSUME NEW i \in 1..Len(g), NEW j \in 1..Len(g)
                  PROVE  g[i].tx \in T \cup {x} /\ (i < j => g[i].seq < g[j].seq /\ g[i].tx # g[j].tx)
      OBVIOUS
    <3>1. i + 1 \in 1..Len(all) /\ g[i] = all[i + 1] /\ j + 1 \in 1..Len(all) /\ g[j] = all[j + 1]
      BY <2>2
    <3>2. PICK k, l : k = i + 1 /\ l = j + 1
      OBVIOUS
    <3>3. i < j => k < l
      BY <1>3, <2>2, <3>2
    <3>4. /\ all[k].tx \in T \cup {x}
          /\ k < l => all[k].seq < all[l].seq /\ all[k].tx # all[l].tx
      BY <1>6, <3>1, <3>2
    <3>5. g[i] = all[k] /\ g[j] = all[l]
      BY <3>1, <3>2
    <3>. QED
      BY <3>3, <3>4, <3>5, Zenon
  <2>. QED
    BY <2>2, <2>3, <2>4, <2>5 DEF Kept
<1>9. CASE ~(Len(all) > MAX_ENTRIES)
  <2>1. g = all /\ Len(g) = n + 1 /\ n + 1 <= MAX_ENTRIES
    BY <1>0, <1>3, <1>4, <1>9
  <2>. QED
    BY <1>3, <1>6, <1>7, <2>1 DEF Kept
<1>. QED
  BY <1>8, <1>9

\* The history gets its line, and the user is told.
LEMMA SaveStep ==
  ASSUME ConsoleInv, NEW c \in Consoles, SaveLine(c)
  PROVE  ConsoleInv'
<1>0. /\ DOMAIN con = Consoles /\ DOMAIN con[c] = Fields /\ Cell(con[c]) /\ con[c].pc = "save"
      /\ UNCHANGED <<sent, fate, asks, lost, late>> /\ Tell(c, con[c].says)
  BY DEF ConsoleInv, Cell, SaveLine, Chain
<1>1. PICK r : r = Quiet(IF con[c].then = "none" THEN "menu" ELSE "next",
                         con[c].screen, con[c].map, con[c].reads)
  OBVIOUS
<1>2. PICK t : t = [ask |-> con[c].ask, tx |-> con[c].tx, says |-> con[c].says]
  OBVIOUS
<1>3. con' = [con EXCEPT ![c] = r] /\ told' = told \cup {t}
  BY <1>0, <1>1, <1>2 DEF Tell
<1>4. DOMAIN r = Fields /\ r.pc \notin Working
  BY <1>1 DEF Quiet, Fields, Working, Asking, Placed
<1>5. con'[c] = r /\ DOMAIN con' = Consoles /\ \A d \in Consoles : d # c => con'[d] = con[d]
  BY <1>0, <1>3
<1>6. t.ask = con[c].ask /\ t.tx = con[c].tx /\ t.says = con[c].says
  BY <1>2
<1>7. /\ con[c].pc \in Working /\ con[c].pc \in Placed /\ con[c].says \in Believed
      /\ con[c].tx \in 1..Len(sent) /\ sent[con[c].tx].ask = con[c].ask /\ con[c].ask \in 1..asks
      /\ con[c].ask \in late \/ fate[con[c].tx] = "ok"
      /\ MayOverlap \/ con[c].file = history
  BY <1>0 DEF Cell, Working, Placed
<1>8. Answer(t)'
  BY <1>0, <1>6, <1>7 DEF Answer, Believed
<1>9. ChainInv' /\ \A u \in told : Answer(u)'
  BY <1>0 DEF ConsoleInv, ChainInv, OnceUnlessLost, Answer
<1>10. Cell(con[c])'
  BY <1>4, <1>5 DEF Cell, Working, Asking, Placed
<1>11. ASSUME NEW d \in Consoles, d # c
       PROVE  Cell(con[d])'
  <2>1. con'[d] = con[d] /\ Cell(con[d])
    BY <1>5, <1>11 DEF ConsoleInv
  <2>2. con[d].pc \in Working => con[d].ask # con[c].ask
    BY <1>7, <1>11 DEF ConsoleInv, Apart
  <2>3. con[d].pc = "save" => MayOverlap
    BY <1>0, <1>11 DEF ConsoleInv, Apart
  <2>. QED
    BY <1>0, <1>3, <1>6, <2>1, <2>2, <2>3 DEF Cell
<1>12. Apart'
  BY <1>4, <1>5 DEF ConsoleInv, Apart, Working, Placed, Asking
<1>13. BookInv'
  <2>. SUFFICES ASSUME ~MayOverlap
                PROVE  history' \in Seq(Lines) /\ HistoryKept'
    BY DEF BookInv
  <2>1. history \in Seq(Lines) /\ HistoryKept /\ con[c].file = history
    BY <1>7 DEF ConsoleInv, BookInv
  <2>2. PICK n, T, x, h : n = Cardinality(Shown) /\ T = Shown /\ x = con[c].tx /\ h = history
    OBVIOUS
  <2>3. /\ n \in Nat /\ x \in Nat /\ x \notin T /\ T \subseteq 1..Len(sent) /\ IsFiniteSet(T)
        /\ h \in Seq(Lines)
    <3>1. n \in Nat /\ T \subseteq 1..Len(sent) /\ IsFiniteSet(T)
      BY <2>2, ShownFinite
    <3>2. Len(sent) \in Nat
      BY DEF ConsoleInv, ChainInv
    <3>3. x \in Nat
      BY <1>7, <2>2, <3>2
    <3>4. x \notin T
      BY <1>7, <2>2 DEF Shown, ConsoleInv, Answer, Believed, Cell
    <3>5. h \in Seq(Lines)
      BY <2>1, <2>2
    <3>. QED
      BY <3>1, <3>3, <3>4, <3>5
  <2>4. Shown' = T \cup {x}
    BY <1>3, <1>6, <1>7, <2>2 DEF Shown, Believed
  <2>5. Cardinality(Shown') = n + 1
    BY <2>2, <2>3, <2>4, FS_AddElement
  <2>6. MAX_ENTRIES \in Nat /\ MAX_ENTRIES >= 1
    BY HistoryRoom
  <2>7. Kept(h, n, T)
    BY <2>1, <2>2, <2>3, KeptForm DEF HistoryKept
  <2>9. n + 1 = IF h = <<>> THEN 1 ELSE Last(h).seq + 1
    <3>1. h = <<>> => n = 0
      <4>1. h = <<>> => Len(h) = 0
        BY EmptySeq
      <4>. QED
        BY <2>3, <2>6, <2>7, <4>1 DEF Kept
    <3>. QED
      BY <2>7, <3>1 DEF Last, Kept
  <2>10. PICK e : e = [seq |-> n + 1, tx |-> x]
    OBVIOUS
  <2>11. e \in Lines /\ e.seq = n + 1 /\ e.tx = x
    BY <2>3, <2>10 DEF Lines
  <2>12. PICK all : all = Append(h, e)
    OBVIOUS
  <2>13. PICK g : g = IF Len(all) > MAX_ENTRIES THEN Tail(all) ELSE all
    OBVIOUS
  <2>14. ~\E i \in DOMAIN h : h[i].tx = x
    BY <2>3, <2>7 DEF Kept
  <2>15. history' = g
    <3>1. [seq |-> IF con[c].file = <<>> THEN 1 ELSE Last(con[c].file).seq + 1, tx |-> con[c].tx] = e
      BY <2>1, <2>2, <2>9, <2>10
    <3>2. history' = IF \E i \in DOMAIN h : h[i].tx = x THEN history
                     ELSE IF Len(Append(h, e)) > MAX_ENTRIES THEN Tail(Append(h, e)) ELSE Append(h, e)
      BY <2>1, <2>2, <3>1, Zenon DEF SaveLine
    <3>. QED
      BY <2>12, <2>13, <2>14, <3>2
  <2>16. g \in Seq(Lines) /\ Kept(g, n + 1, T \cup {x})
    BY <2>3, <2>7, <2>11, <2>12, <2>13, LineKept
  <2>17. PICK X : X = T \cup {x} /\ Shown' = X
    BY <2>4
  <2>18. n + 1 = Cardinality(X) /\ n + 1 \in Nat
    BY <2>3, <2>5, <2>17
  <2>19. /\ Len(g) = Min({Cardinality(X), MAX_ENTRIES})
         /\ g # <<>> => Last(g).seq = Cardinality(X)
         /\ \A i, j \in DOMAIN g :
              /\ g[i].tx \in X
              /\ i < j => g[i].seq < g[j].seq /\ g[i].tx # g[j].tx
    <3>1. Kept(g, n + 1, X) /\ g \in Seq(Lines)
      BY <2>16, <2>17
    <3>2. PICK m : m = n + 1
      OBVIOUS
    <3>3. m \in Nat /\ m = Cardinality(X) /\ Kept(g, m, X)
      BY <2>18, <3>1, <3>2
    <3>. QED
      BY <3>1, <3>3, KeptForm
  <2>. QED
    BY <2>15, <2>16, <2>17, <2>19 DEF HistoryKept, Last
<1>. QED
  BY <1>0, <1>3, <1>5, <1>8, <1>9, <1>10, <1>11, <1>12, <1>13 DEF ConsoleInv

\* A block takes the first transaction that is in none.
LEMMA MineStep ==
  ASSUME ConsoleInv, Mine
  PROVE  ConsoleInv'
<1>1. PICK n : n = Len(fate)
  OBVIOUS
<1>2. /\ n \in Nat /\ Len(sent) = n /\ fate \in Seq({"pool", "ok", "reverted"}) /\ DOMAIN fate = 1..n
  BY <1>1 DEF ConsoleInv, ChainInv
<1>3. PICK k \in 0..n : \A i \in 1..n : fate[i] = "pool" <=> i > k
  BY <1>1, <1>2 DEF ConsoleInv, ChainInv
<1>4. Mined = k
  <2>1. {i \in DOMAIN fate : fate[i] # "pool"} = 1..k
    BY <1>2, <1>3
  <2>2. Cardinality(1..k) = k
    BY <1>2, <1>3, FS_Interval
  <2>. QED
    BY <2>1, <2>2 DEF Mined
<1>5. PICK out \in {"ok", "reverted"} : fate' = [fate EXCEPT ![k + 1] = out]
  BY <1>4 DEF Mine
<1>6. k < n
  BY <1>2, <1>4 DEF Mine
<1>7. /\ fate' \in Seq({"pool", "ok", "reverted"}) /\ Len(fate') = n
      /\ \A i \in 1..n : fate'[i] = IF i = k + 1 THEN out ELSE fate[i]
  BY <1>2, <1>3, <1>5, <1>6
<1>8. \A i \in 1..n : fate[i] # "pool" => fate'[i] = fate[i]
  BY <1>2, <1>3, <1>7
<1>9. \E j \in 0..Len(fate') : \A i \in 1..Len(fate') : fate'[i] = "pool" <=> i > j
  <2>1. k + 1 \in 0..n /\ \A i \in 1..n : fate'[i] = "pool" <=> i > k + 1
    BY <1>2, <1>3, <1>5, <1>6, <1>7
  <2>. QED
    BY <1>7, <2>1
<1>10. UNCHANGED <<con, sent, history, asks, lost, late, told>>
  BY DEF Mine, Told
<1>11. ChainInv'
  BY <1>2, <1>7, <1>9, <1>10 DEF ConsoleInv, ChainInv, OnceUnlessLost
<1>12. ASSUME NEW c \in Consoles
       PROVE  Cell(con[c])'
  <2>1. Cell(con[c])
    BY DEF ConsoleInv
  <2>2. con[c].pc \in Placed => con[c].tx \in 1..n
    BY <1>2, <2>1 DEF Cell
  <2>. QED
    BY <1>8, <1>10, <2>1, <2>2 DEF Cell, Placed
<1>13. ASSUME NEW t \in told
       PROVE  Answer(t)'
  <2>1. Answer(t)
    BY <1>13 DEF ConsoleInv
  <2>. QED
    BY <1>2, <1>8, <1>10, <2>1 DEF Answer
<1>14. Apart' /\ BookInv'
  BY <1>10 DEF ConsoleInv, Apart, BookInv, HistoryKept, Shown
<1>. QED
  BY <1>10, <1>11, <1>12, <1>13, <1>14 DEF ConsoleInv

LEMMA ConsoleStep ==
  ASSUME ConsoleInv, [Next]_vars
  PROVE  ConsoleInv'
<1>1. CASE UNCHANGED <<con, sent, fate, history, asks, lost, late, told>>
  <2>1. ChainInv'
    BY <1>1 DEF ConsoleInv, ChainInv, OnceUnlessLost
  <2>2. DOMAIN con' = Consoles /\ \A c \in Consoles : Cell(con[c])'
    BY <1>1 DEF ConsoleInv, Cell
  <2>3. Apart'
    BY <1>1 DEF ConsoleInv, Apart
  <2>4. \A t \in told' : Answer(t)'
    BY <1>1 DEF ConsoleInv, Answer
  <2>5. BookInv'
    BY <1>1 DEF ConsoleInv, BookInv, HistoryKept, Shown
  <2>. QED
    BY <1>1, <2>1, <2>2, <2>3, <2>4, <2>5 DEF ConsoleInv
<1>2. CASE WalletSync \/ (\E n \in Contracts : Upgrade(n)) \/ Publish \/ UNCHANGED vars
  BY <1>1, <1>2 DEF WalletSync, Upgrade, Publish, Told, vars
<1>3. CASE \E c \in Consoles : Enter(c) \/ Leave(c) \/ Choose(c) \/ Work(c)
  BY <1>3, MenuStep, BuildStep, FollowStep, SaveStep DEF Work
<1>. QED
  BY <1>2, <1>3, MineStep DEF Next

LEMMA ConsoleStart == Init => ConsoleInv
<1>. SUFFICES ASSUME Init
              PROVE  ConsoleInv
  OBVIOUS
<1>1. /\ con = [c \in Consoles |-> AtMain] /\ sent = <<>> /\ fate = <<>> /\ history = <<>>
      /\ asks = 0 /\ told = {}
  BY DEF Init
<1>2. /\ <<>> \in Seq(Lines) /\ <<>> \in Seq({"pool", "ok", "reverted"}) /\ Len(<<>>) = 0
  BY EmptySeq
<1>3. ChainInv
  <2>1. DOMAIN sent = {} /\ Len(fate) = 0 /\ Len(sent) = 0
    BY <1>1, <1>2
  <2>2. OnceUnlessLost
    BY <2>1 DEF OnceUnlessLost
  <2>. QED
    BY <1>1, <1>2, <2>1, <2>2 DEF ChainInv
<1>4. ASSUME NEW c \in Consoles
      PROVE  Cell(con[c]) /\ con[c].pc = "main"
  BY <1>1 DEF Cell, AtMain, Quiet, Fields, Asking, Placed, Working
<1>5. Apart
  BY <1>4 DEF Apart, Working, Asking, Placed
<1>6. BookInv
  <2>1. Shown = {}
    BY <1>1 DEF Shown
  <2>2. Cardinality(Shown) = 0
    BY <2>1, FS_EmptySet
  <2>3. Min({0, MAX_ENTRIES}) = 0
    BY HistoryRoom, MinPair
  <2>4. history = <<>> /\ DOMAIN history = {} /\ Len(history) = 0
    BY <1>1, <1>2
  <2>5. HistoryKept
    BY <2>2, <2>3, <2>4 DEF HistoryKept
  <2>. QED
    BY <1>1, <1>2, <2>5 DEF BookInv
<1>. QED
  BY <1>1, <1>3, <1>4, <1>5, <1>6 DEF ConsoleInv

LEMMA ConsoleAlways == Spec => []ConsoleInv
BY ConsoleStart, ConsoleStep, PTL DEF Spec

LEMMA ConsoleTells == ConsoleInv => OnceUnlessLost /\ ToldTrue
<1>. SUFFICES ASSUME ConsoleInv
              PROVE  OnceUnlessLost /\ ToldTrue
  OBVIOUS
<1>1. OnceUnlessLost /\ DOMAIN sent = 1..Len(sent)
  BY DEF ConsoleInv, ChainInv
<1>2. ASSUME NEW t \in told
      PROVE  /\ t.says \in {"confirmed", "pending"} /\ fate[t.tx] = "reverted" => t.ask \in late
             /\ t.says = "reverted" => fate[t.tx] = "reverted"
             /\ t.says = "rejected" /\ t.ask \in {sent[i].ask : i \in DOMAIN sent} => t.ask \in lost
  BY <1>1, <1>2 DEF ConsoleInv, Answer, Believed
<1>. QED
  BY <1>1, <1>2 DEF ToldTrue

-----------------------------------------------------------------------------
(* A command of the SDK.  From "checks" to "wait" it has a run of its own. *)

Slots == {"pc", "cmd", "run", "sends", "tries", "before"}
Unsent == {"checks", "nonce", "invoke"}
Busy == Unsent \cup {"wait"}

\* the account's transactions, those in blocks, and the nonce of the wallet
AccountInv ==
  /\ \E X : mempool \in Seq(X)
  /\ mined \in Seq({"ran", "reverted"}) /\ Len(mined) <= Len(mempool)
  /\ nonce \in Nat /\ nonce <= Len(mined)
  /\ \A i \in 1..Len(mempool) : mempool[i].run \in 1..runs
  /\ J!RunOnce

\* a terminal, whose command is r
Slot(r) ==
  /\ DOMAIN r = Slots /\ r.before \in Nat
  /\ r.pc \in Busy => r.run \in 1..runs
  /\ r.pc \in Unsent => \A i \in 1..Len(mempool) : mempool[i].run = r.run => r.run \in unsure

OneEach ==
  \A t, u \in Terminals :
    t # u /\ term[t].pc \in Busy /\ term[u].pc \in Busy => term[t].run # term[u].run

CliInv ==
  /\ runs \in Nat /\ AccountInv
  /\ DOMAIN term = Terminals /\ (\A t \in Terminals : Slot(term[t])) /\ OneEach
  /\ J!ConfirmedOwn

\* The account after a step of terminal t.
Adds(t) ==
  /\ AccountInv' /\ runs' = runs /\ mined' = mined /\ unsure \subseteq unsure'
  /\ Len(mempool) \in Nat /\ Len(mempool') \in Nat /\ Len(mempool) <= Len(mempool')
  /\ \A i \in 1..Len(mempool) : mempool'[i] = mempool[i]
  /\ \A i \in 1..Len(mempool') : i > Len(mempool) => mempool'[i].run = term[t].run

\* What was confirmed stays so.
LEMMA StaysOwn ==
  ASSUME CliInv, NEW s, s \in says, s.line = "confirmed",
         Len(mempool) \in Nat, Len(mempool') \in Nat, Len(mempool) <= Len(mempool'),
         \A i \in 1..Len(mempool) : mempool'[i] = mempool[i],
         \E X : mempool' \in Seq(X), DOMAIN mined \subseteq DOMAIN mined'
  PROVE  \/ \E i \in DOMAIN mined' : mempool'[i].run = s.run
         \/ \E i \in DOMAIN mempool' : i > s.before /\ mempool'[i].run # s.run
<1>1. DOMAIN mempool = 1..Len(mempool) /\ DOMAIN mempool' = 1..Len(mempool')
  BY DEF CliInv, AccountInv
<1>2. DOMAIN mined \subseteq 1..Len(mempool)
  BY DEF CliInv, AccountInv
<1>. QED
  BY <1>1, <1>2 DEF CliInv, J!ConfirmedOwn

LEMMA CliMove ==
  ASSUME CliInv, NEW t \in Terminals, NEW r, term' = [term EXCEPT ![t] = r],
         Adds(t), Slot(r)', r.pc \in Busy => term[t].pc \in Busy /\ r.run = term[t].run,
         term[t].pc \in Busy \/ mempool' = mempool,
         \A s \in says' : s \in says \/ s.line # "confirmed"
                            \/ (\E i \in DOMAIN mined' : mempool'[i].run = s.run)
                            \/ (\E i \in DOMAIN mempool' : i > s.before /\ mempool'[i].run # s.run)
  PROVE  CliInv'
<1>1. DOMAIN term' = Terminals /\ term'[t] = r /\ \A u \in Terminals : u # t => term'[u] = term[u]
  BY DEF CliInv
<1>2. \A i \in 1..Len(mempool') : i > Len(mempool) => mempool'[i].run = term[t].run /\ term[t].pc \in Busy
  BY DEF Adds
<1>3. ASSUME NEW u \in Terminals, u # t
      PROVE  Slot(term[u])'
  <2>1. term'[u] = term[u] /\ Slot(term[u])
    BY <1>1, <1>3 DEF CliInv
  <2>2. term[u].pc \in Busy /\ term[t].pc \in Busy => term[u].run # term[t].run
    BY <1>3 DEF CliInv, OneEach
  <2>. SUFFICES ASSUME term[u].pc \in Unsent, NEW i \in 1..Len(mempool'),
                       mempool'[i].run = term[u].run
                PROVE  term[u].run \in unsure'
    BY <2>1 DEF Adds, Slot
  <2>3. CASE i \in 1..Len(mempool)
    <3>1. mempool[i].run = term[u].run
      BY <2>3 DEF Adds
    <3>. QED
      BY <2>1, <2>3, <3>1 DEF Adds, Slot
  <2>4. CASE i > Len(mempool)
    <3>1. term[u].run = term[t].run /\ term[t].pc \in Busy
      BY <1>2, <2>4
    <3>. QED
      BY <2>2, <3>1 DEF Busy, Unsent
  <2>. QED
    BY <2>3, <2>4 DEF Adds
<1>4. OneEach'
  BY <1>1 DEF CliInv, OneEach
<1>5. J!ConfirmedOwn'
  <2>1. \E X : mempool' \in Seq(X)
    BY DEF Adds, AccountInv
  <2>. QED
    BY <2>1, StaysOwn DEF Adds, J!ConfirmedOwn
<1>. QED
  BY <1>1, <1>3, <1>4, <1>5 DEF CliInv, Adds

LEMMA AddsNone ==
  ASSUME CliInv, NEW t \in Terminals, UNCHANGED <<mempool, mined, nonce, runs>>,
         unsure \subseteq unsure'
  PROVE  Adds(t)
<1>1. Len(mempool) \in Nat /\ DOMAIN mempool = 1..Len(mempool)
  BY DEF CliInv, AccountInv
<1>2. AccountInv'
  BY DEF CliInv, AccountInv, J!RunOnce
<1>. QED
  BY <1>1, <1>2 DEF Adds

LEMMA AddsOne ==
  ASSUME CliInv, NEW t \in Terminals, term[t].pc = "invoke", J!Accept(t),
         UNCHANGED <<mined, nonce, runs>>, unsure \subseteq unsure'
  PROVE  Adds(t)
<1>1. PICK X : mempool \in Seq(X)
  BY DEF CliInv, AccountInv
<1>2. PICK e : mempool' = Append(mempool, e) /\ e.run = term[t].run
  BY DEF J!Accept
<1>3. /\ mempool' \in Seq(X \cup {e}) /\ Len(mempool) \in Nat /\ Len(mempool') = Len(mempool) + 1
      /\ (\A i \in 1..Len(mempool) : mempool'[i] = mempool[i]) /\ mempool'[Len(mempool) + 1] = e
  BY <1>1, <1>2, AppendAny
<1>4. /\ term[t].run \in 1..runs
      /\ \A i \in 1..Len(mempool) : mempool[i].run = term[t].run => term[t].run \in unsure
  BY DEF CliInv, Slot, Busy, Unsent
<1>5. J!RunOnce'
  <2>1. \A i, j \in 1..Len(mempool) :
          mempool[i].run = mempool[j].run => i = j \/ mempool[i].run \in unsure
    BY <1>1 DEF CliInv, AccountInv, J!RunOnce
  <2>2. PICK n : n = Len(mempool)
    OBVIOUS
  <2>3. DOMAIN mempool' = 1..(n + 1)
    BY <1>3, <2>2
  <2>. QED
    BY <1>2, <1>3, <1>4, <2>1, <2>2, <2>3 DEF J!RunOnce
<1>6. \A i \in 1..Len(mempool') : mempool'[i].run \in 1..runs
  BY <1>2, <1>3, <1>4 DEF CliInv, AccountInv
<1>7. Len(mined) \in Nat /\ Len(mined) <= Len(mempool')
  BY <1>3 DEF CliInv, AccountInv
<1>8. AccountInv'
  BY <1>3, <1>5, <1>6, <1>7 DEF CliInv, AccountInv
<1>9. \A i \in 1..Len(mempool') : i > Len(mempool) => mempool'[i].run = term[t].run
  BY <1>2, <1>3
<1>. QED
  BY <1>3, <1>8, <1>9 DEF Adds

\* The command ends with a line that confirms nothing, or goes on.
LEMMA CliEnd ==
  ASSUME CliInv, NEW t \in Terminals, NEW n, NEW line, line # "confirmed", J!Exit(t, n, line), Adds(t),
         term[t].pc \in Busy \/ mempool' = mempool
  PROVE  CliInv'
<1>1. PICK r : r = J!Shell
  OBVIOUS
<1>2. term' = [term EXCEPT ![t] = r] /\ says' = says \cup {[run |-> n, before |-> term[t].before, line |-> line]}
  BY <1>1 DEF J!Exit
<1>3. DOMAIN r = Slots /\ r.before = 0 /\ r.pc = "shell"
  BY <1>1 DEF J!Shell, Slots
<1>4. Slot(r)'
  BY <1>3 DEF Slot, Busy, Unsent
<1>5. \A s \in says' : s \in says \/ s.line # "confirmed"
  BY <1>2
<1>. QED
  BY <1>2, <1>3, <1>4, <1>5, CliMove DEF Busy, Unsent

LEMMA CliRetry ==
  ASSUME CliInv, NEW t \in Terminals, term[t].pc = "invoke", J!Again(t), Adds(t),
         mempool' = mempool \/ term[t].run \in unsure'
  PROVE  CliInv'
<1>1. Slot(term[t]) /\ DOMAIN term = Terminals /\ term[t].pc \in Busy
  BY DEF CliInv, Busy, Unsent
<1>2. CASE term' = [term EXCEPT ![t].tries = @ + 1] /\ UNCHANGED says
  <2>1. PICK r : r = [term[t] EXCEPT !.tries = term[t].tries + 1]
    OBVIOUS
  <2>2. /\ term' = [term EXCEPT ![t] = r] /\ DOMAIN r = Slots /\ r.pc = "invoke"
        /\ r.run = term[t].run /\ r.before = term[t].before
    BY <1>1, <1>2, <2>1 DEF Slot, Slots
  <2>3. Slot(r)'
    BY <1>1, <2>2 DEF Slot, Adds, Busy, Unsent
  <2>. QED
    BY <1>1, <1>2, <2>2, <2>3, CliMove
<1>3. CASE J!Exit(t, term[t].run, "error")
  BY <1>1, <1>3, CliEnd
<1>. QED
  BY <1>2, <1>3 DEF J!Again

LEMMA CliStep ==
  ASSUME CliInv, [J!Next]_J!cliVars
  PROVE  CliInv'
<1>0. DOMAIN term = Terminals /\ runs \in Nat /\ \A t \in Terminals : Slot(term[t]) /\ DOMAIN term[t] = Slots
  BY DEF CliInv, Slot
<1>a. ASSUME NEW t \in Terminals, NEW r, term' = [term EXCEPT ![t] = r],
             UNCHANGED <<mempool, mined, nonce, runs, losses, unsure, says>>,
             Slot(r), r.pc \in Busy => term[t].pc \in Busy /\ r.run = term[t].run
      PROVE  CliInv'
  <2>1. Adds(t)
    BY <1>a, AddsNone
  <2>2. Slot(r)'
    BY <1>a DEF Slot
  <2>. QED
    BY <1>a, <2>1, <2>2, CliMove
<1>1. ASSUME NEW t \in Terminals, J!Type(t)
      PROVE  CliInv'
  <2>1. CASE J!Exit(t, runs + 1, "KeyError")
    <3>1. runs' = runs + 1 /\ UNCHANGED <<mempool, mined, nonce, unsure>> /\ term[t].pc = "shell"
      BY <1>1 DEF J!Type, J!Chain
    <3>2. PICK r : r = J!Shell
      OBVIOUS
    <3>3. /\ term' = [term EXCEPT ![t] = r] /\ DOMAIN r = Slots /\ r.before = 0 /\ r.pc = "shell"
          /\ says' = says \cup {[run |-> runs + 1, before |-> term[t].before, line |-> "KeyError"]}
      BY <2>1, <3>2 DEF J!Exit, J!Shell, Slots
    <3>4. \A u \in Terminals : Slot(term[u])'
      BY <1>0, <3>1, <3>3 DEF Slot, Busy, Unsent
    <3>5. OneEach'
      BY <1>0, <3>3 DEF CliInv, OneEach, Busy, Unsent
    <3>6. AccountInv'
      BY <1>0, <3>1 DEF CliInv, AccountInv, J!RunOnce
    <3>7. J!ConfirmedOwn'
      BY <3>1, <3>3 DEF CliInv, J!ConfirmedOwn
    <3>. QED
      BY <1>0, <3>1, <3>3, <3>4, <3>5, <3>6, <3>7 DEF CliInv
  <2>2. ASSUME NEW cmd, NEW broadcast,
               term' = [term EXCEPT ![t] = [J!Shell EXCEPT !.pc = "checks", !.cmd = cmd,
                                              !.run = runs + 1, !.sends = broadcast]],
               UNCHANGED says
        PROVE  CliInv'
    <3>1. runs' = runs + 1 /\ UNCHANGED <<mempool, mined, nonce, unsure>> /\ term[t].pc = "shell"
      BY <1>1 DEF J!Type, J!Chain
    <3>2. PICK r : r = [J!Shell EXCEPT !.pc = "checks", !.cmd = cmd, !.run = runs + 1, !.sends = broadcast]
      OBVIOUS
    <3>3. /\ term' = [term EXCEPT ![t] = r] /\ DOMAIN r = Slots /\ r.before = 0 /\ r.pc = "checks"
          /\ r.run = runs + 1
      BY <2>2, <3>2 DEF J!Shell, Slots
    <3>4. term'[t] = r /\ DOMAIN term' = Terminals /\ \A u \in Terminals : u # t => term'[u] = term[u]
      BY <1>0, <3>3
    <3>5. \A i \in 1..Len(mempool) : mempool[i].run # runs + 1
      BY <1>0 DEF CliInv, AccountInv
    <3>6. \A u \in Terminals : Slot(term[u])'
      BY <1>0, <3>1, <3>3, <3>4, <3>5 DEF Slot
    <3>7. OneEach'
      BY <1>0, <3>3, <3>4 DEF CliInv, OneEach, Slot
    <3>8. AccountInv'
      BY <1>0, <3>1 DEF CliInv, AccountInv, J!RunOnce
    <3>9. J!ConfirmedOwn'
      BY <2>2, <3>1 DEF CliInv, J!ConfirmedOwn
    <3>. QED
      BY <1>0, <3>1, <3>4, <3>6, <3>7, <3>8, <3>9 DEF CliInv
  <2>. QED
    BY <1>1, <2>1, <2>2 DEF J!Type
<1>2. ASSUME NEW t \in Terminals, NEW place, term[t].pc \in Busy, J!Goto(t, place),
             place \in {"checks", "nonce", "invoke"} => term[t].pc \in Unsent,
             UNCHANGED <<mempool, mined, nonce, runs, losses, unsure, says>>
      PROVE  CliInv'
  <2>1. PICK r : r = [term[t] EXCEPT !.pc = place]
    OBVIOUS
  <2>2. /\ term' = [term EXCEPT ![t] = r] /\ DOMAIN r = Slots /\ r.pc = place
        /\ r.run = term[t].run /\ r.before = term[t].before
    BY <1>0, <1>2, <2>1 DEF J!Goto, Slots
  <2>3. Slot(r)
    BY <1>0, <1>2, <2>2 DEF Slot, Unsent
  <2>. QED
    BY <1>2, <1>a, <2>2, <2>3
<1>3. ASSUME NEW t \in Terminals, NEW n, NEW line, line # "confirmed", J!Exit(t, n, line),
             UNCHANGED <<mempool, mined, nonce, runs, unsure>>
      PROVE  CliInv'
  BY <1>3, AddsNone, CliEnd
<1>4. ASSUME NEW t \in Terminals, J!Checks(t) \/ J!NonceUnanswered(t) \/ J!TimedOut(t)
      PROVE  CliInv'
  BY <1>4, <1>2, <1>3 DEF J!Checks, J!NonceUnanswered, J!TimedOut, J!Chain, J!Past, Busy, Unsent
<1>5. ASSUME NEW t \in Terminals, J!ReadNonce(t)
      PROVE  CliInv'
  <2>1. PICK r : r = [term[t] EXCEPT !.pc = "invoke", !.before = nonce]
    OBVIOUS
  <2>2. /\ term' = [term EXCEPT ![t] = r] /\ DOMAIN r = Slots /\ r.pc = "invoke"
        /\ r.run = term[t].run /\ r.before = nonce /\ term[t].pc = "nonce"
        /\ UNCHANGED <<mempool, mined, nonce, runs, losses, unsure, says>>
    BY <1>0, <1>5, <2>1 DEF J!ReadNonce, J!Chain, J!Past, Slots
  <2>3. Slot(r) /\ term[t].pc \in Busy
    BY <1>0, <2>2 DEF Slot, Busy, Unsent, CliInv, AccountInv
  <2>. QED
    BY <1>a, <2>2, <2>3
<1>6. ASSUME NEW t \in Terminals, J!Invoked(t)
      PROVE  CliInv'
  <2>1. PICK r : r = [term[t] EXCEPT !.pc = "wait"]
    OBVIOUS
  <2>2. /\ term' = [term EXCEPT ![t] = r] /\ DOMAIN r = Slots /\ r.pc = "wait"
        /\ r.run = term[t].run /\ r.before = term[t].before /\ term[t].pc = "invoke"
        /\ UNCHANGED <<mined, nonce, runs, losses, unsure, says>>
    BY <1>0, <1>6, <2>1 DEF J!Invoked, J!Goto, J!Past, Slots
  <2>3. Adds(t)
    BY <1>6, <2>2, AddsOne DEF J!Invoked
  <2>4. Slot(r)' /\ term[t].pc \in Busy
    BY <1>0, <2>2 DEF Slot, Busy, Unsent
  <2>. QED
    BY <2>2, <2>3, <2>4, CliMove
<1>7. ASSUME NEW t \in Terminals, J!Refused(t)
      PROVE  CliInv'
  BY <1>7, AddsNone, CliRetry DEF J!Refused, J!Chain, J!Past
<1>8. ASSUME NEW t \in Terminals, J!Unanswered(t)
      PROVE  CliInv'
  <2>1. Adds(t)
    BY <1>8, AddsNone, AddsOne DEF J!Unanswered
  <2>. QED
    BY <1>8, <2>1, CliRetry DEF J!Unanswered
<1>9. ASSUME NEW t \in Terminals, J!Confirmed(t)
      PROVE  CliInv'
  <2>1. PICK r, s : r = J!Shell /\ s = [run |-> term[t].run, before |-> term[t].before, line |-> "confirmed"]
    OBVIOUS
  <2>2. /\ term' = [term EXCEPT ![t] = r] /\ says' = says \cup {s}
        /\ UNCHANGED <<mempool, mined, nonce, runs, unsure>> /\ nonce > term[t].before
    BY <1>9, <2>1 DEF J!Confirmed, J!Exit, J!Advanced, J!Chain, J!Past
  <2>3. DOMAIN r = Slots /\ r.before = 0 /\ r.pc = "shell"
    BY <2>1 DEF J!Shell, Slots
  <2>4. Slot(r)'
    BY <2>3 DEF Slot, Busy, Unsent
  <2>5. Adds(t)
    BY <2>2, AddsNone
  <2>6. \/ \E i \in DOMAIN mined' : mempool'[i].run = s.run
        \/ \E i \in DOMAIN mempool' : i > s.before /\ mempool'[i].run # s.run
    <3>1. PICK i : i = term[t].before + 1
      OBVIOUS
    <3>2. i \in DOMAIN mined /\ i \in DOMAIN mempool /\ i > term[t].before
      BY <1>0, <2>2, <3>1 DEF Slot, CliInv, AccountInv
    <3>3. s.run = term[t].run /\ s.before = term[t].before
      BY <2>1
    <3>. QED
      BY <2>2, <3>2, <3>3
  <2>7. \A q \in says' : q \in says \/ q = s
    BY <2>2
  <2>. QED
    BY <2>2, <2>3, <2>4, <2>5, <2>6, <2>7, CliMove DEF Busy, Unsent
<1>10. ASSUME NEW t \in Terminals, J!Killed(t)
       PROVE  CliInv'
  <2>1. PICK r : r = J!Shell
    OBVIOUS
  <2>2. /\ term' = [term EXCEPT ![t] = r]
        /\ UNCHANGED <<mempool, mined, nonce, runs, losses, unsure, says>>
    BY <1>10, <2>1 DEF J!Killed, J!Chain, J!Past
  <2>3. DOMAIN r = Slots /\ r.before = 0 /\ r.pc = "shell"
    BY <2>1 DEF J!Shell, Slots
  <2>4. Slot(r) /\ r.pc \notin Busy
    BY <2>3 DEF Slot, Busy, Unsent
  <2>. QED
    BY <1>a, <2>2, <2>4
<1>11. CASE J!Mine
  <2>1. PICK out \in {"ran", "reverted"} : mined' = Append(mined, out)
    BY <1>11 DEF J!Mine
  <2>2. /\ UNCHANGED <<term, mempool, nonce, runs, unsure, says>> /\ Len(mined) < Len(mempool)
    BY <1>11 DEF J!Mine, J!Past
  <2>3. /\ mined \in Seq({"ran", "reverted"}) /\ Len(mined) \in Nat /\ \E X : mempool \in Seq(X)
        /\ Len(mempool) \in Nat /\ nonce <= Len(mined)
    BY DEF CliInv, AccountInv
  <2>4. mined' \in Seq({"ran", "reverted"}) /\ Len(mined') = Len(mined) + 1
    BY <2>1, <2>3, AppendProperties
  <2>5. DOMAIN mined \subseteq DOMAIN mined'
    BY <2>3, <2>4
  <2>6. AccountInv'
    BY <2>2, <2>3, <2>4 DEF CliInv, AccountInv, J!RunOnce
  <2>7. J!ConfirmedOwn'
    BY <2>2, <2>5 DEF CliInv, J!ConfirmedOwn
  <2>. QED
    BY <2>2, <2>6, <2>7 DEF CliInv, Slot, OneEach
<1>12. CASE J!WalletSync
  <2>1. /\ UNCHANGED <<term, mempool, mined, runs, unsure, says>> /\ nonce' = Len(mined)
    BY <1>12 DEF J!WalletSync, J!Past
  <2>2. AccountInv'
    BY <2>1 DEF CliInv, AccountInv, J!RunOnce
  <2>. QED
    BY <2>1, <2>2 DEF CliInv, Slot, OneEach, J!ConfirmedOwn
<1>13. CASE UNCHANGED J!cliVars
  BY <1>13 DEF J!cliVars, CliInv, AccountInv, Slot, OneEach, J!ConfirmedOwn, J!RunOnce
<1>. QED
  BY <1>1, <1>4, <1>5, <1>6, <1>7, <1>8, <1>9, <1>10, <1>11, <1>12, <1>13 DEF J!Next, J!Work

LEMMA CliStart == J!Init => CliInv
<1>. SUFFICES ASSUME J!Init
              PROVE  CliInv
  OBVIOUS
<1>1. /\ term = [t \in Terminals |-> J!Shell] /\ mempool = <<>> /\ mined = <<>> /\ nonce = 0
      /\ runs = 0 /\ says = {}
  BY DEF J!Init
<1>2. <<>> \in Seq({"ran", "reverted"}) /\ Len(<<>>) = 0 /\ DOMAIN <<>> = {}
  BY EmptySeq
<1>3. AccountInv
  <2>1. J!RunOnce
    BY <1>1, <1>2 DEF J!RunOnce
  <2>2. Len(mempool) = 0 /\ Len(mined) = 0 /\ \E X : mempool \in Seq(X)
    BY <1>1, <1>2
  <2>. QED
    BY <1>1, <1>2, <2>1, <2>2 DEF AccountInv
<1>4. \A t \in Terminals : Slot(term[t]) /\ term[t].pc \notin Busy
  BY <1>1 DEF J!Shell, Slot, Slots, Busy, Unsent
<1>. QED
  BY <1>1, <1>3, <1>4 DEF CliInv, OneEach, J!ConfirmedOwn

(***************************************************************************)
(* However many consoles and terminals there are, how often they build,    *)
(* and whatever the wallet, the daemon and the chain do: an operation of a *)
(* console and a command of the SDK reach the chain once, unless an answer *)
(* of the wallet was lost.                                                 *)
(***************************************************************************)
THEOREM SentAtMostOnce == Spec /\ J!Spec => []SentOnce
<1>1. CliInv => J!RunOnce
  BY DEF CliInv, AccountInv
<1>. QED
  BY <1>1, ConsoleAlways, ConsoleTells, CliStart, CliStep, PTL DEF J!Spec, SentOnce

(***************************************************************************)
(* And what the user is told is what the chain did: a revert that is told  *)
(* is one, success is told of a reverted transaction only when the chain   *)
(* did not answer in time, "rejected" hides a transaction only when an     *)
(* answer was lost; and "confirmed" is a transaction of the command in a   *)
(* block, or another of the account.                                       *)
(***************************************************************************)
THEOREM ToldAlwaysRight == Spec /\ J!Spec => []ToldRight
<1>1. CliInv => J!ConfirmedOwn
  BY DEF CliInv
<1>. QED
  BY <1>1, ConsoleAlways, ConsoleTells, CliStart, CliStep, PTL DEF J!Spec, ToldRight

-----------------------------------------------------------------------------
(* The configuration file.  Of the values entered last, the open console   *)
(* holds one for each key, and so does what it writes.  The file does too, *)
(* but while it is written and in the part of the onboarding that may find *)
(* an address and save it later.                                           *)

Agree(cfg, l) == \A k \in DOMAIN l : k \in DOMAIN cfg /\ cfg[k] \in l[k]

\* a console's memory always has every shared key
Full(cfg, l) == C!Shared \subseteq DOMAIN cfg /\ Agree(cfg, l)

Onboard == {"daemon", "miner", "contracts", "services"}

\* where no console is open
Filed(f, l) == f # C!Torn /\ Agree(f, l)

\* the open console, at r with m in memory
Sitting(m, r, l, f) ==
  /\ r.at # "closed"
  /\ Full(m, l)
  /\ r.out = C!None => f # C!Torn
  /\ r.out # C!None => Full(r.out, l) /\ f = C!Torn
  /\ r.out = C!None /\ r.at \notin Onboard => Agree(f, l)

Alone(c) == \A d \in C!Processes : d # c => desk[d] = C!Closed

ConfigInv ==
  /\ DOMAIN latest \subseteq C!Shared
  /\ (\A c \in C!Processes : desk[c] = C!Closed) => Filed(config, latest)
  /\ \A c \in C!Processes :
       desk[c] # C!Closed => Alone(c) /\ Sitting(mem[c], desk[c], latest, config)

\* a saved password is the one of the wallet, w
Opens(cfg, w) == C!Has(cfg, "wallet_password") => cfg["wallet_password"] = w /\ w # 0

PasswordInv ==
  /\ made \in Nat /\ wallet \in 0..made
  /\ Opens(config, wallet)
  /\ \A c \in C!Processes : Opens(mem[c], wallet) /\ Opens(desk[c].out, wallet)

FilesInv ==
  /\ DOMAIN mem = C!Processes
  /\ DOMAIN desk = C!Processes /\ \A c \in C!Processes : DOMAIN desk[c] = {"at", "out"}
  /\ PasswordInv
  /\ ~MayOverlap => ConfigInv

\* a wallet is made where there was none
Purse == made' \in Nat /\ wallet' \in 0..made' /\ (wallet' = wallet \/ wallet = 0)

-----------------------------------------------------------------------------
(* Configurations put over one another. *)

LEMMA OverAgrees ==
  ASSUME NEW given, NEW m, NEW l, DOMAIN l \subseteq C!Shared, Full(m, l)
  PROVE  Full(C!Over(given, m), C!Over(C!Stands(given), l))
<1>. DEFINE n == C!Over(given, m)
            k == C!Over(C!Stands(given), l)
<1>1. DOMAIN n = DOMAIN given \cup DOMAIN m
  BY DEF C!Over
<1>2. DOMAIN k = (C!Shared \cap DOMAIN given) \cup DOMAIN l
  BY DEF C!Over, C!Stands
<1>3. ASSUME NEW x \in DOMAIN k
      PROVE  x \in DOMAIN n /\ n[x] \in k[x]
  <2>1. CASE x \in C!Shared /\ x \in DOMAIN given
    <3>1. n[x] = given[x]
      BY <1>1, <2>1 DEF C!Over
    <3>2. k[x] = {given[x]}
      BY <1>2, <2>1 DEF C!Over, C!Stands
    <3>. QED
      BY <1>1, <2>1, <3>1, <3>2
  <2>2. CASE ~(x \in C!Shared /\ x \in DOMAIN given)
    <3>1. x \in DOMAIN l /\ k[x] = l[x]
      BY <1>2, <2>2 DEF C!Over, C!Stands
    <3>2. x \in DOMAIN m /\ m[x] \in l[x]
      BY <3>1 DEF Full, Agree
    <3>3. x \notin DOMAIN given
      BY <2>2, <3>1
    <3>4. n[x] = m[x]
      BY <1>1, <3>2, <3>3 DEF C!Over
    <3>. QED
      BY <1>1, <3>1, <3>2, <3>4
  <2>. QED
    BY <2>1, <2>2
<1>. QED
  BY <1>1, <1>3 DEF Full, Agree

LEMMA OverOpens ==
  ASSUME NEW given, NEW m, NEW w, Opens(given, w), Opens(m, w)
  PROVE  Opens(C!Over(given, m), w)
BY DEF Opens, C!Has, C!Over

LEMMA OpensStill ==
  ASSUME NEW m, NEW w, NEW v, Opens(m, w), v = w \/ w = 0
  PROVE  Opens(m, v)
BY DEF Opens

\* What a console reads, over m, where the file agrees.
LEMMA LoadAgrees ==
  ASSUME NEW m, NEW l, DOMAIN l \subseteq C!Shared, C!Shared \subseteq DOMAIN m,
         Agree(config, l)
  PROVE  Full(C!Loaded(m), l)
<1>. DEFINE n == C!Loaded(m)
<1>1. DOMAIN n = DOMAIN m /\ \A x \in DOMAIN m \cap DOMAIN config : n[x] = config[x]
  BY DEF C!Loaded, C!Over, C!Restrict
<1>. QED
  BY <1>1 DEF Full, Agree

LEMMA LoadOpens ==
  ASSUME NEW m, NEW w, Opens(config, w), Opens(m, w)
  PROVE  Opens(C!Loaded(m), w)
BY DEF Opens, C!Has, C!Loaded, C!Over, C!Restrict

LEMMA Defaults ==
  ASSUME NEW c
  PROVE  /\ C!Shared \subseteq DOMAIN C!Default(c)
         /\ \A w : Opens(C!Default(c), w)
<1>. DEFINE m == C!Default(c)
<1>1. /\ C!Shared \subseteq DOMAIN m
      /\ DOMAIN m \subseteq C!Shared \cup {"miner_endpoint"}
  BY DEF C!Default, C!Over, C!Shared, C!NoKeys
<1>2. "wallet_password" \notin DOMAIN m
  BY <1>1 DEF C!Shared
<1>. QED
  BY <1>1, <1>2 DEF Opens, C!Has

-----------------------------------------------------------------------------
(* The steps of a console, by what they change. *)

\* g is f, but for v at c
Puts(f, g, c, v) ==
  DOMAIN g = DOMAIN f /\ g[c] = v /\ \A d \in DOMAIN f : d # c => g[d] = f[d]

\* Console c's memory becomes m, and its place r.
Moves(c, m, r) ==
  /\ Puts(mem, mem', c, m)
  /\ Puts(desk, desk', c, r) /\ DOMAIN r = {"at", "out"}
  /\ Purse /\ Opens(m, wallet') /\ Opens(r.out, wallet') /\ Opens(config', wallet')

LEMMA Move ==
  ASSUME FilesInv, NEW c \in C!Processes, NEW m, NEW r, Moves(c, m, r),
         ~MayOverlap =>
           /\ Alone(c) /\ DOMAIN latest' \subseteq C!Shared
           /\ r = C!Closed => Filed(config', latest')
           /\ r # C!Closed => Sitting(m, r, latest', config')
  PROVE  FilesInv'
<1>1. DOMAIN mem' = C!Processes /\ DOMAIN desk' = C!Processes
  BY DEF FilesInv, Moves, Puts
<1>2. mem'[c] = m /\ desk'[c] = r
  BY DEF FilesInv, Moves, Puts
<1>3. \A d \in C!Processes : d # c => mem'[d] = mem[d] /\ desk'[d] = desk[d]
  BY DEF FilesInv, Moves, Puts
<1>4. \A d \in C!Processes : DOMAIN desk'[d] = {"at", "out"}
  BY <1>2, <1>3 DEF FilesInv, Moves
<1>5. PasswordInv'
  <2>1. PICK w : w = wallet'
    OBVIOUS
  <2>2. ASSUME NEW d \in C!Processes
        PROVE  Opens(mem'[d], w) /\ Opens(desk'[d].out, w)
    <3>1. CASE d = c
      BY <1>2, <2>1, <3>1 DEF Moves
    <3>2. CASE d # c
      <4>1. Opens(mem[d], wallet) /\ Opens(desk[d].out, wallet)
        BY DEF FilesInv, PasswordInv
      <4>2. w = wallet \/ wallet = 0
        BY <2>1 DEF Moves, Purse
      <4>. QED
        BY <1>3, <3>2, <4>1, <4>2, OpensStill
    <3>. QED
      BY <3>1, <3>2
  <2>3. made' \in Nat /\ wallet' \in 0..made' /\ Opens(config', w)
    BY <2>1 DEF Moves, Purse
  <2>. QED
    BY <2>1, <2>2, <2>3 DEF PasswordInv, Opens, C!Has
<1>6. ASSUME ~MayOverlap
      PROVE  ConfigInv'
  <2>1. Alone(c)
    BY <1>6
  <2>2. \A d \in C!Processes : d # c => desk'[d] = C!Closed
    BY <1>3, <2>1 DEF Alone
  <2>3. Alone(c)'
    BY <2>2 DEF Alone, C!Closed, C!Processes
  <2>4. (\A d \in C!Processes : desk'[d] = C!Closed) => Filed(config', latest')
    BY <1>2, <1>6
  <2>5. desk'[c] # C!Closed => Sitting(mem'[c], desk'[c], latest', config')
    BY <1>2, <1>6
  <2>6. DOMAIN latest' \subseteq C!Shared
    BY <1>6
  <2>. QED
    BY <2>2, <2>3, <2>4, <2>5, <2>6
    DEF ConfigInv, Filed, Sitting, Full, Agree, C!Processes, C!Closed, C!Torn, C!None, C!Shared
<1>. QED
  BY <1>1, <1>4, <1>5, <1>6 DEF FilesInv, C!Processes

LEMMA WhoSits ==
  ASSUME FilesInv, ~MayOverlap, NEW c \in C!Processes, desk[c].at # "closed"
  PROVE  /\ Alone(c) /\ DOMAIN latest \subseteq C!Shared
         /\ Sitting(mem[c], desk[c], latest, config)
BY DEF FilesInv, ConfigInv, C!Closed

\* A console at rest that goes on, with nothing kept.
LEMMA SkipStep ==
  ASSUME FilesInv, NEW c \in C!Processes, NEW at, NEW next, C!At(c, at), C!Skip(c, next), Purse,
         at # "closed", next # "closed", at \in Onboard => next \in Onboard
  PROVE  FilesInv'
<1>. PICK m : m = mem[c]
  OBVIOUS
<1>. PICK r : r = [desk[c] EXCEPT !.at = next]
  OBVIOUS
<1>1. DOMAIN r = {"at", "out"} /\ r.at = next /\ r.out = C!None
  BY DEF FilesInv, C!At
<1>2. Puts(mem, mem', c, m) /\ Puts(desk, desk', c, r)
  BY DEF C!Skip, FilesInv, Puts
<1>3. Opens(m, wallet') /\ Opens(r.out, wallet') /\ Opens(config', wallet')
  <2>. PICK w : w = wallet'
    OBVIOUS
  <2>1. w = wallet \/ wallet = 0
    BY DEF Purse
  <2>2. Opens(mem[c], wallet) /\ Opens(desk[c].out, wallet) /\ Opens(config, wallet)
    BY DEF FilesInv, PasswordInv
  <2>3. Opens(m, w) /\ Opens(r.out, w) /\ Opens(config, w)
    BY <1>1, <2>1, <2>2, OpensStill DEF C!At
  <2>. QED
    BY <2>3 DEF C!Skip
<1>4. Moves(c, m, r)
  BY <1>1, <1>2, <1>3 DEF Moves
<1>5. ASSUME ~MayOverlap
      PROVE  Alone(c) /\ DOMAIN latest' \subseteq C!Shared /\ Sitting(m, r, latest', config')
  <2>1. /\ Alone(c) /\ DOMAIN latest \subseteq C!Shared
        /\ Sitting(mem[c], desk[c], latest, config)
    BY <1>5, WhoSits DEF C!At
  <2>2. latest' = latest /\ config' = config
    BY DEF C!Skip
  <2>. QED
    BY <1>1, <2>1, <2>2 DEF Sitting, C!At
<1>. QED
  BY <1>1, <1>4, <1>5, Move DEF C!Closed

LEMMA FullIsSome ==
  ASSUME NEW m, C!Shared \subseteq DOMAIN m
  PROVE  m # C!None /\ m # C!Torn
<1>1. "rpc_url" \in DOMAIN m
  BY DEF C!Shared
<1>2. DOMAIN C!None = {} /\ DOMAIN C!Torn = {"torn"}
  BY DEF C!None, C!Torn
<1>. QED
  BY <1>1, <1>2

\* A console that writes x, with m in memory.
LEMMA WriteStep ==
  ASSUME FilesInv, NEW c \in C!Processes, NEW next, NEW m, NEW x,
         desk[c].at # "closed", next # "closed",
         Puts(mem, mem', c, m), C!SaveTo(c, x, next),
         Purse, Opens(m, wallet'), Opens(x, wallet'),
         ~MayOverlap =>
           DOMAIN latest' \subseteq C!Shared /\ Full(m, latest') /\ Full(x, latest')
  PROVE  FilesInv'
<1>. PICK r : r = [desk[c] EXCEPT !.at = next, !.out = x]
  OBVIOUS
<1>1. DOMAIN r = {"at", "out"} /\ r.at = next /\ r.out = x
  BY DEF FilesInv
<1>2. Puts(desk, desk', c, r) /\ config' = C!Torn
  BY DEF C!SaveTo, FilesInv, Puts
<1>3. Opens(config', wallet')
  BY <1>2 DEF Opens, C!Has, C!Torn
<1>4. Moves(c, m, r)
  BY <1>1, <1>2, <1>3 DEF Moves
<1>5. ASSUME ~MayOverlap
      PROVE  Alone(c) /\ DOMAIN latest' \subseteq C!Shared /\ Sitting(m, r, latest', config')
  <2>1. Alone(c)
    BY <1>5, WhoSits
  <2>2. DOMAIN latest' \subseteq C!Shared /\ Full(m, latest') /\ Full(x, latest')
    BY <1>5
  <2>3. x # C!None
    BY <2>2, FullIsSome DEF Full
  <2>. QED
    BY <1>1, <1>2, <2>1, <2>2, <2>3 DEF Sitting
<1>. QED
  BY <1>1, <1>4, <1>5, Move DEF C!Closed

\* A console that keeps what it is given, and saves.
LEMMA EnterStep ==
  ASSUME FilesInv, NEW c \in C!Processes, NEW given, NEW next, NEW at,
         C!At(c, at), at # "closed", next # "closed", C!Enter(c, given, next),
         Purse, Opens(given, wallet')
  PROVE  FilesInv'
<1>. PICK m : m = C!Over(given, mem[c])
  OBVIOUS
<1>1. Puts(mem, mem', c, m) /\ mem'[c] = m
  BY DEF C!Enter, C!Keep, FilesInv, Puts
<1>2. C!SaveTo(c, m, next)
  BY <1>1 DEF C!Enter, C!SaveTo
<1>3. Opens(m, wallet')
  <2>. PICK w : w = wallet'
    OBVIOUS
  <2>1. Opens(mem[c], wallet) /\ (w = wallet \/ wallet = 0)
    BY DEF FilesInv, PasswordInv, Purse
  <2>2. PICK n : n = mem[c]
    OBVIOUS
  <2>3. Opens(n, w)
    BY <2>1, <2>2, OpensStill
  <2>4. Opens(given, w)
    OBVIOUS
  <2>5. Opens(m, w)
    BY <2>2, <2>3, <2>4, OverOpens
  <2>. QED
    BY <2>5
<1>4. ASSUME ~MayOverlap
      PROVE  DOMAIN latest' \subseteq C!Shared /\ Full(m, latest')
  <2>1. /\ DOMAIN latest \subseteq C!Shared
        /\ Sitting(mem[c], desk[c], latest, config)
    BY <1>4, WhoSits DEF C!At
  <2>2. Full(mem[c], latest)
    BY <2>1 DEF Sitting
  <2>3. PICK l : l = C!Over(C!Stands(given), latest)
    OBVIOUS
  <2>4. Full(m, l)
    BY <2>1, <2>2, <2>3, OverAgrees
  <2>5. DOMAIN l \subseteq C!Shared
    BY <2>1, <2>3 DEF C!Over, C!Stands
  <2>6. latest' = l
    BY <2>3 DEF C!Enter, C!Keep
  <2>. QED
    BY <2>4, <2>5, <2>6
<1>. QED
  BY <1>1, <1>2, <1>3, <1>4, WriteStep DEF C!At

LEMMA ResaveStep ==
  ASSUME FilesInv, NEW c \in C!Processes, NEW next, NEW at, NEW x,
         C!At(c, at), at # "closed", next # "closed",
         C!SaveTo(c, x, next), UNCHANGED <<mem, latest, wallet, made>>,
         Opens(x, wallet), ~MayOverlap => Full(x, latest)
  PROVE  FilesInv'
<1>. PICK m : m = mem[c]
  OBVIOUS
<1>1. Puts(mem, mem', c, m)
  BY DEF FilesInv, Puts
<1>2. Purse /\ Opens(m, wallet') /\ Opens(x, wallet')
  <2>1. Opens(m, wallet) /\ Opens(x, wallet)
    BY DEF FilesInv, PasswordInv
  <2>. QED
    BY <2>1 DEF FilesInv, PasswordInv, Purse
<1>3. ~MayOverlap => DOMAIN latest' \subseteq C!Shared /\ Full(m, latest') /\ Full(x, latest')
  BY WhoSits DEF C!At, Sitting
<1>. QED
  BY <1>1, <1>2, <1>3, WriteStep DEF C!At

LEMMA PurseKept ==
  ASSUME FilesInv, UNCHANGED <<wallet, made>>
  PROVE  Purse
BY DEF FilesInv, PasswordInv, Purse

\* ... without a new password.
LEMMA PublicStep ==
  ASSUME FilesInv, NEW c \in C!Processes, NEW given, NEW next, NEW at,
         C!At(c, at), at # "closed", next # "closed", C!Enter(c, given, next),
         UNCHANGED <<wallet, made>>,
         "wallet_password" \notin DOMAIN given
  PROVE  FilesInv'
<1>1. Purse /\ Opens(given, wallet')
  BY PurseKept DEF Opens, C!Has
<1>. QED
  BY <1>1, EnterStep

LEMMA IdleStep ==
  ASSUME FilesInv, NEW c \in C!Processes, NEW at, NEW next, C!At(c, at), C!Skip(c, next),
         UNCHANGED <<wallet, made>>,
         at # "closed", next # "closed", at \in Onboard => next \in Onboard
  PROVE  FilesInv'
BY PurseKept, SkipStep

-----------------------------------------------------------------------------
(* A console is opened, closed, and writes. *)

LEMMA OpenStep ==
  ASSUME FilesInv, NEW c \in C!Processes, NEW g, C!Open(c, g),
         DOMAIN g \subseteq C!Shared
  PROVE  FilesInv'
<1>. PICK n : n = C!Load(c)
  OBVIOUS
<1>. PICK m : m = C!Over(g, n)
  OBVIOUS
<1>. PICK r : r = [desk[c] EXCEPT !.at = "main"]
  OBVIOUS
<1>1. DOMAIN r = {"at", "out"} /\ r.at = "main" /\ r.out = C!None
  BY DEF FilesInv, C!At, C!Open
<1>2. Puts(mem, mem', c, m) /\ Puts(desk, desk', c, r)
  BY DEF C!Open, FilesInv, Puts
<1>3. UNCHANGED <<config, wallet, made>>
  BY DEF C!Open, C!managed
<1>4. Opens(m, wallet)
  <2>. PICK w : w = wallet
    OBVIOUS
  <2>1. Opens(config, w)
    BY DEF FilesInv, PasswordInv
  <2>2. Opens(n, w)
    BY <2>1, Defaults, LoadOpens DEF C!Load
  <2>3. Opens(g, w)
    BY DEF Opens, C!Has, C!Shared
  <2>. QED
    BY <2>2, <2>3, OverOpens
<1>5. Opens(C!None, wallet)
  BY DEF Opens, C!Has, C!None
<1>6. Moves(c, m, r)
  <2>1. Opens(config, wallet)
    BY DEF FilesInv, PasswordInv
  <2>2. Purse
    BY <1>3, PurseKept
  <2>3. Opens(m, wallet') /\ Opens(r.out, wallet') /\ Opens(config', wallet')
    BY <1>1, <1>3, <1>4, <1>5, <2>1
  <2>. QED
    BY <1>1, <1>2, <2>2, <2>3 DEF Moves
<1>7. ASSUME ~MayOverlap
      PROVE  Alone(c) /\ DOMAIN latest' \subseteq C!Shared /\ Sitting(m, r, latest', config')
  <2>1. \A d \in C!Processes : desk[d] = C!Closed
    BY <1>7 DEF C!Open
  <2>2. Filed(config, latest) /\ DOMAIN latest \subseteq C!Shared
    BY <1>7, <2>1 DEF FilesInv, ConfigInv
  <2>3. PICK l : l = latest
    OBVIOUS
  <2>4. PICK k : k = [x \in DOMAIN l |-> l[x] \cup (IF C!Has(g, x) THEN {g[x]} ELSE {})]
    OBVIOUS
  <2>5. latest' = k
    BY <2>3, <2>4 DEF C!Open
  <2>6. Full(n, l)
    <3>1. Agree(config, l)
      BY <2>2, <2>3 DEF Filed
    <3>. QED
      BY <2>2, <2>3, <3>1, Defaults, LoadAgrees DEF C!Load
  <2>7. Full(m, k)
    <3>1. DOMAIN m = DOMAIN g \cup DOMAIN n /\ DOMAIN k = DOMAIN l
      BY <2>4 DEF C!Over
    <3>2. ASSUME NEW x \in DOMAIN k
          PROVE  x \in DOMAIN m /\ m[x] \in k[x]
      <4>1. CASE x \in DOMAIN g
        <5>1. m[x] = g[x]
          BY <3>1, <4>1 DEF C!Over
        <5>2. g[x] \in k[x]
          BY <2>4, <3>1, <3>2, <4>1 DEF C!Has
        <5>. QED
          BY <3>1, <4>1, <5>1, <5>2
      <4>2. CASE x \notin DOMAIN g
        <5>1. x \in DOMAIN n /\ n[x] \in l[x]
          BY <2>6, <3>1, <3>2 DEF Full, Agree
        <5>2. m[x] = n[x]
          BY <3>1, <4>2, <5>1 DEF C!Over
        <5>3. l[x] \subseteq k[x]
          BY <2>4, <3>1, <3>2
        <5>. QED
          BY <3>1, <5>1, <5>2, <5>3
      <4>. QED
        BY <4>1, <4>2
    <3>3. C!Shared \subseteq DOMAIN m
      BY <2>6, <3>1 DEF Full
    <3>. QED
      BY <3>2, <3>3 DEF Full, Agree
  <2>8. Agree(config, k)
    BY <2>2, <2>3, <2>4 DEF Filed, Agree
  <2>9. Alone(c)
    BY <2>1 DEF Alone
  <2>10. DOMAIN k \subseteq C!Shared
    BY <2>2, <2>3, <2>4
  <2>11. Sitting(m, r, k, config)
    BY <1>1, <2>2, <2>7, <2>8 DEF Sitting, Filed
  <2>. QED
    BY <1>3, <2>5, <2>9, <2>10, <2>11
<1>. QED
  BY <1>1, <1>6, <1>7, Move DEF C!Closed

LEMMA QuitStep ==
  ASSUME FilesInv, NEW c \in C!Processes, C!Quit(c)
  PROVE  FilesInv'
<1>1. desk[c].at \in {"menu", "main"} /\ desk[c].out = C!None
  BY DEF C!Quit, C!At
<1>2. /\ Puts(mem, mem', c, C!NoKeys)
      /\ Puts(desk, desk', c, C!Closed)
  BY DEF C!Quit, FilesInv, Puts
<1>3. UNCHANGED <<config, wallet, made, latest>>
  BY DEF C!Quit, C!others, C!managed
<1>4. Moves(c, C!NoKeys, C!Closed)
  <2>1. Opens(config, wallet)
    BY DEF FilesInv, PasswordInv
  <2>2. Purse
    BY <1>3, PurseKept
  <2>3. Opens(C!NoKeys, wallet') /\ Opens(C!Closed.out, wallet') /\ Opens(config', wallet')
    BY <1>3, <2>1 DEF Opens, C!Has, C!NoKeys, C!Closed, C!None
  <2>. QED
    BY <1>2, <2>2, <2>3 DEF Moves, C!Closed
<1>5. ASSUME ~MayOverlap
      PROVE  Alone(c) /\ DOMAIN latest' \subseteq C!Shared /\ Filed(config', latest')
  <2>1. /\ Alone(c) /\ DOMAIN latest \subseteq C!Shared
        /\ Sitting(mem[c], desk[c], latest, config)
    BY <1>1, <1>5, WhoSits
  <2>. QED
    BY <1>1, <1>3, <2>1 DEF Sitting, Filed, Onboard
<1>. QED
  BY <1>4, <1>5, Move

LEMMA WrittenStep ==
  ASSUME FilesInv, NEW c \in C!Processes, C!Written(c)
  PROVE  FilesInv'
<1>. PICK m : m = mem[c]
  OBVIOUS
<1>. PICK x : x = desk[c].out
  OBVIOUS
<1>. PICK r : r = [desk[c] EXCEPT !.out = C!None]
  OBVIOUS
<1>1. DOMAIN r = {"at", "out"} /\ r.at = desk[c].at /\ r.out = C!None
  BY DEF FilesInv
<1>2. Puts(mem, mem', c, m) /\ Puts(desk, desk', c, r)
  BY DEF C!Written, FilesInv, Puts
<1>3. config' = x /\ x # C!None /\ UNCHANGED <<wallet, made, latest>>
  BY DEF C!Written, C!others, C!managed
<1>4. Moves(c, m, r)
  <2>1. Opens(m, wallet) /\ Opens(x, wallet)
    BY DEF FilesInv, PasswordInv
  <2>2. Purse
    BY <1>3, PurseKept
  <2>3. Opens(r.out, wallet)
    BY <1>1 DEF Opens, C!Has, C!None
  <2>4. Opens(m, wallet') /\ Opens(r.out, wallet') /\ Opens(config', wallet')
    BY <1>3, <2>1, <2>3
  <2>. QED
    BY <1>1, <1>2, <2>2, <2>4 DEF Moves
<1>5. ASSUME ~MayOverlap
      PROVE  /\ Alone(c) /\ DOMAIN latest' \subseteq C!Shared
             /\ r # C!Closed /\ Sitting(m, r, latest', config')
  <2>1. desk[c] # C!Closed
    BY <1>3 DEF C!Closed
  <2>2. /\ Alone(c) /\ DOMAIN latest \subseteq C!Shared
        /\ Sitting(mem[c], desk[c], latest, config)
    BY <1>5, <2>1 DEF FilesInv, ConfigInv
  <2>3. Full(x, latest) /\ Full(m, latest) /\ desk[c].at # "closed"
    BY <1>3, <2>2 DEF Sitting
  <2>4. x # C!Torn
    BY <2>3, FullIsSome DEF Full
  <2>. QED
    BY <1>1, <1>3, <2>2, <2>3, <2>4 DEF Sitting, Full, C!Closed
<1>. QED
  BY <1>4, <1>5, Move

-----------------------------------------------------------------------------
(* The onboarding, and the other screens that save. *)

LEMMA DetectedStep ==
  ASSUME FilesInv, NEW c \in C!Processes, C!Detected(c)
  PROVE  FilesInv'
<1>. PICK addr : addr = IF mem[c]["miner_address"] # C!Blank THEN mem[c]["miner_address"]
                        ELSE mem[c]["wallet_url"]
  OBVIOUS
<1>. PICK g : g = [miner_address |-> addr]
  OBVIOUS
<1>. PICK m : m = C!Over(g, mem[c])
  OBVIOUS
<1>. PICK r : r = [desk[c] EXCEPT !.at = "daemon"]
  OBVIOUS
<1>1. DOMAIN r = {"at", "out"} /\ r.at = "daemon" /\ r.out = C!None
  BY DEF FilesInv, C!At, C!Detected, C!Ensures
<1>2. C!Keep(c, g) /\ UNCHANGED <<config, wallet, made>> /\ C!At(c, "wallet")
  BY DEF C!Detected, C!Ensures, C!managed
<1>3. Puts(mem, mem', c, m) /\ Puts(desk, desk', c, r)
  BY <1>2 DEF C!Detected, C!Keep, FilesInv, Puts
<1>4. Moves(c, m, r)
  <2>. PICK n : n = mem[c]
    OBVIOUS
  <2>1. Opens(config, wallet) /\ Opens(n, wallet)
    BY DEF FilesInv, PasswordInv
  <2>2. Purse
    BY <1>2, PurseKept
  <2>3. PICK w : w = wallet
    OBVIOUS
  <2>4. Opens(g, w) /\ Opens(C!None, w)
    BY DEF Opens, C!Has, C!None
  <2>5. Opens(m, w)
    BY <2>1, <2>3, <2>4, OverOpens
  <2>6. Opens(m, wallet') /\ Opens(r.out, wallet') /\ Opens(config', wallet')
    BY <1>1, <1>2, <2>1, <2>3, <2>4, <2>5
  <2>. QED
    BY <1>1, <1>3, <2>2, <2>6 DEF Moves
<1>5. ASSUME ~MayOverlap
      PROVE  Alone(c) /\ DOMAIN latest' \subseteq C!Shared /\ Sitting(m, r, latest', config')
  <2>1. /\ Alone(c) /\ DOMAIN latest \subseteq C!Shared
        /\ Sitting(mem[c], desk[c], latest, config)
    BY <1>2, <1>5, WhoSits DEF C!At
  <2>2. PICK l : l = C!Over(C!Stands(g), latest)
    OBVIOUS
  <2>3. Full(m, l)
    BY <2>1, <2>2, OverAgrees DEF Sitting
  <2>4. DOMAIN l \subseteq C!Shared
    BY <2>1, <2>2 DEF C!Over, C!Stands
  <2>5. latest' = l
    BY <1>2, <2>2 DEF C!Keep
  <2>6. config' = config /\ config # C!Torn
    BY <1>2, <2>1 DEF Sitting, C!At
  <2>. QED
    BY <1>1, <2>1, <2>3, <2>4, <2>5, <2>6 DEF Sitting, Onboard
<1>. QED
  BY <1>1, <1>4, <1>5, Move DEF C!Closed

LEMMA ReloadStep ==
  ASSUME FilesInv, NEW c \in C!Processes, C!Reload(c)
  PROVE  FilesInv'
<1>. PICK n : n = mem[c]
  OBVIOUS
<1>. PICK m : m = C!Loaded(n)
  OBVIOUS
<1>. PICK r : r = [desk[c] EXCEPT !.at = "main"]
  OBVIOUS
<1>1. DOMAIN r = {"at", "out"} /\ r.at = "main" /\ r.out = C!None
  BY DEF FilesInv, C!At, C!Reload
<1>2. UNCHANGED <<config, wallet, made, latest>>
  BY DEF C!Reload, C!others, C!managed
<1>3. Puts(mem, mem', c, m) /\ Puts(desk, desk', c, r)
  BY DEF C!Reload, FilesInv, Puts
<1>4. Moves(c, m, r)
  <2>. PICK w : w = wallet
    OBVIOUS
  <2>1. Opens(config, w) /\ Opens(n, w)
    BY DEF FilesInv, PasswordInv
  <2>2. Opens(m, w)
    BY <2>1, LoadOpens
  <2>3. Opens(C!None, w)
    BY DEF Opens, C!Has, C!None
  <2>4. Purse
    BY <1>2, PurseKept
  <2>5. Opens(m, wallet') /\ Opens(r.out, wallet') /\ Opens(config', wallet')
    BY <1>1, <1>2, <2>1, <2>2, <2>3
  <2>. QED
    BY <1>1, <1>3, <2>4, <2>5 DEF Moves
<1>5. ASSUME ~MayOverlap
      PROVE  Alone(c) /\ DOMAIN latest' \subseteq C!Shared /\ Sitting(m, r, latest', config')
  <2>1. desk[c].at = "reload" /\ desk[c].out = C!None
    BY DEF C!Reload, C!At
  <2>2. /\ Alone(c) /\ DOMAIN latest \subseteq C!Shared
        /\ Sitting(n, desk[c], latest, config)
    BY <1>5, <2>1, WhoSits
  <2>3. Agree(config, latest) /\ C!Shared \subseteq DOMAIN n /\ config # C!Torn
    BY <2>1, <2>2 DEF Sitting, Full, Onboard
  <2>4. PICK l : l = latest
    OBVIOUS
  <2>5. Full(m, l)
    BY <2>2, <2>3, <2>4, LoadAgrees
  <2>6. Sitting(m, r, l, config)
    BY <1>1, <2>3, <2>4, <2>5 DEF Sitting
  <2>. QED
    BY <1>2, <2>2, <2>4, <2>6
<1>. QED
  BY <1>1, <1>4, <1>5, Move DEF C!Closed

LEMMA ResetStep ==
  ASSUME FilesInv, NEW c \in C!Processes, C!ResetConfiguration(c)
  PROVE  FilesInv'
<1>. PICK m : m = C!Default(c)
  OBVIOUS
<1>. PICK r : r = [desk[c] EXCEPT !.at = "main"]
  OBVIOUS
<1>1. DOMAIN r = {"at", "out"} /\ r.at = "main" /\ r.out = C!None
  BY DEF FilesInv, C!At, C!ResetConfiguration
<1>2. /\ UNCHANGED <<wallet, made>> /\ config' = C!None /\ latest' = C!NoKeys
      /\ desk[c].at = "menu"
  BY DEF C!ResetConfiguration, C!others, C!managed, C!At
<1>3. Puts(mem, mem', c, m) /\ Puts(desk, desk', c, r)
  BY DEF C!ResetConfiguration, FilesInv, Puts
<1>4. Moves(c, m, r)
  <2>. PICK w : w = wallet
    OBVIOUS
  <2>1. Opens(m, w) /\ Opens(C!None, w)
    BY Defaults DEF Opens, C!Has, C!None
  <2>2. Purse
    BY <1>2, PurseKept
  <2>3. Opens(m, wallet') /\ Opens(r.out, wallet') /\ Opens(config', wallet')
    BY <1>1, <1>2, <2>1
  <2>. QED
    BY <1>1, <1>3, <2>2, <2>3 DEF Moves
<1>5. ASSUME ~MayOverlap
      PROVE  Alone(c) /\ DOMAIN latest' \subseteq C!Shared /\ Sitting(m, r, latest', config')
  <2>1. Alone(c)
    BY <1>2, <1>5, WhoSits
  <2>2. DOMAIN C!NoKeys = {} /\ C!None # C!Torn
    BY DEF C!NoKeys, C!None, C!Torn
  <2>3. Full(m, C!NoKeys) /\ Agree(C!None, C!NoKeys)
    BY <2>2, Defaults DEF Full, Agree
  <2>4. Sitting(m, r, C!NoKeys, C!None)
    BY <1>1, <2>2, <2>3 DEF Sitting
  <2>. QED
    BY <1>2, <2>1, <2>2, <2>4
<1>. QED
  BY <1>1, <1>4, <1>5, Move DEF C!Closed

LEMMA MinerToolsStep ==
  ASSUME FilesInv, NEW c \in C!Processes, C!MinerTools(c)
  PROVE  FilesInv'
<1>. PICK n : n = C!Load(c)
  OBVIOUS
<1>1. /\ C!At(c, "menu") /\ UNCHANGED <<mem, latest, wallet, made>>
      /\ C!SaveTo(c, C!Over(C!Started, n), "main") \/ C!SaveTo(c, n, "main")
  BY DEF C!MinerTools, C!others, C!managed
<1>. PICK w : w = wallet
  OBVIOUS
<1>. PICK l : l = latest
  OBVIOUS
<1>2. Opens(n, w)
  <2>1. Opens(config, w)
    BY DEF FilesInv, PasswordInv
  <2>. QED
    BY <2>1, Defaults, LoadOpens DEF C!Load
<1>3. ASSUME ~MayOverlap
      PROVE  DOMAIN l \subseteq C!Shared /\ Full(n, l)
  <2>1. /\ DOMAIN latest \subseteq C!Shared
        /\ Sitting(mem[c], desk[c], latest, config)
    BY <1>1, <1>3, WhoSits DEF C!At
  <2>2. Agree(config, l)
    BY <1>1, <2>1 DEF Sitting, Onboard, C!At
  <2>. QED
    BY <2>1, <2>2, Defaults, LoadAgrees DEF C!Load
<1>4. CASE C!SaveTo(c, n, "main")
  BY <1>1, <1>2, <1>3, <1>4, ResaveStep
<1>5. CASE C!SaveTo(c, C!Over(C!Started, n), "main")
  <2>. PICK x : x = C!Over(C!Started, n)
    OBVIOUS
  <2>1. Opens(x, w)
    <3>1. Opens(C!Started, w)
      BY DEF Opens, C!Has, C!Started
    <3>. QED
      BY <1>2, <3>1, OverOpens
  <2>2. ~MayOverlap => Full(x, l)
    <3>1. DOMAIN x = {"miner_binary"} \cup DOMAIN n
      BY DEF C!Over, C!Started
    <3>2. \A k \in C!Shared : k \in DOMAIN n => x[k] = n[k]
      BY DEF C!Over, C!Started, C!Shared
    <3>. QED
      BY <1>3, <3>1, <3>2 DEF Full, Agree
  <2>3. C!SaveTo(c, x, "main")
    BY <1>5
  <2>. QED
    BY <1>1, <2>1, <2>2, <2>3, ResaveStep
<1>. QED
  BY <1>1, <1>4, <1>5

LEMMA StartMinerStep ==
  ASSUME FilesInv, NEW c \in C!Processes, C!StartMiner(c)
  PROVE  FilesInv'
<1>. PICK g : g = [miner_binary |-> C!Some]
  OBVIOUS
<1>1. C!At(c, "main") /\ UNCHANGED <<wallet, made>>
  BY DEF C!StartMiner, C!others, C!managed
<1>2. DOMAIN g = {"miner_binary"}
  OBVIOUS
<1>3. CASE C!Enter(c, C!Started, "main")
  <2>1. C!Enter(c, g, "main")
    BY <1>3 DEF C!Started
  <2>. QED
    BY <1>1, <1>2, <2>1, PublicStep
<1>4. CASE mem' = [mem EXCEPT ![c] = C!Over(g, mem[c])] /\ UNCHANGED <<config, desk, latest>>
  <2>. PICK n : n = mem[c]
    OBVIOUS
  <2>. PICK m : m = C!Over(g, n)
    OBVIOUS
  <2>. PICK r : r = desk[c]
    OBVIOUS
  <2>1. DOMAIN r = {"at", "out"} /\ r.at = "main" /\ r.out = C!None
    BY <1>1 DEF FilesInv, C!At
  <2>2. Puts(mem, mem', c, m) /\ Puts(desk, desk', c, r)
    BY <1>4 DEF FilesInv, Puts
  <2>3. Moves(c, m, r)
    <3>. PICK w : w = wallet
      OBVIOUS
    <3>1. Opens(config, w) /\ Opens(n, w) /\ Opens(r.out, w)
      BY DEF FilesInv, PasswordInv
    <3>2. Opens(g, w)
      BY <1>2 DEF Opens, C!Has
    <3>3. Opens(m, w)
      BY <3>1, <3>2, OverOpens
    <3>4. Purse
      BY <1>1, PurseKept
    <3>5. Opens(m, wallet') /\ Opens(r.out, wallet') /\ Opens(config', wallet')
      BY <1>1, <1>4, <3>1, <3>3
    <3>. QED
      BY <2>1, <2>2, <3>4, <3>5 DEF Moves
  <2>4. ASSUME ~MayOverlap
        PROVE  /\ Alone(c) /\ DOMAIN latest' \subseteq C!Shared
               /\ Sitting(m, r, latest', config')
    <3>1. /\ Alone(c) /\ DOMAIN latest \subseteq C!Shared
          /\ Sitting(n, r, latest, config)
      BY <1>1, <2>4, WhoSits DEF C!At
    <3>2. PICK l : l = latest
      OBVIOUS
    <3>3. DOMAIN m = {"miner_binary"} \cup DOMAIN n
      BY <1>2 DEF C!Over
    <3>4. \A k \in C!Shared : k \in DOMAIN n => m[k] = n[k]
      BY <1>2 DEF C!Over, C!Shared
    <3>5. Full(n, l)
      BY <3>1, <3>2 DEF Sitting
    <3>6. Full(m, l)
      BY <3>1, <3>2, <3>3, <3>4, <3>5 DEF Full, Agree
    <3>7. Sitting(m, r, l, config)
      BY <3>1, <3>2, <3>6 DEF Sitting
    <3>. QED
      BY <1>4, <3>1, <3>2, <3>7
  <2>. QED
    BY <2>1, <2>3, <2>4, Move DEF C!Closed
<1>. QED
  BY <1>1, <1>3, <1>4 DEF C!StartMiner

\* The wallet's launch.
LEMMA LaunchPurse ==
  ASSUME FilesInv, C!Launch
  PROVE  Purse /\ made' # 0
<1>1. made \in Nat /\ wallet \in 0..made
  BY DEF FilesInv, PasswordInv
<1>2. made' = made + 1 /\ wallet' = IF wallet = 0 THEN made' ELSE wallet
  BY DEF C!Launch
<1>. QED
  BY <1>1, <1>2 DEF Purse

LEMMA WalletSteps ==
  ASSUME FilesInv, NEW c \in C!Processes,
         C!Connect(c) \/ C!ReadOnly(c) \/ C!NoWallet(c) \/ C!Bootstrapped(c) \/ C!NoAnswer(c)
  PROVE  FilesInv'
<1>1. CASE C!Connect(c)
  <2>1. PICK url, cred : C!Enter(c, [wallet_url |-> url, wallet_cred |-> cred,
                                     miner_address |-> url], "daemon")
    BY <1>1 DEF C!Connect
  <2>2. PICK g : g = [wallet_url |-> url, wallet_cred |-> cred, miner_address |-> url]
    OBVIOUS
  <2>3. DOMAIN g = {"wallet_url", "wallet_cred", "miner_address"}
    BY <2>2
  <2>4. C!Enter(c, g, "daemon")
    BY <2>1, <2>2
  <2>5. C!At(c, "wallet") /\ UNCHANGED <<wallet, made>>
    BY <1>1 DEF C!Connect, C!Ensures, C!managed
  <2>. QED
    BY <2>3, <2>4, <2>5, PublicStep
<1>2. CASE C!ReadOnly(c)
  <2>1. PICK g : g = [wallet_url |-> C!Blank, miner_address |-> C!Blank]
    OBVIOUS
  <2>2. DOMAIN g = {"wallet_url", "miner_address"}
    BY <2>1
  <2>3. C!Enter(c, g, "daemon")
    BY <1>2, <2>1 DEF C!ReadOnly
  <2>4. C!At(c, "wallet") /\ UNCHANGED <<wallet, made>>
    BY <1>2 DEF C!ReadOnly, C!Ensures, C!managed
  <2>. QED
    BY <2>2, <2>3, <2>4, PublicStep
<1>3. CASE C!NoWallet(c)
  <2>1. C!At(c, "wallet") /\ C!Skip(c, "daemon") /\ UNCHANGED <<wallet, made>>
    BY <1>3 DEF C!NoWallet, C!Ensures, C!managed
  <2>. QED
    BY <2>1, IdleStep DEF Onboard
<1>4. CASE C!Bootstrapped(c)
  <2>1. PICK url \in Urls :
          C!Enter(c, [wallet_url |-> url, wallet_cred |-> "wallet", miner_address |-> url,
                      wallet_password |-> made'], "daemon")
    BY <1>4 DEF C!Bootstrapped
  <2>2. PICK g : g = [wallet_url |-> url, wallet_cred |-> "wallet", miner_address |-> url,
                      wallet_password |-> made']
    OBVIOUS
  <2>3. g["wallet_password"] = made'
    BY <2>2
  <2>4. C!At(c, "wallet") /\ C!Launch /\ wallet' = made'
    BY <1>4 DEF C!Bootstrapped, C!Ensures
  <2>5. Purse /\ Opens(g, wallet')
    BY <2>3, <2>4, LaunchPurse DEF Opens
  <2>6. C!Enter(c, g, "daemon")
    BY <2>1, <2>2
  <2>. QED
    BY <2>3, <2>4, <2>5, <2>6, EnterStep
<1>5. CASE C!NoAnswer(c)
  <2>1. C!At(c, "wallet") /\ C!Skip(c, "daemon") /\ C!Launch
    BY <1>5 DEF C!NoAnswer, C!Ensures
  <2>. QED
    BY <2>1, LaunchPurse, SkipStep DEF Onboard
<1>. QED
  BY <1>1, <1>2, <1>3, <1>4, <1>5

LEMMA SetupSteps ==
  ASSUME FilesInv, NEW c \in C!Processes, NEW next, NEW at,
         C!InteractiveSetup(c, next), C!At(c, at), at # "closed", next # "closed",
         UNCHANGED <<wallet, made>>
  PROVE  FilesInv'
<1>1. PICK g \in C!Fields(c) : C!Enter(c, g, next)
  BY DEF C!InteractiveSetup
<1>2. DOMAIN g = {"rpc_url", "wallet_url", "miner_address", "miner_endpoint"}
  BY <1>1 DEF C!Fields
<1>. QED
  BY <1>1, <1>2, PublicStep

LEMMA SavesMemory ==
  ASSUME FilesInv, NEW c \in C!Processes, NEW next, NEW at,
         C!Again(c, next), C!At(c, at), at # "closed", next # "closed",
         UNCHANGED <<wallet, made>>
  PROVE  FilesInv'
<1>. PICK x : x = mem[c]
  OBVIOUS
<1>1. C!SaveTo(c, x, next) /\ UNCHANGED <<mem, latest>>
  BY DEF C!Again
<1>2. ~MayOverlap => Full(x, latest)
  BY WhoSits DEF C!At, Sitting
<1>3. Opens(x, wallet)
  BY DEF FilesInv, PasswordInv
<1>. QED
  BY <1>1, <1>2, <1>3, ResaveStep

LEMMA OnboardSteps ==
  ASSUME FilesInv, NEW c \in C!Processes, C!Onboarding(c)
  PROVE  FilesInv'
<1>1. CASE C!Setup(c)
  <2>1. C!At(c, "menu") /\ C!Skip(c, "wallet") /\ UNCHANGED <<wallet, made>>
    BY <1>1 DEF C!Setup, C!others, C!managed
  <2>. QED
    BY <2>1, IdleStep DEF Onboard
<1>2. CASE C!EnsureDaemon(c)
  <2>1. C!At(c, "daemon") /\ UNCHANGED <<wallet, made>>
    BY <1>2 DEF C!EnsureDaemon, C!others, C!managed
  <2>2. ASSUME NEW url, C!Enter(c, [rpc_url |-> url], "miner")
        PROVE  FilesInv'
    <3>1. PICK g : g = [rpc_url |-> url]
      OBVIOUS
    <3>2. DOMAIN g = {"rpc_url"} /\ C!Enter(c, g, "miner")
      BY <2>2, <3>1
    <3>. QED
      BY <2>1, <3>2, PublicStep
  <2>3. ASSUME C!Again(c, "miner")
        PROVE  FilesInv'
    BY <2>1, <2>3, SavesMemory
  <2>4. ASSUME C!Skip(c, "miner")
        PROVE  FilesInv'
    BY <2>1, <2>4, IdleStep DEF Onboard
  <2>. QED
    BY <1>2, <2>2, <2>3, <2>4 DEF C!EnsureDaemon
<1>3. CASE C!EnsureMinerConfigured(c)
  <2>1. C!At(c, "miner") /\ UNCHANGED <<wallet, made>>
    BY <1>3 DEF C!EnsureMinerConfigured, C!others, C!managed
  <2>2. PICK g : g = [miner_binary |-> C!Some]
    OBVIOUS
  <2>3. DOMAIN g = {"miner_binary"}
    BY <2>2
  <2>4. C!Enter(c, g, "contracts") \/ C!Skip(c, "contracts")
    BY <1>3, <2>2 DEF C!EnsureMinerConfigured
  <2>. QED
    BY <2>1, <2>3, <2>4, PublicStep, IdleStep DEF Onboard
<1>4. CASE C!ApplyBundledContracts(c)
  <2>1. C!At(c, "contracts") /\ UNCHANGED <<wallet, made>>
    BY <1>4 DEF C!ApplyBundledContracts, C!others, C!managed
  <2>2. C!Again(c, "services") \/ C!InteractiveSetup(c, "services") \/ C!Skip(c, "services")
    BY <1>4 DEF C!ApplyBundledContracts
  <2>. QED
    BY <2>1, <2>2, SavesMemory, SetupSteps, IdleStep DEF Onboard
<1>5. CASE C!ChooseServices(c)
  <2>1. PICK g : g = [miner_endpoint |-> C!Some]
    OBVIOUS
  <2>2. DOMAIN g = {"miner_endpoint"}
    BY <2>1
  <2>3. C!At(c, "services") /\ C!Enter(c, g, "reload") /\ UNCHANGED <<wallet, made>>
    BY <1>5, <2>1 DEF C!ChooseServices, C!others, C!managed
  <2>. QED
    BY <2>2, <2>3, PublicStep
<1>. QED
  BY <1>1, <1>2, <1>3, <1>4, <1>5, DetectedStep, WalletSteps, ReloadStep DEF C!Onboarding

LEMMA ScreenSteps ==
  ASSUME FilesInv, NEW c \in C!Processes, C!Screens(c)
  PROVE  FilesInv'
<1>1. CASE C!OpenX(c)
  <2>1. C!Open(c, C!NoKeys) /\ DOMAIN C!NoKeys = {}
    BY <1>1 DEF C!OpenX, C!NoKeys
  <2>. QED
    BY <2>1, OpenStep
<1>2. CASE C!OpenM(c)
  <2>1. PICK keys \in SUBSET {"rpc_url", "wallet_url"} : \E g \in [keys -> Urls] : C!Open(c, g)
    BY <1>2 DEF C!OpenM
  <2>2. PICK g \in [keys -> Urls] : C!Open(c, g)
    BY <2>1
  <2>3. DOMAIN g \subseteq C!Shared
    BY DEF C!Shared
  <2>. QED
    BY <2>2, <2>3, OpenStep
<1>3. CASE C!EditEndpoints(c)
  <2>1. PICK rpc, w : C!Enter(c, [rpc_url |-> rpc, wallet_url |-> w], "main")
    BY <1>3 DEF C!EditEndpoints
  <2>2. PICK g : g = [rpc_url |-> rpc, wallet_url |-> w]
    OBVIOUS
  <2>3. DOMAIN g = {"rpc_url", "wallet_url"} /\ C!Enter(c, g, "main")
    BY <2>1, <2>2
  <2>4. C!At(c, "menu") /\ UNCHANGED <<wallet, made>>
    BY <1>3 DEF C!EditEndpoints, C!others, C!managed
  <2>. QED
    BY <2>3, <2>4, PublicStep
<1>4. CASE C!OtherScreen(c)
  <2>1. C!At(c, "menu") /\ C!Skip(c, "main") /\ UNCHANGED <<wallet, made>>
    BY <1>4 DEF C!OtherScreen, C!others, C!managed
  <2>. QED
    BY <2>1, IdleStep DEF Onboard
<1>5. CASE C!Reconfigure(c)
  <2>1. C!At(c, "main") /\ C!InteractiveSetup(c, "main") /\ UNCHANGED <<wallet, made>>
    BY <1>5 DEF C!Reconfigure, C!others, C!managed
  <2>. QED
    BY <2>1, SetupSteps
<1>6. CASE C!EnsureWalletAlive(c)
  <2>1. C!At(c, "main") /\ C!Skip(c, "menu") /\ UNCHANGED <<wallet, made>>
    BY <1>6 DEF C!EnsureWalletAlive
  <2>. QED
    BY <2>1, IdleStep DEF Onboard
<1>. QED
  BY <1>1, <1>2, <1>3, <1>4, <1>5, <1>6, QuitStep, WrittenStep, ResetStep, MinerToolsStep,
     StartMinerStep
  DEF C!Screens

LEMMA FilesStay ==
  ASSUME FilesInv, UNCHANGED <<config, mem, desk, wallet, made, latest>>
  PROVE  FilesInv'
BY DEF FilesInv, PasswordInv, ConfigInv, Opens, Alone, Sitting, Filed, Full, Agree,
       C!Processes, C!Closed, C!None, C!Torn, C!Shared, C!Has

LEMMA FilesStep == FilesInv /\ [C!Next]_C!vars => FilesInv'
<1>. SUFFICES ASSUME FilesInv, [C!Next]_C!vars
              PROVE  FilesInv'
  OBVIOUS
<1>1. CASE \E c \in XConsoles : C!Onboarding(c)
  BY <1>1, OnboardSteps DEF C!Processes
<1>2. CASE \E c \in C!Processes : C!Screens(c)
  BY <1>2, ScreenSteps
<1>3. CASE C!WalletEnds
  BY <1>3, FilesStay DEF C!WalletEnds
<1>4. CASE UNCHANGED C!vars
  BY <1>4, FilesStay DEF C!vars
<1>. QED
  BY <1>1, <1>2, <1>3, <1>4 DEF C!Next

LEMMA FilesStart == C!Init => FilesInv
<1>. SUFFICES ASSUME C!Init
              PROVE  FilesInv
  OBVIOUS
<1>1. /\ config = C!None /\ mem = [c \in C!Processes |-> C!NoKeys]
      /\ desk = [c \in C!Processes |-> C!Closed]
      /\ wallet = 0 /\ made = 0 /\ latest = C!NoKeys
  BY DEF C!Init
<1>2. DOMAIN C!NoKeys = {} /\ DOMAIN C!None = {} /\ C!None # C!Torn
  BY DEF C!NoKeys, C!None, C!Torn
<1>3. DOMAIN C!Closed = {"at", "out"} /\ C!Closed.out = C!None
  BY DEF C!Closed
<1>4. PasswordInv
  BY <1>1, <1>2, <1>3 DEF PasswordInv, Opens, C!Has
<1>5. ConfigInv
  BY <1>1, <1>2 DEF ConfigInv, Filed, Agree
<1>. QED
  BY <1>1, <1>3, <1>4, <1>5 DEF FilesInv

(***************************************************************************)
(* The files two consoles share keep what each of them wrote, for any      *)
(* number of consoles used one after the other: the history shows the last *)
(* transactions, once and in order; an endpoint, a credential or an        *)
(* address entered in one console is what the next one reads; and the      *)
(* saved password opens the managed wallet.                                *)
(***************************************************************************)
THEOREM FilesAlways == ~MayOverlap => (Spec /\ C!Spec => []FilesKept)
<1>. SUFFICES ASSUME ~MayOverlap
              PROVE  Spec /\ C!Spec => []FilesKept
  OBVIOUS
<1>1. ConsoleInv => HistoryKept
  BY DEF ConsoleInv, BookInv
<1>2. FilesInv => C!PasswordOpens
  <2>. SUFFICES ASSUME FilesInv, NEW cfg \in {config} \cup {mem[c] : c \in C!Processes}
                PROVE  Opens(cfg, wallet)
    BY DEF C!PasswordOpens, Opens
  <2>. QED
    BY DEF FilesInv, PasswordInv
<1>3. FilesInv => C!SharedKept
  <2>. SUFFICES ASSUME FilesInv, config # C!Torn,
                       \A c \in C!Processes : desk[c].at \in {"closed", "main", "menu"}
                PROVE  Agree(config, latest)
    BY DEF C!SharedKept, Agree, C!Has
  <2>1. CASE \A c \in C!Processes : desk[c] = C!Closed
    BY <2>1 DEF FilesInv, ConfigInv, Filed
  <2>2. CASE \E c \in C!Processes : desk[c] # C!Closed
    <3>1. PICK c \in C!Processes : desk[c] # C!Closed
      BY <2>2
    <3>2. Sitting(mem[c], desk[c], latest, config)
      BY <3>1 DEF FilesInv, ConfigInv
    <3>3. desk[c].out = C!None
      BY <3>2 DEF Sitting
    <3>. QED
      BY <3>2, <3>3 DEF Sitting, Onboard
  <2>. QED
    BY <2>1, <2>2
<1>. QED
  BY <1>1, <1>2, <1>3, ConsoleAlways, FilesStart, FilesStep, PTL DEF C!Spec, FilesKept
=============================================================================

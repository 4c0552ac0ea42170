---------------------------- MODULE PrivacyMixerV5 ----------------------------
(***************************************************************************)
(* contracts/mixer/PrivacyMixerV5.slx: the dead-drop note pool.            *)
(*                                                                         *)
(* Entries are atomic transactions, as in LaunchDEX.  Hashing is           *)
(* injective: a note's commitment is the note itself and an inner node the *)
(* pair of its children.  Depositors use the SDK, which commits to the     *)
(* amount it attaches; a release's siblings are anything get_sibling has   *)
(* answered for some leaf.                                                 *)
(***************************************************************************)
EXTENDS Totals, Sequences

CONSTANTS
  Wallets, None,
  Secrets,
  NoLeaf,              \* the hash of an empty leaf
  XelSupply,           \* units of XEL in existence
  TREE_DEPTH, CAPACITY, ROOT_HISTORY, BATCH_MAX,
  MIN_DELAY_TOPO, MAX_DELAY_TOPO,
  Denominations, BPS,  \* BPS is the code's 10000
  DEFAULT_FEE_BPS, MAX_FEE_BPS, DEFAULT_BOUNTY, MAX_BOUNTY,
  DelayArgs, FeeArgs, BountyArgs, ClaimArgs, AddrArgs, StrayArgs,
  LossArgs,            \* what an anomaly of the chain may take from the pool
  MAX_TOPO             \* bounds the height of the chain

ASSUME MixerConstants ==
  /\ IsFiniteSet(Wallets) /\ None \notin Wallets /\ AddrArgs \subseteq Wallets
  /\ XelSupply \in Nat /\ TREE_DEPTH \in Nat \ {0}
  /\ CAPACITY \in 1..2^TREE_DEPTH
  /\ ROOT_HISTORY \in Nat \ {0} /\ BATCH_MAX \in Nat \ {0}
  /\ MIN_DELAY_TOPO \in Nat /\ MAX_DELAY_TOPO \in Nat
  /\ Denominations \subseteq Nat \ {0} /\ BPS \in Nat \ {0}
  /\ MAX_FEE_BPS \in 0..BPS /\ DEFAULT_FEE_BPS \in 0..MAX_FEE_BPS
  /\ MAX_BOUNTY \in Nat /\ DEFAULT_BOUNTY \in 0..MAX_BOUNTY
  /\ DelayArgs \subseteq Nat /\ FeeArgs \subseteq Nat /\ BountyArgs \subseteq Nat
  /\ ClaimArgs \subseteq Nat /\ StrayArgs \subseteq Nat /\ LossArgs \subseteq Nat
  /\ MAX_TOPO \in Nat

Leaves == 0..(CAPACITY - 1)
Levels == 0..(TREE_DEPTH - 1)
Notes == [secret : Secrets, to : Wallets, amount : Denominations]

\* No note hashes to the empty leaf.
ASSUME EmptyIsNoNote == NoLeaf \notin Notes

VARIABLES
  config,  \* own, nom, pz, em, fb, frc and bty
  nodes,   \* nd:{level}:{index}: the stored nodes
  roots,   \* rt:{n}: every root, the empty tree's first
  valid,   \* rv:{root}: the accepted roots
  unlock,  \* u:{index}: when each leaf becomes payable; lc is its length
  ledger,  \* balance, pd, fo, td, tr, bp, ns and the sp:{index} markers
  topo     \* the chain's height

vars == <<config, nodes, roots, valid, unlock, ledger, topo>>

Count == Len(unlock)
-----------------------------------------------------------------------------
(* The tree.                                                               *)

Node(left, right) == <<left, right>>
Zeros[l \in 0..TREE_DEPTH] ==
  IF l = 0 THEN NoLeaf ELSE Node(Zeros[l - 1], Zeros[l - 1])

At(i, l) == i \div 2^l
Stored(l, k) == k \in DOMAIN nodes[l]

\* The path that inserting leaf as number i writes, and its new root at
\* TREE_DEPTH: an even node folds with the zero of its level.
InsertPath(leaf, i) ==
  LET path[l \in 0..TREE_DEPTH] ==
        IF l = 0 THEN leaf
        ELSE IF At(i, l - 1) % 2 = 0
             THEN Node(path[l - 1], Zeros[l - 1])
             ELSE Node(nodes[l - 1][At(i, l - 1) - 1], path[l - 1])
  IN  path

\* The root that a leaf and its siblings fold to.
Fold(leaf, i, siblings) ==
  LET path[l \in 0..TREE_DEPTH] ==
        IF l = 0 THEN leaf
        ELSE IF At(i, l - 1) % 2 = 0
             THEN Node(path[l - 1], siblings[l])
             ELSE Node(siblings[l], path[l - 1])
  IN  path[TREE_DEPTH]

\* get_sibling: the node beside the leaf's ancestor at a level.
Beside(k) == IF k % 2 = 0 THEN k + 1 ELSE k - 1
LeftOnly_(i, l) ==
  IF At(i, l) % 2 = 1 /\ l = 0 THEN nodes[l][At(i, l) - 1] ELSE Zeros[l]
Sibling(i, l) ==
  IF Stored(l, Beside(At(i, l))) THEN nodes[l][Beside(At(i, l))] ELSE Zeros[l]
Proof(i) == [n \in 1..TREE_DEPTH |-> Sibling(i, n - 1)]

Latest == roots[Len(roots)]

\* A new root joins the ring of accepted ones and pushes the oldest out.
NeverExpires_ == valid
Unexpired ==
  IF Len(roots) >= ROOT_HISTORY
  THEN valid \ {roots[Len(roots) - ROOT_HISTORY + 1]} ELSE valid
-----------------------------------------------------------------------------
Init ==
  /\ \E deployer \in Wallets :
       config = [owner |-> deployer, nominee |-> None, paused |-> FALSE,
                 emode |-> FALSE, feeBps |-> DEFAULT_FEE_BPS,
                 feeTo |-> deployer, bounty |-> DEFAULT_BOUNTY]
  /\ nodes = [l \in Levels |-> <<>>]
  /\ roots = <<Zeros[TREE_DEPTH]>>
  /\ valid = {Zeros[TREE_DEPTH]}
  /\ unlock = <<>>
  /\ ledger = [bal |-> 0, pending |-> 0, fees |-> 0, deposited |-> 0,
               released |-> 0, bounties |-> 0, count |-> 0, spent |-> {}]
  /\ topo = 0
-----------------------------------------------------------------------------
(* Deposits.                                                               *)

XelOutside == XelSupply - ledger.bal
Solvent(led) == led.bal >= led.pending
DepositsOpen == ~config.paused /\ ~config.emode

\* The horizon is the model's: every note it admits unlocks before it ends.
Deposit(note, delay) ==
  LET i    == Count
      path == InsertPath(note, i)
  IN
  /\ DepositsOpen
  /\ note.amount \in Denominations /\ note.amount <= XelOutside
  /\ delay >= MIN_DELAY_TOPO /\ delay <= MAX_DELAY_TOPO
  /\ topo + delay <= MAX_TOPO
  /\ i < CAPACITY
  \* The balance the guard reads already holds the attached deposit.
  /\ ledger.bal + note.amount >= ledger.pending
  /\ nodes' = [l \in Levels |->
                 [k \in DOMAIN nodes[l] \cup {At(i, l)} |->
                    IF k = At(i, l) THEN path[l] ELSE nodes[l][k]]]
  /\ roots' = Append(roots, path[TREE_DEPTH])
  /\ valid' = Unexpired \cup {path[TREE_DEPTH]}
  /\ unlock' = Append(unlock, topo + delay)
  /\ ledger' = [ledger EXCEPT !.bal = @ + note.amount,
                              !.pending = @ + note.amount,
                              !.deposited = @ + note.amount]
  /\ UNCHANGED <<config, topo>>
-----------------------------------------------------------------------------
(* Releases.                                                               *)

Least(m, n) == IF m <= n THEN m ELSE n
Floor0(n) == IF n > 0 THEN n ELSE 0

Unspent_(led, i) == TRUE
Unspent(led, i) == i \notin led.spent

\* In emergency mode a note gets its share of the live pool, in BPS steps.
RatioUp_(led) ==
  IF led.pending = 0 THEN 0
  ELSE Least(BPS, (led.bal * BPS + led.pending - 1) \div led.pending)
Ratio(led) ==
  IF led.pending = 0 THEN 0 ELSE Least(BPS, (led.bal * BPS) \div led.pending)

Fee(amount) == IF config.emode THEN 0 ELSE (amount * config.feeBps) \div BPS
ShareGross_(led, amount) == amount
Share(led, amount) ==
  IF config.emode THEN (amount * Ratio(led)) \div BPS ELSE amount - Fee(amount)
Bounty(led, amount) == Least(config.bounty, Share(led, amount))

\* What both releases pass over: the owner's pause does not stop them.
ExitGatePaused_ == ~config.paused
ExitGate == TRUE

\* process_release's checks of a claim, a note presented as leaf i with its
\* siblings, against the ledger it finds.
Releasable(led, c) ==
  /\ ExitGate
  /\ c.note.amount \in Denominations
  /\ c.i < Count
  /\ topo >= unlock[c.i + 1]
  /\ Unspent(led, c.i)
  /\ Fold(c.note, c.i, c.siblings) \in valid
  /\ config.emode \/ Solvent(led)
  /\ led.pending >= c.note.amount
  /\ Share(led, c.note.amount) <= led.bal

\* ... and the ledger it leaves: the recipient and the caller split the share.
Released(led, c) ==
  LET amount == c.note.amount
  IN  [led EXCEPT !.bal = @ - Share(led, amount),
                  !.pending = @ - amount,
                  !.fees = @ + Fee(amount),
                  !.released = @ + Share(led, amount) - Bounty(led, amount),
                  !.bounties = @ + Bounty(led, amount),
                  !.count = @ + 1,
                  !.spent = @ \cup {c.i}]

\* release_many, of which release is the batch of one: the claims are settled
\* in order, each on the ledger the one before it left, all or nothing.
Ledgers(batch) ==
  LET led[n \in 0..Len(batch)] ==
        IF n = 0 THEN ledger ELSE Released(led[n - 1], batch[n])
  IN  led
Accepts(batch) ==
  LET led == Ledgers(batch)
  IN  /\ Len(batch) \in 1..BATCH_MAX
      /\ \A n \in 1..Len(batch) : Releasable(led[n - 1], batch[n])
ReleaseMany(batch) ==
  /\ Accepts(batch)
  /\ ledger' = Ledgers(batch)[Len(batch)]
  /\ UNCHANGED <<config, nodes, roots, valid, unlock, topo>>

Claim(note, i, siblings) == [note |-> note, i |-> i, siblings |-> siblings]
Release(note, i, siblings) == ReleaseMany(<<Claim(note, i, siblings)>>)
-----------------------------------------------------------------------------
(* The owner, the alarm and the fees.                                      *)

OnlyOwner(caller) == config.owner # None /\ caller = config.owner
Configure(c) ==
  config' = c /\ UNCHANGED <<nodes, roots, valid, unlock, ledger, topo>>

Pause(caller) == OnlyOwner(caller) /\ Configure([config EXCEPT !.paused = TRUE])
Unpause(caller) == OnlyOwner(caller) /\ Configure([config EXCEPT !.paused = FALSE])

\* Accrued fees are trimmed to what the notes leave over.
Spare == Floor0(ledger.bal - ledger.pending)
KeptFees == Least(ledger.fees, Spare)
EmergencyExit(caller) ==
  /\ OnlyOwner(caller)
  /\ ~config.emode
  /\ ledger' = [ledger EXCEPT !.fees = KeptFees]
  /\ config' = [config EXCEPT !.emode = TRUE, !.paused = FALSE]
  /\ UNCHANGED <<nodes, roots, valid, unlock, topo>>

\* Anyone may freeze the deposits of a pool that is short.
RaiseAlarm == ~Solvent(ledger) /\ Configure([config EXCEPT !.paused = TRUE])

FeeWithin_(bps) == TRUE
FeeWithin(bps) == bps <= MAX_FEE_BPS
SetFeeBps(caller, bps) ==
  /\ OnlyOwner(caller) /\ ~config.emode /\ FeeWithin(bps)
  /\ Configure([config EXCEPT !.feeBps = bps])
SetBounty(caller, bounty) ==
  /\ OnlyOwner(caller) /\ bounty <= MAX_BOUNTY
  /\ Configure([config EXCEPT !.bounty = bounty])
SetFeeRecipient(caller, recipient) ==
  /\ OnlyOwner(caller) /\ ~config.emode
  /\ Configure([config EXCEPT !.feeTo = recipient])

ClaimFees(caller, amount) ==
  /\ caller = config.feeTo
  /\ amount > 0 /\ amount <= ledger.fees
  /\ amount <= Spare
  /\ ledger' = [ledger EXCEPT !.fees = @ - amount, !.bal = @ - amount]
  /\ UNCHANGED <<config, nodes, roots, valid, unlock, topo>>

ProposeOwner(caller, nominee) ==
  OnlyOwner(caller) /\ Configure([config EXCEPT !.nominee = nominee])
AcceptOwner(caller) ==
  /\ config.nominee # None /\ caller = config.nominee
  /\ Configure([config EXCEPT !.owner = caller, !.nominee = None])
Ownerless == [config EXCEPT !.owner = None, !.nominee = None]
RenounceOwnership(caller) == OnlyOwner(caller) /\ Configure(Ownerless)
-----------------------------------------------------------------------------
(* Around the contract.                                                    *)

Moved(led) ==
  ledger' = led /\ UNCHANGED <<config, nodes, roots, valid, unlock, topo>>

\* A deposit attached to an entry that does not read it.
Stray(n) ==
  n \in 1..XelOutside /\ Moved([ledger EXCEPT !.bal = @ + n])

\* The anomaly solvency_guard and raise_alarm are written against.
Anomaly(n) ==
  n \in 1..ledger.bal /\ Moved([ledger EXCEPT !.bal = @ - n])

Tick ==
  /\ topo < MAX_TOPO
  /\ topo' = topo + 1
  /\ UNCHANGED <<config, nodes, roots, valid, unlock, ledger>>
-----------------------------------------------------------------------------
Claims == {Claim(note, i, Proof(j)) : note \in Notes, i \in Leaves, j \in 0..(Count - 1)}

Owned(u) ==
  \/ Pause(u) \/ Unpause(u) \/ EmergencyExit(u) \/ RenounceOwnership(u)
  \/ \E bps \in FeeArgs : SetFeeBps(u, bps)
  \/ \E bounty \in BountyArgs : SetBounty(u, bounty)
  \/ \E v \in AddrArgs : SetFeeRecipient(u, v) \/ ProposeOwner(u, v)

Pool ==
  \/ \E note \in Notes, delay \in DelayArgs : Deposit(note, delay)
  \/ \E c \in Claims : Release(c.note, c.i, c.siblings)
  \/ \E c, d \in Claims : ReleaseMany(<<c, d>>)

Around ==
  \/ \E n \in StrayArgs : Stray(n)
  \/ \E n \in LossArgs : Anomaly(n)
  \/ Tick

Next ==
  \/ Pool \/ RaiseAlarm \/ Around
  \/ \E u \in Wallets : Owned(u) \/ AcceptOwner(u)
  \/ \E u \in Wallets, n \in ClaimArgs : ClaimFees(u, n)

Spec == Init /\ [][Next]_vars
-----------------------------------------------------------------------------
(* What the pool promises.                                                 *)

LeafOf(i) == nodes[0][i]
Live == {i \in 0..(Count - 1) : i \notin ledger.spent}

\* Every slot keeps its type, and the fee and the bounty their caps.
TypeOK ==
  /\ config \in [owner : Wallets \cup {None}, nominee : Wallets \cup {None},
                 paused : BOOLEAN, emode : BOOLEAN, feeBps : 0..MAX_FEE_BPS,
                 feeTo : Wallets, bounty : 0..MAX_BOUNTY]
  /\ DOMAIN nodes = Levels
  /\ unlock \in Seq(0..MAX_TOPO) /\ Count <= CAPACITY
  /\ Len(roots) = Count + 1
  /\ ledger \in [bal : 0..XelSupply, pending : Nat, fees : Nat,
                 deposited : Nat, released : Nat, bounties : Nat,
                 count : Nat, spent : SUBSET (0..(Count - 1))]
  /\ topo \in 0..MAX_TOPO

\* The tree of the leaves so far, built from scratch, padded with zeros.
WholeTree[l \in 0..TREE_DEPTH] ==
  [k \in 0..(2^(TREE_DEPTH - l) - 1) |->
     IF l = 0 THEN IF k < Count THEN LeafOf(k) ELSE NoLeaf
     ELSE Node(WholeTree[l - 1][2 * k], WholeTree[l - 1][2 * k + 1])]

\* I4: the incremental insertion computes the root of the whole tree, and the
\* accepted roots are exactly the last ROOT_HISTORY of them.
RootsExact ==
  /\ Latest = WholeTree[TREE_DEPTH][0]
  /\ valid = {roots[n] : n \in {m \in 1..Len(roots) : m > Len(roots) - ROOT_HISTORY}}

\* The siblings get_sibling answers prove every leaf against the latest root,
\* and nobody's siblings prove of a leaf a note it does not hold.
ProofsExact ==
  \A i, j \in 0..(Count - 1) :
    /\ Fold(LeafOf(i), i, Proof(i)) = Latest
    /\ \A note \in Notes : Fold(note, i, Proof(j)) \in valid => note = LeafOf(i)

\* I1: pd is exactly what the unspent notes are worth, and ns counts the spent.
PendingExact ==
  /\ ledger.pending
       = Total([i \in Live |-> LeafOf(i).amount])
  /\ ledger.count = Cardinality(ledger.spent)

\* I9: an unlocked note of a pool that is solvent, or in emergency mode, can be
\* released now with a fresh proof, whatever the owner did and has become.
ExitsOpen ==
  \A i \in Live : topo >= unlock[i + 1] /\ (config.emode \/ Solvent(ledger))
    => Releasable(ledger, Claim(LeafOf(i), i, Proof(i)))

\* The pool is a note book (I8 and more): with all the pauses, batches, proofs,
\* emergencies and changes of hands, no note is ever altered, paid twice, paid
\* early or paid more than its worth, and fees never come out of the notes.
Book == INSTANCE NoteBook WITH
          Losses <- LossArgs, notes <- nodes[0], due <- unlock,
          paid <- ledger.spent, cash <- ledger.bal, now <- topo
ImplementsNoteBook == Book!Spec

\* What the pool holds beyond the unspent notes and the fees owed.
Surplus(led) == led.bal - led.pending - led.fees

\* I2: nothing the contract does, alone or in a batch, eats into what covers the
\* notes and the fees; only an anomaly of the chain can.  And emergency exits are
\* fair in any order: a release never lowers what the pool holds per unit owed.
CoverKept ==
  [][/\ Surplus(ledger') < Surplus(ledger) => \E n \in LossArgs : Anomaly(n)
     /\ config.emode /\ ledger'.spent # ledger.spent =>
          ledger'.bal * ledger.pending >= ledger.bal * ledger'.pending]_vars
=============================================================================

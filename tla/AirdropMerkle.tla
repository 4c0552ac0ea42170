---------------------------- MODULE AirdropMerkle ----------------------------
(***************************************************************************)
(* generate_airdrop_merkle.py: the distribution file of the airdrop, a     *)
(* Merkle root and a proof per user.  A hash is a term: the function that  *)
(* computes it and what it was given, so that two hashes are equal when    *)
(* everything below them is.                                               *)
(***************************************************************************)
EXTENDS Naturals, Sequences, FiniteSets, SequencesExt

CONSTANTS
  MaxUsers     \* bound: users in the input file

VARIABLES
  users,         \* the input: [mainnet : BOOLEAN, amount : Nat], numbered by testnet address
  distribution   \* the output: <<>>, or << [root, users] >>

Unsorted_(a, b) == << "node", << a, b >> >>
Hash(a, b) == << "node", {a, b} >>       \* the pair is sorted before it is hashed
Leaf(k, amount) == << "leaf", << k, amount >> >>

\* build_merkle_tree: an odd layer is padded with its last node
Padded(layer) == IF Len(layer) % 2 = 1 THEN Append(layer, Last(layer)) ELSE layer
Parents(layer) == [k \in 1..(Len(layer) \div 2) |-> Hash(layer[2 * k - 1], layer[2 * k])]

\* _build_proofs: the layers as they are left in the list it walks.  The first
\* is a copy and stays unpadded; the others are padded in place.  The root is
\* the last.
Layers(leaves) ==
  LET depth == CHOOSE d \in 0..Len(leaves) : 2 ^ d >= Len(leaves) /\ (d = 0 \/ 2 ^ (d - 1) < Len(leaves))
      Padding[d \in 0..depth] ==
        IF d = 0 THEN leaves
        ELSE LET up == Parents(Padded(Padding[d - 1]))
             IN IF d = depth THEN up ELSE Padded(up)
  IN [k \in 1..(depth + 1) |-> Padding[k - 1]]

Root(leaves) == IF leaves = <<>> THEN << "zero", {} >> ELSE Last(Layers(leaves))[1]

\* the siblings on the way up, index i counted from 0; one out of range is left out
Proof(leaves, i) ==
  LET ls == Layers(leaves)
      sibling(d) == LET k == i \div 2 ^ (d - 1) IN IF k % 2 = 0 THEN k + 1 ELSE k - 1
      steps == SelectSeq([d \in 1..(Len(ls) - 1) |-> d], LAMBDA d : sibling(d) < Len(ls[d]))
  IN [j \in 1..Len(steps) |-> ls[steps[j]][sibling(steps[j]) + 1]]

Verifies(leaf, proof, root) == FoldLeft(Hash, leaf, proof) = root

-----------------------------------------------------------------------------
Entries == [mainnet : BOOLEAN, amount : 0..1]

Init ==
  /\ users \in UNION {[1..n -> Entries] : n \in 0..MaxUsers}
  /\ distribution = <<>>

\* main: users without a mainnet address or an amount are skipped
Generate ==
  /\ distribution = <<>>
  /\ LET kept == SelectSeq([k \in 1..Len(users) |-> k],
                           LAMBDA k : users[k].mainnet /\ users[k].amount # 0)
         leaves == [j \in 1..Len(kept) |-> Leaf(kept[j], users[kept[j]].amount)]
     IN distribution' =
          << [root |-> Root(leaves),
              users |-> [j \in 1..Len(kept) |->
                           [user |-> kept[j], leaf |-> leaves[j], proof |-> Proof(leaves, j - 1)]]] >>
  /\ UNCHANGED users

Spec == Init /\ [][Generate]_<<users, distribution>>

-----------------------------------------------------------------------------
Told == IF distribution = <<>> THEN <<>> ELSE distribution[1].users
Odd(n) == n > 1 /\ n % 2 = 1

(* Every user with a mainnet address and an amount is in the file, and the *)
(* proof of each leads from the own leaf to the root, and from no other's; *)
(* all but the last of an odd list, whose first sibling is left out.       *)
ProofsVerify ==
  /\ distribution # <<>> =>
       {Told[j].user : j \in 1..Len(Told)}
         = {k \in 1..Len(users) : users[k].mainnet /\ users[k].amount > 0}
  /\ \A j, k \in 1..Len(Told) : ~(Odd(Len(Told)) /\ k = Len(Told)) =>
       (Verifies(Told[j].leaf, Told[k].proof, distribution[1].root) <=> j = k)

(* "Users can now call claim() with their proof", printed by main, line     *)
(* 264: the same for every user of the file.                              *)
EveryProofVerifies ==
  \A j \in 1..Len(Told) : Verifies(Told[j].leaf, Told[j].proof, distribution[1].root)
=============================================================================

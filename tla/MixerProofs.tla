----------------------------- MODULE MixerProofs -----------------------------
(***************************************************************************)
(* PrivacyMixerV5 for every depth, history, batch, denomination and        *)
(* parameter: its types, its tree, what it owes and holds, its exits, and  *)
(* its refinement of NoteBook.                                             *)
(***************************************************************************)
EXTENDS MixerBot, MixerDeposit, TotalsProofs, WellFoundedInduction, SequenceTheorems

-----------------------------------------------------------------------------
(* Induction.  A property of the numbers is given as the set of those that  *)
(* have it.                                                                 *)

LEMMA LeastNumber ==
  ASSUME NEW T, T \subseteq Nat, T # {}
  PROVE  \E m \in T : \A n \in T : m <= n
<1>1. IsWellFoundedOn(OpToRel(<, Nat), Nat)
  BY NatLessThanWellFounded
<1>2. PICK m \in T : \A n \in T : <<n, m>> \notin OpToRel(<, Nat)
  BY <1>1, WFMin, Zenon
<1>3. \A n \in T : ~(n < m)
  BY <1>2 DEF OpToRel
<1>. QED
  BY <1>3

LEMMA Induction ==
  ASSUME NEW n \in Nat, NEW S, 0 \in S, \A m \in 0..(n - 1) : m \in S => m + 1 \in S
  PROVE  0..n \subseteq S
<1> DEFINE T == (0..n) \ S
<1> SUFFICES ASSUME T # {}
             PROVE  FALSE
  OBVIOUS
<1>1. PICK k \in T : \A j \in T : k <= j
  <2>1. T \subseteq Nat
    OBVIOUS
  <2> HIDE DEF T
  <2>. QED
    BY <2>1, LeastNumber
<1>2. k \in 0..n /\ k # 0 /\ k - 1 \in 0..(n - 1) /\ (k - 1) + 1 = k
  OBVIOUS
<1>3. k - 1 \notin T
  BY <1>1, <1>2
<1>. QED
  BY <1>2, <1>3

-----------------------------------------------------------------------------
(* Powers of two, halving.                                                  *)

LEMMA TwoPowers ==
  ASSUME NEW n \in Nat
  PROVE  2^n \in Nat \ {0} /\ 2^(n + 1) = 2 * 2^n
<1> DEFINE S == 1..n
           T == 1..(n + 1)
           A == SUBSET S
           B == { U \cup {n + 1} : U \in A }
<1>1. IsFiniteSet(S) /\ Cardinality(S) = n /\ IsFiniteSet(T) /\ Cardinality(T) = n + 1
  BY FS_Interval
<1>2. IsFiniteSet(A) /\ Cardinality(A) = 2^n
  BY <1>1, FS_SUBSET
<1>3. Cardinality(SUBSET T) = 2^(n + 1)
  BY <1>1, FS_SUBSET
<1>4. SUBSET T = A \cup B
  <2>1. ASSUME NEW U \in SUBSET T
        PROVE  U \in A \cup B
    <3>1. CASE n + 1 \in U
      <4>1. U \ {n + 1} \in A /\ U = (U \ {n + 1}) \cup {n + 1}
        BY <3>1
      <4>. QED
        BY <4>1
    <3>2. CASE n + 1 \notin U
      BY <3>2
    <3>. QED
      BY <3>1, <3>2
  <2>2. S \subseteq T /\ n + 1 \in T
    OBVIOUS
  <2>3. A \subseteq SUBSET T /\ B \subseteq SUBSET T
    <3> HIDE DEF S, T
    <3>. QED
      BY <2>2
  <2>. QED
    BY <2>1, <2>3
<1>5. A \cap B = {}
  OBVIOUS
<1>6. IsFiniteSet(B) /\ Cardinality(B) = Cardinality(A)
  <2> DEFINE f == [U \in A |-> U \cup {n + 1}]
  <2>1. f \in Bijection(A, B)
    <3>1. f \in Surjection(A, B)
      BY DEF Surjection
    <3>2. ASSUME NEW U \in A, NEW V \in A, f[U] = f[V]
          PROVE  U = V
      <4>1. n + 1 \notin U /\ n + 1 \notin V /\ U \cup {n + 1} = V \cup {n + 1}
        BY <3>2
      <4>. QED
        BY <4>1
    <3>. QED
      BY <3>1, <3>2 DEF Bijection, Injection, IsInjective, Surjection
  <2> HIDE DEF A, B, f
  <2>. QED
    BY <1>2, <2>1, FS_Bijection DEF ExistsBijection
<1>7. Cardinality(A) \in Nat /\ Cardinality(A) # 0
  <2>1. A # {}
    OBVIOUS
  <2> HIDE DEF A
  <2>. QED
    BY <1>2, <2>1, FS_CardinalityType, FS_EmptySet
<1>8. Cardinality(A \cup B) = Cardinality(A) + Cardinality(B) - Cardinality(A \cap B)
  <2> HIDE DEF A, B
  <2>. QED
    BY <1>2, <1>6, FS_Union
<1>9. Cardinality(A \cap B) = 0
  BY <1>5, FS_EmptySet
<1> HIDE DEF A, B, T, S
<1>10. Cardinality(SUBSET T) = Cardinality(A) + Cardinality(A)
  <2>1. Cardinality(A \cup B) = Cardinality(A) + Cardinality(A)
    BY <1>6, <1>7, <1>8, <1>9
  <2>. QED
    BY <1>4, <2>1, Zenon
<1>11. 2^n \in Nat /\ 2^n # 0
  BY <1>2, <1>7
<1>12. 2^(n + 1) = 2^n + 2^n
  BY <1>2, <1>3, <1>10
<1>. QED
  BY <1>11, <1>12

LEMMA DivTwice ==
  ASSUME NEW i \in Nat, NEW p \in Nat \ {0}
  PROVE  i \div (2 * p) = (i \div p) \div 2
<1> DEFINE q == i \div p
           a == q \div 2
<1>1. q \in Nat /\ q * p <= i /\ i < (q + 1) * p
  OBVIOUS
<1>2. a \in Nat /\ 2 * a <= q /\ q <= 2 * a + 1
  OBVIOUS
<1> HIDE DEF q
<1> HIDE DEF a
<1>3. a * (2 * p) <= i /\ i < (a + 1) * (2 * p)
  <2>1. p * (2 * a) <= p * q /\ p * (q + 1) <= p * (2 * a + 2)
    BY <1>1, <1>2, MulMono
  <2>2. a * (2 * p) = p * (2 * a) /\ (a + 1) * (2 * p) = p * (2 * a + 2)
        /\ q * p = p * q /\ (q + 1) * p = p * (q + 1)
    BY <1>1, <1>2
  <2>3. p * (2 * a) \in Nat /\ p * q \in Nat /\ p * (q + 1) \in Nat /\ p * (2 * a + 2) \in Nat
    BY <1>1, <1>2
  <2>. QED
    BY <1>1, <2>1, <2>2, <2>3
<1>4. i \div (2 * p) = a
  <2> DEFINE m == 2 * p
             b == i \div m
  <2>1. m \in Nat \ {0}
    OBVIOUS
  <2>2. a * m <= i /\ i < (a + 1) * m
    BY <1>3
  <2> HIDE DEF m
  <2>3. b \in Nat /\ b * m <= i /\ i < (b + 1) * m
    BY <2>1
  <2> HIDE DEF b
  <2>4. ASSUME NEW x \in Nat, NEW y \in Nat, x < y
        PROVE  (x + 1) * m <= y * m
    <3>1. m * (x + 1) <= m * y /\ m * (x + 1) = (x + 1) * m /\ m * y = y * m
      BY <2>1, <2>4, MulMono
    <3>. QED
      BY <3>1
  <2>5. a * m \in Nat /\ b * m \in Nat /\ (a + 1) * m \in Nat /\ (b + 1) * m \in Nat
    BY <1>2, <2>1, <2>3
  <2>6. ~(a < b) /\ ~(b < a)
    BY <1>2, <2>2, <2>3, <2>4, <2>5
  <2>7. a = b
    BY <1>2, <2>3, <2>6
  <2>. QED
    BY <2>7 DEF b, m
<1>. QED
  BY <1>4 DEF a, q

LEMMA Halving ==
  ASSUME NEW i \in Nat, NEW l \in Nat
  PROVE  /\ At(i, 0) = i /\ At(i, l) \in Nat
         /\ At(i, l + 1) = At(i, l) \div 2
<1>1. 2^l \in Nat \ {0} /\ 2^(l + 1) = 2 * 2^l /\ 2^0 = 1
  BY TwoPowers
<1>2. At(i, l) \in Nat
  BY <1>1, DivBounds DEF At
<1>3. At(i, l + 1) = At(i, l) \div 2
  BY <1>1, DivTwice DEF At
<1>4. At(i, 0) = i
  BY <1>1 DEF At
<1>. QED
  BY <1>2, <1>3, <1>4

-----------------------------------------------------------------------------
(* The recursive definitions have the values their equations give.          *)

\* The empty subtrees.
LEMMA ZerosDef ==
  /\ Zeros[0] = NoLeaf
  /\ \A l \in 1..TREE_DEPTH : Zeros[l] = Node(Zeros[l - 1], Zeros[l - 1])
<1> DEFINE Is(f, n) == f = [l \in 0..n |-> IF l = 0 THEN NoLeaf ELSE Node(f[l - 1], f[l - 1])]
           S == {n \in Nat : \E f : Is(f, n)}
<1>1. 0 \in S
  <2>1. Is([l \in 0..0 |-> NoLeaf], 0)
    OBVIOUS
  <2>. QED
    BY <2>1
<1>2. ASSUME NEW m \in Nat, m \in S
      PROVE  m + 1 \in S
  <2>1. PICK f : Is(f, m)
    BY <1>2
  <2> DEFINE g == [l \in 0..(m + 1) |-> IF l = 0 THEN NoLeaf ELSE Node(f[l - 1], f[l - 1])]
  <2>2. \A l \in 0..m : g[l] = f[l]
    BY <2>1
  <2>3. \A l \in 1..(m + 1) : l - 1 \in 0..m
    OBVIOUS
  <2>4. \A l \in 0..(m + 1) :
          (IF l = 0 THEN NoLeaf ELSE Node(g[l - 1], g[l - 1]))
            = (IF l = 0 THEN NoLeaf ELSE Node(f[l - 1], f[l - 1]))
    <3> HIDE DEF g
    <3>1. \A l \in 0..(m + 1) : l = 0 \/ l \in 1..(m + 1)
      OBVIOUS
    <3>. QED
      BY <2>2, <2>3, <3>1
  <2>5. Is(g, m + 1)
    BY <2>4
  <2> HIDE DEF Is, g
  <2>. QED
    BY <2>5
<1>3. TREE_DEPTH \in Nat
  BY MixerConstants
<1>4. TREE_DEPTH \in S
  <2> HIDE DEF S
  <2>. QED
    BY <1>1, <1>2, <1>3, Induction
<1>5. Is(Zeros, TREE_DEPTH)
  <2>1. Zeros = CHOOSE f : Is(f, TREE_DEPTH)
    BY DEF Zeros
  <2>. QED
    BY <1>4, <2>1
<1>. QED
  BY <1>3, <1>5

\* The tree over the first m leaves of lv; WholeTree is the one of the pool.
Tree(lv, m) ==
  LET tree[l \in 0..TREE_DEPTH] ==
        [k \in 0..(2^(TREE_DEPTH - l) - 1) |->
           IF l = 0 THEN IF k < m THEN lv[k] ELSE NoLeaf
           ELSE Node(tree[l - 1][2 * k], tree[l - 1][2 * k + 1])]
  IN  tree

\* The numbers of the nodes of a level.
Places(l) == 0..(2^(TREE_DEPTH - l) - 1)

LEMMA TreeDef ==
  ASSUME NEW lv, NEW m
  PROVE  /\ \A k \in Places(0) : Tree(lv, m)[0][k] = IF k < m THEN lv[k] ELSE NoLeaf
         /\ \A l \in 1..TREE_DEPTH : \A k \in Places(l) :
              Tree(lv, m)[l][k] = Node(Tree(lv, m)[l - 1][2 * k], Tree(lv, m)[l - 1][2 * k + 1])
<1> DEFINE Row(f, l) == [k \in Places(l) |->
                           IF l = 0 THEN IF k < m THEN lv[k] ELSE NoLeaf
                           ELSE Node(f[l - 1][2 * k], f[l - 1][2 * k + 1])]
           Is(f, n) == f = [l \in 0..n |-> Row(f, l)]
           S == {n \in Nat : \E f : Is(f, n)}
<1>1. 0 \in S
  <2> DEFINE f == [l \in 0..0 |-> [k \in Places(l) |-> IF k < m THEN lv[k] ELSE NoLeaf]]
  <2>1. \A l \in 0..0 : Row(f, l) = [k \in Places(l) |-> IF k < m THEN lv[k] ELSE NoLeaf]
    OBVIOUS
  <2>2. Is(f, 0)
    BY <2>1
  <2>. QED
    BY <2>2
<1>2. ASSUME NEW n \in Nat, n \in S
      PROVE  n + 1 \in S
  <2>1. PICK f : Is(f, n)
    BY <1>2
  <2> DEFINE g == [l \in 0..(n + 1) |-> Row(f, l)]
  <2>2. \A l \in 0..n : g[l] = f[l]
    <3> HIDE DEF Row
    <3>. QED
      BY <2>1
  <2>3. \A l \in 0..(n + 1) : l = 0 \/ l - 1 \in 0..n
    OBVIOUS
  <2>4. \A l \in 0..(n + 1) : Row(g, l) = Row(f, l)
    <3> HIDE DEF g
    <3>. QED
      BY <2>2, <2>3
  <2>5. Is(g, n + 1)
    BY <2>4
  <2> HIDE DEF Is, g
  <2>. QED
    BY <2>5
<1>3. TREE_DEPTH \in Nat
  BY MixerConstants
<1>4. TREE_DEPTH \in S
  <2> HIDE DEF S
  <2>. QED
    BY <1>1, <1>2, <1>3, Induction
<1>5. Is(Tree(lv, m), TREE_DEPTH)
  <2>1. Tree(lv, m) = CHOOSE f : Is(f, TREE_DEPTH)
    BY DEF Tree, Places
  <2>. QED
    BY <1>4, <2>1
<1> DEFINE t == Tree(lv, m)
<1>6. \A l \in 0..TREE_DEPTH : t[l] = Row(t, l)
  BY <1>5
<1> HIDE DEF t
<1>7. \A k \in Places(0) : t[0][k] = IF k < m THEN lv[k] ELSE NoLeaf
  <2>1. 0 \in 0..TREE_DEPTH
    BY <1>3
  <2>2. t[0] = Row(t, 0)
    BY <1>6, <2>1, Zenon
  <2>3. Row(t, 0) = [k \in Places(0) |-> IF k < m THEN lv[k] ELSE NoLeaf]
    OBVIOUS
  <2>. QED
    BY <2>2, <2>3
<1>8. ASSUME NEW l \in 1..TREE_DEPTH, NEW k \in Places(l)
      PROVE  t[l][k] = Node(t[l - 1][2 * k], t[l - 1][2 * k + 1])
  <2>1. l \in 0..TREE_DEPTH /\ l # 0
    BY <1>3
  <2>. QED
    BY <1>6, <2>1
<1>. QED
  BY <1>7, <1>8 DEF t

LEMMA WholeTreeIs == WholeTree = Tree(nodes[0], Count)
BY DEF WholeTree, Tree, LeafOf

\* The path an insertion writes: the leaf, then each node from the one below it.
LEMMA InsertPathDef ==
  ASSUME NEW leaf, NEW i \in Nat
  PROVE  LET path == InsertPath(leaf, i)
         IN  /\ path[0] = leaf
             /\ \A l \in 1..TREE_DEPTH :
                  path[l] = IF At(i, l - 1) % 2 = 0 THEN Node(path[l - 1], Zeros[l - 1])
                            ELSE Node(nodes[l - 1][At(i, l - 1) - 1], path[l - 1])
<1> DEFINE Next_(f, l) == IF l = 0 THEN leaf
                          ELSE IF At(i, l - 1) % 2 = 0 THEN Node(f[l - 1], Zeros[l - 1])
                          ELSE Node(nodes[l - 1][At(i, l - 1) - 1], f[l - 1])
           Is(f, n) == f = [l \in 0..n |-> Next_(f, l)]
           S == {n \in Nat : \E f : Is(f, n)}
<1>1. 0 \in S
  <2>1. Is([l \in 0..0 |-> leaf], 0)
    OBVIOUS
  <2>. QED
    BY <2>1
<1>2. ASSUME NEW n \in Nat, n \in S
      PROVE  n + 1 \in S
  <2>1. PICK f : Is(f, n)
    BY <1>2
  <2> DEFINE g == [l \in 0..(n + 1) |-> Next_(f, l)]
  <2>2. \A l \in 0..n : g[l] = f[l]
    BY <2>1
  <2>3. \A l \in 0..(n + 1) : l = 0 \/ l - 1 \in 0..n
    OBVIOUS
  <2>4. \A l \in 0..(n + 1) : Next_(g, l) = Next_(f, l)
    <3> HIDE DEF g
    <3>. QED
      BY <2>2, <2>3
  <2>5. Is(g, n + 1)
    BY <2>4
  <2> HIDE DEF Is, g
  <2>. QED
    BY <2>5
<1>3. TREE_DEPTH \in Nat
  BY MixerConstants
<1>4. TREE_DEPTH \in S
  <2> HIDE DEF S
  <2>. QED
    BY <1>1, <1>2, <1>3, Induction
<1>5. Is(InsertPath(leaf, i), TREE_DEPTH)
  <2>1. InsertPath(leaf, i) = CHOOSE f : Is(f, TREE_DEPTH)
    BY DEF InsertPath
  <2>. QED
    BY <1>4, <2>1
<1> DEFINE path == InsertPath(leaf, i)
<1>6. \A l \in 0..TREE_DEPTH : path[l] = Next_(path, l)
  BY <1>5
<1> HIDE DEF path
<1>7. path[0] = leaf /\ \A l \in 1..TREE_DEPTH : path[l] = Next_(path, l)
  BY <1>3, <1>6
<1>. QED
  BY <1>7 DEF path

\* What a leaf and its siblings fold to, level by level.
FoldPath(leaf, i, siblings) ==
  LET path[l \in 0..TREE_DEPTH] ==
        IF l = 0 THEN leaf
        ELSE IF At(i, l - 1) % 2 = 0
             THEN Node(path[l - 1], siblings[l])
             ELSE Node(siblings[l], path[l - 1])
  IN  path

LEMMA FoldDef ==
  ASSUME NEW leaf, NEW i \in Nat, NEW siblings
  PROVE  LET path == FoldPath(leaf, i, siblings)
         IN  /\ path[0] = leaf /\ Fold(leaf, i, siblings) = path[TREE_DEPTH]
             /\ \A l \in 1..TREE_DEPTH :
                  path[l] = IF At(i, l - 1) % 2 = 0 THEN Node(path[l - 1], siblings[l])
                            ELSE Node(siblings[l], path[l - 1])
<1> DEFINE Next_(f, l) == IF l = 0 THEN leaf
                          ELSE IF At(i, l - 1) % 2 = 0 THEN Node(f[l - 1], siblings[l])
                          ELSE Node(siblings[l], f[l - 1])
           Is(f, n) == f = [l \in 0..n |-> Next_(f, l)]
           S == {n \in Nat : \E f : Is(f, n)}
<1>1. 0 \in S
  <2>1. Is([l \in 0..0 |-> leaf], 0)
    OBVIOUS
  <2>. QED
    BY <2>1
<1>2. ASSUME NEW n \in Nat, n \in S
      PROVE  n + 1 \in S
  <2>1. PICK f : Is(f, n)
    BY <1>2
  <2> DEFINE g == [l \in 0..(n + 1) |-> Next_(f, l)]
  <2>2. \A l \in 0..n : g[l] = f[l]
    BY <2>1
  <2>3. \A l \in 0..(n + 1) : l = 0 \/ l - 1 \in 0..n
    OBVIOUS
  <2>4. \A l \in 0..(n + 1) : Next_(g, l) = Next_(f, l)
    <3> HIDE DEF g
    <3>. QED
      BY <2>2, <2>3
  <2>5. Is(g, n + 1)
    BY <2>4
  <2> HIDE DEF Is, g
  <2>. QED
    BY <2>5
<1>3. TREE_DEPTH \in Nat
  BY MixerConstants
<1>4. TREE_DEPTH \in S
  <2> HIDE DEF S
  <2>. QED
    BY <1>1, <1>2, <1>3, Induction
<1>5. Is(FoldPath(leaf, i, siblings), TREE_DEPTH)
  <2>1. FoldPath(leaf, i, siblings) = CHOOSE f : Is(f, TREE_DEPTH)
    BY DEF FoldPath
  <2>. QED
    BY <1>4, <2>1
<1> DEFINE path == FoldPath(leaf, i, siblings)
<1>6. \A l \in 0..TREE_DEPTH : path[l] = Next_(path, l)
  BY <1>5
<1>7. Fold(leaf, i, siblings) = path[TREE_DEPTH]
  BY DEF Fold, FoldPath
<1> HIDE DEF path
<1>8. path[0] = leaf /\ \A l \in 1..TREE_DEPTH : path[l] = Next_(path, l)
  BY <1>3, <1>6
<1>. QED
  BY <1>7, <1>8 DEF path

-----------------------------------------------------------------------------
(* The places of a tree.                                                    *)

LEMMA ChildPlaces ==
  ASSUME NEW l \in 1..TREE_DEPTH, NEW k \in Places(l)
  PROVE  2 * k \in Places(l - 1) /\ 2 * k + 1 \in Places(l - 1) /\ k \in Nat
<1>1. TREE_DEPTH - l \in Nat /\ TREE_DEPTH - (l - 1) = (TREE_DEPTH - l) + 1
  BY MixerConstants
<1>2. /\ 2^(TREE_DEPTH - l) \in Nat \ {0}
      /\ 2^(TREE_DEPTH - (l - 1)) = 2 * 2^(TREE_DEPTH - l)
  BY <1>1, TwoPowers
<1>. QED
  BY <1>2 DEF Places

LEMMA AncestorPlaces ==
  ASSUME NEW i \in Places(0), NEW l \in 0..TREE_DEPTH
  PROVE  At(i, l) \in Places(l)
<1> DEFINE S == {n \in Nat : n <= TREE_DEPTH => At(i, n) \in Places(n)}
<1>1. i \in Nat
  BY TwoPowers, MixerConstants DEF Places
<1>2. 0 \in S
  BY <1>1, Halving
<1>3. ASSUME NEW n \in Nat, n \in S
      PROVE  n + 1 \in S
  <2> SUFFICES ASSUME n + 1 <= TREE_DEPTH
               PROVE  At(i, n + 1) \in Places(n + 1)
    OBVIOUS
  <2>1. At(i, n) \in Places(n) /\ At(i, n) \in Nat /\ At(i, n + 1) = At(i, n) \div 2
    BY <1>1, <1>3, Halving, MixerConstants
  <2>2. TREE_DEPTH - (n + 1) \in Nat /\ TREE_DEPTH - n = (TREE_DEPTH - (n + 1)) + 1
    BY MixerConstants
  <2>3. /\ 2^(TREE_DEPTH - (n + 1)) \in Nat \ {0}
        /\ 2^(TREE_DEPTH - n) = 2 * 2^(TREE_DEPTH - (n + 1))
    BY <2>2, TwoPowers
  <2>. QED
    BY <2>1, <2>3 DEF Places
<1>4. l \in Nat
  BY MixerConstants
<1>5. l \in S
  <2> HIDE DEF S
  <2>. QED
    BY <1>2, <1>3, <1>4, Induction
<1>. QED
  BY <1>5, MixerConstants

\* The leaves the contract admits are places of the tree, whose root is number 0.
LEMMA LeafPlaces ==
  /\ \A i \in Leaves : i \in Places(0) /\ i \in Nat
  /\ 0 \in Places(TREE_DEPTH)
  /\ \A i \in Places(0) : i \in Nat /\ At(i, TREE_DEPTH) = 0
<1>1. 2^TREE_DEPTH \in Nat /\ TREE_DEPTH - 0 = TREE_DEPTH /\ TREE_DEPTH - TREE_DEPTH = 0
      /\ 2^0 = 1 /\ TREE_DEPTH \in Nat
  BY TwoPowers, MixerConstants
<1>2. Places(TREE_DEPTH) = {0} /\ Places(0) = 0..(2^TREE_DEPTH - 1)
  BY <1>1 DEF Places
<1>3. \A i \in Leaves : i \in Places(0) /\ i \in Nat
  BY <1>1, <1>2, MixerConstants DEF Leaves
<1>4. ASSUME NEW i \in Places(0)
      PROVE  i \in Nat /\ At(i, TREE_DEPTH) = 0
  <2>1. TREE_DEPTH \in 0..TREE_DEPTH
    BY <1>1
  <2>. QED
    BY <1>1, <1>2, <2>1, AncestorPlaces
<1>. QED
  BY <1>2, <1>3, <1>4

-----------------------------------------------------------------------------
(* Trees over a sequence of leaves.                                         *)

\* Right of the last leaf's ancestors every subtree is empty.
LEMMA TreeEmpty ==
  ASSUME NEW lv, NEW m \in Nat, NEW l \in 0..TREE_DEPTH, NEW k \in Places(l),
         m > 0 => k > At(m - 1, l)
  PROVE  Tree(lv, m)[l][k] = Zeros[l]
<1> DEFINE T == Tree(lv, m)
           S == {n \in Nat : n <= TREE_DEPTH =>
                   \A j \in Places(n) : (m > 0 => j > At(m - 1, n)) => T[n][j] = Zeros[n]}
<1>1. 0 \in S
  <2> SUFFICES ASSUME NEW j \in Places(0), m > 0 => j > At(m - 1, 0)
               PROVE  T[0][j] = Zeros[0]
    OBVIOUS
  <2>1. j \in Nat
    BY LeafPlaces
  <2>2. m > 0 => j > m - 1
    BY Halving
  <2>3. ~(j < m)
    BY <2>1, <2>2
  <2>. QED
    BY <2>3, TreeDef, ZerosDef
<1>2. ASSUME NEW n \in Nat, n \in S
      PROVE  n + 1 \in S
  <2> SUFFICES ASSUME n + 1 <= TREE_DEPTH, NEW j \in Places(n + 1), m > 0 => j > At(m - 1, n + 1)
               PROVE  T[n + 1][j] = Zeros[n + 1]
    OBVIOUS
  <2>1. n + 1 \in 1..TREE_DEPTH /\ (n + 1) - 1 = n
    BY MixerConstants
  <2>2. 2 * j \in Places(n) /\ 2 * j + 1 \in Places(n) /\ j \in Nat
    BY <2>1, ChildPlaces
  <2>3. m > 0 => 2 * j > At(m - 1, n) /\ 2 * j + 1 > At(m - 1, n)
    <3> SUFFICES ASSUME m > 0
                 PROVE  2 * j > At(m - 1, n) /\ 2 * j + 1 > At(m - 1, n)
      OBVIOUS
    <3>1. m - 1 \in Nat
      OBVIOUS
    <3>2. At(m - 1, n) \in Nat /\ At(m - 1, n + 1) = At(m - 1, n) \div 2
      BY <3>1, Halving
    <3>. QED
      BY <2>2, <3>2
  <2>4. T[n][2 * j] = Zeros[n] /\ T[n][2 * j + 1] = Zeros[n]
    BY <1>2, <2>1, <2>2, <2>3, MixerConstants
  <2>5. T[n + 1][j] = Node(T[n][2 * j], T[n][2 * j + 1])
    BY <2>1, TreeDef
  <2>6. Zeros[n + 1] = Node(Zeros[n], Zeros[n])
    BY <2>1, ZerosDef
  <2>. QED
    BY <2>4, <2>5, <2>6
<1>3. l \in Nat /\ l <= TREE_DEPTH
  BY MixerConstants
<1>4. l \in S
  <2> HIDE DEF S
  <2>. QED
    BY <1>1, <1>2, <1>3, Induction
<1>. QED
  BY <1>3, <1>4

\* Trees whose leaves differ at most in number i differ at most above it.
LEMMA TreeAgree ==
  ASSUME NEW lv, NEW m, NEW lw, NEW n, NEW i \in Nat,
         \A k \in Places(0) : k # i => Tree(lv, m)[0][k] = Tree(lw, n)[0][k],
         NEW l \in 0..TREE_DEPTH, NEW k \in Places(l), k # At(i, l)
  PROVE  Tree(lv, m)[l][k] = Tree(lw, n)[l][k]
<1> DEFINE T == Tree(lv, m)
           U == Tree(lw, n)
           S == {h \in Nat : h <= TREE_DEPTH =>
                   \A j \in Places(h) : j # At(i, h) => T[h][j] = U[h][j]}
<1>1. 0 \in S
  BY Halving
<1>2. ASSUME NEW h \in Nat, h \in S
      PROVE  h + 1 \in S
  <2> SUFFICES ASSUME h + 1 <= TREE_DEPTH, NEW j \in Places(h + 1), j # At(i, h + 1)
               PROVE  T[h + 1][j] = U[h + 1][j]
    OBVIOUS
  <2>1. h + 1 \in 1..TREE_DEPTH /\ (h + 1) - 1 = h
    BY MixerConstants
  <2>2. 2 * j \in Places(h) /\ 2 * j + 1 \in Places(h) /\ j \in Nat
    BY <2>1, ChildPlaces
  <2>3. At(i, h) \in Nat /\ At(i, h + 1) = At(i, h) \div 2
    BY Halving
  <2>4. 2 * j # At(i, h) /\ 2 * j + 1 # At(i, h)
    BY <2>2, <2>3
  <2>5. T[h][2 * j] = U[h][2 * j] /\ T[h][2 * j + 1] = U[h][2 * j + 1]
    BY <1>2, <2>1, <2>2, <2>4, MixerConstants
  <2>6. /\ T[h + 1][j] = Node(T[h][2 * j], T[h][2 * j + 1])
        /\ U[h + 1][j] = Node(U[h][2 * j], U[h][2 * j + 1])
    BY <2>1, TreeDef
  <2>. QED
    BY <2>5, <2>6
<1>3. l \in Nat /\ l <= TREE_DEPTH
  BY MixerConstants
<1>4. l \in S
  <2> HIDE DEF S
  <2>. QED
    BY <1>1, <1>2, <1>3, Induction
<1>. QED
  BY <1>3, <1>4

\* A tree depends on its leaves only.
LEMMA TreeSame ==
  ASSUME NEW lv, NEW m, NEW lw, NEW n,
         \A k \in Places(0) : Tree(lv, m)[0][k] = Tree(lw, n)[0][k],
         NEW l \in 0..TREE_DEPTH, NEW k \in Places(l)
  PROVE  Tree(lv, m)[l][k] = Tree(lw, n)[l][k]
<1> DEFINE T == Tree(lv, m)
           U == Tree(lw, n)
           S == {h \in Nat : h <= TREE_DEPTH => \A j \in Places(h) : T[h][j] = U[h][j]}
<1>1. 0 \in S
  OBVIOUS
<1>2. ASSUME NEW h \in Nat, h \in S
      PROVE  h + 1 \in S
  <2> SUFFICES ASSUME h + 1 <= TREE_DEPTH, NEW j \in Places(h + 1)
               PROVE  T[h + 1][j] = U[h + 1][j]
    OBVIOUS
  <2>1. h + 1 \in 1..TREE_DEPTH /\ (h + 1) - 1 = h
    BY MixerConstants
  <2>2. 2 * j \in Places(h) /\ 2 * j + 1 \in Places(h)
    BY <2>1, ChildPlaces
  <2>3. T[h][2 * j] = U[h][2 * j] /\ T[h][2 * j + 1] = U[h][2 * j + 1]
    BY <1>2, <2>1, <2>2, MixerConstants
  <2>4. /\ T[h + 1][j] = Node(T[h][2 * j], T[h][2 * j + 1])
        /\ U[h + 1][j] = Node(U[h][2 * j], U[h][2 * j + 1])
    BY <2>1, TreeDef
  <2>. QED
    BY <2>3, <2>4
<1>3. l \in Nat /\ l <= TREE_DEPTH
  BY MixerConstants
<1>4. l \in S
  <2> HIDE DEF S
  <2>. QED
    BY <1>1, <1>2, <1>3, Induction
<1>. QED
  BY <1>3, <1>4

\* A path that ends in the root of a tree starts in that tree's leaf, whatever
\* the siblings: a node has one pair of children.
LEMMA FoldInverse ==
  ASSUME NEW leaf, NEW i \in Places(0), NEW siblings, NEW lv, NEW m,
         Fold(leaf, i, siblings) = Tree(lv, m)[TREE_DEPTH][0]
  PROVE  leaf = Tree(lv, m)[0][i]
<1> DEFINE T == Tree(lv, m)
           path == FoldPath(leaf, i, siblings)
           S == {n \in Nat : n <= TREE_DEPTH =>
                   path[TREE_DEPTH - n] = T[TREE_DEPTH - n][At(i, TREE_DEPTH - n)]}
<1>0. i \in Nat /\ TREE_DEPTH \in Nat
  BY LeafPlaces, MixerConstants
<1>f. /\ path[0] = leaf /\ Fold(leaf, i, siblings) = path[TREE_DEPTH]
      /\ \A l \in 1..TREE_DEPTH :
           path[l] = IF At(i, l - 1) % 2 = 0 THEN Node(path[l - 1], siblings[l])
                     ELSE Node(siblings[l], path[l - 1])
  BY <1>0, FoldDef
<1> HIDE DEF path
<1>1. 0 \in S
  <2>1. TREE_DEPTH - 0 = TREE_DEPTH /\ At(i, TREE_DEPTH) = 0
    BY <1>0, LeafPlaces
  <2>2. path[TREE_DEPTH] = T[TREE_DEPTH][0]
    BY <1>f
  <2>. QED
    BY <2>1, <2>2
<1>2. ASSUME NEW n \in Nat, n \in S
      PROVE  n + 1 \in S
  <2> SUFFICES ASSUME n + 1 <= TREE_DEPTH
               PROVE  path[TREE_DEPTH - (n + 1)]
                        = T[TREE_DEPTH - (n + 1)][At(i, TREE_DEPTH - (n + 1))]
    OBVIOUS
  <2> DEFINE h == TREE_DEPTH - (n + 1)
             a == At(i, h + 1)
             b == At(i, h)
  <2>1. h \in Nat /\ h + 1 \in 1..TREE_DEPTH /\ h + 1 \in 0..TREE_DEPTH /\ (h + 1) - 1 = h
        /\ TREE_DEPTH - n = h + 1
    BY <1>0
  <2>2. a \in Places(h + 1) /\ b \in Nat /\ a = b \div 2
    BY <1>0, <2>1, AncestorPlaces, Halving
  <2>3. path[h + 1] = T[h + 1][a]
    BY <1>0, <1>2, <2>1
  <2>4. T[h + 1][a] = Node(T[h][2 * a], T[h][2 * a + 1])
    BY <2>1, <2>2, TreeDef
  <2>5. path[h + 1] = IF b % 2 = 0 THEN Node(path[h], siblings[h + 1])
                      ELSE Node(siblings[h + 1], path[h])
    <3>1. At(i, (h + 1) - 1) = b /\ path[(h + 1) - 1] = path[h]
      BY <2>1
    <3>. QED
      BY <2>1, <3>1, <1>f
  <2> HIDE DEF a, b, h, T
  <2>6. CASE b % 2 = 0
    <3>1. b = 2 * a
      BY <2>2, <2>6
    <3>2. path[h] = T[h][2 * a]
      BY <2>3, <2>4, <2>5, <2>6 DEF Node
    <3>. QED
      BY <3>1, <3>2 DEF b, h
  <2>7. CASE b % 2 # 0
    <3>1. b = 2 * a + 1
      BY <2>2, <2>7
    <3>2. path[h] = T[h][2 * a + 1]
      BY <2>3, <2>4, <2>5, <2>7 DEF Node
    <3>. QED
      BY <3>1, <3>2 DEF b, h
  <2>. QED
    BY <2>6, <2>7
<1>3. TREE_DEPTH \in S
  <2> HIDE DEF S
  <2>. QED
    BY <1>0, <1>1, <1>2, Induction
<1>4. path[0] = T[0][At(i, 0)]
  BY <1>0, <1>3
<1>5. At(i, 0) = i
  BY <1>0, Halving
<1>. QED
  BY <1>4, <1>5, <1>f

-----------------------------------------------------------------------------
(* What an insertion writes.                                                *)

\* The ancestors of two leaves in a row are the same or next to each other.
LEMMA Neighbours ==
  ASSUME NEW m \in Nat, NEW l \in Nat
  PROVE  /\ At(m, l) \in Nat /\ (m = 0 => At(m, l) = 0)
         /\ m > 0 => /\ At(m - 1, l) \in Nat
                     /\ At(m - 1, l) <= At(m, l) /\ At(m, l) <= At(m - 1, l) + 1
<1> DEFINE S == {n \in Nat : /\ m = 0 => At(m, n) = 0
                             /\ m > 0 => /\ At(m - 1, n) <= At(m, n)
                                         /\ At(m, n) <= At(m - 1, n) + 1}
<1>1. 0 \in S
  BY Halving
<1>2. ASSUME NEW n \in Nat, n \in S
      PROVE  n + 1 \in S
  <2>1. At(m, n) \in Nat /\ At(m, n + 1) = At(m, n) \div 2
    BY Halving
  <2>2. m > 0 => At(m - 1, n) \in Nat /\ At(m - 1, n + 1) = At(m - 1, n) \div 2
    BY Halving
  <2>. QED
    BY <1>2, <2>1, <2>2
<1>3. l \in S
  <2> HIDE DEF S
  <2>. QED
    BY <1>1, <1>2, Induction
<1>4. m > 0 => At(m - 1, l) \in Nat
  <2>1. m > 0 => m - 1 \in Nat
    OBVIOUS
  <2>. QED
    BY <2>1, Halving
<1>. QED
  BY <1>3, <1>4, Halving

\* nd stores exactly the nodes of the tree over the first m leaves of lv that have
\* a leaf below them.
StoredTree(nd, lv, m) ==
  \A l \in Levels :
    /\ DOMAIN nd[l] = {k \in Nat : m > 0 /\ k <= At(m - 1, l)}
    /\ \A k \in DOMAIN nd[l] : nd[l][k] = Tree(lv, m)[l][k]

\* lw holds the first m leaves of lv and then another one.
Extends(lw, lv, m, leaf) == (\A k \in 0..(m - 1) : lw[k] = lv[k]) /\ lw[m] = leaf

LEMMA LeavesKept ==
  ASSUME NEW lw, NEW lv, NEW m \in Nat, NEW leaf, Extends(lw, lv, m, leaf),
         NEW k \in Places(0), k # m
  PROVE  Tree(lv, m)[0][k] = Tree(lw, m + 1)[0][k]
<1>1. k \in Nat /\ (k < m + 1 <=> k < m)
  BY LeafPlaces
<1>2. k < m => lw[k] = lv[k]
  BY <1>1 DEF Extends
<1>. QED
  BY <1>1, <1>2, TreeDef

\* The incremental path is the path of the whole new tree.
LEMMA PathInTree ==
  ASSUME NEW nd, NEW lv, NEW m \in Leaves, StoredTree(nd, lv, m),
         NEW lw, NEW leaf, Extends(lw, lv, m, leaf),
         NEW path, path[0] = leaf,
         \A l \in 1..TREE_DEPTH :
           path[l] = IF At(m, l - 1) % 2 = 0 THEN Node(path[l - 1], Zeros[l - 1])
                     ELSE Node(nd[l - 1][At(m, l - 1) - 1], path[l - 1]),
         NEW l \in 0..TREE_DEPTH
  PROVE  path[l] = Tree(lw, m + 1)[l][At(m, l)]
<1> DEFINE T == Tree(lv, m)
           U == Tree(lw, m + 1)
           S == {n \in Nat : n <= TREE_DEPTH => path[n] = U[n][At(m, n)]}
<1>0. m \in Nat /\ m \in Places(0) /\ TREE_DEPTH \in Nat
  BY LeafPlaces, MixerConstants
<1>1. 0 \in S
  <2>1. U[0][m] = leaf
    BY <1>0, TreeDef DEF Extends
  <2>. QED
    BY <1>0, <2>1, Halving
<1>2. ASSUME NEW n \in Nat, n \in S
      PROVE  n + 1 \in S
  <2> SUFFICES ASSUME n + 1 <= TREE_DEPTH
               PROVE  path[n + 1] = U[n + 1][At(m, n + 1)]
    OBVIOUS
  <2> DEFINE a == At(m, n + 1)
             b == At(m, n)
  <2>1. n + 1 \in 1..TREE_DEPTH /\ n + 1 \in 0..TREE_DEPTH /\ n \in 0..TREE_DEPTH
        /\ (n + 1) - 1 = n /\ n \in Levels
    BY <1>0 DEF Levels
  <2>2. a \in Places(n + 1) /\ b \in Nat /\ a = b \div 2 /\ a \in Nat
    BY <1>0, <2>1, AncestorPlaces, Halving
  <2>3. path[n] = U[n][b]
    BY <1>2, <2>1, <1>0
  <2>4. U[n + 1][a] = Node(U[n][2 * a], U[n][2 * a + 1])
    BY <2>1, <2>2, TreeDef
  <2>5. path[n + 1] = IF b % 2 = 0 THEN Node(path[n], Zeros[n])
                      ELSE Node(nd[n][b - 1], path[n])
    <3>1. At(m, (n + 1) - 1) = b /\ path[(n + 1) - 1] = path[n]
          /\ Zeros[(n + 1) - 1] = Zeros[n] /\ nd[(n + 1) - 1] = nd[n]
      BY <2>1
    <3>. QED
      BY <2>1, <3>1
  <2>6. 2 * a \in Places(n) /\ 2 * a + 1 \in Places(n)
    BY <2>1, <2>2, ChildPlaces
  <2>7. CASE b % 2 = 0
    <3>1. b = 2 * a /\ 2 * a + 1 > b
      BY <2>2, <2>7
    <3>2. U[n][2 * a + 1] = Zeros[n]
      <4>1. m + 1 \in Nat /\ (m + 1) - 1 = m
        BY <1>0
      <4>. QED
        BY <2>1, <2>6, <3>1, <4>1, TreeEmpty
    <3>. QED
      BY <2>3, <2>4, <2>5, <2>7, <3>1, <3>2
  <2>8. CASE b % 2 # 0
    <3>1. b = 2 * a + 1 /\ b - 1 = 2 * a
      BY <2>2, <2>8
    <3>2. 2 * a \in DOMAIN nd[n]
      <4>1. m > 0 /\ 2 * a <= At(m - 1, n) /\ 2 * a \in Nat
        <5>1. m > 0
          BY <1>0, <2>1, <2>2, <3>1, Neighbours
        <5>2. At(m - 1, n) \in Nat /\ b <= At(m - 1, n) + 1
          BY <1>0, <5>1, Neighbours
        <5>. QED
          BY <2>2, <3>1, <5>1, <5>2
      <4>. QED
        BY <2>1, <4>1 DEF StoredTree
    <3>3. nd[n][2 * a] = T[n][2 * a]
      BY <2>1, <3>2 DEF StoredTree
    <3>4. T[n][2 * a] = U[n][2 * a]
      <4>1. 2 * a # At(m, n)
        BY <2>2, <3>1
      <4>2. \A k \in Places(0) : k # m => T[0][k] = U[0][k]
        BY <1>0, LeavesKept
      <4> DEFINE c == 2 * a
      <4>3. c \in Places(n) /\ c # At(m, n)
        BY <2>6, <4>1
      <4> HIDE DEF c, a
      <4>4. Tree(lv, m)[n][c] = Tree(lw, m + 1)[n][c]
        BY <1>0, <2>1, <4>2, <4>3, TreeAgree
      <4>. QED
        BY <4>4 DEF c
    <3>. QED
      BY <2>3, <2>4, <2>5, <2>8, <3>1, <3>3, <3>4
  <2>. QED
    BY <2>7, <2>8
<1>3. l \in Nat /\ l <= TREE_DEPTH
  BY MixerConstants
<1>4. l \in S
  <2> HIDE DEF S
  <2>. QED
    BY <1>1, <1>2, <1>3, Induction
<1>. QED
  BY <1>3, <1>4

\* An insertion stores the next tree.
LEMMA InsertStored ==
  ASSUME NEW nd, NEW lv, NEW m \in Leaves, StoredTree(nd, lv, m),
         NEW lw, NEW leaf, Extends(lw, lv, m, leaf), NEW path,
         \A l \in 0..TREE_DEPTH : path[l] = Tree(lw, m + 1)[l][At(m, l)],
         NEW ne,
         \A l \in Levels :
           /\ DOMAIN ne[l] = {k \in Nat : k <= At(m, l)}
           /\ \A k \in DOMAIN ne[l] : ne[l][k] = IF k = At(m, l) THEN path[l] ELSE nd[l][k]
  PROVE  StoredTree(ne, lw, m + 1)
<1> SUFFICES ASSUME NEW l \in Levels
             PROVE  /\ DOMAIN ne[l] = {k \in Nat : m + 1 > 0 /\ k <= At((m + 1) - 1, l)}
                    /\ \A k \in DOMAIN ne[l] : ne[l][k] = Tree(lw, m + 1)[l][k]
  BY DEF StoredTree
<1>1. m \in Nat /\ m \in Places(0) /\ l \in 0..TREE_DEPTH /\ l \in Nat /\ m + 1 > 0 /\ (m + 1) - 1 = m
  BY LeafPlaces, MixerConstants DEF Levels
<1>2. ASSUME NEW k \in DOMAIN ne[l]
      PROVE  ne[l][k] = Tree(lw, m + 1)[l][k]
  <2>0. DOMAIN ne[l] = {q \in Nat : q <= At(m, l)} /\ At(m, l) \in Nat
    BY <1>1, Halving
  <2>1. k \in Nat /\ k <= At(m, l) /\ At(m, l) \in Nat
    BY <1>2, <2>0
  <2>2. CASE k = At(m, l)
    BY <1>1, <2>2
  <2>3. CASE k # At(m, l)
    <3>1. m > 0 /\ k <= At(m - 1, l)
      <4>1. m > 0
        BY <1>1, <2>1, <2>3, Neighbours
      <4>2. At(m - 1, l) \in Nat /\ At(m, l) <= At(m - 1, l) + 1
        BY <1>1, <4>1, Neighbours
      <4>. QED
        BY <2>1, <2>3, <4>1, <4>2
    <3>2. k \in DOMAIN nd[l]
      BY <2>1, <3>1 DEF StoredTree
    <3>3. ne[l][k] = Tree(lv, m)[l][k]
      BY <2>3, <3>2 DEF StoredTree
    <3>4. k \in Places(l)
      <4>1. At(m, l) \in Places(l)
        BY <1>1, AncestorPlaces
      <4>2. 2^(TREE_DEPTH - l) \in Nat
        BY <1>1, TwoPowers, MixerConstants
      <4>. QED
        BY <2>1, <4>1, <4>2 DEF Places
    <3>5. \A j \in Places(0) : j # m => Tree(lv, m)[0][j] = Tree(lw, m + 1)[0][j]
      BY <1>1, LeavesKept
    <3>. QED
      BY <1>1, <2>3, <3>3, <3>4, <3>5, TreeAgree
  <2>. QED
    BY <2>2, <2>3
<1>. QED
  BY <1>1, <1>2

-----------------------------------------------------------------------------
(* What get_sibling answers.                                                *)

LEMMA SiblingInTree ==
  ASSUME NEW nd, NEW lv, NEW m \in Nat, StoredTree(nd, lv, m),
         NEW i \in Places(0), NEW l \in Levels
  PROVE  LET k == Beside(At(i, l))
         IN  /\ k \in Places(l)
             /\ (IF k \in DOMAIN nd[l] THEN nd[l][k] ELSE Zeros[l]) = Tree(lv, m)[l][k]
<1> DEFINE b == At(i, l)
           k == Beside(b)
<1>1. l \in Nat /\ l \in 0..TREE_DEPTH /\ l + 1 \in 1..TREE_DEPTH /\ l + 1 \in 0..TREE_DEPTH
      /\ (l + 1) - 1 = l /\ i \in Nat
  BY LeafPlaces, MixerConstants DEF Levels
<1>2. b \in Nat /\ b \div 2 \in Places(l + 1)
  BY <1>1, AncestorPlaces, Halving
<1>3. 2 * (b \div 2) \in Places(l) /\ 2 * (b \div 2) + 1 \in Places(l)
  BY <1>1, <1>2, ChildPlaces
<1>4. k \in Places(l) /\ k \in Nat
  <2> HIDE DEF b
  <2>1. CASE b % 2 = 0
    <3>1. k = 2 * (b \div 2) + 1
      BY <1>2, <2>1 DEF Beside
    <3>. QED
      BY <1>2, <1>3, <3>1
  <2>2. CASE b % 2 # 0
    <3>1. k = 2 * (b \div 2)
      BY <1>2, <2>2 DEF Beside
    <3>. QED
      BY <1>2, <1>3, <3>1
  <2>. QED
    BY <2>1, <2>2
<1> HIDE DEF k
<1>5. k \in DOMAIN nd[l] => nd[l][k] = Tree(lv, m)[l][k]
  BY DEF StoredTree
<1>6. k \notin DOMAIN nd[l] => Tree(lv, m)[l][k] = Zeros[l]
  <2> SUFFICES ASSUME k \notin DOMAIN nd[l]
               PROVE  Tree(lv, m)[l][k] = Zeros[l]
    OBVIOUS
  <2>1. ~(m > 0 /\ k <= At(m - 1, l))
    BY <1>4 DEF StoredTree
  <2>2. m > 0 => At(m - 1, l) \in Nat
    BY <1>1, Neighbours
  <2>3. m > 0 => k > At(m - 1, l)
    BY <1>4, <2>1, <2>2
  <2>. QED
    BY <1>1, <1>4, <2>3, TreeEmpty
<1>. QED
  BY <1>4, <1>5, <1>6 DEF k

\* A leaf of a tree folds with the nodes beside its ancestors to the root.
LEMMA FoldOfTree ==
  ASSUME NEW lv, NEW m, NEW i \in Places(0), NEW leaf, leaf = Tree(lv, m)[0][i], NEW siblings,
         \A l \in 1..TREE_DEPTH :
           siblings[l] = Tree(lv, m)[l - 1][Beside(At(i, l - 1))]
  PROVE  Fold(leaf, i, siblings) = Tree(lv, m)[TREE_DEPTH][0]
<1> DEFINE T == Tree(lv, m)
           path == FoldPath(leaf, i, siblings)
           S == {n \in Nat : n <= TREE_DEPTH => path[n] = T[n][At(i, n)]}
<1>0. i \in Nat /\ TREE_DEPTH \in Nat
  BY LeafPlaces, MixerConstants
<1>f. /\ path[0] = leaf /\ Fold(leaf, i, siblings) = path[TREE_DEPTH]
      /\ \A l \in 1..TREE_DEPTH :
           path[l] = IF At(i, l - 1) % 2 = 0 THEN Node(path[l - 1], siblings[l])
                     ELSE Node(siblings[l], path[l - 1])
  BY <1>0, FoldDef
<1> HIDE DEF path
<1>1. 0 \in S
  BY <1>0, <1>f, Halving
<1>2. ASSUME NEW n \in Nat, n \in S
      PROVE  n + 1 \in S
  <2> SUFFICES ASSUME n + 1 <= TREE_DEPTH
               PROVE  path[n + 1] = T[n + 1][At(i, n + 1)]
    OBVIOUS
  <2> DEFINE a == At(i, n + 1)
             b == At(i, n)
  <2>1. n + 1 \in 1..TREE_DEPTH /\ n + 1 \in 0..TREE_DEPTH /\ (n + 1) - 1 = n
    BY <1>0
  <2>2. a \in Places(n + 1) /\ b \in Nat /\ a = b \div 2
    BY <1>0, <2>1, AncestorPlaces, Halving
  <2>3. path[n] = T[n][b]
    BY <1>0, <1>2
  <2>4. T[n + 1][a] = Node(T[n][2 * a], T[n][2 * a + 1])
    BY <2>1, <2>2, TreeDef
  <2>5. siblings[n + 1] = T[n][Beside(b)]
    BY <2>1
  <2>6. path[n + 1] = IF b % 2 = 0 THEN Node(path[n], siblings[n + 1])
                      ELSE Node(siblings[n + 1], path[n])
    <3>1. At(i, (n + 1) - 1) = b /\ path[(n + 1) - 1] = path[n]
      BY <2>1
    <3>. QED
      BY <2>1, <3>1, <1>f
  <2> HIDE DEF a, b, T
  <2>7. CASE b % 2 = 0
    <3>1. b = 2 * a /\ Beside(b) = 2 * a + 1
      BY <2>2, <2>7 DEF Beside
    <3>. QED
      BY <2>3, <2>4, <2>5, <2>6, <2>7, <3>1 DEF a
  <2>8. CASE b % 2 # 0
    <3>1. b = 2 * a + 1 /\ Beside(b) = 2 * a
      BY <2>2, <2>8 DEF Beside
    <3>. QED
      BY <2>3, <2>4, <2>5, <2>6, <2>8, <3>1 DEF a
  <2>. QED
    BY <2>7, <2>8
<1>3. TREE_DEPTH \in S
  <2> HIDE DEF S
  <2>. QED
    BY <1>0, <1>1, <1>2, Induction
<1>4. path[TREE_DEPTH] = T[TREE_DEPTH][At(i, TREE_DEPTH)]
  BY <1>0, <1>3
<1>. QED
  BY <1>4, <1>f, LeafPlaces

-----------------------------------------------------------------------------
(* The pool's tree.                                                         *)

RootOf(n) == Tree(nodes[0], n)[TREE_DEPTH][0]

\* What the pool stores is the tree of its notes, and its roots are those of the
\* trees it went through.
TreeInv ==
  /\ Count <= CAPACITY /\ Count \in Nat
  /\ StoredTree(nodes, nodes[0], Count)
  /\ \A i \in 0..(Count - 1) : LeafOf(i) \in Notes
  /\ roots = [n \in 1..(Count + 1) |-> RootOf(n - 1)]
  /\ valid = {roots[n] : n \in {m \in 1..Len(roots) : m > Len(roots) - ROOT_HISTORY}}

\* Two of the pool's trees have two roots.
LEMMA RootsDiffer ==
  ASSUME TreeInv, NEW a \in 0..Count, NEW b \in 0..Count, a < b
  PROVE  RootOf(a) # RootOf(b)
<1> SUFFICES ASSUME RootOf(a) = RootOf(b)
             PROVE  FALSE
  OBVIOUS
<1>1. a \in 0..(Count - 1) /\ a \in Nat /\ b \in Nat /\ Count \in Nat /\ Count <= CAPACITY
  BY DEF TreeInv
<1>2. a \in Places(0)
  BY <1>1, LeafPlaces, MixerConstants DEF Leaves
<1> DEFINE leaf == Tree(nodes[0], b)[0][a]
           siblings == [l \in 1..TREE_DEPTH |-> Tree(nodes[0], b)[l - 1][Beside(At(a, l - 1))]]
<1>3. leaf = LeafOf(a)
  BY <1>1, <1>2, TreeDef DEF LeafOf
<1>4. Fold(leaf, a, siblings) = RootOf(b)
  <2>1. \A l \in 1..TREE_DEPTH :
          siblings[l] = Tree(nodes[0], b)[l - 1][Beside(At(a, l - 1))]
    OBVIOUS
  <2>2. leaf = Tree(nodes[0], b)[0][a]
    OBVIOUS
  <2> HIDE DEF leaf, siblings
  <2>. QED
    BY <1>2, <2>1, <2>2, FoldOfTree DEF RootOf
<1> HIDE DEF leaf, siblings
<1>5. leaf = Tree(nodes[0], a)[0][a]
  BY <1>2, <1>4, FoldInverse DEF RootOf
<1>6. leaf = NoLeaf
  BY <1>1, <1>2, <1>5, TreeDef
<1>. QED
  BY <1>1, <1>3, <1>6, EmptyIsNoNote DEF TreeInv

\* The accepted roots are the last ROOT_HISTORY ones again after one more.
LEMMA RingTurns ==
  ASSUME NEW L \in Nat \ {0}, NEW H \in Nat \ {0}, NEW rs, NEW rt, NEW v,
         \A a, b \in 1..L : rs[a] = rs[b] => a = b,
         \A n \in 1..L : rt[n] = rs[n],
         v = {rs[n] : n \in {k \in 1..L : k > L - H}}
  PROVE  (IF L >= H THEN v \ {rs[L - H + 1]} ELSE v) \cup {rt[L + 1]}
           = {rt[n] : n \in {k \in 1..(L + 1) : k > (L + 1) - H}}
<1> DEFINE old == IF L >= H THEN v \ {rs[L - H + 1]} ELSE v
           new == {rt[n] : n \in {k \in 1..(L + 1) : k > (L + 1) - H}}
<1>1. old \cup {rt[L + 1]} \subseteq new
  <2>1. rt[L + 1] \in new
    OBVIOUS
  <2>2. ASSUME NEW r \in old
        PROVE  r \in new
    <3>1. PICK n \in 1..L : n > L - H /\ r = rs[n]
      OBVIOUS
    <3>2. n > (L + 1) - H
      BY <3>1
    <3>. QED
      BY <3>1, <3>2
  <2>. QED
    BY <2>1, <2>2
<1>2. ASSUME NEW r \in new
      PROVE  r \in old \cup {rt[L + 1]}
  <2>1. PICK n \in 1..(L + 1) : n > (L + 1) - H /\ r = rt[n]
    OBVIOUS
  <2>2. CASE n = L + 1
    BY <2>1, <2>2
  <2>3. CASE n # L + 1
    <3>1. n \in 1..L /\ n > L - H /\ r = rs[n]
      BY <2>1, <2>3
    <3>2. r \in v
      BY <3>1
    <3>3. L >= H => L - H + 1 \in 1..L /\ n # L - H + 1
      BY <2>1
    <3>4. L >= H => r # rs[L - H + 1]
      BY <3>1, <3>3
    <3>. QED
      BY <3>2, <3>4
  <2>. QED
    BY <2>2, <2>3
<1>. QED
  BY <1>1, <1>2

\* The stored nodes of level 0 are the leaves.
LEMMA StoredLeaves ==
  ASSUME TreeInv
  PROVE  DOMAIN nodes[0] = 0..(Count - 1)
<1> DEFINE m  == Count
           lv == nodes[0]
<1>1. m \in Nat /\ TREE_DEPTH \in Nat \ {0} /\ 0 \in Levels
  BY MixerConstants DEF TreeInv, Levels
<1>2. DOMAIN lv = {k \in Nat : m > 0 /\ k <= At(m - 1, 0)}
  BY <1>1 DEF StoredTree, TreeInv
<1>3. m > 0 => At(m - 1, 0) = m - 1
  <2>1. m > 0 => m - 1 \in Nat
    BY <1>1
  <2>. QED
    BY <2>1, Halving
<1> HIDE DEF m, lv
<1>4. DOMAIN lv = 0..(m - 1)
  BY <1>1, <1>2, <1>3
<1>. QED
  BY <1>4 DEF m, lv

\* The pool's capacity is that of its tree, or less.
LEMMA CapacityTypes ==
  CAPACITY \in Nat /\ TREE_DEPTH \in Nat /\ TREE_DEPTH \in Nat \ {0} /\ CAPACITY <= 2^TREE_DEPTH
<1>1. TREE_DEPTH \in Nat \ {0} /\ CAPACITY \in 1..2^TREE_DEPTH
  BY MixerConstants
<1>2. 2^TREE_DEPTH \in Nat
  BY <1>1, TwoPowers
<1> DEFINE w == 2^TREE_DEPTH
<1> HIDE DEF w
<1>3. w \in Nat /\ CAPACITY \in 1..w
  BY <1>1, <1>2 DEF w
<1>4. CAPACITY \in Nat /\ CAPACITY <= w
  BY <1>3
<1>. QED
  BY <1>1, <1>4 DEF w

\* A deposit puts its note after the leaves, and leaves them as they are.
LEMMA DepositLeaves ==
  ASSUME TypeOK, TreeInv, NEW note \in Notes, NEW delay \in Nat, Deposit(note, delay)
  PROVE  /\ Count \in Nat /\ Count' = Count + 1
         /\ DOMAIN nodes[0] = 0..(Count - 1) /\ DOMAIN nodes'[0] = 0..Count
         /\ Extends(nodes'[0], nodes[0], Count, note)
<1> DEFINE m    == Count
           lv   == nodes[0]
           lw   == nodes'[0]
           path == InsertPath(note, m)
<1>1. m \in Nat /\ m \in Leaves /\ TREE_DEPTH \in Nat \ {0}
  <2>0. m \in Nat /\ m < CAPACITY
    BY DEF TreeInv, Deposit
  <2>1. m \in Nat /\ m < CAPACITY /\ CAPACITY \in Nat /\ TREE_DEPTH \in Nat \ {0}
    BY <2>0, CapacityTypes
  <2>. QED
    BY <2>1 DEF Leaves
<1>2. Count' = m + 1
  BY DEF Deposit, Count, TypeOK
<1>3. 0 \in Levels /\ At(m, 0) = m
  BY <1>1, Halving DEF Levels
<1>4. path[0] = note
  BY <1>1, InsertPathDef
<1>5. lw = [k \in DOMAIN lv \cup {m} |-> IF k = m THEN note ELSE lv[k]]
  BY <1>3, <1>4 DEF Deposit
<1>6. DOMAIN lv = 0..(m - 1)
  BY StoredLeaves
<1> HIDE DEF m, lv, lw
<1>7. DOMAIN lv = 0..(m - 1) /\ DOMAIN lw = 0..m
  BY <1>1, <1>5, <1>6
<1>8. ASSUME NEW k \in 0..(m - 1)
      PROVE  lw[k] = lv[k]
  BY <1>1, <1>5, <1>6
<1>9. lw[m] = note
  BY <1>5
<1>. QED
  BY <1>1, <1>2, <1>7, <1>8, <1>9 DEF Extends, m, lv, lw

LEMMA DepositTree ==
  ASSUME TypeOK, TreeInv, NEW note \in Notes, NEW delay \in Nat, Deposit(note, delay)
  PROVE  TreeInv'
<1> DEFINE m    == Count
           lv   == nodes[0]
           lw   == nodes'[0]
           path == InsertPath(note, m)
           root == path[TREE_DEPTH]
<1>1. m \in Nat /\ m <= CAPACITY /\ m \in Leaves /\ m \in Places(0) /\ m + 1 <= CAPACITY
      /\ TREE_DEPTH \in Nat \ {0} /\ CAPACITY \in Nat
  <2>0. m \in Nat /\ m < CAPACITY
    BY DEF TreeInv, Deposit
  <2>1. m \in Nat /\ m < CAPACITY /\ CAPACITY \in Nat /\ TREE_DEPTH \in Nat \ {0}
    BY <2>0, CapacityTypes
  <2>2. m \in Leaves
    BY <2>1 DEF Leaves
  <2>. QED
    BY <2>1, <2>2, LeafPlaces
<1>2. Count' = m + 1
  BY DEF Deposit, Count, TypeOK
<1>3. \A l \in Levels :
        nodes'[l] = [k \in DOMAIN nodes[l] \cup {At(m, l)} |->
                       IF k = At(m, l) THEN path[l] ELSE nodes[l][k]]
  BY DEF Deposit
<1>4. StoredTree(nodes, lv, m)
  BY DEF TreeInv
<1>p. /\ path[0] = note
      /\ \A l \in 1..TREE_DEPTH :
           path[l] = IF At(m, l - 1) % 2 = 0 THEN Node(path[l - 1], Zeros[l - 1])
                     ELSE Node(nodes[l - 1][At(m, l - 1) - 1], path[l - 1])
  BY <1>1, InsertPathDef
<1>r. roots' = Append(roots, root) /\ valid' = Unexpired \cup {root}
  BY DEF Deposit
<1> HIDE DEF path, m
<1>5. 0 \in Levels /\ At(m, 0) = m
  BY <1>1, Halving DEF Levels
<1>6. \A l \in Levels : DOMAIN nodes[l] \cup {At(m, l)} = {k \in Nat : k <= At(m, l)}
  <2> SUFFICES ASSUME NEW l \in Levels
               PROVE  DOMAIN nodes[l] \cup {At(m, l)} = {k \in Nat : k <= At(m, l)}
    OBVIOUS
  <2>1. DOMAIN nodes[l] = {k \in Nat : m > 0 /\ k <= At(m - 1, l)}
    BY <1>4 DEF StoredTree
  <2>2. l \in Nat
    BY <1>1 DEF Levels
  <2>3. /\ At(m, l) \in Nat /\ (m = 0 => At(m, l) = 0)
        /\ m > 0 => /\ At(m - 1, l) \in Nat
                    /\ At(m - 1, l) <= At(m, l) /\ At(m, l) <= At(m - 1, l) + 1
    BY <1>1, <2>2, Neighbours
  <2>. QED
    BY <1>1, <2>1, <2>3
<1>9. Extends(lw, lv, m, note)
  BY DepositLeaves DEF m
<1> HIDE DEF lv, lw
<1>10. \A l \in 0..TREE_DEPTH : path[l] = Tree(lw, m + 1)[l][At(m, l)]
  <2> SUFFICES ASSUME NEW l \in 0..TREE_DEPTH
               PROVE  path[l] = Tree(lw, m + 1)[l][At(m, l)]
    OBVIOUS
  <2>. QED
    BY <1>1, <1>4, <1>9, <1>p, PathInTree
<1>11. \A l \in Levels :
         /\ DOMAIN nodes'[l] = {k \in Nat : k <= At(m, l)}
         /\ \A k \in DOMAIN nodes'[l] :
              nodes'[l][k] = IF k = At(m, l) THEN path[l] ELSE nodes[l][k]
  <2> SUFFICES ASSUME NEW l \in Levels
               PROVE  /\ DOMAIN nodes'[l] = {k \in Nat : k <= At(m, l)}
                      /\ \A k \in DOMAIN nodes'[l] :
                           nodes'[l][k] = IF k = At(m, l) THEN path[l] ELSE nodes[l][k]
    OBVIOUS
  <2> DEFINE D == DOMAIN nodes[l] \cup {At(m, l)}
  <2>1. nodes'[l] = [k \in D |-> IF k = At(m, l) THEN path[l] ELSE nodes[l][k]]
    BY <1>3
  <2>2. D = {k \in Nat : k <= At(m, l)}
    BY <1>6
  <2> HIDE DEF D
  <2>. QED
    BY <2>1, <2>2
<1>12. StoredTree(nodes', lw, m + 1)
  BY <1>1, <1>4, <1>9, <1>10, <1>11, InsertStored
<1>13. StoredTree(nodes, nodes[0], Count)'
  BY <1>2, <1>12 DEF lw
<1>14. \A i \in 0..(Count' - 1) : nodes'[0][i] \in Notes
  <2> SUFFICES ASSUME NEW i \in 0..(Count' - 1)
               PROVE  lw[i] \in Notes
    BY DEF lw
  <2>1. i \in 0..m
    BY <1>1, <1>2
  <2>2. CASE i = m
    BY <1>9, <2>2 DEF Extends
  <2>3. CASE i # m
    <3>1. i \in 0..(m - 1)
      BY <1>1, <2>1, <2>3
    <3>. QED
      BY <1>9, <3>1 DEF Extends, TreeInv, LeafOf, lv, m
  <2>. QED
    BY <2>2, <2>3
<1>15. \A n \in 0..m : RootOf(n)' = RootOf(n)
  <2> SUFFICES ASSUME NEW n \in 0..m
               PROVE  Tree(lw, n)[TREE_DEPTH][0] = Tree(lv, n)[TREE_DEPTH][0]
    BY DEF RootOf, lv, lw
  <2>1. \A k \in Places(0) : Tree(lw, n)[0][k] = Tree(lv, n)[0][k]
    <3> SUFFICES ASSUME NEW k \in Places(0)
                 PROVE  Tree(lw, n)[0][k] = Tree(lv, n)[0][k]
      OBVIOUS
    <3>1. k \in Nat /\ n \in Nat /\ n <= m
      BY <1>1, LeafPlaces
    <3>2. k < n => lw[k] = lv[k]
      BY <1>1, <1>9, <3>1 DEF Extends
    <3>. QED
      BY <3>2, TreeDef
  <2>2. TREE_DEPTH \in 0..TREE_DEPTH
    BY <1>1
  <2>. QED
    BY <2>1, <2>2, LeafPlaces, TreeSame
<1>16. root = Tree(lw, m + 1)[TREE_DEPTH][0]
  <2>1. TREE_DEPTH \in 0..TREE_DEPTH /\ At(m, TREE_DEPTH) = 0
    BY <1>1, LeafPlaces
  <2>. QED
    BY <1>10, <2>1
<1> DEFINE L == m + 1
<1>17. roots = [n \in 1..L |-> RootOf(n - 1)]
  BY DEF TreeInv, m
<1>18. Len(roots) = L
  BY <1>1 DEF TypeOK, m
<1>19. roots' = [n \in 1..(L + 1) |-> RootOf(n - 1)']
  <2>1. roots' = [n \in 1..(L + 1) |-> IF n = L + 1 THEN root ELSE RootOf(n - 1)]
    BY <1>1, <1>17, <1>r
  <2>2. ASSUME NEW n \in 1..(L + 1)
        PROVE  (IF n = L + 1 THEN root ELSE RootOf(n - 1)) = RootOf(n - 1)'
    <3>1. CASE n = L + 1
      <4>1. n - 1 = m + 1
        BY <1>1, <3>1
      <4>. QED
        BY <1>16, <3>1, <4>1 DEF RootOf, lw
    <3>2. CASE n # L + 1
      <4>1. n - 1 \in 0..m
        BY <1>1, <3>2
      <4>. QED
        BY <1>15, <3>2, <4>1
    <3>. QED
      BY <3>1, <3>2
  <2>. QED
    BY <2>1, <2>2
<1>20. Len(roots') = L + 1
  BY <1>1, <1>18, <1>19
<1>21. \A a, b \in 1..L : roots[a] = roots[b] => a = b
  <2> SUFFICES ASSUME NEW a \in 1..L, NEW b \in 1..L, roots[a] = roots[b], a # b
               PROVE  FALSE
    OBVIOUS
  <2>1. a - 1 \in 0..Count /\ b - 1 \in 0..Count /\ (a - 1 < b - 1 \/ b - 1 < a - 1)
    BY <1>1 DEF m
  <2>2. RootOf(a - 1) = RootOf(b - 1)
    BY <1>17
  <2>. QED
    BY <2>1, <2>2, RootsDiffer
<1>22. valid' = {roots'[n] : n \in {k \in 1..Len(roots') : k > Len(roots') - ROOT_HISTORY}}
  <2>1. L \in Nat \ {0} /\ ROOT_HISTORY \in Nat \ {0}
    BY <1>1, MixerConstants
  <2>2. valid = {roots[n] : n \in {k \in 1..L : k > L - ROOT_HISTORY}}
    BY <1>18 DEF TreeInv
  <2>3. \A n \in 1..L : roots'[n] = roots[n]
    <3> SUFFICES ASSUME NEW n \in 1..L
                 PROVE  roots'[n] = roots[n]
      OBVIOUS
    <3>1. n \in 1..(L + 1) /\ n - 1 \in 0..m
      BY <1>1
    <3>. QED
      BY <1>15, <1>17, <1>19, <3>1
  <2>4. roots'[L + 1] = root
    <3>1. L + 1 \in 1..(L + 1) /\ (L + 1) - 1 = m + 1
      BY <1>1
    <3>2. roots'[L + 1] = Tree(lw, m + 1)[TREE_DEPTH][0]
      BY <1>19, <3>1 DEF RootOf, lw
    <3>. QED
      BY <1>16, <3>2
  <2>5. valid' = (IF L >= ROOT_HISTORY THEN valid \ {roots[L - ROOT_HISTORY + 1]} ELSE valid)
                   \cup {roots'[L + 1]}
    BY <1>18, <1>r, <2>4 DEF Unexpired
  <2> HIDE DEF L
  <2>6. valid' = {roots'[n] : n \in {k \in 1..(L + 1) : k > (L + 1) - ROOT_HISTORY}}
    BY <1>21, <2>1, <2>2, <2>3, <2>5, RingTurns
  <2>. QED
    BY <1>20, <2>6
<1>23. Count' <= CAPACITY /\ Count' \in Nat
  BY <1>1, <1>2
<1>24. roots' = [n \in 1..(Count' + 1) |-> RootOf(n - 1)']
  BY <1>2, <1>19
<1>. QED
  BY <1>13, <1>14, <1>22, <1>23, <1>24 DEF TreeInv, LeafOf

\* No siblings at all prove against an accepted root a note a leaf does not hold.
LEMMA OwnNoteOnly ==
  ASSUME TypeOK, TreeInv, NEW i \in 0..(Count - 1), NEW siblings, NEW note \in Notes,
         Fold(note, i, siblings) \in valid
  PROVE  note = LeafOf(i)
<1>1. Count \in Nat /\ Len(roots) = Count + 1 /\ i \in Places(0) /\ i \in Nat
  <2>1. Count \in Nat /\ Count <= CAPACITY /\ CAPACITY \in Nat /\ TREE_DEPTH \in Nat
    BY CapacityTypes DEF TreeInv
  <2>2. i \in Leaves
    BY <2>1 DEF Leaves
  <2>. QED
    BY <2>1, <2>2, LeafPlaces DEF TypeOK
<1>2. \A n \in 1..(Count + 1) : roots[n] = RootOf(n - 1)
  BY DEF TreeInv
<1>3. PICK n \in 1..(Count + 1) : Fold(note, i, siblings) = RootOf(n - 1)
  BY <1>1, <1>2 DEF TreeInv
<1>4. note = Tree(nodes[0], n - 1)[0][i]
  <2> DEFINE m == n - 1
  <2>1. Fold(note, i, siblings) = Tree(nodes[0], m)[TREE_DEPTH][0] /\ i \in Places(0)
    BY <1>1, <1>3 DEF RootOf
  <2> HIDE DEF m
  <2>2. note = Tree(nodes[0], m)[0][i]
    BY <2>1, FoldInverse
  <2>. QED
    BY <2>2 DEF m
<1>5. note = NoLeaf \/ note = LeafOf(i)
  BY <1>1, <1>4, TreeDef DEF LeafOf
<1>. QED
  BY <1>5, EmptyIsNoNote

\* The roots of the pool are those of its notes' trees, and every proof it answers
\* proves its leaf and nothing else.
LEMMA TreeInvExact ==
  ASSUME TypeOK, TreeInv
  PROVE  RootsExact /\ ProofsExact
<1>1. Count \in Nat /\ Len(roots) = Count + 1 /\ Count <= CAPACITY /\ TREE_DEPTH \in Nat
      /\ \A i \in 0..(Count - 1) : i \in Leaves /\ i \in Places(0) /\ i \in Nat
  <2>1. Count \in Nat /\ Count <= CAPACITY /\ CAPACITY \in Nat /\ TREE_DEPTH \in Nat
    BY CapacityTypes DEF TreeInv
  <2>2. \A i \in 0..(Count - 1) : i \in Leaves
    BY <2>1 DEF Leaves
  <2>. QED
    BY <2>1, <2>2, LeafPlaces DEF TypeOK
<1>2. \A n \in 1..(Count + 1) : roots[n] = RootOf(n - 1)
  BY DEF TreeInv
<1>3. Latest = RootOf(Count)
  BY <1>1, <1>2 DEF Latest
<1>4. RootsExact
  BY <1>3, WholeTreeIs DEF RootsExact, RootOf, TreeInv
<1>5. ASSUME NEW i \in 0..(Count - 1)
      PROVE  Fold(LeafOf(i), i, Proof(i)) = Latest
  <2> DEFINE p == Proof(i)
             lv == nodes[0]
  <2>1. \A l \in 1..TREE_DEPTH : p[l] = Tree(lv, Count)[l - 1][Beside(At(i, l - 1))]
    <3> SUFFICES ASSUME NEW l \in 1..TREE_DEPTH
                 PROVE  p[l] = Tree(lv, Count)[l - 1][Beside(At(i, l - 1))]
      OBVIOUS
    <3>1. p[l] = Sibling(i, l - 1)
      BY DEF Proof
    <3>2. l - 1 \in Levels
      BY <1>1 DEF Levels
    <3>3. Sibling(i, l - 1) = Tree(lv, Count)[l - 1][Beside(At(i, l - 1))]
      BY <1>1, <3>2, SiblingInTree DEF Sibling, Stored, TreeInv
    <3>. QED
      BY <3>1, <3>3
  <2>2. LeafOf(i) = Tree(lv, Count)[0][i]
    BY <1>1, TreeDef DEF LeafOf
  <2>4. i \in Places(0)
    BY <1>1
  <2> HIDE DEF p, lv
  <2>5. PICK m, leaf : m = Count /\ leaf = LeafOf(i)
    OBVIOUS
  <2>6. leaf = Tree(lv, m)[0][i]
        /\ \A l \in 1..TREE_DEPTH : p[l] = Tree(lv, m)[l - 1][Beside(At(i, l - 1))]
    BY <2>1, <2>2, <2>5
  <2>7. Fold(leaf, i, p) = Tree(lv, m)[TREE_DEPTH][0]
    BY <2>4, <2>6, FoldOfTree
  <2>3. Fold(LeafOf(i), i, p) = Tree(lv, Count)[TREE_DEPTH][0]
    BY <2>5, <2>7
  <2>. QED
    BY <1>3, <2>3 DEF RootOf, p, lv
<1>6. ASSUME NEW i \in 0..(Count - 1), NEW siblings, NEW note \in Notes,
             Fold(note, i, siblings) \in valid
      PROVE  note = LeafOf(i)
  BY <1>6, OwnNoteOnly
<1>7. ProofsExact
  BY <1>5, <1>6 DEF ProofsExact
<1>. QED
  BY <1>4, <1>7

-----------------------------------------------------------------------------
(* The client's copy of the tree.                                           *)

\* The path a client's insertion computes.
InsertedPath(tree, leaf, i) ==
  LET current[l \in 0..TREE_DEPTH] ==
        IF l = 0 THEN leaf ELSE Joined(tree, l - 1, At(i, l - 1), current[l - 1])
  IN  current

LEMMA InsertedPathDef ==
  ASSUME NEW tree, NEW leaf, NEW i \in Nat
  PROVE  LET path == InsertedPath(tree, leaf, i)
         IN  /\ path[0] = leaf
             /\ \A l \in 1..TREE_DEPTH :
                  path[l] = IF At(i, l - 1) % 2 = 0 THEN Node(path[l - 1], Zeros[l - 1])
                            ELSE Node(tree.nodes[l - 1][At(i, l - 1) - 1], path[l - 1])
<1> DEFINE Next_(f, l) == IF l = 0 THEN leaf ELSE Joined(tree, l - 1, At(i, l - 1), f[l - 1])
           Is(f, n) == f = [l \in 0..n |-> Next_(f, l)]
           S == {n \in Nat : \E f : Is(f, n)}
<1>1. 0 \in S
  <2>1. Is([l \in 0..0 |-> leaf], 0)
    OBVIOUS
  <2>. QED
    BY <2>1
<1>2. ASSUME NEW n \in Nat, n \in S
      PROVE  n + 1 \in S
  <2>1. PICK f : Is(f, n)
    BY <1>2
  <2> DEFINE g == [l \in 0..(n + 1) |-> Next_(f, l)]
  <2>2. \A l \in 0..n : g[l] = f[l]
    BY <2>1
  <2>3. \A l \in 0..(n + 1) : l = 0 \/ l - 1 \in 0..n
    OBVIOUS
  <2>4. \A l \in 0..(n + 1) : Next_(g, l) = Next_(f, l)
    <3> HIDE DEF g
    <3>. QED
      BY <2>2, <2>3
  <2>5. Is(g, n + 1)
    BY <2>4
  <2> HIDE DEF Is, g
  <2>. QED
    BY <2>5
<1>3. TREE_DEPTH \in Nat
  BY MixerConstants
<1>4. TREE_DEPTH \in S
  <2> HIDE DEF S
  <2>. QED
    BY <1>1, <1>2, <1>3, Induction
<1>5. Is(InsertedPath(tree, leaf, i), TREE_DEPTH)
  <2>1. InsertedPath(tree, leaf, i) = CHOOSE f : Is(f, TREE_DEPTH)
    BY DEF InsertedPath
  <2>. QED
    BY <1>4, <2>1
<1> DEFINE path == InsertedPath(tree, leaf, i)
<1>6. \A l \in 0..TREE_DEPTH : path[l] = Next_(path, l)
  BY <1>5
<1> HIDE DEF path
<1>7. path[0] = leaf /\ \A l \in 1..TREE_DEPTH : path[l] = Next_(path, l)
  BY <1>3, <1>6
<1>. QED
  BY <1>7 DEF path, Joined

\* The copies a client goes through as it is given the leaves.
Copies ==
  LET tree[n \in 0..Count] ==
        IF n = 0 THEN Planted ELSE Inserted(tree[n - 1], nodes[0][n - 1], n - 1)
  IN  tree

LEMMA CopiesDef ==
  ASSUME Count \in Nat
  PROVE  /\ Copies[0] = Planted /\ Mirror = Copies[Count]
         /\ \A n \in 1..Count : Copies[n] = Inserted(Copies[n - 1], nodes[0][n - 1], n - 1)
<1> DEFINE Next_(f, n) == IF n = 0 THEN Planted ELSE Inserted(f[n - 1], nodes[0][n - 1], n - 1)
           Is(f, k) == f = [n \in 0..k |-> Next_(f, n)]
           S == {k \in Nat : \E f : Is(f, k)}
<1>1. 0 \in S
  <2>1. Is([n \in 0..0 |-> Planted], 0)
    OBVIOUS
  <2>. QED
    BY <2>1
<1>2. ASSUME NEW n \in Nat, n \in S
      PROVE  n + 1 \in S
  <2>1. PICK f : Is(f, n)
    BY <1>2
  <2> DEFINE g == [l \in 0..(n + 1) |-> Next_(f, l)]
  <2>2. \A l \in 0..n : g[l] = f[l]
    BY <2>1
  <2>3. \A l \in 0..(n + 1) : l = 0 \/ l - 1 \in 0..n
    OBVIOUS
  <2>4. \A l \in 0..(n + 1) : Next_(g, l) = Next_(f, l)
    <3> HIDE DEF g
    <3>. QED
      BY <2>2, <2>3
  <2>5. Is(g, n + 1)
    BY <2>4
  <2> HIDE DEF Is, g
  <2>. QED
    BY <2>5
<1>3. Count \in S
  <2> HIDE DEF S
  <2>. QED
    BY <1>1, <1>2, Induction
<1>4. Is(Copies, Count)
  <2>1. Copies = CHOOSE f : Is(f, Count)
    BY DEF Copies
  <2>. QED
    BY <1>3, <2>1
<1>5. Mirror = Copies[Count]
  BY DEF Mirror, Copies
<1>6. \A n \in 0..Count : Copies[n] = Next_(Copies, n)
  BY <1>4
<1>7. Copies[0] = Planted /\ \A n \in 1..Count : Copies[n] = Next_(Copies, n)
  BY <1>6
<1>. QED
  BY <1>5, <1>7

\* The copy after n leaves: the stored tree, and its last ROOT_HISTORY roots.
Kept(n) == Least(n + 1, ROOT_HISTORY)
CopyInv(n) ==
  /\ StoredTree(Copies[n].nodes, nodes[0], n)
  /\ Copies[n].roots = [j \in 1..Kept(n) |-> RootOf(n - Kept(n) + j)]

LEMMA EmptyTree ==
  ASSUME NEW lv
  PROVE  Tree(lv, 0)[TREE_DEPTH][0] = Zeros[TREE_DEPTH]
<1>1. TREE_DEPTH \in 0..TREE_DEPTH /\ 0 \in Nat
  BY MixerConstants
<1>. QED
  BY <1>1, LeafPlaces, TreeEmpty

LEMMA CopyGrows ==
  ASSUME TypeOK, TreeInv, NEW n \in 0..(Count - 1), CopyInv(n)
  PROVE  CopyInv(n + 1)
<1> DEFINE tree == Copies[n]
           lv   == nodes[0]
           leaf == lv[n]
           path == InsertedPath(tree, leaf, n)
           root == path[TREE_DEPTH]
           grown == Append(tree.roots, root)
           k == Kept(n)
           H == ROOT_HISTORY
           next == Copies[n + 1]
<1>1. n \in Nat /\ n \in Leaves /\ n \in Places(0) /\ TREE_DEPTH \in Nat /\ Count \in Nat
  <2>1. Count \in Nat /\ Count <= CAPACITY /\ CAPACITY \in Nat /\ TREE_DEPTH \in Nat
    BY CapacityTypes DEF TreeInv
  <2>2. n \in Leaves
    BY <2>1 DEF Leaves
  <2>. QED
    BY <2>1, <2>2, LeafPlaces
<1>2. next = Inserted(tree, leaf, n)
  <2>1. n + 1 \in 1..Count /\ (n + 1) - 1 = n
    BY <1>1
  <2>. QED
    BY <1>1, <2>1, CopiesDef
<1>3. /\ next.nodes = [l \in Levels |-> [j \in 0..At(n, l) |->
                         IF j = At(n, l) THEN path[l] ELSE tree.nodes[l][j]]]
      /\ next.roots = IF Len(grown) > H THEN Tail(grown) ELSE grown
  BY <1>2 DEF Inserted, InsertedPath
<1>4. Extends(lv, lv, n, leaf)
  BY DEF Extends
<1>5. StoredTree(tree.nodes, lv, n)
  BY DEF CopyInv
<1>6. /\ path[0] = leaf
      /\ \A l \in 1..TREE_DEPTH :
           path[l] = IF At(n, l - 1) % 2 = 0 THEN Node(path[l - 1], Zeros[l - 1])
                     ELSE Node(tree.nodes[l - 1][At(n, l - 1) - 1], path[l - 1])
  BY <1>1, InsertedPathDef
<1>t. tree.roots = [j \in 1..k |-> RootOf(n - k + j)]
  BY DEF CopyInv
<1> DEFINE nd == tree.nodes
           ne == next.nodes
<1>n. \A l \in Levels :
        /\ DOMAIN ne[l] = 0..At(n, l)
        /\ \A j \in 0..At(n, l) : ne[l][j] = IF j = At(n, l) THEN path[l] ELSE nd[l][j]
  BY <1>3
<1>s. next.nodes = ne
  OBVIOUS
<1> HIDE DEF path, nd, ne, lv, leaf
<1>7. \A l \in 0..TREE_DEPTH : path[l] = Tree(lv, n + 1)[l][At(n, l)]
  <2> SUFFICES ASSUME NEW l \in 0..TREE_DEPTH
               PROVE  path[l] = Tree(lv, n + 1)[l][At(n, l)]
    OBVIOUS
  <2>1. /\ StoredTree(nd, lv, n)
        /\ \A j \in 1..TREE_DEPTH :
             path[j] = IF At(n, j - 1) % 2 = 0 THEN Node(path[j - 1], Zeros[j - 1])
                       ELSE Node(nd[j - 1][At(n, j - 1) - 1], path[j - 1])
    BY <1>5, <1>6 DEF nd
  <2>. QED
    BY <1>1, <1>4, <1>6, <2>1, PathInTree
<1>8. StoredTree(ne, lv, n + 1)
  <2>1. ASSUME NEW l \in Levels
        PROVE  0..At(n, l) = {j \in Nat : j <= At(n, l)}
    <3>1. l \in Nat
      BY <1>1 DEF Levels
    <3>2. At(n, l) \in Nat
      BY <1>1, <3>1, Halving
    <3>. QED
      BY <3>2
  <2>2. \A l \in Levels :
          /\ DOMAIN ne[l] = {j \in Nat : j <= At(n, l)}
          /\ \A j \in DOMAIN ne[l] : ne[l][j] = IF j = At(n, l) THEN path[l] ELSE nd[l][j]
    BY <1>n, <2>1
  <2>3. StoredTree(nd, lv, n)
    BY <1>5 DEF nd
  <2>. QED
    BY <1>1, <1>4, <1>7, <2>2, <2>3, InsertStored
<1>9. root = RootOf(n + 1)
  <2>1. TREE_DEPTH \in 0..TREE_DEPTH /\ At(n, TREE_DEPTH) = 0
    BY <1>1, LeafPlaces
  <2>. QED
    BY <1>7, <2>1 DEF RootOf, lv
<1>10. H \in Nat \ {0} /\ k \in Nat \ {0} /\ k <= H /\ k <= n + 1
       /\ (k = n + 1 \/ k = H)
  BY <1>1, MixerConstants DEF Kept, Least
<1>11. Kept(n + 1) = IF k < H THEN k + 1 ELSE k
  BY <1>1, <1>10 DEF Kept, Least
<1> HIDE DEF k, root
<1>12. grown = [j \in 1..(k + 1) |-> RootOf(n - k + j)] /\ Len(grown) = k + 1
  <2>1. grown = [j \in 1..(k + 1) |-> IF j = k + 1 THEN root ELSE RootOf(n - k + j)]
    BY <1>10, <1>t
  <2>2. n - k + (k + 1) = n + 1
    BY <1>1, <1>10
  <2>3. grown = [j \in 1..(k + 1) |-> RootOf(n - k + j)]
    BY <1>9, <2>1, <2>2
  <2>. QED
    BY <1>10, <2>1, <2>3
<1> HIDE DEF grown
<1>13. next.roots = [j \in 1..Kept(n + 1) |-> RootOf((n + 1) - Kept(n + 1) + j)]
  <2>1. CASE k < H
    <3>1. next.roots = grown /\ Kept(n + 1) = k + 1 /\ (n + 1) - (k + 1) = n - k
      BY <1>1, <1>3, <1>10, <1>11, <1>12, <2>1
    <3>. QED
      BY <1>12, <3>1
  <2>2. CASE ~(k < H)
    <3>1. next.roots = Tail(grown) /\ Kept(n + 1) = k
      BY <1>3, <1>10, <1>11, <1>12, <2>2
    <3>2. Tail(grown) = [j \in 1..k |-> RootOf(n - k + (j + 1))]
      <4> DEFINE X == {RootOf(n - k + j) : j \in 1..(k + 1)}
      <4>1. grown \in Seq(X) /\ Len(grown) = k + 1 /\ k + 1 \in Nat
        <5>1. k + 1 \in Nat /\ grown \in [1..(k + 1) -> X]
          BY <1>10, <1>12
        <5> HIDE DEF X
        <5>2. grown \in Seq(X)
          BY <5>1, SeqDef
        <5>. QED
          BY <1>12, <5>1, <5>2
      <4>2. \A j \in 1..(k + 1) : grown[j] = RootOf(n - k + j)
        BY <1>12
      <4> HIDE DEF X
      <4>3. Tail(grown) \in Seq(X) /\ Len(Tail(grown)) = k
            /\ \A j \in 1..k : Tail(grown)[j] = grown[j + 1]
        <5>1. grown # <<>>
          BY <1>10, <4>1, EmptySeq
        <5>. QED
          BY <1>10, <4>1, <5>1, HeadTailProperties
      <4>4. Tail(grown) = [j \in 1..k |-> grown[j + 1]]
        <5>1. Tail(grown) \in [1..k -> X]
          BY <4>3, LenProperties
        <5>. QED
          BY <4>3, <5>1
      <4>5. \A j \in 1..k : grown[j + 1] = RootOf(n - k + (j + 1))
        BY <1>10, <4>2
      <4>. QED
        BY <4>4, <4>5
    <3>3. \A j \in 1..k : n - k + (j + 1) = (n + 1) - k + j
      BY <1>1, <1>10
    <3>. QED
      BY <3>1, <3>2, <3>3
  <2>. QED
    BY <2>1, <2>2
<1>. QED
  BY <1>8, <1>13, <1>s DEF CopyInv, lv

\* The client's copy, built from the pool's leaves, accepts the same roots and
\* gives the same proofs.
LEMMA TreeInvMirror ==
  ASSUME TypeOK, TreeInv
  PROVE  TreeExact
<1>0. Count \in Nat /\ CAPACITY \in Nat /\ Count <= CAPACITY /\ TREE_DEPTH \in Nat
      /\ ROOT_HISTORY \in Nat \ {0} /\ Len(roots) = Count + 1
  BY TwoPowers, MixerConstants DEF TreeInv, TypeOK
<1>1. CopyInv(Count)
  <2> DEFINE S == {n \in Nat : n <= Count => CopyInv(n)}
  <2>1. 0 \in S
    <3>1. Copies[0].nodes = [l \in Levels |-> <<>>] /\ Copies[0].roots = <<Zeros[TREE_DEPTH]>>
      BY <1>0, CopiesDef DEF Planted
    <3>2. StoredTree(Copies[0].nodes, nodes[0], 0)
      BY <3>1 DEF StoredTree
    <3>3. Kept(0) = 1
      BY <1>0 DEF Kept, Least
    <3>4. RootOf(0) = Zeros[TREE_DEPTH]
      BY EmptyTree DEF RootOf
    <3>5. Copies[0].roots = [j \in 1..Kept(0) |-> RootOf(0 - Kept(0) + j)]
      <4>1. <<Zeros[TREE_DEPTH]>> = [j \in 1..1 |-> Zeros[TREE_DEPTH]]
        OBVIOUS
      <4>2. \A j \in 1..1 : 0 - 1 + j = 0
        OBVIOUS
      <4>. QED
        BY <3>1, <3>3, <3>4, <4>1, <4>2
    <3>. QED
      BY <3>2, <3>5 DEF CopyInv
  <2>2. ASSUME NEW n \in Nat, n \in S
        PROVE  n + 1 \in S
    <3> SUFFICES ASSUME n + 1 <= Count
                 PROVE  CopyInv(n + 1)
      OBVIOUS
    <3>1. n \in 0..(Count - 1) /\ CopyInv(n)
      BY <1>0, <2>2
    <3>. QED
      BY <3>1, CopyGrows
  <2>3. Count \in S
    <3> HIDE DEF S
    <3>. QED
      BY <1>0, <2>1, <2>2, Induction
  <2>. QED
    BY <1>0, <2>3
<1> DEFINE tree == Mirror
           k == Kept(Count)
<1>2. /\ StoredTree(tree.nodes, nodes[0], Count)
      /\ tree.roots = [j \in 1..k |-> RootOf(Count - k + j)]
  <2>1. tree = Copies[Count]
    BY <1>0, CopiesDef
  <2>. QED
    BY <1>1, <2>1 DEF CopyInv
<1>3. k \in Nat \ {0} /\ k <= ROOT_HISTORY /\ k <= Count + 1 /\ (k = ROOT_HISTORY \/ k = Count + 1)
  BY <1>0 DEF Kept, Least
<1>4. roots = [n \in 1..(Count + 1) |-> RootOf(n - 1)]
  BY DEF TreeInv
<1> HIDE DEF tree, k
<1>5. Len(tree.roots) = k
  BY <1>2, <1>3
<1>6. Latest = tree.roots[Len(tree.roots)]
  <2>1. Latest = RootOf(Count)
    BY <1>0, <1>4 DEF Latest
  <2>2. tree.roots[k] = RootOf(Count)
    <3>1. k \in 1..k /\ Count - k + k = Count
      BY <1>0, <1>3
    <3>. QED
      BY <1>2, <3>1
  <2>. QED
    BY <1>5, <2>1, <2>2
<1>7. valid = Range(tree.roots)
  <2>1. valid = {roots[n] : n \in {m \in 1..(Count + 1) : m > (Count + 1) - ROOT_HISTORY}}
    BY <1>0 DEF TreeInv
  <2>2. Range(tree.roots) = {tree.roots[j] : j \in 1..k}
    BY <1>2 DEF Range
  <2>3. ASSUME NEW r \in valid
        PROVE  r \in Range(tree.roots)
    <3>1. PICK n \in 1..(Count + 1) : n > (Count + 1) - ROOT_HISTORY /\ r = RootOf(n - 1)
      BY <1>4, <2>1
    <3>2. n - (Count + 1) + k \in 1..k /\ Count - k + (n - (Count + 1) + k) = n - 1
      BY <1>0, <1>3, <3>1
    <3>3. tree.roots[n - (Count + 1) + k] = r
      BY <1>2, <3>1, <3>2
    <3>. QED
      BY <2>2, <3>2, <3>3
  <2>4. ASSUME NEW r \in Range(tree.roots)
        PROVE  r \in valid
    <3>1. PICK j \in 1..k : r = RootOf(Count - k + j)
      BY <1>2, <2>2
    <3>2. /\ Count - k + j + 1 \in 1..(Count + 1)
          /\ Count - k + j + 1 > (Count + 1) - ROOT_HISTORY
          /\ (Count - k + j + 1) - 1 = Count - k + j
      BY <1>0, <1>3
    <3>3. roots[Count - k + j + 1] = r
      BY <1>4, <3>1, <3>2
    <3>. QED
      BY <2>1, <3>2, <3>3
  <2>. QED
    BY <2>3, <2>4
<1>8. ASSUME NEW i \in 0..(Count - 1)
      PROVE  MirrorProof(tree, i) = Proof(i)
  <2>1. i \in Places(0)
    <3>1. i \in Leaves
      BY <1>0 DEF Leaves
    <3>. QED
      BY <3>1, LeafPlaces
  <2>2. StoredTree(nodes, nodes[0], Count)
    BY DEF TreeInv
  <2>3. ASSUME NEW n \in 1..TREE_DEPTH
        PROVE  MirrorProof(tree, i)[n] = Proof(i)[n]
    <3>1. n - 1 \in Levels
      BY <1>0 DEF Levels
    <3> DEFINE h == Beside(At(i, n - 1))
    <3>2. (IF h \in DOMAIN tree.nodes[n - 1] THEN tree.nodes[n - 1][h] ELSE Zeros[n - 1])
            = Tree(nodes[0], Count)[n - 1][h]
      BY <1>0, <1>2, <2>1, <3>1, SiblingInTree
    <3>3. (IF h \in DOMAIN nodes[n - 1] THEN nodes[n - 1][h] ELSE Zeros[n - 1])
            = Tree(nodes[0], Count)[n - 1][h]
      BY <1>0, <2>1, <2>2, <3>1, SiblingInTree
    <3>. QED
      BY <3>2, <3>3 DEF MirrorProof, Proof, Sibling, Stored
  <2>. QED
    BY <2>3 DEF MirrorProof, Proof
<1>. QED
  BY <1>6, <1>7, <1>8, TreeInvExact DEF TreeExact, tree

-----------------------------------------------------------------------------
(* What a release pays.                                                    *)

LedgerType ==
  [bal : 0..XelSupply, pending : Nat, fees : Nat, deposited : Nat, released : Nat,
   bounties : Nat, count : Nat, spent : SUBSET (0..(Count - 1))]

LEMMA NoteTypes ==
  ASSUME NEW note \in Notes
  PROVE  note.amount \in Nat \ {0} /\ note.amount \in Denominations
BY MixerConstants DEF Notes

\* In emergency mode a note's share is at most its part of the pool per unit owed;
\* otherwise the share and the fee make up the note.
LEMMA ShareBounds ==
  ASSUME TypeOK, NEW led \in LedgerType, NEW amount \in Nat \ {0}
  PROVE  /\ Share(led, amount) \in Nat /\ Share(led, amount) <= amount
         /\ Fee(amount) \in Nat
         /\ Bounty(led, amount) \in Nat /\ Bounty(led, amount) <= Share(led, amount)
         /\ ~config.emode => Share(led, amount) + Fee(amount) = amount
         /\ config.emode => /\ Fee(amount) = 0
                            /\ Share(led, amount) * led.pending <= amount * led.bal
<1> DEFINE s == Share(led, amount)
           r == Ratio(led)
           b == led.bal
           p == led.pending
<1>1. /\ config.feeBps \in 0..MAX_FEE_BPS /\ config.bounty \in 0..MAX_BOUNTY
      /\ config.emode \in BOOLEAN
  BY DEF TypeOK
<1>2. BPS \in Nat \ {0} /\ MAX_FEE_BPS \in Nat /\ MAX_FEE_BPS <= BPS /\ MAX_BOUNTY \in Nat
  BY MixerConstants
<1>3. b \in Nat /\ p \in Nat
  BY MixerConstants DEF LedgerType
<1>4. CASE ~config.emode
  <2>1. config.feeBps \in Nat /\ config.feeBps <= BPS
    BY <1>1, <1>2
  <2>2. Fee(amount) \in Nat /\ Fee(amount) <= amount
    BY <1>2, <1>4, <2>1, ShareBound DEF Fee
  <2>3. s \in Nat /\ s <= amount /\ s + Fee(amount) = amount
    BY <1>4, <2>2 DEF Share
  <2>. QED
    BY <1>1, <1>2, <1>4, <2>2, <2>3 DEF Bounty, Least
<1>5. CASE config.emode
  <2>1. r \in Nat /\ r <= BPS /\ r * p <= b * BPS
    <3>1. CASE p = 0
      <4>1. r = 0
        BY <3>1 DEF Ratio
      <4>. QED
        BY <1>2, <1>3, <3>1, <4>1
    <3>2. CASE p # 0
      <4> DEFINE q == (b * BPS) \div p
      <4>1. b * BPS \in Nat /\ p \in Nat \ {0}
        BY <1>2, <1>3, <3>2
      <4>2. q \in Nat /\ q * p <= b * BPS
        BY <4>1, DivBounds
      <4>3. r = Least(BPS, q)
        BY <3>2 DEF Ratio
      <4> HIDE DEF q, r, p, b
      <4>4. r \in Nat /\ r <= BPS /\ r <= q
        BY <1>2, <4>2, <4>3 DEF Least
      <4>5. p * r <= p * q
        BY <4>1, <4>2, <4>4, MulMono
      <4>6. p * r = r * p /\ p * q = q * p /\ p * r \in Nat /\ p * q \in Nat
        BY <4>1, <4>2, <4>4
      <4>. QED
        BY <4>1, <4>2, <4>4, <4>5, <4>6
    <3>. QED
      BY <3>1, <3>2
  <2>2. s = (amount * r) \div BPS
    BY <1>5 DEF Share
  <2> HIDE DEF r
  <2>3. s \in Nat /\ s <= amount /\ amount * r \in Nat /\ s * BPS <= amount * r
    <3>1. amount * r \in Nat /\ s \in Nat /\ s <= amount
      BY <1>2, <2>1, <2>2, ShareBound
    <3>. QED
      BY <1>2, <2>2, <3>1, DivBounds
  <2> HIDE DEF s, b, p
  <2>4. s * p <= amount * b
    <3>1. p * (s * BPS) <= p * (amount * r)
      <4>1. s * BPS \in Nat
        BY <1>2, <2>3
      <4>. QED
        BY <1>3, <2>3, <4>1, MulMono
    <3>2. amount * (r * p) <= amount * (b * BPS)
      <4>1. r * p \in Nat /\ b * BPS \in Nat
        BY <1>2, <1>3, <2>1
      <4>. QED
        BY <2>1, <4>1, MulMono
    <3>3. (s * p) * BPS <= (amount * b) * BPS
      <4>1. (s * p) * BPS = p * (s * BPS) /\ p * (amount * r) = amount * (r * p)
            /\ amount * (b * BPS) = (amount * b) * BPS
        BY <1>2, <1>3, <2>1, <2>3
      <4>2. p * (s * BPS) \in Nat /\ p * (amount * r) \in Nat /\ amount * (b * BPS) \in Nat
        BY <1>2, <1>3, <2>1, <2>3
      <4>. QED
        BY <3>1, <3>2, <4>1, <4>2
    <3>4. s * p \in Nat /\ amount * b \in Nat
      BY <1>3, <2>3
    <3>. QED
      BY <1>2, <3>3, <3>4, MulCancel
  <2>5. Fee(amount) = 0
    BY <1>5 DEF Fee
  <2>6. Bounty(led, amount) \in Nat /\ Bounty(led, amount) <= s
    BY <1>1, <1>2, <2>3 DEF Bounty, Least, s
  <2>. QED
    BY <1>5, <2>3, <2>4, <2>5, <2>6 DEF s, b, p
<1>. QED
  BY <1>4, <1>5

\* One claim of a batch: the ledger it leaves, and what it took of the pool.
LEMMA ReleaseStep ==
  ASSUME TypeOK, NEW led \in LedgerType, NEW c, c.note \in Notes, c.i \in Nat, Count \in Nat,
         Releasable(led, c),
         NEW out, out = Released(led, c), NEW a, a = c.note.amount
  PROVE  /\ out \in LedgerType /\ a \in Nat \ {0} /\ a <= led.pending
         /\ c.i \in 0..(Count - 1) /\ c.i \notin led.spent /\ topo >= unlock[c.i + 1]
         /\ out.spent = led.spent \cup {c.i} /\ out.count = led.count + 1
         /\ out.pending = led.pending - a
         /\ out.bal \in (led.bal - a)..led.bal
         /\ Surplus(out) >= Surplus(led)
         /\ config.emode => out.bal * led.pending >= led.bal * out.pending
<1> DEFINE s == Share(led, a)
           f == Fee(a)
           b == Bounty(led, a)
<1>1. a \in Nat \ {0}
  BY NoteTypes
<1>2. /\ s \in Nat /\ s <= a /\ f \in Nat /\ b \in Nat /\ b <= s
      /\ ~config.emode => s + f = a
      /\ config.emode => f = 0 /\ s * led.pending <= a * led.bal
  BY <1>1, ShareBounds
<1>3. /\ led.bal \in 0..XelSupply /\ led.pending \in Nat /\ led.fees \in Nat
      /\ led.deposited \in Nat /\ led.released \in Nat /\ led.bounties \in Nat
      /\ led.count \in Nat /\ led.spent \in SUBSET (0..(Count - 1)) /\ XelSupply \in Nat
  BY MixerConstants DEF LedgerType
<1>4. /\ c.i < Count /\ topo >= unlock[c.i + 1] /\ c.i \notin led.spent
      /\ led.pending >= a /\ s <= led.bal
  BY DEF Releasable, Unspent
<1>5. out = [led EXCEPT !.bal = @ - s, !.pending = @ - a, !.fees = @ + f,
                        !.released = @ + s - b, !.bounties = @ + b,
                        !.count = @ + 1, !.spent = @ \cup {c.i}]
  BY DEF Released
<1> HIDE DEF s, f, b
<1>6. /\ out.bal = led.bal - s /\ out.pending = led.pending - a /\ out.fees = led.fees + f
      /\ out.released = led.released + s - b /\ out.bounties = led.bounties + b
      /\ out.count = led.count + 1 /\ out.spent = led.spent \cup {c.i}
      /\ out.deposited = led.deposited
  BY <1>5 DEF LedgerType
<1>7. out \in LedgerType
  <2>1. out.bal \in 0..XelSupply /\ out.pending \in Nat /\ out.fees \in Nat
        /\ out.released \in Nat /\ out.bounties \in Nat /\ out.count \in Nat
    BY <1>1, <1>2, <1>3, <1>4, <1>6
  <2>2. out.spent \in SUBSET (0..(Count - 1)) /\ out.deposited \in Nat
    BY <1>3, <1>4, <1>6
  <2>. QED
    BY <1>5, <2>1, <2>2 DEF LedgerType
<1>8. Surplus(out) >= Surplus(led)
  <2>1. s + f <= a
    BY <1>1, <1>2
  <2>2. /\ Surplus(led) = led.bal - led.pending - led.fees
        /\ Surplus(out) = (led.bal - s) - (led.pending - a) - (led.fees + f)
    BY <1>6 DEF Surplus
  <2>. QED
    BY <1>1, <1>2, <1>3, <2>1, <2>2
<1>9. config.emode => out.bal * led.pending >= led.bal * out.pending
  <2> DEFINE v == led.bal
             p == led.pending
  <2>1. v \in Nat /\ p \in Nat
    BY <1>3
  <2> HIDE DEF v, p
  <2>2. (v - s) * p = v * p - s * p /\ v * (p - a) = v * p - a * v
    BY <1>1, <1>2, <2>1
  <2>3. s * p \in Nat /\ a * v \in Nat /\ v * p \in Nat
    BY <1>1, <1>2, <2>1
  <2>4. config.emode => s * p <= a * v
    BY <1>2 DEF v, p
  <2>5. config.emode => (v - s) * p >= v * (p - a)
    BY <2>2, <2>3, <2>4
  <2>. QED
    BY <1>6, <2>5 DEF v, p
<1>10. out.bal \in (led.bal - a)..led.bal
  BY <1>1, <1>2, <1>3, <1>6
<1>11. c.i \in 0..(Count - 1)
  BY <1>4
<1>. QED
  BY <1>1, <1>4, <1>6, <1>7, <1>8, <1>9, <1>10, <1>11

-----------------------------------------------------------------------------
(* What the pool owes.                                                     *)

\* The leaves a ledger has not paid, and the worth of some leaves.
Unpaid(led) == {i \in 0..(Count - 1) : i \notin led.spent}
WorthIn(lv, S) == Total([i \in S |-> lv[i].amount])
Value(S) == WorthIn(nodes[0], S)

\* pd is the worth of the unpaid leaves and ns the number of paid ones.
Right(led) == led.pending = Value(Unpaid(led)) /\ led.count = Cardinality(led.spent)

\* The worth of finitely many leaves, and what one leaf more adds to it.
LEMMA WorthType ==
  ASSUME NEW lv, NEW S, IsFiniteSet(S), \A i \in S : lv[i] \in Notes
  PROVE  WorthIn(lv, S) \in Nat /\ \A i \in S : lv[i].amount <= WorthIn(lv, S)
<1> DEFINE f == [i \in S |-> lv[i].amount]
<1>1. f \in [S -> Nat]
  BY NoteTypes
<1>2. \A i \in S : f[i] = lv[i].amount
  OBVIOUS
<1> HIDE DEF f
<1>3. Total(f) \in Nat /\ \A i \in S : f[i] <= Total(f)
  BY <1>1, TotalType, ShareWithinTotal
<1>. QED
  BY <1>2, <1>3 DEF WorthIn, f

LEMMA WorthSplit ==
  ASSUME NEW lv, NEW S, IsFiniteSet(S), \A i \in S : lv[i] \in Notes, NEW k \in S
  PROVE  WorthIn(lv, S) = WorthIn(lv, S \ {k}) + lv[k].amount
<1> DEFINE T == S \ {k}
           f == [i \in S |-> lv[i].amount]
           g == [i \in T |-> lv[i].amount]
<1>1. f \in [S -> Nat] /\ f[k] = lv[k].amount
  BY NoteTypes
<1>2. Units(g) = OthersUnits(f, k)
  BY <1>1 DEF Units, OthersUnits
<1>3. Total(f) = Cardinality(OthersUnits(f, k)) + f[k]
  <2> HIDE DEF f
  <2>. QED
    BY <1>1, TotalSplit
<1>. QED
  BY <1>1, <1>2, <1>3 DEF WorthIn, Total

LEMMA UnpaidFinite ==
  ASSUME TypeOK, TreeInv, NEW led
  PROVE  /\ IsFiniteSet(0..(Count - 1)) /\ IsFiniteSet(Unpaid(led))
         /\ \A i \in Unpaid(led) : LeafOf(i) \in Notes
<1>1. Count \in Nat /\ \A i \in 0..(Count - 1) : LeafOf(i) \in Notes
  BY DEF TreeInv
<1>2. IsFiniteSet(0..(Count - 1))
  BY <1>1, FS_Interval
<1>3. Unpaid(led) \subseteq 0..(Count - 1)
  BY DEF Unpaid
<1>. QED
  BY <1>1, <1>2, <1>3, FS_Subset

\* A claim that passes names the note of its leaf, and the books stay right.
LEMMA ReleaseRight ==
  ASSUME TypeOK, TreeInv, NEW led \in LedgerType, Right(led),
         NEW c, c.note \in Notes, c.i \in Nat, Releasable(led, c)
  PROVE  Right(Released(led, c)) /\ c.note = LeafOf(c.i)
<1> DEFINE out == Released(led, c)
           a == c.note.amount
           k == c.i
<1>1. Count \in Nat
  BY DEF TreeInv
<1>2. /\ out.spent = led.spent \cup {k} /\ out.count = led.count + 1
      /\ out.pending = led.pending - a /\ a \in Nat
      /\ k \in 0..(Count - 1) /\ k \notin led.spent
  BY <1>1, ReleaseStep
<1>3. c.note = LeafOf(k)
  <2>1. Fold(c.note, k, c.siblings) \in valid
    BY DEF Releasable
  <2>. QED
    BY <1>2, <2>1, OwnNoteOnly
<1>4. k \in Unpaid(led) /\ Unpaid(out) = Unpaid(led) \ {k}
  BY <1>2 DEF Unpaid
<1>5. Value(Unpaid(led)) = Value(Unpaid(out)) + a
  BY <1>3, <1>4, UnpaidFinite, WorthSplit DEF Value, LeafOf
<1>6. Value(Unpaid(out)) \in Nat
  BY UnpaidFinite, WorthType DEF Value, LeafOf
<1>7. out.pending = Value(Unpaid(out))
  BY <1>2, <1>5, <1>6 DEF Right
<1>8. Cardinality(led.spent \cup {k}) = Cardinality(led.spent) + 1
  <2>1. led.spent \subseteq 0..(Count - 1)
    BY DEF LedgerType
  <2>2. IsFiniteSet(led.spent)
    BY <2>1, UnpaidFinite, FS_Subset
  <2>. QED
    BY <1>2, <2>2, FS_AddElement
<1>. QED
  BY <1>2, <1>3, <1>7, <1>8 DEF Right

-----------------------------------------------------------------------------
(* A batch: what holds of the ledger after each of its claims.             *)

Settles(led) ==
  /\ led \in LedgerType /\ Right(led)
  /\ ledger.spent \subseteq led.spent
  /\ \A i \in led.spent \ ledger.spent : topo >= unlock[i + 1]
  /\ led.bal <= ledger.bal /\ ledger.bal - led.bal <= ledger.pending - led.pending
  /\ Surplus(led) >= Surplus(ledger)
  /\ config.emode => led.bal * ledger.pending >= ledger.bal * led.pending

\* The fairness of emergency releases passes from step to step.
LEMMA RatioChain ==
  ASSUME NEW b0 \in Nat, NEW p0 \in Nat, NEW b1 \in Nat, NEW p1 \in Nat \ {0},
         NEW b2 \in Nat, NEW p2 \in Nat, b1 * p0 >= b0 * p1, b2 * p1 >= b1 * p2
  PROVE  b2 * p0 >= b0 * p2
<1>1. p0 * (b1 * p2) <= p0 * (b2 * p1)
  <2>1. b1 * p2 \in Nat /\ b2 * p1 \in Nat
    OBVIOUS
  <2>. QED
    BY <2>1, MulMono
<1>2. p2 * (b0 * p1) <= p2 * (b1 * p0)
  <2>1. b0 * p1 \in Nat /\ b1 * p0 \in Nat
    OBVIOUS
  <2>. QED
    BY <2>1, MulMono
<1>3. /\ p2 * (b0 * p1) = (b0 * p2) * p1 /\ p2 * (b1 * p0) = p0 * (b1 * p2)
      /\ p0 * (b2 * p1) = (b2 * p0) * p1
  OBVIOUS
<1>4. b0 * p2 \in Nat /\ b2 * p0 \in Nat
  OBVIOUS
<1>5. (b0 * p2) * p1 <= (b2 * p0) * p1
  <2>1. /\ p2 * (b0 * p1) \in Nat /\ p2 * (b1 * p0) \in Nat /\ p0 * (b2 * p1) \in Nat
    OBVIOUS
  <2>. QED
    BY <1>1, <1>2, <1>3, <2>1
<1>6. b0 * p2 <= b2 * p0
  BY <1>4, <1>5, MulCancel
<1>. QED
  BY <1>4, <1>6

LEMMA SettlesOn ==
  ASSUME TypeOK, TreeInv, NEW led, Settles(led),
         NEW c, c.note \in Notes, c.i \in Nat, Releasable(led, c)
  PROVE  Settles(Released(led, c)) /\ Released(led, c).spent # ledger.spent
<1> DEFINE out == Released(led, c)
           a == c.note.amount
<1>1. Count \in Nat /\ led \in LedgerType /\ ledger \in LedgerType
  BY DEF TreeInv, Settles, TypeOK, LedgerType
<1>2. /\ out \in LedgerType /\ a \in Nat \ {0} /\ a <= led.pending
      /\ c.i \in 0..(Count - 1) /\ c.i \notin led.spent /\ topo >= unlock[c.i + 1]
      /\ out.spent = led.spent \cup {c.i} /\ out.pending = led.pending - a
      /\ out.bal \in (led.bal - a)..led.bal
      /\ Surplus(out) >= Surplus(led)
      /\ config.emode => out.bal * led.pending >= led.bal * out.pending
  BY <1>1, ReleaseStep
<1>3. Right(out)
  BY <1>1, ReleaseRight DEF Settles
<1> HIDE DEF out
<1>4. ledger.spent \subseteq out.spent /\ out.spent # ledger.spent
  BY <1>2 DEF Settles
<1>5. ASSUME NEW i \in out.spent \ ledger.spent
      PROVE  topo >= unlock[i + 1]
  BY <1>2 DEF Settles
<1>6. /\ ledger.bal \in Nat /\ ledger.pending \in Nat /\ ledger.fees \in Nat
      /\ led.bal \in Nat /\ led.pending \in Nat \ {0} /\ led.fees \in Nat
      /\ out.bal \in Nat /\ out.pending \in Nat /\ out.fees \in Nat
  <2>1. XelSupply \in Nat
    BY MixerConstants
  <2>2. led.pending \in Nat /\ led.pending # 0
    BY <1>1, <1>2 DEF LedgerType
  <2>. QED
    BY <1>1, <1>2, <2>1, <2>2 DEF LedgerType
<1>7. out.bal <= ledger.bal /\ ledger.bal - out.bal <= ledger.pending - out.pending
  <2>1. led.bal <= ledger.bal /\ ledger.bal - led.bal <= ledger.pending - led.pending
    BY DEF Settles
  <2>. QED
    BY <1>2, <1>6, <2>1
<1>8. Surplus(out) >= Surplus(ledger)
  <2>1. Surplus(led) >= Surplus(ledger)
    BY DEF Settles
  <2>2. Surplus(out) \in Int /\ Surplus(led) \in Int /\ Surplus(ledger) \in Int
    BY <1>6 DEF Surplus
  <2>. QED
    BY <1>2, <2>1, <2>2
<1>9. config.emode => out.bal * ledger.pending >= ledger.bal * out.pending
  <2>1. config.emode => led.bal * ledger.pending >= ledger.bal * led.pending
    BY DEF Settles
  <2>2. config.emode => out.bal * led.pending >= led.bal * out.pending
    BY <1>2
  <2> SUFFICES ASSUME config.emode
               PROVE  out.bal * ledger.pending >= ledger.bal * out.pending
    OBVIOUS
  <2>. QED
    BY <1>6, <2>1, <2>2, RatioChain
<1>. QED
  BY <1>2, <1>3, <1>4, <1>5, <1>7, <1>8, <1>9 DEF Settles, out

\* The ledgers of a batch, each got from the one before.
LEMMA LedgersDef ==
  ASSUME NEW batch, Len(batch) \in Nat
  PROVE  /\ Ledgers(batch)[0] = ledger
         /\ \A n \in 1..Len(batch) :
              Ledgers(batch)[n] = Released(Ledgers(batch)[n - 1], batch[n])
<1> DEFINE len == Len(batch)
           Step_(f, n) == IF n = 0 THEN ledger ELSE Released(f[n - 1], batch[n])
           Is(f, k) == f = [n \in 0..k |-> Step_(f, n)]
           S == {k \in Nat : \E f : Is(f, k)}
<1>1. 0 \in S
  <2>1. Is([n \in 0..0 |-> ledger], 0)
    OBVIOUS
  <2>. QED
    BY <2>1
<1>2. ASSUME NEW n \in Nat, n \in S
      PROVE  n + 1 \in S
  <2>1. PICK f : Is(f, n)
    BY <1>2
  <2> DEFINE g == [l \in 0..(n + 1) |-> Step_(f, l)]
  <2>2. \A l \in 0..n : g[l] = f[l]
    BY <2>1
  <2>3. \A l \in 0..(n + 1) : l = 0 \/ l - 1 \in 0..n
    OBVIOUS
  <2>4. \A l \in 0..(n + 1) : Step_(g, l) = Step_(f, l)
    <3> HIDE DEF g
    <3>. QED
      BY <2>2, <2>3
  <2>5. Is(g, n + 1)
    BY <2>4
  <2> HIDE DEF Is, g
  <2>. QED
    BY <2>5
<1>3. len \in S
  <2> HIDE DEF S
  <2>1. \A n \in 0..(len - 1) : n \in S => n + 1 \in S
    BY <1>2
  <2>2. 0..len \subseteq S
    BY <1>1, <2>1, Induction
  <2>. QED
    BY <2>2
<1>4. Is(Ledgers(batch), len)
  <2>1. Ledgers(batch) = CHOOSE f : Is(f, len)
    BY DEF Ledgers
  <2>. QED
    BY <1>3, <2>1
<1>6. \A n \in 0..len : Ledgers(batch)[n] = Step_(Ledgers(batch), n)
  BY <1>4
<1>. QED
  BY <1>6

\* What Next submits: one claim or two, of notes, as leaves.
IsBatch(batch) ==
  Len(batch) \in Nat
  /\ \A n \in 1..Len(batch) : batch[n].note \in Notes /\ batch[n].i \in Nat

\* A batch of any length settles, and pays something.
LEMMA BatchSettles ==
  ASSUME TypeOK, TreeInv, Right(ledger), NEW batch, IsBatch(batch), ReleaseMany(batch)
  PROVE  /\ Settles(ledger') /\ ledger'.spent # ledger.spent
         /\ UNCHANGED <<config, nodes, roots, valid, unlock, topo>>
<1> DEFINE led == Ledgers(batch)
           len == Len(batch)
           S == {n \in 0..len : Settles(led[n])}
<1>1. /\ len \in Nat \ {0}
      /\ \A n \in 1..len : Releasable(led[n - 1], batch[n])
      /\ ledger' = led[len]
      /\ UNCHANGED <<config, nodes, roots, valid, unlock, topo>>
  BY DEF IsBatch, ReleaseMany, Accepts
<1>2. /\ led[0] = ledger
      /\ \A n \in 1..len : led[n] = Released(led[n - 1], batch[n])
  BY <1>1, LedgersDef
<1>3. 0 \in S
  <2>1. ledger \in LedgerType
    BY DEF TypeOK, LedgerType
  <2>2. ledger.bal \in Nat /\ ledger.pending \in Nat /\ ledger.fees \in Nat
    BY <2>1, MixerConstants DEF LedgerType
  <2>3. ledger.bal * ledger.pending \in Nat /\ Surplus(ledger) \in Int
    BY <2>2 DEF Surplus
  <2>4. Settles(ledger)
    BY <2>1, <2>2, <2>3 DEF Settles
  <2>. QED
    BY <1>1, <1>2, <2>4
<1> HIDE DEF led
<1>4. ASSUME NEW n \in 1..len, n - 1 \in S
      PROVE  n \in S /\ led[n].spent # ledger.spent
  <2>1. Settles(led[n - 1]) /\ batch[n].note \in Notes /\ batch[n].i \in Nat
    BY <1>4 DEF IsBatch
  <2>2. Releasable(led[n - 1], batch[n])
    BY <1>1
  <2>3. Settles(Released(led[n - 1], batch[n])) /\ Released(led[n - 1], batch[n]).spent # ledger.spent
    BY <2>1, <2>2, SettlesOn
  <2>. QED
    BY <1>1, <1>2, <2>3
<1>5. ASSUME NEW m \in 0..(len - 1), m \in S
      PROVE  m + 1 \in S
  <2>1. m + 1 \in 1..len /\ (m + 1) - 1 = m
    BY <1>1
  <2> HIDE DEF S
  <2>. QED
    BY <1>4, <1>5, <2>1
<1>6. 0..len \subseteq S
  <2> HIDE DEF S
  <2>. QED
    BY <1>1, <1>3, <1>5, Induction
<1>7. len \in S /\ len - 1 \in S /\ len \in 1..len
  <2> HIDE DEF S
  <2>. QED
    BY <1>1, <1>6
<1>. QED
  BY <1>1, <1>4, <1>7

-----------------------------------------------------------------------------
(* The steps of the pool.                                                  *)

ConfigType ==
  [owner : Wallets \cup {None}, nominee : Wallets \cup {None},
   paused : BOOLEAN, emode : BOOLEAN, feeBps : 0..MAX_FEE_BPS,
   feeTo : Wallets, bounty : 0..MAX_BOUNTY]

\* All that Next can do, apart from who calls it, and with any siblings at all.
PoolStep ==
  \/ \E note \in Notes, delay \in Nat : Deposit(note, delay)
  \/ \E batch : IsBatch(batch) /\ ReleaseMany(batch)
  \/ /\ config' \in ConfigType /\ config'.emode = config.emode
     /\ UNCHANGED <<nodes, roots, valid, unlock, ledger, topo>>
  \/ \E u \in Wallets : EmergencyExit(u)
  \/ \E u \in Wallets, n \in Nat : ClaimFees(u, n)
  \/ \E n \in Nat : Stray(n)
  \/ \E n \in LossArgs : Anomaly(n)
  \/ Tick

LEMMA StepKinds ==
  ASSUME TypeOK, Next
  PROVE  PoolStep
<1> USE DEF PoolStep
<1> DEFINE Same(c) == c \in ConfigType /\ c.emode = config.emode
<1>0. config \in ConfigType
  BY DEF TypeOK, ConfigType
<1>1. CASE Pool
  <2>1. \A c \in Claims : c.note \in Notes /\ c.i \in Nat
    BY MixerConstants DEF Claims, Claim, Leaves
  <2>2. CASE \E note \in Notes, delay \in DelayArgs : Deposit(note, delay)
    BY <2>2, MixerConstants
  <2>3. CASE \E c \in Claims : Release(c.note, c.i, c.siblings)
    <3>1. PICK c \in Claims : Release(c.note, c.i, c.siblings)
      BY <2>3
    <3> DEFINE batch == <<Claim(c.note, c.i, c.siblings)>>
    <3>2. ReleaseMany(batch)
      BY <3>1 DEF Release
    <3>3. IsBatch(batch)
      <4>1. Len(batch) = 1 /\ batch[1] = Claim(c.note, c.i, c.siblings)
        OBVIOUS
      <4>2. \A n \in 1..Len(batch) : n = 1
        BY <4>1
      <4>3. Claim(c.note, c.i, c.siblings).note \in Notes
            /\ Claim(c.note, c.i, c.siblings).i \in Nat
        BY <2>1 DEF Claim
      <4> HIDE DEF batch
      <4>. QED
        BY <4>1, <4>2, <4>3 DEF IsBatch
    <3>. QED
      BY <3>2, <3>3
  <2>4. CASE \E c, d \in Claims : ReleaseMany(<<c, d>>)
    <3>1. PICK c \in Claims, d \in Claims : ReleaseMany(<<c, d>>)
      BY <2>4
    <3> DEFINE batch == <<c, d>>
    <3>2. IsBatch(batch)
      <4>1. Len(batch) = 2 /\ batch[1] = c /\ batch[2] = d
        OBVIOUS
      <4>2. \A n \in 1..Len(batch) : n = 1 \/ n = 2
        BY <4>1
      <4> HIDE DEF batch
      <4>. QED
        BY <2>1, <4>1, <4>2 DEF IsBatch
    <3>. QED
      BY <3>1, <3>2
  <2>. QED
    BY <1>1, <2>2, <2>3, <2>4 DEF Pool
<1>2. CASE RaiseAlarm
  <2>1. Same([config EXCEPT !.paused = TRUE])
    BY <1>0 DEF ConfigType
  <2>. QED
    BY <1>2, <2>1 DEF RaiseAlarm, Configure
<1>3. CASE Around
  BY <1>3, MixerConstants DEF Around
<1>4. CASE \E u \in Wallets : Owned(u) \/ AcceptOwner(u)
  <2>1. PICK u \in Wallets : Owned(u) \/ AcceptOwner(u)
    BY <1>4
  <2>2. CASE EmergencyExit(u)
    BY <2>2
  <2>3. CASE Pause(u) \/ Unpause(u)
    <3>1. Same([config EXCEPT !.paused = TRUE]) /\ Same([config EXCEPT !.paused = FALSE])
      BY <1>0 DEF ConfigType
    <3>. QED
      BY <2>3, <3>1 DEF Pause, Unpause, Configure
  <2>4. CASE RenounceOwnership(u)
    <3>1. Same(Ownerless)
      BY <1>0 DEF ConfigType, Ownerless
    <3>. QED
      BY <2>4, <3>1 DEF RenounceOwnership, Configure
  <2>5. CASE \E bps \in FeeArgs : SetFeeBps(u, bps)
    <3>1. PICK bps \in FeeArgs : SetFeeBps(u, bps)
      BY <2>5
    <3>2. bps \in Nat /\ bps <= MAX_FEE_BPS /\ MAX_FEE_BPS \in Nat
      BY <3>1, MixerConstants DEF SetFeeBps, FeeWithin
    <3>3. Same([config EXCEPT !.feeBps = bps])
      BY <1>0, <3>2 DEF ConfigType
    <3>. QED
      BY <3>1, <3>3 DEF SetFeeBps, Configure
  <2>6. CASE \E bounty \in BountyArgs : SetBounty(u, bounty)
    <3>1. PICK bounty \in BountyArgs : SetBounty(u, bounty)
      BY <2>6
    <3>2. bounty \in Nat /\ bounty <= MAX_BOUNTY /\ MAX_BOUNTY \in Nat
      BY <3>1, MixerConstants DEF SetBounty
    <3>3. Same([config EXCEPT !.bounty = bounty])
      BY <1>0, <3>2 DEF ConfigType
    <3>. QED
      BY <3>1, <3>3 DEF SetBounty, Configure
  <2>7. CASE \E v \in AddrArgs : SetFeeRecipient(u, v) \/ ProposeOwner(u, v)
    <3>1. PICK v \in AddrArgs : SetFeeRecipient(u, v) \/ ProposeOwner(u, v)
      BY <2>7
    <3>2. v \in Wallets
      BY <3>1, MixerConstants
    <3>3. Same([config EXCEPT !.feeTo = v]) /\ Same([config EXCEPT !.nominee = v])
      BY <1>0, <3>2 DEF ConfigType
    <3>. QED
      BY <3>1, <3>3 DEF SetFeeRecipient, ProposeOwner, Configure
  <2>8. CASE AcceptOwner(u)
    <3>1. Same([config EXCEPT !.owner = u, !.nominee = None])
      BY <1>0, <2>1 DEF ConfigType
    <3>. QED
      BY <2>8, <3>1 DEF AcceptOwner, Configure
  <2>. QED
    BY <2>1, <2>2, <2>3, <2>4, <2>5, <2>6, <2>7, <2>8 DEF Owned
<1>5. CASE \E u \in Wallets, n \in ClaimArgs : ClaimFees(u, n)
  BY <1>5, MixerConstants
<1>. QED
  BY <1>1, <1>2, <1>3, <1>4, <1>5 DEF Next

\* The inductive invariant: the types, the tree and the books.
PoolInv == TypeOK /\ TreeInv /\ Right(ledger)

\* What the invariant says of the parts of a state.
LEMMA PoolParts ==
  ASSUME PoolInv
  PROVE  /\ TypeOK /\ TreeInv /\ Right(ledger) /\ ledger \in LedgerType
         /\ config \in ConfigType
         /\ ledger.bal \in Nat /\ ledger.pending \in Nat /\ ledger.fees \in Nat
         /\ Count \in Nat /\ topo \in Nat /\ Len(roots) = Count + 1
         /\ roots = [n \in 1..(Count + 1) |-> RootOf(n - 1)]
<1>1. TypeOK /\ TreeInv /\ Right(ledger)
  BY DEF PoolInv
<1>2. /\ ledger \in LedgerType /\ config \in ConfigType /\ topo \in 0..MAX_TOPO
      /\ Len(roots) = Count + 1
  BY <1>1 DEF TypeOK, LedgerType, ConfigType
<1>3. XelSupply \in Nat /\ MAX_TOPO \in Nat
  BY MixerConstants
<1>4. ledger.bal \in 0..XelSupply /\ ledger.pending \in Nat /\ ledger.fees \in Nat
  BY <1>2 DEF LedgerType
<1>5. Count \in Nat /\ roots = [n \in 1..(Count + 1) |-> RootOf(n - 1)]
  BY <1>1 DEF TreeInv
<1>6. ledger.bal \in Nat /\ topo \in Nat
  BY <1>2, <1>3, <1>4
<1>. QED
  BY <1>1, <1>2, <1>4, <1>5, <1>6

\* What depends on the tree alone stays when the tree does.
LEMMA TreeStays ==
  ASSUME TreeInv, UNCHANGED <<nodes, roots, valid, unlock>>
  PROVE  TreeInv' /\ Count' = Count /\ \A i : LeafOf(i)' = LeafOf(i)
BY DEF TreeInv, RootOf, StoredTree, LeafOf, Count

LEMMA DepositRight ==
  ASSUME TypeOK, TreeInv, Right(ledger), NEW note \in Notes, NEW delay \in Nat,
         Deposit(note, delay), TreeInv'
  PROVE  Right(ledger)'
<1> DEFINE m  == Count
           lv == nodes[0]
           lw == nodes'[0]
           U  == Unpaid(ledger)
           V  == Unpaid(ledger)'
<1>1. /\ m \in Nat /\ Count' = m + 1
      /\ ledger'.pending = ledger.pending + note.amount
      /\ ledger'.count = ledger.count /\ ledger'.spent = ledger.spent
      /\ ledger.pending \in Nat /\ note.amount \in Nat
  <2>1. m \in Nat /\ Count' = m + 1
    BY DepositLeaves
  <2>4. ledger' = [ledger EXCEPT !.bal = @ + note.amount,
                                 !.pending = @ + note.amount,
                                 !.deposited = @ + note.amount]
    BY DEF Deposit
  <2>. QED
    BY <2>1, <2>4, NoteTypes DEF TypeOK
<1>2. lw[m] = note /\ \A i \in 0..(m - 1) : lw[i] = lv[i]
  BY DepositLeaves DEF Extends
<1>3. V = U \cup {m} /\ m \notin U /\ m \in V /\ V \ {m} = U
  <2>1. V = {i \in 0..m : i \notin ledger.spent}
    BY <1>1 DEF Unpaid
  <2>2. m \notin ledger.spent
    BY <1>1 DEF TypeOK
  <2>. QED
    BY <1>1, <2>1, <2>2 DEF Unpaid
<1>4. IsFiniteSet(V) /\ \A i \in V : lw[i] \in Notes
  <2>1. IsFiniteSet(U) /\ \A i \in U : lv[i] \in Notes
    BY UnpaidFinite DEF LeafOf
  <2>2. IsFiniteSet(V)
    BY <1>3, <2>1, FS_AddElement
  <2>3. \A i \in U : i \in 0..(m - 1)
    BY DEF Unpaid
  <2>. QED
    BY <1>2, <1>3, <2>1, <2>2, <2>3
<1>5. WorthIn(lw, V) = WorthIn(lw, U) + note.amount
  <2> HIDE DEF U, V, lw
  <2>. QED
    BY <1>2, <1>3, <1>4, WorthSplit
<1>6. WorthIn(lw, U) = WorthIn(lv, U)
  <2>1. \A i \in U : lw[i] = lv[i]
    BY <1>2 DEF Unpaid
  <2>2. [i \in U |-> lw[i].amount] = [i \in U |-> lv[i].amount]
    BY <2>1
  <2>. QED
    BY <2>2 DEF WorthIn
<1>7. ledger.pending = WorthIn(lv, U) /\ ledger.count = Cardinality(ledger.spent)
  BY DEF Right, Value
<1>8. ledger'.pending = WorthIn(lw, V)
  BY <1>1, <1>5, <1>6, <1>7
<1>. QED
  BY <1>1, <1>7, <1>8 DEF Right, Value

LEMMA InitInv == Init => PoolInv
<1> SUFFICES ASSUME Init
             PROVE  PoolInv
  OBVIOUS
<1>1. /\ nodes = [l \in Levels |-> <<>>] /\ roots = <<Zeros[TREE_DEPTH]>>
      /\ valid = {Zeros[TREE_DEPTH]} /\ unlock = <<>> /\ topo = 0
      /\ ledger = [bal |-> 0, pending |-> 0, fees |-> 0, deposited |-> 0,
                   released |-> 0, bounties |-> 0, count |-> 0, spent |-> {}]
  BY DEF Init
<1>2. Count = 0 /\ CAPACITY \in Nat /\ Count <= CAPACITY /\ 0 \in Levels
      /\ Len(roots) = 1 /\ roots[1] = Zeros[TREE_DEPTH]
      /\ ROOT_HISTORY \in Nat \ {0} /\ XelSupply \in Nat /\ MAX_TOPO \in Nat
  BY <1>1, TwoPowers, MixerConstants DEF Count, Levels
<1>3. TypeOK
  <2>1. config \in ConfigType
    BY MixerConstants DEF Init, ConfigType
  <2>2. ledger \in LedgerType
    BY <1>1, <1>2 DEF LedgerType
  <2>3. unlock \in Seq(0..MAX_TOPO)
    BY <1>1
  <2>. QED
    BY <1>1, <1>2, <2>1, <2>2, <2>3 DEF TypeOK, ConfigType, LedgerType
<1>4. TreeInv
  <2>1. StoredTree(nodes, nodes[0], Count)
    <3>1. \A l \in Levels : nodes[l] = <<>> /\ DOMAIN nodes[l] = {}
      BY <1>1
    <3>. QED
      BY <1>2, <3>1 DEF StoredTree
  <2>2. roots = [n \in 1..(Count + 1) |-> RootOf(n - 1)]
    <3>1. RootOf(0) = Zeros[TREE_DEPTH]
      BY EmptyTree DEF RootOf
    <3>2. roots = [n \in 1..1 |-> Zeros[TREE_DEPTH]]
      BY <1>1
    <3>. QED
      BY <1>2, <3>1, <3>2
  <2>3. valid = {roots[n] : n \in {m \in 1..Len(roots) : m > Len(roots) - ROOT_HISTORY}}
    <3>1. {m \in 1..Len(roots) : m > Len(roots) - ROOT_HISTORY} = {1}
      BY <1>2
    <3>. QED
      BY <1>1, <1>2, <3>1
  <2>4. \A i \in 0..(Count - 1) : LeafOf(i) \in Notes
    BY <1>2
  <2>. QED
    BY <1>2, <2>1, <2>2, <2>3, <2>4 DEF TreeInv
<1>5. Right(ledger)
  <2>1. Unpaid(ledger) = {}
    BY <1>2 DEF Unpaid
  <2>2. WorthIn(nodes[0], {}) = 0
    <3>1. [i \in {} |-> nodes[0][i].amount] \in [{} -> Nat]
      OBVIOUS
    <3>. QED
      BY <3>1, TotalZero DEF WorthIn
  <2>3. Cardinality({}) = 0
    BY FS_EmptySet
  <2>. QED
    BY <1>1, <2>1, <2>2, <2>3 DEF Right, Value
<1>. QED
  BY <1>3, <1>4, <1>5 DEF PoolInv

\* A step that leaves the tree and the notes' books alone keeps both.
LEMMA BooksStay ==
  ASSUME PoolInv, UNCHANGED <<nodes, roots, valid, unlock>>,
         ledger'.pending = ledger.pending, ledger'.count = ledger.count,
         ledger'.spent = ledger.spent
  PROVE  TreeInv' /\ Right(ledger)'
<1>1. TreeInv' /\ Count' = Count
  BY TreeStays DEF PoolInv
<1>2. Unpaid(ledger)' = Unpaid(ledger)
  BY <1>1 DEF Unpaid
<1>. QED
  BY <1>1, <1>2 DEF PoolInv, Right, Value

\* The types of a step's result, when its tree stays.
LEMMA TypesFrom ==
  ASSUME TypeOK, UNCHANGED <<nodes, roots, unlock>>, config' \in ConfigType,
         ledger' \in LedgerType, topo' \in 0..MAX_TOPO
  PROVE  TypeOK'
<1>1. Count' = Count
  BY DEF Count
<1>. QED
  BY <1>1 DEF TypeOK, ConfigType, LedgerType

LEMMA StepInv ==
  ASSUME PoolInv, [PoolStep]_vars
  PROVE  PoolInv'
<1>0. /\ config \in ConfigType /\ ledger \in LedgerType /\ topo \in 0..MAX_TOPO
      /\ TypeOK /\ TreeInv /\ Right(ledger) /\ XelSupply \in Nat /\ Count \in Nat
  BY MixerConstants DEF PoolInv, TypeOK, ConfigType, LedgerType, TreeInv
<1>s. CASE UNCHANGED vars
  <2>1. UNCHANGED <<nodes, roots, valid, unlock>> /\ UNCHANGED <<config, ledger, topo>>
    BY <1>s DEF vars
  <2>. QED
    BY <1>0, <2>1, BooksStay, TypesFrom DEF PoolInv
<1>1. ASSUME NEW note \in Notes, NEW delay \in Nat, Deposit(note, delay)
      PROVE  PoolInv'
  <2>1. TreeInv'
    BY <1>0, <1>1, DepositTree
  <2>2. Right(ledger)'
    BY <1>0, <1>1, <2>1, DepositRight
  <2>3. TypeOK'
    <3> DEFINE a == note.amount
               path == InsertPath(note, Count)
    <3>1. a \in Nat /\ a <= XelSupply - ledger.bal /\ Count < CAPACITY
          /\ topo + delay <= MAX_TOPO
          /\ DOMAIN nodes' = Levels /\ roots' = Append(roots, path[TREE_DEPTH])
          /\ unlock' = Append(unlock, topo + delay)
          /\ ledger' = [ledger EXCEPT !.bal = @ + a, !.pending = @ + a, !.deposited = @ + a]
          /\ UNCHANGED <<config, topo>>
      BY <1>1, NoteTypes DEF Deposit, XelOutside
    <3> HIDE DEF a, path
    <3>2. ledger'.spent = ledger.spent /\ ledger'.bal = ledger.bal + a
          /\ ledger'.pending = ledger.pending + a /\ ledger'.deposited = ledger.deposited + a
      BY <1>0, <3>1 DEF LedgerType
    <3>3. unlock \in Seq(0..MAX_TOPO) /\ topo + delay \in 0..MAX_TOPO
      <4>1. MAX_TOPO \in Nat /\ topo \in Nat
        BY <1>0, MixerConstants
      <4>2. topo + delay \in 0..MAX_TOPO
        BY <3>1, <4>1
      <4>. QED
        BY <1>0, <4>2 DEF TypeOK
    <3>4. unlock' \in Seq(0..MAX_TOPO) /\ Count' = Count + 1
      BY <3>1, <3>3 DEF Count
    <3>5. Len(roots') = Count' + 1
      <4>1. roots = [n \in 1..(Count + 1) |-> RootOf(n - 1)] /\ Len(roots) = Count + 1
        BY <1>0 DEF TreeInv, TypeOK
      <4>2. Len(roots') = Len(roots) + 1
        BY <1>0, <3>1, <4>1
      <4>. QED
        BY <3>4, <4>1, <4>2
    <3>6. ledger' \in [bal : 0..XelSupply, pending : Nat, fees : Nat,
                       deposited : Nat, released : Nat, bounties : Nat,
                       count : Nat, spent : SUBSET (0..(Count' - 1))]
      <4>1. ledger'.spent \in SUBSET (0..(Count' - 1))
        BY <1>0, <3>2, <3>4 DEF LedgerType
      <4>2. ledger'.bal \in 0..XelSupply /\ ledger'.pending \in Nat /\ ledger'.deposited \in Nat
        <5>1. ledger.bal \in 0..XelSupply /\ ledger.pending \in Nat /\ ledger.deposited \in Nat
          BY <1>0 DEF LedgerType
        <5>2. XelSupply \in Nat /\ a \in Nat /\ a <= XelSupply - ledger.bal
          BY <1>0, <3>1
        <5>3. ledger.bal + a \in 0..XelSupply
          BY <5>1, <5>2
        <5>4. ledger.pending + a \in Nat /\ ledger.deposited + a \in Nat
          BY <5>1, <5>2
        <5>. QED
          BY <3>2, <5>3, <5>4
      <4>. QED
        BY <1>0, <3>1, <4>1, <4>2 DEF LedgerType
    <3>7. Count' <= CAPACITY
      <4>1. CAPACITY \in Nat
        BY TwoPowers, MixerConstants
      <4>. QED
        BY <1>0, <3>1, <3>4, <4>1
    <3>. QED
      BY <1>0, <3>1, <3>4, <3>5, <3>6, <3>7 DEF TypeOK
  <2>. QED
    BY <2>1, <2>2, <2>3 DEF PoolInv
<1>2. ASSUME NEW batch, IsBatch(batch), ReleaseMany(batch)
      PROVE  PoolInv'
  <2>1. Settles(ledger') /\ UNCHANGED <<config, nodes, roots, valid, unlock, topo>>
    BY <1>0, <1>2, BatchSettles
  <2>2. ledger' \in LedgerType /\ ledger'.pending = Value(Unpaid(ledger'))
        /\ ledger'.count = Cardinality(ledger'.spent)
    BY <2>1 DEF Settles, Right
  <2>3. TreeInv' /\ Count' = Count
    BY <1>0, <2>1, TreeStays
  <2>4. Right(ledger)'
    <3>1. Unpaid(ledger)' = Unpaid(ledger')
      BY <2>3 DEF Unpaid
    <3>. QED
      BY <2>1, <2>2, <3>1 DEF Right, Value
  <2>. QED
    BY <1>0, <2>1, <2>2, <2>3, <2>4, TypesFrom DEF PoolInv
<1>3. CASE config' \in ConfigType /\ UNCHANGED <<nodes, roots, valid, unlock, ledger, topo>>
  BY <1>0, <1>3, BooksStay, TypesFrom DEF PoolInv
<1>4. ASSUME NEW u \in Wallets, EmergencyExit(u)
      PROVE  PoolInv'
  <2>1. KeptFees \in Nat
    BY <1>0 DEF KeptFees, Least, Spare, Floor0, LedgerType
  <2>2. ledger' = [ledger EXCEPT !.fees = KeptFees]
        /\ config' = [config EXCEPT !.emode = TRUE, !.paused = FALSE]
        /\ UNCHANGED <<nodes, roots, valid, unlock, topo>>
    BY <1>4 DEF EmergencyExit
  <2>3. ledger' \in LedgerType /\ ledger'.pending = ledger.pending
        /\ ledger'.count = ledger.count /\ ledger'.spent = ledger.spent
    BY <1>0, <2>1, <2>2 DEF LedgerType
  <2>4. config' \in ConfigType
    BY <1>0, <2>2 DEF ConfigType
  <2>. QED
    BY <1>0, <2>2, <2>3, <2>4, BooksStay, TypesFrom DEF PoolInv
<1>5. ASSUME NEW u \in Wallets, NEW n \in Nat, ClaimFees(u, n)
      PROVE  PoolInv'
  <2>1. /\ n <= ledger.fees /\ n <= Spare /\ n > 0
        /\ ledger' = [ledger EXCEPT !.fees = @ - n, !.bal = @ - n]
        /\ UNCHANGED <<config, nodes, roots, valid, unlock, topo>>
    BY <1>5 DEF ClaimFees
  <2>2. n <= ledger.bal /\ ledger.bal \in 0..XelSupply /\ ledger.fees \in Nat
    BY <1>0, <2>1 DEF Spare, Floor0, LedgerType
  <2>4. ledger.fees - n \in Nat /\ ledger.bal - n \in 0..XelSupply
    BY <1>0, <2>1, <2>2
  <2>3. ledger' \in LedgerType /\ ledger'.pending = ledger.pending
        /\ ledger'.count = ledger.count /\ ledger'.spent = ledger.spent
    BY <1>0, <2>1, <2>4 DEF LedgerType
  <2>. QED
    BY <1>0, <2>1, <2>3, BooksStay, TypesFrom DEF PoolInv
<1>6. ASSUME NEW n \in Nat, Stray(n)
      PROVE  PoolInv'
  <2>1. /\ n <= XelSupply - ledger.bal
        /\ ledger' = [ledger EXCEPT !.bal = @ + n]
        /\ UNCHANGED <<config, nodes, roots, valid, unlock, topo>>
    BY <1>0, <1>6 DEF Stray, Moved, XelOutside, LedgerType
  <2>2. ledger' \in LedgerType /\ ledger'.pending = ledger.pending
        /\ ledger'.count = ledger.count /\ ledger'.spent = ledger.spent
    BY <1>0, <2>1 DEF LedgerType
  <2>. QED
    BY <1>0, <2>1, <2>2, BooksStay, TypesFrom DEF PoolInv
<1>7. ASSUME NEW n \in LossArgs, Anomaly(n)
      PROVE  PoolInv'
  <2>1. /\ n \in Nat /\ n <= ledger.bal
        /\ ledger' = [ledger EXCEPT !.bal = @ - n]
        /\ UNCHANGED <<config, nodes, roots, valid, unlock, topo>>
    BY <1>0, <1>7, MixerConstants DEF Anomaly, Moved, LedgerType
  <2>2. ledger' \in LedgerType /\ ledger'.pending = ledger.pending
        /\ ledger'.count = ledger.count /\ ledger'.spent = ledger.spent
    BY <1>0, <2>1 DEF LedgerType
  <2>. QED
    BY <1>0, <2>1, <2>2, BooksStay, TypesFrom DEF PoolInv
<1>8. CASE Tick
  <2>1. topo' \in 0..MAX_TOPO /\ UNCHANGED <<config, nodes, roots, valid, unlock, ledger>>
    BY <1>0, <1>8, MixerConstants DEF Tick
  <2>. QED
    BY <1>0, <2>1, BooksStay, TypesFrom DEF PoolInv
<1>. QED
  BY <1>0, <1>s, <1>1, <1>2, <1>3, <1>4, <1>5, <1>6, <1>7, <1>8 DEF PoolStep

-----------------------------------------------------------------------------
(* What the pool's state promises.                                         *)

\* The invariant holds of every run.
THEOREM PoolHolds == Spec => []PoolInv
<1>1. PoolInv /\ [Next]_vars => PoolInv'
  BY StepInv, StepKinds DEF PoolInv
<1>. QED
  BY <1>1, InitInv, PTL DEF Spec

\* Every slot keeps its type whatever is deposited, released, set or lost; in
\* particular no counter of the code's u64 arithmetic runs below zero.
THEOREM Typed == Spec => []TypeOK
<1>1. PoolInv => TypeOK
  BY DEF PoolInv
<1>. QED
  BY <1>1, PoolHolds, PTL

\* Note presentations: the incremental insertion of deposit computes the root of
\* the whole tree, the accepted roots are the last ROOT_HISTORY ones, get_sibling
\* proves every leaf, nobody's siblings prove a note the leaf does not hold; and
\* the client's copy in crypto.py has the same roots and proofs.
THEOREM TreeTrue == Spec => []TreeExact
<1>1. PoolInv => TreeExact
  BY TreeInvMirror DEF PoolInv
<1>. QED
  BY <1>1, PoolHolds, PTL

\* I1: after any batches, pd is exactly the worth of the unpaid leaves and ns the
\* number of paid ones.
THEOREM BooksExact == Spec => []PendingExact
<1>1. PoolInv => PendingExact
  BY DEF PoolInv, Right, Value, WorthIn, Unpaid, PendingExact, Live, LeafOf
<1>. QED
  BY <1>1, PoolHolds, PTL

\* A due note that is not paid passes every check of process_release, if its
\* proof folds to an accepted root.
LEMMA ReleasePasses ==
  ASSUME PoolInv, NEW led \in LedgerType, Right(led),
         NEW i \in Unpaid(led), topo >= unlock[i + 1], config.emode \/ Solvent(led),
         NEW siblings, Fold(LeafOf(i), i, siblings) \in valid
  PROVE  Releasable(led, Claim(LeafOf(i), i, siblings))
<1> DEFINE note == LeafOf(i)
           a == note.amount
           c == Claim(note, i, siblings)
<1>1. /\ Count \in Nat /\ i \in 0..(Count - 1) /\ i \notin led.spent /\ note \in Notes
      /\ TypeOK /\ TreeInv
  BY DEF PoolInv, TreeInv, Unpaid
<1>2. a \in Nat \ {0} /\ a \in Denominations
  BY <1>1, NoteTypes
<1>3. led.pending >= a /\ led.pending \in Nat
  <2>1. led.pending = WorthIn(nodes[0], Unpaid(led)) /\ a = nodes[0][i].amount
    BY DEF Right, Value, LeafOf
  <2>2. IsFiniteSet(Unpaid(led)) /\ \A j \in Unpaid(led) : nodes[0][j] \in Notes
    BY <1>1, UnpaidFinite DEF LeafOf
  <2>3. WorthIn(nodes[0], Unpaid(led)) \in Nat
        /\ nodes[0][i].amount <= WorthIn(nodes[0], Unpaid(led))
    BY <2>2, WorthType
  <2>. QED
    BY <1>2, <2>1, <2>3
<1>4. Share(led, a) <= led.bal
  <2> DEFINE s == Share(led, a)
             v == led.bal
             p == led.pending
  <2>1. /\ s \in Nat /\ s <= a /\ v \in Nat /\ p \in Nat \ {0} /\ a <= p
        /\ config.emode => s * p <= a * v
    <3>1. led.bal \in Nat
      BY MixerConstants DEF LedgerType
    <3>2. /\ Share(led, a) \in Nat /\ Share(led, a) <= a
          /\ config.emode => Share(led, a) * led.pending <= a * led.bal
      BY <1>1, <1>2, ShareBounds
    <3>3. led.pending \in Nat \ {0}
      BY <1>2, <1>3
    <3>. QED
      BY <1>3, <3>1, <3>2, <3>3
  <2>2. config.emode \/ v >= p
    BY DEF Solvent
  <2> HIDE DEF s, v, p
  <2>3. ASSUME v >= p
        PROVE  s <= v
    BY <1>2, <2>1, <2>3
  <2>4. ASSUME config.emode
        PROVE  s <= v
    <3>1. v * a <= v * p
      BY <1>2, <2>1, MulMono
    <3>2. s * p <= v * p
      BY <1>2, <2>1, <2>4, <3>1
    <3>. QED
      BY <2>1, <3>2, MulCancel
  <2>. QED
    BY <2>2, <2>3, <2>4 DEF s, v
<1>5. i < Count
  BY <1>1
<1>6. c.note = note /\ c.i = i /\ c.siblings = siblings
  BY DEF Claim
<1> HIDE DEF c, note
<1>. QED
  BY <1>1, <1>2, <1>3, <1>4, <1>5, <1>6 DEF Releasable, ExitGate, Unspent, note, c

LEMMA InvOpensExits ==
  ASSUME PoolInv
  PROVE  ExitsOpen
<1> SUFFICES ASSUME NEW i \in Live, topo >= unlock[i + 1], config.emode \/ Solvent(ledger)
             PROVE  Releasable(ledger, Claim(LeafOf(i), i, Proof(i)))
  BY DEF ExitsOpen
<1>1. i \in Unpaid(ledger) /\ i \in 0..(Count - 1) /\ Right(ledger)
      /\ ledger \in LedgerType
  BY DEF Live, Unpaid, PoolInv, TypeOK, LedgerType
<1>2. Fold(LeafOf(i), i, Proof(i)) \in valid
  <2>1. Fold(LeafOf(i), i, Proof(i)) = Latest
        /\ valid = {roots[n] : n \in {m \in 1..Len(roots) : m > Len(roots) - ROOT_HISTORY}}
        /\ Len(roots) = Count + 1 /\ Count \in Nat
    BY <1>1, TreeInvExact DEF PoolInv, RootsExact, ProofsExact, TypeOK, TreeInv
  <2>2. Len(roots) \in {m \in 1..Len(roots) : m > Len(roots) - ROOT_HISTORY}
    BY <2>1, MixerConstants
  <2>. QED
    BY <2>1, <2>2 DEF Latest
<1>. QED
  BY <1>1, <1>2, ReleasePasses

\* I9: an unlocked note of a pool that is solvent, or in emergency mode, can be
\* released with a fresh proof, whatever the owner did; no batch, claim of fees,
\* stray deposit or emergency share leaves it short.
THEOREM ExitsStayOpen == Spec => []ExitsOpen
<1>1. PoolInv => ExitsOpen
  BY InvOpensExits
<1>. QED
  BY <1>1, PoolHolds, PTL

-----------------------------------------------------------------------------
(* What a step of the pool may do to what it holds.                        *)

LEMMA StepCover ==
  ASSUME PoolInv, [PoolStep]_vars
  PROVE  /\ Surplus(ledger') < Surplus(ledger) => \E n \in LossArgs : Anomaly(n)
         /\ config.emode /\ ledger'.spent # ledger.spent =>
              ledger'.bal * ledger.pending >= ledger.bal * ledger'.pending
<1> DEFINE Goal == /\ Surplus(ledger') < Surplus(ledger) => \E n \in LossArgs : Anomaly(n)
                   /\ config.emode /\ ledger'.spent # ledger.spent =>
                        ledger'.bal * ledger.pending >= ledger.bal * ledger'.pending
<1>0. /\ TypeOK /\ TreeInv /\ Right(ledger) /\ ledger \in LedgerType
      /\ ledger.bal \in Nat /\ ledger.pending \in Nat /\ ledger.fees \in Nat
  BY PoolParts
<1>1. ASSUME ledger' = ledger
      PROVE  Goal
  BY <1>0, <1>1 DEF Surplus
<1>2. ASSUME NEW note \in Notes, NEW delay \in Nat, Deposit(note, delay)
      PROVE  Goal
  <2> DEFINE a == note.amount
  <2>1. a \in Nat
        /\ ledger' = [ledger EXCEPT !.bal = @ + a, !.pending = @ + a, !.deposited = @ + a]
    BY <1>2, NoteTypes DEF Deposit
  <2> HIDE DEF a
  <2>2. ledger'.bal = ledger.bal + a /\ ledger'.pending = ledger.pending + a
        /\ ledger'.fees = ledger.fees /\ ledger'.spent = ledger.spent
    BY <1>0, <2>1 DEF LedgerType
  <2>. QED
    BY <1>0, <2>1, <2>2 DEF Surplus
<1>3. ASSUME NEW batch, IsBatch(batch), ReleaseMany(batch)
      PROVE  Goal
  <2>1. Settles(ledger')
    BY <1>0, <1>3, BatchSettles
  <2>2. ledger'.bal \in Nat /\ ledger'.pending \in Nat /\ ledger'.fees \in Nat
    BY <2>1, MixerConstants DEF Settles, LedgerType
  <2>3. Surplus(ledger') >= Surplus(ledger) /\ Surplus(ledger') \in Int
        /\ Surplus(ledger) \in Int
    BY <1>0, <2>1, <2>2 DEF Settles, Surplus
  <2>4. config.emode => ledger'.bal * ledger.pending >= ledger.bal * ledger'.pending
    BY <2>1 DEF Settles
  <2>. QED
    BY <2>3, <2>4
<1>4. ASSUME NEW u \in Wallets, EmergencyExit(u)
      PROVE  Goal
  <2>1. KeptFees \in Nat /\ KeptFees <= ledger.fees
    BY <1>0 DEF KeptFees, Least, Spare, Floor0
  <2>2. ledger' = [ledger EXCEPT !.fees = KeptFees]
    BY <1>4 DEF EmergencyExit
  <2>3. ledger'.bal = ledger.bal /\ ledger'.pending = ledger.pending
        /\ ledger'.fees = KeptFees /\ ledger'.spent = ledger.spent
    BY <1>0, <2>2 DEF LedgerType
  <2>. QED
    BY <1>0, <2>1, <2>3 DEF Surplus
<1>5. ASSUME NEW u \in Wallets, NEW n \in Nat, ClaimFees(u, n)
      PROVE  Goal
  <2>1. ledger' = [ledger EXCEPT !.fees = @ - n, !.bal = @ - n]
    BY <1>5 DEF ClaimFees
  <2>2. ledger'.bal = ledger.bal - n /\ ledger'.pending = ledger.pending
        /\ ledger'.fees = ledger.fees - n /\ ledger'.spent = ledger.spent
    BY <1>0, <2>1 DEF LedgerType
  <2>. QED
    BY <1>0, <2>2 DEF Surplus
<1>6. ASSUME NEW n \in Nat, Stray(n)
      PROVE  Goal
  <2>1. ledger' = [ledger EXCEPT !.bal = @ + n]
    BY <1>6 DEF Stray, Moved
  <2>2. ledger'.bal = ledger.bal + n /\ ledger'.pending = ledger.pending
        /\ ledger'.fees = ledger.fees /\ ledger'.spent = ledger.spent
    BY <1>0, <2>1 DEF LedgerType
  <2>. QED
    BY <1>0, <2>2 DEF Surplus
<1>7. ASSUME NEW n \in LossArgs, Anomaly(n)
      PROVE  Goal
  <2>1. ledger' = [ledger EXCEPT !.bal = @ - n]
    BY <1>7 DEF Anomaly, Moved
  <2>2. ledger'.spent = ledger.spent
    BY <1>0, <2>1 DEF LedgerType
  <2>. QED
    BY <1>7, <2>2
<1>8. UNCHANGED vars \/ Tick => ledger' = ledger
  BY DEF vars, Tick
<1>. QED
  BY <1>0, <1>1, <1>2, <1>3, <1>4, <1>5, <1>6, <1>7, <1>8 DEF PoolStep

\* I2: only an anomaly of the chain lowers what the pool holds beyond its unpaid
\* notes and its fees; and in emergency mode a batch of any length leaves at
\* least as much per unit owed as it found, so the order of the exits is fair.
THEOREM CoverStays == Spec => CoverKept
<1>1. PoolInv /\ [Next]_vars =>
        [/\ Surplus(ledger') < Surplus(ledger) => \E n \in LossArgs : Anomaly(n)
         /\ config.emode /\ ledger'.spent # ledger.spent =>
              ledger'.bal * ledger.pending >= ledger.bal * ledger'.pending]_vars
  BY StepCover, StepKinds DEF PoolInv
<1>. QED
  BY <1>1, PoolHolds, PTL DEF Spec, CoverKept

-----------------------------------------------------------------------------
(* The pool is a book of notes.                                            *)

\* The worth of two separate sets of leaves is the sum of theirs.
LEMMA WorthUnion ==
  ASSUME NEW lv, NEW S, NEW T, IsFiniteSet(S), IsFiniteSet(T), S \cap T = {},
         \A i \in S \cup T : lv[i] \in Notes
  PROVE  WorthIn(lv, S \cup T) = WorthIn(lv, S) + WorthIn(lv, T)
<1> DEFINE f == [i \in S |-> lv[i].amount]
           g == [i \in T |-> lv[i].amount]
           h == [i \in S \cup T |-> lv[i].amount]
<1>1. f \in [S -> Nat] /\ g \in [T -> Nat]
  BY NoteTypes
<1>2. Units(h) = Units(f) \cup Units(g) /\ Units(f) \cap Units(g) = {}
  <2>1. /\ DOMAIN f = S /\ DOMAIN g = T /\ DOMAIN h = S \cup T
        /\ (\A d \in S : h[d] = f[d]) /\ (\A d \in T : h[d] = g[d])
    OBVIOUS
  <2> HIDE DEF f, g, h
  <2>2. Units(h) = Units(f) \cup Units(g)
    BY <2>1 DEF Units
  <2>3. \A u : (u \in Units(f) => u[1] \in S) /\ (u \in Units(g) => u[1] \in T)
    BY <2>1 DEF Units
  <2>. QED
    BY <2>2, <2>3
<1> HIDE DEF f, g, h
<1>3. IsFiniteSet(Units(f)) /\ IsFiniteSet(Units(g))
  BY <1>1, UnitsFinite
<1>4. Cardinality(Units(f)) \in Nat /\ Cardinality(Units(g)) \in Nat
  BY <1>3, FS_CardinalityType
<1>5. Cardinality(Units(h))
        = Cardinality(Units(f)) + Cardinality(Units(g)) - Cardinality({})
  BY <1>2, <1>3, FS_Union
<1>6. Total(h) = Total(f) + Total(g)
  BY <1>4, <1>5, FS_EmptySet DEF Total
<1>. QED
  BY <1>6 DEF WorthIn, f, g, h

\* The book counts and adds as the pool's model does.
LEMMA BookCounts ==
  ASSUME NEW S
  PROVE  Book!Cardinality(S) = Cardinality(S)
BY DEF Book!Cardinality, Cardinality

LEMMA BookWorth ==
  ASSUME NEW S
  PROVE  Book!Worth(S) = WorthIn(nodes[0], S)
<1> DEFINE f == [i \in S |-> nodes[0][i].amount]
<1>1. Book!Units(f) = Units(f)
  BY DEF Book!Units, Units
<1> HIDE DEF f
<1>2. Book!Total(f) = Total(f)
  BY <1>1, BookCounts DEF Book!Total, Total
<1>. QED
  BY <1>2 DEF Book!Worth, WorthIn, f

LEMMA InitBook == Init => Book!Init
<1> SUFFICES ASSUME Init
             PROVE  Book!Init
  OBVIOUS
<1>1. TREE_DEPTH \in Nat \ {0} /\ 0 \in Levels
  BY MixerConstants DEF Levels
<1>. QED
  BY <1>1 DEF Init, Book!Init

\* A deposit puts its note at the end of the book.
LEMMA DepositPuts ==
  ASSUME PoolInv, NEW note \in Notes, NEW delay \in Nat, Deposit(note, delay)
  PROVE  Book!Put
<1> DEFINE n == Cardinality(DOMAIN nodes[0])
<1>1. /\ Count \in Nat /\ DOMAIN nodes[0] = 0..(Count - 1) /\ DOMAIN nodes'[0] = 0..Count
      /\ Count' = Count + 1
      /\ nodes'[0][Count] = note /\ \A i \in 0..(Count - 1) : nodes'[0][i] = nodes[0][i]
  BY DepositLeaves DEF PoolInv, Extends
<1>2. n = Count
  <2>1. Cardinality(0..(Count - 1)) = Count
    <3>1. 0 \in Int /\ Count - 1 \in Int
      BY <1>1
    <3>2. Cardinality(0..(Count - 1)) = IF 0 > Count - 1 THEN 0 ELSE (Count - 1) - 0 + 1
      BY <3>1, FS_Interval
    <3>. QED
      BY <1>1, <3>2
  <2>. QED
    BY <1>1, <2>1
<1>3. /\ unlock \in Seq(0..MAX_TOPO) /\ unlock' = Append(unlock, topo + delay)
      /\ topo \in Nat /\ ledger.bal \in Nat /\ ledger \in LedgerType
  BY MixerConstants DEF PoolInv, TypeOK, LedgerType, Deposit
<1>4. /\ DOMAIN unlock' = 1..(Count + 1)
      /\ \A i \in 0..(Count - 1) : unlock'[i + 1] = unlock[i + 1]
      /\ unlock'[Count + 1] = topo + delay
  <2>1. Len(unlock) = Count /\ \A i \in 0..(Count - 1) : i + 1 \in 1..Len(unlock)
    BY <1>1 DEF Count
  <2>2. \A k \in 1..Len(unlock) : unlock'[k] = unlock[k]
    BY <1>3
  <2>3. DOMAIN unlock' = 1..(Len(unlock) + 1) /\ unlock'[Len(unlock) + 1] = topo + delay
    BY <1>3
  <2>. QED
    BY <2>1, <2>2, <2>3
<1>5. topo + delay >= topo
  BY <1>3
<1>6. /\ ledger'.bal = ledger.bal + note.amount /\ ledger'.spent = ledger.spent
      /\ topo' = topo
  BY <1>3 DEF Deposit, LedgerType
<1>7. Book!Cardinality(DOMAIN nodes[0]) = Count
  BY <1>2, BookCounts
<1>. QED
  BY <1>1, <1>4, <1>5, <1>6, <1>7 DEF Book!Put

\* A batch pays some unpaid notes that are due, each at most what it is worth.
LEMMA BatchPays ==
  ASSUME PoolInv, NEW batch, IsBatch(batch), ReleaseMany(batch)
  PROVE  \E S \in SUBSET (DOMAIN nodes[0] \ ledger.spent) : Book!Pay(S)
<1> DEFINE S == ledger'.spent \ ledger.spent
           U == Unpaid(ledger)
           V == Unpaid(ledger')
<1>0. TypeOK /\ TreeInv /\ Right(ledger) /\ ledger \in LedgerType
  BY DEF PoolInv, TypeOK, LedgerType
<1>1. Settles(ledger') /\ ledger'.spent # ledger.spent
      /\ UNCHANGED <<config, nodes, roots, valid, unlock, topo>>
  BY <1>0, BatchSettles
<1>2. /\ ledger' \in LedgerType /\ Right(ledger') /\ ledger.spent \subseteq ledger'.spent
      /\ \A i \in S : topo >= unlock[i + 1]
      /\ ledger'.bal <= ledger.bal /\ ledger.bal - ledger'.bal <= ledger.pending - ledger'.pending
  BY <1>1 DEF Settles
<1>3. S \in SUBSET (DOMAIN nodes[0] \ ledger.spent) /\ S # {}
      /\ ledger'.spent = ledger.spent \cup S
  <2>1. ledger'.spent \subseteq 0..(Count - 1)
    BY <1>2 DEF LedgerType
  <2>2. DOMAIN nodes[0] = 0..(Count - 1)
    BY <1>0, StoredLeaves
  <2>. QED
    BY <1>1, <1>2, <2>1, <2>2
<1>4. U = S \cup V /\ S \cap V = {}
  <2>1. S \subseteq 0..(Count - 1)
    BY <1>2 DEF LedgerType
  <2>. QED
    BY <1>2, <2>1 DEF Unpaid
<1>5. IsFiniteSet(S) /\ IsFiniteSet(V) /\ \A i \in S \cup V : nodes[0][i] \in Notes
  <2>1. IsFiniteSet(U) /\ IsFiniteSet(V) /\ \A i \in U : nodes[0][i] \in Notes
    BY <1>0, UnpaidFinite DEF LeafOf
  <2>2. IsFiniteSet(S)
    BY <1>4, <2>1, FS_Subset
  <2>. QED
    BY <1>4, <2>1, <2>2
<1>6. ledger.pending = WorthIn(nodes[0], S) + ledger'.pending
  <2>1. WorthIn(nodes[0], S \cup V) = WorthIn(nodes[0], S) + WorthIn(nodes[0], V)
    <3> HIDE DEF S, V
    <3>. QED
      BY <1>4, <1>5, WorthUnion
  <2>2. ledger.pending = WorthIn(nodes[0], U) /\ ledger'.pending = WorthIn(nodes[0], V)
    BY <1>0, <1>2 DEF Right, Value
  <2>. QED
    BY <1>4, <2>1, <2>2
<1>7. WorthIn(nodes[0], S) \in Nat
  <2> HIDE DEF S, V
  <2>. QED
    BY <1>5, WorthType
<1>8. ledger'.bal \in (ledger.bal - WorthIn(nodes[0], S))..ledger.bal
  <2>1. /\ ledger.bal \in Nat /\ ledger'.bal \in Nat
        /\ ledger.pending \in Nat /\ ledger'.pending \in Nat
    BY <1>0, <1>2, MixerConstants DEF LedgerType
  <2> HIDE DEF S
  <2>. QED
    BY <1>2, <1>6, <1>7, <2>1
<1>9. Book!Worth(S) = WorthIn(nodes[0], S)
  BY BookWorth
<1>10. Book!Pay(S)
  <2>1. \A i \in S : unlock[i + 1] <= topo
    BY <1>2
  <2> HIDE DEF S
  <2>. QED
    BY <1>1, <1>3, <1>8, <1>9, <2>1 DEF Book!Pay
<1>. QED
  BY <1>3, <1>10

\* Each of the pool's steps is one of the book's, or changes nothing in it.
LEMMA StepBook ==
  ASSUME PoolInv, [PoolStep]_vars
  PROVE  [Book!Next]_Book!bookVars
<1>0. /\ TypeOK /\ TreeInv /\ Right(ledger) /\ ledger \in LedgerType
      /\ ledger.bal \in Nat /\ ledger.pending \in Nat /\ ledger.fees \in Nat
  BY PoolParts
<1>1. ASSUME UNCHANGED <<nodes, unlock, topo>>, ledger'.spent = ledger.spent,
             ledger'.bal = ledger.bal
      PROVE  UNCHANGED Book!bookVars
  BY <1>1 DEF Book!bookVars
<1>2. ASSUME NEW note \in Notes, NEW delay \in Nat, Deposit(note, delay)
      PROVE  Book!Next
  BY <1>2, DepositPuts DEF Book!Next
<1>3. ASSUME NEW batch, IsBatch(batch), ReleaseMany(batch)
      PROVE  Book!Next
  BY <1>3, BatchPays DEF Book!Next
<1>4. ASSUME NEW u \in Wallets, EmergencyExit(u)
      PROVE  UNCHANGED Book!bookVars
  <2>1. ledger' = [ledger EXCEPT !.fees = KeptFees] /\ UNCHANGED <<nodes, unlock, topo>>
    BY <1>4 DEF EmergencyExit
  <2>2. ledger'.bal = ledger.bal /\ ledger'.spent = ledger.spent
    BY <1>0, <2>1 DEF LedgerType
  <2>. QED
    BY <1>1, <2>1, <2>2
<1>5. ASSUME NEW u \in Wallets, NEW n \in Nat, ClaimFees(u, n)
      PROVE  Book!Next
  <2>1. /\ n > 0 /\ n <= Spare /\ UNCHANGED <<nodes, unlock, topo>>
        /\ ledger' = [ledger EXCEPT !.fees = @ - n, !.bal = @ - n]
    BY <1>5 DEF ClaimFees
  <2>2. ledger'.bal = ledger.bal - n /\ ledger'.spent = ledger.spent
    BY <1>0, <2>1 DEF LedgerType
  <2>3. Book!Owed = ledger.pending
    <3>1. DOMAIN nodes[0] \ ledger.spent = Unpaid(ledger)
      BY <1>0, StoredLeaves DEF Unpaid
    <3>. QED
      BY <1>0, <3>1, BookWorth DEF Book!Owed, Right, Value
  <2>4. ledger'.bal \in ledger.pending..(ledger.bal - 1)
    BY <1>0, <2>1, <2>2 DEF Spare, Floor0
  <2>. QED
    BY <2>1, <2>2, <2>3, <2>4 DEF Book!Next, Book!Collect
<1>6. ASSUME NEW n \in Nat, Stray(n)
      PROVE  Book!Next
  <2>1. /\ n >= 1 /\ UNCHANGED <<nodes, unlock, topo>>
        /\ ledger' = [ledger EXCEPT !.bal = @ + n]
    BY <1>6 DEF Stray, Moved
  <2>2. ledger'.bal = ledger.bal + n /\ ledger'.spent = ledger.spent
    BY <1>0, <2>1 DEF LedgerType
  <2>. QED
    BY <1>0, <2>1, <2>2 DEF Book!Next, Book!Receive
<1>7. ASSUME NEW n \in LossArgs, Anomaly(n)
      PROVE  Book!Next
  <2>1. UNCHANGED <<nodes, unlock, topo>> /\ ledger' = [ledger EXCEPT !.bal = @ - n]
    BY <1>7 DEF Anomaly, Moved
  <2>2. ledger'.bal = ledger.bal - n /\ ledger'.spent = ledger.spent
    BY <1>0, <2>1 DEF LedgerType
  <2>. QED
    BY <2>1, <2>2 DEF Book!Next, Book!Lose
<1>8. CASE Tick
  BY <1>8 DEF Tick, Book!Next, Book!Pass
<1>9. CASE UNCHANGED <<nodes, roots, valid, unlock, ledger, topo>> \/ UNCHANGED vars
  BY <1>9, <1>1 DEF vars
<1>. QED
  BY <1>0, <1>2, <1>3, <1>4, <1>5, <1>6, <1>7, <1>8, <1>9 DEF PoolStep

\* I8 and more: with all the pauses, batches, proofs, emergencies and changes of
\* hands, the pool implements NoteBook: no note is ever altered, paid twice, paid
\* early or paid more than its worth, and no income of the owner's comes out of
\* the cash the unpaid notes are owed.
THEOREM PoolIsNoteBook == Spec => ImplementsNoteBook
<1>1. PoolInv /\ [Next]_vars => [Book!Next]_Book!bookVars
  BY StepBook, StepKinds DEF PoolInv
<1>. QED
  BY <1>1, InitBook, PoolHolds, PTL DEF Spec, Book!Spec, ImplementsNoteBook

-----------------------------------------------------------------------------
(* The holders' proofs.                                                    *)

\* What has been read stays true as the pool moves on.
LEMMA StepKeeps ==
  ASSUME PoolInv, [PoolStep]_vars
  PROVE  /\ Count' \in Nat /\ Count' >= Count /\ topo' >= topo
         /\ \A i \in 0..(Count - 1) : LeafOf(i)' = LeafOf(i) /\ unlock'[i + 1] = unlock[i + 1]
         /\ \A n \in 0..Count : roots'[n + 1] = roots[n + 1]
<1>0. /\ TypeOK /\ TreeInv /\ Right(ledger) /\ Count \in Nat /\ topo \in Nat
      /\ Len(roots) = Count + 1 /\ roots = [n \in 1..(Count + 1) |-> RootOf(n - 1)]
  BY PoolParts
<1>1. ASSUME UNCHANGED <<nodes, roots, unlock>>, topo' >= topo
      PROVE  /\ Count' \in Nat /\ Count' >= Count /\ topo' >= topo
             /\ \A i \in 0..(Count - 1) : LeafOf(i)' = LeafOf(i) /\ unlock'[i + 1] = unlock[i + 1]
             /\ \A n \in 0..Count : roots'[n + 1] = roots[n + 1]
  BY <1>0, <1>1 DEF Count, LeafOf
<1>2. ASSUME NEW note \in Notes, NEW delay \in Nat, Deposit(note, delay)
      PROVE  /\ Count' \in Nat /\ Count' >= Count /\ topo' >= topo
             /\ \A i \in 0..(Count - 1) : LeafOf(i)' = LeafOf(i) /\ unlock'[i + 1] = unlock[i + 1]
             /\ \A n \in 0..Count : roots'[n + 1] = roots[n + 1]
  <2>1. Count' = Count + 1 /\ \A i \in 0..(Count - 1) : nodes'[0][i] = nodes[0][i]
    BY <1>0, <1>2, DepositLeaves DEF Extends
  <2>2. \A i \in 0..(Count - 1) : unlock'[i + 1] = unlock[i + 1]
    <3>1. unlock \in Seq(0..MAX_TOPO) /\ unlock' = Append(unlock, topo + delay)
      BY <1>0, <1>2 DEF TypeOK, Deposit
    <3>2. \A k \in 1..Len(unlock) : unlock'[k] = unlock[k]
      BY <3>1
    <3>. QED
      BY <1>0, <3>2 DEF Count
  <2>3. \A n \in 0..Count : roots'[n + 1] = roots[n + 1]
    <3> DEFINE root == InsertPath(note, Count)[TREE_DEPTH]
    <3>1. roots' = Append(roots, root)
      BY <1>2 DEF Deposit
    <3> HIDE DEF root
    <3>2. \A k \in 1..(Count + 1) : roots'[k] = roots[k]
      BY <1>0, <3>1
    <3>. QED
      BY <1>0, <3>2
  <2>4. topo' = topo
    BY <1>2 DEF Deposit
  <2>5. \A i \in 0..(Count - 1) : LeafOf(i)' = LeafOf(i)
    BY <2>1 DEF LeafOf
  <2>6. Count' \in Nat /\ Count' >= Count /\ topo' >= topo
    BY <1>0, <2>1, <2>4
  <2>. QED
    BY <2>2, <2>3, <2>5, <2>6
<1>3. ASSUME NEW batch, IsBatch(batch), ReleaseMany(batch)
      PROVE  UNCHANGED <<nodes, roots, unlock, topo>>
  BY <1>3 DEF ReleaseMany
<1>4. \A u \in Wallets, n \in Nat :
        EmergencyExit(u) \/ ClaimFees(u, n) => UNCHANGED <<nodes, roots, unlock, topo>>
  BY DEF EmergencyExit, ClaimFees
<1>5. \A n : Stray(n) \/ Anomaly(n) => UNCHANGED <<nodes, roots, unlock, topo>>
  BY DEF Stray, Anomaly, Moved
<1>6. Tick => UNCHANGED <<nodes, roots, unlock>> /\ topo' >= topo
  BY <1>0 DEF Tick
<1>7. UNCHANGED <<nodes, roots, unlock, topo>> =>
        UNCHANGED <<nodes, roots, unlock>> /\ topo' >= topo
  BY <1>0
<1>8. UNCHANGED vars => UNCHANGED <<nodes, roots, unlock, topo>>
  BY DEF vars
<1>9. \A u \in Wallets : EmergencyExit(u) => UNCHANGED <<nodes, roots, unlock, topo>>
  BY DEF EmergencyExit
<1>. QED
  BY <1>1, <1>2, <1>3, <1>4, <1>5, <1>6, <1>7, <1>8, <1>9 DEF PoolStep

\* The contract alone never makes a solvent pool short outside the emergency.
PaysOut == config.emode \/ Solvent(ledger)

LEMMA StepPays ==
  ASSUME PoolInv, PaysOut, [PoolStep]_vars, ~\E n \in LossArgs : Anomaly(n)
  PROVE  PaysOut'
<1>0. /\ TypeOK /\ TreeInv /\ Right(ledger) /\ ledger \in LedgerType /\ config \in ConfigType
      /\ ledger.bal \in Nat /\ ledger.pending \in Nat /\ ledger.fees \in Nat
  BY PoolParts
<1>1. ASSUME NEW note \in Notes, NEW delay \in Nat, Deposit(note, delay)
      PROVE  PaysOut'
  <2> DEFINE a == note.amount
  <2>1. a \in Nat /\ UNCHANGED config
        /\ ledger' = [ledger EXCEPT !.bal = @ + a, !.pending = @ + a, !.deposited = @ + a]
    BY <1>1, NoteTypes DEF Deposit
  <2> HIDE DEF a
  <2>2. ledger'.bal = ledger.bal + a /\ ledger'.pending = ledger.pending + a
    BY <1>0, <2>1 DEF LedgerType
  <2>. QED
    BY <1>0, <2>1, <2>2 DEF PaysOut, Solvent
<1>2. ASSUME NEW batch, IsBatch(batch), ReleaseMany(batch)
      PROVE  PaysOut'
  <2>1. Settles(ledger') /\ UNCHANGED config
    BY <1>0, <1>2, BatchSettles
  <2>2. ledger'.bal \in Nat /\ ledger'.pending \in Nat
        /\ ledger.bal - ledger'.bal <= ledger.pending - ledger'.pending
    BY <2>1, MixerConstants DEF Settles, LedgerType
  <2>. QED
    BY <1>0, <2>1, <2>2 DEF PaysOut, Solvent
<1>3. ASSUME NEW u \in Wallets, EmergencyExit(u)
      PROVE  PaysOut'
  BY <1>0, <1>3 DEF PaysOut, EmergencyExit, ConfigType
<1>4. ASSUME NEW u \in Wallets, NEW n \in Nat, ClaimFees(u, n)
      PROVE  PaysOut'
  <2>1. n > 0 /\ n <= Spare /\ ledger' = [ledger EXCEPT !.fees = @ - n, !.bal = @ - n]
    BY <1>4 DEF ClaimFees
  <2>2. ledger'.bal = ledger.bal - n /\ ledger'.pending = ledger.pending
    BY <1>0, <2>1 DEF LedgerType
  <2>. QED
    BY <1>0, <2>1, <2>2 DEF PaysOut, Solvent, Spare, Floor0
<1>5. ASSUME NEW n \in Nat, Stray(n)
      PROVE  PaysOut'
  <2>1. ledger' = [ledger EXCEPT !.bal = @ + n] /\ UNCHANGED config
    BY <1>5 DEF Stray, Moved
  <2>2. ledger'.bal = ledger.bal + n /\ ledger'.pending = ledger.pending
    BY <1>0, <2>1 DEF LedgerType
  <2>. QED
    BY <1>0, <2>1, <2>2 DEF PaysOut, Solvent
<1>6. CASE UNCHANGED <<config, ledger>>
  BY <1>6 DEF PaysOut, Solvent
<1>7. CASE UNCHANGED ledger /\ config'.emode = config.emode
  BY <1>7 DEF PaysOut, Solvent
<1>8. UNCHANGED vars \/ Tick => UNCHANGED <<config, ledger>>
  BY DEF vars, Tick
<1>. QED
  BY <1>1, <1>2, <1>3, <1>4, <1>5, <1>6, <1>7, <1>8 DEF PoolStep

\* What a holder's reads have established: a leaf it reads a proof for is one of
\* the pool's and due, and a checked proof folds to the root of its moment.
Ran(i) ==
  LET p == prep[i]
  IN
  /\ p = [siblings |-> p.siblings, checked |-> p.checked, at |-> p.at]
  /\ p.siblings # <<>> \/ p.checked => i \in 0..(Count - 1) /\ topo >= unlock[i + 1]
  /\ p.checked => /\ Len(p.siblings) = TREE_DEPTH /\ p.at \in 0..Count
                  /\ Fold(LeafOf(i), i, p.siblings) = roots[p.at + 1]
RunsInv ==
  /\ Holders \subseteq Leaves /\ prep = [i \in Holders |-> prep[i]]
  /\ \A i \in Holders : Ran(i)

\* The inductive invariant of a holder beside the pool.
BotInv == PoolInv /\ PaysOut /\ RunsInv

LEMMA InitRuns ==
  ASSUME Init, NEW H \in SUBSET Leaves, BotInit(H)
  PROVE  BotInv
<1>1. PoolInv
  BY InitInv
<1>2. PaysOut
  BY DEF Init, PaysOut, Solvent
<1>3. prep = [i \in H |-> Idle] /\ Holders = H
  BY DEF BotInit, Holders
<1>4. ASSUME NEW i \in Holders
      PROVE  Ran(i)
  <2>1. prep[i] = [siblings |-> <<>>, checked |-> FALSE, at |-> 0]
    BY <1>3 DEF Idle
  <2>. QED
    BY <2>1 DEF Ran
<1>. QED
  BY <1>1, <1>2, <1>3, <1>4 DEF BotInv, RunsInv

\* The pool's steps leave a holder's findings true.
LEMMA RunKept ==
  ASSUME PoolInv, [PoolStep]_vars, NEW i, Ran(i), prep'[i] = prep[i]
  PROVE  Ran(i)'
<1> DEFINE p == prep[i]
<1>1. /\ Count \in Nat /\ Count' \in Nat /\ Count' >= Count /\ topo' >= topo
      /\ \A k \in 0..(Count - 1) : LeafOf(k)' = LeafOf(k) /\ unlock'[k + 1] = unlock[k + 1]
      /\ \A n \in 0..Count : roots'[n + 1] = roots[n + 1]
  BY StepKeeps DEF PoolInv, TreeInv
<1>2. /\ p = [siblings |-> p.siblings, checked |-> p.checked, at |-> p.at]
      /\ p.siblings # <<>> \/ p.checked => i \in 0..(Count - 1) /\ topo >= unlock[i + 1]
      /\ p.checked => /\ Len(p.siblings) = TREE_DEPTH /\ p.at \in 0..Count
                      /\ Fold(LeafOf(i), i, p.siblings) = roots[p.at + 1]
  BY DEF Ran
<1>3. topo \in Nat /\ topo' \in Nat
      /\ \A k \in 0..(Count - 1) : unlock[k + 1] \in Nat
  <2>1. TypeOK /\ TypeOK' /\ MAX_TOPO \in Nat
    BY StepInv, MixerConstants DEF PoolInv
  <2>2. topo \in 0..MAX_TOPO /\ topo' \in 0..MAX_TOPO /\ unlock \in Seq(0..MAX_TOPO)
    BY <2>1 DEF TypeOK
  <2>3. \A k \in 1..Len(unlock) : unlock[k] \in 0..MAX_TOPO
    BY <2>2, ElementOfSeq
  <2>4. \A k \in 0..(Count - 1) : k + 1 \in 1..Len(unlock)
    BY <1>1 DEF Count
  <2>. QED
    BY <2>1, <2>2, <2>3, <2>4
<1> DEFINE leaf == LeafOf(i)
<1>4. i \in 0..(Count - 1) => LeafOf(i)' = leaf /\ unlock'[i + 1] = unlock[i + 1]
                              /\ i \in 0..(Count' - 1)
  BY <1>1
<1> HIDE DEF leaf
<1>5. p.siblings # <<>> \/ p.checked => i \in 0..(Count' - 1) /\ topo' >= unlock'[i + 1]
  BY <1>1, <1>2, <1>3, <1>4
<1>6. p.checked => /\ p.at \in 0..Count' /\ roots'[p.at + 1] = roots[p.at + 1]
                   /\ LeafOf(i)' = LeafOf(i)
  BY <1>1, <1>2
<1>. QED
  BY <1>2, <1>5, <1>6 DEF Ran

LEMMA IdleRan ==
  ASSUME NEW i, prep'[i] = Idle
  PROVE  Ran(i)'
BY DEF Ran, Idle

LEMMA SubmitIs ==
  ASSUME BotInv, NEW batch, NEW m \in Nat, DOMAIN batch = 1..m,
         \A n \in 1..m : batch[n] \in Holders, Submit(batch)
  PROVE  BotInv' \/ \E n \in LossArgs : Anomaly(n)
<1> DEFINE claims == [n \in DOMAIN batch |-> PreparedClaim(batch[n])]
<1>1. /\ \A n \in 1..m : prep[batch[n]].checked
      /\ prep' = [i \in Holders |-> IF \E n \in DOMAIN batch : batch[n] = i THEN Idle ELSE prep[i]]
      /\ ReleaseMany(claims) \/ UNCHANGED vars
  BY DEF Submit
<1>2. ASSUME NEW n \in 1..m
      PROVE  claims[n].note \in Notes /\ claims[n].i \in Nat
  <2>1. Ran(batch[n]) /\ prep[batch[n]].checked
    BY <1>1 DEF BotInv, RunsInv
  <2>2. batch[n] \in 0..(Count - 1) /\ Count \in Nat
    BY <2>1 DEF Ran, BotInv, PoolInv, TreeInv
  <2>3. LeafOf(batch[n]) \in Notes
    BY <2>2 DEF BotInv, PoolInv, TreeInv
  <2>4. claims[n] = Claim(LeafOf(batch[n]), batch[n], prep[batch[n]].siblings)
    BY DEF PreparedClaim
  <2> HIDE DEF claims
  <2>. QED
    BY <2>2, <2>3, <2>4 DEF Claim
<1>3. IsBatch(claims)
  <2> DEFINE R == {claims[n] : n \in 1..m}
  <2>1. claims \in [1..m -> R]
    OBVIOUS
  <2> HIDE DEF claims, R
  <2>2. claims \in Seq(R)
    BY <2>1, SeqDef
  <2>3. Len(claims) \in Nat /\ DOMAIN claims = 1..Len(claims) /\ DOMAIN claims = 1..m
    BY <2>1, <2>2, LenProperties
  <2>. QED
    BY <1>2, <2>3 DEF IsBatch
<1> HIDE DEF claims
<1>4. [PoolStep]_vars
  BY <1>1, <1>3 DEF PoolStep
<1>5. PoolInv' /\ (PaysOut' \/ \E n \in LossArgs : Anomaly(n))
  BY <1>4, StepInv, StepPays DEF BotInv
<1>6. Holders' = Holders /\ prep' = [i \in Holders |-> prep'[i]]
  BY <1>1 DEF Holders
<1>7. ASSUME NEW i \in Holders
      PROVE  Ran(i)'
  <2>1. prep'[i] = Idle \/ prep'[i] = prep[i]
    BY <1>1
  <2>. QED
    BY <1>4, <2>1, IdleRan, RunKept DEF BotInv, RunsInv
<1>8. RunsInv'
  BY <1>6, <1>7 DEF RunsInv, BotInv
<1>. QED
  BY <1>5, <1>8 DEF BotInv

\* A checked run differs from the run in its mark and its moment.
LEMMA CheckedRun ==
  ASSUME NEW r, r = [siblings |-> r.siblings, checked |-> r.checked, at |-> r.at],
         NEW t, NEW n
  PROVE  [r EXCEPT !.checked = t, !.at = n] = [siblings |-> r.siblings, checked |-> t, at |-> n]
<1> DEFINE A == {r.siblings}
           B == {r.checked, t}
           C == {r.at, n}
           R == [siblings : A, checked : B, at : C]
           q == [r EXCEPT !.checked = t, !.at = n]
<1>1. r.siblings \in A /\ r.checked \in B /\ r.at \in C /\ t \in B /\ n \in C
  OBVIOUS
<1> HIDE DEF A, B, C
<1>2. r \in R
  BY <1>1
<1>3. q \in R /\ q.siblings = r.siblings /\ q.checked = t /\ q.at = n
  BY <1>1, <1>2
<1> HIDE DEF q
<1>4. q = [siblings |-> q.siblings, checked |-> q.checked, at |-> q.at]
  BY <1>3
<1>5. q = [siblings |-> r.siblings, checked |-> t, at |-> n]
  BY <1>3, <1>4
<1>. QED
  BY <1>5 DEF q

\* One step of the pool or of a holder.
BotNext == (Next /\ UNCHANGED prep) \/ Commands

LEMMA StepRuns ==
  ASSUME BotInv, [BotNext]_<<vars, prep>>, [~\E n \in LossArgs : Anomaly(n)]_vars
  PROVE  BotInv'
<1>0. TypeOK /\ TreeInv /\ PoolInv /\ Count \in Nat /\ TREE_DEPTH \in Nat \ {0}
      /\ (\A i \in Holders : Ran(i)) /\ prep = [i \in Holders |-> prep[i]]
      /\ Holders \subseteq Leaves
  BY MixerConstants DEF BotInv, PoolInv, TreeInv, RunsInv
<1>q. ASSUME [PoolStep]_vars, Holders' = Holders, prep' = [i \in Holders |-> prep'[i]],
             \A i \in Holders : Ran(i)'
      PROVE  BotInv'
  <2>1. UNCHANGED vars => PoolInv' /\ PaysOut'
    <3>1. UNCHANGED vars => UNCHANGED <<config, ledger>>
      BY DEF vars
    <3>. QED
      BY <1>q, <3>1, StepInv DEF BotInv, PaysOut, Solvent
  <2>2. PoolInv'
    BY <1>q, StepInv DEF BotInv
  <2>3. PaysOut'
    BY <1>q, <2>1, StepPays DEF BotInv
  <2>4. RunsInv'
    BY <1>0, <1>q DEF RunsInv
  <2>. QED
    BY <2>2, <2>3, <2>4 DEF BotInv
<1>1. CASE UNCHANGED prep /\ [Next]_vars
  <2>1. [PoolStep]_vars /\ Holders' = Holders
    BY <1>0, <1>1, StepKinds DEF Holders
  <2>2. \A i \in Holders : Ran(i)'
    BY <1>0, <1>1, <2>1, RunKept
  <2>. QED
    BY <1>0, <1>1, <1>q, <2>1, <2>2
<1>2. ASSUME NEW i \in Holders, NEW p, Prepare(i, p),
             p.siblings # <<>> \/ p.checked => i \in 0..(Count - 1) /\ topo >= unlock[i + 1],
             p = [siblings |-> p.siblings, checked |-> p.checked, at |-> p.at],
             p.checked => /\ Len(p.siblings) = TREE_DEPTH /\ p.at \in 0..Count
                          /\ Fold(LeafOf(i), i, p.siblings) = roots[p.at + 1]
      PROVE  BotInv'
  <2>1. UNCHANGED vars /\ prep' = [prep EXCEPT ![i] = p]
    BY <1>2 DEF Prepare
  <2>2. Holders' = Holders /\ prep' = [k \in Holders |-> prep'[k]] /\ prep'[i] = p
        /\ \A k \in Holders \ {i} : prep'[k] = prep[k]
    BY <1>0, <2>1 DEF Holders
  <2>3. Ran(i)'
    BY <1>2, <2>1, <2>2 DEF Ran, vars, Count, LeafOf
  <2>4. \A k \in Holders : Ran(k)'
    BY <1>0, <2>1, <2>2, <2>3, RunKept
  <2>. QED
    BY <1>q, <2>1, <2>2, <2>4
<1>3. ASSUME NEW i \in Holders, ReadSibling(i)
      PROVE  BotInv'
  <2> DEFINE s == prep[i].siblings
             t == Append(s, Sibling(i, Len(s)))
             p == [prep[i] EXCEPT !.siblings = t]
  <2>1. Len(s) < TREE_DEPTH /\ (s = <<>> => Due(i)) /\ Prepare(i, p)
    BY <1>3 DEF ReadSibling
  <2>2. Ran(i)
    BY <1>0
  <2>3. i \in 0..(Count - 1) /\ topo >= unlock[i + 1]
    BY <2>1, <2>2 DEF Ran, Due, Live
  <2>4. ~prep[i].checked
    BY <1>0, <2>1, <2>2 DEF Ran
  <2>5. p = [siblings |-> t, checked |-> prep[i].checked, at |-> prep[i].at]
    <3> HIDE DEF t
    <3>. QED
      BY <2>2 DEF Ran
  <2> HIDE DEF p, t
  <2>6. /\ p = [siblings |-> p.siblings, checked |-> p.checked, at |-> p.at] /\ ~p.checked
    BY <2>4, <2>5
  <2>. QED
    BY <1>2, <2>1, <2>3, <2>6
<1>4. ASSUME NEW i \in Holders, CheckProof(i)
      PROVE  BotInv'
  <2>1. /\ Len(prep[i].siblings) = TREE_DEPTH
        /\ Prepare(i, IF LocalProof(i)
                      THEN [prep[i] EXCEPT !.checked = TRUE, !.at = Count] ELSE Idle)
    BY <1>4 DEF CheckProof
  <2>2. Ran(i)
    BY <1>0
  <2>3. i \in 0..(Count - 1) /\ topo >= unlock[i + 1]
    <3>1. prep[i].siblings # <<>>
      BY <1>0, <2>1, EmptySeq
    <3>. QED
      BY <2>2, <3>1 DEF Ran
  <2>4. CASE LocalProof(i)
    <3> DEFINE p == [prep[i] EXCEPT !.checked = TRUE, !.at = Count]
    <3>1. p = [siblings |-> prep[i].siblings, checked |-> TRUE, at |-> Count]
      BY <2>2, CheckedRun DEF Ran
    <3>2. Fold(LeafOf(i), i, prep[i].siblings) = roots[Count + 1]
      BY <1>0, <2>4 DEF LocalProof, Latest, TypeOK
    <3>3. Prepare(i, p)
      BY <2>1, <2>4
    <3> HIDE DEF p
    <3>. QED
      BY <1>0, <1>2, <2>1, <2>3, <3>1, <3>2, <3>3
  <2>5. CASE ~LocalProof(i)
    <3>1. Prepare(i, Idle)
      BY <2>1, <2>5
    <3>2. Idle = [siblings |-> Idle.siblings, checked |-> Idle.checked, at |-> Idle.at]
          /\ Idle.siblings = <<>> /\ ~Idle.checked
      BY DEF Idle
    <3>. QED
      BY <1>2, <3>1, <3>2
  <2>. QED
    BY <2>4, <2>5
<1>5. ASSUME NEW batch, NEW m \in Nat, DOMAIN batch = 1..m,
             \A n \in 1..m : batch[n] \in Holders, Submit(batch)
      PROVE  BotInv'
  <2>1. BotInv' \/ \E n \in LossArgs : Anomaly(n)
    BY <1>5, SubmitIs
  <2>2. (\E n \in LossArgs : Anomaly(n)) => UNCHANGED vars
    OBVIOUS
  <2>3. ASSUME UNCHANGED vars
        PROVE  BotInv'
    <3>1. Holders' = Holders /\ prep' = [i \in Holders |-> prep'[i]]
          /\ \A i \in Holders : prep'[i] = Idle \/ prep'[i] = prep[i]
      BY <1>5 DEF Submit, Holders
    <3>2. \A i \in Holders : Ran(i)'
      BY <1>0, <2>3, <3>1, IdleRan, RunKept
    <3>. QED
      BY <1>q, <2>3, <3>1, <3>2
  <2>. QED
    BY <2>1, <2>2, <2>3
<1>6. CASE Commands
  <2>1. \A i \in Holders : /\ DOMAIN <<i>> = 1..1 /\ 1 \in Nat
                           /\ \A n \in 1..1 : <<i>>[n] \in Holders
    OBVIOUS
  <2>2. \A i, j \in Holders : /\ DOMAIN <<i, j>> = 1..2 /\ 2 \in Nat
                              /\ \A n \in 1..2 : <<i, j>>[n] \in Holders
    OBVIOUS
  <2>3. ASSUME NEW i \in Holders, Submit(<<i>>)
        PROVE  BotInv'
    BY <1>5, <2>1, <2>3
  <2>4. ASSUME NEW i \in Holders, NEW j \in Holders, Submit(<<i, j>>)
        PROVE  BotInv'
    BY <1>5, <2>2, <2>4
  <2>. QED
    BY <1>3, <1>4, <1>6, <2>3, <2>4 DEF Commands, Alone, Together
<1>7. UNCHANGED <<vars, prep>> => UNCHANGED prep /\ UNCHANGED vars
  OBVIOUS
<1>. QED
  BY <1>1, <1>6, <1>7 DEF BotNext

\* A pair of prepared notes lands together, and each alone.
LEMMA BotLands == BotInv => ReleasesLand
<1> SUFFICES ASSUME BotInv
             PROVE  ReleasesLand
  OBVIOUS
<1>0. /\ PoolInv /\ TypeOK /\ TreeInv /\ Right(ledger) /\ ledger \in LedgerType /\ PaysOut
      /\ Count \in Nat /\ Len(roots) = Count + 1
      /\ valid = {roots[n] : n \in {m \in 1..Len(roots) : m > Len(roots) - ROOT_HISTORY}}
  BY DEF BotInv, PoolInv, TypeOK, LedgerType, TreeInv
<1>1. ASSUME NEW i \in Live \cap Holders, Fresh(i)
      PROVE  /\ Fold(LeafOf(i), i, prep[i].siblings) \in valid
             /\ i \in Unpaid(ledger) /\ topo >= unlock[i + 1] /\ i \in 0..(Count - 1)
             /\ LeafOf(i) \in Notes /\ i \in Nat
  <2>1. Ran(i) /\ prep[i].checked /\ Count - prep[i].at < ROOT_HISTORY
    BY <1>1 DEF BotInv, RunsInv, Fresh
  <2> DEFINE n == prep[i].at + 1
  <2>2. /\ prep[i].at \in 0..Count /\ Fold(LeafOf(i), i, prep[i].siblings) = roots[n]
        /\ i \in 0..(Count - 1) /\ topo >= unlock[i + 1]
    BY <2>1 DEF Ran
  <2>3. n \in {m \in 1..Len(roots) : m > Len(roots) - ROOT_HISTORY}
    BY <1>0, <2>1, <2>2, MixerConstants
  <2>4. roots[n] \in valid
    <3> HIDE DEF n
    <3>. QED
      BY <1>0, <2>3
  <2>. QED
    BY <1>0, <1>1, <2>2, <2>4 DEF Live, Unpaid, TreeInv
<1>2. ASSUME NEW i \in Live \cap Holders, Fresh(i)
      PROVE  Releasable(ledger, PreparedClaim(i))
  BY <1>0, <1>1, <1>2, ReleasePasses DEF PaysOut, PreparedClaim
<1>3. ASSUME NEW i \in Live \cap Holders, Fresh(i),
             NEW j \in (Live \cap Holders) \ {i}, Fresh(j)
      PROVE  Releasable(Released(ledger, PreparedClaim(i)), PreparedClaim(j))
  <2> DEFINE c == PreparedClaim(i)
             led == Released(ledger, c)
  <2>1. c.note = LeafOf(i) /\ c.i = i
    BY DEF PreparedClaim, Claim
  <2>2. c.note \in Notes /\ c.i \in Nat /\ Releasable(ledger, c)
    BY <1>1, <1>2, <1>3, <2>1
  <2> HIDE DEF c
  <2>3. /\ led \in LedgerType /\ Right(led) /\ led.spent = ledger.spent \cup {i}
        /\ led.pending = ledger.pending - c.note.amount
        /\ led.bal \in (ledger.bal - c.note.amount)..ledger.bal
        /\ c.note.amount \in Nat \ {0}
    BY <1>0, <2>1, <2>2, ReleaseStep, ReleaseRight
  <2>4. config.emode \/ Solvent(led)
    <3>1. ledger.bal \in Nat /\ ledger.pending \in Nat
      BY <1>0, MixerConstants DEF LedgerType
    <3>. QED
      BY <1>0, <2>3, <3>1 DEF PaysOut, Solvent
  <2>5. j \in Unpaid(led) /\ topo >= unlock[j + 1]
        /\ Fold(LeafOf(j), j, prep[j].siblings) \in valid
    BY <1>1, <1>3, <2>3 DEF Unpaid
  <2> HIDE DEF led
  <2>6. Releasable(led, PreparedClaim(j))
    BY <1>0, <2>3, <2>4, <2>5, ReleasePasses DEF PreparedClaim
  <2>. QED
    BY <2>6 DEF led, c
<1>4. ExitsOpen
  BY <1>0, InvOpensExits
<1>. QED
  BY <1>2, <1>3, <1>4 DEF ReleasesLand

\* release_params and release_many_params: a proof that passed the client's check
\* lands, alone and in a pair, until ROOT_HISTORY deposits have been made since,
\* whatever blocks fell between its reads and before its inclusion, in a pool
\* that no anomaly of the chain has hit.
THEOREM PreparedLand ==
  BotSpec /\ [][~\E n \in LossArgs : Anomaly(n)]_vars => []ReleasesLand
<1>1. Init /\ (\E H \in SUBSET Leaves : BotInit(H)) => BotInv
  BY InitRuns
<1>2. BotInv /\ [BotNext]_<<vars, prep>> /\ [~\E n \in LossArgs : Anomaly(n)]_vars => BotInv'
  BY StepRuns
<1>3. BotSpec => Init /\ (\E H \in SUBSET Leaves : BotInit(H)) /\ [][BotNext]_<<vars, prep>>
  BY DEF BotSpec, BotNext
<1>. QED
  BY <1>1, <1>2, <1>3, BotLands, PTL

-----------------------------------------------------------------------------
(* The deposit command.  Once it has seen its nonce advance, and as long as *)
(* nobody else deposits, the last leaf is its own.                          *)

OwnLast == Count > 0 /\ LeafOf(Count - 1) = MyNote

CmdTypes ==
  /\ cmd \in [step : {"start", "invoke", "wait", "read", "save", "done", "failed"}, tries : Nat,
              before : Nat, leaf : Int \cup {None}, file : Int \cup {None}]
  /\ wallet \in [nonce : Nat, mempool : Nat] /\ others \in Nat
  /\ cmd.step # "done" => cmd.file = None

CmdAlone ==
  others = 0 =>
    /\ cmd.step \in {"invoke", "wait"} /\ Advanced => OwnLast
    /\ cmd.step = "read" => OwnLast
    /\ cmd.step = "save" => cmd.leaf \in Mine
    /\ cmd.step = "done" => cmd.file \in Mine

DepositInv == PoolInv /\ CmdTypes /\ CmdAlone

LEMMA DepositPool ==
  ASSUME TypeOK, [DepositNext]_cliVars
  PROVE  [PoolStep]_vars
<1>0. MyNote \in Notes /\ MyDelay \in Nat /\ DelayArgs \subseteq Nat
  BY DepositConstants, MixerConstants
<1>1. CASE Command \/ UNCHANGED cliVars
  BY <1>1
     DEF Command, ReadNonce, Invoked, InvokeRetried, Confirmed, TimedOut, ReadLeaf, SaveNote,
         Killed, Step, cliVars
<1>2. CASE Include
  BY <1>0, <1>2 DEF Include, PoolStep
<1>3. CASE Quiet
  BY <1>3, StepKinds DEF Quiet
<1>4. CASE \E note \in Notes, delay \in DelayArgs : OtherDeposit(note, delay)
  BY <1>0, <1>4 DEF OtherDeposit, PoolStep
<1>. QED
  BY <1>1, <1>2, <1>3, <1>4 DEF DepositNext

\* A leaf that holds the note goes on holding it.
LEMMA MineKept ==
  ASSUME PoolInv, [PoolStep]_vars
  PROVE  /\ Mine \subseteq Mine'
         /\ UNCHANGED unlock /\ OwnLast => OwnLast'
<1>1. /\ Count \in Nat /\ Count' \in Nat /\ Count' >= Count
      /\ \A i \in 0..(Count - 1) : LeafOf(i)' = LeafOf(i)
  BY StepKeeps, PoolParts
<1>2. Mine \subseteq Mine'
  BY <1>1 DEF Mine
<1>3. ASSUME UNCHANGED unlock, OwnLast
      PROVE  OwnLast'
  <2>1. Count' = Count /\ Count - 1 \in 0..(Count - 1)
    BY <1>1, <1>3 DEF Count, OwnLast
  <2> DEFINE k == Count - 1
  <2>2. LeafOf(k)' = LeafOf(k)
    BY <1>1, <2>1
  <2>. QED
    BY <1>3, <2>1, <2>2 DEF OwnLast, LeafOf
<1>. QED
  BY <1>2, <1>3

LEMMA StepCmd ==
  ASSUME DepositInv, [DepositNext]_cliVars
  PROVE  CmdTypes' /\ CmdAlone'
<1>0. /\ PoolInv /\ TypeOK /\ TreeInv /\ Count \in Nat /\ CmdTypes /\ CmdAlone
      /\ [PoolStep]_vars /\ Mine \subseteq Mine' /\ (UNCHANGED unlock /\ OwnLast => OwnLast')
      /\ MyNote \in Notes /\ MyDelay \in Nat
  BY PoolParts, DepositPool, MineKept, DepositConstants DEF DepositInv
<1>1. CASE Command
  <2>1. unlock' = unlock /\ nodes' = nodes /\ others' = others /\ Mine' = Mine
    BY <1>1 DEF Command, ReadNonce, Invoked, InvokeRetried, Confirmed, TimedOut, ReadLeaf,
                SaveNote, Killed, Step, vars, Mine, Count, LeafOf
  <2>2. CASE ReadNonce
    <3>1. /\ cmd' = [cmd EXCEPT !.step = "invoke", !.before = wallet.nonce] /\ wallet' = wallet
          /\ cmd.step = "start"
      BY <2>2 DEF ReadNonce, Step
    <3>2. cmd'.step = "invoke" /\ cmd'.before = wallet.nonce /\ CmdTypes'
      BY <1>0, <2>1, <3>1 DEF CmdTypes
    <3>3. wallet.nonce \in Nat
      BY <1>0 DEF CmdTypes
    <3>. QED
      BY <3>1, <3>2, <3>3 DEF CmdAlone, Advanced
  <2>3. CASE Invoked \/ \E sent \in BOOLEAN : InvokeRetried(sent)
    <3>0. cmd.step = "invoke" /\ wallet' \in {wallet, [wallet EXCEPT !.mempool = @ + 1]}
      BY <2>3 DEF Invoked, InvokeRetried, Build
    <3>1. wallet'.nonce = wallet.nonce /\ wallet' \in [nonce : Nat, mempool : Nat]
      BY <1>0, <3>0 DEF CmdTypes
    <3>2. /\ cmd'.before = cmd.before /\ cmd'.step \in {"invoke", "wait", "failed"}
          /\ CmdTypes'
      <4>1. CASE Invoked
        <5>1. cmd' = [cmd EXCEPT !.step = "wait"]
          BY <4>1 DEF Invoked, Step
        <5>. QED
          BY <1>0, <2>1, <3>0, <3>1, <5>1 DEF CmdTypes
      <4>2. CASE \E sent \in BOOLEAN : InvokeRetried(sent)
        <5>0. cmd.tries \in Nat /\ cmd.tries + 1 \in Nat
          BY <1>0 DEF CmdTypes
        <5>1. PICK n \in Nat, next \in {"invoke", "failed"} :
                cmd' = [cmd EXCEPT !.tries = n, !.step = next]
          BY <4>2, <5>0, Zenon DEF InvokeRetried, Step
        <5>. QED
          BY <1>0, <2>1, <3>0, <3>1, <5>1 DEF CmdTypes
      <4>. QED
        BY <2>3, <4>1, <4>2
    <3>3. Advanced' <=> Advanced
      BY <3>1, <3>2 DEF Advanced
    <3>4. OwnLast' <=> OwnLast
      BY <2>1 DEF OwnLast, Count, LeafOf
    <3>. QED
      BY <1>0, <2>1, <3>0, <3>2, <3>3, <3>4 DEF CmdAlone
  <2>4. CASE Confirmed
    BY <1>0, <2>1, <2>4 DEF Confirmed, Step, CmdTypes, CmdAlone
  <2>5. CASE TimedOut \/ Killed
    BY <1>0, <2>1, <2>5 DEF TimedOut, Killed, Step, CmdTypes, CmdAlone
  <2>6. CASE ReadLeaf
    <3>1. PICK k \in Int : k = Count - 1
      BY <1>0
    <3>2. cmd' = [cmd EXCEPT !.step = "save", !.leaf = k] /\ wallet' = wallet /\ cmd.step = "read"
      BY <2>6, <3>1 DEF ReadLeaf, LastLeaf, Step
    <3>3. cmd'.step = "save" /\ cmd'.leaf = k /\ CmdTypes'
      BY <1>0, <2>1, <3>2 DEF CmdTypes
    <3>4. others = 0 => k \in Mine
      BY <1>0, <3>1, <3>2 DEF CmdAlone, OwnLast, Mine
    <3>. QED
      BY <2>1, <3>3, <3>4 DEF CmdAlone
  <2>7. CASE SaveNote
    BY <1>0, <2>1, <2>7 DEF SaveNote, Step, CmdTypes, CmdAlone
  <2>. QED
    BY <1>1, <2>2, <2>3, <2>4, <2>5, <2>6, <2>7 DEF Command
<1>2. CASE Include
  <2>1. CASE others' # others
    BY <1>0, <1>2, <2>1 DEF Include, CmdTypes, CmdAlone
  <2>2. CASE Deposit(MyNote, MyDelay) /\ others' = others
    <3>1. Count' = Count + 1 /\ nodes'[0][Count] = MyNote
      BY <1>0, <2>2, DepositLeaves DEF Extends
    <3>2. OwnLast'
      BY <1>0, <3>1 DEF OwnLast, LeafOf
    <3>. QED
      BY <1>0, <1>2, <2>2, <3>2 DEF Include, CmdTypes, CmdAlone
  <2>3. others' = others + 1 => others' # others
    BY <1>0 DEF CmdTypes
  <2>. QED
    BY <1>2, <2>1, <2>2, <2>3 DEF Include
<1>3. CASE Quiet \/ UNCHANGED cliVars
  <2>1. unlock' = unlock /\ cmd' = cmd /\ wallet' = wallet /\ others' = others
    BY <1>3 DEF Quiet, cliVars, vars
  <2>. QED
    BY <1>0, <2>1 DEF CmdTypes, CmdAlone, Advanced
<1>4. CASE \E note \in Notes, delay \in DelayArgs : OtherDeposit(note, delay)
  BY <1>0, <1>4 DEF OtherDeposit, CmdTypes, CmdAlone
<1>. QED
  BY <1>1, <1>2, <1>3, <1>4 DEF DepositNext

\* cmd_mixer_deposit, wait_nonce_advance: as long as nobody else deposits
\* meanwhile and no inclusion reverts, the leaf in the note file holds the note,
\* over every retry, lost answer and block in between, in a tree of any depth.
THEOREM FileTrue == DepositSpec => []LeafOwnWhenAlone
<1>1. Init /\ CliInit("start") => DepositInv
  BY InitInv DEF CliInit, DepositInv, CmdTypes, CmdAlone
<1>2. DepositInv /\ [DepositNext]_cliVars => DepositInv'
  BY DepositPool, StepInv, StepCmd, PoolParts DEF DepositInv
<1>3. DepositInv => LeafOwnWhenAlone
  BY DEF DepositInv, CmdTypes, CmdAlone, LeafOwnWhenAlone
<1>. QED
  BY <1>1, <1>2, <1>3, PTL DEF DepositSpec
=============================================================================

---------------------------- MODULE TotalsProofs ----------------------------
(***************************************************************************)
(* What the invariants need to know of products and quotients, and of      *)
(* Total for every finite set of holders: changing one holder's share      *)
(* moves the total by the difference, no holder has more than the total,   *)
(* and the total respects pointwise order, sums and multiples.             *)
(***************************************************************************)
EXTENDS Totals, FiniteSetTheorems, FunctionTheorems, TLAPS

\* Integer division by a positive number, as inequalities.
LEMMA DivBounds ==
  ASSUME NEW n \in Nat, NEW d \in Nat \ {0}
  PROVE  /\ n \div d \in Nat
         /\ (n \div d) * d <= n
OBVIOUS

LEMMA MulMono ==
  ASSUME NEW a \in Nat, NEW b \in Nat, NEW c \in Nat, b <= c
  PROVE  a * b <= a * c
OBVIOUS

LEMMA MulCancel ==
  ASSUME NEW a \in Nat, NEW b \in Nat, NEW d \in Nat \ {0}, a * d <= b * d
  PROVE  a <= b
<1> SUFFICES ASSUME a >= b + 1
             PROVE  FALSE
  OBVIOUS
<1>1. (b + 1) * d <= a * d
  BY MulMono
<1>. QED
  BY <1>1

\* A quotient of a product by one that is at least as large.
LEMMA ShareBound ==
  ASSUME NEW n \in Nat, NEW m \in Nat, NEW d \in Nat \ {0}, m <= d
  PROVE  (n * m) \div d \in Nat /\ (n * m) \div d <= n
<1>1. n * m \in Nat /\ n * m <= n * d
  BY MulMono
<1>2. (n * m) \div d \in Nat /\ ((n * m) \div d) * d <= n * m
  BY <1>1, DivBounds
<1>3. ((n * m) \div d) * d <= n * d
  BY <1>1, <1>2
<1>. QED
  BY <1>2, <1>3, MulCancel
-----------------------------------------------------------------------------
\* One holder's units are as many as its share says.
LEMMA OwnUnits ==
  ASSUME NEW d, NEW n \in Nat
  PROVE  IsFiniteSet({d} \X (1..n)) /\ Cardinality({d} \X (1..n)) = n
<1> DEFINE S == {d}
           T == 1..n
<1>1. IsFiniteSet(S) /\ Cardinality(S) = 1
  BY FS_Singleton
<1>2. IsFiniteSet(T) /\ Cardinality(T) = n
  BY FS_Interval
<1>3. IsFiniteSet(S \X T) /\ Cardinality(S \X T) = 1 * n
  <2> HIDE DEF S, T
  <2>. QED
    BY <1>1, <1>2, FS_Product
<1>. QED
  BY <1>3

\* The units of finitely many holders are finitely many.
LEMMA UnitsFinite ==
  ASSUME NEW D, IsFiniteSet(D), NEW f \in [D -> Nat]
  PROVE  IsFiniteSet(Units(f))
<1> DEFINE own == { {d} \X (1..f[d]) : d \in D }
           g == [d \in D |-> {d} \X (1..f[d])]
<1>1. g \in Surjection(D, own)
  BY DEF Surjection
<1>2. IsFiniteSet(own)
  BY <1>1, FS_Surjection
<1>3. ASSUME NEW T \in own
      PROVE  IsFiniteSet(T)
  <2>1. PICK d \in D : T = {d} \X (1..f[d])
    OBVIOUS
  <2>. QED
    BY <2>1, OwnUnits
<1>4. IsFiniteSet(UNION own)
  <2> HIDE DEF own
  <2>. QED
    BY <1>2, <1>3, FS_UNION
<1>. QED
  BY <1>4 DEF Units

LEMMA TotalType ==
  ASSUME NEW D, IsFiniteSet(D), NEW f \in [D -> Nat]
  PROVE  Total(f) \in Nat
BY UnitsFinite, FS_CardinalityType DEF Total

\* The units of the holders other than d.
OthersUnits(f, d) == { u \in Units(f) : u[1] # d }

\* Splitting off one holder: the units of the others, and its own.
LEMMA TotalSplit ==
  ASSUME NEW D, IsFiniteSet(D), NEW f \in [D -> Nat], NEW d \in D
  PROVE  /\ Cardinality(OthersUnits(f, d)) \in Nat
         /\ Total(f) = Cardinality(OthersUnits(f, d)) + f[d]
<1> DEFINE rest == OthersUnits(f, d)
           mine == {d} \X (1..f[d])
<1>1. Units(f) = rest \cup mine
  BY DEF Units, OthersUnits
<1>2. rest \cap mine = {}
  BY DEF OthersUnits
<1>3. IsFiniteSet(rest)
  BY UnitsFinite, FS_Subset DEF OthersUnits
<1>4. IsFiniteSet(mine) /\ Cardinality(mine) = f[d]
  BY OwnUnits
<1>5. Cardinality(rest \cap mine) = 0
  BY <1>2, FS_EmptySet
<1>6. Cardinality(rest) \in Nat
  BY <1>3, FS_CardinalityType
<1>7. Cardinality(rest \cup mine)
        = Cardinality(rest) + Cardinality(mine) - Cardinality(rest \cap mine)
  <2> HIDE DEF rest, mine
  <2>. QED
    BY <1>3, <1>4, FS_Union
<1>8. f[d] \in Nat
  OBVIOUS
<1> HIDE DEF rest, mine
<1>9. Total(f) = Cardinality(rest) + f[d]
  BY <1>1, <1>4, <1>5, <1>6, <1>7, <1>8 DEF Total
<1>. QED
  BY <1>6, <1>9 DEF rest

\* Giving holder d the share v moves the total by v - f[d].
THEOREM TotalUpdate ==
  ASSUME NEW D, IsFiniteSet(D), NEW f \in [D -> Nat], NEW g \in [D -> Nat],
         NEW d \in D, \A e \in D \ {d} : g[e] = f[e]
  PROVE  Total(g) = Total(f) - f[d] + g[d]
<1>1. OthersUnits(f, d) = OthersUnits(g, d)
  BY DEF Units, OthersUnits
<1>2. /\ Cardinality(OthersUnits(f, d)) \in Nat
      /\ Total(f) = Cardinality(OthersUnits(f, d)) + f[d]
  BY TotalSplit
<1>3. Total(g) = Cardinality(OthersUnits(g, d)) + g[d]
  BY TotalSplit
<1>4. f[d] \in Nat /\ g[d] \in Nat
  OBVIOUS
<1>. QED
  BY <1>1, <1>2, <1>3, <1>4

\* No holder has more than the total.
THEOREM ShareWithinTotal ==
  ASSUME NEW D, IsFiniteSet(D), NEW f \in [D -> Nat], NEW d \in D
  PROVE  f[d] <= Total(f)
<1>1. /\ Total(f) = Cardinality(OthersUnits(f, d)) + f[d]
      /\ Cardinality(OthersUnits(f, d)) \in Nat
  BY TotalSplit
<1>2. f[d] \in Nat
  OBVIOUS
<1>. QED
  BY <1>1, <1>2

\* The total respects pointwise order.
THEOREM TotalMonotone ==
  ASSUME NEW D, IsFiniteSet(D), NEW f \in [D -> Nat], NEW g \in [D -> Nat],
         \A d \in D : f[d] <= g[d]
  PROVE  Total(f) <= Total(g)
<1>1. Units(f) \subseteq Units(g)
  BY DEF Units
<1>. QED
  BY <1>1, UnitsFinite, FS_Subset DEF Total

\* The total of nothing.
THEOREM TotalZero ==
  ASSUME NEW D, NEW f \in [D -> Nat], \A d \in D : f[d] = 0
  PROVE  Total(f) = 0
<1>1. Units(f) = {}
  BY DEF Units
<1>. QED
  BY <1>1, FS_EmptySet DEF Total

\* Shares that are sums have the sum of the totals.
THEOREM TotalSum ==
  ASSUME NEW D, IsFiniteSet(D), NEW f \in [D -> Nat], NEW g \in [D -> Nat]
  PROVE  Total([d \in D |-> f[d] + g[d]]) = Total(f) + Total(g)
<1> DEFINE h == [d \in D |-> f[d] + g[d]]
           U == Units(f)
           V == Units(g)
           W == { u \in D \X Nat : u[2] \in (f[u[1]] + 1)..(f[u[1]] + g[u[1]]) }
           m == [v \in V |-> <<v[1], f[v[1]] + v[2]>>]
<1>1. h \in [D -> Nat]
  OBVIOUS
<1>2. /\ U = { u \in D \X Nat : u[2] \in 1..f[u[1]] }
      /\ V = { u \in D \X Nat : u[2] \in 1..g[u[1]] }
      /\ Units(h) = { u \in D \X Nat : u[2] \in 1..(f[u[1]] + g[u[1]]) }
  BY <1>1 DEF Units
<1>3. Units(h) = U \cup W /\ U \cap W = {}
  <2>1. \A u \in D \X Nat : f[u[1]] \in Nat /\ g[u[1]] \in Nat /\ u[2] \in Nat
    OBVIOUS
  <2> HIDE DEF U, h
  <2>. QED
    BY <1>2, <2>1
<1>4. m \in Bijection(V, W)
  <2>1. ASSUME NEW v \in V  PROVE m[v] \in W
    <3>1. v[1] \in D /\ v[2] \in 1..g[v[1]] /\ f[v[1]] \in Nat /\ g[v[1]] \in Nat
      BY <1>2
    <3>. QED
      BY <3>1
  <2>2. ASSUME NEW v \in V, NEW w \in V, m[v] = m[w]  PROVE v = w
    <3>1. /\ v \in D \X Nat /\ w \in D \X Nat
          /\ v[1] \in D /\ v[2] \in Nat /\ w[1] \in D /\ w[2] \in Nat
      BY <1>2
    <3>2. v[1] = w[1] /\ f[v[1]] + v[2] = f[w[1]] + w[2]
      BY <2>2
    <3>3. v[2] = w[2]
      BY <3>1, <3>2
    <3>. QED
      BY <3>1, <3>2, <3>3
  <2>3. ASSUME NEW w \in W  PROVE \E v \in V : m[v] = w
    <3>1. PICK d \in D, n \in Nat : w = <<d, n>> /\ n \in (f[d] + 1)..(f[d] + g[d])
      OBVIOUS
    <3>2. n - f[d] \in 1..g[d] /\ f[d] + (n - f[d]) = n /\ n - f[d] \in Nat
      BY <3>1
    <3>3. <<d, n - f[d]>> \in V
      BY <1>2, <3>2
    <3>. QED
      BY <3>1, <3>2, <3>3
  <2>4. m \in [V -> W]
    BY <2>1
  <2> HIDE DEF m, V, W
  <2>. QED
    BY <2>2, <2>3, <2>4 DEF Bijection, Injection, Surjection, IsInjective
<1>5. IsFiniteSet(U) /\ IsFiniteSet(V)
  BY UnitsFinite
<1> HIDE DEF U, V, W, m
<1>6. IsFiniteSet(W) /\ Cardinality(W) = Cardinality(V)
  BY <1>4, <1>5, FS_Bijection DEF ExistsBijection
<1>7. Cardinality(U \cup W)
        = Cardinality(U) + Cardinality(W) - Cardinality(U \cap W)
  BY <1>5, <1>6, FS_Union
<1>8. Cardinality(U \cap W) = 0 /\ Cardinality(U) \in Nat /\ Cardinality(W) \in Nat
  BY <1>3, <1>5, <1>6, FS_EmptySet, FS_CardinalityType
<1> HIDE DEF h
<1>9. Total(f) = Cardinality(U) /\ Total(g) = Cardinality(V) /\ Total(h) = Cardinality(U \cup W)
  BY <1>3 DEF Total, U, V
<1>10. Total(h) = Total(f) + Total(g)
  BY <1>6, <1>7, <1>8, <1>9
<1>. QED
  BY <1>10 DEF h

\* Euclidean division by a positive number.
LEMMA Division ==
  ASSUME NEW n \in Nat, NEW d \in Nat \ {0}
  PROVE  /\ n \div d \in Nat /\ n % d \in 0..(d - 1)
         /\ n = d * (n \div d) + (n % d)
OBVIOUS

\* A place of k rows of m has one row and one column.
LEMMA RowsApart ==
  ASSUME NEW m \in Nat, NEW p \in Nat, NEW q \in Nat,
         NEW i \in 1..m, NEW j \in 1..m, p * m + i = q * m + j
  PROVE  p = q /\ i = j
<1>1. ASSUME NEW x \in Nat, NEW y \in Nat, x < y
      PROVE  x * m + m <= y * m
  <2>1. m * (x + 1) <= m * y
    BY <1>1, MulMono
  <2>2. m * (x + 1) = x * m + m /\ m * y = y * m
    OBVIOUS
  <2>. QED
    BY <2>1, <2>2
<1>2. ~(p < q)
  <2> SUFFICES ASSUME p < q PROVE FALSE
    OBVIOUS
  <2>1. p * m + m <= q * m /\ p * m \in Nat /\ q * m \in Nat
    BY <1>1
  <2>. QED
    BY <2>1
<1>3. ~(q < p)
  <2> SUFFICES ASSUME q < p PROVE FALSE
    OBVIOUS
  <2>1. q * m + m <= p * m /\ p * m \in Nat /\ q * m \in Nat
    BY <1>1
  <2>. QED
    BY <2>1
<1>4. p = q
  BY <1>2, <1>3
<1>5. p * m \in Nat
  OBVIOUS
<1>. QED
  BY <1>4, <1>5

LEMMA InRow ==
  ASSUME NEW m \in Nat, NEW k \in Nat, NEW j \in 0..(k - 1), NEW i \in 1..m
  PROVE  j * m + i \in 1..(k * m)
<1>1. (j + 1) * m <= k * m /\ (j + 1) * m = j * m + m
  OBVIOUS
<1>2. j * m \in Nat /\ k * m \in Nat
  OBVIOUS
<1>. QED
  BY <1>1, <1>2

\* Every place of k rows of m has a row and a column.
LEMMA RowOf ==
  ASSUME NEW m \in Nat, NEW k \in Nat, NEW n \in 1..(k * m)
  PROVE  \E j \in 0..(k - 1), i \in 1..m : j * m + i = n
<1>1. m \in Nat \ {0} /\ n - 1 \in Nat
  OBVIOUS
<1> DEFINE j == (n - 1) \div m
           r == (n - 1) % m
<1>2. j \in Nat /\ r \in 0..(m - 1) /\ n - 1 = m * j + r
  BY <1>1, Division
<1> HIDE DEF j, r
<1>3. j * m + (r + 1) = n /\ r + 1 \in 1..m
  BY <1>2
<1>4. ASSUME k <= j  PROVE FALSE
  <2>1. k * m <= j * m
    BY <1>2, <1>4
  <2>2. k * m \in Nat /\ j * m \in Nat /\ n <= k * m
    BY <1>2
  <2>. QED
    BY <1>2, <1>3, <2>1, <2>2
<1>5. j \in 0..(k - 1)
  BY <1>2, <1>4
<1>. QED
  BY <1>3, <1>5

\* Every holder's share k times over: the units are k copies of the units.
THEOREM TotalScale ==
  ASSUME NEW D, IsFiniteSet(D), NEW f \in [D -> Nat], NEW k \in Nat
  PROVE  Total([d \in D |-> k * f[d]]) = k * Total(f)
<1> DEFINE g == [d \in D |-> k * f[d]]
           U == Units(f)
           V == Units(g)
           C == (0..(k - 1)) \X U
           h == [c \in C |-> <<c[2][1], c[1] * f[c[2][1]] + c[2][2]>>]
<1>1. g \in [D -> Nat]
  OBVIOUS
<1>2. U = { u \in D \X Nat : u[2] \in 1..f[u[1]] }
  BY DEF Units
<1>3. V = { u \in D \X Nat : u[2] \in 1..(k * f[u[1]]) }
  BY <1>1 DEF Units
<1>4. ASSUME NEW c \in C  PROVE h[c] \in V
  <2>1. PICK j \in 0..(k - 1), d \in D, i \in Nat : i \in 1..f[d] /\ c = <<j, <<d, i>>>>
    BY <1>2
  <2>2. j * f[d] + i \in 1..(k * f[d])
    BY <2>1, InRow
  <2>. QED
    BY <1>3, <2>1, <2>2
<1>5. ASSUME NEW c \in C, NEW e \in C, h[c] = h[e]  PROVE c = e
  <2>1. PICK j \in 0..(k - 1), d \in D, i \in Nat : i \in 1..f[d] /\ c = <<j, <<d, i>>>>
    BY <1>2
  <2>2. PICK l \in 0..(k - 1), b \in D, n \in Nat : n \in 1..f[b] /\ e = <<l, <<b, n>>>>
    BY <1>2
  <2>3. d = b /\ j * f[d] + i = l * f[b] + n
    BY <1>5, <2>1, <2>2
  <2>4. f[d] \in Nat /\ j \in Nat /\ l \in Nat /\ n \in 1..f[d]
    BY <2>1, <2>2, <2>3
  <2>5. j = l /\ i = n
    BY <2>1, <2>3, <2>4, RowsApart
  <2>. QED
    BY <2>1, <2>2, <2>3, <2>5
<1>6. ASSUME NEW v \in V  PROVE \E c \in C : h[c] = v
  <2>1. PICK d \in D, n \in Nat : n \in 1..(k * f[d]) /\ v = <<d, n>>
    BY <1>3
  <2>2. PICK j \in 0..(k - 1), i \in 1..f[d] : j * f[d] + i = n
    BY <2>1, RowOf, ZenonT(60)
  <2>3. <<d, i>> \in U
    BY <1>2, <2>2
  <2>4. h[<<j, <<d, i>>>>] = v
    BY <2>1, <2>2, <2>3
  <2>. QED
    BY <2>2, <2>3, <2>4
<1>7. h \in Bijection(C, V)
  <2>1. h \in [C -> V]
    BY <1>4
  <2> HIDE DEF h, C, V
  <2>. QED
    BY <1>4, <1>5, <1>6, <2>1 DEF Bijection, Injection, Surjection, IsInjective
<1>8. IsFiniteSet(U) /\ IsFiniteSet(0..(k - 1))
  BY UnitsFinite, FS_Interval
<1>9. Cardinality(0..(k - 1)) = k
  BY FS_Interval
<1>10. IsFiniteSet(C) /\ Cardinality(C) = k * Cardinality(U)
  <2> DEFINE I == 0..(k - 1)
  <2> HIDE DEF I, U
  <2>1. IsFiniteSet(I \X U) /\ Cardinality(I \X U) = Cardinality(I) * Cardinality(U)
    BY <1>8, FS_Product DEF I
  <2>. QED
    BY <1>9, <2>1 DEF I
<1>11. Cardinality(V) = Cardinality(C)
  <2> HIDE DEF C, V
  <2>. QED
    BY <1>7, <1>10, FS_Bijection DEF ExistsBijection
<1>. QED
  BY <1>10, <1>11 DEF Total
=============================================================================

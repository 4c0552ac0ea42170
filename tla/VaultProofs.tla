----------------------------- MODULE VaultProofs -----------------------------
(***************************************************************************)
(* Theorems about VaultLaunch: its types, the exact accumulators and the   *)
(* cover of every asset, the exits of a curve, the count of the votes, the *)
(* lifecycle of a project and the vesting of its team, for any number of   *)
(* projects, wallets and rounds, any supply and any parameters within the  *)
(* hard caps.                                                              *)
(*                                                                         *)
(* Every entry changes one project.  Sound is what the entries keep true   *)
(* of one; Accounts says that the accumulators are the sums over all of    *)
(* them, and moves by what the one project's slots move.                   *)
(***************************************************************************)
EXTENDS VaultLaunch, TotalsProofs

\* What a single project keeps: where it stands in its lifecycle, what its
\* seed, reserve and refund are then, that its curve has two sides until the
\* migration, and that t units of its asset cover the curve and the escrow.
Staged(p) ==
  /\ IF p.ah THEN p.status \in Selling
             ELSE p.status \in {VALIDATION, REJECTED} /\ ~p.gr /\ p.paid = 0
  /\ p.status = VALIDATION => p.rv = p.lq /\ ~p.rc
  /\ p.status = REJECTED => p.rv = 0
  /\ p.rc => p.status = REJECTED
  /\ p.gr => p.status # BONDING
  /\ p.mi => p.gr /\ p.rv = 0 /\ p.cs = 0
  /\ p.ah /\ ~p.mi => p.rv > 0 /\ p.cs > 0
  /\ p.lq > 0 /\ p.supply \in 1..MAX_TOTAL_SUPPLY
Escrowed(p, t) ==
  /\ p.paid <= Team(p)
  /\ p.cs + (Team(p) - p.paid) <= p.supply
  /\ p.ah => p.cs + (Team(p) - p.paid) <= t /\ t <= p.supply
  /\ ~p.ah => t = 0 /\ p.cs > 0
\* A declared plan binds from the graduation on, and only then.
Vested(p, now) ==
  /\ p.vs <= now
  /\ p.plan > 0 /\ p.gr => p.vs > 0 /\ p.vd = p.plan
  /\ p.plan > 0 /\ ~p.gr => p.vs = 0
Sound(p, t, now) == Staged(p) /\ Escrowed(p, t) /\ Vested(p, now)

\* Numbers are given out in order, and nothing is kept of one that is not.
Numbered ==
  \A i \in Ids : /\ Proposed(i) <=> i < count
                 /\ ~Proposed(i) => /\ tok[i] = 0
                                    /\ \A r \in Rounds, w \in Wallets : vote[i][r][w] = None

VaultInv ==
  /\ TypeOK
  /\ Numbered
  /\ OneVotePerRound
  /\ XelSolvency
  /\ \A i \in Ids : Proposed(i) => Sound(proj[i], tok[i], topo)
-----------------------------------------------------------------------------
(* Shares, fees and a project's slots.                                     *)

\* A fee is part of the amount, and all of it only if the rate says so.
LEMMA FeeBounds ==
  ASSUME NEW n \in Nat, NEW bps \in 0..BPS_DENOM
  PROVE  /\ FeeTake(n, bps) \in 0..n
         /\ bps < BPS_DENOM /\ n > 0 => FeeTake(n, bps) < n
<1>1. BPS_DENOM \in Nat \ {0}
  BY VaultConstants
<1>2. FeeTake(n, bps) \in Nat /\ FeeTake(n, bps) <= n
  BY <1>1, ShareBound DEF FeeTake
<1>3. ASSUME bps < BPS_DENOM, n > 0, FeeTake(n, bps) = n
      PROVE  FALSE
  <2>1. n * bps \in Nat /\ (n * bps) \div BPS_DENOM = n
    BY <1>3 DEF FeeTake
  <2>2. n * BPS_DENOM <= n * bps
    BY <1>1, <2>1, DivBounds
  <2>3. n * (bps + 1) <= n * BPS_DENOM
    BY <1>1, <1>3, MulMono
  <2>4. n * (bps + 1) = n * bps + n
    OBVIOUS
  <2>. QED
    BY <1>1, <1>3, <2>1, <2>2, <2>3, <2>4
<1>. QED
  BY <1>2, <1>3

\* What a trade takes out of a side that is not empty leaves something there.
LEMMA OutBounds ==
  ASSUME NEW side \in Nat \ {0}, NEW other \in Nat \ {0}, NEW n \in Nat
  PROVE  LET out == (side * n) \div (other + n)
         IN  out \in Nat /\ out < side /\ (n = 0 => out = 0)
<1> DEFINE d == other + n
           out == (side * n) \div d
<1>1. d \in Nat \ {0} /\ side * n \in Nat
  OBVIOUS
<1>2. out \in Nat /\ out * d <= side * n
  BY <1>1, DivBounds
<1>3. ASSUME side <= out  PROVE FALSE
  <2>1. side * d <= out * d
    <3>1. d * side <= d * out
      BY <1>1, <1>2, <1>3, MulMono
    <3>. QED
      BY <1>1, <1>2, <3>1
  <2>2. side * d = side * other + side * n
    OBVIOUS
  <2>3. side * other >= side * 1
    BY MulMono
  <2>4. side * other \in Nat
    OBVIOUS
  <2> HIDE DEF d, out
  <2>. QED
    BY <1>1, <1>2, <2>1, <2>2, <2>3, <2>4
<1>4. n = 0 => out = 0
  OBVIOUS
<1>. QED
  BY <1>2, <1>3, <1>4

LEMMA TeamBounds ==
  ASSUME NEW supply \in Nat, NEW bps \in 0..MAX_TEAM_BPS
  PROVE  /\ TeamAlloc(supply, bps) \in 0..supply
         /\ supply > 0 => TeamAlloc(supply, bps) < supply
<1>1. bps \in 0..BPS_DENOM /\ bps < BPS_DENOM
  BY VaultConstants
<1>. QED
  BY <1>1, FeeBounds DEF TeamAlloc

\* The height.
LEMMA HeightTypes ==
  ASSUME TypeOK
  PROVE  MAX_TOPO \in Nat /\ topo \in Nat /\ topo >= 1 /\ topo <= MAX_TOPO
<1>1. MAX_TOPO \in Nat
  BY VaultConstants
<1>2. topo \in 1..MAX_TOPO
  BY DEF TypeOK
<1>. QED
  BY <1>1, <1>2

\* The parameters keep within their caps.
LEMMA ParamBounds ==
  ASSUME TypeOK
  PROVE  /\ \A f \in Names : params[f] \in Nat /\ params[f] >= Low[f] /\ params[f] <= High[f]
         /\ params.migFee \in 0..BPS_DENOM /\ params.migFee < BPS_DENOM
         /\ params.tradeFee \in 0..BPS_DENOM /\ params.gradFee \in 0..BPS_DENOM
<1>1. \A f \in Names : params[f] \in Nat /\ params[f] >= Low[f] /\ params[f] <= High[f]
  <2>1. \A f \in Names : Low[f] \in Nat /\ High[f] \in Nat
    BY VaultConstants
  <2>2. \A f \in Names : params[f] \in Low[f]..High[f]
    BY DEF TypeOK
  <2>. QED
    BY <2>1, <2>2
<1>2. {"tradeFee", "gradFee", "migFee"} \subseteq Names
  BY DEF Names
<1>3. /\ High.tradeFee <= BPS_DENOM /\ High.gradFee <= BPS_DENOM
      /\ High.migFee < BPS_DENOM /\ BPS_DENOM \in Nat
      /\ High.tradeFee \in Nat /\ High.gradFee \in Nat /\ High.migFee \in Nat
  BY <1>2, VaultConstants
<1>. QED
  BY <1>1, <1>2, <1>3

LEMMA TradingFeeBounds ==
  ASSUME TypeOK, NEW p
  PROVE  TradingFee(p) \in 0..BPS_DENOM
BY ParamBounds DEF TradingFee, Least

LEMMA ProjectTypes ==
  ASSUME NEW p \in Projects
  PROVE  /\ p.supply \in Nat /\ p.bps \in 0..MAX_TEAM_BPS /\ p.plan \in Nat
         /\ p.lq \in Nat /\ p.ab \in Nat /\ p.rv \in Nat /\ p.cs \in Nat
         /\ p.ve \in Nat /\ p.rd \in Rounds /\ p.sp \in Nat /\ p.rp \in Nat
         /\ p.bt \in Nat /\ p.paid \in Nat /\ p.vs \in Nat /\ p.vd \in Nat
         /\ p.mx \in Nat /\ p.mt \in Nat /\ p.bv \in Nat /\ p.sv \in Nat
         /\ p.vo \in Nat /\ p.tc \in Nat /\ p.mc \in Amount /\ p.mh \in Amount
         /\ p.mg \in Amount
         /\ p.gr \in BOOLEAN /\ p.rc \in BOOLEAN /\ p.ah \in BOOLEAN /\ p.mi \in BOOLEAN
         /\ p.dl \in BOOLEAN /\ p.creator \in Wallets
         /\ p.status \in Selling \cup {VALIDATION, REJECTED}
         /\ Team(p) \in 0..p.supply
<1>1. Team(p) \in 0..p.supply
  BY TeamBounds DEF Projects, Team
<1>. QED
  BY <1>1 DEF Projects

\* The stored cap fits a slot when what the curve and the escrow hold is not more
\* than the supply.
LEMMA CapType ==
  ASSUME NEW p \in Projects, NEW t, Escrowed(p, t)
  PROVE  MarketCap(p) \in Amount /\ U64_MAX \in Nat
<1>0. U64_MAX \in Nat
  BY VaultConstants
<1>1. TeamRemaining(p) = Team(p) - p.paid
  BY ProjectTypes DEF TeamRemaining, Floor0, Escrowed
<1> DEFINE out == p.supply - p.cs - TeamRemaining(p)
<1>2. out \in Nat
  BY <1>1, ProjectTypes DEF Escrowed
<1>3. p.rv * out \in Nat /\ p.cs \in Nat /\ p.rv \in Nat
  <2> HIDE DEF out
  <2>. QED
    BY <1>2, ProjectTypes
<1>4. p.cs # 0 => (p.rv * out) \div p.cs \in Nat
  <2> HIDE DEF out
  <2>. QED
    BY <1>3, DivBounds
<1>5. MarketCap(p) = IF p.cs = 0 THEN 0 ELSE Least(U64_MAX, (p.rv * out) \div p.cs)
  BY DEF MarketCap
<1>. QED
  <2> HIDE DEF out
  <2>. QED
    BY <1>0, <1>4, <1>5 DEF Amount, Least

\* Slots that neither the invariant nor the lifecycle reads.
Aside == {"info", "dsy", "sv", "vo", "mx", "mt", "mc", "mh", "mg"}
Alike(p, q) == \A f \in DOMAIN p \ Aside : q[f] = p[f]

LEMMA AlikeFields ==
  ASSUME NEW p \in Projects, NEW q \in Projects, Alike(p, q)
  PROVE  /\ q.status = p.status /\ q.ah = p.ah /\ q.gr = p.gr /\ q.mi = p.mi /\ q.rc = p.rc
         /\ q.rv = p.rv /\ q.cs = p.cs /\ q.lq = p.lq /\ q.ab = p.ab /\ q.supply = p.supply
         /\ q.bps = p.bps /\ q.paid = p.paid /\ q.vs = p.vs /\ q.vd = p.vd /\ q.plan = p.plan
         /\ q.sp = p.sp /\ q.rp = p.rp /\ q.rd = p.rd /\ q.bt = p.bt /\ q.ve = p.ve
         /\ q.bv = p.bv /\ q.tc = p.tc /\ q.dl = p.dl /\ Team(q) = Team(p)
<1>1. DOMAIN p = {"creator", "sym", "info", "supply", "bps", "plan", "status", "lq", "ab",
                  "rv", "cs", "dl", "ve", "rd", "sp", "rp", "gr", "rc", "bt", "paid", "vs",
                  "vd", "ah", "mi", "mx", "mt", "dsy", "bv", "sv", "vo", "tc", "mc", "mh",
                  "mg"}
  BY DEF Projects
<1>2. /\ q.status = p.status /\ q.ah = p.ah /\ q.gr = p.gr /\ q.mi = p.mi /\ q.rc = p.rc
      /\ q.rv = p.rv /\ q.cs = p.cs /\ q.lq = p.lq /\ q.ab = p.ab /\ q.supply = p.supply
      /\ q.bps = p.bps /\ q.paid = p.paid /\ q.vs = p.vs /\ q.vd = p.vd /\ q.plan = p.plan
  BY <1>1 DEF Alike, Aside
<1>3. /\ q.sp = p.sp /\ q.rp = p.rp /\ q.rd = p.rd /\ q.bt = p.bt /\ q.ve = p.ve
      /\ q.bv = p.bv /\ q.tc = p.tc /\ q.dl = p.dl
  BY <1>1 DEF Alike, Aside
<1>. QED
  BY <1>2, <1>3 DEF Team

LEMMA AlikeSound ==
  ASSUME NEW p \in Projects, NEW q \in Projects, Alike(p, q), NEW t, NEW now
  PROVE  Sound(p, t, now) => Sound(q, t, now)
BY AlikeFields DEF Sound, Staged, Escrowed, Vested

LEMMA ValuedAlike ==
  ASSUME NEW p \in Projects, NEW t, Escrowed(p, t)
  PROVE  Valued(p) \in Projects /\ Alike(p, Valued(p)) /\ Valued(p).mg = p.mg
<1> DEFINE c == MarketCap(p)
           h == IF c > p.mh THEN c ELSE p.mh
<1>1. c \in Amount /\ h \in Amount
  BY CapType, ProjectTypes
<1>2. Valued(p) = [p EXCEPT !.mc = c, !.mh = h]
  BY DEF Valued, Projects
<1> HIDE DEF c, h
<1>3. [p EXCEPT !.mc = c, !.mh = h] \in Projects
  BY <1>1, ZenonT(60) DEF Projects
<1>4. Alike(p, [p EXCEPT !.mc = c, !.mh = h])
  BY DEF Alike, Aside
<1>5. [p EXCEPT !.mc = c, !.mh = h].mg = p.mg
  BY DEF Projects
<1>. QED
  BY <1>2, <1>3, <1>4, <1>5
-----------------------------------------------------------------------------
\* A curve with a reserve and an inventory graduates into a sound project that
\* has paid the migration fee, and starts the plan its founder declared.
LEMMA GraduatedSound ==
  ASSUME TypeOK, NEW p \in Projects, NEW t, Escrowed(p, t), Vested(p, topo),
         p.ah, ~p.mi, ~p.rc, p.rv > 0, p.cs > 0,
         p.lq > 0, p.supply \in 1..MAX_TOTAL_SUPPLY,
         p.gr => p.status # BONDING
  PROVE  LET q == Graduated(p)
         IN  /\ q \in Projects /\ Sound(q, t, topo)
             /\ MigrationFee(p) \in 0..p.rv
             /\ q.rv = p.rv - MigrationFee(p) /\ q.status = GRADUATED /\ q.gr /\ q.ah
             /\ q.mg = q.mc /\ ~q.mi /\ ~q.rc
             /\ q.ab = p.ab /\ q.cs = p.cs /\ q.lq = p.lq /\ q.paid = p.paid
             /\ q.sp = p.sp /\ q.rp = p.rp /\ q.rd = p.rd /\ q.bv = p.bv /\ q.tc = p.tc
             /\ q.vs = (IF p.plan > 0 THEN topo ELSE p.vs)
             /\ q.vd = (IF p.plan > 0 THEN p.plan ELSE p.vd)
<1> DEFINE fee == MigrationFee(p)
           rv == p.rv - fee
           vs == IF p.plan > 0 THEN topo ELSE p.vs
           vd == IF p.plan > 0 THEN p.plan ELSE p.vd
           b == [p EXCEPT !.status = GRADUATED, !.gr = TRUE, !.rv = rv, !.vs = vs, !.vd = vd]
           g == Valued(b)
           q == [g EXCEPT !.mg = g.mc]
<1>1. fee \in 0..p.rv /\ fee < p.rv /\ rv \in Nat /\ rv > 0
  BY ProjectTypes, ParamBounds, FeeBounds DEF MigrationFee
<1>2. vs \in Nat /\ vd \in Nat /\ vs <= topo /\ topo \in Nat /\ topo > 0
  BY ProjectTypes, VaultConstants DEF TypeOK, Vested
<1>3. Graduated(p) = q
  BY DEF Graduated, Projects
<1> HIDE DEF fee, rv
<1>4. b \in Projects
  <2> HIDE DEF vs, vd
  <2>. QED
    BY <1>1, <1>2, ZenonT(60) DEF Projects, Selling, Buying
<1>5. /\ b.status = GRADUATED /\ b.gr = TRUE /\ b.rv = rv /\ b.vs = vs /\ b.vd = vd
      /\ b.ah = p.ah /\ b.mi = p.mi /\ b.rc = p.rc /\ b.cs = p.cs /\ b.lq = p.lq
      /\ b.supply = p.supply /\ b.bps = p.bps /\ b.paid = p.paid /\ b.plan = p.plan
      /\ b.ab = p.ab /\ b.sp = p.sp /\ b.rp = p.rp /\ b.rd = p.rd /\ b.bv = p.bv /\ b.tc = p.tc
  <2> HIDE DEF vs, vd
  <2>. QED
    BY DEF Projects
<1> HIDE DEF b
<1>6. Escrowed(b, t)
  BY <1>5 DEF Escrowed, Team
<1>7. Vested(b, topo)
  BY <1>2, <1>5 DEF Vested
<1>8. Staged(b)
  BY <1>1, <1>5 DEF Staged, Selling, Buying, GRADUATED, VALIDATION, REJECTED, BONDING
<1>9. g \in Projects /\ Alike(b, g)
  BY <1>4, <1>6, ValuedAlike
<1> HIDE DEF g
<1>10. g.mc \in Amount
  BY <1>9, ProjectTypes
<1>11. q \in Projects /\ Alike(g, q) /\ q.mg = q.mc
  BY <1>9, <1>10 DEF Projects, Alike, Aside
<1> HIDE DEF q
<1>12. Sound(q, t, topo)
  BY <1>4, <1>6, <1>7, <1>8, <1>9, <1>11, AlikeSound DEF Sound
<1>13. /\ q.rv = rv /\ q.status = GRADUATED /\ q.gr = TRUE /\ q.ah = p.ah /\ q.mi = p.mi
       /\ q.rc = p.rc /\ q.ab = p.ab /\ q.cs = p.cs /\ q.lq = p.lq /\ q.paid = p.paid
       /\ q.sp = p.sp /\ q.rp = p.rp /\ q.rd = p.rd /\ q.bv = p.bv /\ q.tc = p.tc
       /\ q.vs = vs /\ q.vd = vd
  <2>1. /\ g.status = b.status /\ g.gr = b.gr /\ g.rv = b.rv /\ g.ah = b.ah /\ g.mi = b.mi /\ g.rc = b.rc
         /\ g.ab = b.ab /\ g.cs = b.cs /\ g.lq = b.lq /\ g.paid = b.paid /\ g.sp = b.sp /\ g.rp = b.rp
         /\ g.rd = b.rd /\ g.bv = b.bv /\ g.tc = b.tc /\ g.vs = b.vs /\ g.vd = b.vd
    BY <1>4, <1>9, AlikeFields
  <2>2. /\ q.status = g.status /\ q.gr = g.gr /\ q.rv = g.rv /\ q.ah = g.ah /\ q.mi = g.mi /\ q.rc = g.rc
         /\ q.ab = g.ab /\ q.cs = g.cs /\ q.lq = g.lq /\ q.paid = g.paid /\ q.sp = g.sp /\ q.rp = g.rp
         /\ q.rd = g.rd /\ q.bv = g.bv /\ q.tc = g.tc /\ q.vs = g.vs /\ q.vd = g.vd
    BY <1>9, <1>11, AlikeFields
  <2> HIDE DEF vs, vd
  <2>. QED
    BY <1>5, <2>1, <2>2
<1>. QED
  BY <1>1, <1>3, <1>11, <1>12, <1>13 DEF rv, fee
-----------------------------------------------------------------------------
(* The sums over all projects, and over all ballots.                       *)

Reserves == [i \in Ids |-> Slot(i, "rv")]
Refunds == [i \in Ids |-> Refundable(i)]
Budgets == [i \in Ids |-> Slot(i, "ab")]
Ballots == Ids \X Rounds \X Wallets
Stakes == [s \in Ballots |-> Locked(s[1], s[2], s[3])]

RefundOf(p) == IF p.status = REJECTED /\ ~p.rc THEN p.lq ELSE 0

LEMMA IdsFinite == IsFiniteSet(Ids) /\ IsFiniteSet(Ballots)
<1>1. IsFiniteSet(Ids) /\ IsFiniteSet(Rounds) /\ IsFiniteSet(Wallets)
  <2>1. MAX_PROJECTS - 1 \in Int /\ MAX_ROUNDS \in Int /\ 0 \in Int
    BY VaultConstants
  <2>2. IsFiniteSet(0..(MAX_PROJECTS - 1)) /\ IsFiniteSet(0..MAX_ROUNDS)
    BY <2>1, FS_Interval
  <2>. QED
    BY <2>2, VaultConstants DEF Ids, Rounds
<1> DEFINE A == Ids  B == Rounds
<1>2. IsFiniteSet(A \X B)
  <2> HIDE DEF A, B
  <2>. QED
    BY <1>1, FS_Product DEF A, B
<1>3. ASSUME NEW S, NEW T, IsFiniteSet(S), IsFiniteSet(T), NEW U, IsFiniteSet(U)
      PROVE  IsFiniteSet(S \X T \X U)
  <2>1. IsFiniteSet(S \X T) /\ IsFiniteSet((S \X T) \X U)
    BY <1>3, FS_Product
  <2> DEFINE f == [v \in (S \X T) \X U |-> <<v[1][1], v[1][2], v[2]>>]
  <2>2. ASSUME NEW x \in S \X T \X U
        PROVE  \E v \in (S \X T) \X U : f[v] = x
    <3>1. PICK s \in S, r \in T, w \in U : x = <<s, r, w>>
      OBVIOUS
    <3>2. <<<<s, r>>, w>> \in (S \X T) \X U /\ f[<<<<s, r>>, w>>] = x
      BY <3>1
    <3>. QED
      BY <3>2
  <2>3. f \in [(S \X T) \X U -> S \X T \X U]
    OBVIOUS
  <2>4. f \in Surjection((S \X T) \X U, S \X T \X U)
    <3> DEFINE V == (S \X T) \X U  W == S \X T \X U
    <3> HIDE DEF f, V, W
    <3>1. f \in [V -> W] /\ \A x \in W : \E v \in V : f[v] = x
      BY <2>2, <2>3 DEF V, W
    <3>2. f \in Surjection(V, W)
      BY <3>1 DEF Surjection
    <3>. QED
      BY <3>2 DEF V, W
  <2> DEFINE V == (S \X T) \X U  W == S \X T \X U
  <2> HIDE DEF f, V, W
  <2>5. IsFiniteSet(V) /\ f \in Surjection(V, W)
    BY <2>1, <2>4 DEF V, W
  <2>6. IsFiniteSet(W)
    BY <2>5, FS_Surjection
  <2>. QED
    BY <2>6 DEF W
<1>. QED
  BY <1>1, <1>3 DEF Ballots

LEMMA SumTypes ==
  ASSUME TypeOK
  PROVE  /\ Reserves \in [Ids -> Nat] /\ Refunds \in [Ids -> Nat] /\ Budgets \in [Ids -> Nat]
         /\ Stakes \in [Ballots -> Nat]
<1>1. \A i \in Ids : Proposed(i) => proj[i] \in Projects
  BY DEF TypeOK, Proposed
<1>2. \A i \in Ids : Slot(i, "rv") \in Nat /\ Slot(i, "ab") \in Nat /\ Refundable(i) \in Nat
  BY <1>1, ProjectTypes DEF Slot, Refundable
<1>3. \A s \in Ballots : Locked(s[1], s[2], s[3]) \in Nat
  <2> TAKE s \in Ballots
  <2>1. s[1] \in Ids /\ s[2] \in Rounds /\ s[3] \in Wallets
    BY DEF Ballots
  <2>2. vote[s[1]][s[2]][s[3]] \in Nat \cup {None}
    <3>1. vote \in [Ids -> [Rounds -> [Wallets -> Nat \cup {None}]]]
      BY DEF TypeOK
    <3>2. vote[s[1]][s[2]] \in [Wallets -> Nat \cup {None}]
      BY <2>1, <3>1
    <3>. QED
      BY <2>1, <3>2
  <2>. QED
    BY <2>2 DEF Locked
<1>. QED
  BY <1>2, <1>3 DEF Reserves, Refunds, Budgets, Stakes

LEMMA SlotsOf ==
  ASSUME TypeOK, NEW i \in Ids
  PROVE  /\ Proposed(i) => /\ proj[i] \in Projects /\ Slot(i, "rv") = proj[i].rv
                           /\ Slot(i, "ab") = proj[i].ab /\ Refundable(i) = RefundOf(proj[i])
         /\ ~Proposed(i) => Slot(i, "rv") = 0 /\ Slot(i, "ab") = 0 /\ Refundable(i) = 0
BY DEF TypeOK, Proposed, Slot, Refundable, RefundOf

\* None of a project's slots is more than what the accumulator holds.
LEMMA WithinBooks ==
  ASSUME TypeOK, XelSolvency, NEW i \in Ids
  PROVE  /\ Slot(i, "rv") <= books.tcx /\ Refundable(i) <= books.lrf
         /\ Slot(i, "ab") <= books.tbb
<1>1. Reserves[i] <= Total(Reserves) /\ Refunds[i] <= Total(Refunds) /\ Budgets[i] <= Total(Budgets)
  BY SumTypes, IdsFinite, ShareWithinTotal
<1>2. Total(Reserves) = books.tcx /\ Total(Refunds) = books.lrf /\ Total(Budgets) = books.tbb
  BY DEF XelSolvency, Reserves, Refunds, Budgets
<1>. QED
  BY <1>1, <1>2 DEF Reserves, Refunds, Budgets

\* Rewriting one project moves each sum by what its own slot moves.
LEMMA SumsMove ==
  ASSUME TypeOK, NEW i \in Ids, NEW q \in Projects, proj' = [proj EXCEPT ![i] = q]
  PROVE  /\ Total(Reserves)' = Total(Reserves) - Slot(i, "rv") + q.rv
         /\ Total(Refunds)' = Total(Refunds) - Refundable(i) + RefundOf(q)
         /\ Total(Budgets)' = Total(Budgets) - Slot(i, "ab") + q.ab
<1>1. /\ DOMAIN proj = Ids /\ proj'[i] = q /\ Proposed(i)'
      /\ \A j \in Ids \ {i} : proj'[j] = proj[j]
  BY NoneIsNoProject DEF TypeOK, Proposed
<1>2. /\ Slot(i, "rv")' = q.rv /\ Slot(i, "ab")' = q.ab /\ Refundable(i)' = RefundOf(q)
      /\ q.rv \in Nat /\ q.ab \in Nat /\ RefundOf(q) \in Nat
  BY <1>1, ProjectTypes DEF Slot, Refundable, RefundOf, Proposed
<1>3. \A j \in Ids \ {i} : /\ Slot(j, "rv")' = Slot(j, "rv") /\ Slot(j, "ab")' = Slot(j, "ab")
                           /\ Refundable(j)' = Refundable(j)
  BY <1>1 DEF Slot, Refundable, Proposed
<1>4. /\ Reserves' = [j \in Ids |-> Slot(j, "rv")'] /\ Budgets' = [j \in Ids |-> Slot(j, "ab")']
      /\ Refunds' = [j \in Ids |-> Refundable(j)']
  BY DEF Reserves, Budgets, Refunds
<1>5. /\ \A j \in Ids \ {i} : Reserves'[j] = Reserves[j] /\ Refunds'[j] = Refunds[j]
                              /\ Budgets'[j] = Budgets[j]
      /\ Reserves'[i] = q.rv /\ Refunds'[i] = RefundOf(q) /\ Budgets'[i] = q.ab
      /\ Reserves[i] = Slot(i, "rv") /\ Refunds[i] = Refundable(i) /\ Budgets[i] = Slot(i, "ab")
  BY <1>2, <1>3, <1>4 DEF Reserves, Budgets, Refunds
<1>6. Reserves' \in [Ids -> Nat] /\ Refunds' \in [Ids -> Nat] /\ Budgets' \in [Ids -> Nat]
  <2>1. /\ Reserves \in [Ids -> Nat] /\ Refunds \in [Ids -> Nat] /\ Budgets \in [Ids -> Nat]
    BY SumTypes
  <2>2. \A j \in Ids : Reserves'[j] \in Nat /\ Refunds'[j] \in Nat /\ Budgets'[j] \in Nat
    BY <1>2, <1>5, <2>1
  <2>. QED
    BY <1>4, <2>2
<1>7. /\ Total(Reserves') = Total(Reserves) - Reserves[i] + Reserves'[i]
      /\ Total(Refunds') = Total(Refunds) - Refunds[i] + Refunds'[i]
      /\ Total(Budgets') = Total(Budgets) - Budgets[i] + Budgets'[i]
  BY <1>5, <1>6, SumTypes, IdsFinite, TotalUpdate
<1>8. /\ Total(Reserves)' = Total(Reserves') /\ Total(Refunds)' = Total(Refunds')
      /\ Total(Budgets)' = Total(Budgets')
  BY DEF Total, Units
<1>. QED
  BY <1>5, <1>7, <1>8

\* And one ballot the sum of the stakes.
LEMMA StakesMove ==
  ASSUME TypeOK, NEW i \in Ids, NEW r \in Rounds, NEW w \in Wallets, NEW n \in Nat,
         vote' = [vote EXCEPT ![i][r][w] = n]
  PROVE  /\ Total(Stakes)' = Total(Stakes) - Locked(i, r, w) + n
         /\ Locked(i, r, w) <= Total(Stakes)
<1> DEFINE s == <<i, r, w>>
<1>1. s \in Ballots
  BY DEF Ballots
<1>2. vote'[i][r][w] = n /\ n # None
  <2>1. vote \in [Ids -> [Rounds -> [Wallets -> Nat \cup {None}]]]
    BY DEF TypeOK
  <2>2. vote'[i] = [vote[i] EXCEPT ![r][w] = n]
    BY <2>1
  <2>3. vote'[i][r] = [vote[i][r] EXCEPT ![w] = n]
    BY <2>1, <2>2
  <2>. QED
    BY <2>1, <2>3, VaultConstants
<1>3. ASSUME NEW u \in Ballots, u # s
      PROVE  vote'[u[1]][u[2]][u[3]] = vote[u[1]][u[2]][u[3]]
  <2>1. PICK j \in Ids, x \in Rounds, v \in Wallets : u = <<j, x, v>>
    BY DEF Ballots
  <2>2. <<j, x, v>> # <<i, r, w>>
    BY <1>3, <2>1
  <2>3. vote \in [Ids -> [Rounds -> [Wallets -> Nat \cup {None}]]]
    BY DEF TypeOK
  <2>4. vote'[j][x][v] = vote[j][x][v]
    <3>1. vote'[j] = IF j = i THEN [vote[i] EXCEPT ![r][w] = n] ELSE vote[j]
      BY <2>3
    <3>2. CASE j # i
      BY <3>1, <3>2
    <3>3. CASE j = i
      <4>1. vote'[j] = [vote[i] EXCEPT ![r][w] = n]
        BY <3>1, <3>3
      <4>2. vote'[j][x] = IF x = r THEN [vote[i][r] EXCEPT ![w] = n] ELSE vote[i][x]
        BY <2>3, <4>1
      <4>. QED
        BY <2>2, <2>3, <3>3, <4>2
    <3>. QED
      BY <3>2, <3>3
  <2>. QED
    BY <2>1, <2>4
<1>4. Stakes' = [u \in Ballots |-> Locked(u[1], u[2], u[3])']
  BY DEF Stakes
<1>5. \A u \in Ballots \ {s} : Stakes'[u] = Stakes[u]
  BY <1>3, <1>4 DEF Stakes, Locked
<1>6. Stakes[s] = Locked(i, r, w) /\ Stakes'[s] = n
  BY <1>1, <1>2, <1>4 DEF Stakes, Locked
<1>7. Stakes \in [Ballots -> Nat]
  BY SumTypes
<1>8. Stakes' \in [Ballots -> Nat]
  BY <1>4, <1>5, <1>6, <1>7
<1>9. Total(Stakes') = Total(Stakes) - Stakes[s] + Stakes'[s] /\ Stakes[s] <= Total(Stakes)
  <2> HIDE DEF s
  <2>. QED
    BY <1>1, <1>5, <1>7, <1>8, IdsFinite, TotalUpdate, ShareWithinTotal
<1>10. Total(Stakes)' = Total(Stakes')
  BY DEF Total, Units
<1>. QED
  BY <1>6, <1>9, <1>10
-----------------------------------------------------------------------------
(* One entry, one project.                                                 *)

BookTypes == [tcx : Nat, pfe : Nat, fcl : Nat, lrf : Nat, tbb : Nat, tvp : Nat,
              tbv : Nat, tsv : Nat, tvl : Nat, ttc : Nat]

LEMMA BookFields ==
  ASSUME NEW b \in BookTypes
  PROVE  /\ b.tcx \in Nat /\ b.pfe \in Nat /\ b.fcl \in Nat /\ b.lrf \in Nat
         /\ b.tbb \in Nat /\ b.tvp \in Nat /\ b.tbv \in Nat /\ b.tsv \in Nat
         /\ b.tvl \in Nat /\ b.ttc \in Nat
BY DEF BookTypes

\* The entry leaves q in project i and t units of its asset, and moves the
\* accumulators by what it moves of the project's slots.
Books(i, q, t) ==
  /\ proj' = [proj EXCEPT ![i] = q] /\ tok' = [tok EXCEPT ![i] = t]
  /\ q \in Projects /\ t \in Nat /\ Sound(q, t, topo)
  /\ books' \in BookTypes
  /\ books'.tcx = books.tcx - Slot(i, "rv") + q.rv
  /\ books'.lrf = books.lrf - Refundable(i) + RefundOf(q)
  /\ books'.tbb = books.tbb - Slot(i, "ab") + q.ab
  /\ xel' \in 0..XelSupply
  /\ Committed' + books'.pfe <= xel'

LEMMA BooksKeep ==
  ASSUME VaultInv, NEW i \in Ids, NEW q, NEW t, Books(i, q, t), topo' = topo,
         books'.tvp = Total(Stakes)'
  PROVE  /\ XelSolvency'
         /\ proj' \in [Ids -> Projects \cup {None}]
         /\ tok' \in [Ids -> Nat]
         /\ \A j \in Ids : Proposed(j)' => Sound(proj[j], tok[j], topo)'
         /\ \A j \in Ids : Proposed(j)' <=> Proposed(j) \/ j = i
<1>1. TypeOK
  BY DEF VaultInv
<1>2. /\ DOMAIN proj = Ids /\ DOMAIN tok = Ids /\ proj'[i] = q /\ tok'[i] = t /\ q # None
      /\ \A j \in Ids \ {i} : proj'[j] = proj[j] /\ tok'[j] = tok[j]
  BY <1>1, NoneIsNoProject DEF TypeOK, Books
<1>3. proj' \in [Ids -> Projects \cup {None}] /\ tok' \in [Ids -> Nat]
  BY <1>1 DEF TypeOK, Books
<1>4. \A j \in Ids : Proposed(j)' <=> Proposed(j) \/ j = i
  BY <1>2 DEF Proposed
<1>5. \A j \in Ids : Proposed(j)' => Sound(proj'[j], tok'[j], topo')
  <2>1. \A j \in Ids \ {i} : Proposed(j) => Sound(proj[j], tok[j], topo)
    BY DEF VaultInv
  <2>. QED
    BY <1>2, <1>4, <2>1 DEF Books
<1>6. \A j \in Ids : Proposed(j)' => Sound(proj[j], tok[j], topo)'
  BY <1>5 DEF Sound, Staged, Escrowed, Vested, Team, TeamAlloc, FeeTake
<1>7. /\ Total(Reserves)' = Total(Reserves) - Slot(i, "rv") + q.rv
      /\ Total(Refunds)' = Total(Refunds) - Refundable(i) + RefundOf(q)
      /\ Total(Budgets)' = Total(Budgets) - Slot(i, "ab") + q.ab
  BY <1>1, SumsMove DEF Books
<1>8. /\ Total(Reserves) = books.tcx /\ Total(Refunds) = books.lrf
      /\ Total(Budgets) = books.tbb
  BY DEF VaultInv, XelSolvency, Reserves, Refunds, Budgets
<1>9. /\ books'.tcx = Total(Reserves)' /\ books'.lrf = Total(Refunds)'
      /\ books'.tbb = Total(Budgets)' /\ books'.tvp = Total(Stakes)'
      /\ Committed' + books'.pfe <= xel'
  BY <1>7, <1>8 DEF Books
<1>10. XelSolvency'
  BY <1>9 DEF XelSolvency, Reserves, Refunds, Budgets, Stakes, Ballots
<1>. QED
  BY <1>3, <1>4, <1>6, <1>10

\* An entry on a project there is, which touches no ballot.
LEMMA EntryKeeps ==
  ASSUME VaultInv, NEW i \in Ids, NEW q, NEW t, Proposed(i), Books(i, q, t),
         books'.tvp = books.tvp, moved' \in Seq(Ids), OneVotePerRound',
         UNCHANGED <<config, params, count, ticker, vote, topo>>
  PROVE  VaultInv'
<1>1. Total(Stakes)' = Total(Stakes)
  BY DEF Total, Units, Stakes, Locked, Ballots
<1>2. books'.tvp = Total(Stakes)'
  BY <1>1 DEF VaultInv, XelSolvency, Stakes, Ballots
<1>3. /\ XelSolvency'
      /\ proj' \in [Ids -> Projects \cup {None}] /\ tok' \in [Ids -> Nat]
      /\ \A j \in Ids : Proposed(j)' => Sound(proj[j], tok[j], topo)'
      /\ \A j \in Ids : Proposed(j)' <=> Proposed(j) \/ j = i
  BY <1>2, BooksKeep
<1>4. TypeOK'
  BY <1>3 DEF VaultInv, TypeOK, Books, BookTypes
<1>5. \A j \in Ids \ {i} : tok'[j] = tok[j]
  BY DEF VaultInv, TypeOK, Books
<1>6. Numbered'
  BY <1>3, <1>5 DEF VaultInv, Numbered, Proposed
<1>. QED
  BY <1>3, <1>4, <1>6 DEF VaultInv

\* What an entry on project i finds there.
LEMMA AtProject ==
  ASSUME VaultInv, NEW i \in Ids, Proposed(i)
  PROVE  /\ TypeOK /\ XelSolvency
         /\ proj[i] \in Projects /\ tok[i] \in Nat
         /\ Staged(proj[i]) /\ Escrowed(proj[i], tok[i]) /\ Vested(proj[i], topo)
         /\ Slot(i, "rv") = proj[i].rv /\ Slot(i, "ab") = proj[i].ab
         /\ Refundable(i) = RefundOf(proj[i])
         /\ proj[i].rv <= books.tcx /\ RefundOf(proj[i]) <= books.lrf
         /\ proj[i].ab <= books.tbb
         /\ books \in BookTypes /\ xel \in 0..XelSupply /\ XelSupply \in Nat
         /\ Committed + books.pfe <= xel
<1>1. TypeOK /\ XelSolvency
  BY DEF VaultInv
<1>2. /\ proj[i] \in Projects /\ Slot(i, "rv") = proj[i].rv /\ Slot(i, "ab") = proj[i].ab
      /\ Refundable(i) = RefundOf(proj[i])
  BY <1>1, SlotsOf
<1>3. Sound(proj[i], tok[i], topo) /\ Committed + books.pfe <= xel
  BY <1>1 DEF VaultInv, XelSolvency
<1>4. /\ proj[i].rv <= books.tcx /\ RefundOf(proj[i]) <= books.lrf
      /\ proj[i].ab <= books.tbb
  BY <1>1, <1>2, WithinBooks
<1>5. books \in BookTypes /\ xel \in 0..XelSupply /\ XelSupply \in Nat /\ tok[i] \in Nat
  BY <1>1, VaultConstants DEF TypeOK, BookTypes
<1>. QED
  BY <1>1, <1>2, <1>3, <1>4, <1>5 DEF Sound

\* The votes stand while no ballot is touched and no tally.
LEMMA TallyKept ==
  ASSUME VaultInv, NEW i \in Ids, NEW q \in Projects, Proposed(i),
         proj' = [proj EXCEPT ![i] = q], vote' = vote,
         q.sp = proj[i].sp, q.rp = proj[i].rp, q.rd = proj[i].rd
  PROVE  OneVotePerRound'
<1>1. \A j \in Ids : Proposed(j)' => /\ Proposed(j) /\ proj'[j].sp = proj[j].sp
                                     /\ proj'[j].rp = proj[j].rp /\ proj'[j].rd = proj[j].rd
  BY NoneIsNoProject DEF VaultInv, TypeOK, Proposed
<1>2. OneVotePerRound
  BY DEF VaultInv
<1>3. ASSUME NEW j \in Ids, Proposed(j)'
      PROVE  /\ proj'[j].sp + proj'[j].rp
                  = Cardinality({w \in Wallets : vote'[j][proj'[j].rd][w] # None})
             /\ \A r \in Rounds, w \in Wallets : vote'[j][r][w] # None => r <= proj'[j].rd
  BY <1>1, <1>2, <1>3 DEF OneVotePerRound
<1>. QED
  BY <1>3 DEF OneVotePerRound
-----------------------------------------------------------------------------
(* What a step may do to a project: the lifecycle and the vesting, as      *)
(* relations between its slots before and after.                           *)

Path(p, q) ==
  /\ p.gr => q.gr
  /\ p.mi => q.mi
  /\ q.status # p.status =>
       \/ /\ p.status = VALIDATION /\ topo >= p.ve
          /\ \/ q.status = REJECTED /\ ~q.ah
             \/ q.status = (IF p.dl THEN GRADUATED ELSE BONDING) /\ q.ah
       \/ p.status = BONDING /\ q.status = GRADUATED /\ q.bv > p.bv
       \/ p.status \in Buying /\ q.status = UNTRUSTED /\ 2 * q.rp > q.sp + q.rp
       \/ p.status = UNTRUSTED /\ q.status = RECOVERY /\ q.rd > p.rd
       \/ /\ p.status = RECOVERY /\ topo >= p.ve
          /\ \/ q.status = UNTRUSTED
             \/ /\ q.status = (IF p.gr THEN TRUSTED ELSE BONDING)
                /\ p.gr => Reaches(p.sp, p, params.recPart, params.recRatio)
  /\ q.gr # p.gr => q.status = GRADUATED

Trusted(p, q) ==
  /\ <<p.sp, p.rp>> # <<q.sp, q.rp>> \/ (p.status \in Voting /\ q.status # p.status)
  /\ q.status \in Buying
  => ~Distrusted(q)

Graduating(p, q) ==
  /\ p.tc < q.tc /\ q.bv > p.bv /\ q.status = BONDING => q.rv < q.lq * params.mult
  /\ q.gr # p.gr =>
       LET dep == q.bv - p.bv
           grown == p.rv + dep - FeeTake(dep, params.tradeFee)
       IN  /\ q.rv = grown - FeeTake(grown, params.migFee)
           /\ q.mg = q.mc
           /\ p.status = BONDING => grown >= p.lq * params.mult
  /\ q.gr = p.gr => q.mg = p.mg

Vests(p, q) ==
  /\ p.vs > 0 => <<q.vs, q.vd>> = <<p.vs, p.vd>>
  /\ q.paid > p.paid =>
       /\ p.vs > 0 => q.paid * p.vd <= Team(p) * (topo - p.vs)
       /\ p.gr /\ p.plan > 0 => p.vs > 0 /\ p.vd = p.plan
       /\ ~p.gr /\ p.vs = 0 => p.bt > 0 /\ topo >= p.bt + Low.delay

Lives(p, q) == Path(p, q) /\ Trusted(p, q) /\ Graduating(p, q) /\ Vests(p, q)

\* Every project there is lives on.
AllLive == \A j \in Ids : Proposed(j) => proj'[j] # None /\ Lives(proj[j], proj'[j])

\* Steps of which the relations say nothing.
Quiet(p, q) ==
  /\ q.status = p.status /\ q.gr = p.gr /\ (p.mi => q.mi) /\ q.sp = p.sp /\ q.rp = p.rp
  /\ q.bv = p.bv /\ q.mg = p.mg /\ q.vs = p.vs /\ q.vd = p.vd /\ q.paid = p.paid

LEMMA QuietLives ==
  ASSUME NEW p \in Projects, NEW q \in Projects, Quiet(p, q)
  PROVE  Lives(p, q)
<1>1. p.bv \in Nat /\ p.paid \in Nat
  BY ProjectTypes
<1>. QED
  BY <1>1 DEF Lives, Quiet, Path, Trusted, Graduating, Vests

LEMMA AlikeQuiet ==
  ASSUME NEW p \in Projects, NEW q \in Projects, Alike(p, q), q.mg = p.mg
  PROVE  Quiet(p, q)
BY AlikeFields DEF Quiet

LEMMA OneLives ==
  ASSUME TypeOK, NEW i \in Ids, NEW q \in Projects, proj' = [proj EXCEPT ![i] = q],
         Proposed(i) => Lives(proj[i], q)
  PROVE  AllLive
<1>1. \A j \in Ids : Proposed(j) => proj[j] \in Projects
  BY DEF TypeOK, Proposed
<1>2. \A j \in Ids : Proposed(j) => Quiet(proj[j], proj[j])
  BY DEF Quiet
<1>3. \A j \in Ids : Proposed(j) => Lives(proj[j], proj[j])
  BY <1>1, <1>2, QuietLives
<1>4. q # None /\ proj'[i] = q /\ \A j \in Ids \ {i} : proj'[j] = proj[j]
  BY NoneIsNoProject DEF TypeOK
<1>. QED
  BY <1>3, <1>4 DEF AllLive, Proposed

LEMMA NoneMoves ==
  ASSUME TypeOK, proj' = proj
  PROVE  AllLive
<1>1. \A j \in Ids : Proposed(j) => proj[j] \in Projects
  BY DEF TypeOK, Proposed
<1>2. \A j \in Ids : Proposed(j) => Quiet(proj[j], proj[j])
  BY DEF Quiet
<1>. QED
  BY <1>1, <1>2, QuietLives DEF AllLive, Proposed

LEMMA EntryLives ==
  ASSUME VaultInv, NEW i \in Ids, NEW q, NEW t, Proposed(i), Books(i, q, t),
         books'.tvp = books.tvp, moved' \in Seq(Ids),
         UNCHANGED <<config, params, count, ticker, vote, topo>>,
         q.sp = proj[i].sp, q.rp = proj[i].rp, q.rd = proj[i].rd,
         Lives(proj[i], q)
  PROVE  VaultInv' /\ AllLive
<1>1. q \in Projects /\ proj' = [proj EXCEPT ![i] = q]
  BY DEF Books
<1>2. OneVotePerRound'
  BY <1>1, TallyKept
<1>3. AllLive
  BY <1>1, OneLives DEF VaultInv
<1>. QED
  BY <1>2, <1>3, EntryKeeps
-----------------------------------------------------------------------------
(* The founder's entries.                                                  *)

\* A project's card or mirror flag changes, and nothing else.
LEMMA AsideKeeps ==
  ASSUME VaultInv, NEW i \in Ids, Proposed(i), NEW q \in Projects, Alike(proj[i], q),
         q.mg = proj[i].mg, proj' = [proj EXCEPT ![i] = q],
         UNCHANGED <<config, params, count, ticker, vote, moved, books, xel, tok, topo>>
  PROVE  VaultInv' /\ AllLive
<1> DEFINE p == proj[i]
<1>0. /\ TypeOK /\ XelSolvency /\ p \in Projects /\ tok[i] \in Nat
      /\ Staged(p) /\ Escrowed(p, tok[i]) /\ Vested(p, topo)
      /\ Slot(i, "rv") = p.rv /\ Slot(i, "ab") = p.ab /\ Refundable(i) = RefundOf(p)
      /\ books \in BookTypes /\ xel \in 0..XelSupply
      /\ Committed + books.pfe <= xel
  BY AtProject
<1>1. /\ q.rv = p.rv /\ q.ab = p.ab /\ q.status = p.status /\ q.rc = p.rc /\ q.lq = p.lq
      /\ q.sp = p.sp /\ q.rp = p.rp /\ q.rd = p.rd
  BY <1>0, AlikeFields
<1>2. Sound(q, tok[i], topo)
  BY <1>0, AlikeSound DEF Sound
<1>3. Lives(p, q)
  BY <1>0, AlikeQuiet, QuietLives
<1>4. tok' = [tok EXCEPT ![i] = tok[i]] /\ Committed' = Committed /\ moved' \in Seq(Ids)
  BY <1>0 DEF TypeOK, Committed
<1>5. RefundOf(q) = RefundOf(p) /\ p.rv \in Nat /\ p.ab \in Nat /\ RefundOf(p) \in Nat
  BY <1>0, <1>1, ProjectTypes DEF RefundOf
<1>6. books.tcx \in Nat /\ books.lrf \in Nat /\ books.tbb \in Nat
  BY <1>0, BookFields
<1>7. Books(i, q, tok[i])
  <2>1. /\ books'.tcx = books.tcx - Slot(i, "rv") + q.rv
        /\ books'.lrf = books.lrf - Refundable(i) + RefundOf(q)
        /\ books'.tbb = books.tbb - Slot(i, "ab") + q.ab
    BY <1>0, <1>1, <1>5, <1>6
  <2>2. Committed' + books'.pfe <= xel' /\ xel' \in 0..XelSupply /\ books' \in BookTypes
    BY <1>0, <1>4
  <2>. QED
    BY <1>0, <1>2, <1>4, <2>1, <2>2 DEF Books
<1>. QED
  BY <1>1, <1>3, <1>4, <1>7, EntryLives

LEMMA StepUpdateProjectInfo ==
  ASSUME VaultInv, NEW u, NEW i \in Ids, NEW info \in Infos, UpdateProjectInfo(u, i, info)
  PROVE  VaultInv' /\ AllLive
<1> DEFINE q == [proj[i] EXCEPT !.info = info]
<1>1. Proposed(i) /\ proj[i] \in Projects
  BY AtProject DEF UpdateProjectInfo
<1>2. q \in Projects /\ Alike(proj[i], q) /\ q.mg = proj[i].mg
  BY <1>1 DEF Projects, Alike, Aside
<1>. QED
  BY <1>1, <1>2, AsideKeeps DEF UpdateProjectInfo

LEMMA StepSyncTrustToDex ==
  ASSUME VaultInv, NEW i \in Ids, SyncTrustToDex(i)
  PROVE  VaultInv' /\ AllLive
<1> DEFINE q == [proj[i] EXCEPT !.dsy = SyncFlag(proj[i])]
<1>1. Proposed(i) /\ proj[i] \in Projects
  BY AtProject DEF SyncTrustToDex, SyncAccepted
<1>2. SyncFlag(proj[i]) \in BOOLEAN
  BY DEF SyncFlag
<1>3. q \in Projects /\ Alike(proj[i], q) /\ q.mg = proj[i].mg
  BY <1>1, <1>2 DEF Projects, Alike, Aside
<1>. QED
  BY <1>1, <1>3, AsideKeeps DEF SyncTrustToDex

LEMMA StepClaimRefund ==
  ASSUME VaultInv, NEW u, NEW i \in Ids, ClaimRefund(u, i)
  PROVE  VaultInv' /\ AllLive
<1> DEFINE p == proj[i]
           q == [p EXCEPT !.rc = TRUE, !.ab = 0]
<1>0. Proposed(i)
  BY DEF ClaimRefund
<1>1. /\ TypeOK /\ p \in Projects /\ tok[i] \in Nat
      /\ Staged(p) /\ Escrowed(p, tok[i]) /\ Vested(p, topo)
      /\ Slot(i, "rv") = p.rv /\ Slot(i, "ab") = p.ab /\ Refundable(i) = RefundOf(p)
      /\ books \in BookTypes /\ xel \in 0..XelSupply /\ XelSupply \in Nat
      /\ Committed + books.pfe <= xel
  BY <1>0, AtProject
<1>2. /\ q \in Projects /\ q.rc = TRUE /\ q.ab = 0 /\ q.mg = p.mg
      /\ q.status = p.status /\ q.ah = p.ah /\ q.gr = p.gr /\ q.mi = p.mi
      /\ q.rv = p.rv /\ q.cs = p.cs /\ q.lq = p.lq /\ q.supply = p.supply
      /\ q.bps = p.bps /\ q.paid = p.paid /\ q.vs = p.vs /\ q.vd = p.vd /\ q.plan = p.plan
      /\ q.sp = p.sp /\ q.rp = p.rp /\ q.rd = p.rd /\ q.bv = p.bv
  BY <1>1, ZenonT(60) DEF Projects
<1> HIDE DEF q
<1>3. /\ p.status = REJECTED /\ ~p.rc /\ p.lq <= books.lrf /\ p.ab <= books.tbb
      /\ p.lq + p.ab <= xel /\ proj' = [proj EXCEPT ![i] = q]
      /\ books' = [books EXCEPT !.lrf = @ - p.lq, !.tbb = @ - p.ab]
      /\ xel' = xel - p.lq - p.ab
      /\ UNCHANGED <<config, params, count, ticker, vote, moved, tok, topo>>
  BY DEF ClaimRefund, q
<1>4. Sound(q, tok[i], topo)
  BY <1>1, <1>2, <1>3
     DEF Sound, Staged, Escrowed, Vested, Team, REJECTED, VALIDATION, BONDING
<1>5. RefundOf(p) = p.lq /\ RefundOf(q) = 0
  BY <1>2, <1>3 DEF RefundOf
<1>6. tok' = [tok EXCEPT ![i] = tok[i]] /\ moved' \in Seq(Ids)
  BY <1>1, <1>3 DEF TypeOK
<1>7. p.lq \in Nat /\ p.ab \in Nat /\ p.rv \in Nat
  BY <1>1, ProjectTypes
<1>8. /\ books' \in BookTypes /\ books'.lrf = books.lrf - p.lq /\ books'.tbb = books.tbb - p.ab
      /\ books'.tcx = books.tcx /\ books'.tvp = books.tvp /\ books'.pfe = books.pfe
  <2>1. books.lrf - p.lq \in Nat /\ books.tbb - p.ab \in Nat
    BY <1>1, <1>3, <1>7, BookFields
  <2>. QED
    BY <1>1, <1>3, <2>1 DEF BookTypes
<1>9. xel' \in 0..XelSupply /\ Committed' + books'.pfe <= xel'
  BY <1>1, <1>3, <1>7, <1>8, BookFields DEF Committed
<1>10. books.tcx \in Nat /\ books.lrf \in Nat /\ books.tbb \in Nat
  BY <1>1, BookFields
<1>11. Books(i, q, tok[i])
  <2>1. /\ books'.tcx = books.tcx - Slot(i, "rv") + q.rv
        /\ books'.lrf = books.lrf - Refundable(i) + RefundOf(q)
        /\ books'.tbb = books.tbb - Slot(i, "ab") + q.ab
    BY <1>1, <1>2, <1>5, <1>7, <1>8, <1>10
  <2>. QED
    BY <1>1, <1>2, <1>3, <1>4, <1>6, <1>8, <1>9, <2>1 DEF Books
<1>12. Lives(p, q)
  BY <1>1, <1>2, QuietLives DEF Quiet
<1>. QED
  BY <1>0, <1>2, <1>3, <1>6, <1>8, <1>11, <1>12, EntryLives
-----------------------------------------------------------------------------
(* Trades.                                                                 *)

\* A sell of an open curve takes less than its whole reserve.
LEMMA SellBounds ==
  ASSUME VaultInv, NEW i \in Ids, Proposed(i), NEW dep \in Nat,
         proj[i].rv > 0, proj[i].cs > 0
  PROVE  /\ SellOut(proj[i], dep) \in Nat /\ SellOut(proj[i], dep) < proj[i].rv
         /\ FeeTake(SellOut(proj[i], dep), TradingFee(proj[i])) \in 0..SellOut(proj[i], dep)
<1> DEFINE p == proj[i]
<1>1. TypeOK /\ p \in Projects
  BY AtProject
<1>2. p.rv \in Nat \ {0} /\ p.cs \in Nat \ {0}
  BY <1>1, ProjectTypes
<1>3. SellOut(p, dep) \in Nat /\ SellOut(p, dep) < p.rv
  BY <1>2, OutBounds DEF SellOut
<1>4. FeeTake(SellOut(p, dep), TradingFee(p)) \in 0..SellOut(p, dep)
  BY <1>1, <1>3, FeeBounds, TradingFeeBounds
<1>. QED
  BY <1>3, <1>4

LEMMA StepSell ==
  ASSUME VaultInv, NEW i \in Ids, NEW dep \in Nat, Sell(i, dep)
  PROVE  VaultInv' /\ AllLive
<1> DEFINE p == proj[i]
           gross == SellOut(p, dep)
           fee == FeeTake(gross, TradingFee(p))
           rv == p.rv - gross
           cs == p.cs + dep
           sv == p.sv + gross
           vo == p.vo + gross
           tc == p.tc + 1
           b == [p EXCEPT !.rv = rv, !.cs = cs, !.sv = sv, !.vo = vo, !.tc = tc]
           q == Valued(b)
           t == tok[i] + dep
<1>0. Proposed(i)
  BY DEF Sell, SellAccepted
<1>1. /\ TypeOK /\ p \in Projects /\ tok[i] \in Nat
      /\ Staged(p) /\ Escrowed(p, tok[i]) /\ Vested(p, topo)
      /\ Slot(i, "rv") = p.rv /\ Slot(i, "ab") = p.ab /\ Refundable(i) = RefundOf(p)
      /\ books \in BookTypes /\ xel \in 0..XelSupply /\ XelSupply \in Nat
      /\ p.rv <= books.tcx /\ Committed + books.pfe <= xel
  BY <1>0, AtProject
<1>2. /\ p.ah /\ ~p.mi /\ dep >= 1 /\ dep <= p.supply - tok[i] /\ p.rv > 0 /\ p.cs > 0
      /\ proj' = [proj EXCEPT ![i] = q] /\ tok' = [tok EXCEPT ![i] = t]
      /\ books' = [books EXCEPT !.tsv = @ + gross, !.tvl = @ + gross, !.ttc = @ + 1,
                                !.tcx = @ - gross, !.pfe = @ + fee]
      /\ xel' = xel - (gross - fee)
      /\ UNCHANGED <<config, params, count, ticker, vote, moved, topo>>
  <2>1. SellAccepted(i, dep)
    BY DEF Sell
  <2>2. /\ p.ah /\ ~p.mi /\ dep >= 1 /\ dep <= p.supply - tok[i] /\ p.rv > 0 /\ p.cs > 0
    BY <2>1 DEF SellAccepted, SellGate, TokOutside
  <2>3. books' = [SellRecorded(books, gross) EXCEPT !.tcx = @ - gross, !.pfe = @ + fee]
    BY DEF Sell
  <2>4. SellRecorded(books, gross)
          = [books EXCEPT !.tsv = @ + gross, !.tvl = @ + gross, !.ttc = @ + 1]
    BY DEF SellRecorded
  <2>5. proj' = [proj EXCEPT ![i] = q] /\ tok' = [tok EXCEPT ![i] = t]
    BY <1>1 DEF Sell, TypeOK, Projects
  <2> HIDE DEF p, gross, fee, q, t
  <2>6. books' = [books EXCEPT !.tsv = @ + gross, !.tvl = @ + gross, !.ttc = @ + 1,
                                !.tcx = @ - gross, !.pfe = @ + fee]
    BY <1>1, <2>3, <2>4 DEF BookTypes
  <2>. QED
    BY <2>2, <2>5, <2>6 DEF Sell, p, gross, fee
<1>3. gross \in Nat /\ gross < p.rv /\ fee \in 0..gross
  BY <1>0, <1>2, SellBounds
<1> HIDE DEF gross, fee
<1>4. /\ p.rv \in Nat /\ p.cs \in Nat /\ p.sv \in Nat /\ p.vo \in Nat /\ p.tc \in Nat
      /\ p.ab \in Nat /\ p.supply \in Nat /\ p.paid \in Nat /\ Team(p) \in Nat /\ p.bv \in Nat
  BY <1>1, ProjectTypes
<1>5. /\ rv \in Nat /\ rv > 0 /\ cs \in Nat /\ cs > 0 /\ sv \in Nat /\ vo \in Nat /\ tc \in Nat
      /\ t \in Nat
  BY <1>1, <1>2, <1>3, <1>4
<1>6. cs + (Team(p) - p.paid) <= t /\ t <= p.supply /\ cs + (Team(p) - p.paid) <= p.supply
  BY <1>1, <1>2, <1>4 DEF Escrowed
<1> HIDE DEF rv, cs, sv, vo, tc, t
<1>7. /\ b \in Projects /\ b.rv = rv /\ b.cs = cs /\ b.tc = tc /\ b.bv = p.bv /\ b.mg = p.mg
      /\ b.status = p.status /\ b.ah = p.ah /\ b.gr = p.gr /\ b.mi = p.mi /\ b.rc = p.rc
      /\ b.ab = p.ab /\ b.lq = p.lq /\ b.supply = p.supply
      /\ b.bps = p.bps /\ b.paid = p.paid /\ b.vs = p.vs /\ b.vd = p.vd /\ b.plan = p.plan
      /\ b.sp = p.sp /\ b.rp = p.rp /\ b.rd = p.rd
  BY <1>1, <1>5, ZenonT(60) DEF Projects
<1> HIDE DEF b
<1>8. Escrowed(b, t)
  BY <1>1, <1>2, <1>6, <1>7 DEF Escrowed, Team
<1>9. Staged(b) /\ Vested(b, topo)
  BY <1>1, <1>2, <1>5, <1>7 DEF Staged, Vested, Selling, Buying, VALIDATION, REJECTED,
       BONDING, GRADUATED, TRUSTED, UNTRUSTED, RECOVERY
<1>10. q \in Projects /\ Alike(b, q) /\ q.mg = b.mg
  BY <1>7, <1>8, ValuedAlike
<1> HIDE DEF q
<1>11. Sound(q, t, topo)
  BY <1>7, <1>8, <1>9, <1>10, AlikeSound DEF Sound
<1>12. /\ q.rv = rv /\ q.status = p.status /\ q.gr = p.gr /\ q.mi = p.mi /\ q.rc = p.rc
       /\ q.ab = p.ab /\ q.lq = p.lq /\ q.sp = p.sp /\ q.rp = p.rp /\ q.rd = p.rd
       /\ q.bv = p.bv /\ q.mg = p.mg /\ q.vs = p.vs /\ q.vd = p.vd /\ q.paid = p.paid
  BY <1>7, <1>10, AlikeFields
<1>13. Lives(p, q)
  BY <1>1, <1>10, <1>12, QuietLives DEF Quiet
<1>14. /\ books' \in BookTypes /\ books'.tcx = books.tcx - gross /\ books'.lrf = books.lrf
       /\ books'.tbb = books.tbb /\ books'.tvp = books.tvp /\ books'.pfe = books.pfe + fee
  <2>1. /\ books.tcx - gross \in Nat /\ books.pfe + fee \in Nat
        /\ books.tsv + gross \in Nat /\ books.tvl + gross \in Nat /\ books.ttc + 1 \in Nat
    BY <1>1, <1>3, <1>4, BookFields
  <2>. QED
    BY <1>1, <1>2, <2>1 DEF BookTypes
<1>15. xel' \in 0..XelSupply /\ Committed' + books'.pfe <= xel'
  BY <1>1, <1>2, <1>3, <1>4, <1>14, BookFields DEF Committed
<1>16. /\ books.tcx \in Nat /\ books.lrf \in Nat /\ books.tbb \in Nat
       /\ RefundOf(q) = RefundOf(p) /\ RefundOf(p) \in Nat
  BY <1>1, <1>12, BookFields, ProjectTypes DEF RefundOf
<1>17. Books(i, q, t)
  <2>1. /\ books'.tcx = books.tcx - Slot(i, "rv") + q.rv
        /\ books'.lrf = books.lrf - Refundable(i) + RefundOf(q)
        /\ books'.tbb = books.tbb - Slot(i, "ab") + q.ab
    BY <1>1, <1>3, <1>4, <1>12, <1>14, <1>16 DEF rv
  <2>. QED
    BY <1>2, <1>5, <1>10, <1>11, <1>14, <1>15, <2>1 DEF Books
<1>18. moved' \in Seq(Ids)
  BY <1>1, <1>2 DEF TypeOK
<1>. QED
  BY <1>0, <1>2, <1>12, <1>13, <1>14, <1>17, <1>18, EntryLives
-----------------------------------------------------------------------------
(* The team's allocation.                                                  *)

\* What has unlocked is part of the allocation; while a stream runs, its share.
LEMMA UnlockedBounds ==
  ASSUME TypeOK, NEW p \in Projects, Vested(p, topo)
  PROVE  /\ TeamUnlocked(p, topo) \in 0..Team(p)
         /\ p.vs > 0 => TeamUnlocked(p, topo) * p.vd <= Team(p) * (topo - p.vs)
<1>1. /\ Team(p) \in Nat /\ p.vs \in Nat /\ p.vd \in Nat /\ topo \in Nat /\ p.vs <= topo
  BY ProjectTypes, VaultConstants DEF TypeOK, Vested
<1> DEFINE age == topo - p.vs
           x == Team(p) * age
<1>2. age \in Nat /\ Floor0(topo - p.vs) = age
  BY <1>1 DEF Floor0
<1> HIDE DEF age
<1>3. x \in Nat
  BY <1>1, <1>2
<1> HIDE DEF x
<1>4. p.vd > 0 => x \div p.vd \in Nat /\ (x \div p.vd) * p.vd <= x
  BY <1>1, <1>3, DivBounds
<1>5. Streamed(p, topo) = IF p.vd = 0 THEN Team(p) ELSE Least(Team(p), x \div p.vd)
  BY <1>2 DEF Streamed, x
<1>6. Streamed(p, topo) \in 0..Team(p)
  BY <1>1, <1>4, <1>5 DEF Least
<1>7. Streamed(p, topo) * p.vd <= x
  <2>1. CASE p.vd = 0
    <3>1. Team(p) * 0 = 0
      BY <1>1
    <3>. QED
      BY <1>1, <1>3, <1>5, <2>1, <3>1
  <2>2. CASE p.vd > 0
    <3>1. Streamed(p, topo) <= x \div p.vd
      BY <1>1, <1>4, <1>5, <2>2 DEF Least
    <3>2. p.vd * Streamed(p, topo) <= p.vd * (x \div p.vd)
      BY <1>1, <1>4, <1>6, <2>2, <3>1, MulMono
    <3>3. Streamed(p, topo) * p.vd <= (x \div p.vd) * p.vd
      BY <1>1, <1>4, <1>6, <2>2, <3>2
    <3>4. Streamed(p, topo) * p.vd \in Nat /\ (x \div p.vd) * p.vd \in Nat
      BY <1>1, <1>4, <1>6, <2>2
    <3>. QED
      BY <1>3, <1>4, <2>2, <3>3, <3>4
  <2>. QED
    BY <1>1, <2>1, <2>2
<1>8. p.vs > 0 => TeamUnlocked(p, topo) = Streamed(p, topo)
  BY DEF TeamUnlocked
<1>9. TeamUnlocked(p, topo) \in {Streamed(p, topo), Team(p), 0}
  BY DEF TeamUnlocked
<1>. QED
  BY <1>1, <1>6, <1>7, <1>8, <1>9 DEF x, age

LEMMA StepStartTeamVesting ==
  ASSUME VaultInv, NEW u, NEW i \in Ids, NEW dur \in Nat, StartTeamVesting(u, i, dur)
  PROVE  VaultInv' /\ AllLive
<1> DEFINE p == proj[i]
           q == [p EXCEPT !.vs = topo, !.vd = dur]
<1>0. Proposed(i)
  BY DEF StartTeamVesting
<1>1. /\ TypeOK /\ p \in Projects /\ tok[i] \in Nat
      /\ Staged(p) /\ Escrowed(p, tok[i]) /\ Vested(p, topo)
      /\ Slot(i, "rv") = p.rv /\ Slot(i, "ab") = p.ab /\ Refundable(i) = RefundOf(p)
      /\ books \in BookTypes /\ xel \in 0..XelSupply /\ XelSupply \in Nat
      /\ Committed + books.pfe <= xel
  BY <1>0, AtProject
<1>2. /\ p.plan = 0 /\ p.vs = 0 /\ proj' = [proj EXCEPT ![i] = q]
      /\ UNCHANGED <<config, params, count, ticker, vote, moved, books, xel, tok, topo>>
  BY DEF StartTeamVesting, Unvested
<1>3. topo \in Nat /\ topo > 0
  BY <1>1, VaultConstants DEF TypeOK
<1>4. /\ q \in Projects /\ q.vs = topo /\ q.vd = dur /\ q.mg = p.mg
      /\ q.status = p.status /\ q.ah = p.ah /\ q.gr = p.gr /\ q.mi = p.mi /\ q.rc = p.rc
      /\ q.rv = p.rv /\ q.ab = p.ab /\ q.cs = p.cs /\ q.lq = p.lq /\ q.supply = p.supply
      /\ q.bps = p.bps /\ q.paid = p.paid /\ q.plan = p.plan
      /\ q.sp = p.sp /\ q.rp = p.rp /\ q.rd = p.rd /\ q.bv = p.bv
  BY <1>1, <1>3, ZenonT(60) DEF Projects
<1> HIDE DEF q
<1>5. Sound(q, tok[i], topo)
  BY <1>1, <1>2, <1>3, <1>4 DEF Sound, Staged, Escrowed, Vested, Team
<1>6. Lives(p, q)
  <2>1. p.bv \in Nat /\ p.paid \in Nat
    BY <1>1, ProjectTypes
  <2>. QED
    BY <1>2, <1>4, <2>1 DEF Lives, Path, Trusted, Graduating, Vests
<1>7. tok' = [tok EXCEPT ![i] = tok[i]] /\ Committed' = Committed /\ moved' \in Seq(Ids)
  BY <1>1, <1>2 DEF TypeOK, Committed
<1>8. /\ RefundOf(q) = RefundOf(p) /\ p.rv \in Nat /\ p.ab \in Nat /\ RefundOf(p) \in Nat
      /\ books.tcx \in Nat /\ books.lrf \in Nat /\ books.tbb \in Nat
  BY <1>1, <1>4, BookFields, ProjectTypes DEF RefundOf
<1>9. Books(i, q, tok[i])
  <2>1. /\ books'.tcx = books.tcx - Slot(i, "rv") + q.rv
        /\ books'.lrf = books.lrf - Refundable(i) + RefundOf(q)
        /\ books'.tbb = books.tbb - Slot(i, "ab") + q.ab
    BY <1>1, <1>2, <1>4, <1>8
  <2>. QED
    BY <1>1, <1>2, <1>4, <1>5, <1>7, <2>1 DEF Books
<1>. QED
  BY <1>0, <1>2, <1>4, <1>6, <1>7, <1>9, EntryLives

LEMMA StepClaimTeamAllocation ==
  ASSUME VaultInv, NEW u, NEW i \in Ids, ClaimTeamAllocation(u, i)
  PROVE  VaultInv' /\ AllLive
<1> DEFINE p == proj[i]
           due == TeamUnlocked(p, topo)
           b == [p EXCEPT !.paid = due]
           q == Valued(b)
           t == tok[i] - (due - p.paid)
<1>0. Proposed(i)
  BY DEF ClaimTeamAllocation
<1>1. /\ TypeOK /\ p \in Projects /\ tok[i] \in Nat
      /\ Staged(p) /\ Escrowed(p, tok[i]) /\ Vested(p, topo)
      /\ Slot(i, "rv") = p.rv /\ Slot(i, "ab") = p.ab /\ Refundable(i) = RefundOf(p)
      /\ books \in BookTypes /\ xel \in 0..XelSupply /\ XelSupply \in Nat
      /\ Committed + books.pfe <= xel
  BY <1>0, AtProject
<1>2. /\ p.rv \in Nat /\ p.ab \in Nat /\ p.paid \in Nat /\ Team(p) \in Nat /\ p.bv \in Nat
      /\ p.cs \in Nat /\ p.supply \in Nat
  BY <1>1, ProjectTypes
<1>3. due \in Nat /\ due <= Team(p)
  BY <1>1, <1>2, UnlockedBounds
<1>4. /\ due > p.paid /\ p.ah
      /\ proj' = [proj EXCEPT ![i] = q] /\ tok' = [tok EXCEPT ![i] = t]
      /\ UNCHANGED <<config, params, count, ticker, vote, moved, books, xel, topo>>
  <2>1. /\ p.paid + (due - p.paid) = due
        /\ due - p.paid > 0 => due > p.paid
    <3> HIDE DEF due, p
    <3>. QED
      BY <1>2, <1>3
  <2>2. [p EXCEPT !.paid = p.paid + (due - p.paid)] = b
    BY <2>1
  <2>3. /\ due - p.paid > 0 /\ p.ah /\ tok' = [tok EXCEPT ![i] = t]
        /\ proj' = [proj EXCEPT ![i] = Valued([p EXCEPT !.paid = p.paid + (due - p.paid)])]
        /\ UNCHANGED <<config, params, count, ticker, vote, moved, books, xel, topo>>
    BY <1>1 DEF ClaimTeamAllocation, TypeOK, Projects
  <2> HIDE DEF due, p
  <2>. QED
    BY <2>1, <2>2, <2>3
<1> HIDE DEF due
<1>5. t \in Nat /\ p.cs + (Team(p) - due) <= t /\ t <= p.supply
      /\ p.cs + (Team(p) - due) <= p.supply
  BY <1>1, <1>2, <1>3, <1>4 DEF Escrowed
<1> HIDE DEF t
<1>6. /\ b \in Projects /\ b.paid = due /\ b.rv = p.rv /\ b.cs = p.cs /\ b.tc = p.tc
      /\ b.bv = p.bv /\ b.mg = p.mg
      /\ b.status = p.status /\ b.ah = p.ah /\ b.gr = p.gr /\ b.mi = p.mi /\ b.rc = p.rc
      /\ b.ab = p.ab /\ b.lq = p.lq /\ b.supply = p.supply
      /\ b.bps = p.bps /\ b.vs = p.vs /\ b.vd = p.vd /\ b.plan = p.plan
      /\ b.sp = p.sp /\ b.rp = p.rp /\ b.rd = p.rd
  BY <1>1, <1>3 DEF Projects
<1> HIDE DEF b
<1>7. Escrowed(b, t)
  BY <1>3, <1>4, <1>5, <1>6 DEF Escrowed, Team
<1>8. Staged(b) /\ Vested(b, topo)
  BY <1>1, <1>4, <1>6 DEF Staged, Vested
<1>9. q \in Projects /\ Alike(b, q) /\ q.mg = b.mg
  BY <1>6, <1>7, ValuedAlike
<1> HIDE DEF q
<1>10. Sound(q, t, topo)
  BY <1>6, <1>7, <1>8, <1>9, AlikeSound DEF Sound
<1>11. /\ q.rv = p.rv /\ q.status = p.status /\ q.gr = p.gr /\ q.mi = p.mi /\ q.rc = p.rc
       /\ q.ab = p.ab /\ q.lq = p.lq /\ q.sp = p.sp /\ q.rp = p.rp /\ q.rd = p.rd
       /\ q.bv = p.bv /\ q.mg = p.mg /\ q.vs = p.vs /\ q.vd = p.vd /\ q.paid = due
  BY <1>6, <1>9, AlikeFields
<1>12. Vests(p, q)
  <2>1. p.vs > 0 => due * p.vd <= Team(p) * (topo - p.vs)
    BY <1>1, UnlockedBounds DEF due
  <2>2. p.gr /\ p.plan > 0 => p.vs > 0 /\ p.vd = p.plan
    BY <1>1 DEF Vested
  <2>3. ASSUME ~p.gr, p.vs = 0
        PROVE  p.bt > 0 /\ topo >= p.bt + Low.delay
    <3>1. LateClaim(p, topo)
      BY <1>2, <1>4, <2>3 DEF due, TeamUnlocked
    <3>2. "delay" \in Names
      BY DEF Names
    <3>3. params.delay \in Nat /\ Low.delay \in Nat /\ Low.delay <= params.delay
      BY <1>1, <3>2, ParamBounds, VaultConstants
    <3>4. p.bt \in Nat /\ topo \in Nat
      BY <1>1, ProjectTypes DEF TypeOK
    <3>. QED
      BY <3>1, <3>3, <3>4 DEF LateClaim
  <2>. QED
    BY <1>11, <2>1, <2>2, <2>3 DEF Vests
<1>13. Lives(p, q)
  BY <1>2, <1>11, <1>12 DEF Lives, Path, Trusted, Graduating
<1>14. /\ books.tcx \in Nat /\ books.lrf \in Nat /\ books.tbb \in Nat
       /\ RefundOf(q) = RefundOf(p) /\ RefundOf(p) \in Nat
       /\ Committed' = Committed /\ moved' \in Seq(Ids)
  BY <1>1, <1>4, <1>11, BookFields, ProjectTypes DEF RefundOf, Committed, TypeOK
<1>15. Books(i, q, t)
  <2>1. /\ books'.tcx = books.tcx - Slot(i, "rv") + q.rv
        /\ books'.lrf = books.lrf - Refundable(i) + RefundOf(q)
        /\ books'.tbb = books.tbb - Slot(i, "ab") + q.ab
    <3>1. books' = books
      BY <1>4
    <3>2. /\ Slot(i, "rv") = q.rv /\ Refundable(i) = RefundOf(q) /\ Slot(i, "ab") = q.ab
          /\ q.rv \in Nat /\ RefundOf(q) \in Nat /\ q.ab \in Nat
      BY <1>1, <1>2, <1>11, <1>14
    <3>3. books.tcx \in Nat /\ books.lrf \in Nat /\ books.tbb \in Nat
      BY <1>1, BookFields
    <3>4. \A a, m \in Nat : a = a - m + m
      OBVIOUS
    <3>. QED
      BY <3>1, <3>2, <3>3, <3>4
  <2>. QED
    BY <1>1, <1>4, <1>5, <1>9, <1>10, <1>14, <2>1 DEF Books
<1>. QED
  BY <1>0, <1>4, <1>11, <1>13, <1>14, <1>15, EntryLives
-----------------------------------------------------------------------------
(* Buys, and the graduation they may bring.                                *)

LEMMA BuyBounds ==
  ASSUME VaultInv, NEW i \in Ids, Proposed(i), NEW dep \in Nat,
         proj[i].rv > 0, proj[i].cs > 0
  PROVE  LET fee == FeeTake(dep, TradingFee(proj[i]))
             out == BuyOut(proj[i], dep - fee)
         IN  fee \in 0..dep /\ out \in Nat /\ out < proj[i].cs
<1> DEFINE p == proj[i]
           fee == FeeTake(dep, TradingFee(p))
<1>1. TypeOK /\ p \in Projects
  BY AtProject
<1>2. p.rv \in Nat \ {0} /\ p.cs \in Nat \ {0}
  BY <1>1, ProjectTypes
<1>3. fee \in 0..dep
  BY <1>1, FeeBounds, TradingFeeBounds
<1>4. dep - fee \in Nat
  BY <1>3
<1> HIDE DEF fee
<1>5. BuyOut(p, dep - fee) \in Nat /\ BuyOut(p, dep - fee) < p.cs
  BY <1>2, <1>4, OutBounds DEF BuyOut
<1>. QED
  BY <1>3, <1>5 DEF fee

\* A buy that leaves the project as trusted and as ungraduated as it was.
LEMMA PlainBuyLives ==
  ASSUME TypeOK, NEW p \in Projects, NEW q \in Projects, p.status \in Buying,
         q.status = p.status, q.gr = p.gr, q.mi = p.mi, q.sp = p.sp, q.rp = p.rp,
         q.lq = p.lq, q.mg = p.mg, q.vs = p.vs, q.vd = p.vd, q.paid = p.paid,
         p.status = BONDING => q.rv < p.lq * params.mult
  PROVE  Lives(p, q)
<1>1. p.status \notin Voting
  BY DEF Buying, Voting, BONDING, GRADUATED, TRUSTED, VALIDATION, RECOVERY
<1>2. p.paid \in Nat
  BY ProjectTypes
<1>3. Path(p, q) /\ Vests(p, q)
  BY <1>2 DEF Path, Vests
<1>4. Trusted(p, q)
  BY <1>1 DEF Trusted
<1>5. Graduating(p, q)
  BY DEF Graduating
<1>. QED
  BY <1>3, <1>4, <1>5 DEF Lives

\* A buy that takes a bonding project to its threshold.
LEMMA GraduatingBuyLives ==
  ASSUME TypeOK, NEW p \in Projects, NEW q \in Projects, p.status = BONDING, ~p.gr,
         Vested(p, topo), NEW dep \in Nat \ {0},
         LET grown == p.rv + dep - FeeTake(dep, params.tradeFee)
         IN  /\ grown >= p.lq * params.mult
             /\ q.rv = grown - FeeTake(grown, params.migFee),
         q.bv = p.bv + dep, q.status = GRADUATED, q.gr, q.mg = q.mc, ~p.mi, q.sp = p.sp,
         q.rp = p.rp, q.paid = p.paid,
         q.vs = (IF p.plan > 0 THEN topo ELSE p.vs),
         q.vd = (IF p.plan > 0 THEN p.plan ELSE p.vd)
  PROVE  Lives(p, q)
<1>1. BONDING # GRADUATED /\ BONDING \notin Voting
  BY DEF Voting, BONDING, GRADUATED, VALIDATION, RECOVERY
<1>2. p.paid \in Nat /\ p.bv \in Nat /\ p.gr = FALSE /\ q.gr = TRUE /\ p.plan \in Nat
  BY ProjectTypes
<1>3. q.bv > p.bv /\ q.bv - p.bv = dep
  BY <1>2
<1>4. Path(p, q)
  BY <1>2, <1>3 DEF Path
<1>5. Trusted(p, q)
  BY <1>1 DEF Trusted
<1>6. Graduating(p, q)
  BY <1>1, <1>2, <1>3 DEF Graduating
<1>7. Vests(p, q)
  BY <1>2 DEF Vests, Vested
<1>. QED
  BY <1>4, <1>5, <1>6, <1>7 DEF Lives

LEMMA StepBuy ==
  ASSUME VaultInv, NEW i \in Ids, NEW dep \in Nat, Buy(i, dep)
  PROVE  VaultInv' /\ AllLive
<1> DEFINE p == proj[i]
           fee == FeeTake(dep, TradingFee(p))
           net == dep - fee
           out == BuyOut(p, net)
           rv == p.rv + net
           cs == p.cs - out
           bv == p.bv + dep
           vo == p.vo + dep
           tc == p.tc + 1
           b == [p EXCEPT !.rv = rv, !.cs = cs, !.bv = bv, !.vo = vo, !.tc = tc]
           mfee == MigrationFee(b)
           t == tok[i] - out
           booked == [books EXCEPT !.tbv = @ + dep, !.tvl = @ + dep, !.ttc = @ + 1,
                                   !.tcx = @ + net, !.pfe = @ + fee]
<1>0. Proposed(i)
  BY DEF Buy
<1>1. /\ TypeOK /\ p \in Projects /\ tok[i] \in Nat
      /\ Staged(p) /\ Escrowed(p, tok[i]) /\ Vested(p, topo)
      /\ Slot(i, "rv") = p.rv /\ Slot(i, "ab") = p.ab /\ Refundable(i) = RefundOf(p)
      /\ books \in BookTypes /\ xel \in 0..XelSupply /\ XelSupply \in Nat
      /\ p.rv <= books.tcx /\ Committed + books.pfe <= xel
  BY <1>0, AtProject
<1>2. [BuyRecorded(books, dep) EXCEPT !.tcx = @ + net, !.pfe = @ + fee] = booked
  <2>1. BuyRecorded(books, dep)
          = [books EXCEPT !.tbv = @ + dep, !.tvl = @ + dep, !.ttc = @ + 1]
    BY DEF BuyRecorded
  <2> HIDE DEF p, net, fee
  <2>. QED
    BY <1>1, <2>1 DEF BookTypes
<1>3. [p EXCEPT !.rv = @ + net, !.cs = @ - out, !.bv = @ + dep, !.vo = @ + dep, !.tc = @ + 1] = b
  <2> HIDE DEF p, net, out
  <2>. QED
    BY <1>1 DEF Projects
<1>4. /\ p.status \in Buying /\ ~p.mi /\ dep <= XelSupply - xel
      /\ dep >= MIN_BUY_XEL /\ p.rv > 0 /\ p.cs > 0 /\ p.ah /\ out <= tok[i]
      /\ IF Graduates(b)
         THEN /\ proj' = [proj EXCEPT ![i] = Graduated(b)]
              /\ books' = FeeMoved(booked, mfee)
         ELSE /\ proj' = [proj EXCEPT ![i] = Valued(b)]
              /\ books' = booked
      /\ xel' = xel + dep
      /\ UNCHANGED <<config, params, count, ticker, vote, moved, topo>>
  BY <1>2, <1>3 DEF Buy, BuyGate, XelOutside
<1>5. tok' = [tok EXCEPT ![i] = t]
  BY <1>1 DEF Buy, TypeOK
<1>6. fee \in 0..dep /\ out \in Nat /\ out < p.cs
  BY <1>0, <1>4, BuyBounds
<1>7. dep > 0
  BY <1>4, VaultConstants
<1>8. net \in Nat
  BY <1>6
<1>9. ~p.gr => fee = FeeTake(dep, params.tradeFee)
  BY DEF TradingFee
<1> HIDE DEF fee, out
<1>10. /\ p.rv \in Nat /\ p.cs \in Nat /\ p.bv \in Nat /\ p.vo \in Nat /\ p.tc \in Nat
       /\ p.ab \in Nat /\ p.supply \in Nat /\ p.paid \in Nat /\ Team(p) \in Nat
       /\ p.lq \in Nat /\ p.supply \in 1..MAX_TOTAL_SUPPLY /\ p.lq > 0
  BY <1>1, ProjectTypes DEF Staged
<1> DEFINE n == net
<1>11. /\ rv \in Nat /\ rv > 0 /\ cs \in Nat /\ cs > 0 /\ bv \in Nat /\ vo \in Nat /\ tc \in Nat
       /\ t \in Nat
  <2> HIDE DEF net
  <2>. QED
    BY <1>1, <1>4, <1>6, <1>8, <1>10
<1>12. cs + (Team(p) - p.paid) <= t /\ t <= p.supply /\ cs + (Team(p) - p.paid) <= p.supply
  BY <1>1, <1>4, <1>6, <1>10 DEF Escrowed
<1> HIDE DEF rv, cs, bv, vo, tc, t, net
<1>13. /\ b \in Projects /\ b.rv = rv /\ b.cs = cs /\ b.bv = bv /\ b.tc = tc /\ b.mg = p.mg
       /\ b.status = p.status /\ b.ah = p.ah /\ b.gr = p.gr /\ b.mi = p.mi /\ b.rc = p.rc
       /\ b.ab = p.ab /\ b.lq = p.lq /\ b.supply = p.supply
       /\ b.bps = p.bps /\ b.paid = p.paid /\ b.vs = p.vs /\ b.vd = p.vd /\ b.plan = p.plan
       /\ b.sp = p.sp /\ b.rp = p.rp /\ b.rd = p.rd
  BY <1>1, <1>11, ZenonT(60) DEF Projects
<1> HIDE DEF b
<1>14. Escrowed(b, t)
  BY <1>1, <1>4, <1>12, <1>13 DEF Escrowed, Team
<1>15. Staged(b) /\ Vested(b, topo)
  BY <1>1, <1>4, <1>11, <1>13 DEF Staged, Vested, Selling, Buying, VALIDATION, REJECTED,
       BONDING, GRADUATED, TRUSTED, UNTRUSTED, RECOVERY
<1>16. ~p.rc /\ RefundOf(p) = 0
  BY <1>1, <1>4 DEF Staged, RefundOf, Buying, REJECTED, BONDING, GRADUATED, TRUSTED
<1>17. /\ booked \in BookTypes /\ booked.tcx = books.tcx + net /\ booked.lrf = books.lrf
       /\ booked.tbb = books.tbb /\ booked.tvp = books.tvp /\ booked.pfe = books.pfe + fee
  <2>1. /\ books.tcx + net \in Nat /\ books.pfe + fee \in Nat
        /\ books.tbv + dep \in Nat /\ books.tvl + dep \in Nat /\ books.ttc + 1 \in Nat
    BY <1>1, <1>6, <1>8, BookFields
  <2>. QED
    BY <1>1, <2>1 DEF BookTypes
<1> HIDE DEF booked
<1>18. moved' \in Seq(Ids) /\ xel' \in 0..XelSupply
  BY <1>1, <1>4 DEF TypeOK
<1>19. /\ books.tcx \in Nat /\ books.lrf \in Nat /\ books.tbb \in Nat /\ books.tvp \in Nat
       /\ books.pfe \in Nat
  BY <1>1, BookFields
<1>20. net + fee = dep
  BY <1>6, <1>8 DEF net
<1>21. CASE Graduates(b)
  <2> DEFINE q == Graduated(b)
  <2>0. p.status = BONDING /\ ~p.gr /\ b.rv >= b.lq * params.mult
    BY <1>1, <1>13, <1>21 DEF Graduates, Staged
  <2>1. /\ q \in Projects /\ Sound(q, t, topo) /\ mfee \in 0..b.rv
        /\ q.rv = b.rv - mfee /\ q.status = GRADUATED /\ q.gr /\ q.mg = q.mc /\ ~q.mi /\ ~q.rc
        /\ q.ab = b.ab /\ q.lq = b.lq /\ q.paid = b.paid
        /\ q.sp = b.sp /\ q.rp = b.rp /\ q.rd = b.rd /\ q.bv = b.bv
        /\ q.vs = (IF b.plan > 0 THEN topo ELSE b.vs)
        /\ q.vd = (IF b.plan > 0 THEN b.plan ELSE b.vd)
    BY <1>1, <1>4, <1>10, <1>11, <1>13, <1>14, <1>15, <1>16, <2>0, GraduatedSound
  <2>2. mfee = FeeTake(rv, params.migFee)
    BY <1>13 DEF MigrationFee
  <2> HIDE DEF q, mfee
  <2>3. proj' = [proj EXCEPT ![i] = q] /\ books' = FeeMoved(booked, mfee)
    BY <1>4, <1>21 DEF q, mfee
  <2>4. rv = p.rv + dep - FeeTake(dep, params.tradeFee)
    BY <1>6, <1>9, <1>10, <2>0 DEF rv, net
  <2>5. Lives(p, q)
    <3>1. dep \in Nat \ {0} /\ bv = p.bv + dep
      BY <1>7 DEF bv
    <3>. QED
      BY <1>1, <1>4, <1>13, <2>0, <2>1, <2>2, <2>4, <3>1, GraduatingBuyLives
  <2>6. /\ books' \in BookTypes /\ books'.tcx = booked.tcx - mfee /\ books'.lrf = booked.lrf
        /\ books'.tbb = booked.tbb /\ books'.tvp = booked.tvp /\ books'.pfe = booked.pfe + mfee
    <3>1. booked.tcx - mfee \in Nat /\ booked.pfe + mfee \in Nat
      BY <1>1, <1>8, <1>10, <1>13, <1>17, <1>19, <2>1, BookFields DEF rv
    <3>. QED
      BY <1>17, <2>3, <3>1 DEF BookTypes, FeeMoved
  <2>7. Committed' + books'.pfe <= xel'
    BY <1>1, <1>4, <1>6, <1>8, <1>11, <1>13, <1>17, <1>19, <1>20, <2>1, <2>6 DEF Committed
  <2>8. RefundOf(q) = 0
    BY <2>1 DEF RefundOf, GRADUATED, REJECTED
  <2>9. Books(i, q, t)
    <3>1. /\ books'.tcx = books.tcx - Slot(i, "rv") + q.rv
          /\ books'.lrf = books.lrf - Refundable(i) + RefundOf(q)
          /\ books'.tbb = books.tbb - Slot(i, "ab") + q.ab
      <4>1. rv = p.rv + net
        BY DEF rv
      <4> HIDE DEF p
      <4>. QED
        BY <1>1, <1>8, <1>10, <1>11, <1>13, <1>16, <1>17, <1>19, <2>1, <2>6, <2>8, <4>1
    <3>. QED
      BY <1>5, <1>11, <1>18, <2>1, <2>3, <2>6, <2>7, <3>1 DEF Books
  <2>10. books'.tvp = books.tvp
    BY <1>17, <2>6
  <2>. QED
    BY <1>0, <1>4, <1>13, <1>18, <2>1, <2>5, <2>9, <2>10, EntryLives
<1>22. CASE ~Graduates(b)
  <2> DEFINE q == Valued(b)
  <2>1. q \in Projects /\ Alike(b, q) /\ q.mg = b.mg
    BY <1>13, <1>14, ValuedAlike
  <2> HIDE DEF q
  <2>2. Sound(q, t, topo)
    BY <1>13, <1>14, <1>15, <2>1, AlikeSound DEF Sound
  <2>3. proj' = [proj EXCEPT ![i] = q] /\ books' = booked
    BY <1>4, <1>22 DEF q
  <2>4. /\ q.rv = b.rv /\ q.status = b.status /\ q.gr = b.gr /\ q.mi = b.mi /\ q.rc = b.rc
        /\ q.ab = b.ab /\ q.lq = b.lq /\ q.sp = b.sp /\ q.rp = b.rp /\ q.rd = b.rd
        /\ q.vs = b.vs /\ q.vd = b.vd /\ q.paid = b.paid
    BY <1>13, <2>1, AlikeFields
  <2>5. p.status = BONDING => q.rv < p.lq * params.mult
    <3>1. "mult" \in Names
      BY DEF Names
    <3>2. params.mult \in Nat
      BY <1>1, <3>1, ParamBounds
    <3>3. p.lq * params.mult \in Nat
      BY <1>10, <3>2
    <3>. QED
      BY <1>11, <1>13, <1>22, <2>4, <3>3 DEF Graduates
  <2>6. Lives(p, q)
    BY <1>1, <1>4, <1>13, <2>1, <2>4, <2>5, PlainBuyLives
  <2>7. Committed' + books'.pfe <= xel'
    BY <1>1, <1>4, <1>6, <1>8, <1>17, <1>19, <1>20, <2>3 DEF Committed
  <2>8. RefundOf(q) = 0
    BY <1>13, <1>16, <2>4 DEF RefundOf
  <2>9. Books(i, q, t)
    <3>1. /\ books'.tcx = books.tcx - Slot(i, "rv") + q.rv
          /\ books'.lrf = books.lrf - Refundable(i) + RefundOf(q)
          /\ books'.tbb = books.tbb - Slot(i, "ab") + q.ab
      <4>1. rv = p.rv + net
        BY DEF rv
      <4> HIDE DEF p
      <4>. QED
        BY <1>1, <1>8, <1>10, <1>11, <1>13, <1>16, <1>17, <1>19, <2>3, <2>4, <2>8, <4>1
    <3>. QED
      BY <1>5, <1>11, <1>17, <1>18, <2>1, <2>2, <2>3, <2>7, <3>1 DEF Books
  <2>10. books'.tvp = books.tvp
    BY <1>17, <2>3
  <2>. QED
    BY <1>0, <1>4, <1>13, <1>18, <2>4, <2>6, <2>9, <2>10, EntryLives
<1>. QED
  BY <1>21, <1>22
-----------------------------------------------------------------------------
(* The move to the DEX.                                                    *)

LEMMA StepMigrate ==
  ASSUME VaultInv, NEW i \in Ids, Migrate(i)
  PROVE  VaultInv' /\ AllLive
<1> DEFINE p == proj[i]
           dsy == (p.status = UNTRUSTED)
           b == [p EXCEPT !.mi = TRUE, !.mx = p.rv, !.mt = p.cs, !.rv = 0, !.cs = 0, !.dsy = dsy]
           q == Valued(b)
           t == tok[i] - p.cs
<1>0. Proposed(i) /\ MigrateAccepted(i)
  BY DEF Migrate, MigrateAccepted
<1>1. /\ TypeOK /\ p \in Projects /\ tok[i] \in Nat
      /\ Staged(p) /\ Escrowed(p, tok[i]) /\ Vested(p, topo)
      /\ Slot(i, "rv") = p.rv /\ Slot(i, "ab") = p.ab /\ Refundable(i) = RefundOf(p)
      /\ books \in BookTypes /\ xel \in 0..XelSupply /\ XelSupply \in Nat
      /\ p.rv <= books.tcx /\ Committed + books.pfe <= xel
  BY <1>0, AtProject
<1>2. /\ p.rv \in Nat /\ p.ab \in Nat /\ p.paid \in Nat /\ Team(p) \in Nat /\ p.bv \in Nat
      /\ p.cs \in Nat /\ p.supply \in Nat
  BY <1>1, ProjectTypes
<1>3. /\ p.gr /\ ~p.mi /\ p.ah
      /\ proj' = [proj EXCEPT ![i] = q] /\ tok' = [tok EXCEPT ![i] = t]
      /\ moved' = Append(moved, i)
      /\ books' = [books EXCEPT !.tcx = @ - p.rv] /\ xel' = xel - p.rv
      /\ UNCHANGED <<config, params, count, ticker, vote, topo>>
  <2>1. Closed(p) = q
    BY DEF Closed, Seed
  <2>2. tok' = [tok EXCEPT ![i] = t]
    BY <1>1 DEF Migrate, Seed, TypeOK
  <2> HIDE DEF q, t
  <2>. QED
    BY <1>0, <2>1, <2>2 DEF Migrate, MigrateAccepted, Seed
<1>4. t \in Nat /\ Team(p) - p.paid <= t /\ t <= p.supply /\ Team(p) - p.paid <= p.supply
  <2>1. /\ p.paid <= Team(p) /\ p.cs + (Team(p) - p.paid) <= tok[i] /\ tok[i] <= p.supply
        /\ p.cs + (Team(p) - p.paid) <= p.supply
    BY <1>1, <1>3 DEF Escrowed
  <2> HIDE DEF p
  <2>. QED
    BY <1>1, <1>2, <2>1
<1> HIDE DEF t
<1>5. dsy \in BOOLEAN
  OBVIOUS
<1> HIDE DEF dsy
<1>6. /\ b \in Projects /\ b.mi = TRUE /\ b.rv = 0 /\ b.cs = 0 /\ b.paid = p.paid
      /\ b.bv = p.bv /\ b.mg = p.mg
      /\ b.status = p.status /\ b.ah = p.ah /\ b.gr = p.gr /\ b.rc = p.rc
      /\ b.ab = p.ab /\ b.lq = p.lq /\ b.supply = p.supply
      /\ b.bps = p.bps /\ b.vs = p.vs /\ b.vd = p.vd /\ b.plan = p.plan
      /\ b.sp = p.sp /\ b.rp = p.rp /\ b.rd = p.rd
  BY <1>1, <1>2, <1>5, ZenonT(60) DEF Projects
<1> HIDE DEF b
<1>7. Escrowed(b, t)
  <2>1. Team(b) = Team(p)
    BY <1>6 DEF Team
  <2>2. /\ b.cs = 0 /\ b.paid = p.paid /\ b.supply = p.supply /\ p.paid <= Team(p)
        /\ b.ah = p.ah /\ p.ah
    BY <1>1, <1>3, <1>6 DEF Escrowed
  <2>3. Team(p) - p.paid \in Nat
    BY <1>2, <2>2
  <2>. QED
    BY <1>4, <2>1, <2>2, <2>3 DEF Escrowed
<1>8. Staged(b) /\ Vested(b, topo)
  BY <1>1, <1>3, <1>6 DEF Staged, Vested, Selling, Buying, VALIDATION, REJECTED,
       BONDING, GRADUATED, TRUSTED, UNTRUSTED, RECOVERY
<1>9. q \in Projects /\ Alike(b, q) /\ q.mg = b.mg
  BY <1>6, <1>7, ValuedAlike
<1> HIDE DEF q
<1>10. Sound(q, t, topo)
  BY <1>6, <1>7, <1>8, <1>9, AlikeSound DEF Sound
<1>11. /\ q.rv = 0 /\ q.status = p.status /\ q.gr = p.gr /\ q.mi = TRUE /\ q.rc = p.rc
       /\ q.ab = p.ab /\ q.lq = p.lq /\ q.sp = p.sp /\ q.rp = p.rp /\ q.rd = p.rd
       /\ q.bv = p.bv /\ q.mg = p.mg /\ q.vs = p.vs /\ q.vd = p.vd /\ q.paid = p.paid
  BY <1>6, <1>9, AlikeFields
<1>12. Lives(p, q)
  BY <1>1, <1>9, <1>11, QuietLives DEF Quiet
<1>13. /\ books.tcx \in Nat /\ books.lrf \in Nat /\ books.tbb \in Nat /\ books.tvp \in Nat
       /\ books.pfe \in Nat /\ RefundOf(q) = RefundOf(p) /\ RefundOf(p) \in Nat
  BY <1>1, <1>11, BookFields, ProjectTypes DEF RefundOf
<1>14. /\ books' \in BookTypes /\ books'.tcx = books.tcx - p.rv /\ books'.lrf = books.lrf
       /\ books'.tbb = books.tbb /\ books'.tvp = books.tvp /\ books'.pfe = books.pfe
  <2>1. books.tcx - p.rv \in Nat
    BY <1>1, <1>2, <1>13
  <2>. QED
    BY <1>1, <1>3, <2>1 DEF BookTypes
<1>15. xel' \in 0..XelSupply /\ Committed' + books'.pfe <= xel'
  <2>1. xel' = xel - p.rv /\ p.rv \in Nat
    BY <1>2, <1>3
  <2>2. Committed' + books'.pfe = Committed + books.pfe - p.rv /\ p.rv <= Committed
    <3> HIDE DEF p
    <3>. QED
      BY <1>1, <1>13, <1>14, <2>1 DEF Committed
  <2>3. Committed \in Nat /\ books.pfe \in Nat
    BY <1>13 DEF Committed
  <2> HIDE DEF p
  <2>. QED
    BY <1>1, <2>1, <2>2, <2>3
<1>16. moved' \in Seq(Ids)
  BY <1>1, <1>3 DEF TypeOK
<1>17. Books(i, q, t)
  <2>1. /\ books'.tcx = books.tcx - Slot(i, "rv") + q.rv
        /\ books'.lrf = books.lrf - Refundable(i) + RefundOf(q)
        /\ books'.tbb = books.tbb - Slot(i, "ab") + q.ab
    BY <1>1, <1>2, <1>11, <1>13, <1>14
  <2>. QED
    BY <1>3, <1>4, <1>9, <1>10, <1>14, <1>15, <2>1 DEF Books
<1>. QED
  BY <1>0, <1>3, <1>11, <1>12, <1>14, <1>16, <1>17, EntryLives
-----------------------------------------------------------------------------
(* The end of a voting window.                                             *)

LEMMA BarBounds ==
  ASSUME TypeOK
  PROVE  /\ params.approval \in Nat /\ 2 * params.approval > BPS_DENOM
         /\ params.recRatio \in Nat /\ 2 * params.recRatio > BPS_DENOM
         /\ params.minPart \in Nat \ {0} /\ params.recPart \in Nat
         /\ BPS_DENOM \in Nat \ {0}
<1>1. {"approval", "recRatio", "minPart", "recPart"} \subseteq Names
  BY DEF Names
<1>2. \A f \in {"approval", "recRatio", "minPart", "recPart"} :
        Low[f] \in Nat /\ params[f] \in Nat /\ params[f] >= Low[f]
  BY <1>1, ParamBounds, VaultConstants
<1>3. /\ 2 * Low.approval > BPS_DENOM /\ 2 * Low.recRatio > BPS_DENOM
      /\ Low.minPart > 0 /\ BPS_DENOM \in Nat \ {0}
  BY VaultConstants
<1>. QED
  BY <1>2, <1>3

\* Two majorities of one poll are not possible.
LEMMA OneMajority ==
  ASSUME NEW a \in Nat, NEW b \in Nat, NEW d \in Nat \ {0}, NEW x \in Nat, NEW y \in Nat,
         2 * x > d, 2 * y > d, a + b > 0, a * d >= x * (a + b), b * d >= y * (a + b)
  PROVE  FALSE
<1> DEFINE s == a + b
<1>1. s \in Nat /\ s > 0
  OBVIOUS
<1>2. a * d + b * d = s * d
  OBVIOUS
<1> HIDE DEF s
<1>3. s * (x + y) >= s * (d + 1)
  BY <1>1, MulMono
<1>4. s * (x + y) = x * s + y * s /\ s * (d + 1) = s * d + s
  BY <1>1
<1>5. a * d >= x * s /\ b * d >= y * s
  BY DEF s
<1>6. /\ a * d \in Nat /\ b * d \in Nat /\ s * d \in Nat /\ x * s \in Nat /\ y * s \in Nat
      /\ s * (x + y) \in Nat /\ s * (d + 1) \in Nat
  BY <1>1
<1>. QED
  BY <1>1, <1>2, <1>3, <1>4, <1>5, <1>6

LEMMA SupportedIsTrusted ==
  ASSUME TypeOK, NEW p \in Projects, NEW quorum, NEW ratio \in Nat, 2 * ratio > BPS_DENOM,
         Reaches(p.sp, p, quorum, ratio)
  PROVE  ~Distrusted(p)
<1> SUFFICES ASSUME Distrusted(p) PROVE FALSE
  OBVIOUS
<1>1. p.sp \in Nat /\ p.rp \in Nat
  BY ProjectTypes
<1>2. p.sp * BPS_DENOM >= ratio * (p.sp + p.rp)
  BY DEF Reaches
<1>3. p.rp * BPS_DENOM >= params.approval * (p.sp + p.rp) /\ p.sp + p.rp >= params.minPart
  BY DEF Distrusted, Reaches
<1>4. p.sp + p.rp > 0
  BY <1>1, <1>3, BarBounds
<1>. QED
  BY <1>1, <1>2, <1>3, <1>4, BarBounds, OneMajority

LEMMA DistrustedMajority ==
  ASSUME TypeOK, NEW p \in Projects, Distrusted(p)
  PROVE  2 * p.rp > p.sp + p.rp
<1> DEFINE s == p.sp + p.rp
           y == params.approval
<1>1. p.sp \in Nat /\ p.rp \in Nat /\ s \in Nat
  BY ProjectTypes
<1>2. p.rp * BPS_DENOM >= y * s /\ s >= params.minPart
  BY DEF Distrusted, Reaches
<1>3. s > 0 /\ y \in Nat /\ 2 * y > BPS_DENOM /\ BPS_DENOM \in Nat
  BY <1>1, <1>2, BarBounds
<1> SUFFICES ASSUME 2 * p.rp <= s PROVE FALSE
  BY <1>1
<1> HIDE DEF s, y
<1>4. BPS_DENOM * (2 * p.rp) <= BPS_DENOM * s
  BY <1>1, <1>3, MulMono
<1>5. s * (BPS_DENOM + 1) <= s * (2 * y)
  BY <1>1, <1>3, MulMono
<1>6. /\ BPS_DENOM * (2 * p.rp) = 2 * (p.rp * BPS_DENOM)
      /\ s * (2 * y) = 2 * (y * s) /\ s * (BPS_DENOM + 1) = BPS_DENOM * s + s
  BY <1>1, <1>3
<1>7. p.rp * BPS_DENOM \in Nat /\ y * s \in Nat /\ BPS_DENOM * s \in Nat
  BY <1>1, <1>3
<1>. QED
  BY <1>1, <1>2, <1>3, <1>4, <1>5, <1>6, <1>7

LEMMA StepReject ==
  ASSUME VaultInv, NEW i \in Ids, NEW topup \in Nat, Proposed(i), topo >= proj[i].ve,
         topup <= XelOutside, Reject(i, topup),
         UNCHANGED <<config, params, count, ticker, vote, moved, topo>>
  PROVE  VaultInv' /\ AllLive
<1> DEFINE p == proj[i]
           q == [p EXCEPT !.status = REJECTED, !.rv = 0]
<1>1. /\ TypeOK /\ p \in Projects /\ tok[i] \in Nat
      /\ Staged(p) /\ Escrowed(p, tok[i]) /\ Vested(p, topo)
      /\ Slot(i, "rv") = p.rv /\ Slot(i, "ab") = p.ab /\ Refundable(i) = RefundOf(p)
      /\ books \in BookTypes /\ xel \in 0..XelSupply /\ XelSupply \in Nat
      /\ Committed + books.pfe <= xel
  BY AtProject
<1>2. /\ p.status = VALIDATION /\ p.lq <= books.tcx /\ proj' = [proj EXCEPT ![i] = q]
      /\ books' = [books EXCEPT !.lrf = @ + p.lq, !.tcx = @ - p.lq]
      /\ xel' = xel + topup /\ tok' = tok
  BY DEF Reject, SeedReleased
<1>3. /\ q \in Projects /\ q.status = REJECTED /\ q.rv = 0 /\ q.mg = p.mg
      /\ q.ah = p.ah /\ q.gr = p.gr /\ q.mi = p.mi /\ q.rc = p.rc
      /\ q.ab = p.ab /\ q.cs = p.cs /\ q.lq = p.lq /\ q.supply = p.supply
      /\ q.bps = p.bps /\ q.paid = p.paid /\ q.vs = p.vs /\ q.vd = p.vd /\ q.plan = p.plan
      /\ q.sp = p.sp /\ q.rp = p.rp /\ q.rd = p.rd /\ q.bv = p.bv
  BY <1>1, ZenonT(60) DEF Projects
<1> HIDE DEF q
<1>4. p.rv = p.lq /\ ~p.rc /\ ~p.ah
  BY <1>1, <1>2 DEF Staged, Selling, Buying, VALIDATION, REJECTED,
       BONDING, GRADUATED, TRUSTED, UNTRUSTED, RECOVERY
<1>5. Sound(q, tok[i], topo)
  BY <1>1, <1>3, <1>4 DEF Sound, Staged, Escrowed, Vested, Team, REJECTED, VALIDATION, BONDING
<1>6. Lives(p, q)
  <2>1. p.bv \in Nat /\ p.paid \in Nat
    BY <1>1, ProjectTypes
  <2>2. q.status \notin Buying
    BY <1>3 DEF Buying, REJECTED, BONDING, GRADUATED, TRUSTED
  <2>. QED
    BY <1>2, <1>3, <1>4, <2>1, <2>2 DEF Lives, Path, Trusted, Graduating, Vests
<1>7. RefundOf(p) = 0 /\ RefundOf(q) = p.lq
  BY <1>2, <1>3, <1>4 DEF RefundOf, VALIDATION, REJECTED
<1>8. /\ p.lq \in Nat /\ p.ab \in Nat /\ books.tcx \in Nat /\ books.lrf \in Nat
      /\ books.tbb \in Nat /\ books.tvp \in Nat /\ books.pfe \in Nat
  BY <1>1, BookFields, ProjectTypes
<1>9. /\ books' \in BookTypes /\ books'.lrf = books.lrf + p.lq /\ books'.tcx = books.tcx - p.lq
      /\ books'.tbb = books.tbb /\ books'.tvp = books.tvp /\ books'.pfe = books.pfe
  <2>1. books.lrf + p.lq \in Nat /\ books.tcx - p.lq \in Nat
    BY <1>2, <1>8
  <2>. QED
    BY <1>1, <1>2, <2>1 DEF BookTypes
<1>10. xel' \in 0..XelSupply /\ Committed' + books'.pfe <= xel'
  BY <1>1, <1>2, <1>8, <1>9 DEF Committed, XelOutside
<1>11. tok' = [tok EXCEPT ![i] = tok[i]] /\ moved' \in Seq(Ids)
  BY <1>1, <1>2 DEF TypeOK
<1>12. Books(i, q, tok[i])
  <2>1. /\ books'.tcx = books.tcx - Slot(i, "rv") + q.rv
        /\ books'.lrf = books.lrf - Refundable(i) + RefundOf(q)
        /\ books'.tbb = books.tbb - Slot(i, "ab") + q.ab
    BY <1>1, <1>3, <1>4, <1>7, <1>8, <1>9
  <2>. QED
    BY <1>1, <1>2, <1>3, <1>5, <1>9, <1>10, <1>11, <2>1 DEF Books
<1>. QED
  BY <1>3, <1>6, <1>9, <1>11, <1>12, EntryLives

LEMMA StepRecover ==
  ASSUME VaultInv, NEW i \in Ids, NEW topup \in Nat, Proposed(i), topo >= proj[i].ve,
         topup <= XelOutside, Recover(i, topup),
         UNCHANGED <<config, params, count, ticker, vote, moved, topo>>
  PROVE  VaultInv' /\ AllLive
<1> DEFINE p == proj[i]
           st == RecoveryOutcome(p)
           q == [p EXCEPT !.status = st]
<1>1. /\ TypeOK /\ p \in Projects /\ tok[i] \in Nat
      /\ Staged(p) /\ Escrowed(p, tok[i]) /\ Vested(p, topo)
      /\ Slot(i, "rv") = p.rv /\ Slot(i, "ab") = p.ab /\ Refundable(i) = RefundOf(p)
      /\ books \in BookTypes /\ xel \in 0..XelSupply /\ XelSupply \in Nat
      /\ Committed + books.pfe <= xel
  BY AtProject
<1>2. /\ p.status = RECOVERY /\ proj' = [proj EXCEPT ![i] = q]
      /\ xel' = xel + topup /\ tok' = tok /\ books' = books
  BY DEF Recover
<1>3. st \in {UNTRUSTED, TRUSTED, BONDING}
  BY DEF RecoveryOutcome
<1>4. /\ st = TRUSTED => p.gr
      /\ st = BONDING => ~p.gr
      /\ st # UNTRUSTED => Recovered(p)
  BY DEF RecoveryOutcome, UNTRUSTED, TRUSTED, BONDING
<1> HIDE DEF st
<1>5. /\ q \in Projects /\ q.status = st /\ q.rv = p.rv /\ q.mg = p.mg
      /\ q.ah = p.ah /\ q.gr = p.gr /\ q.mi = p.mi /\ q.rc = p.rc
      /\ q.ab = p.ab /\ q.cs = p.cs /\ q.lq = p.lq /\ q.supply = p.supply
      /\ q.bps = p.bps /\ q.paid = p.paid /\ q.vs = p.vs /\ q.vd = p.vd /\ q.plan = p.plan
      /\ q.sp = p.sp /\ q.rp = p.rp /\ q.rd = p.rd /\ q.bv = p.bv
  BY <1>1, <1>3 DEF Projects, Selling, Buying
<1> HIDE DEF q
<1>6. p.ah /\ ~p.rc
  BY <1>1, <1>2 DEF Staged, VALIDATION, REJECTED, RECOVERY
<1>7. Sound(q, tok[i], topo)
  BY <1>1, <1>3, <1>4, <1>5, <1>6 DEF Sound, Staged, Escrowed, Vested, Team, Selling, Buying,
       REJECTED, VALIDATION, BONDING, GRADUATED, TRUSTED, UNTRUSTED, RECOVERY
<1>8. st # UNTRUSTED => ~Distrusted(p)
  <2>1. st # UNTRUSTED => \/ Reaches(p.sp, p, params.recPart, params.recRatio)
                          \/ Reaches(p.sp, p, params.minPart, params.approval)
    BY <1>4 DEF Recovered
  <2>. QED
    BY <1>1, <2>1, BarBounds, SupportedIsTrusted
<1>9. Path(p, q)
  <2>1. q.status # UNTRUSTED => q.status = (IF p.gr THEN TRUSTED ELSE BONDING)
    BY <1>3, <1>4, <1>5 DEF UNTRUSTED, TRUSTED, BONDING
  <2>2. q.status # UNTRUSTED /\ p.gr => Reaches(p.sp, p, params.recPart, params.recRatio)
    BY <1>4, <1>5 DEF Recovered
  <2>. QED
    BY <1>2, <1>5, <2>1, <2>2 DEF Path
<1>10. Trusted(p, q)
  <2>1. Distrusted(q) <=> Distrusted(p)
    BY <1>5 DEF Distrusted, Reaches
  <2>2. UNTRUSTED \notin Buying
    BY DEF Buying, UNTRUSTED, BONDING, GRADUATED, TRUSTED
  <2>. QED
    BY <1>5, <1>8, <2>1, <2>2 DEF Trusted
<1>11. Lives(p, q)
  <2>1. p.bv \in Nat /\ p.paid \in Nat
    BY <1>1, ProjectTypes
  <2>. QED
    BY <1>5, <1>9, <1>10, <2>1 DEF Lives, Graduating, Vests
<1>12. RefundOf(p) = 0 /\ RefundOf(q) = 0
  BY <1>2, <1>3, <1>5 DEF RefundOf, REJECTED, BONDING, TRUSTED, UNTRUSTED, RECOVERY
<1>13. /\ p.rv \in Nat /\ p.ab \in Nat /\ books.tcx \in Nat /\ books.lrf \in Nat
       /\ books.tbb \in Nat /\ books.tvp \in Nat /\ books.pfe \in Nat
  BY <1>1, BookFields, ProjectTypes
<1>14. xel' \in 0..XelSupply /\ Committed' + books'.pfe <= xel'
  BY <1>1, <1>2, <1>13 DEF Committed, XelOutside
<1>15. tok' = [tok EXCEPT ![i] = tok[i]] /\ moved' \in Seq(Ids)
  BY <1>1, <1>2 DEF TypeOK
<1>16. Books(i, q, tok[i])
  <2>1. /\ books'.tcx = books.tcx - Slot(i, "rv") + q.rv
        /\ books'.lrf = books.lrf - Refundable(i) + RefundOf(q)
        /\ books'.tbb = books.tbb - Slot(i, "ab") + q.ab
    <3>1. books' = books
      BY <1>2
    <3> HIDE DEF p
    <3>. QED
      BY <1>1, <1>5, <1>12, <1>13, <3>1
  <2>. QED
    BY <1>1, <1>2, <1>5, <1>7, <1>14, <1>15, <2>1 DEF Books
<1>17. books'.tvp = books.tvp
  BY <1>2
<1>. QED
  BY <1>5, <1>11, <1>15, <1>16, <1>17, EntryLives

\* An accepted project opens its curve, or graduates at once.
LEMMA AcceptedLives ==
  ASSUME TypeOK, NEW p \in Projects, NEW q \in Projects, Staged(p), Vested(p, topo),
         p.status = VALIDATION, topo >= p.ve,
         Reaches(p.sp, p, params.minPart, params.approval),
         q.status = (IF p.dl THEN GRADUATED ELSE BONDING), q.ah, q.gr = p.dl,
         q.sp = p.sp, q.rp = p.rp, q.bv = p.bv, q.paid = p.paid,
         q.rv = p.rv - (IF p.dl THEN MigrationFee(p) ELSE 0),
         p.dl => /\ q.mg = q.mc
                 /\ q.vs = (IF p.plan > 0 THEN topo ELSE p.vs)
                 /\ q.vd = (IF p.plan > 0 THEN p.plan ELSE p.vd),
         ~p.dl => q.mg = p.mg /\ q.vs = p.vs /\ q.vd = p.vd
  PROVE  Lives(p, q)
<1>1. ~p.gr /\ ~p.mi /\ p.gr = FALSE
  BY ProjectTypes DEF Staged, Selling, Buying, VALIDATION, REJECTED,
       BONDING, GRADUATED, TRUSTED, UNTRUSTED, RECOVERY
<1>2. /\ p.bv \in Nat /\ p.paid \in Nat /\ p.rv \in Nat /\ p.dl \in BOOLEAN
      /\ p.plan \in Nat /\ p.vs \in Nat
  BY ProjectTypes
<1>3. Path(p, q)
  BY <1>1, <1>2 DEF Path
<1>4. Trusted(p, q)
  <2>1. ~Distrusted(p)
    BY BarBounds, SupportedIsTrusted
  <2>2. Distrusted(q) <=> Distrusted(p)
    BY DEF Distrusted, Reaches
  <2>. QED
    BY <2>1, <2>2 DEF Trusted
<1>5. Graduating(p, q)
  <2>1. q.bv - p.bv = 0 /\ ~(q.bv > p.bv) /\ BONDING # VALIDATION
    BY <1>2 DEF BONDING, VALIDATION
  <2>2. FeeTake(0, params.tradeFee) = 0
    <3>1. FeeTake(0, params.tradeFee) \in 0..0
      BY ParamBounds, FeeBounds
    <3>. QED
      BY <3>1
  <2>3. p.rv + 0 - 0 = p.rv
    BY <1>2
  <2>4. CASE p.dl
    <3>1. q.rv = p.rv - FeeTake(p.rv, params.migFee)
      BY <2>4 DEF MigrationFee
    <3>. QED
      BY <1>1, <2>1, <2>2, <2>3, <2>4, <3>1 DEF Graduating
  <2>5. CASE ~p.dl
    BY <1>1, <1>2, <2>1, <2>5 DEF Graduating
  <2>. QED
    BY <2>4, <2>5
<1>6. Vests(p, q)
  <2>1. p.plan > 0 => p.vs = 0
    BY <1>1 DEF Vested
  <2>. QED
    BY <1>2, <2>1 DEF Vests
<1>. QED
  BY <1>3, <1>4, <1>5, <1>6 DEF Lives

LEMMA StepAccept ==
  ASSUME VaultInv, NEW i \in Ids, NEW topup \in Nat, NEW cost \in Nat, Proposed(i),
         topo >= proj[i].ve, topup <= XelOutside, Accept(i, topup, cost),
         UNCHANGED <<config, params, count, ticker, vote, moved, topo>>
  PROVE  VaultInv' /\ AllLive
<1> DEFINE p == proj[i]
           b == [p EXCEPT !.ab = 0, !.ah = TRUE, !.bt = topo]
           o == [b EXCEPT !.status = BONDING]
           q == IF p.dl THEN Graduated(b) ELSE o
           fee == IF p.dl THEN MigrationFee(p) ELSE 0
           t == p.supply
<1>1. /\ TypeOK /\ p \in Projects /\ tok[i] \in Nat
      /\ Staged(p) /\ Escrowed(p, tok[i]) /\ Vested(p, topo)
      /\ Slot(i, "rv") = p.rv /\ Slot(i, "ab") = p.ab /\ Refundable(i) = RefundOf(p)
      /\ books \in BookTypes /\ xel \in 0..XelSupply /\ XelSupply \in Nat
      /\ p.rv <= books.tcx /\ p.ab <= books.tbb /\ Committed + books.pfe <= xel
  BY AtProject
<1>2. /\ p.status = VALIDATION /\ Reaches(p.sp, p, params.minPart, params.approval) /\ ~p.ah
      /\ cost <= xel + topup /\ p.ab + topup >= cost
      /\ proj' = [proj EXCEPT ![i] = q]
      /\ xel' = xel + topup - cost - (p.ab + topup - cost)
      /\ tok' = [tok EXCEPT ![i] = t]
  BY DEF Accept, Unspent
<1>3. books' = [IF p.dl THEN FeeMoved(books, MigrationFee(p)) ELSE books EXCEPT !.tbb = @ - p.ab]
  BY DEF Accept
<1>4. /\ p.rv \in Nat /\ p.ab \in Nat /\ p.paid \in Nat /\ Team(p) \in Nat /\ p.cs \in Nat
      /\ p.supply \in Nat /\ p.lq \in Nat /\ topo \in Nat /\ p.dl \in BOOLEAN
  <2>1. topo \in Nat
    BY <1>1, HeightTypes
  <2> HIDE DEF p
  <2>. QED
    BY <1>1, <2>1, ProjectTypes
<1>5. /\ p.rv = p.lq /\ ~p.rc /\ ~p.gr /\ ~p.mi /\ p.paid = 0 /\ p.cs > 0 /\ p.lq > 0
      /\ p.supply \in 1..MAX_TOTAL_SUPPLY
      /\ p.cs + (Team(p) - p.paid) <= p.supply /\ p.paid <= Team(p)
  BY <1>1, <1>2 DEF Staged, Escrowed
<1>6. /\ b \in Projects /\ b.ah = TRUE /\ b.ab = 0 /\ b.bt = topo /\ b.mg = p.mg
      /\ b.status = p.status /\ b.gr = p.gr /\ b.mi = p.mi /\ b.rc = p.rc
      /\ b.rv = p.rv /\ b.cs = p.cs /\ b.lq = p.lq /\ b.supply = p.supply
      /\ b.bps = p.bps /\ b.paid = p.paid /\ b.vs = p.vs /\ b.vd = p.vd /\ b.plan = p.plan
      /\ b.sp = p.sp /\ b.rp = p.rp /\ b.rd = p.rd /\ b.bv = p.bv
  BY <1>1, <1>4, ZenonT(60) DEF Projects
<1> HIDE DEF b
<1>7. Escrowed(b, t) /\ Vested(b, topo)
  BY <1>1, <1>4, <1>5, <1>6 DEF Escrowed, Team, Vested
<1>8. MigrationFee(b) = MigrationFee(p)
  BY <1>6 DEF MigrationFee
<1>9. BONDING \in Selling /\ BONDING # VALIDATION /\ BONDING # REJECTED
  BY DEF Selling, Buying, BONDING, VALIDATION, REJECTED
<1>10. /\ q \in Projects /\ Sound(q, t, topo) /\ q.rv = p.rv - fee /\ fee \in 0..p.rv
       /\ q.status = (IF p.dl THEN GRADUATED ELSE BONDING) /\ q.ah /\ q.gr = p.dl /\ ~q.rc
       /\ q.ab = 0 /\ q.lq = p.lq /\ q.paid = p.paid /\ q.bv = p.bv
       /\ q.sp = p.sp /\ q.rp = p.rp /\ q.rd = p.rd
       /\ p.dl => /\ q.mg = q.mc
                  /\ q.vs = (IF p.plan > 0 THEN topo ELSE p.vs)
                  /\ q.vd = (IF p.plan > 0 THEN p.plan ELSE p.vd)
       /\ ~p.dl => q.mg = p.mg /\ q.vs = p.vs /\ q.vd = p.vd
  <2>1. CASE p.dl
    <3> DEFINE g == Graduated(b)
    <3>1. /\ g \in Projects /\ Sound(g, t, topo) /\ MigrationFee(b) \in 0..b.rv
          /\ g.rv = b.rv - MigrationFee(b) /\ g.status = GRADUATED /\ g.gr /\ g.ah
          /\ g.mg = g.mc /\ ~g.rc
          /\ g.ab = b.ab /\ g.lq = b.lq /\ g.paid = b.paid
          /\ g.sp = b.sp /\ g.rp = b.rp /\ g.rd = b.rd /\ g.bv = b.bv
          /\ g.vs = (IF b.plan > 0 THEN topo ELSE b.vs)
          /\ g.vd = (IF b.plan > 0 THEN b.plan ELSE b.vd)
      BY <1>1, <1>4, <1>5, <1>6, <1>7, GraduatedSound
    <3>2. g.gr = TRUE /\ p.dl = TRUE
      BY <1>4, <2>1, <3>1, ProjectTypes
    <3>3. q = g /\ fee = MigrationFee(p)
      BY <2>1
    <3> HIDE DEF g, q, fee
    <3>. QED
      BY <1>6, <1>8, <2>1, <3>1, <3>2, <3>3
  <2>2. CASE ~p.dl
    <3>1. q = o /\ fee = 0 /\ p.dl = FALSE
      BY <1>4, <2>2
    <3>2. /\ o \in Projects /\ o.status = BONDING /\ o.ah = TRUE /\ o.ab = 0 /\ o.mg = b.mg
          /\ o.gr = b.gr /\ o.mi = b.mi /\ o.rc = b.rc
          /\ o.rv = b.rv /\ o.cs = b.cs /\ o.lq = b.lq /\ o.supply = b.supply
          /\ o.bps = b.bps /\ o.paid = b.paid /\ o.vs = b.vs /\ o.vd = b.vd /\ o.plan = b.plan
          /\ o.sp = b.sp /\ o.rp = b.rp /\ o.rd = b.rd /\ o.bv = b.bv
      BY <1>6, <1>9 DEF Projects
    <3> HIDE DEF o, q, fee
    <3>3. Escrowed(o, t) /\ Vested(o, topo)
      BY <1>6, <1>7, <3>2 DEF Escrowed, Team, Vested
    <3>4. Staged(o)
      BY <1>4, <1>5, <1>6, <1>9, <3>2 DEF Staged
    <3>5. o.gr = FALSE
      BY <1>1, <1>5, <1>6, <3>2, ProjectTypes
    <3>6. /\ o.rv = p.rv - 0 /\ 0 \in 0..p.rv /\ ~o.rc /\ o.ab = 0 /\ o.lq = p.lq
          /\ o.paid = p.paid /\ o.bv = p.bv /\ o.sp = p.sp /\ o.rp = p.rp /\ o.rd = p.rd
          /\ o.mg = p.mg /\ o.vs = p.vs /\ o.vd = p.vd
      BY <1>4, <1>5, <1>6, <3>2
    <3> HIDE DEF p
    <3>. QED
      BY <2>2, <3>1, <3>2, <3>3, <3>4, <3>5, <3>6 DEF Sound
  <2>. QED
    BY <2>1, <2>2
<1> HIDE DEF q
<1>11. Lives(p, q)
  BY <1>1, <1>2, <1>10, AcceptedLives DEF fee
<1>12. /\ books.tcx \in Nat /\ books.lrf \in Nat /\ books.tbb \in Nat /\ books.tvp \in Nat
       /\ books.pfe \in Nat
  BY <1>1, BookFields
<1>13. RefundOf(p) = 0 /\ RefundOf(q) = 0
  BY <1>2, <1>10 DEF RefundOf, VALIDATION, REJECTED, GRADUATED, BONDING
<1>14. /\ books' \in BookTypes /\ books'.tcx = books.tcx - fee /\ books'.lrf = books.lrf
       /\ books'.tbb = books.tbb - p.ab /\ books'.tvp = books.tvp /\ books'.pfe = books.pfe + fee
  <2>1. books.tcx - fee \in Nat /\ books.pfe + fee \in Nat /\ books.tbb - p.ab \in Nat
    BY <1>1, <1>4, <1>10, <1>12
  <2>2. CASE p.dl
    <3>1. books' = [books EXCEPT !.tcx = @ - fee, !.pfe = @ + fee, !.tbb = @ - p.ab]
      BY <1>1, <1>3, <2>2 DEF FeeMoved, BookTypes
    <3> HIDE DEF fee
    <3>. QED
      BY <1>1, <2>1, <3>1 DEF BookTypes
  <2>3. CASE ~p.dl
    <3>1. books' = [books EXCEPT !.tbb = @ - p.ab] /\ fee = 0
      BY <1>3, <2>3
    <3> HIDE DEF fee
    <3>. QED
      BY <1>1, <1>12, <2>1, <3>1 DEF BookTypes
  <2>. QED
    BY <2>2, <2>3
<1> HIDE DEF fee
<1>15. xel' = xel - p.ab
  BY <1>1, <1>2, <1>4
<1>16. xel' \in 0..XelSupply /\ Committed' + books'.pfe <= xel'
  <2> HIDE DEF p
  <2>. QED
    BY <1>1, <1>4, <1>10, <1>12, <1>14, <1>15 DEF Committed
<1>17. moved' \in Seq(Ids)
  BY <1>1 DEF TypeOK
<1>18. Books(i, q, t)
  <2>1. /\ books'.tcx = books.tcx - Slot(i, "rv") + q.rv
        /\ books'.lrf = books.lrf - Refundable(i) + RefundOf(q)
        /\ books'.tbb = books.tbb - Slot(i, "ab") + q.ab
    <3> HIDE DEF p
    <3>. QED
      BY <1>1, <1>4, <1>10, <1>12, <1>13, <1>14
  <2>. QED
    BY <1>2, <1>4, <1>10, <1>14, <1>16, <2>1 DEF Books
<1>. QED
  BY <1>10, <1>11, <1>14, <1>17, <1>18, EntryLives

LEMMA StepRequestRevalidation ==
  ASSUME VaultInv, NEW u, NEW i \in Ids, NEW dep \in Nat, RequestRevalidation(u, i, dep)
  PROVE  VaultInv' /\ AllLive
<1> DEFINE p == proj[i]
           fee == IF p.gr THEN params.recFee ELSE 0
           rd == p.rd + 1
           ve == topo + params.duration
           q == [p EXCEPT !.rd = rd, !.sp = 0, !.rp = 0, !.ve = ve, !.status = RECOVERY]
<1>0. Proposed(i)
  BY DEF RequestRevalidation
<1>1. /\ TypeOK /\ p \in Projects /\ tok[i] \in Nat
      /\ Staged(p) /\ Escrowed(p, tok[i]) /\ Vested(p, topo)
      /\ Slot(i, "rv") = p.rv /\ Slot(i, "ab") = p.ab /\ Refundable(i) = RefundOf(p)
      /\ books \in BookTypes /\ xel \in 0..XelSupply /\ XelSupply \in Nat
      /\ Committed + books.pfe <= xel
  BY <1>0, AtProject
<1>2. /\ p.status = UNTRUSTED /\ dep = fee /\ dep <= XelOutside /\ p.rd < MAX_ROUNDS
      /\ proj' = [proj EXCEPT ![i] = q] /\ books' = [books EXCEPT !.pfe = @ + dep]
      /\ xel' = xel + dep
      /\ UNCHANGED <<config, params, count, ticker, vote, moved, tok, topo>>
  BY <1>1 DEF RequestRevalidation, Projects
<1> HIDE DEF fee
<1>3. rd \in Rounds /\ rd > p.rd /\ ve \in Nat /\ p.rd \in Nat
  <2>1. p.rd \in Rounds /\ MAX_ROUNDS \in Nat /\ topo \in Nat /\ "duration" \in Names
    BY <1>1, ProjectTypes, VaultConstants DEF TypeOK, Names
  <2>2. params.duration \in Nat
    BY <1>1, <2>1, ParamBounds
  <2>. QED
    BY <1>2, <2>1, <2>2 DEF Rounds
<1> HIDE DEF rd, ve
<1>4. /\ q \in Projects /\ q.status = RECOVERY /\ q.rd = rd /\ q.sp = 0 /\ q.rp = 0
      /\ q.rv = p.rv /\ q.mg = p.mg
      /\ q.ah = p.ah /\ q.gr = p.gr /\ q.mi = p.mi /\ q.rc = p.rc
      /\ q.ab = p.ab /\ q.cs = p.cs /\ q.lq = p.lq /\ q.supply = p.supply
      /\ q.bps = p.bps /\ q.paid = p.paid /\ q.vs = p.vs /\ q.vd = p.vd /\ q.plan = p.plan
      /\ q.bv = p.bv
  BY <1>1, <1>3, ZenonT(60) DEF Projects, Selling
<1> HIDE DEF q
<1>5. Sound(q, tok[i], topo)
  BY <1>1, <1>2, <1>4 DEF Sound, Staged, Escrowed, Vested, Team, Selling, Buying,
       REJECTED, VALIDATION, BONDING, GRADUATED, TRUSTED, UNTRUSTED, RECOVERY
<1>6. Lives(p, q)
  <2>1. p.bv \in Nat /\ p.paid \in Nat
    BY <1>1, ProjectTypes
  <2>2. RECOVERY \notin Buying
    BY DEF Buying, RECOVERY, BONDING, GRADUATED, TRUSTED
  <2>. QED
    BY <1>2, <1>3, <1>4, <2>1, <2>2 DEF Lives, Path, Trusted, Graduating, Vests
<1>7. RefundOf(p) = 0 /\ RefundOf(q) = 0
  BY <1>2, <1>4 DEF RefundOf, REJECTED, RECOVERY, UNTRUSTED
<1>8. /\ p.rv \in Nat /\ p.ab \in Nat /\ books.tcx \in Nat /\ books.lrf \in Nat
      /\ books.tbb \in Nat /\ books.tvp \in Nat /\ books.pfe \in Nat
  BY <1>1, BookFields, ProjectTypes
<1>9. /\ books' \in BookTypes /\ books'.lrf = books.lrf /\ books'.tcx = books.tcx
      /\ books'.tbb = books.tbb /\ books'.tvp = books.tvp /\ books'.pfe = books.pfe + dep
  BY <1>1, <1>2, <1>8 DEF BookTypes
<1>10. xel' \in 0..XelSupply /\ Committed' + books'.pfe <= xel'
  BY <1>1, <1>2, <1>8, <1>9 DEF Committed, XelOutside
<1>11. tok' = [tok EXCEPT ![i] = tok[i]] /\ moved' \in Seq(Ids)
  BY <1>1, <1>2 DEF TypeOK
<1>12. Books(i, q, tok[i])
  <2>1. /\ books'.tcx = books.tcx - Slot(i, "rv") + q.rv
        /\ books'.lrf = books.lrf - Refundable(i) + RefundOf(q)
        /\ books'.tbb = books.tbb - Slot(i, "ab") + q.ab
    <3> HIDE DEF p
    <3>. QED
      BY <1>1, <1>4, <1>7, <1>8, <1>9
  <2>. QED
    BY <1>1, <1>2, <1>4, <1>5, <1>9, <1>10, <1>11, <2>1 DEF Books
<1>13. OneVotePerRound'
  <2>1. OneVotePerRound /\ vote' = vote
    BY <1>2 DEF VaultInv
  <2>2. \A w \in Wallets : vote[i][rd][w] = None
    <3>1. \A r \in Rounds, w \in Wallets : vote[i][r][w] # None => r <= p.rd
      BY <1>0, <2>1 DEF OneVotePerRound
    <3>2. ~(rd <= p.rd)
      BY <1>3, VaultConstants DEF Rounds
    <3>. QED
      BY <1>3, <3>1, <3>2
  <2>3. {w \in Wallets : vote'[i][rd][w] # None} = {}
    BY <2>1, <2>2
  <2>4. q.sp + q.rp = Cardinality({w \in Wallets : vote'[i][q.rd][w] # None})
    BY <1>4, <2>3, FS_EmptySet
  <2>5. \A r \in Rounds, w \in Wallets : vote'[i][r][w] # None => r <= q.rd
    <3>1. \A r \in Rounds : r <= p.rd => r <= rd
      BY <1>3, VaultConstants DEF Rounds
    <3>. QED
      BY <1>0, <1>4, <2>1, <3>1 DEF OneVotePerRound
  <2>6. proj'[i] = q /\ \A j \in Ids \ {i} : proj'[j] = proj[j]
    BY <1>1, <1>2 DEF TypeOK
  <2>7. ASSUME NEW j \in Ids, Proposed(j)'
        PROVE  /\ proj'[j].sp + proj'[j].rp
                    = Cardinality({w \in Wallets : vote'[j][proj'[j].rd][w] # None})
               /\ \A r \in Rounds, w \in Wallets : vote'[j][r][w] # None => r <= proj'[j].rd
    <3>1. CASE j = i
      BY <2>4, <2>5, <2>6, <3>1
    <3>2. CASE j # i
      BY <2>1, <2>6, <2>7, <3>2 DEF OneVotePerRound, Proposed
    <3>. QED
      BY <3>1, <3>2
  <2>. QED
    BY <2>7 DEF OneVotePerRound
<1>14. AllLive
  BY <1>1, <1>2, <1>4, <1>6, OneLives
<1>15. VaultInv'
  BY <1>0, <1>2, <1>9, <1>11, <1>12, <1>13, EntryKeeps
<1>. QED
  BY <1>14, <1>15
-----------------------------------------------------------------------------
(* Votes.                                                                  *)

\* The guard takes the trust of a project the poll distrusts, and nothing else.
LEMMA GuardSlots ==
  ASSUME NEW v \in Projects
  PROVE  LET q == TrustGuard(v)
         IN  /\ q \in Projects
             /\ q.status = (IF v.status \in Buying /\ Distrusted(v) THEN UNTRUSTED ELSE v.status)
             /\ q.rv = v.rv /\ q.mg = v.mg
             /\ q.ah = v.ah /\ q.gr = v.gr /\ q.mi = v.mi /\ q.rc = v.rc
             /\ q.ab = v.ab /\ q.cs = v.cs /\ q.lq = v.lq /\ q.supply = v.supply
             /\ q.bps = v.bps /\ q.paid = v.paid /\ q.vs = v.vs /\ q.vd = v.vd
             /\ q.plan = v.plan /\ q.bv = v.bv /\ q.sp = v.sp /\ q.rp = v.rp /\ q.rd = v.rd
<1>1. CASE v.status \in Buying /\ Distrusted(v)
  <2>1. TrustGuard(v) = [v EXCEPT !.status = UNTRUSTED]
    BY <1>1 DEF TrustGuard
  <2>2. UNTRUSTED \in Selling
    BY DEF Selling
  <2>. QED
    BY <1>1, <2>1, <2>2 DEF Projects
<1>2. CASE ~(v.status \in Buying /\ Distrusted(v))
  BY <1>2 DEF TrustGuard
<1>. QED
  BY <1>1, <1>2

\* A ballot that was empty is one more voter of the round.
LEMMA OneMoreVoter ==
  ASSUME VaultInv, NEW i \in Ids, Proposed(i), NEW w \in Wallets, NEW n \in Nat,
         vote[i][proj[i].rd][w] = None, vote' = [vote EXCEPT ![i][proj[i].rd][w] = n],
         NEW q \in Projects, proj' = [proj EXCEPT ![i] = q],
         q.rd = proj[i].rd, q.sp + q.rp = proj[i].sp + proj[i].rp + 1
  PROVE  OneVotePerRound'
<1> DEFINE rd == proj[i].rd
           S == {x \in Wallets : vote[i][rd][x] # None}
           T == {x \in Wallets : vote'[i][rd][x] # None}
<1>1. /\ TypeOK /\ OneVotePerRound /\ proj[i] \in Projects
  BY AtProject DEF VaultInv
<1>2. rd \in Rounds /\ proj[i].sp \in Nat /\ proj[i].rp \in Nat /\ q.sp \in Nat /\ q.rp \in Nat
  BY <1>1, ProjectTypes
<1>3. vote \in [Ids -> [Rounds -> [Wallets -> Nat \cup {None}]]] /\ n # None
  BY <1>1, VaultConstants DEF TypeOK
<1>4. /\ proj'[i] = q /\ \A j \in Ids \ {i} : proj'[j] = proj[j]
      /\ \A j \in Ids : Proposed(j)' => Proposed(j)
  BY <1>1 DEF TypeOK, Proposed
<1> HIDE DEF rd
<1>5. vote'[i] = [vote[i] EXCEPT ![rd][w] = n]
  BY <1>3 DEF rd
<1>6. vote'[i][rd] = [vote[i][rd] EXCEPT ![w] = n]
  BY <1>2, <1>3, <1>5
<1>7. /\ \A j \in Ids \ {i} : vote'[j] = vote[j]
      /\ \A r \in Rounds \ {rd} : vote'[i][r] = vote[i][r]
  BY <1>2, <1>3, <1>5
<1>8. T = S \cup {w} /\ w \notin S
  BY <1>2, <1>3, <1>6 DEF rd
<1>9. IsFiniteSet(S) /\ Cardinality(T) = Cardinality(S) + 1
  <2>1. IsFiniteSet(S)
    BY VaultConstants, FS_Subset
  <2> HIDE DEF S, T
  <2>. QED
    BY <1>8, <2>1, FS_AddElement
<1>10. proj[i].sp + proj[i].rp = Cardinality(S)
  BY <1>1 DEF OneVotePerRound, rd
<1>11. q.sp + q.rp = Cardinality({x \in Wallets : vote'[i][q.rd][x] # None})
  BY <1>9, <1>10 DEF rd
<1>12. \A r \in Rounds, x \in Wallets : vote'[i][r][x] # None => r <= q.rd
  <2>1. \A r \in Rounds, x \in Wallets : vote[i][r][x] # None => r <= rd
    BY <1>1 DEF OneVotePerRound, rd
  <2>2. rd <= rd
    BY <1>2 DEF Rounds
  <2>. QED
    BY <1>7, <2>1, <2>2 DEF rd
<1>13. ASSUME NEW j \in Ids, Proposed(j)'
       PROVE  /\ proj'[j].sp + proj'[j].rp
                   = Cardinality({x \in Wallets : vote'[j][proj'[j].rd][x] # None})
              /\ \A r \in Rounds, x \in Wallets : vote'[j][r][x] # None => r <= proj'[j].rd
  <2>1. CASE j = i
    BY <1>4, <1>11, <1>12, <2>1
  <2>2. CASE j # i
    BY <1>1, <1>4, <1>7, <1>13, <2>2 DEF OneVotePerRound
  <2>. QED
    BY <2>1, <2>2
<1>. QED
  BY <1>13 DEF OneVotePerRound

\* p with the tallies n and m.
Tallied(p, n, m) == [p EXCEPT !.sp = n, !.rp = m]

LEMMA StepVote ==
  ASSUME VaultInv, NEW i \in Ids, NEW caller \in Wallets, NEW dep \in Nat,
         NEW v \in Projects, Vote(caller, i, dep, v),
         Alike(Tallied(proj[i], v.sp, v.rp), v), v.mg = proj[i].mg,
         v.sp + v.rp = proj[i].sp + proj[i].rp + 1
  PROVE  VaultInv' /\ AllLive
<1> DEFINE p == proj[i]
           q == TrustGuard(v)
           n == params.voteDep
           b == [p EXCEPT !.sp = v.sp, !.rp = v.rp]
<1>0. Proposed(i)
  BY DEF Vote
<1>1. /\ TypeOK /\ XelSolvency /\ p \in Projects /\ tok[i] \in Nat
      /\ Staged(p) /\ Escrowed(p, tok[i]) /\ Vested(p, topo)
      /\ Slot(i, "rv") = p.rv /\ Slot(i, "ab") = p.ab /\ Refundable(i) = RefundOf(p)
      /\ books \in BookTypes /\ xel \in 0..XelSupply /\ XelSupply \in Nat
      /\ Committed + books.pfe <= xel
  BY <1>0, AtProject
<1>2. /\ vote[i][p.rd][caller] = None /\ dep <= XelOutside /\ dep >= n
      /\ vote' = [vote EXCEPT ![i][p.rd][caller] = n]
      /\ books' = [books EXCEPT !.tvp = @ + n]
      /\ proj' = [proj EXCEPT ![i] = q]
      /\ xel' = xel + n
      /\ UNCHANGED <<config, params, count, ticker, moved, tok, topo>>
  BY DEF Vote, NotVoted, Stake
<1>3. n \in Nat /\ p.rd \in Rounds
  <2>1. "voteDep" \in Names
    BY DEF Names
  <2>. QED
    BY <1>1, <2>1, ParamBounds, ProjectTypes
<1>4. /\ v.status = p.status /\ v.rv = p.rv
      /\ v.ah = p.ah /\ v.gr = p.gr /\ v.mi = p.mi /\ v.rc = p.rc
      /\ v.ab = p.ab /\ v.cs = p.cs /\ v.lq = p.lq /\ v.supply = p.supply
      /\ v.bps = p.bps /\ v.paid = p.paid /\ v.vs = p.vs /\ v.vd = p.vd /\ v.plan = p.plan
      /\ v.rd = p.rd /\ v.bv = p.bv
  <2>1. v.sp \in Nat /\ v.rp \in Nat
    BY ProjectTypes
  <2>2. b \in Projects
    BY <1>1, <2>1, ZenonT(60) DEF Projects
  <2>3. /\ b.status = p.status /\ b.rv = p.rv
        /\ b.ah = p.ah /\ b.gr = p.gr /\ b.mi = p.mi /\ b.rc = p.rc
        /\ b.ab = p.ab /\ b.cs = p.cs /\ b.lq = p.lq /\ b.supply = p.supply
        /\ b.bps = p.bps /\ b.paid = p.paid /\ b.vs = p.vs /\ b.vd = p.vd /\ b.plan = p.plan
        /\ b.rd = p.rd /\ b.bv = p.bv
    BY <1>1 DEF Projects
  <2> HIDE DEF b
  <2>4. Alike(b, v)
    BY DEF b, Tallied
  <2>. QED
    BY <2>2, <2>3, <2>4, AlikeFields
<1>5. /\ q \in Projects
      /\ q.status = (IF v.status \in Buying /\ Distrusted(v) THEN UNTRUSTED ELSE v.status)
      /\ q.rv = v.rv /\ q.mg = v.mg
      /\ q.ah = v.ah /\ q.gr = v.gr /\ q.mi = v.mi /\ q.rc = v.rc
      /\ q.ab = v.ab /\ q.cs = v.cs /\ q.lq = v.lq /\ q.supply = v.supply
      /\ q.bps = v.bps /\ q.paid = v.paid /\ q.vs = v.vs /\ q.vd = v.vd
      /\ q.plan = v.plan /\ q.bv = v.bv /\ q.sp = v.sp /\ q.rp = v.rp /\ q.rd = v.rd
  BY GuardSlots
<1> HIDE DEF p, q, n
<1>6. q.status # p.status => p.status \in Buying /\ q.status = UNTRUSTED /\ Distrusted(v)
  BY <1>4, <1>5
<1>7. Sound(q, tok[i], topo)
  <2>1. p.status \in Buying => p.ah /\ ~p.rc
    BY <1>1 DEF Staged, Selling, Buying, REJECTED, VALIDATION, BONDING, GRADUATED, TRUSTED
  <2>2. Staged(q)
    BY <1>1, <1>4, <1>5, <1>6, <2>1 DEF Staged, Selling, Buying,
         REJECTED, VALIDATION, BONDING, GRADUATED, TRUSTED, UNTRUSTED, RECOVERY
  <2>. QED
    BY <1>1, <1>4, <1>5, <2>2 DEF Sound, Escrowed, Vested, Team
<1>8. Lives(p, q)
  <2>1. p.bv \in Nat /\ p.paid \in Nat
    BY <1>1, ProjectTypes
  <2>2. q.status # p.status => 2 * q.rp > q.sp + q.rp
    BY <1>1, <1>5, <1>6, DistrustedMajority
  <2>3. Distrusted(q) <=> Distrusted(v)
    BY <1>5 DEF Distrusted, Reaches
  <2>4. UNTRUSTED \notin Buying
    BY DEF Buying, UNTRUSTED, BONDING, GRADUATED, TRUSTED
  <2>5. Path(p, q)
    BY <1>4, <1>5, <1>6, <2>2 DEF Path
  <2>6. Trusted(p, q)
    BY <1>5, <2>3, <2>4 DEF Trusted
  <2>. QED
    BY <1>4, <1>5, <2>1, <2>5, <2>6 DEF Lives, Graduating, Vests, p
<1>9. RefundOf(q) = RefundOf(p)
  BY <1>4, <1>5, <1>6 DEF RefundOf, Buying, UNTRUSTED, REJECTED, BONDING, GRADUATED, TRUSTED
<1>10. /\ p.rv \in Nat /\ p.ab \in Nat /\ RefundOf(p) \in Nat
       /\ books.tcx \in Nat /\ books.lrf \in Nat
       /\ books.tbb \in Nat /\ books.tvp \in Nat /\ books.pfe \in Nat
  BY <1>1, BookFields, ProjectTypes DEF RefundOf
<1>11. /\ books' \in BookTypes /\ books'.lrf = books.lrf /\ books'.tcx = books.tcx
       /\ books'.tbb = books.tbb /\ books'.tvp = books.tvp + n /\ books'.pfe = books.pfe
  <2>1. books.tvp + n \in Nat
    BY <1>3, <1>10
  <2>. QED
    BY <1>1, <1>2, <2>1 DEF BookTypes
<1>12. xel' \in 0..XelSupply /\ Committed' + books'.pfe <= xel'
  BY <1>1, <1>2, <1>3, <1>10, <1>11 DEF Committed, XelOutside
<1>13. tok' = [tok EXCEPT ![i] = tok[i]]
  BY <1>1, <1>2 DEF TypeOK
<1>14. Books(i, q, tok[i])
  <2>1. /\ books'.tcx = books.tcx - Slot(i, "rv") + q.rv
        /\ books'.lrf = books.lrf - Refundable(i) + RefundOf(q)
        /\ books'.tbb = books.tbb - Slot(i, "ab") + q.ab
    BY <1>1, <1>4, <1>5, <1>9, <1>10, <1>11
  <2>. QED
    BY <1>1, <1>2, <1>5, <1>7, <1>11, <1>12, <1>13, <2>1 DEF Books
<1>15. books'.tvp = Total(Stakes)'
  <2>1. Locked(i, p.rd, caller) = 0
    BY <1>2 DEF Locked
  <2>2. Total(Stakes)' = Total(Stakes) - Locked(i, p.rd, caller) + n
    BY <1>1, <1>2, <1>3, StakesMove
  <2>3. Total(Stakes) = books.tvp
    BY <1>1 DEF XelSolvency, Stakes, Ballots
  <2>. QED
    BY <1>3, <1>10, <1>11, <2>1, <2>2, <2>3
<1>16. OneVotePerRound'
  BY <1>0, <1>2, <1>3, <1>4, <1>5, OneMoreVoter DEF p
<1>17. AllLive
  BY <1>1, <1>2, <1>5, <1>8, OneLives DEF p
<1>18. /\ XelSolvency'
       /\ proj' \in [Ids -> Projects \cup {None}] /\ tok' \in [Ids -> Nat]
       /\ \A j \in Ids : Proposed(j)' => Sound(proj[j], tok[j], topo)'
       /\ \A j \in Ids : Proposed(j)' <=> Proposed(j) \/ j = i
  BY <1>2, <1>14, <1>15, BooksKeep
<1>19. vote' \in [Ids -> [Rounds -> [Wallets -> Nat \cup {None}]]]
  <2>1. vote \in [Ids -> [Rounds -> [Wallets -> Nat \cup {None}]]]
    BY <1>1 DEF TypeOK
  <2>. QED
    BY <1>2, <1>3, <2>1
<1>20. TypeOK'
  BY <1>1, <1>2, <1>11, <1>12, <1>18, <1>19 DEF TypeOK, BookTypes
<1>21. Numbered'
  <2>1. \A j \in Ids \ {i} : vote'[j] = vote[j]
    BY <1>1, <1>2 DEF TypeOK
  <2>2. Numbered /\ tok' = tok /\ count' = count
    BY <1>2 DEF VaultInv
  <2>. QED
    BY <1>0, <1>18, <2>1, <2>2 DEF Numbered
<1>. QED
  BY <1>16, <1>17, <1>18, <1>20, <1>21 DEF VaultInv

LEMMA StepSupport ==
  ASSUME VaultInv, NEW i \in Ids, NEW caller \in Wallets, NEW dep \in Nat,
         Support(caller, i, dep)
  PROVE  VaultInv' /\ AllLive
<1> DEFINE p == proj[i]
           v == [p EXCEPT !.sp = @ + 1]
<1>1. p \in Projects /\ Vote(caller, i, dep, v)
  BY AtProject DEF Support, Vote
<1>2. p.sp \in Nat /\ p.rp \in Nat
  BY <1>1, ProjectTypes
<1> HIDE DEF p
<1>3. v \in Projects /\ v.sp = p.sp + 1 /\ v.rp = p.rp /\ v.mg = p.mg
  BY <1>1, <1>2 DEF Projects
<1>4. Alike(Tallied(p, v.sp, v.rp), v)
  BY <1>1, <1>3 DEF Alike, Projects, Tallied
<1>5. v.sp + v.rp = p.sp + p.rp + 1
  <2> HIDE DEF v
  <2>. QED
    BY <1>2, <1>3
<1> HIDE DEF v
<1>. QED
  BY <1>1, <1>3, <1>4, <1>5, StepVote DEF p

LEMMA StepReport ==
  ASSUME VaultInv, NEW i \in Ids, NEW caller \in Wallets, NEW dep \in Nat,
         Report(caller, i, dep)
  PROVE  VaultInv' /\ AllLive
<1> DEFINE p == proj[i]
           v == [p EXCEPT !.rp = @ + 1]
<1>1. p \in Projects /\ Vote(caller, i, dep, v)
  BY AtProject DEF Report, Vote
<1>2. p.sp \in Nat /\ p.rp \in Nat
  BY <1>1, ProjectTypes
<1> HIDE DEF p
<1>3. v \in Projects /\ v.rp = p.rp + 1 /\ v.sp = p.sp /\ v.mg = p.mg
  BY <1>1, <1>2 DEF Projects
<1>4. Alike(Tallied(p, v.sp, v.rp), v)
  BY <1>1, <1>3 DEF Alike, Projects, Tallied
<1>5. v.sp + v.rp = p.sp + p.rp + 1
  <2> HIDE DEF v
  <2>. QED
    BY <1>2, <1>3
<1> HIDE DEF v
<1>. QED
  BY <1>1, <1>3, <1>4, <1>5, StepVote DEF p

\* A deposit goes home; the ballot stays taken.
LEMMA StepClaimVoteDeposit ==
  ASSUME VaultInv, NEW i \in Ids, NEW caller \in Wallets, NEW r \in Rounds,
         ClaimVoteDeposit(caller, i, r)
  PROVE  VaultInv' /\ AllLive
<1> DEFINE n == vote[i][r][caller]
<1>1. TypeOK /\ XelSolvency /\ OneVotePerRound /\ Numbered
  BY DEF VaultInv
<1>2. /\ Proposed(i) /\ n # None /\ n <= books.tvp /\ n <= xel
      /\ vote' = [vote EXCEPT ![i][r][caller] = 0]
      /\ books' = [books EXCEPT !.tvp = @ - n]
      /\ xel' = xel - n
      /\ UNCHANGED <<config, params, count, proj, ticker, moved, tok, topo>>
  BY DEF ClaimVoteDeposit, DepositAccepted
<1>3. /\ vote \in [Ids -> [Rounds -> [Wallets -> Nat \cup {None}]]] /\ 0 # None
      /\ books \in BookTypes /\ xel \in 0..XelSupply /\ XelSupply \in Nat
      /\ Committed + books.pfe <= xel
  <2>1. XelSupply \in Nat /\ 0 # None
    BY VaultConstants
  <2>. QED
    BY <1>1, <2>1 DEF TypeOK, BookTypes, XelSolvency
<1>4. n \in Nat
  BY <1>2, <1>3
<1>5. /\ vote' \in [Ids -> [Rounds -> [Wallets -> Nat \cup {None}]]]
      /\ \A j \in Ids, x \in Rounds, w \in Wallets : vote'[j][x][w] # None <=> vote[j][x][w] # None
  <2>1. vote'[i] = [vote[i] EXCEPT ![r][caller] = 0] /\ \A j \in Ids \ {i} : vote'[j] = vote[j]
    BY <1>2, <1>3
  <2>2. vote'[i][r] = [vote[i][r] EXCEPT ![caller] = 0]
    BY <1>3, <2>1
  <2>3. \A x \in Rounds \ {r} : vote'[i][x] = vote[i][x]
    BY <1>3, <2>1
  <2>4. vote'[i][r][caller] = 0 /\ \A w \in Wallets \ {caller} : vote'[i][r][w] = vote[i][r][w]
    BY <1>3, <2>2
  <2>5. vote' \in [Ids -> [Rounds -> [Wallets -> Nat \cup {None}]]]
    BY <1>2, <1>3
  <2>6. ASSUME NEW j \in Ids, NEW x \in Rounds, NEW w \in Wallets
        PROVE  vote'[j][x][w] # None <=> vote[j][x][w] # None
    <3>1. CASE j = i /\ x = r /\ w = caller
      BY <1>2, <1>3, <2>4, <3>1
    <3>2. CASE ~(j = i /\ x = r /\ w = caller)
      BY <2>1, <2>3, <2>4, <3>2
    <3>. QED
      BY <3>1, <3>2
  <2>. QED
    BY <2>5, <2>6
<1> HIDE DEF n
<1>6. /\ books.tcx \in Nat /\ books.lrf \in Nat
      /\ books.tbb \in Nat /\ books.tvp \in Nat /\ books.pfe \in Nat
  BY <1>3, BookFields
<1>7. /\ books' \in BookTypes /\ books'.lrf = books.lrf /\ books'.tcx = books.tcx
      /\ books'.tbb = books.tbb /\ books'.tvp = books.tvp - n /\ books'.pfe = books.pfe
  <2>1. books.tvp - n \in Nat
    BY <1>2, <1>4, <1>6
  <2>. QED
    BY <1>2, <1>3, <2>1 DEF BookTypes
<1>8. xel' \in 0..XelSupply /\ Committed' + books'.pfe <= xel'
  BY <1>2, <1>3, <1>4, <1>6, <1>7 DEF Committed
<1>9. books'.tvp = Total(Stakes)'
  <2>1. Locked(i, r, caller) = n
    BY <1>2 DEF Locked, n
  <2>2. Total(Stakes)' = Total(Stakes) - Locked(i, r, caller) + 0
    BY <1>1, <1>2, StakesMove
  <2>3. Total(Stakes) = books.tvp
    BY <1>1 DEF XelSolvency, Stakes, Ballots
  <2>. QED
    BY <1>4, <1>6, <1>7, <2>1, <2>2, <2>3
<1>10. XelSolvency'
  <2>1. /\ Total(Reserves)' = Total(Reserves) /\ Total(Refunds)' = Total(Refunds)
        /\ Total(Budgets)' = Total(Budgets)
    BY <1>2 DEF Total, Units, Reserves, Refunds, Budgets, Slot, Refundable, Proposed
  <2>2. /\ Total(Reserves) = books.tcx /\ Total(Refunds) = books.lrf
        /\ Total(Budgets) = books.tbb
    BY <1>1 DEF XelSolvency, Reserves, Refunds, Budgets
  <2>. QED
    BY <1>7, <1>8, <1>9, <2>1, <2>2 DEF XelSolvency, Reserves, Refunds, Budgets, Stakes, Ballots
<1>11. OneVotePerRound'
  <2>1. ASSUME NEW j \in Ids, Proposed(j)
        PROVE  /\ proj[j].sp + proj[j].rp
                    = Cardinality({w \in Wallets : vote'[j][proj[j].rd][w] # None})
               /\ \A x \in Rounds, w \in Wallets : vote'[j][x][w] # None => x <= proj[j].rd
    <3>1. proj[j].rd \in Rounds
      BY <2>1, AtProject, ProjectTypes
    <3>2. {w \in Wallets : vote'[j][proj[j].rd][w] # None}
            = {w \in Wallets : vote[j][proj[j].rd][w] # None}
      BY <1>5, <3>1
    <3>. QED
      BY <1>1, <1>5, <2>1, <3>2 DEF OneVotePerRound
  <2>. QED
    BY <1>2, <2>1 DEF OneVotePerRound, Proposed
<1>12. TypeOK'
  BY <1>1, <1>2, <1>5, <1>7, <1>8 DEF TypeOK, BookTypes
<1>13. Numbered'
  BY <1>1, <1>2, <1>5 DEF Numbered, Proposed
<1>14. \A j \in Ids : Proposed(j)' => Sound(proj[j], tok[j], topo)'
  BY <1>2 DEF VaultInv, Proposed, Sound, Staged, Escrowed, Vested, Team, TeamAlloc, FeeTake
<1>15. AllLive
  BY <1>1, <1>2, NoneMoves
<1>. QED
  BY <1>10, <1>11, <1>12, <1>13, <1>14, <1>15 DEF VaultInv
-----------------------------------------------------------------------------
(* Proposals.                                                              *)

\* A proposal within the limits starts sound: its seed is the minimum at least,
\* and the team's share leaves the curve an inventory.
LEMMA NewSound ==
  ASSUME TypeOK, NEW u \in Wallets, NEW sym \in Symbols, NEW info \in Infos,
         NEW supply \in Nat, NEW bps \in Nat, NEW plan \in Nat, NEW liq \in Nat,
         supply >= MIN_TOTAL_SUPPLY, supply <= MAX_TOTAL_SUPPLY, bps <= MAX_TEAM_BPS,
         liq > 0
  PROVE  LET q == NewProject(u, sym, info, supply, bps, plan, liq)
         IN  /\ q \in Projects /\ Sound(q, 0, topo)
             /\ q.rv = liq /\ q.ab = params.budget /\ RefundOf(q) = 0
             /\ q.sp = 0 /\ q.rp = 0 /\ q.rd = 0
<1> DEFINE q == NewProject(u, sym, info, supply, bps, plan, liq)
           team == TeamAlloc(supply, bps)
           cs == supply - team
           ve == topo + params.duration
           dl == liq >= params.direct
<1>1. supply > 0 /\ bps \in 0..MAX_TEAM_BPS /\ MAX_TEAM_BPS \in Nat /\ MAX_TOTAL_SUPPLY \in Nat
  BY VaultConstants
<1>2. team \in 0..supply /\ team < supply /\ cs \in Nat /\ cs > 0
  BY <1>1, TeamBounds
<1>3. params.duration \in Nat /\ params.budget \in Nat /\ topo \in Nat /\ ve \in Nat
  <2>1. {"duration", "budget"} \subseteq Names /\ topo \in Nat
    BY VaultConstants DEF Names, TypeOK
  <2>. QED
    BY <2>1, ParamBounds
<1>4. 0 \in Rounds /\ 0 \in Amount /\ dl \in BOOLEAN
  BY VaultConstants DEF Rounds, Amount
<1> HIDE DEF team, ve, dl
<1>5. q = [creator |-> u, sym |-> sym, info |-> info, supply |-> supply,
           bps |-> bps, plan |-> plan, status |-> VALIDATION, lq |-> liq,
           ab |-> params.budget, rv |-> liq, cs |-> cs,
           dl |-> dl, ve |-> ve, rd |-> 0,
           sp |-> 0, rp |-> 0, gr |-> FALSE, rc |-> FALSE, bt |-> 0, paid |-> 0,
           vs |-> 0, vd |-> 0, ah |-> FALSE, mi |-> FALSE, mx |-> 0, mt |-> 0,
           dsy |-> FALSE, bv |-> 0, sv |-> 0, vo |-> 0, tc |-> 0, mc |-> 0, mh |-> 0,
           mg |-> 0]
  BY DEF NewProject, team, ve, dl
<1> HIDE DEF q, cs
<1>6. q \in Projects
  BY <1>1, <1>2, <1>3, <1>4, <1>5 DEF Projects
<1>7. /\ q.status = VALIDATION /\ q.lq = liq /\ q.rv = liq /\ q.cs = cs /\ q.supply = supply
      /\ q.bps = bps /\ q.ab = params.budget /\ q.sp = 0 /\ q.rp = 0 /\ q.rd = 0
      /\ q.gr = FALSE /\ q.rc = FALSE /\ q.ah = FALSE /\ q.mi = FALSE
      /\ q.paid = 0 /\ q.vs = 0
  BY <1>5
<1>8. Staged(q)
  BY <1>1, <1>7 DEF Staged, VALIDATION, REJECTED
<1>9. Escrowed(q, 0)
  <2>1. Team(q) = team /\ cs + (team - 0) = supply
    BY <1>2, <1>7 DEF Team, team, cs
  <2>. QED
    BY <1>1, <1>2, <1>7, <2>1 DEF Escrowed
<1>10. Vested(q, topo) /\ RefundOf(q) = 0
  BY <1>3, <1>7 DEF Vested, RefundOf, VALIDATION, REJECTED
<1>. QED
  BY <1>6, <1>7, <1>8, <1>9, <1>10 DEF Sound, q

LEMMA StepPropose ==
  ASSUME VaultInv, NEW u \in Wallets, NEW sym \in Symbols, NEW info \in Infos,
         NEW supply \in Nat, NEW bps \in Nat, NEW plan \in Nat, NEW dep \in Nat,
         Propose(u, sym, info, supply, bps, plan, dep)
  PROVE  VaultInv' /\ AllLive
<1> DEFINE liq == SeedOf(dep)
           q == NewProject(u, sym, info, supply, bps, plan, liq)
           i == count
<1>1. TypeOK /\ XelSolvency /\ OneVotePerRound /\ Numbered
  BY DEF VaultInv
<1>2. /\ count < MAX_PROJECTS /\ dep <= XelOutside
      /\ supply >= MIN_TOTAL_SUPPLY /\ supply <= MAX_TOTAL_SUPPLY /\ bps <= MAX_TEAM_BPS
      /\ liq >= params.minLiq
      /\ proj' = [proj EXCEPT ![i] = q]
      /\ ticker' = [ticker EXCEPT ![sym] = count]
      /\ count' = count + 1
      /\ books' = [books EXCEPT !.tcx = @ + liq, !.tbb = @ + params.budget,
                                !.pfe = @ + params.subFee]
      /\ xel' = xel + dep
      /\ UNCHANGED <<config, params, vote, moved, tok, topo>>
  BY DEF Propose, ProposeAccepted
<1>3. /\ books \in BookTypes /\ xel \in 0..XelSupply /\ XelSupply \in Nat
      /\ Committed + books.pfe <= xel /\ MAX_PROJECTS \in Nat
  BY <1>1, VaultConstants DEF TypeOK, BookTypes, XelSolvency
<1>4. i \in Ids /\ ~Proposed(i) /\ tok[i] = 0 /\ i \in Nat
      /\ \A r \in Rounds, w \in Wallets : vote[i][r][w] = None
  <2>1. count \in 0..MAX_PROJECTS
    BY <1>1 DEF TypeOK
  <2>2. count < MAX_PROJECTS
    BY <1>2
  <2>3. count \in Ids /\ count \in Nat /\ ~(count < count)
    BY <1>3, <2>1, <2>2 DEF Ids
  <2>. QED
    BY <1>1, <2>3 DEF Numbered
<1>5. /\ params.subFee \in Nat /\ params.budget \in Nat
      /\ liq \in Nat /\ liq > 0 /\ dep = liq + params.budget + params.subFee
  <2>1. {"subFee", "budget", "minLiq"} \subseteq Names
    BY DEF Names
  <2>2. /\ params.subFee \in Nat /\ params.budget \in Nat /\ params.minLiq \in Nat
        /\ params.minLiq >= Low.minLiq /\ Low.minLiq \in Nat /\ Low.minLiq > 0
    BY <1>1, <2>1, ParamBounds, VaultConstants
  <2>. QED
    BY <1>2, <2>2 DEF SeedOf
<1> HIDE DEF liq
<1>6. /\ q \in Projects /\ Sound(q, 0, topo)
      /\ q.rv = liq /\ q.ab = params.budget /\ RefundOf(q) = 0
      /\ q.sp = 0 /\ q.rp = 0 /\ q.rd = 0
  BY <1>1, <1>2, <1>5, NewSound
<1> HIDE DEF q
<1>7. Slot(i, "rv") = 0 /\ Slot(i, "ab") = 0 /\ Refundable(i) = 0
  BY <1>1, <1>4, SlotsOf
<1>8. /\ books.tcx \in Nat /\ books.lrf \in Nat
      /\ books.tbb \in Nat /\ books.tvp \in Nat /\ books.pfe \in Nat
  BY <1>3, BookFields
<1>9. /\ books' \in BookTypes /\ books'.lrf = books.lrf /\ books'.tcx = books.tcx + liq
      /\ books'.tbb = books.tbb + params.budget /\ books'.tvp = books.tvp
      /\ books'.pfe = books.pfe + params.subFee
  <2>1. /\ books.tcx + liq \in Nat /\ books.tbb + params.budget \in Nat
        /\ books.pfe + params.subFee \in Nat
    BY <1>5, <1>8
  <2>. QED
    BY <1>2, <1>3, <2>1 DEF BookTypes
<1>10. xel' \in 0..XelSupply /\ Committed' + books'.pfe <= xel'
  BY <1>2, <1>3, <1>5, <1>8, <1>9 DEF Committed, XelOutside
<1>11. tok' = [tok EXCEPT ![i] = 0]
  BY <1>1, <1>2, <1>4 DEF TypeOK
<1>12. Books(i, q, 0)
  <2>1. /\ books'.tcx = books.tcx - Slot(i, "rv") + q.rv
        /\ books'.lrf = books.lrf - Refundable(i) + RefundOf(q)
        /\ books'.tbb = books.tbb - Slot(i, "ab") + q.ab
    <3> HIDE DEF i
    <3>. QED
      BY <1>5, <1>6, <1>7, <1>8, <1>9
  <2>. QED
    BY <1>2, <1>6, <1>9, <1>10, <1>11, <2>1 DEF Books
<1>13. books'.tvp = Total(Stakes)'
  <2>1. Total(Stakes)' = Total(Stakes)
    BY <1>2 DEF Total, Units, Stakes, Locked, Ballots
  <2>. QED
    BY <1>1, <1>9, <2>1 DEF XelSolvency, Stakes, Ballots
<1>14. /\ XelSolvency'
       /\ proj' \in [Ids -> Projects \cup {None}] /\ tok' \in [Ids -> Nat]
       /\ \A j \in Ids : Proposed(j)' => Sound(proj[j], tok[j], topo)'
       /\ \A j \in Ids : Proposed(j)' <=> Proposed(j) \/ j = i
  BY <1>2, <1>4, <1>12, <1>13, BooksKeep
<1>15. TypeOK'
  <2>1. count' \in 0..MAX_PROJECTS
    BY <1>2, <1>3, <1>4
  <2>2. ticker' \in [Symbols -> Ids \cup {None}]
    BY <1>1, <1>2, <1>4 DEF TypeOK
  <2>. QED
    BY <1>1, <1>2, <1>9, <1>10, <1>14, <2>1, <2>2 DEF TypeOK, BookTypes
<1>16. Numbered'
  <2>1. \A j \in Ids : j < count + 1 <=> j < count \/ j = count
    BY <1>4, VaultConstants DEF Ids
  <2>2. \A j \in Ids : Proposed(j)' <=> j < count'
    BY <1>1, <1>2, <1>14, <2>1 DEF Numbered
  <2>. QED
    BY <1>1, <1>2, <1>14, <2>2 DEF Numbered
<1>17. OneVotePerRound'
  <2>1. proj'[i] = q /\ \A j \in Ids \ {i} : proj'[j] = proj[j]
    BY <1>1, <1>2, <1>4 DEF TypeOK
  <2>2. 0 \in Rounds /\ 0 + 0 = 0
    BY VaultConstants DEF Rounds
  <2>3. {w \in Wallets : vote'[i][0][w] # None} = {}
    BY <1>2, <1>4, <2>2
  <2>4. ASSUME NEW j \in Ids, Proposed(j)'
        PROVE  /\ proj'[j].sp + proj'[j].rp
                    = Cardinality({w \in Wallets : vote'[j][proj'[j].rd][w] # None})
               /\ \A r \in Rounds, w \in Wallets : vote'[j][r][w] # None => r <= proj'[j].rd
    <3>1. CASE j = i
      <4>1. q.sp + q.rp = Cardinality({w \in Wallets : vote'[i][q.rd][w] # None})
        BY <1>6, <2>2, <2>3, FS_EmptySet
      <4>2. \A r \in Rounds, w \in Wallets : vote'[i][r][w] = None
        BY <1>2, <1>4
      <4>. QED
        BY <2>1, <3>1, <4>1, <4>2
    <3>2. CASE j # i
      BY <1>1, <1>2, <1>14, <2>1, <2>4, <3>2 DEF OneVotePerRound
    <3>. QED
      BY <3>1, <3>2
  <2>. QED
    BY <2>4 DEF OneVotePerRound
<1>18. AllLive
  BY <1>1, <1>2, <1>4, <1>6, OneLives
<1>. QED
  BY <1>14, <1>15, <1>16, <1>17, <1>18 DEF VaultInv
-----------------------------------------------------------------------------
(* Administration, stray deposits and blocks: no project changes.          *)

LEMMA NoEntryKeeps ==
  ASSUME VaultInv, TypeOK', UNCHANGED <<count, proj, vote>>,
         books'.tcx = books.tcx, books'.lrf = books.lrf, books'.tbb = books.tbb,
         books'.tvp = books.tvp, Committed' + books'.pfe <= xel',
         \A i \in Ids : ~Proposed(i) => tok'[i] = 0,
         \A i \in Ids : Proposed(i) => Sound(proj[i], tok'[i], topo')
  PROVE  VaultInv' /\ AllLive
<1>1. TypeOK /\ XelSolvency /\ OneVotePerRound /\ Numbered
  BY DEF VaultInv
<1>2. /\ Total(Reserves)' = Total(Reserves) /\ Total(Refunds)' = Total(Refunds)
      /\ Total(Budgets)' = Total(Budgets) /\ Total(Stakes)' = Total(Stakes)
  BY DEF Total, Units, Reserves, Refunds, Budgets, Slot, Refundable, Proposed, Stakes,
         Ballots, Locked
<1>3. XelSolvency'
  BY <1>1, <1>2 DEF XelSolvency, Reserves, Refunds, Budgets, Stakes, Ballots
<1>4. OneVotePerRound' /\ Numbered'
  BY <1>1 DEF OneVotePerRound, Numbered, Proposed
<1>5. \A i \in Ids : Proposed(i)' => Sound(proj[i], tok[i], topo)'
  BY DEF Proposed, Sound, Staged, Escrowed, Vested, Team, TeamAlloc, FeeTake
<1>6. AllLive
  BY <1>1, NoneMoves
<1>. QED
  BY <1>3, <1>4, <1>5, <1>6 DEF VaultInv

\* The slots of the admin.
LEMMA AdminKeeps ==
  ASSUME VaultInv, TypeOK',
         UNCHANGED <<count, proj, ticker, vote, moved, books, xel, tok, topo>>
  PROVE  VaultInv' /\ AllLive
<1>1. Committed' + books'.pfe <= xel'
  BY DEF VaultInv, XelSolvency, Committed
<1>2. \A i \in Ids : ~Proposed(i) => tok'[i] = 0
  BY DEF VaultInv, Numbered
<1>3. \A i \in Ids : Proposed(i) => Sound(proj[i], tok'[i], topo')
  BY DEF VaultInv
<1>. QED
  BY <1>1, <1>2, <1>3, NoEntryKeeps

LEMMA ParamsKeep ==
  ASSUME VaultInv, NEW u, NEW v, Set(u, v), DOMAIN v = Names,
         \A f \in Names : v[f] \in Low[f]..High[f]
  PROVE  VaultInv' /\ AllLive
<1>1. params' = v /\ UNCHANGED <<config, count, proj, ticker, vote, moved, books, xel, tok, topo>>
  BY DEF Set
<1>2. TypeOK'
  BY <1>1 DEF VaultInv, TypeOK
<1>. QED
  BY <1>1, <1>2, AdminKeeps

LEMMA StepSetOne ==
  ASSUME VaultInv, NEW u, NEW f \in Names, NEW n \in Params[f], SetOne(u, f, n)
  PROVE  VaultInv' /\ AllLive
<1> DEFINE v == [params EXCEPT ![f] = n]
<1>1. n \in Low[f]..High[f]
  <2>1. n \in Nat /\ Low[f] \in Nat /\ High[f] \in Nat
    BY VaultConstants
  <2>. QED
    BY <2>1 DEF SetOne, Capped
<1>2. DOMAIN v = Names /\ \A g \in Names : v[g] \in Low[g]..High[g]
  BY <1>1 DEF VaultInv, TypeOK
<1>3. Set(u, v)
  BY DEF SetOne
<1>. QED
  BY <1>2, <1>3, ParamsKeep

LEMMA StepSetTwo ==
  ASSUME VaultInv, NEW u, NEW f \in Names, NEW g \in Names, NEW m \in Params[f],
         NEW n \in Params[g], Capped(f, m), Capped(g, n),
         Set(u, [params EXCEPT ![f] = m, ![g] = n])
  PROVE  VaultInv' /\ AllLive
<1> DEFINE v == [params EXCEPT ![f] = m, ![g] = n]
<1>1. m \in Low[f]..High[f] /\ n \in Low[g]..High[g]
  <2>1. /\ n \in Nat /\ Low[f] \in Nat /\ High[f] \in Nat
        /\ m \in Nat /\ Low[g] \in Nat /\ High[g] \in Nat
    BY VaultConstants
  <2>. QED
    BY <2>1 DEF Capped
<1>2. DOMAIN v = Names /\ \A h \in Names : v[h] \in Low[h]..High[h]
  BY <1>1 DEF VaultInv, TypeOK
<1>. QED
  BY <1>2, ParamsKeep

LEMMA StepTune ==
  ASSUME VaultInv, NEW u, Tune(u)
  PROVE  VaultInv' /\ AllLive
<1>1. /\ "subFee" \in Names /\ "budget" \in Names /\ "minLiq" \in Names
      /\ "tradeFee" \in Names /\ "gradFee" \in Names /\ "migFee" \in Names
      /\ "direct" \in Names /\ "minPart" \in Names /\ "approval" \in Names
      /\ "duration" \in Names /\ "mult" \in Names /\ "delay" \in Names
      /\ "vestMin" \in Names /\ "vestMax" \in Names /\ "recFee" \in Names
      /\ "recPart" \in Names /\ "recRatio" \in Names /\ "voteDep" \in Names
  BY DEF Names
<1>2. \/ \E f \in Names : \E n \in Params[f] : SetOne(u, f, n)
      \/ \E m \in Params.vestMin, n \in Params.vestMax : SetVestingBounds(u, m, n)
      \/ \E m \in Params.recPart, n \in Params.recRatio : SetRecoveryParams(u, m, n)
  BY <1>1 DEF Tune, SetSubmissionFee, SetTradingFee, SetGraduatedTradingFee, SetMigrationFee,
       SetDirectListingThreshold, SetMinLiquidity, SetMinParticipants, SetMinApprovalRatio,
       SetValidationDuration, SetGraduationMultiplier, SetTeamUnlockDelay, SetRecoveryFee,
       SetAssetBudget, SetVoteDeposit
<1>3. CASE \E f \in Names : \E n \in Params[f] : SetOne(u, f, n)
  BY <1>3, StepSetOne
<1>4. CASE \E m \in Params.vestMin, n \in Params.vestMax : SetVestingBounds(u, m, n)
  BY <1>1, <1>4, StepSetTwo DEF SetVestingBounds
<1>5. CASE \E m \in Params.recPart, n \in Params.recRatio : SetRecoveryParams(u, m, n)
  BY <1>1, <1>5, StepSetTwo DEF SetRecoveryParams
<1>. QED
  BY <1>2, <1>3, <1>4, <1>5

LEMMA StepWithdrawFees ==
  ASSUME VaultInv, NEW u, NEW n \in Nat, WithdrawFees(u, n)
  PROVE  VaultInv' /\ AllLive
<1>1. TypeOK /\ XelSolvency
  BY DEF VaultInv
<1>2. /\ n <= books.pfe /\ n + Committed <= xel
      /\ books' = [books EXCEPT !.pfe = @ - n, !.fcl = @ + n]
      /\ xel' = xel - n
      /\ UNCHANGED <<config, params, count, proj, ticker, vote, moved, tok, topo>>
  BY DEF WithdrawFees
<1>3. /\ books \in BookTypes /\ xel \in 0..XelSupply /\ XelSupply \in Nat
      /\ Committed + books.pfe <= xel
  BY <1>1, VaultConstants DEF TypeOK, BookTypes, XelSolvency
<1>4. /\ books.tcx \in Nat /\ books.lrf \in Nat /\ books.fcl \in Nat
      /\ books.tbb \in Nat /\ books.tvp \in Nat /\ books.pfe \in Nat
  BY <1>3, BookFields
<1>5. /\ books' \in BookTypes /\ books'.lrf = books.lrf /\ books'.tcx = books.tcx
      /\ books'.tbb = books.tbb /\ books'.tvp = books.tvp /\ books'.pfe = books.pfe - n
  <2>1. books.pfe - n \in Nat /\ books.fcl + n \in Nat
    BY <1>2, <1>4
  <2>. QED
    BY <1>2, <1>3, <2>1 DEF BookTypes
<1>6. xel' \in 0..XelSupply /\ Committed' + books'.pfe <= xel'
  BY <1>2, <1>3, <1>4, <1>5 DEF Committed
<1>7. TypeOK'
  BY <1>1, <1>2, <1>5, <1>6 DEF TypeOK, BookTypes
<1>8. /\ \A i \in Ids : ~Proposed(i) => tok'[i] = 0
      /\ \A i \in Ids : Proposed(i) => Sound(proj[i], tok'[i], topo')
  BY <1>2 DEF VaultInv, Numbered
<1>. QED
  BY <1>2, <1>5, <1>6, <1>7, <1>8, NoEntryKeeps

LEMMA StepGovern ==
  ASSUME VaultInv, NEW u, Govern(u)
  PROVE  VaultInv' /\ AllLive
<1>1. TypeOK /\ AddrArgs \subseteq Wallets /\ FlagArgs \subseteq BOOLEAN /\ Deposits \subseteq Nat
  BY VaultConstants DEF VaultInv
<1>2. CASE \E v \in AddrArgs : SetAdmin(u, v)
  <2>1. PICK v \in AddrArgs : SetAdmin(u, v)
    BY <1>2
  <2>2. /\ config' = [config EXCEPT !.admin = v]
        /\ UNCHANGED <<params, count, proj, ticker, vote, moved, books, xel, tok, topo>>
    BY <2>1 DEF SetAdmin, SetConfig
  <2>3. TypeOK'
    BY <1>1, <2>1, <2>2 DEF TypeOK
  <2>. QED
    BY <2>2, <2>3, AdminKeeps
<1>3. CASE \E v \in DexArgs : SetDexAddress(u, v)
  <2>1. PICK v \in DexArgs : SetDexAddress(u, v)
    BY <1>3
  <2>2. /\ config' = [config EXCEPT !.dex = v]
        /\ UNCHANGED <<params, count, proj, ticker, vote, moved, books, xel, tok, topo>>
    BY <2>1 DEF SetDexAddress, SetConfig
  <2>3. TypeOK'
    BY <1>1, <2>1, <2>2 DEF TypeOK
  <2>. QED
    BY <2>2, <2>3, AdminKeeps
<1>4. CASE \E v \in FlagArgs : SetPaused(u, v)
  <2>1. PICK v \in FlagArgs : SetPaused(u, v)
    BY <1>4
  <2>2. /\ config' = [config EXCEPT !.paused = v]
        /\ UNCHANGED <<params, count, proj, ticker, vote, moved, books, xel, tok, topo>>
    BY <2>1 DEF SetPaused, SetConfig
  <2>3. TypeOK'
    BY <1>1, <2>1, <2>2 DEF TypeOK
  <2>. QED
    BY <2>2, <2>3, AdminKeeps
<1>5. CASE \E n \in Deposits : WithdrawFees(u, n)
  BY <1>1, <1>5, StepWithdrawFees
<1>. QED
  BY <1>2, <1>3, <1>4, <1>5 DEF Govern

LEMMA StepStrayXel ==
  ASSUME VaultInv, NEW n \in Nat, StrayXel(n)
  PROVE  VaultInv' /\ AllLive
<1>1. TypeOK /\ XelSolvency
  BY DEF VaultInv
<1>2. /\ n <= XelOutside /\ xel' = xel + n
      /\ UNCHANGED <<config, params, count, proj, ticker, vote, moved, books, tok, topo>>
  BY DEF StrayXel
<1>3. /\ books \in BookTypes /\ xel \in 0..XelSupply /\ XelSupply \in Nat
      /\ Committed + books.pfe <= xel
  BY <1>1, VaultConstants DEF TypeOK, BookTypes, XelSolvency
<1>4. /\ books.tcx \in Nat /\ books.lrf \in Nat
      /\ books.tbb \in Nat /\ books.tvp \in Nat /\ books.pfe \in Nat
  BY <1>3, BookFields
<1>5. xel' \in 0..XelSupply /\ Committed' + books'.pfe <= xel'
  BY <1>2, <1>3, <1>4 DEF Committed, XelOutside
<1>6. TypeOK'
  BY <1>1, <1>2, <1>5 DEF TypeOK
<1>7. /\ \A i \in Ids : ~Proposed(i) => tok'[i] = 0
      /\ \A i \in Ids : Proposed(i) => Sound(proj[i], tok'[i], topo')
  BY <1>2 DEF VaultInv, Numbered
<1>. QED
  BY <1>2, <1>5, <1>6, <1>7, NoEntryKeeps

LEMMA StepStrayTokens ==
  ASSUME VaultInv, NEW i \in Ids, NEW n \in Nat, StrayTokens(i, n)
  PROVE  VaultInv' /\ AllLive
<1>1. /\ Proposed(i) /\ proj[i].ah /\ n <= proj[i].supply - tok[i]
      /\ tok' = [tok EXCEPT ![i] = @ + n]
      /\ UNCHANGED <<config, params, count, proj, ticker, vote, moved, books, xel, topo>>
  BY DEF StrayTokens, TokOutside
<1>2. /\ TypeOK /\ proj[i] \in Projects /\ tok[i] \in Nat
      /\ Staged(proj[i]) /\ Escrowed(proj[i], tok[i]) /\ Vested(proj[i], topo)
  BY <1>1, AtProject
<1>3. TypeOK' /\ tok'[i] = tok[i] + n /\ \A j \in Ids \ {i} : tok'[j] = tok[j]
  <2>0. tok \in [Ids -> Nat]
    BY <1>2 DEF TypeOK
  <2>1. tok' \in [Ids -> Nat] /\ tok'[i] = tok[i] + n /\ \A j \in Ids \ {i} : tok'[j] = tok[j]
    BY <1>1, <1>2, <2>0
  <2>. QED
    BY <1>1, <1>2, <2>1 DEF TypeOK
<1>4. Escrowed(proj[i], tok[i] + n)
  <2>1. /\ proj[i].supply \in Nat /\ proj[i].cs \in Nat /\ proj[i].paid \in Nat
        /\ Team(proj[i]) \in 0..proj[i].supply
    BY <1>2, ProjectTypes
  <2>. QED
    BY <1>1, <1>2, <2>1 DEF Escrowed
<1>5. \A j \in Ids : ~Proposed(j) => tok'[j] = 0
  BY <1>1, <1>3 DEF VaultInv, Numbered
<1>6. \A j \in Ids : Proposed(j) => Sound(proj[j], tok'[j], topo')
  BY <1>1, <1>2, <1>3, <1>4 DEF VaultInv, Sound
<1>7. Committed' + books'.pfe <= xel'
  BY <1>1 DEF VaultInv, XelSolvency, Committed
<1>. QED
  BY <1>1, <1>3, <1>5, <1>6, <1>7, NoEntryKeeps

LEMMA StepTick ==
  ASSUME VaultInv, Tick
  PROVE  VaultInv' /\ AllLive
<1>1. /\ topo < MAX_TOPO /\ topo' = topo + 1 /\ TypeOK
      /\ UNCHANGED <<config, params, count, proj, ticker, vote, moved, books, xel, tok>>
  BY DEF Tick, VaultInv
<1>2. topo \in Nat /\ MAX_TOPO \in Nat /\ topo >= 1
  BY <1>1, HeightTypes
<1>3. TypeOK'
  <2>1. topo' \in 1..MAX_TOPO
    BY <1>1, <1>2
  <2>. QED
    BY <1>1, <2>1 DEF TypeOK
<1>4. \A i \in Ids : ~Proposed(i) => tok'[i] = 0
  BY <1>1 DEF VaultInv, Numbered
<1>5. ASSUME NEW i \in Ids, Proposed(i)  PROVE Sound(proj[i], tok'[i], topo')
  <2>1. proj[i].vs \in Nat /\ Sound(proj[i], tok[i], topo)
    BY <1>5, AtProject, ProjectTypes DEF VaultInv
  <2>. QED
    BY <1>1, <1>2, <2>1 DEF Sound, Vested
<1>6. Committed' + books'.pfe <= xel'
  BY <1>1 DEF VaultInv, XelSolvency, Committed
<1>. QED
  BY <1>1, <1>3, <1>4, <1>5, <1>6, NoEntryKeeps
-----------------------------------------------------------------------------
(* The whole system.                                                       *)

LEMMA StepClose ==
  ASSUME VaultInv, NEW i \in Ids, Close(i)
  PROVE  VaultInv' /\ AllLive
<1>1. Deposits \subseteq Nat /\ AssetCosts \subseteq Nat
  BY VaultConstants
<1>2. PICK topup \in Deposits, cost \in AssetCosts : FinalizeValidation(i, topup, cost)
  BY DEF Close
<1>3. topup \in Nat /\ cost \in Nat
  BY <1>1
<1>4. /\ Proposed(i) /\ topo >= proj[i].ve /\ topup <= XelOutside
      /\ Accept(i, topup, cost) \/ Reject(i, topup) \/ Recover(i, topup)
      /\ UNCHANGED <<config, params, count, ticker, vote, moved, topo>>
  BY <1>2 DEF FinalizeValidation
<1>. QED
  BY <1>3, <1>4, StepAccept, StepReject, StepRecover

LEMMA StepFound ==
  ASSUME VaultInv, NEW u, NEW i \in Ids, Found(u, i)
  PROVE  VaultInv' /\ AllLive
<1>1. Deposits \subseteq Nat /\ Plans \subseteq Nat
  BY VaultConstants
<1>2. CASE \E dep \in Deposits : RequestRevalidation(u, i, dep)
  BY <1>1, <1>2, StepRequestRevalidation
<1>3. CASE ClaimRefund(u, i)
  BY <1>3, StepClaimRefund
<1>4. CASE \E info \in Infos : UpdateProjectInfo(u, i, info)
  BY <1>4, StepUpdateProjectInfo
<1>5. CASE \E dur \in Plans : StartTeamVesting(u, i, dur)
  BY <1>1, <1>5, StepStartTeamVesting
<1>6. CASE ClaimTeamAllocation(u, i)
  BY <1>6, StepClaimTeamAllocation
<1>. QED
  BY <1>2, <1>3, <1>4, <1>5, <1>6 DEF Found

LEMMA StepNext ==
  ASSUME VaultInv, Next
  PROVE  VaultInv' /\ AllLive
<1>1. /\ Deposits \subseteq Nat /\ Sales \subseteq Nat /\ Plans \cup {0} \subseteq Nat
      /\ Supplies \subseteq Nat /\ TeamBpsArgs \subseteq Nat /\ StrayArgs \subseteq Nat
  BY VaultConstants
<1>2. CASE \E u \in Wallets : Create(u)
  <2>1. PICK u \in Wallets : Create(u)
    BY <1>2
  <2>2. PICK sym \in Symbols, info \in Infos, supply \in Supplies, bps \in TeamBpsArgs,
             plan \in Plans \cup {0}, dep \in Deposits :
             Propose(u, sym, info, supply, bps, plan, dep)
    BY <2>1 DEF Create
  <2>3. supply \in Nat /\ bps \in Nat /\ plan \in Nat /\ dep \in Nat
    BY <1>1
  <2>. QED
    BY <2>2, <2>3, StepPropose
<1>3. CASE \E u \in Wallets : Tune(u) \/ Govern(u)
  BY <1>3, StepTune, StepGovern
<1>4. CASE \E u \in Wallets, i \in Ids : Ballot(u, i)
  <2>1. PICK u \in Wallets, i \in Ids : Ballot(u, i)
    BY <1>4
  <2>2. CASE \E dep \in Deposits : Support(u, i, dep) \/ Report(u, i, dep)
    BY <1>1, <2>2, StepSupport, StepReport
  <2>3. CASE \E r \in Rounds : ClaimVoteDeposit(u, i, r)
    BY <2>3, StepClaimVoteDeposit
  <2>. QED
    BY <2>1, <2>2, <2>3 DEF Ballot
<1>5. CASE \E u \in Wallets, i \in Ids : Found(u, i)
  BY <1>5, StepFound
<1>6. CASE \E i \in Ids : Close(i)
  BY <1>6, StepClose
<1>7. CASE \E i \in Ids : Trade(i)
  BY <1>1, <1>7, StepBuy, StepSell DEF Trade
<1>8. CASE \E n \in StrayArgs : StrayXel(n) \/ \E i \in Ids : StrayTokens(i, n)
  BY <1>1, <1>8, StepStrayXel, StepStrayTokens
<1>9. CASE Tick
  BY <1>9, StepTick
<1>10. CASE \E i \in Ids : Migrate(i) \/ SyncTrustToDex(i)
  BY <1>10, StepMigrate, StepSyncTrustToDex
<1>. QED
  BY <1>2, <1>3, <1>4, <1>5, <1>6, <1>7, <1>8, <1>9, <1>10 DEF Next, NextHere

LEMMA StepInv == VaultInv /\ [Next]_vars => VaultInv' /\ AllLive
<1> SUFFICES ASSUME VaultInv, [Next]_vars
             PROVE  VaultInv' /\ AllLive
  OBVIOUS
<1>1. CASE Next
  BY <1>1, StepNext
<1>2. CASE UNCHANGED vars
  <2>1. UNCHANGED <<config, params, count, proj, ticker, vote, moved, books, xel, tok, topo>>
    BY <1>2 DEF vars
  <2>2. TypeOK'
    BY <2>1 DEF VaultInv, TypeOK
  <2>. QED
    BY <2>1, <2>2, AdminKeeps
<1>. QED
  BY <1>1, <1>2

LEMMA InitInv == Init => VaultInv
<1> SUFFICES ASSUME Init PROVE VaultInv
  OBVIOUS
<1>1. /\ count = 0 /\ proj = [i \in Ids |-> None] /\ moved = <<>> /\ xel = 0
      /\ vote = [i \in Ids |-> [r \in Rounds |-> [w \in Wallets |-> None]]]
      /\ books = [tcx |-> 0, pfe |-> 0, fcl |-> 0, lrf |-> 0, tbb |-> 0, tvp |-> 0,
                  tbv |-> 0, tsv |-> 0, tvl |-> 0, ttc |-> 0]
      /\ tok = [i \in Ids |-> 0]
  BY DEF Init
<1>2. TypeOK
  <2>1. config \in [admin : Wallets, paused : BOOLEAN, dex : DexArgs \cup {None}]
    BY DEF Init
  <2>2. DOMAIN params = Names /\ \A f \in Names : params[f] \in Low[f]..High[f]
    BY VaultConstants DEF Init
  <2>3. topo \in 1..MAX_TOPO
    <3>1. MAX_TOPO \in Nat \ {0} /\ topo = 1
      BY VaultConstants DEF Init
    <3>. QED
      BY <3>1
  <2>4. count \in 0..MAX_PROJECTS /\ xel \in 0..XelSupply
    <3>1. MAX_PROJECTS \in Nat /\ XelSupply \in Nat
      BY VaultConstants
    <3>. QED
      BY <1>1, <3>1
  <2>5. ticker \in [Symbols -> Ids \cup {None}]
    BY DEF Init
  <2>. QED
    BY <1>1, <2>1, <2>2, <2>3, <2>4, <2>5 DEF TypeOK
<1>3. \A i \in Ids : ~Proposed(i)
  BY <1>1 DEF Proposed
<1>4. Numbered
  <2>1. \A i \in Ids : ~(i < count)
    BY <1>1, VaultConstants DEF Ids
  <2>. QED
    BY <1>1, <1>3, <2>1 DEF Numbered
<1>5. XelSolvency
  <2>1. /\ \A i \in Ids : Reserves[i] = 0 /\ Refunds[i] = 0 /\ Budgets[i] = 0
        /\ \A s \in Ballots : Stakes[s] = 0
    <3>1. \A i \in Ids : Slot(i, "rv") = 0 /\ Refundable(i) = 0 /\ Slot(i, "ab") = 0
      BY <1>3 DEF Slot, Refundable
    <3>2. \A i \in Ids, r \in Rounds, w \in Wallets : Locked(i, r, w) = 0
      BY <1>1 DEF Locked
    <3>. QED
      BY <3>1, <3>2 DEF Reserves, Refunds, Budgets, Stakes, Ballots
  <2>2. /\ Total(Reserves) = 0 /\ Total(Refunds) = 0 /\ Total(Budgets) = 0
        /\ Total(Stakes) = 0
    BY <1>2, <2>1, SumTypes, TotalZero
  <2>3. Committed + books.pfe <= xel
    BY <1>1 DEF Committed
  <2>. QED
    BY <1>1, <2>2, <2>3 DEF XelSolvency, Reserves, Refunds, Budgets, Stakes, Ballots
<1>. QED
  BY <1>2, <1>3, <1>4, <1>5 DEF VaultInv, OneVotePerRound

\* In every reachable state every project is sound, the accumulators are the
\* sums over the projects and the ballots, and the tallies count the wallets:
\* what every entry relies on and leaves.
THEOREM VaultHolds == Spec => []VaultInv
BY InitInv, StepInv, PTL DEF Spec

\* Every slot of VaultLaunch keeps its type and every parameter its caps: no
\* subtraction of a reserve, of an accumulator or of a balance underflows.
THEOREM Typed == Spec => []TypeOK
<1>1. VaultInv => TypeOK
  BY DEF VaultInv
<1>. QED
  BY <1>1, VaultHolds, PTL

LEMMA InvSolvent == VaultInv => Solvency
<1> SUFFICES ASSUME VaultInv PROVE Solvency
  OBVIOUS
<1>1. ASSUME NEW i \in Ids, Proposed(i), proj[i].ah
      PROVE  LET p == proj[i]
             IN  /\ p.paid <= Team(p)
                 /\ p.cs + Team(p) - p.paid <= tok[i] /\ tok[i] <= p.supply
  <2> DEFINE p == proj[i]
  <2>1. p \in Projects /\ Escrowed(p, tok[i])
    BY <1>1, AtProject
  <2>2. p.cs \in Nat /\ Team(p) \in Nat /\ p.paid \in Nat
    BY <2>1, ProjectTypes
  <2>3. p.cs + (Team(p) - p.paid) = p.cs + Team(p) - p.paid
    BY <2>2
  <2>. QED
    BY <1>1, <2>1, <2>3 DEF Escrowed
<1>. QED
  BY <1>1 DEF Solvency, TokenSolvency, VaultInv

\* I2, D20, I1, I10: the accumulators are exact, the balance of XEL covers
\* them with the pending fees, and each asset's balance covers its curve and
\* its team's escrow, whatever the supplies, the rates and the costs.
THEOREM Solvent == Spec => []Solvency
BY VaultHolds, InvSolvent, PTL
-----------------------------------------------------------------------------
(* The ways out of a curve.                                                *)

LEMMA InvSells == VaultInv => SellsOpen
<1> SUFFICES ASSUME VaultInv, NEW i \in Ids, Proposed(i), proj[i].ah, ~proj[i].mi,
                    NEW dep \in 1..TokOutside(i),
                    SellQuote(proj[i], dep) >= 1,
                    Checked(books.pfe + SellOut(proj[i], dep) - SellQuote(proj[i], dep)),
                    RecordChecked(proj[i].sv, books.tsv, proj[i].vo, proj[i].tc,
                                  SellOut(proj[i], dep))
             PROVE  SellAccepted(i, dep) /\ SellOut(proj[i], dep) < proj[i].rv
  BY DEF SellsOpen
<1> DEFINE p     == proj[i]
           gross == SellOut(p, dep)
           fee   == FeeTake(gross, TradingFee(p))
<1>1. /\ TypeOK /\ p \in Projects /\ tok[i] \in Nat /\ Staged(p)
      /\ p.rv <= books.tcx /\ books \in BookTypes /\ xel \in 0..XelSupply /\ XelSupply \in Nat
      /\ Committed + books.pfe <= xel
  BY AtProject
<1>2. p.rv \in Nat /\ p.cs \in Nat /\ p.rv > 0 /\ p.cs > 0 /\ p.status \in Selling
  BY <1>1, ProjectTypes DEF Staged
<1>3. TokOutside(i) \in Int /\ dep \in Nat /\ dep >= 1 /\ dep <= TokOutside(i)
  <2>1. p.supply \in Nat
    BY <1>1, ProjectTypes
  <2>2. TokOutside(i) = p.supply - tok[i]
    BY DEF TokOutside
  <2> HIDE DEF p
  <2>3. TokOutside(i) \in Int
    BY <1>1, <2>1, <2>2
  <2>. QED
    BY <2>3
<1>4. gross \in Nat /\ gross < p.rv /\ fee \in 0..gross
  BY <1>2, <1>3, SellBounds
<1>5. SellQuote(p, dep) = gross - fee
  BY DEF SellQuote
<1>6. RecordChecked(p.sv, books.tsv, p.vo, p.tc, gross)
  OBVIOUS
<1>7. Checked(books.pfe + gross - (gross - fee))
  BY <1>5
<1> HIDE DEF gross, fee
<1>8. /\ books.tcx \in Nat /\ books.lrf \in Nat
      /\ books.tbb \in Nat /\ books.tvp \in Nat /\ books.pfe \in Nat
  BY <1>1, BookFields
<1>9. books.pfe + gross - (gross - fee) = books.pfe + fee
  BY <1>4, <1>8
<1>10. gross - fee >= 1 /\ gross >= 1
  <2>1. gross - fee >= 1
    BY <1>5 DEF gross, fee
  <2>. QED
    BY <1>4, <2>1
<1>11. gross <= p.rv /\ gross <= books.tcx /\ gross - fee <= xel
  BY <1>1, <1>2, <1>4, <1>8 DEF Committed
<1>12. Checked(books.pfe + fee)
  BY <1>7, <1>9
<1>13. SellGate(p)
  BY <1>2 DEF SellGate
<1>14. SellAccepted(i, dep)
  BY <1>2, <1>3, <1>6, <1>10, <1>11, <1>12, <1>13 DEF SellAccepted, gross, fee
<1>. QED
  BY <1>4, <1>14 DEF gross

LEMMA InvMigrates == VaultInv => MigrationReady
<1> SUFFICES ASSUME VaultInv, NEW i \in Ids, Proposed(i), proj[i].gr, ~proj[i].mi,
                    config.dex # None
             PROVE  MigrateAccepted(i)
  BY DEF MigrationReady
<1> DEFINE p == proj[i]
<1>1. /\ TypeOK /\ p \in Projects /\ tok[i] \in Nat /\ Staged(p) /\ Escrowed(p, tok[i])
      /\ p.rv <= books.tcx /\ books \in BookTypes /\ xel \in 0..XelSupply /\ XelSupply \in Nat
      /\ Committed + books.pfe <= xel
  BY AtProject
<1>2. p.ah /\ p.rv > 0 /\ p.cs > 0
  BY <1>1 DEF Staged
<1>3. /\ p.rv \in Nat /\ p.cs \in Nat /\ Team(p) \in Nat /\ p.paid \in Nat
      /\ books.tcx \in Nat /\ books.lrf \in Nat
      /\ books.tbb \in Nat /\ books.tvp \in Nat /\ books.pfe \in Nat
  BY <1>1, BookFields, ProjectTypes
<1>4. p.rv >= 1 /\ p.cs >= 1 /\ p.rv <= xel
  BY <1>1, <1>2, <1>3 DEF Committed
<1>5. p.cs + TeamRemaining(p) <= tok[i]
  <2>1. TeamRemaining(p) = Team(p) - p.paid
    BY <1>1, <1>3 DEF TeamRemaining, Floor0, Escrowed
  <2>. QED
    BY <1>1, <1>2, <2>1 DEF Escrowed
<1>. QED
  BY <1>1, <1>2, <1>4, <1>5 DEF MigrateAccepted

\* I8, D15: in every reachable state, for every holding, no status, window or
\* pause refuses a sell the curve prices at one unit or more, the lifetime
\* counters permitting, and a graduated project can always move to the DEX.
THEOREM ExitsStayOpen == Spec => []ExitsOpen
<1>1. VaultInv => ExitsOpen
  BY InvSells, InvMigrates DEF ExitsOpen
<1>. QED
  BY <1>1, VaultHolds, PTL
-----------------------------------------------------------------------------
(* The steps.                                                              *)

\* I5, I6, D4, D9, I9: no entry counts a wallet twice, moves a project off its
\* lifecycle, lets a vote or a window leave a distrusted project open to buys,
\* or graduates it twice or late, for any tallies, bars and parameters.
THEOREM LifecycleHolds == Spec => Lifecycle
<1>1. VaultInv /\ [Next]_vars => OneVotePerRound'
  BY StepInv DEF VaultInv
<1>2. VaultInv /\ [Next]_vars =>
        \A i \in Ids : Proposed(i) =>
          LET p == proj[i]  q == proj'[i]
          IN  /\ q # None /\ (p.gr => q.gr) /\ (p.mi => q.mi)
              /\ q.status # p.status =>
                   \/ /\ p.status = VALIDATION /\ topo >= p.ve
                      /\ \/ q.status = REJECTED /\ ~q.ah
                         \/ q.status = (IF p.dl THEN GRADUATED ELSE BONDING) /\ q.ah
                   \/ p.status = BONDING /\ q.status = GRADUATED /\ q.bv > p.bv
                   \/ /\ p.status \in Buying /\ q.status = UNTRUSTED
                      /\ 2 * q.rp > q.sp + q.rp
                   \/ p.status = UNTRUSTED /\ q.status = RECOVERY /\ q.rd > p.rd
                   \/ /\ p.status = RECOVERY /\ topo >= p.ve
                      /\ \/ q.status = UNTRUSTED
                         \/ /\ q.status = (IF p.gr THEN TRUSTED ELSE BONDING)
                            /\ p.gr => Reaches(p.sp, p, params.recPart, params.recRatio)
              /\ q.gr # p.gr => q.status = GRADUATED
  BY StepInv DEF AllLive, Lives, Path
<1>3. VaultInv /\ [Next]_vars =>
        \A i \in Ids : Proposed(i) =>
          LET p == proj[i]  q == proj'[i]
          IN  /\ <<p.sp, p.rp>> # <<q.sp, q.rp>> \/ (p.status \in Voting /\ q.status # p.status)
              /\ q.status \in Buying
              => ~Distrusted(q)
  BY StepInv DEF AllLive, Lives, Trusted
<1>4. VaultInv /\ [Next]_vars =>
        \A i \in Ids : Proposed(i) =>
          LET p == proj[i]  q == proj'[i]
          IN  /\ p.tc < q.tc /\ q.bv > p.bv /\ q.status = BONDING =>
                   q.rv < q.lq * params.mult
              /\ q.gr # p.gr =>
                   LET dep == q.bv - p.bv
                       grown == p.rv + dep - FeeTake(dep, params.tradeFee)
                   IN  /\ q.rv = grown - FeeTake(grown, params.migFee)
                       /\ q.mg = q.mc
                       /\ p.status = BONDING => grown >= p.lq * params.mult
              /\ q.gr = p.gr => q.mg = p.mg
  BY StepInv DEF AllLive, Lives, Graduating
<1>. QED
  BY <1>1, <1>2, <1>3, <1>4, VaultHolds, PTL
     DEF Spec, Lifecycle, StatusPaths, TrustLossNotMissed, GraduationOnce

\* I4, D3, D10: no entry pays team tokens beyond what has unlocked, and none
\* replaces a stream, whatever the plan, the delay and the height.
THEOREM VestingHolds == Spec => VestingKept
<1>1. VaultInv /\ [Next]_vars =>
        \A i \in Ids : Proposed(i) =>
          LET p == proj[i]  q == proj'[i]
          IN  /\ p.vs > 0 => <<q.vs, q.vd>> = <<p.vs, p.vd>>
              /\ q.paid > p.paid =>
                   /\ p.vs > 0 => q.paid * p.vd <= Team(p) * (topo - p.vs)
                   /\ p.gr /\ p.plan > 0 => p.vs > 0 /\ p.vd = p.plan
                   /\ ~p.gr /\ p.vs = 0 => p.bt > 0 /\ topo >= p.bt + Low.delay
  BY StepInv DEF AllLive, Lives, Vests
<1>. QED
  BY <1>1, VaultHolds, PTL DEF Spec, VestingKept
=============================================================================

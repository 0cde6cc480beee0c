----------------------------- MODULE CacheProofs -----------------------------
(***************************************************************************)
(* Proofs about the cache savings proof and the sweep under it, for every  *)
(* set of labelled pairs and every similarity the embedder gives them, and *)
(* for every grid that goes up.                                            *)
(***************************************************************************)
EXTENDS CacheProof, FiniteSetTheorems, WellFoundedInduction, TLAPS

-----------------------------------------------------------------------------
(***************************************************************************)
(* Least and greatest elements.                                            *)
(***************************************************************************)
LEMMA MinIs ==
  ASSUME NEW S \in SUBSET Nat, S # {}
  PROVE  Min(S) \in S /\ \A u \in S : Min(S) <= u
<1> DEFINE R == OpToRel(<, Nat)
<1>1. IsWellFoundedOn(R, Nat)
  BY NatLessThanWellFounded
<1>2. PICK x \in S : \A y \in S : ~ (<<y, x>> \in R)
  BY <1>1, WFMin, Zenon
<1>3. \A y \in S : ~ (y < x)
  BY <1>2 DEF OpToRel
<1>4. \A y \in S : x <= y
  BY <1>3, SMT
<1> QED  BY <1>4 DEF Min

LEMMA MaxIs ==
  ASSUME NEW k \in Nat, NEW S \in SUBSET (0..k), S # {}
  PROVE  Max(S) \in S /\ \A u \in S : u <= Max(S)
<1> DEFINE T == {i \in Nat : k - i \in S}
           m == Min(T)
<1>1. \A u \in S : k - u \in T
  <2> TAKE u \in S
  <2>1. k - u \in Nat /\ k - (k - u) = u
    OBVIOUS
  <2> QED  BY <2>1
<1>2. T \in SUBSET Nat /\ T # {}
  BY <1>1
<1> HIDE DEF T
<1>3. m \in T /\ \A i \in T : m <= i
  BY <1>2, MinIs
<1> HIDE DEF m
<1>4. k - m \in S /\ m \in Nat
  BY <1>3 DEF T
<1>5. \A u \in S : u <= k - m
  <2> TAKE u \in S
  <2>1. m <= k - u /\ u \in Nat
    BY <1>1, <1>3
  <2> QED  BY <1>4, <2>1
<1> QED  BY <1>4, <1>5 DEF Max

-----------------------------------------------------------------------------
(***************************************************************************)
(* The sweep.  A list of points has a best one, and where the collisions   *)
(* fall at all they fall at the knee.                                      *)
(***************************************************************************)
(* What max() compares: j is not better than k. *)
NoBetter(points, j, k) ==
  \/ points[j].tp < points[k].tp
  \/ points[j].tp = points[k].tp /\ points[j].fp > points[k].fp
  \/ points[j].tp = points[k].tp /\ points[j].fp = points[k].fp /\ j <= k

LEMMA BestExists ==
  ASSUME NEW n \in Nat, NEW points, NEW N \in Nat,
         \A k \in 1..n : points[k].tp \in 0..N /\ points[k].fp \in Nat,
         NEW pool \in SUBSET (1..n), pool # {}
  PROVE  \E k \in pool : \A j \in pool : NoBetter(points, j, k)
<1> DEFINE most  == Max({points[k].tp : k \in pool})
           A     == {k \in pool : points[k].tp = most}
           least == Min({points[k].fp : k \in A})
           B     == {k \in A : points[k].fp = least}
           b     == Max(B)
<1>0. \A k \in pool : points[k].tp \in 0..N /\ points[k].fp \in Nat
  OBVIOUS
<1>1. A # {} /\ \A k \in pool : points[k].tp <= most
  <2> DEFINE T == {points[k].tp : k \in pool}
  <2>1. T \in SUBSET (0..N) /\ T # {}
    BY <1>0
  <2> HIDE DEF T
  <2>2. Max(T) \in T /\ \A u \in T : u <= Max(T)
    BY <2>1, MaxIs
  <2>3. most \in {points[k].tp : k \in pool} /\ \A u \in {points[k].tp : k \in pool} : u <= most
    BY <2>2 DEF T
  <2> HIDE DEF most
  <2> QED  BY <2>3
<1> HIDE DEF most
<1>2. B # {} /\ \A k \in A : least <= points[k].fp
  <2> DEFINE T == {points[k].fp : k \in A}
  <2>1. T \in SUBSET Nat /\ T # {}
    BY <1>0, <1>1
  <2> HIDE DEF T
  <2>2. Min(T) \in T /\ \A u \in T : Min(T) <= u
    BY <2>1, MinIs
  <2>3. least \in {points[k].fp : k \in A} /\ \A u \in {points[k].fp : k \in A} : least <= u
    BY <2>2 DEF T
  <2> HIDE DEF least
  <2> QED  BY <2>3
<1> HIDE DEF least
<1>3. b \in B /\ \A k \in B : k <= b
  <2>1. B \in SUBSET (0..n)
    OBVIOUS
  <2> QED  BY <1>2, <2>1, MaxIs
<1> HIDE DEF b
<1>4. /\ b \in pool /\ points[b].tp = most /\ points[b].fp = least
      /\ \A j \in pool : points[j].tp = most => j \in A
      /\ \A j \in A : points[j].fp = least => j \in B
  BY <1>3
<1>5. ASSUME NEW j \in pool
      PROVE  NoBetter(points, j, b)
  <2>1. points[j].tp <= most /\ points[j].tp \in Nat /\ points[b].tp \in Nat
    BY <1>0, <1>1, <1>4
  <2>2. CASE points[j].tp # most
    BY <1>4, <2>1, <2>2 DEF NoBetter
  <2>3. CASE points[j].tp = most
    <3>1. j \in A /\ least <= points[j].fp /\ points[j].fp \in Nat /\ points[b].fp \in Nat
      BY <1>0, <1>2, <1>4, <2>3
    <3>2. CASE points[j].fp # least
      BY <1>4, <2>3, <3>1, <3>2 DEF NoBetter
    <3>3. CASE points[j].fp = least
      <4>1. j <= b
        BY <1>3, <1>4, <3>1, <3>3
      <4> QED  BY <1>4, <2>3, <3>3, <4>1 DEF NoBetter
    <3> QED  BY <3>2, <3>3
  <2> QED  BY <2>2, <2>3
<1> QED  BY <1>4, <1>5

LEMMA BestIs ==
  ASSUME NEW n \in Nat, n # 0, NEW points, DOMAIN points = 1..n, NEW N \in Nat,
         \A k \in 1..n : points[k].tp \in 0..N /\ points[k].fp \in Nat,
         NEW b, b = Best(points)
  PROVE  /\ b \in 1..n
         /\ \A k \in 1..n : points[k].fp = 0 =>
              points[b].fp = 0 /\ NoBetter(points, k, b)
<1> DEFINE clean == {k \in DOMAIN points : points[k].fp = 0}
           pool  == IF clean # {} THEN clean ELSE DOMAIN points
<1>1. b = CHOOSE k \in pool : \A j \in pool : NoBetter(points, j, k)
  BY DEF Best, NoBetter
<1>2. pool \in SUBSET (1..n) /\ pool # {}
  OBVIOUS
<1>3. \A k \in 1..n : points[k].fp = 0 => k \in pool /\ \A j \in pool : points[j].fp = 0
  OBVIOUS
<1> HIDE DEF pool
<1>4. \E k \in pool : \A j \in pool : NoBetter(points, j, k)
  BY <1>2, BestExists
<1>5. b \in pool /\ \A j \in pool : NoBetter(points, j, b)
  BY <1>1, <1>4
<1> QED  BY <1>2, <1>3, <1>5

LEMMA KneeIs ==
  ASSUME NEW n \in Nat, NEW points, Len(points) = n, NEW N \in Nat,
         \A k \in 1..n : points[k].fp \in 0..N,
         NEW l \in 1..n, points[l].fp < points[1].fp
  PROVE  points[Knee(points)].fp < points[Knee(points) - 1].fp
<1> DEFINE fp(k)   == points[k].fp
           drop(k) == fp(k) - fp(k + 1)
           steps   == 1..(n - 1)
           S == {k \in 1..n : fp(k) < fp(1)}
           first == Min(S)
           D == {drop(j) + N : j \in steps}
           K == {k \in steps : \A j \in steps : drop(j) <= drop(k)}
<1>1. Knee(points) = Min(K) + 1
  BY DEF Knee
<1>2. /\ first \in 1..n /\ fp(first) < fp(1) /\ \A k \in S : first <= k
      /\ \A k \in 1..n : ~(fp(k) < fp(1)) \/ k \in S
  <2>1. l \in S /\ S \in SUBSET Nat
    OBVIOUS
  <2>2. first \in S /\ \A k \in S : first <= k
    BY <2>1, MinIs
  <2> QED  BY <2>2
<1>3. \A k \in 1..n : fp(k) \in 0..N
  OBVIOUS
<1> HIDE DEF fp, S, first
<1>4. 1 \in 1..n /\ first # 1
  BY <1>2, <1>3
<1> DEFINE p == first - 1
<1>5. p \in steps /\ p + 1 = first /\ p \in 1..n /\ p < first
  BY <1>2, <1>4
<1>6. ~(fp(p) < fp(1))
  BY <1>2, <1>5
<1>7. drop(p) > 0
  BY <1>2, <1>3, <1>4, <1>5, <1>6
<1>8. \A j \in steps : drop(j) \in Int /\ drop(j) + N \in 0..(2 * N)
  BY <1>3
<1> HIDE DEF drop, steps, p
<1>9. K # {}
  <2>1. D \in SUBSET (0..(2 * N)) /\ D # {} /\ 2 * N \in Nat
    BY <1>5, <1>8
  <2>2. Max(D) \in D /\ \A u \in D : u <= Max(D)
    BY <2>1, MaxIs
  <2>3. PICK k \in steps : Max(D) = drop(k) + N
    BY <2>2
  <2>4. \A j \in steps : drop(j) + N <= drop(k) + N
    BY <2>2, <2>3
  <2>5. \A j \in steps : drop(j) <= drop(k)
    BY <1>8, <2>4
  <2> QED  BY <2>5
<1>10. K \in SUBSET Nat
  BY DEF steps
<1> DEFINE m == Min(K)
<1>11. m \in K
  BY <1>9, <1>10, MinIs
<1>12. m \in steps /\ drop(p) <= drop(m)
  BY <1>5, <1>11
<1> HIDE DEF m, K, D
<1>13. drop(m) > 0
  BY <1>5, <1>7, <1>8, <1>12
<1>14. fp(m + 1) < fp(m) /\ m \in Int
  BY <1>3, <1>12, <1>13 DEF drop, steps
<1>15. Knee(points) = m + 1
  BY <1>1 DEF m
<1>16. points[m + 1].fp < points[m].fp
  BY <1>14 DEF fp
<1> DEFINE x == m + 1
<1>17. Knee(points) = x /\ points[x].fp < points[x - 1].fp
  <2>1. x - 1 = m /\ Knee(points) = x
    BY <1>14, <1>15
  <2>2. points[x].fp < points[m].fp
    BY <1>16
  <2> QED  BY <2>1, <2>2, Zenon
<1> HIDE DEF x
<1> QED  BY <1>17, Zenon
-----------------------------------------------------------------------------
(***************************************************************************)
(* What the operators of the sweep compute.                                *)
(***************************************************************************)
Scale == 0..TopScore

(* The pairs of a scored set that hit at a threshold. *)
Caught(some, t) == {p \in DOMAIN some : some[p] >= t}

LEMMA GridIs ==
  /\ TopScore \in Nat /\ CacheThreshold \in Nat /\ 0 < CacheThreshold
  /\ CacheThreshold <= TopScore
  /\ Len(Grid) \in Nat /\ Len(Grid) # 0 /\ DOMAIN Grid = 1..Len(Grid)
  /\ \A k \in DOMAIN Grid : Grid[k] \in Scale
<1>1. TopScore \in Nat /\ CacheThreshold \in 1..TopScore
  BY CacheAssumption
<1>2. Grid \in Seq(Scale) /\ Grid # << >>
  BY CacheAssumption, GridAssumption DEF Scale
<1>3. Len(Grid) # 0
  BY <1>2
<1> QED  BY <1>1, <1>2, <1>3

LEMMA PointsAre ==
  ASSUME NEW some, IsFiniteSet(DOMAIN some), NEW N, N = Cardinality(DOMAIN some),
         NEW points, points = Sweep(some, Grid), NEW n, n = Len(Grid)
  PROVE  /\ n \in Nat /\ n # 0 /\ N \in Nat
         /\ DOMAIN points = 1..n /\ Len(points) = n
         /\ \A k \in 1..n :
              /\ points[k].threshold = Grid[k]
              /\ points[k].tp = Cardinality(Caught(some, Grid[k]) \cap Positive)
              /\ points[k].tp \in 0..N /\ points[k].fp \in 0..N
              /\ points[k].fp = 0 <=> Caught(some, Grid[k]) \subseteq Positive
<1>1. n \in Nat /\ n # 0 /\ N \in Nat /\ DOMAIN Grid = 1..n
  BY GridIs, FS_CardinalityType
<1>2. points = [k \in 1..n |-> Operating(some, Grid[k])]
  BY <1>1 DEF Sweep
<1>3. DOMAIN points = 1..n /\ Len(points) = n
  BY <1>1, <1>2
<1>4. ASSUME NEW k \in 1..n
      PROVE  /\ points[k].threshold = Grid[k]
             /\ points[k].tp = Cardinality(Caught(some, Grid[k]) \cap Positive)
             /\ points[k].tp \in 0..N /\ points[k].fp \in 0..N
             /\ points[k].fp = 0 <=> Caught(some, Grid[k]) \subseteq Positive
  <2> DEFINE t == Grid[k]
             hit == Caught(some, t)
  <2>1. points[k] = Operating(some, t)
    BY <1>2
  <2> HIDE DEF t
  <2>2. /\ points[k].threshold = t /\ points[k].tp = Cardinality(hit \cap Positive)
        /\ points[k].fp = Cardinality(hit \ Positive)
    BY <2>1 DEF Operating, Caught
  <2>3. hit \cap Positive \in SUBSET (DOMAIN some) /\ hit \ Positive \in SUBSET (DOMAIN some)
    BY DEF Caught
  <2> HIDE DEF hit
  <2>4. IsFiniteSet(hit \cap Positive) /\ IsFiniteSet(hit \ Positive)
    BY <2>3, FS_Subset
  <2>5. /\ Cardinality(hit \cap Positive) \in 0..N /\ Cardinality(hit \ Positive) \in 0..N
    <3>1. Cardinality(hit \cap Positive) <= N /\ Cardinality(hit \ Positive) <= N
      BY <2>3, FS_Subset
    <3>2. Cardinality(hit \cap Positive) \in Nat /\ Cardinality(hit \ Positive) \in Nat
      BY <2>4, FS_CardinalityType
    <3> QED  BY <1>1, <3>1, <3>2
  <2>6. Cardinality(hit \ Positive) = 0 <=> hit \subseteq Positive
    <3>1. Cardinality(hit \ Positive) = 0 <=> hit \ Positive = {}
      BY <2>4, FS_EmptySet
    <3> QED  BY <3>1
  <2> QED  BY <2>2, <2>5, <2>6 DEF hit, t
<1> QED  BY <1>1, <1>3, <1>4

LEMMA PointIs ==
  ASSUME NEW some, IsFiniteSet(DOMAIN some), NEW k \in DOMAIN Grid,
         NEW point, point = Sweep(some, Grid)[k]
  PROVE  /\ point.threshold = Grid[k]
         /\ point.tp = Cardinality(Caught(some, Grid[k]) \cap Positive)
         /\ point.fp = 0 <=> Caught(some, Grid[k]) \subseteq Positive
<1> DEFINE points == Sweep(some, Grid)
           n == Len(Grid)
           N == Cardinality(DOMAIN some)
<1>1. DOMAIN Grid = 1..n
  BY GridIs
<1>2. \A j \in 1..n :
        /\ points[j].threshold = Grid[j]
        /\ points[j].tp = Cardinality(Caught(some, Grid[j]) \cap Positive)
        /\ points[j].tp \in 0..N /\ points[j].fp \in 0..N
        /\ points[j].fp = 0 <=> Caught(some, Grid[j]) \subseteq Positive
  BY PointsAre
<1> HIDE DEF points, N
<1> QED  BY <1>1, <1>2 DEF points

(* best_operating: a point of the sweep, clean if any is, and then the     *)
(* strictest of those that catch the most.                                 *)
LEMMA BestPointIs ==
  ASSUME NEW some, IsFiniteSet(DOMAIN some), NEW points, points = Sweep(some, Grid),
         NEW b, b = Best(points)
  PROVE  /\ b \in DOMAIN Grid
         /\ \A k \in DOMAIN Grid : points[k].fp = 0 =>
              /\ points[b].fp = 0 /\ points[k].tp <= points[b].tp
              /\ points[k].tp = points[b].tp => Grid[k] <= Grid[b]
<1> DEFINE n == Len(Grid)
           N == Cardinality(DOMAIN some)
<1>1. /\ n \in Nat /\ n # 0 /\ N \in Nat /\ DOMAIN points = 1..n /\ DOMAIN Grid = 1..n
      /\ \A k \in 1..n : points[k].tp \in 0..N /\ points[k].fp \in 0..N
  BY PointsAre, GridIs
<1> HIDE DEF n, N
<1>2. \A k \in 1..n : points[k].tp \in 0..N /\ points[k].fp \in Nat
  BY <1>1
<1>3. /\ b \in 1..n
      /\ \A k \in 1..n : points[k].fp = 0 => points[b].fp = 0 /\ NoBetter(points, k, b)
  BY <1>1, <1>2, BestIs
<1>4. ASSUME NEW k \in 1..n, points[k].fp = 0
      PROVE  /\ points[b].fp = 0 /\ points[k].tp <= points[b].tp
             /\ points[k].tp = points[b].tp => Grid[k] <= Grid[b]
  <2>1. points[b].fp = 0 /\ NoBetter(points, k, b) /\ points[k].tp \in Nat /\ points[b].tp \in Nat
    BY <1>1, <1>3, <1>4
  <2>2. points[k].tp < points[b].tp \/ (points[k].tp = points[b].tp /\ k <= b)
    BY <1>4, <2>1 DEF NoBetter
  <2>3. k <= b => Grid[k] <= Grid[b]
    BY <1>1, <1>3, <1>4, GridAssumption
  <2> QED  BY <2>1, <2>2, <2>3
<1> QED  BY <1>1, <1>3, <1>4

(* separable: the lowest score of a paraphrase, the highest of the others. *)
LEMMA SeparableIs ==
  ASSUME NEW some, \A p \in Pairs : some[p] \in Scale, NEW s, s = Separable(some)
  PROVE  /\ s.separable <=> s.lowest > s.highest
         /\ s.lowest \in Scale /\ s.highest \in Scale
         /\ (\E p \in Positive : some[p] = s.lowest) /\ \A p \in Positive : s.lowest <= some[p]
         /\ \E p \in Pairs \ Positive : some[p] = s.highest
         /\ \A p \in Pairs \ Positive : some[p] <= s.highest
<1> DEFINE P == Scores(some, Positive)
           Q == Scores(some, Pairs \ Positive)
<1>1. s = [separable |-> Min(P) > Max(Q), lowest |-> Min(P), highest |-> Max(Q)]
  BY DEF Separable
<1>2. P \in SUBSET Scale /\ P # {} /\ Q \in SUBSET Scale /\ Q # {} /\ Scale \subseteq Nat
  BY PairsAssumption, GridIs DEF Scores, Scale
<1>3. /\ \A v : v \in P <=> \E p \in Positive : v = some[p]
      /\ \A v : v \in Q <=> \E p \in Pairs \ Positive : v = some[p]
  BY DEF Scores
<1> HIDE DEF P, Q
<1>4. Min(P) \in P /\ \A u \in P : Min(P) <= u
  BY <1>2, MinIs
<1>5. Max(Q) \in Q /\ \A u \in Q : u <= Max(Q)
  BY <1>2, MaxIs, GridIs DEF Scale
<1>6. s.lowest = Min(P) /\ s.highest = Max(Q) /\ s.separable = (Min(P) > Max(Q))
  <2> DEFINE lo == Min(P)
             hi == Max(Q)
             yes == lo > hi
  <2>1. s = [separable |-> yes, lowest |-> lo, highest |-> hi]
    BY <1>1
  <2> HIDE DEF lo, hi, yes
  <2>2. s.lowest = lo /\ s.highest = hi
    BY <2>1
  <2>3. s.separable = yes
    BY <2>1
  <2> QED  BY <2>2, <2>3 DEF lo, hi, yes
<1> QED  BY <1>2, <1>3, <1>4, <1>5, <1>6

-----------------------------------------------------------------------------
(***************************************************************************)
(* The report, once all pairs are scored.                                  *)
(***************************************************************************)
Scored == DOMAIN scored = Pairs /\ \A p \in Pairs : scored[p] \in Scale

LEMMA ReportSeparates == Scored => SeparableMeansAThreshold
<1> SUFFICES ASSUME Scored
             PROVE  SeparableMeansAThreshold
  OBVIOUS
<1> DEFINE safe(t) == \A p \in Pairs : scored[p] >= t <=> p \in Positive
           collides(t) == \E p \in Pairs \ Positive : scored[p] >= t
           split == Separable(scored)
           worst == split.lowest
           dearest == split.highest
           b == Best(Points)
<1>0. Scale \subseteq Int /\ Positive \subseteq Pairs /\ IsFiniteSet(DOMAIN scored)
  BY PairsAssumption DEF Scale, Scored
<1>1. /\ split.separable <=> worst > dearest
      /\ worst \in Scale /\ dearest \in Scale
      /\ (\E p \in Positive : scored[p] = worst) /\ \A p \in Positive : worst <= scored[p]
      /\ \E p \in Pairs \ Positive : scored[p] = dearest
      /\ \A p \in Pairs \ Positive : scored[p] <= dearest
  BY SeparableIs DEF Scored
<1>2. /\ Finding.says = IF split.separable THEN "separable"
                        ELSE IF Safest.fp = 0 THEN "collision-free" ELSE "least bad"
      /\ Finding.above = dearest /\ Finding.below = worst /\ Finding.at = Safest.threshold
  BY DEF Finding
<1> HIDE DEF split
<1>3. ASSUME NEW t \in Scale
      PROVE  safe(t) <=> dearest < t /\ t <= worst
  <2>1. \A p \in Pairs : scored[p] \in Int
    BY <1>0 DEF Scored
  <2>2. t \in Int /\ worst \in Int /\ dearest \in Int
    BY <1>0, <1>1, <1>3
  <2>3. safe(t) => dearest < t /\ t <= worst
    BY <1>0, <1>1, <2>1, <2>2
  <2>4. dearest < t /\ t <= worst => safe(t)
    BY <1>0, <1>1, <2>1, <2>2
  <2> QED  BY <2>3, <2>4
<1>4. Finding.says = "separable" <=> \E t \in Scale : safe(t)
  <2>1. split.separable => safe(worst)
    BY <1>0, <1>1, <1>3
  <2>2. ASSUME NEW t \in Scale, safe(t)
        PROVE  split.separable
    <3>1. dearest < t /\ t <= worst
      BY <1>3, <2>2
    <3>2. t \in Int /\ worst \in Int /\ dearest \in Int
      BY <1>0, <1>1
    <3> QED  BY <1>1, <3>1, <3>2
  <2>3. Finding.says = "separable" <=> split.separable
    BY <1>2
  <2> QED  BY <1>1, <2>1, <2>2, <2>3
<1>5. ASSUME NEW t \in Scale, Finding.says = "separable"
      PROVE  safe(t) <=> t \in (Finding.above + 1)..(Finding.below - 1) \cup {Finding.below}
  <2>1. t \in Int /\ worst \in Int /\ dearest \in Int
    BY <1>0, <1>1
  <2>2. worst > dearest
    BY <1>1, <1>2, <1>5
  <2>3. dearest < t /\ t <= worst <=> t \in (dearest + 1)..(worst - 1) \cup {worst}
    BY <2>1, <2>2
  <2> QED  BY <1>2, <1>3, <2>3
<1>6. /\ b \in DOMAIN Grid
      /\ \A k \in DOMAIN Grid : Points[k].fp = 0 => Points[b].fp = 0
  BY <1>0, BestPointIs DEF Points
<1>7. \A k \in DOMAIN Grid :
        /\ Points[k].threshold = Grid[k]
        /\ Points[k].fp = 0 <=> Caught(scored, Grid[k]) \subseteq Positive
  <2> TAKE k \in DOMAIN Grid
  <2> QED  BY <1>0, PointIs DEF Points
<1>8. Safest = Points[b]
  BY DEF Safest
<1> HIDE DEF b
<1>9. \A k \in DOMAIN Grid : Points[k].fp = 0 <=> ~collides(Grid[k])
  BY <1>7 DEF Caught, Scored
<1>10. Finding.says = "least bad" => \A k \in DOMAIN Grid : collides(Grid[k])
  BY <1>2, <1>6, <1>8, <1>9
<1>11. Finding.says = "collision-free" => ~collides(Finding.at)
  BY <1>2, <1>6, <1>7, <1>8, <1>9
<1> QED  BY <1>4, <1>5, <1>10, <1>11 DEF SeparableMeansAThreshold, Scale
LEMMA ReportIsSafe == Scored => SafestIsSafe
<1> SUFFICES ASSUME Scored
             PROVE  SafestIsSafe
  OBVIOUS
<1> DEFINE n == Len(Grid)
           N == Cardinality(DOMAIN scored)
           b == Best(Points)
<1>0. IsFiniteSet(DOMAIN scored) /\ DOMAIN scored = Pairs /\ Positive \subseteq Pairs
  BY PairsAssumption DEF Scored
<1>1. n \in Nat /\ n # 0 /\ DOMAIN Grid = 1..n
  BY GridIs
<1>2. /\ N \in Nat /\ DOMAIN Points = 1..n /\ Len(Points) = n
      /\ \A k \in 1..n : Points[k].tp \in 0..N /\ Points[k].fp \in 0..N
  BY <1>0, PointsAre DEF Points
<1>3. /\ b \in 1..n
      /\ \A k \in 1..n : Points[k].fp = 0 =>
           /\ Points[b].fp = 0 /\ Points[k].tp <= Points[b].tp
           /\ Points[k].tp = Points[b].tp => Grid[k] <= Grid[b]
  BY <1>0, <1>1, BestPointIs DEF Points
<1>4. \A k \in 1..n :
        /\ Points[k].threshold = Grid[k]
        /\ Points[k].tp = Cardinality(Caught(scored, Grid[k]) \cap Positive)
        /\ Points[k].fp = 0 <=> Caught(scored, Grid[k]) \subseteq Positive
  <2> TAKE k \in 1..n
  <2> QED  BY <1>0, <1>1, PointIs DEF Points
<1>5. Safest = Points[b]
  BY DEF Safest
<1> HIDE DEF b, n, N
<1>6. (\E k \in DOMAIN Points : Points[k].fp < Points[1].fp) =>
        Points[Knee(Points)].fp < Points[Knee(Points) - 1].fp
  <2> SUFFICES ASSUME NEW k \in 1..n, Points[k].fp < Points[1].fp
               PROVE  Points[Knee(Points)].fp < Points[Knee(Points) - 1].fp
    BY <1>2
  <2> DEFINE points == Points
  <2>1. /\ Len(points) = n /\ points[k].fp < points[1].fp
        /\ \A j \in 1..n : points[j].fp \in 0..N
    BY <1>2
  <2> HIDE DEF points
  <2>2. points[Knee(points)].fp < points[Knee(points) - 1].fp
    BY <1>1, <1>2, <2>1, KneeIs
  <2> QED  BY <2>2 DEF points
<1>7. \A k \in DOMAIN Points : Points[k].fp = 0 =>
        /\ Safest.fp = 0 /\ Points[k].tp <= Safest.tp
        /\ Points[k].tp = Safest.tp => Points[k].threshold <= Safest.threshold
  BY <1>2, <1>3, <1>4, <1>5
<1>8. ASSUME NEW f \in Families, Safest.fp = 0
      PROVE  LET mine == Sweep(OfFamily(scored, f), Grid)
             IN  mine[Best(mine)].fp = 0 /\ mine[Best(mine)].tp >= Safest.tp
  <2> DEFINE some == OfFamily(scored, f)
             mine == Sweep(some, Grid)
             c == Best(mine)
             t == Grid[b]
  <2>1. /\ DOMAIN some = {q \in Pairs : q \in Positive \/ FamilyOf[q] = f}
        /\ \A q \in DOMAIN some : some[q] = scored[q]
    BY <1>0 DEF OfFamily
  <2>2. IsFiniteSet(DOMAIN some)
    BY <1>0, <2>1, FS_Subset
  <2>3. /\ Caught(some, t) \subseteq Caught(scored, t)
        /\ Caught(some, t) \cap Positive = Caught(scored, t) \cap Positive
    BY <1>0, <2>1 DEF Caught
  <2> HIDE DEF some
  <2>4. /\ mine[b].tp = Cardinality(Caught(some, t) \cap Positive)
        /\ mine[b].fp = 0 <=> Caught(some, t) \subseteq Positive
    BY <1>1, <1>3, <2>2, PointIs
  <2>5. mine[b].fp = 0 /\ mine[b].tp = Safest.tp
    BY <1>3, <1>4, <1>5, <1>8, <2>3, <2>4
  <2>6. mine[c].fp = 0 /\ mine[b].tp <= mine[c].tp /\ c \in 1..n
    BY <1>1, <1>3, <2>2, <2>5, BestPointIs
  <2>7. mine[b].tp \in Nat /\ mine[c].tp \in Nat
    <3> DEFINE M == Cardinality(DOMAIN some)
    <3>1. \A k \in 1..n : mine[k].tp \in 0..M /\ mine[k].fp \in 0..M
      BY <1>1, <2>2, PointsAre DEF n
    <3> HIDE DEF mine, M
    <3> QED  BY <1>3, <2>6, <3>1
  <2> HIDE DEF mine, c
  <2>8. mine[c].fp = 0 /\ mine[c].tp >= Safest.tp
    BY <2>5, <2>6, <2>7
  <2> QED  BY <2>8 DEF mine, c, some
<1> QED  BY <1>6, <1>7, <1>8 DEF SafestIsSafe
-----------------------------------------------------------------------------
(***************************************************************************)
(* The gateway's cache.  A namespace holds what the calls of its own trip  *)
(* or case put there, so a lookup in it has one entry to find at most.     *)
(***************************************************************************)
Entries(t, space) == {e \in t : e.space = space}

Entry(space, p, side) == [space |-> space, pair |-> p, side |-> side]

TripSpace(p) == Base(RoundTripSystem(p))

(* A namespace whose first prompt was answered: the answer is there, unless *)
(* the gateway went without an embedding.                                  *)
Filled(t, without, space, p) ==
  /\ Entries(t, space) \subseteq {Entry(space, p, "a")}
  /\ space \notin without => Entries(t, space) = {Entry(space, p, "a")}

(* What the second prompt of a pair is told then. *)
Fresh(p) == [hit |-> scored[p] >= CacheThreshold, best |-> scored[p]]

(* The cases whose namespace no case before them uses. *)
Lone == {k \in 1..4 : k = 2 => other # Model}

ScoresOK ==
  /\ phase \in {"score", "trips", "store", "cases", "report", "aborted"}
  /\ DOMAIN scored \subseteq Pairs /\ \A p \in DOMAIN scored : scored[p] \in Scale
  /\ phase # "score" => DOMAIN scored = Pairs

(* The namespace of a pair still to be asked is empty, or that of a pair   *)
(* whose first prompt was answered.                                        *)
TripsOK ==
  /\ phase = "score" => DOMAIN trips = {}
  /\ \A p \in Wanted \ DOMAIN trips :
       /\ cold = p => Filled(table, skipped, TripSpace(p), p)
       /\ cold # p => Entries(table, TripSpace(p)) = {}
  /\ \A p \in DOMAIN trips : trips[p] # NoVerdict =>
       /\ trips[p] \in {Fresh(p), NoLookup}
       /\ TripSpace(p) \notin skipped => trips[p] = Fresh(p)

(* And that of a case still to be asked is empty, but for the control's.   *)
CasesOK ==
  /\ cases \in Seq([hit : BOOLEAN, best : Scale \cup {-1}])
  /\ phase \in {"score", "trips", "store"} =>
       cases = << >> /\ \A e \in table : e.space.system.use = "trip"
  /\ phase = "cases" =>
       /\ Len(cases) < 4
       /\ Len(cases) = 0 => Filled(table, skipped, Space(1), Strongest)
       /\ \A k \in Lone : k # 1 /\ k > Len(cases) => Entries(table, Space(k)) = {}
  /\ OnlyTheSameNamespaceHits

CacheOK == ScoresOK /\ TripsOK /\ CasesOK

LEMMA StrongestIs ==
  ASSUME Scored
  PROVE  Strongest \in Positive /\ scored[Strongest] \in Scale
<1> DEFINE V == {scored[p] : p \in Positive}
           K == {p \in Positive : \A q \in Positive : scored[q] <= scored[p]}
<1>1. V \in SUBSET Scale /\ V # {} /\ Positive \subseteq Pairs
  BY PairsAssumption DEF Scored
<1>2. Max(V) \in V /\ \A u \in V : u <= Max(V)
  BY <1>1, MaxIs, GridIs DEF Scale
<1>3. PICK p \in Positive : scored[p] = Max(V)
  BY <1>2
<1>4. \A q \in Positive : scored[q] <= scored[p]
  BY <1>2, <1>3
<1>5. K # {} /\ K \in SUBSET Nat
  BY <1>1, <1>4, CacheAssumption
<1>6. Strongest \in K
  BY <1>5, MinIs DEF Strongest
<1> QED  BY <1>1, <1>6 DEF Scored

LEMMA LookupIs ==
  ASSUME NEW space, NEW p, NEW side, scored[p] \in Scale
  PROVE  Lookup(space, p, side) \in Scale
<1> DEFINE S == {0} \cup {Similarity(p, side, e) : e \in Entries(table, space)}
<1>1. Lookup(space, p, side) = Max(S)
  BY DEF Lookup, Entries
<1>2. S \in SUBSET Scale /\ S # {}
  BY GridIs DEF Similarity, Scale
<1> HIDE DEF S
<1>3. Max(S) \in S
  BY <1>2, MaxIs, GridIs DEF Scale
<1> QED  BY <1>1, <1>2, <1>3

LEMMA VerdictIs ==
  /\ \A space, p, side : /\ Verdict(space, p, side).hit = Hits(space, p, side)
                         /\ Verdict(space, p, side).best = Lookup(space, p, side)
                         /\ Hits(space, p, side) \in BOOLEAN
  /\ \A p : Fresh(p).hit <=> scored[p] >= CacheThreshold
  /\ ~NoLookup.hit /\ ~NoVerdict.hit
<1>1. \A space, p, side : Hits(space, p, side) \in BOOLEAN
  BY DEF Hits
<1>2. \A p : Fresh(p).hit = (scored[p] >= CacheThreshold)
  BY DEF Fresh
<1> QED  BY <1>1, <1>2 DEF Verdict, NoLookup, NoVerdict

LEMMA VerdictEmpty ==
  ASSUME NEW space, NEW p, NEW side, Entries(table, space) = {}
  PROVE  Verdict(space, p, side) = NoLookup /\ ~Hits(space, p, side)
<1> DEFINE S == {0} \cup {Similarity(p, side, e) : e \in Entries(table, space)}
<1>1. Lookup(space, p, side) = Max(S)
  BY DEF Lookup, Entries
<1>2. S = {0}
  OBVIOUS
<1> HIDE DEF S
<1>3. S \in SUBSET (0..0) /\ S # {}
  BY <1>2
<1>4. Max(S) \in S
  BY <1>3, MaxIs
<1>5. Lookup(space, p, side) = 0
  BY <1>1, <1>2, <1>4
<1>6. Hits(space, p, side) = FALSE
  BY <1>5, GridIs DEF Hits
<1> QED  BY <1>5, <1>6 DEF Verdict, NoLookup

LEMMA VerdictOne ==
  ASSUME NEW space, NEW p, scored[p] \in Scale, Entries(table, space) = {Entry(space, p, "a")}
  PROVE  Verdict(space, p, "b") = Fresh(p)
<1> DEFINE S == {0} \cup {Similarity(p, "b", e) : e \in Entries(table, space)}
           e0 == Entry(space, p, "a")
<1>1. Lookup(space, p, "b") = Max(S)
  BY DEF Lookup, Entries
<1>2. Similarity(p, "b", e0) = scored[p]
  BY DEF Similarity, Entry
<1> HIDE DEF e0
<1>3. S = {0, scored[p]}
  <2>1. Entries(table, space) = {e0}
    BY DEF e0
  <2> QED  BY <1>2, <2>1
<1> HIDE DEF S
<1>4. S \in SUBSET Scale /\ S # {} /\ scored[p] \in Int /\ 0 <= scored[p]
  BY <1>3, GridIs DEF Scale
<1>5. Max(S) \in S /\ \A u \in S : u <= Max(S)
  BY <1>4, MaxIs, GridIs DEF Scale
<1>6. Lookup(space, p, "b") = scored[p]
  BY <1>1, <1>3, <1>4, <1>5
<1>7. Hits(space, p, "b") = (scored[p] >= CacheThreshold)
  BY <1>6 DEF Hits
<1> QED  BY <1>6, <1>7 DEF Verdict, Fresh

(* B, asked where A was: it is told its similarity with A, or nothing. *)
LEMMA VerdictFilled ==
  ASSUME NEW space, NEW p, scored[p] \in Scale, Filled(table, skipped, space, p)
  PROVE  /\ Verdict(space, p, "b") \in {Fresh(p), NoLookup}
         /\ space \notin skipped => Verdict(space, p, "b") = Fresh(p)
<1>1. \/ Entries(table, space) = {Entry(space, p, "a")}
      \/ Entries(table, space) = {} /\ space \in skipped
  BY DEF Filled
<1> QED  BY <1>1, VerdictEmpty, VerdictOne

LEMMA NamespaceIs ==
  \A system, model, tenant :
    LET space == Namespace(system, model, tenant)
    IN  space.system = system /\ space.model = model /\ space.tenant = tenant
BY DEF Namespace

(* The namespaces are as many as the trips and the cases, but the second   *)
(* case shares the first one's where --tier picked the second rung.        *)
LEMMA SpacesDiffer ==
  /\ \A p, q : TripSpace(p) = TripSpace(q) => p = q
  /\ \A p : TripSpace(p).system.use = "trip" /\ TripSpace(p).system.run = "this run"
  /\ \A k \in 1..4 : Space(k).system.use # "trip"
  /\ \A j \in 1..4, k \in Lone : j < k => Space(j) # Space(k)
  /\ Space(1) = Base(IsolationSystem(Strongest))
  /\ \A k \in Lone : k # 1 => Space(k) # Space(1)
<1> DEFINE S == Strongest
<1> HIDE DEF S
<1>1. /\ Space(1) = Namespace(IsolationSystem(S), Model, "tenant")
      /\ Space(2) = Namespace(IsolationSystem(S), other, "tenant")
      /\ Space(3) = Namespace(CitingSystem(S), Model, "tenant")
      /\ Space(4) = Namespace(IsolationSystem(S), Model, "other tenant")
  BY DEF Space, Base, S
<1>2. IsolationSystem(S).use = "ns" /\ CitingSystem(S).use = "ns, cite"
  BY DEF IsolationSystem, CitingSystem
<1>3. /\ Space(1).system = IsolationSystem(S) /\ Space(2).system = IsolationSystem(S)
      /\ Space(3).system = CitingSystem(S) /\ Space(4).system = IsolationSystem(S)
      /\ Space(1).model = Model /\ Space(2).model = other /\ Space(4).model = Model
      /\ Space(1).tenant = "tenant" /\ Space(2).tenant = "tenant"
      /\ Space(4).tenant = "other tenant"
  <2> DEFINE u == IsolationSystem(S)
             v == CitingSystem(S)
             n1 == Namespace(u, Model, "tenant")
             n2 == Namespace(u, other, "tenant")
             n3 == Namespace(v, Model, "tenant")
             n4 == Namespace(u, Model, "other tenant")
  <2>1. Space(1) = n1 /\ Space(2) = n2 /\ Space(3) = n3 /\ Space(4) = n4
    BY <1>1
  <2> HIDE DEF u, v
  <2>2. n1.system = u /\ n1.model = Model /\ n1.tenant = "tenant"
    BY NamespaceIs
  <2>3. n2.system = u /\ n2.model = other /\ n2.tenant = "tenant"
    BY NamespaceIs
  <2>4. n3.system = v
    BY NamespaceIs
  <2>5. n4.system = u /\ n4.model = Model /\ n4.tenant = "other tenant"
    BY DEF Namespace
  <2> HIDE DEF n1, n2, n3, n4
  <2> QED  BY <2>1, <2>2, <2>3, <2>4, <2>5 DEF u, v
<1>5. /\ other # Model => Space(1) # Space(2)
      /\ Space(1) # Space(3) /\ Space(1) # Space(4)
      /\ Space(2) # Space(3) /\ Space(2) # Space(4) /\ Space(3) # Space(4)
  BY <1>2, <1>3
<1>6. \A k \in 1..4 : k = 1 \/ k = 2 \/ k = 3 \/ k = 4
  OBVIOUS
<1>7. \A k \in 1..4 : Space(k).system.use # "trip"
  BY <1>2, <1>3, <1>6
<1>4. \A k \in Lone : k \in 1..4 /\ (k = 2 => other # Model)
  BY DEF Lone
<1>8. \A j \in 1..4, k \in Lone : j < k => Space(j) # Space(k)
  <2> TAKE j \in 1..4, k \in Lone
  <2> QED  BY <1>4, <1>5, <1>6
<1>9. \A p : /\ TripSpace(p).system.pair = p /\ TripSpace(p).system.use = "trip"
             /\ TripSpace(p).system.run = "this run"
  BY DEF TripSpace, Base, Namespace, RoundTripSystem
<1>10. ASSUME NEW p, NEW q, TripSpace(p) = TripSpace(q)
       PROVE  p = q
  <2>1. TripSpace(p).system.pair = p /\ TripSpace(q).system.pair = q
    BY <1>9
  <2> QED  BY <1>10, <2>1
<1>11. Space(1) = Base(IsolationSystem(Strongest))
  BY DEF Space
<1>12. \A k \in Lone : k # 1 => Space(k) # Space(1)
  BY <1>4, <1>5, <1>6
<1> QED  BY <1>7, <1>8, <1>9, <1>10, <1>11, <1>12

LEMMA CacheInit == Init => CacheOK
<1> SUFFICES ASSUME Init
             PROVE  CacheOK
  OBVIOUS
<1>1. /\ phase = "score" /\ scored = << >> /\ cold = NoPair /\ trips = << >> /\ cases = << >>
      /\ table = Leftover
  BY DEF Init
<1>2. \A e \in table : e.space.system.use = "trip" /\ e.space.system.run = "earlier run"
  <2> SUFFICES ASSUME NEW p \in Pairs, NEW e,
                      e = [space |-> Base([RoundTripSystem(p) EXCEPT !.run = "earlier run"]),
                           pair |-> p, side |-> "a"]
               PROVE  e.space.system.use = "trip" /\ e.space.system.run = "earlier run"
    BY <1>1 DEF Leftover
  <2> QED  BY DEF Base, Namespace, RoundTripSystem
<1>3. \A p : Entries(table, TripSpace(p)) = {}
  BY <1>2, SpacesDiffer DEF Entries
<1>4. DOMAIN << >> = {}
  OBVIOUS
<1>5. \A p \in Wanted : NoPair # p
  BY CacheAssumption DEF NoPair
<1>6. ScoresOK
  BY <1>1, <1>4 DEF ScoresOK
<1>7. TripsOK
  BY <1>1, <1>3, <1>4, <1>5 DEF TripsOK
<1>8. CasesOK
  <2>1. OnlyTheSameNamespaceHits
    BY <1>1, <1>4 DEF OnlyTheSameNamespaceHits
  <2>2. cases \in Seq([hit : BOOLEAN, best : Scale \cup {-1}])
    BY <1>1
  <2>3. phase # "cases" /\ cases = << >>
    BY <1>1
  <2> QED  BY <1>2, <2>1, <2>2, <2>3 DEF CasesOK
<1> QED  BY <1>6, <1>7, <1>8 DEF CacheOK

LEMMA EntriesGrow ==
  ASSUME NEW s, NEW p, NEW side, table' = table \cup {Entry(s, p, side)}
  PROVE  /\ Entries(table', s) = Entries(table, s) \cup {Entry(s, p, side)}
         /\ \A x : x # s => Entries(table', x) = Entries(table, x)
<1>1. Entry(s, p, side).space = s
  BY DEF Entry
<1> QED  BY <1>1 DEF Entries

(* A call touches its own namespace only, and there adds its entry at most.*)
Touched(s, p, side) ==
  /\ Entries(table', s) \in {Entries(table, s), Entries(table, s) \cup {Entry(s, p, side)}}
  /\ \A x : x # s => Entries(table', x) = Entries(table, x) /\ (x \in skipped' <=> x \in skipped)
  /\ skipped \subseteq skipped'
  /\ table' = table \/ table' = table \cup {Entry(s, p, side)}

LEMMA TouchedIs ==
  ASSUME NEW s, NEW p, NEW side,
         table' = table \/ table' = table \cup {Entry(s, p, side)},
         skipped' = skipped \/ skipped' = skipped \cup {s}
  PROVE  Touched(s, p, side)
<1>1. Entries(table', s) \in {Entries(table, s), Entries(table, s) \cup {Entry(s, p, side)}}
  BY EntriesGrow
<1>2. \A x : x # s => Entries(table', x) = Entries(table, x)
  BY EntriesGrow
<1> QED  BY <1>1, <1>2 DEF Touched

LEMMA RepliesIs ==
  ASSUME NEW s, NEW p, NEW side, NEW v, Replies(s, p, side, v)
  PROVE  /\ Touched(s, p, side)
         /\ v \in {Verdict(s, p, side), NoLookup}
         /\ s \notin skipped' =>
              /\ v = Verdict(s, p, side)
              /\ ~Hits(s, p, side) => table' = table \cup {Entry(s, p, side)}
<1>1. Stored(s, p, side) = table \cup {Entry(s, p, side)}
  BY DEF Stored, Entry
<1>2. CASE Consults(s, p, side, v)
  <2>1. v = Verdict(s, p, side) /\ skipped' = skipped
    BY <1>2 DEF Consults
  <2>2. /\ Hits(s, p, side) => table' = table
        /\ ~Hits(s, p, side) => table' = table \cup {Entry(s, p, side)}
    BY <1>1, <1>2, <2>1, VerdictIs DEF Consults
  <2> QED  BY <2>1, <2>2, TouchedIs
<1>3. CASE Skips(s, p, side, v)
  <2>1. /\ skipped' = skipped \cup {s} /\ v \in {Verdict(s, p, side), NoLookup}
        /\ table' = table \/ table' = table \cup {Entry(s, p, side)}
    BY <1>1, <1>3 DEF Skips
  <2> QED  BY <2>1, TouchedIs
<1> QED  BY <1>2, <1>3 DEF Replies

LEMMA FailsIs ==
  ASSUME NEW s, NEW p, NEW side, Fails(s, p, side)
  PROVE  Touched(s, p, side)
<1>1. skipped' = skipped /\ (table' = table \/ table' = table \cup {Entry(s, p, side)})
  BY DEF Fails, Stored, Entry
<1> QED  BY <1>1, TouchedIs

(* Where the first prompt is asked. *)
LEMMA FirstIs ==
  ASSUME NEW s, NEW p, NEW v, Entries(table, s) = {}, Replies(s, p, "a", v)
  PROVE  Filled(table', skipped', s, p)
<1>1. /\ Entries(table', s) \in {{}, {Entry(s, p, "a")}}
      /\ s \notin skipped' => table' = table \cup {Entry(s, p, "a")}
  BY RepliesIs, VerdictEmpty DEF Touched
<1>2. s \notin skipped' => Entries(table', s) = {Entry(s, p, "a")}
  BY <1>1, EntriesGrow
<1> QED  BY <1>1, <1>2 DEF Filled

(* What has been scored stays, and with it the pair the cases ask.         *)
LEMMA SameScores ==
  ASSUME CacheOK, scored' = scored, other' = other, phase # "score",
         phase' \in {"trips", "store", "cases", "report", "aborted"}
  PROVE  /\ ScoresOK' /\ Scored /\ Strongest' = Strongest
         /\ (\A k \in 1..4 : Space(k)' = Space(k)) /\ Lone' = Lone
<1>1. Scored
  BY DEF CacheOK, ScoresOK, Scored
<1>2. ScoresOK'
  BY DEF CacheOK, ScoresOK
<1>3. Strongest' = Strongest
  BY DEF Strongest
<1>4. \A k \in 1..4 : Space(k)' = Space(k)
  BY <1>3 DEF Space
<1>5. Lone' = Lone
  BY DEF Lone
<1> QED  BY <1>1, <1>2, <1>3, <1>4, <1>5

(* A step of the trips leaves the namespaces of the cases alone. *)
LEMMA CasesWait ==
  ASSUME CacheOK, phase \in {"score", "trips"}, phase' \in {"score", "trips", "store"},
         UNCHANGED cases,
         \/ table' = table
         \/ \E p, side : table' = table \cup {Entry(TripSpace(p), p, side)}
  PROVE  CasesOK'
<1>1. cases = << >> /\ \A e \in table : e.space.system.use = "trip"
  BY DEF CacheOK, CasesOK
<1>2. \A p, side : Entry(TripSpace(p), p, side).space.system.use = "trip"
  BY SpacesDiffer DEF Entry
<1>3. \A e \in table' : e.space.system.use = "trip"
  BY <1>1, <1>2
<1>4. DOMAIN << >> = {} /\ cases' = << >>
  BY <1>1
<1> QED  BY <1>3, <1>4 DEF CasesOK, OnlyTheSameNamespaceHits

LEMMA ScoreStep ==
  ASSUME CacheOK, Score
  PROVE  CacheOK'
<1>1. /\ phase = "score" /\ UNCHANGED <<cold, trips, cases, table, skipped>>
      /\ phase' = IF DOMAIN scored' = Pairs THEN "trips" ELSE "score"
      /\ \E p \in Pairs, s \in Scale : scored' = With(scored, p, s)
  BY DEF Score, Scale, cache
<1>2. PICK p \in Pairs, s \in Scale : scored' = With(scored, p, s)
  BY <1>1
<1>3. /\ DOMAIN scored' = DOMAIN scored \cup {p}
      /\ \A q \in DOMAIN scored \cup {p} : scored'[q] = IF q = p THEN s ELSE scored[q]
  BY <1>2 DEF With
<1>4. ScoresOK'
  BY <1>1, <1>3 DEF CacheOK, ScoresOK
<1>5. DOMAIN trips = {}
  BY <1>1 DEF CacheOK, TripsOK
<1>6. TripsOK'
  BY <1>1, <1>5 DEF CacheOK, TripsOK
<1>7. CasesOK'
  BY <1>1, CasesWait
<1> QED  BY <1>4, <1>6, <1>7 DEF CacheOK

(* A call of one trip leaves what is known of the others. *)
LEMMA OthersWait ==
  ASSUME CacheOK, NEW p, NEW side, Touched(TripSpace(p), p, side), scored' = scored
  PROVE  /\ \A q \in Wanted \ DOMAIN trips : q # p =>
              /\ cold = q => Filled(table', skipped', TripSpace(q), q)
              /\ cold # q => Entries(table', TripSpace(q)) = {}
         /\ \A q \in DOMAIN trips : trips[q] # NoVerdict =>
              /\ trips[q] \in {Fresh(q), NoLookup}
              /\ TripSpace(q) \notin skipped' => trips[q] = Fresh(q)
         /\ \A q : Fresh(q)' = Fresh(q)
<1>1. \A q : q # p => /\ Entries(table', TripSpace(q)) = Entries(table, TripSpace(q))
                      /\ TripSpace(q) \in skipped' <=> TripSpace(q) \in skipped
  BY SpacesDiffer DEF Touched
<1>2. skipped \subseteq skipped'
  BY DEF Touched
<1>3. \A q \in Wanted \ DOMAIN trips : q # p =>
        /\ cold = q => Filled(table', skipped', TripSpace(q), q)
        /\ cold # q => Entries(table', TripSpace(q)) = {}
  <2> SUFFICES ASSUME NEW q \in Wanted \ DOMAIN trips, q # p
               PROVE  /\ cold = q => Filled(table', skipped', TripSpace(q), q)
                      /\ cold # q => Entries(table', TripSpace(q)) = {}
    OBVIOUS
  <2>1. /\ cold = q => Filled(table, skipped, TripSpace(q), q)
        /\ cold # q => Entries(table, TripSpace(q)) = {}
    BY DEF CacheOK, TripsOK
  <2>2. Filled(table, skipped, TripSpace(q), q) => Filled(table', skipped', TripSpace(q), q)
    BY <1>1 DEF Filled
  <2> QED  BY <1>1, <2>1, <2>2
<1>4. \A q : Fresh(q)' = Fresh(q)
  BY DEF Fresh
<1> QED  BY <1>2, <1>3, <1>4 DEF CacheOK, TripsOK

LEMMA ColdStep ==
  ASSUME CacheOK, NEW p \in Wanted, Cold(p), other' = other
  PROVE  CacheOK'
<1> DEFINE s == TripSpace(p)
<1>1. /\ phase = "trips" /\ p \in Wanted \ DOMAIN trips /\ cold = NoPair /\ cold' = p
      /\ UNCHANGED <<phase, scored, trips, cases>>
  BY DEF Cold, OnTrip
<1>2. PICK v : Replies(s, p, "a", v)
  BY DEF Cold, TripSpace
<1>3. \A q \in Wanted : q # NoPair
  BY CacheAssumption DEF NoPair
<1>4. Entries(table, s) = {}
  BY <1>1, <1>3 DEF CacheOK, TripsOK
<1>5. Filled(table', skipped', s, p) /\ Touched(s, p, "a")
  BY <1>2, <1>4, FirstIs, RepliesIs
<1>6. TripsOK'
  BY <1>1, <1>3, <1>5, OthersWait DEF TripsOK
<1>7. CasesOK'
  BY <1>1, <1>5, CasesWait DEF Touched
<1> QED  BY <1>1, <1>6, <1>7, SameScores DEF CacheOK

(* The end of a trip, with or without a verdict. *)
LEMMA TripEnds ==
  ASSUME CacheOK, phase = "trips", NEW p \in Wanted \ DOMAIN trips, NEW side, NEW v,
         cold \in {NoPair, p}, cold' = NoPair, trips' = With(trips, p, v),
         UNCHANGED <<phase, scored, cases, other>>, Touched(TripSpace(p), p, side),
         v # NoVerdict => /\ v \in {Fresh(p), NoLookup}
                          /\ TripSpace(p) \notin skipped' => v = Fresh(p)
  PROVE  CacheOK'
<1>1. \A q \in Wanted : q # NoPair
  BY CacheAssumption DEF NoPair
<1>2. /\ DOMAIN trips' = DOMAIN trips \cup {p} /\ trips'[p] = v
      /\ \A q \in DOMAIN trips : trips'[q] = trips[q]
  BY DEF With
<1>3. \A q \in Wanted \ DOMAIN trips' : q # p /\ q # cold /\ q \in Wanted \ DOMAIN trips
  BY <1>1, <1>2
<1>4. \A q \in Wanted \ DOMAIN trips' : Entries(table', TripSpace(q)) = {} /\ q # cold'
  BY <1>1, <1>3, OthersWait
<1>5. \A q \in DOMAIN trips' : trips'[q] # NoVerdict =>
        /\ trips'[q] \in {Fresh(q), NoLookup}
        /\ TripSpace(q) \notin skipped' => trips'[q] = Fresh(q)
  BY <1>2, OthersWait
<1>6. \A q : Fresh(q)' = Fresh(q)
  BY OthersWait
<1>7. TripsOK'
  BY <1>4, <1>5, <1>6 DEF TripsOK
<1>8. CasesOK'
  BY CasesWait DEF Touched
<1> QED  BY <1>7, <1>8, SameScores DEF CacheOK

LEMMA WarmStep ==
  ASSUME CacheOK, NEW p \in Wanted, Warm(p), other' = other
  PROVE  CacheOK'
<1> DEFINE s == TripSpace(p)
<1>1. /\ phase = "trips" /\ p \in Wanted \ DOMAIN trips /\ cold = p /\ cold' = NoPair
      /\ UNCHANGED <<phase, scored, cases>>
  BY DEF Warm, OnTrip
<1>2. PICK v : Replies(s, p, "b", v) /\ trips' = With(trips, p, v)
  BY DEF Warm, TripSpace
<1>3. Filled(table, skipped, s, p) /\ scored[p] \in Scale
  BY <1>1, CacheAssumption DEF CacheOK, TripsOK, ScoresOK
<1>4. /\ Verdict(s, p, "b") \in {Fresh(p), NoLookup}
      /\ s \notin skipped => Verdict(s, p, "b") = Fresh(p)
  BY <1>3, VerdictFilled
<1>5. /\ Touched(s, p, "b") /\ v \in {Verdict(s, p, "b"), NoLookup}
      /\ s \notin skipped' => v = Verdict(s, p, "b")
  BY <1>2, RepliesIs
<1>6. v \in {Fresh(p), NoLookup} /\ (s \notin skipped' => v = Fresh(p))
  BY <1>4, <1>5 DEF Touched
<1> QED  BY <1>1, <1>2, <1>5, <1>6, TripEnds

LEMMA TripFailsStep ==
  ASSUME CacheOK, NEW p \in Wanted, TripFails(p), other' = other
  PROVE  CacheOK'
<1>1. /\ phase = "trips" /\ p \in Wanted \ DOMAIN trips /\ cold \in {NoPair, p} /\ cold' = NoPair
      /\ UNCHANGED <<phase, scored, cases>> /\ trips' = With(trips, p, NoVerdict)
  BY DEF TripFails, OnTrip
<1>2. PICK side : Fails(TripSpace(p), p, side)
  BY DEF TripFails, TripSpace
<1>3. Touched(TripSpace(p), p, side)
  BY <1>2, FailsIs
<1> QED  BY <1>1, <1>3, TripEnds

LEMMA TripsApart == \A k \in 1..4 : \A p : TripSpace(p) # Space(k)
<1> TAKE k \in 1..4
<1> DEFINE s == Space(k)
<1>1. s.system.use # "trip"
  BY SpacesDiffer
<1> HIDE DEF s
<1>2. \A p : TripSpace(p).system.use = "trip"
  BY SpacesDiffer
<1>3. \A p : TripSpace(p) # s
  BY <1>1, <1>2
<1> QED  BY <1>3 DEF s

(* A call of a case leaves the trips as they were. *)
LEMMA TripsStay ==
  ASSUME CacheOK, NEW k \in 1..4, NEW s, s = Space(k), NEW p, NEW side, Touched(s, p, side),
         UNCHANGED <<scored, cold, trips>>, phase' # "score"
  PROVE  TripsOK'
<1>1. \A q : TripSpace(q) # s
  BY TripsApart
<1>2. \A q : /\ Entries(table', TripSpace(q)) = Entries(table, TripSpace(q))
             /\ TripSpace(q) \in skipped' <=> TripSpace(q) \in skipped
  BY <1>1 DEF Touched
<1>3. \A q : Fresh(q)' = Fresh(q)
  BY DEF Fresh
<1>4. \A q \in Wanted \ DOMAIN trips' :
        /\ cold' = q => Filled(table', skipped', TripSpace(q), q)
        /\ cold' # q => Entries(table', TripSpace(q)) = {}
  <2> SUFFICES ASSUME NEW q \in Wanted \ DOMAIN trips
               PROVE  /\ cold = q => Filled(table', skipped', TripSpace(q), q)
                      /\ cold # q => Entries(table', TripSpace(q)) = {}
    OBVIOUS
  <2>1. /\ cold = q => Filled(table, skipped, TripSpace(q), q)
        /\ cold # q => Entries(table, TripSpace(q)) = {}
    BY DEF CacheOK, TripsOK
  <2>2. Filled(table, skipped, TripSpace(q), q) => Filled(table', skipped', TripSpace(q), q)
    BY <1>2 DEF Filled
  <2> QED  BY <1>2, <2>1, <2>2
<1>5. \A q \in DOMAIN trips' : trips'[q] # NoVerdict =>
        /\ trips'[q] \in {Fresh(q), NoLookup}
        /\ TripSpace(q) \notin skipped' => trips'[q] = Fresh(q)
  BY <1>2 DEF CacheOK, TripsOK
<1> QED  BY <1>3, <1>4, <1>5 DEF TripsOK

LEMMA StoreStep ==
  ASSUME CacheOK, Store, other' = other
  PROVE  CacheOK'
<1>1. PICK s : s = Space(1)
  OBVIOUS
<1>2. PICK S : S = Strongest
  OBVIOUS
<1>3. /\ phase = "store" /\ UNCHANGED <<scored, cold, trips, cases>>
      /\ \/ phase' = "cases" /\ \E v : Replies(s, S, "a", v)
         \/ phase' = "aborted" /\ Fails(s, S, "a")
  BY <1>1, <1>2, SpacesDiffer DEF Store
<1>4. /\ ScoresOK' /\ Strongest' = S /\ Lone' = Lone
      /\ \A k \in 1..4 : Space(k)' = Space(k)
  BY <1>2, <1>3, SameScores
<1>5. cases = << >> /\ \A e \in table : e.space.system.use = "trip"
  BY <1>3 DEF CacheOK, CasesOK
<1>6. \A k \in 1..4 : Entries(table, Space(k)) = {}
  BY <1>5, SpacesDiffer DEF Entries
<1>7. Touched(s, S, "a")
  BY <1>3, RepliesIs, FailsIs
<1>8. phase' = "cases" => Filled(table', skipped', s, S)
  BY <1>1, <1>3, <1>6, FirstIs
<1>9. \A k \in Lone : k # 1 => k \in 1..4 /\ Entries(table', Space(k)) = {}
  <2> SUFFICES ASSUME NEW k \in Lone, k # 1
               PROVE  k \in 1..4 /\ Entries(table', Space(k)) = {}
    OBVIOUS
  <2>1. k \in 1..4 /\ Space(k) # s
    BY <1>1, SpacesDiffer DEF Lone
  <2> QED  BY <1>6, <1>7, <2>1 DEF Touched
<1>10. TripsOK'
  BY <1>1, <1>3, <1>7, TripsStay
<1>11. cases' = << >> /\ phase' \in {"cases", "aborted"} /\ DOMAIN << >> = {} /\ Len(<< >>) = 0
  BY <1>3, <1>5
<1>12. cases' \in Seq([hit : BOOLEAN, best : Scale \cup {-1}])
  BY <1>11
<1>13. OnlyTheSameNamespaceHits'
  BY <1>11 DEF OnlyTheSameNamespaceHits
<1>14. phase' = "cases" => Filled(table', skipped', Space(1)', Strongest')
  BY <1>1, <1>4, <1>8
<1>15. \A k \in Lone' : k # 1 => Entries(table', Space(k)') = {}
  BY <1>4, <1>9
<1>16. CasesOK'
  BY <1>11, <1>12, <1>13, <1>14, <1>15 DEF CasesOK
<1> QED  BY <1>4, <1>10, <1>16 DEF CacheOK

LEMMA CaseStep ==
  ASSUME CacheOK, Case, other' = other
  PROVE  CacheOK'
<1> DEFINE n == Len(cases) + 1
           Told == [hit : BOOLEAN, best : Scale \cup {-1}]
<1>1. PICK s : s = Space(n)
  OBVIOUS
<1>2. PICK S : S = Strongest
  OBVIOUS
<1>3. PICK v : /\ \/ Replies(s, S, "b", v)
                  \/ v = NoVerdict /\ Fails(s, S, "b")
               /\ cases' = Append(cases, v)
  BY <1>1, <1>2 DEF Case
<1>4. /\ phase = "cases" /\ phase' = IF Len(cases') = 4 THEN "report" ELSE "cases"
      /\ UNCHANGED <<scored, cold, trips>>
  BY DEF Case
<1>5. /\ ScoresOK' /\ Scored /\ Strongest' = S /\ Lone' = Lone
      /\ \A k \in 1..4 : Space(k)' = Space(k)
  BY <1>2, <1>4, SameScores
<1>6. /\ cases \in Seq(Told) /\ Len(cases) < 4
      /\ Len(cases) = 0 => Filled(table, skipped, Space(1), S)
      /\ \A k \in Lone : k # 1 /\ k > Len(cases) => Entries(table, Space(k)) = {}
      /\ OnlyTheSameNamespaceHits
  BY <1>2, <1>4 DEF CacheOK, CasesOK
<1>7. n \in 1..4 /\ n > Len(cases) /\ Len(cases) \in Nat
  BY <1>6
<1>8. scored[S] \in Scale
  BY <1>2, <1>5, StrongestIs
<1>9. Touched(s, S, "b")
  BY <1>3, RepliesIs, FailsIs
<1>10. v # NoVerdict => /\ v \in {Verdict(s, S, "b"), NoLookup}
                        /\ s \notin skipped' => v = Verdict(s, S, "b")
  BY <1>3, RepliesIs
<1>11. v \in Told
  <2>1. Verdict(s, S, "b") \in Told
    BY <1>8, LookupIs, VerdictIs DEF Verdict
  <2>2. NoLookup \in Told /\ NoVerdict \in Told
    BY GridIs DEF NoLookup, NoVerdict, Scale
  <2> QED  BY <1>10, <2>1, <2>2
<1>12. n = 1 /\ v # NoVerdict =>
         /\ v \in {Fresh(S), NoLookup}
         /\ s \notin skipped' => v = Fresh(S)
  <2>1. n = 1 => Filled(table, skipped, s, S)
    BY <1>1, <1>6, <1>7
  <2> QED  BY <1>8, <1>9, <1>10, <2>1, VerdictFilled DEF Touched
<1>13. n # 1 /\ n \in Lone => ~v.hit
  <2>1. n # 1 /\ n \in Lone => Entries(table, s) = {}
    BY <1>1, <1>6, <1>7
  <2> QED  BY <1>10, <2>1, VerdictEmpty, VerdictIs
<1>14. /\ v.hit => (n = 1 /\ scored[S] >= CacheThreshold) \/ (n = 2 /\ other = Model)
       /\ n = 1 /\ v # NoVerdict /\ s \notin skipped' => (v.hit <=> scored[S] >= CacheThreshold)
  BY <1>7, <1>12, <1>13, VerdictIs DEF Lone
<1> HIDE DEF Told
<1>15. /\ cases' \in Seq(Told) /\ Len(cases') = n /\ DOMAIN cases' = DOMAIN cases \cup {n}
       /\ cases'[n] = v /\ n \notin DOMAIN cases /\ \A k \in DOMAIN cases : cases'[k] = cases[k]
       /\ DOMAIN cases \subseteq 1..4
  BY <1>3, <1>6, <1>11
<1>16. ASSUME NEW k \in DOMAIN cases'
       PROVE  /\ cases'[k].hit =>
                   (k = 1 /\ scored'[S] >= CacheThreshold) \/ (k = 2 /\ other' = Model)
              /\ k = 1 /\ cases'[k] # NoVerdict /\ Space(k)' \notin skipped' =>
                   (cases'[k].hit <=> scored'[S] >= CacheThreshold)
  <2>1. CASE k = n
    BY <1>1, <1>4, <1>5, <1>7, <1>14, <1>15, <2>1
  <2>2. CASE k # n
    <3>1. k \in DOMAIN cases /\ k \in 1..4 /\ cases'[k] = cases[k] /\ skipped \subseteq skipped'
      BY <1>9, <1>15, <2>2 DEF Touched
    <3>2. /\ cases[k].hit => (k = 1 /\ scored[S] >= CacheThreshold) \/ (k = 2 /\ other = Model)
          /\ k = 1 /\ cases[k] # NoVerdict /\ Space(k) \notin skipped =>
               (cases[k].hit <=> scored[S] >= CacheThreshold)
      BY <1>2, <1>6, <3>1 DEF OnlyTheSameNamespaceHits
    <3> QED  BY <1>4, <1>5, <3>1, <3>2
  <2> QED  BY <2>1, <2>2
<1>17. OnlyTheSameNamespaceHits'
  BY <1>5, <1>16 DEF OnlyTheSameNamespaceHits
<1>18. TripsOK'
  BY <1>1, <1>4, <1>7, <1>9, TripsStay
<1>19. \A k \in Lone' : k # 1 /\ k > Len(cases') => Entries(table', Space(k)') = {}
  <2> SUFFICES ASSUME NEW k \in Lone, k # 1, k > n
               PROVE  Entries(table', Space(k)') = {}
    BY <1>5, <1>15
  <2>1. k \in 1..4 /\ k > Len(cases) /\ n < k
    BY <1>7 DEF Lone
  <2>3. Space(k) # s
    <3>1. \A j \in 1..4 : j < k => Space(j) # Space(k)
      BY SpacesDiffer
    <3>2. Space(n) # Space(k)
      BY <1>7, <2>1, <3>1
    <3> QED  BY <1>1, <3>2
  <2>2. Entries(table, Space(k)) = {}
    BY <1>6, <2>1
  <2> QED  BY <1>5, <1>9, <2>1, <2>2, <2>3 DEF Touched
<1>20. phase' = "cases" => Len(cases') < 4 /\ Len(cases') # 0
  BY <1>4, <1>7, <1>15
<1>21. phase' \in {"cases", "report"}
  BY <1>4
<1>22. CasesOK'
  BY <1>15, <1>17, <1>19, <1>20, <1>21 DEF CasesOK, Told
<1> QED  BY <1>5, <1>18, <1>22 DEF CacheOK

LEMMA CacheNext == CacheOK /\ [Next]_vars => CacheOK'
<1> SUFFICES ASSUME CacheOK, [Next]_vars
             PROVE  CacheOK'
  OBVIOUS
<1>0. other' = other
  BY DEF Next, vars
<1>1. CASE Score
  BY <1>1, ScoreStep
<1>2. CASE TripsDone
  <2>1. /\ phase = "trips" /\ phase' = "store"
        /\ UNCHANGED <<scored, cold, trips, cases, table, skipped>>
    BY <1>2 DEF TripsDone, cache
  <2>2. TripsOK'
    BY <2>1 DEF CacheOK, TripsOK, Fresh
  <2> QED  BY <1>0, <2>1, <2>2, CasesWait, SameScores DEF CacheOK
<1>3. CASE Store
  BY <1>0, <1>3, StoreStep
<1>4. CASE Case
  BY <1>0, <1>4, CaseStep
<1>5. ASSUME NEW p \in Wanted, Cold(p) \/ Warm(p) \/ TripFails(p)
      PROVE  CacheOK'
  BY <1>0, <1>5, ColdStep, WarmStep, TripFailsStep
<1>6. CASE UNCHANGED vars
  <2>1. UNCHANGED <<phase, scored, cold, trips, cases, table, skipped, other>>
    BY <1>6 DEF vars, cache
  <2>2. ScoresOK' /\ TripsOK'
    BY <2>1 DEF CacheOK, ScoresOK, TripsOK, Fresh
  <2>3. Strongest' = Strongest /\ Lone' = Lone
    BY <2>1 DEF Strongest, Lone
  <2>4. \A k : Space(k)' = Space(k)
    BY <2>1, <2>3 DEF Space
  <2>5. OnlyTheSameNamespaceHits'
    BY <2>1, <2>3, <2>4 DEF CacheOK, CasesOK, OnlyTheSameNamespaceHits
  <2>6. CasesOK'
    BY <2>1, <2>3, <2>4, <2>5 DEF CacheOK, CasesOK
  <2> QED  BY <2>2, <2>6 DEF CacheOK
<1> QED  BY <1>1, <1>2, <1>3, <1>4, <1>5, <1>6 DEF Next

LEMMA CacheAlways == Spec => []CacheOK
<1> QED  BY CacheInit, CacheNext, PTL DEF Spec

-----------------------------------------------------------------------------
(* A round trip that came back shows the similarity of B with A, and hits  *)
(* exactly when that reaches the configured threshold; in a trip where the *)
(* gateway went without an embedding it may show nothing, and never        *)
(* anything else, whichever calls failed, whether or not the cache would   *)
(* have served them, and whatever earlier runs left (_round_trip).         *)
THEOREM WarmIsAgainstColdAlways == Spec => []WarmIsAgainstCold
<1>1. CacheOK => WarmIsAgainstCold
  <2> SUFFICES ASSUME CacheOK, NEW p \in DOMAIN trips, trips[p] # NoVerdict
               PROVE  /\ trips[p] \in {Fresh(p), NoLookup}
                      /\ p \in Saved => p \in Positive /\ scored[p] >= CacheThreshold
                      /\ TripSpace(p) \notin skipped =>
                           /\ trips[p] = Fresh(p)
                           /\ p \in Saved <=> p \in Positive /\ scored[p] >= CacheThreshold
    BY DEF WarmIsAgainstCold, Fresh, TripSpace
  <2>1. /\ trips[p] \in {Fresh(p), NoLookup}
        /\ TripSpace(p) \notin skipped => trips[p] = Fresh(p)
    BY DEF CacheOK, TripsOK
  <2>2. p \in Saved <=> p \in Positive /\ trips[p].hit
    BY DEF Saved
  <2> QED  BY <2>1, <2>2, VerdictIs
<1> QED  BY <1>1, CacheAlways, PTL

(* Of the four cases only the control may hit, and the other model where   *)
(* --tier picked the same rung, whatever the cases before stored and       *)
(* whichever of them failed; a control that came back hits exactly when    *)
(* the pair is close enough, unless the gateway went without an embedding  *)
(* (_namespace_isolation).                                                 *)
THEOREM OnlyTheSameNamespaceHitsAlways == Spec => []OnlyTheSameNamespaceHits
<1>1. CacheOK => OnlyTheSameNamespaceHits
  BY DEF CacheOK, CasesOK
<1> QED  BY <1>1, CacheAlways, PTL

(* The report says "separable" exactly when some threshold admits every    *)
(* positive and no negative, names just the thresholds that do, and says   *)
(* that none reaches zero collisions exactly when none does (separable).   *)
THEOREM SeparableMeansAThresholdAlways == Spec => []SeparableMeansAThreshold
<1>1. CacheOK => SeparableMeansAThreshold
  <2>1. CacheOK /\ phase # "score" => Scored
    BY DEF CacheOK, ScoresOK, Scored
  <2>2. phase = "score" => SeparableMeansAThreshold
    BY DEF SeparableMeansAThreshold, Reported
  <2> QED  BY <2>1, <2>2, ReportSeparates
<1> QED  BY <1>1, CacheAlways, PTL

(* The point the report recommends has no collision if any has none, and   *)
(* is then the strictest of those that catch the most; each family allows  *)
(* at least as much; and collisions that fall at all fall at the knee      *)
(* (best_operating, steepest_fpr_drop).                                    *)
THEOREM SafestIsSafeAlways == Spec => []SafestIsSafe
<1>1. CacheOK => SafestIsSafe
  <2>1. CacheOK /\ phase # "score" => Scored
    BY DEF CacheOK, ScoresOK, Scored
  <2>2. phase = "score" => SafestIsSafe
    BY DEF SafestIsSafe, Reported
  <2> QED  BY <2>1, <2>2, ReportIsSafe
<1> QED  BY <1>1, CacheAlways, PTL
=============================================================================

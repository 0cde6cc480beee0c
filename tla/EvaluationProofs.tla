-------------------------- MODULE EvaluationProofs --------------------------
(***************************************************************************)
(* Proofs about the cost-per-resolved-task evaluation, for every rubric,   *)
(* panel, ladder, price list and set of tasks.                             *)
(***************************************************************************)
EXTENDS Evaluation, FiniteSetTheorems, WellFoundedInduction, TLAPS

-----------------------------------------------------------------------------
(***************************************************************************)
(* Sums.  A fold is a recursive function over the subsets of its set, which*)
(* exists because a subset is smaller than its set.                        *)
(***************************************************************************)
Pick(s) == CHOOSE x \in s : TRUE

(* What a function g on the subsets of S must satisfy to be the fold. *)
Adds(F, g, s) == g[s] = IF s = {} THEN 0 ELSE F[Pick(s)] + g[s \ {Pick(s)}]

Fold(F, S) ==
  CHOOSE g : g = [s \in SUBSET S |->
                    IF s = {} THEN 0 ELSE F[Pick(s)] + g[s \ {Pick(s)}]]

LEMMA SumIsFold == \A F, S : SumFunctionOnSet(F, S) = Fold(F, S)[S]
  BY DEF SumFunctionOnSet, FoldFunctionOnSet, MapThenFoldSet, Fold, Pick

(* For subsets of n elements at most there is one, for every n.            *)
LEMMA FoldUpTo ==
  ASSUME NEW F, NEW S, IsFiniteSet(S), NEW n \in Nat
  PROVE  \E g : \A s \in SUBSET S : Cardinality(s) <= n => Adds(F, g, s)
<1> DEFINE UpTo(k, g) == \A s \in SUBSET S : Cardinality(s) <= k => Adds(F, g, s)
           Good(k) == \E g : UpTo(k, g)
           Bad == {k \in Nat : ~Good(k)}
           R == OpToRel(<, Nat)
<1>1. SUFFICES ASSUME Bad # {} PROVE FALSE
  <2>1. n \notin Bad => Good(n)
    OBVIOUS
  <2> QED  BY <2>1
<1>0. IsWellFoundedOn(R, Nat) /\ Bad \subseteq Nat
  BY NatLessThanWellFounded
<1>2. PICK k \in Bad : \A j \in Bad : ~ (<<j, k>> \in R)
  BY <1>0, <1>1, WFMin, Zenon
<1>3. k \in Nat /\ ~Good(k) /\ \A j \in Nat : j < k => Good(j)
  <2>1. \A j \in Nat : j < k => <<j, k>> \in R
    BY <1>2 DEF OpToRel
  <2> QED  BY <1>2, <2>1
<1> HIDE DEF Bad, R
<1>4. \A s \in SUBSET S : IsFiniteSet(s) /\ Cardinality(s) \in Nat
  BY FS_Subset, FS_CardinalityType
<1>5. CASE k = 0
  <2>1. UpTo(0, [s \in SUBSET S |-> 0])
    <3>1. \A s \in SUBSET S : Cardinality(s) <= 0 => s = {}
      BY <1>4, FS_EmptySet
    <3> QED  BY <3>1 DEF Adds
  <2> QED  BY <2>1, <1>3, <1>5
<1>6. CASE k > 0
  <2>1. PICK g : UpTo(k - 1, g)
    <3>1. k - 1 \in Nat /\ k - 1 < k
      BY <1>3, <1>6
    <3> QED  BY <1>3, <3>1
  <2> DEFINE h == [s \in SUBSET S |->
                     IF Cardinality(s) <= k - 1 THEN g[s] ELSE F[Pick(s)] + g[s \ {Pick(s)}]]
  <2>2. ASSUME NEW s \in SUBSET S, Cardinality(s) <= k PROVE Adds(F, h, s)
    <3>1. CASE s = {}
      <4>1. Cardinality(s) = 0 /\ h[s] = g[s] /\ Adds(F, g, s)
        BY <1>3, <1>6, <2>1, <3>1, FS_EmptySet
      <4> QED  BY <3>1, <4>1 DEF Adds
    <3>2. CASE s # {}
      <4>1. Pick(s) \in s /\ s \ {Pick(s)} \in SUBSET S
        BY <3>2 DEF Pick
      <4>2. Cardinality(s \ {Pick(s)}) <= k - 1
        BY <1>3, <1>4, <2>2, <4>1, FS_RemoveElement
      <4>3. h[s \ {Pick(s)}] = g[s \ {Pick(s)}]
        BY <4>1, <4>2
      <4>4. CASE Cardinality(s) <= k - 1
        <5>1. Adds(F, g, s) /\ h[s] = g[s]
          BY <2>1, <4>4
        <5> QED  BY <4>3, <5>1 DEF Adds
      <4>5. CASE ~(Cardinality(s) <= k - 1)
        <5>1. h[s] = F[Pick(s)] + g[s \ {Pick(s)}]
          BY <4>5
        <5> QED  BY <3>2, <4>3, <5>1 DEF Adds
      <4> QED  BY <4>4, <4>5
    <3> QED  BY <3>1, <3>2
  <2>3. UpTo(k, h)
    BY <2>2
  <2> HIDE DEF h, UpTo
  <2> QED  BY <1>3, <2>3
<1> QED  BY <1>3, <1>5, <1>6

LEMMA FoldAdds ==
  ASSUME NEW F, NEW S, IsFiniteSet(S)
  PROVE  \A s \in SUBSET S : Adds(F, Fold(F, S), s)
<1> DEFINE Step(g, s) == IF s = {} THEN 0 ELSE F[Pick(s)] + g[s \ {Pick(s)}]
<1>1. PICK g : \A s \in SUBSET S : Adds(F, g, s)
  <2>1. \A s \in SUBSET S : Cardinality(s) <= Cardinality(S)
    BY FS_Subset
  <2>2. Cardinality(S) \in Nat
    BY FS_CardinalityType
  <2> QED  BY <2>1, <2>2, FoldUpTo
<1> DEFINE h == [s \in SUBSET S |-> g[s]]
<1>2. h = [s \in SUBSET S |-> Step(h, s)]
  <2>1. ASSUME NEW s \in SUBSET S PROVE g[s] = Step(h, s)
    <3>1. g[s] = Step(g, s)
      BY <1>1 DEF Adds
    <3>2. s # {} => h[s \ {Pick(s)}] = g[s \ {Pick(s)}]
      OBVIOUS
    <3> QED  BY <3>1, <3>2
  <2> QED  BY <2>1
<1> HIDE DEF h
<1>3. Fold(F, S) = [s \in SUBSET S |-> Step(Fold(F, S), s)]
  BY <1>2 DEF Fold
<1> HIDE DEF Step
<1>4. ASSUME NEW s \in SUBSET S PROVE Fold(F, S)[s] = Step(Fold(F, S), s)
  BY <1>3
<1> QED  BY <1>4 DEF Adds, Step

(* Sums of less and less of a set: the smallest set of which something is  *)
(* false, if there is one.                                                 *)
LEMMA SmallestSubset ==
  ASSUME NEW S, IsFiniteSet(S), NEW B, B \subseteq SUBSET S, B # {}
  PROVE  \E s \in B : \A t \in B : ~(t \subseteq s /\ t # s)
<1>1. B \subseteq FiniteSubsetsOf(S)
  BY FS_Subset DEF FiniteSubsetsOf
<1>2. PICK s \in B : \A t \in B : ~(<<t, s>> \in StrictSubsetOrdering(S))
  BY <1>1, FS_StrictSubsetOrderingWellFounded, WFMin, Zenon
<1> QED  BY <1>2 DEF StrictSubsetOrdering

(* A fold of a set is the fold of each of its subsets.                     *)
LEMMA FoldWithin ==
  ASSUME NEW F, NEW S, IsFiniteSet(S), NEW s \in SUBSET S
  PROVE  \A t \in SUBSET s : Fold(F, S)[t] = Fold(F, s)[t]
<1> DEFINE B == {t \in SUBSET s : Fold(F, S)[t] # Fold(F, s)[t]}
<1>1. SUFFICES ASSUME B # {} PROVE FALSE
  OBVIOUS
<1>2. IsFiniteSet(s) /\ B \subseteq SUBSET s
  BY FS_Subset
<1>3. PICK t \in B : \A u \in B : ~(u \subseteq t /\ u # t)
  <2>1. B \subseteq SUBSET s
    OBVIOUS
  <2> HIDE DEF B
  <2> QED  BY <1>1, <1>2, <2>1, SmallestSubset
<1>4. Adds(F, Fold(F, S), t) /\ Adds(F, Fold(F, s), t)
  BY <1>2, <1>3, FoldAdds
<1>5. t # {}
  BY <1>3, <1>4 DEF Adds
<1>6. Pick(t) \in t
  BY <1>5 DEF Pick
<1>7. Fold(F, S)[t \ {Pick(t)}] = Fold(F, s)[t \ {Pick(t)}]
  <2>1. t \ {Pick(t)} \notin B
    BY <1>3, <1>6
  <2> QED  BY <1>2, <1>3, <2>1
<1> QED  BY <1>3, <1>4, <1>5, <1>7 DEF Adds

LEMMA SumPick ==
  ASSUME NEW F, NEW S, IsFiniteSet(S)
  PROVE  SumFunctionOnSet(F, S) =
           IF S = {} THEN 0 ELSE F[Pick(S)] + SumFunctionOnSet(F, S \ {Pick(S)})
<1>1. Adds(F, Fold(F, S), S)
  BY FoldAdds
<1>2. Fold(F, S)[S \ {Pick(S)}] = Fold(F, S \ {Pick(S)})[S \ {Pick(S)}]
  BY FoldWithin
<1> QED  BY <1>1, <1>2, SumIsFold DEF Adds

LEMMA SumType ==
  ASSUME NEW F, NEW S, IsFiniteSet(S), \A x \in S : F[x] \in Nat
  PROVE  SumFunctionOnSet(F, S) \in Nat
<1> DEFINE B == {s \in SUBSET S : SumFunctionOnSet(F, s) \notin Nat}
<1>1. SUFFICES ASSUME B # {} PROVE FALSE
  OBVIOUS
<1>2. PICK s \in B : \A t \in B : ~(t \subseteq s /\ t # s)
  <2>1. B \subseteq SUBSET S
    OBVIOUS
  <2> HIDE DEF B
  <2> QED  BY <1>1, <2>1, SmallestSubset
<1>3. IsFiniteSet(s)
  BY <1>2, FS_Subset
<1>4. s # {}
  <2>1. s = {} => SumFunctionOnSet(F, s) = 0
    BY <1>3, SumPick
  <2> QED  BY <1>2, <2>1
<1>5. Pick(s) \in s
  BY <1>4 DEF Pick
<1>6. SumFunctionOnSet(F, s \ {Pick(s)}) \in Nat
  <2>1. s \ {Pick(s)} \notin B
    BY <1>2, <1>5
  <2> QED  BY <1>2, <2>1
<1>7. SumFunctionOnSet(F, s) = F[Pick(s)] + SumFunctionOnSet(F, s \ {Pick(s)})
  BY <1>3, <1>4, SumPick
<1>8. F[Pick(s)] \in Nat
  BY <1>2, <1>5
<1> QED  BY <1>2, <1>6, <1>7, <1>8

(* Any element can be taken out first.                                     *)
LEMMA SumTake ==
  ASSUME NEW F, NEW S, IsFiniteSet(S), \A x \in S : F[x] \in Nat, NEW y \in S
  PROVE  SumFunctionOnSet(F, S) = F[y] + SumFunctionOnSet(F, S \ {y})
<1> DEFINE Sum(s) == SumFunctionOnSet(F, s)
           B == {s \in SUBSET S : \E x \in s : Sum(s) # F[x] + Sum(s \ {x})}
<1>1. SUFFICES ASSUME B # {} PROVE FALSE
  OBVIOUS
<1>2. PICK s \in B : \A t \in B : ~(t \subseteq s /\ t # s)
  <2>1. B \subseteq SUBSET S
    OBVIOUS
  <2> HIDE DEF B
  <2> QED  BY <1>1, <2>1, SmallestSubset
<1>3. \A t \in SUBSET S : IsFiniteSet(t) /\ Sum(t) \in Nat
  BY FS_Subset, SumType
<1>4. PICK x \in s : Sum(s) # F[x] + Sum(s \ {x})
  BY <1>2
<1> DEFINE p == Pick(s)
<1>5. p \in s
  BY <1>4 DEF Pick
<1>6. Sum(s) = F[p] + Sum(s \ {p})
  BY <1>2, <1>3, <1>5, SumPick
<1>7. p # x
  BY <1>4, <1>6
<1>8. s \ {p} \notin B /\ s \ {x} \notin B
  BY <1>2, <1>4, <1>5
<1>9. Sum(s \ {p}) = F[x] + Sum((s \ {p}) \ {x})
  BY <1>2, <1>4, <1>7, <1>8
<1>10. Sum(s \ {x}) = F[p] + Sum((s \ {x}) \ {p})
  BY <1>2, <1>5, <1>7, <1>8
<1>11. (s \ {p}) \ {x} = (s \ {x}) \ {p}
  OBVIOUS
<1>12. F[x] \in Nat /\ F[p] \in Nat /\ Sum((s \ {x}) \ {p}) \in Nat
  BY <1>2, <1>3, <1>4, <1>5
<1> DEFINE r == Sum((s \ {x}) \ {p})
<1>13. /\ Sum(s) # F[x] + Sum(s \ {x}) /\ Sum(s) = F[p] + Sum(s \ {p})
       /\ Sum(s \ {p}) = F[x] + r /\ Sum(s \ {x}) = F[p] + r
       /\ F[x] \in Nat /\ F[p] \in Nat /\ r \in Nat
  BY <1>4, <1>6, <1>9, <1>10, <1>11, <1>12
<1> HIDE DEF Sum, p, r
<1> QED  BY <1>13

(* A sum depends on the values that are added only.                        *)
LEMMA SumSame ==
  ASSUME NEW F, NEW G, NEW S, IsFiniteSet(S), \A x \in S : F[x] = G[x]
  PROVE  SumFunctionOnSet(F, S) = SumFunctionOnSet(G, S)
<1> DEFINE B == {s \in SUBSET S : SumFunctionOnSet(F, s) # SumFunctionOnSet(G, s)}
<1>1. SUFFICES ASSUME B # {} PROVE FALSE
  OBVIOUS
<1>2. PICK s \in B : \A t \in B : ~(t \subseteq s /\ t # s)
  <2>1. B \subseteq SUBSET S
    OBVIOUS
  <2> HIDE DEF B
  <2> QED  BY <1>1, <2>1, SmallestSubset
<1>3. IsFiniteSet(s)
  BY <1>2, FS_Subset
<1>4. s # {}
  <2>1. s = {} => SumFunctionOnSet(F, s) = 0 /\ SumFunctionOnSet(G, s) = 0
    BY <1>3, SumPick
  <2> QED  BY <1>2, <2>1
<1>5. Pick(s) \in s
  BY <1>4 DEF Pick
<1>6. SumFunctionOnSet(F, s \ {Pick(s)}) = SumFunctionOnSet(G, s \ {Pick(s)})
  <2>1. s \ {Pick(s)} \notin B
    BY <1>2, <1>5
  <2> QED  BY <1>2, <2>1
<1> QED  BY <1>2, <1>3, <1>4, <1>5, <1>6, SumPick

(* A function that is extended: its sum grows by the value it gets.        *)
LEMMA SumPut ==
  ASSUME NEW f, NEW g, NEW x, IsFiniteSet(DOMAIN f), x \notin DOMAIN f,
         DOMAIN g = DOMAIN f \cup {x}, \A y \in DOMAIN f : g[y] = f[y] /\ f[y] \in Nat,
         g[x] \in Nat
  PROVE  SumFunction(f) \in Nat /\ SumFunction(g) = SumFunction(f) + g[x]
<1>1. IsFiniteSet(DOMAIN g) /\ (DOMAIN g) \ {x} = DOMAIN f
  BY FS_AddElement
<1>2. SumFunctionOnSet(g, DOMAIN g) = g[x] + SumFunctionOnSet(g, DOMAIN f)
  BY <1>1, SumTake
<1>3. SumFunctionOnSet(g, DOMAIN f) = SumFunctionOnSet(f, DOMAIN f)
  BY SumSame
<1>4. SumFunctionOnSet(f, DOMAIN f) \in Nat
  BY SumType
<1> QED  BY <1>2, <1>3, <1>4 DEF SumFunction

LEMMA SumOfNone ==
  ASSUME NEW f, DOMAIN f = {}
  PROVE  SumFunction(f) = 0
BY SumPick, FS_EmptySet DEF SumFunction

(* One for each element of A, and k for each of the others.                *)
LEMMA SumOfTwoValues ==
  ASSUME NEW F, NEW S, IsFiniteSet(S), NEW A, NEW k \in Nat,
         \A x \in S : F[x] = IF x \in A THEN 1 ELSE k
  PROVE  SumFunctionOnSet(F, S) = Cardinality(S \cap A) + Cardinality(S \ A) * k
<1> DEFINE Right(s) == SumFunctionOnSet(F, s) = Cardinality(s \cap A) + Cardinality(s \ A) * k
           B == {s \in SUBSET S : ~Right(s)}
<1>1. SUFFICES ASSUME B # {} PROVE FALSE
  <2>1. S \notin B => Right(S)
    OBVIOUS
  <2> QED  BY <2>1
<1>2. PICK s \in B : \A t \in B : ~(t \subseteq s /\ t # s)
  <2>1. B \subseteq SUBSET S
    OBVIOUS
  <2> HIDE DEF B
  <2> QED  BY <1>1, <2>1, SmallestSubset
<1>3. \A t \in SUBSET S : /\ IsFiniteSet(t) /\ IsFiniteSet(t \cap A) /\ IsFiniteSet(t \ A)
                          /\ Cardinality(t \cap A) \in Nat /\ Cardinality(t \ A) \in Nat
  BY FS_Subset, FS_Intersection, FS_Difference, FS_CardinalityType
<1>4. s # {}
  <2>1. s = {} => SumFunctionOnSet(F, s) = 0 /\ s \cap A = {} /\ s \ A = {}
    BY <1>3, SumPick
  <2>2. s = {} => Cardinality(s \cap A) = 0 /\ Cardinality(s \ A) = 0
    BY <2>1, FS_EmptySet
  <2> QED  BY <1>2, <2>1, <2>2
<1> DEFINE x == Pick(s)
           t == s \ {x}
<1>5. x \in s
  BY <1>4 DEF Pick
<1>6. SumFunctionOnSet(F, s) = F[x] + SumFunctionOnSet(F, t)
  BY <1>2, <1>3, <1>4, SumPick
<1>7. Right(t)
  <2>1. t \notin B
    BY <1>2, <1>5
  <2>2. t \in SUBSET S
    BY <1>2
  <2> QED  BY <2>1, <2>2
<1> DEFINE a == Cardinality(t \cap A)
           b == Cardinality(t \ A)
<1>8. a \in Nat /\ b \in Nat /\ SumFunctionOnSet(F, t) = a + b * k
  BY <1>2, <1>3, <1>7
<1>11. /\ IsFiniteSet(s \cap A) /\ IsFiniteSet(s \ A)
       /\ Cardinality(s \cap A) \in Nat /\ Cardinality(s \ A) \in Nat
  BY <1>2, <1>3
<1>9. CASE x \in A
  <2>1. t \cap A = (s \cap A) \ {x} /\ t \ A = s \ A /\ x \in s \cap A /\ F[x] = 1
    BY <1>2, <1>5, <1>9
  <2>2. a = Cardinality(s \cap A) - 1 /\ b = Cardinality(s \ A)
    <3>1. Cardinality((s \cap A) \ {x}) = Cardinality(s \cap A) - 1
      <4> HIDE DEF x
      <4> QED  BY <1>11, <2>1, FS_RemoveElement
    <3> HIDE DEF x, t
    <3> QED  BY <2>1, <3>1
  <2>3. Cardinality(s \cap A) = a + 1
    <3> HIDE DEF a, b, x, t
    <3> QED  BY <1>11, <2>2
  <2>4. SumFunctionOnSet(F, s) # (a + 1) + b * k
    BY <1>2, <2>2, <2>3
  <2>5. b * k \in Nat
    BY <1>8
  <2> HIDE DEF a, b, x, t
  <2> QED  BY <1>6, <1>8, <2>1, <2>4, <2>5
<1>10. CASE x \notin A
  <2>1. t \ A = (s \ A) \ {x} /\ t \cap A = s \cap A /\ x \in s \ A /\ F[x] = k
    BY <1>2, <1>5, <1>10
  <2>2. b = Cardinality(s \ A) - 1 /\ a = Cardinality(s \cap A)
    <3>1. Cardinality((s \ A) \ {x}) = Cardinality(s \ A) - 1
      <4> HIDE DEF x
      <4> QED  BY <1>11, <2>1, FS_RemoveElement
    <3> HIDE DEF x, t
    <3> QED  BY <2>1, <3>1
  <2>3. Cardinality(s \ A) = b + 1
    <3> HIDE DEF a, b, x, t
    <3> QED  BY <1>11, <2>2
  <2>4. SumFunctionOnSet(F, s) # a + (b + 1) * k
    BY <1>2, <2>2, <2>3
  <2>5. b * k \in Nat /\ (b + 1) * k = b * k + k
    BY <1>8
  <2> HIDE DEF a, b, x, t
  <2> QED  BY <1>6, <1>8, <2>1, <2>4, <2>5
<1> QED  BY <1>9, <1>10

(* At least one for each element of A.                                     *)
LEMMA SumAtLeast ==
  ASSUME NEW F, NEW S, IsFiniteSet(S), NEW A,
         \A x \in S : F[x] \in Nat /\ (x \in A => F[x] >= 1)
  PROVE  SumFunctionOnSet(F, S) >= Cardinality(S \cap A)
<1> DEFINE Right(s) == SumFunctionOnSet(F, s) >= Cardinality(s \cap A)
           B == {s \in SUBSET S : ~Right(s)}
<1>1. SUFFICES ASSUME B # {} PROVE FALSE
  <2>1. S \notin B => Right(S)
    OBVIOUS
  <2> QED  BY <2>1
<1>2. PICK s \in B : \A t \in B : ~(t \subseteq s /\ t # s)
  <2>1. B \subseteq SUBSET S
    OBVIOUS
  <2> HIDE DEF B
  <2> QED  BY <1>1, <2>1, SmallestSubset
<1>3. \A t \in SUBSET S : /\ IsFiniteSet(t) /\ IsFiniteSet(t \cap A)
                          /\ Cardinality(t \cap A) \in Nat
                          /\ SumFunctionOnSet(F, t) \in Nat
  BY FS_Subset, FS_Intersection, FS_CardinalityType, SumType
<1>4. s # {}
  <2>1. s = {} => SumFunctionOnSet(F, s) = 0 /\ s \cap A = {}
    BY <1>3, SumPick
  <2>2. s = {} => Cardinality(s \cap A) = 0
    BY <2>1, FS_EmptySet
  <2> QED  BY <1>2, <2>1, <2>2
<1> DEFINE x == Pick(s)
           t == s \ {x}
<1>5. x \in s
  BY <1>4 DEF Pick
<1>6. SumFunctionOnSet(F, s) = F[x] + SumFunctionOnSet(F, t)
  BY <1>2, <1>3, <1>4, SumPick
<1>7. Right(t) /\ t \in SUBSET S
  <2>1. t \notin B
    BY <1>2, <1>5
  <2>2. t \in SUBSET S
    BY <1>2
  <2> QED  BY <2>1, <2>2
<1>8. Cardinality(s \cap A) = IF x \in A THEN Cardinality(t \cap A) + 1 ELSE Cardinality(t \cap A)
  <2>1. t \cap A = (s \cap A) \ {x}
    OBVIOUS
  <2>2. x \in A => x \in s \cap A
    BY <1>5
  <2>3. Cardinality(t \cap A) = IF x \in s \cap A THEN Cardinality(s \cap A) - 1
                                                   ELSE Cardinality(s \cap A)
    BY <1>2, <1>3, <2>1, FS_RemoveElement
  <2>4. Cardinality(s \cap A) \in Nat
    BY <1>2, <1>3
  <2> HIDE DEF t, x
  <2> QED  BY <2>2, <2>3, <2>4
<1>9. /\ F[x] \in Nat /\ (x \in A => F[x] >= 1)
      /\ SumFunctionOnSet(F, t) \in Nat /\ Cardinality(t \cap A) \in Nat
      /\ SumFunctionOnSet(F, t) >= Cardinality(t \cap A)
      /\ ~(SumFunctionOnSet(F, s) >= Cardinality(s \cap A))
  BY <1>2, <1>3, <1>5, <1>7
<1> HIDE DEF x, t
<1> QED  BY <1>6, <1>8, <1>9

-----------------------------------------------------------------------------
(***************************************************************************)
(* The state.                                                              *)
(***************************************************************************)
VerdictType ==
  [status : {"resolved", "unresolved", "judge_failed"}, usable : Nat, calls : Nat]

ReplyType == [answer : Answers, error : {"", "error"}, charged : 0..Top]

AttemptType == [tier : 1..Top, charged : 0..Top, error : {"", "error"}, answer : Answers,
                verdict : VerdictType]

RowType == [strategy : ToSet(Chosen), task : 1..Len(Tasks), attempts : Seq(AttemptType)]

SampleType == [called : BOOLEAN, ok : BOOLEAN, scores : [Criteria -> Int]]

EvalType ==
  /\ phase \in {"answer", "desk", "panel", "over"}
  /\ at \in 1..(Len(Chosen) + 1) /\ (phase = "over" <=> at = Len(Chosen) + 1)
  /\ on \in 1..Len(Tasks) /\ tier \in 1..Top
  /\ reply \in ReplyType /\ attempts \in Seq(AttemptType) /\ rows \in Seq(RowType)
  /\ desk = [k \in DOMAIN desk |-> desk[k]] /\ IsFiniteSet(DOMAIN desk)
  /\ \A k \in DOMAIN desk : desk[k] \in VerdictType
  /\ samples \in Seq(SampleType) /\ failed \in Nat
  /\ meter \in [calls : Nat, failures : Nat] /\ calls \in Nat

(* A verdict on an answer, or on the error in its place.                   *)
Grades(error, answer, v) ==
  LET nothing == error # "" \/ answer = Empty
  IN  /\ v.status = "judge_failed" <=> (~nothing /\ v.usable = 0)
      /\ nothing => v.status = "unresolved" /\ v.usable = 0

(* What an attempt is charged for is what was answered; and it is graded.  *)
AttemptOK(a) == (a.charged # 0 <=> a.error = "") /\ Grades(a.error, a.answer, a.verdict)

(* The loop of run_one: a reply is there from the call to its verdict, and *)
(* a panel sits on an answer the desk has no verdict for.                  *)
LoopOK ==
  /\ phase \in {"answer", "over"} => reply = Idle
  /\ phase \in {"desk", "panel"} => (reply.charged # 0 <=> reply.error = "")
  /\ phase # "panel" => samples = <<>>
  /\ phase = "panel" => Key \notin DOMAIN desk /\ ~NothingToGrade
  /\ phase = "over" => attempts = <<>>

GradedOK ==
  /\ \A k \in DOMAIN desk : Grades(k[2], k[3], desk[k])
  /\ \A k \in DOMAIN attempts : AttemptOK(attempts[k])
  /\ \A i \in DOMAIN rows :
       /\ rows[i].attempts # <<>>
       /\ \A k \in DOMAIN rows[i].attempts : AttemptOK(rows[i].attempts[k])

(* The rows are those of the tasks done, one for each strategy and task.   *)
Done(p, t) == p < at \/ (p = at /\ t < on)

RowOf(p, t) == {i \in DOMAIN rows : rows[i].strategy = Chosen[p] /\ rows[i].task = t}

RowsOK ==
  /\ \A i, j \in DOMAIN rows :
       rows[i].strategy = rows[j].strategy /\ rows[i].task = rows[j].task => i = j
  /\ \A p \in 1..Len(Chosen), t \in 1..Len(Tasks) : RowOf(p, t) # {} <=> Done(p, t)
  /\ phase = "over" => on = 1

EvalOK == EvalType /\ LoopOK /\ GradedOK /\ CallsAreMetered /\ RowsOK

-----------------------------------------------------------------------------
(* The constants.                                                          *)
LEMMA ConstantsAre ==
  /\ Len(Chosen) \in Nat \ {0} /\ Chosen \in [1..Len(Chosen) -> {"A", "B", "C"}]
  /\ \A p, q \in 1..Len(Chosen) : Chosen[p] = Chosen[q] => p = q
  /\ Len(Tasks) \in Nat \ {0} /\ DOMAIN Tasks = 1..Len(Tasks)
  /\ Top \in Nat \ {0} /\ Start \in 1..Top /\ Empty \in Answers
  /\ MaxAttempts \in Nat \ {0} /\ CheapestRetries \in Nat
  /\ Price \in [1..Top -> Nat \ {0}] /\ Replies \subseteq [Criteria -> Int]
<1>1. Chosen \in Seq({"A", "B", "C"}) /\ Chosen # <<>> /\ IsInjective(Chosen)
  BY CostAssumption
<1>2. Tasks \in Seq(ToSet(Tasks)) /\ Tasks # <<>>
  BY CostAssumption
<1>3. Len(Chosen) \in Nat \ {0} /\ Chosen \in [1..Len(Chosen) -> {"A", "B", "C"}]
  BY <1>1
<1>4. Len(Tasks) \in Nat \ {0} /\ DOMAIN Tasks = 1..Len(Tasks)
  BY <1>2
<1>5. \A p, q \in 1..Len(Chosen) : Chosen[p] = Chosen[q] => p = q
  BY <1>1, <1>3 DEF IsInjective
<1> QED  BY <1>3, <1>4, <1>5, CostAssumption, RubricAssumption

LEMMA MinOfTwo ==
  ASSUME NEW a \in Int, NEW b \in Int
  PROVE  Min({a, b}) = IF a <= b THEN a ELSE b
<1> DEFINE m == IF a <= b THEN a ELSE b
<1>1. m \in {a, b} /\ \A y \in {a, b} : m <= y
  OBVIOUS
<1>2. \A x \in {a, b} : (\A y \in {a, b} : x <= y) => x = m
  OBVIOUS
<1> HIDE DEF m
<1>3. Min({a, b}) = m
  BY <1>1, <1>2 DEF Min
<1> QED  BY <1>3 DEF m

LEMMA StrategyIs ==
  ASSUME NEW key
  PROVE  Strategy(key).start \in 1..Top /\ Strategy(key).attempts \in Nat \ {0}
<1>1. Min({MaxAttempts, 1 + CheapestRetries}) \in Nat \ {0}
  BY ConstantsAre, MinOfTwo
<1> QED  BY <1>1, ConstantsAre DEF Strategy

(* The verdict joins the attempt under way (run_one).                      *)
Tried(v) == [tier |-> tier, charged |-> reply.charged, error |-> reply.error,
             answer |-> reply.answer, verdict |-> v]

TriedRow(v) == [strategy |-> Chosen[at], task |-> on, attempts |-> Append(attempts, Tried(v))]

TriesAgain(v) ==
  /\ attempts' = Append(attempts, Tried(v)) /\ tier' = NextTier
  /\ phase' = "answer" /\ UNCHANGED <<at, on, rows>>

EndsRow(v) ==
  /\ rows' = Append(rows, TriedRow(v)) /\ attempts' = <<>>
  /\ on' = (on % Len(Tasks)) + 1 /\ at' = IF on < Len(Tasks) THEN at ELSE at + 1
  /\ \/ at' > Len(Chosen) /\ phase' = "over" /\ UNCHANGED tier
     \/ ~(at' > Len(Chosen)) /\ phase' = "answer" /\ tier' = Strategy(Chosen[at']).start

LEMMA ConcludeIs ==
  ASSUME NEW v, Conclude(v)
  PROVE  reply' = Idle /\ samples' = <<>> /\ (TriesAgain(v) \/ EndsRow(v))
BY DEF Conclude, TriesAgain, EndsRow, TriedRow, Tried

LEMMA AtIs == EvalType /\ phase # "over" => Len(Chosen) \in Nat /\ at \in 1..Len(Chosen)
<1> SUFFICES ASSUME EvalType, phase # "over"
             PROVE  Len(Chosen) \in Nat /\ at \in 1..Len(Chosen)
  OBVIOUS
<1>1. at \in 1..(Len(Chosen) + 1) /\ at # Len(Chosen) + 1
  BY DEF EvalType
<1>2. Len(Chosen) \in Nat
  BY ConstantsAre
<1> QED  BY <1>1, <1>2

LEMMA NextRow ==
  ASSUME EvalType, on' = (on % Len(Tasks)) + 1, phase # "over",
         at' = IF on < Len(Tasks) THEN at ELSE at + 1
  PROVE  /\ on' = (IF on < Len(Tasks) THEN on + 1 ELSE 1) /\ on' \in 1..Len(Tasks)
         /\ at' \in 1..(Len(Chosen) + 1) /\ at \in 1..Len(Chosen)
<1>1. Len(Tasks) \in Nat \ {0} /\ on \in 1..Len(Tasks)
  BY ConstantsAre DEF EvalType
<1>2. on < Len(Tasks) => on % Len(Tasks) = on
  BY <1>1
<1>3. ~(on < Len(Tasks)) => on % Len(Tasks) = 0
  <2>1. Len(Tasks) % Len(Tasks) = 0
    BY <1>1
  <2> QED  BY <1>1, <2>1
<1>4. Len(Chosen) \in Nat /\ at \in 1..Len(Chosen)
  BY AtIs
<1> DEFINE rest == on % Len(Tasks)
<1>5. on' = rest + 1 /\ (on < Len(Tasks) => rest = on) /\ (~(on < Len(Tasks)) => rest = 0)
  BY <1>2, <1>3
<1> HIDE DEF rest
<1>6. on' = (IF on < Len(Tasks) THEN on + 1 ELSE 1) /\ on' \in 1..Len(Tasks)
  BY <1>1, <1>5
<1>7. at' \in 1..(Len(Chosen) + 1)
  BY <1>4
<1> QED  BY <1>4, <1>6, <1>7

LEMMA TriedIs ==
  ASSUME EvalType, phase # "over", NEW v \in VerdictType
  PROVE  /\ Tried(v) \in AttemptType /\ Append(attempts, Tried(v)) \in Seq(AttemptType)
         /\ TriedRow(v) \in RowType
<1>1. Tried(v) \in AttemptType
  BY DEF EvalType, Tried, AttemptType, ReplyType
<1>2. attempts \in Seq(AttemptType) /\ on \in 1..Len(Tasks) /\ at \in 1..Len(Chosen)
  BY AtIs DEF EvalType
<1>3. Append(attempts, Tried(v)) \in Seq(AttemptType)
  BY <1>1, <1>2
<1>4. Chosen[at] \in ToSet(Chosen)
  BY <1>2, ConstantsAre DEF ToSet
<1> QED  BY <1>1, <1>2, <1>3, <1>4 DEF TriedRow, RowType

(* What Conclude does to the loop's own variables keeps their types.       *)
LEMMA ConcludeType ==
  ASSUME EvalType, phase # "over", NEW v \in VerdictType, Conclude(v)
  PROVE  /\ phase' \in {"answer", "over"}
         /\ at' \in 1..(Len(Chosen) + 1) /\ (phase' = "over" <=> at' = Len(Chosen) + 1)
         /\ on' \in 1..Len(Tasks) /\ tier' \in 1..Top
         /\ reply' \in ReplyType /\ attempts' \in Seq(AttemptType) /\ rows' \in Seq(RowType)
         /\ samples' \in Seq(SampleType)
<1>1. Idle \in ReplyType
  BY ConstantsAre DEF Idle, ReplyType
<1>2. /\ attempts \in Seq(AttemptType) /\ rows \in Seq(RowType) /\ tier \in 1..Top
      /\ on \in 1..Len(Tasks) /\ at \in 1..Len(Chosen) /\ Len(Chosen) \in Nat /\ Top \in Nat
  <2>1. Top \in Nat
    BY ConstantsAre
  <2> QED  BY <2>1, AtIs DEF EvalType
<1>3. reply' = Idle /\ samples' = <<>>
  BY ConcludeIs
<1>4. CASE TriesAgain(v)
  <2>1. NextTier \in 1..Top
    <3>1. Min({tier + 1, Top}) = IF tier + 1 <= Top THEN tier + 1 ELSE Top
      BY <1>2, MinOfTwo
    <3> QED  BY <1>2, <3>1 DEF NextTier
  <2> QED  BY <1>1, <1>2, <1>3, <1>4, <2>1, TriedIs DEF TriesAgain
<1>5. CASE EndsRow(v)
  <2>1. at' \in 1..(Len(Chosen) + 1) /\ on' \in 1..Len(Tasks)
    BY <1>5, NextRow DEF EndsRow
  <2>2. attempts' \in Seq(AttemptType) /\ rows' \in Seq(RowType)
    BY <1>2, <1>5, TriedIs DEF EndsRow
  <2>3. tier' \in 1..Top
    BY <1>2, <1>5, StrategyIs DEF EndsRow
  <2>4. phase' \in {"answer", "over"} /\ (phase' = "over" <=> at' = Len(Chosen) + 1)
    BY <1>2, <1>5, <2>1 DEF EndsRow
  <2> QED  BY <1>1, <1>3, <2>1, <2>2, <2>3, <2>4
<1> QED  BY <1>4, <1>5, ConcludeIs

-----------------------------------------------------------------------------
(* The panel.                                                              *)
LEMMA DecidedIs ==
  ASSUME samples \in Seq(SampleType), NEW criteria
  PROVE  /\ Cardinality(DOMAIN Usable) \in Nat
         /\ Decided(criteria) \in {"resolved", "unresolved", "judge_failed"}
         /\ Decided(criteria) = "judge_failed" <=> Cardinality(DOMAIN Usable) = 0
<1> DEFINE U == DOMAIN Usable
           for == {i \in U : Clears(criteria, [j \in {i} |-> Usable[j]])}
           against == U \ for
           won == Cardinality(for) > Cardinality(against)
           lost == Cardinality(against) > Cardinality(for)
           tie == TieBreak = "score" /\ Clears(criteria, Usable)
<1>1. IsFiniteSet(U) /\ Cardinality(U) \in Nat /\ (Cardinality(U) = 0 <=> U = {})
  <2>1. U \subseteq 1..Len(samples) /\ Len(samples) \in Nat
    BY DEF Usable
  <2>2. IsFiniteSet(1..Len(samples))
    BY <2>1, FS_Interval
  <2> QED  BY <2>1, <2>2, FS_Subset, FS_CardinalityType, FS_EmptySet
<1>2. Decided(criteria) = CASE U = {} -> "judge_failed"
                            [] won -> "resolved"
                            [] lost -> "unresolved"
                            [] OTHER -> IF tie THEN "resolved" ELSE "unresolved"
  BY DEF Decided
<1>3. U = {} => ~won /\ ~lost
  <2>1. U = {} => for = {} /\ against = {}
    OBVIOUS
  <2> QED  BY <2>1, FS_EmptySet
<1>4. ~(won /\ lost)
  <2>1. for \in SUBSET U /\ against \in SUBSET U
    OBVIOUS
  <2>2. Cardinality(for) \in Nat /\ Cardinality(against) \in Nat
    BY <1>1, <2>1, FS_Subset, FS_CardinalityType
  <2> HIDE DEF for, against
  <2> QED  BY <2>2
<1> HIDE DEF U, for, against, won, lost, tie
<1>5. CASE U = {}
  BY <1>1, <1>2, <1>3, <1>5 DEF U
<1>6. CASE U # {}
  BY <1>1, <1>2, <1>4, <1>6 DEF U
<1> QED  BY <1>5, <1>6

LEMMA CalledIs ==
  ASSUME samples \in Seq(SampleType)
  PROVE  /\ Called \in Nat
         /\ \A c, ok \in BOOLEAN, s \in [Criteria -> Int] :
              Sampled(c, ok, s) => /\ samples' \in Seq(SampleType)
                                   /\ Called' = Called + IF c THEN 1 ELSE 0
<1> DEFINE C == {i \in DOMAIN samples : samples[i].called}
<1>1. IsFiniteSet(C) /\ Called = Cardinality(C) /\ Called \in Nat
  <2>1. C \subseteq 1..Len(samples) /\ Len(samples) \in Nat
    OBVIOUS
  <2>2. IsFiniteSet(1..Len(samples))
    BY <2>1, FS_Interval
  <2> QED  BY <2>1, <2>2, FS_Subset, FS_CardinalityType DEF Called
<1>2. ASSUME NEW c \in BOOLEAN, NEW ok \in BOOLEAN, NEW s \in [Criteria -> Int], Sampled(c, ok, s)
      PROVE  samples' \in Seq(SampleType) /\ Called' = Called + IF c THEN 1 ELSE 0
  <2> DEFINE r == [called |-> c, ok |-> ok, scores |-> s]
             n == Len(samples) + 1
  <2>1. samples' = Append(samples, r) /\ r \in SampleType /\ r.called = c
    BY <1>2 DEF Sampled, SampleType
  <2>2. samples' \in Seq(SampleType)
    BY <2>1
  <2> HIDE DEF r
  <2>3. /\ DOMAIN samples' = DOMAIN samples \cup {n} /\ n \notin DOMAIN samples
        /\ samples'[n] = r /\ \A i \in DOMAIN samples : samples'[i] = samples[i]
    BY <2>1
  <2>4. {i \in DOMAIN samples' : samples'[i].called} = IF c THEN C \cup {n} ELSE C
    BY <2>1, <2>3
  <2>5. n \notin C
    BY <2>3
  <2>6. Called' = Cardinality(IF c THEN C \cup {n} ELSE C)
    BY <2>4 DEF Called
  <2> HIDE DEF C, n
  <2>7. Cardinality(C \cup {n}) = Cardinality(C) + 1
    BY <1>1, <2>5, FS_AddElement
  <2> QED  BY <1>1, <2>2, <2>6, <2>7
<1> QED  BY <1>1, <1>2

LEMMA CalledAfter == samples' \in Seq(SampleType) => Called' \in Nat
<1> SUFFICES ASSUME samples' \in Seq(SampleType) PROVE Called' \in Nat
  OBVIOUS
<1> DEFINE C == {i \in DOMAIN samples' : samples'[i].called}
<1>1. C \subseteq 1..Len(samples') /\ Len(samples') \in Nat
  OBVIOUS
<1>2. IsFiniteSet(1..Len(samples'))
  BY <1>1, FS_Interval
<1> QED  BY <1>1, <1>2, FS_Subset, FS_CardinalityType DEF Called

(* A sample changes nothing but the sample, the meter and the retries.     *)
SampleKeeps ==
  /\ samples' \in Seq(SampleType) /\ failed' \in Nat
  /\ meter' \in [calls : Nat, failures : Nat]
  /\ meter'.calls - Called' = meter.calls - Called

LEMMA JudgeStep == EvalType /\ JudgeNext => SampleKeeps
<1> SUFFICES ASSUME EvalType, JudgeNext PROVE SampleKeeps
  OBVIOUS
<1>1. /\ samples \in Seq(SampleType) /\ failed \in Nat /\ Called \in Nat
      /\ meter \in [calls : Nat, failures : Nat] /\ Retries \in Nat
  BY CalledIs, RubricAssumption DEF EvalType, ValidRubric
<1>2. NoScores \in [Criteria -> Int]
  BY DEF NoScores
<1>3. CASE ChatFails
  <2>1. CASE failed < Retries
    <3>1. samples' = samples /\ meter' = meter /\ failed' = failed + 1 /\ Called' = Called
      BY <1>3, <2>1 DEF ChatFails, Called
    <3> QED  BY <1>1, <3>1 DEF SampleKeeps
  <2>2. CASE ~(failed < Retries)
    <3>1. /\ failed' = 0 /\ Sampled(FALSE, FALSE, NoScores)
          /\ meter' = [meter EXCEPT !.failures = @ + 1]
      BY <1>3, <2>2 DEF ChatFails
    <3>2. samples' \in Seq(SampleType) /\ Called' = Called
      <4>1. samples' \in Seq(SampleType) /\ Called' = Called + IF FALSE THEN 1 ELSE 0
        BY <1>1, <1>2, <3>1, CalledIs, Zenon
      <4> QED  BY <1>1, <4>1
    <3>3. meter' \in [calls : Nat, failures : Nat] /\ meter'.calls = meter.calls
      BY <1>1, <3>1
    <3> QED  BY <1>1, <3>1, <3>2, <3>3 DEF SampleKeeps
  <2> QED  BY <2>1, <2>2
<1>4. CASE Unparseable
  <2>1. /\ failed' = 0 /\ Sampled(TRUE, FALSE, NoScores)
        /\ meter' = [meter EXCEPT !.calls = @ + 1, !.failures = @ + 1]
    BY <1>4 DEF Unparseable
  <2>2. samples' \in Seq(SampleType) /\ Called' = Called + 1
    BY <1>1, <1>2, <2>1, CalledIs
  <2>3. meter' \in [calls : Nat, failures : Nat] /\ meter'.calls = meter.calls + 1
    <3>1. meter.calls \in Nat /\ meter.failures \in Nat
      BY <1>1
    <3>2. meter' = [calls |-> meter.calls + 1, failures |-> meter.failures + 1]
      BY <1>1, <2>1
    <3> QED  BY <3>1, <3>2
  <2> QED  BY <1>1, <2>1, <2>2, <2>3 DEF SampleKeeps
<1>5. ASSUME NEW s \in Replies, Scored(s) PROVE SampleKeeps
  <2>1. failed' = 0 /\ Sampled(TRUE, TRUE, s) /\ meter' = [meter EXCEPT !.calls = @ + 1]
    BY <1>5 DEF Scored
  <2>2. samples' \in Seq(SampleType) /\ Called' = Called + 1
    <3>1. s \in [Criteria -> Int]
      BY ConstantsAre
    <3> QED  BY <1>1, <2>1, <3>1, CalledIs
  <2>3. meter' \in [calls : Nat, failures : Nat] /\ meter'.calls = meter.calls + 1
    BY <1>1, <2>1
  <2> QED  BY <1>1, <2>1, <2>2, <2>3 DEF SampleKeeps
<1> QED  BY <1>3, <1>4, <1>5 DEF JudgeNext

-----------------------------------------------------------------------------
(* The two meters.                                                         *)
ChargesIn(s) == {k \in DOMAIN s : s[k].charged # 0}

RowCharges == SumFunction([i \in DOMAIN rows |-> Cardinality(Charged(rows[i]))])
DeskCalls == SumFunction([k \in DOMAIN desk |-> desk[k].calls])

Answered == calls = Cardinality(ChargesIn(attempts))
                      + (IF reply.charged # 0 THEN 1 ELSE 0) + RowCharges

LEMMA MeteredIs == CallsAreMetered <=> Answered /\ meter.calls = Called + DeskCalls
BY DEF CallsAreMetered, Answered, RowCharges, DeskCalls, ChargesIn

LEMMA MeteredAfter == CallsAreMetered' <=> Answered' /\ meter'.calls = Called' + DeskCalls'
BY DEF CallsAreMetered, Answered, RowCharges, DeskCalls, ChargesIn

LEMMA ChargesAppend ==
  ASSUME NEW s \in Seq(AttemptType), NEW a
  PROVE  /\ Cardinality(ChargesIn(s)) \in Nat
         /\ Cardinality(ChargesIn(Append(s, a))) =
              Cardinality(ChargesIn(s)) + IF a.charged # 0 THEN 1 ELSE 0
<1> DEFINE n == Len(s) + 1
           t == Append(s, a)
<1>1. ChargesIn(s) \subseteq 1..Len(s) /\ Len(s) \in Nat
  BY DEF ChargesIn
<1>2. IsFiniteSet(ChargesIn(s)) /\ Cardinality(ChargesIn(s)) \in Nat
  <2>1. IsFiniteSet(1..Len(s))
    BY <1>1, FS_Interval
  <2> QED  BY <1>1, <2>1, FS_Subset, FS_CardinalityType
<1>3. /\ DOMAIN t = DOMAIN s \cup {n} /\ n \notin DOMAIN s /\ t[n] = a
      /\ \A i \in DOMAIN s : t[i] = s[i]
  OBVIOUS
<1> HIDE DEF t, n
<1>4. ChargesIn(t) = (IF a.charged # 0 THEN ChargesIn(s) \cup {n} ELSE ChargesIn(s))
  BY <1>3 DEF ChargesIn
<1>5. n \notin ChargesIn(s)
  BY <1>3 DEF ChargesIn
<1>6. Cardinality(ChargesIn(t)) = Cardinality(ChargesIn(s)) + IF a.charged # 0 THEN 1 ELSE 0
  <2>1. Cardinality(ChargesIn(s) \cup {n}) = Cardinality(ChargesIn(s)) + 1
    BY <1>2, <1>5, FS_AddElement
  <2> QED  BY <1>2, <1>4, <2>1
<1> QED  BY <1>2, <1>6 DEF t

LEMMA ChargesType == \A row \in RowType : Cardinality(Charged(row)) \in Nat
<1> SUFFICES ASSUME NEW row \in RowType PROVE Cardinality(Charged(row)) \in Nat
  OBVIOUS
<1>1. row.attempts \in Seq(AttemptType) /\ Charged(row) = ChargesIn(row.attempts)
  BY DEF RowType, Charged, ChargesIn
<1> QED  BY <1>1, ChargesAppend

LEMMA RowChargesType ==
  ASSUME rows \in Seq(RowType)
  PROVE  RowCharges \in Nat
<1> DEFINE f == [i \in DOMAIN rows |-> Cardinality(Charged(rows[i]))]
<1>1. IsFiniteSet(DOMAIN f) /\ \A i \in DOMAIN f : f[i] \in Nat
  <2>1. DOMAIN rows = 1..Len(rows) /\ Len(rows) \in Nat /\ \A i \in DOMAIN rows : rows[i] \in RowType
    OBVIOUS
  <2> QED  BY <2>1, ChargesType, FS_Interval
<1>2. RowCharges = SumFunction(f)
  BY DEF RowCharges
<1> HIDE DEF f
<1> QED  BY <1>1, <1>2, SumType DEF SumFunction

LEMMA RowsAppend ==
  ASSUME rows \in Seq(RowType), NEW r \in RowType, rows' = Append(rows, r)
  PROVE  RowCharges' = RowCharges + Cardinality(ChargesIn(r.attempts))
<1> DEFINE f == [i \in DOMAIN rows |-> Cardinality(Charged(rows[i]))]
<1>1. \A row \in RowType : Cardinality(Charged(row)) \in Nat
  BY ChargesType
<1>2. IsFiniteSet(DOMAIN rows) /\ DOMAIN rows = 1..Len(rows) /\ Len(rows) \in Nat
  BY FS_Interval
<1>3. \A i \in DOMAIN rows : rows[i] \in RowType
  OBVIOUS
<1>4. DOMAIN f = DOMAIN rows /\ \A i \in DOMAIN f : f[i] \in Nat
  BY <1>1, <1>3
<1>5. RowCharges = SumFunction(f)
  BY DEF RowCharges
<1> DEFINE g == [i \in DOMAIN rows' |-> Cardinality(Charged(rows'[i]))]
           n == Len(rows) + 1
<1>6. /\ DOMAIN rows' = DOMAIN rows \cup {n} /\ n \notin DOMAIN rows
      /\ rows'[n] = r /\ \A i \in DOMAIN rows : rows'[i] = rows[i]
  BY <1>2
<1>7. RowCharges' = SumFunction(g)
  BY DEF RowCharges, Charged
<1>8. DOMAIN g = DOMAIN f \cup {n} /\ n \notin DOMAIN f
  BY <1>6
<1>9. \A i \in DOMAIN f : g[i] = f[i] /\ f[i] \in Nat
  BY <1>4, <1>6
<1>10. g[n] = Cardinality(ChargesIn(r.attempts)) /\ g[n] \in Nat
  <2>1. Charged(r) = ChargesIn(r.attempts)
    BY DEF Charged, ChargesIn
  <2> QED  BY <1>1, <1>6, <2>1
<1> HIDE DEF f, g, n
<1>11. SumFunction(g) = SumFunction(f) + g[n]
  BY <1>2, <1>4, <1>8, <1>9, <1>10, SumPut
<1> QED  BY <1>5, <1>7, <1>10, <1>11

LEMMA DeskCallsType == EvalType => DeskCalls \in Nat
<1> SUFFICES ASSUME EvalType PROVE DeskCalls \in Nat
  OBVIOUS
<1> DEFINE f == [k \in DOMAIN desk |-> desk[k].calls]
<1>1. IsFiniteSet(DOMAIN f) /\ \A k \in DOMAIN f : f[k] \in Nat
  BY DEF EvalType, VerdictType
<1>2. DeskCalls = SumFunction(f)
  BY DEF DeskCalls
<1> HIDE DEF f
<1> QED  BY <1>1, <1>2, SumType DEF SumFunction

LEMMA DeskGrows ==
  ASSUME EvalType, Key \notin DOMAIN desk, NEW v \in VerdictType, Remember(v)
  PROVE  /\ DeskCalls \in Nat /\ DeskCalls' = DeskCalls + v.calls
         /\ desk' = [k \in DOMAIN desk' |-> desk'[k]] /\ IsFiniteSet(DOMAIN desk')
         /\ \A k \in DOMAIN desk' : desk'[k] \in VerdictType
         /\ DOMAIN desk' = DOMAIN desk \cup {Key} /\ desk'[Key] = v
         /\ \A k \in DOMAIN desk : desk'[k] = desk[k]
<1> DEFINE key == Key
           f == [k \in DOMAIN desk |-> desk[k].calls]
           g == [k \in DOMAIN desk' |-> desk'[k].calls]
<1>1. /\ DOMAIN desk' = DOMAIN desk \cup {key} /\ desk'[key] = v
      /\ \A k \in DOMAIN desk : desk'[k] = desk[k]
      /\ desk' = [k \in DOMAIN desk' |-> desk'[k]]
  <2> HIDE DEF key
  <2>1. desk' = [k \in DOMAIN desk \cup {key} |-> IF k = key THEN v ELSE desk[k]]
    BY DEF Remember, key
  <2> QED  BY <2>1 DEF key
<1>2. IsFiniteSet(DOMAIN desk) /\ \A k \in DOMAIN desk : desk[k] \in VerdictType
  BY DEF EvalType
<1> HIDE DEF key
<1>3. IsFiniteSet(DOMAIN desk') /\ \A k \in DOMAIN desk' : desk'[k] \in VerdictType
  BY <1>1, <1>2, FS_AddElement
<1>4. \A k \in DOMAIN f : f[k] \in Nat
  BY <1>2 DEF VerdictType
<1>5. DOMAIN g = DOMAIN f \cup {key} /\ key \notin DOMAIN f
  BY <1>1 DEF key
<1>6. (\A k \in DOMAIN f : g[k] = f[k]) /\ g[key] = v.calls /\ g[key] \in Nat
  BY <1>1 DEF VerdictType
<1>7. DeskCalls = SumFunction(f) /\ DeskCalls' = SumFunction(g) /\ DOMAIN f = DOMAIN desk
  BY DEF DeskCalls
<1> HIDE DEF f, g
<1>8. SumFunction(f) \in Nat /\ SumFunction(g) = SumFunction(f) + g[key]
  BY <1>2, <1>4, <1>5, <1>6, <1>7, SumPut
<1> QED  BY <1>1, <1>3, <1>6, <1>7, <1>8 DEF key

-----------------------------------------------------------------------------
(***************************************************************************)
(* The steps.                                                              *)
(***************************************************************************)
AttemptsOK(s) == \A k \in DOMAIN s : AttemptOK(s[k])

LEMMA AttemptsAppend ==
  ASSUME NEW s \in Seq(AttemptType), AttemptsOK(s), NEW a, AttemptOK(a)
  PROVE  AttemptsOK(Append(s, a)) /\ Append(s, a) # <<>>
<1> DEFINE t == Append(s, a)
<1>1. /\ DOMAIN t = DOMAIN s \cup {Len(s) + 1} /\ t[Len(s) + 1] = a
      /\ \A i \in DOMAIN s : t[i] = s[i]
  OBVIOUS
<1>2. Len(s) \in Nat /\ t # <<>>
  OBVIOUS
<1> HIDE DEF t
<1>3. AttemptsOK(t)
  BY <1>1 DEF AttemptsOK
<1> QED  BY <1>2, <1>3 DEF t

(* The row of the task under way joins the rows: there was none, and all   *)
(* that come before it are there.                                          *)
LEMMA EndsRowRows ==
  ASSUME EvalType, RowsOK, phase # "over", NEW v \in VerdictType, EndsRow(v)
  PROVE  RowsOK'
<1> DEFINE n == Len(rows) + 1
           N == Len(Tasks)
           P == Len(Chosen)
<1>1. /\ at \in 1..P /\ on \in 1..N /\ P \in Nat /\ N \in Nat /\ rows \in Seq(RowType)
  BY AtIs, ConstantsAre DEF EvalType
<1>2. /\ on' = (IF on < N THEN on + 1 ELSE 1) /\ at' = (IF on < N THEN at ELSE at + 1)
      /\ phase' = "over" => at' > P
  BY NextRow DEF EndsRow
<1>3. /\ DOMAIN rows' = DOMAIN rows \cup {n} /\ n \notin DOMAIN rows
      /\ rows'[n] = TriedRow(v) /\ \A i \in DOMAIN rows : rows'[i] = rows[i]
  BY <1>1 DEF EndsRow
<1>4. TriedRow(v).strategy = Chosen[at] /\ TriedRow(v).task = on
  BY DEF TriedRow
<1>5. RowOf(at, on) = {}
  BY <1>1 DEF RowsOK, Done
<1> HIDE DEF n, N, P
<1>6. \A i, j \in DOMAIN rows' :
        rows'[i].strategy = rows'[j].strategy /\ rows'[i].task = rows'[j].task => i = j
  <2>1. \A i \in DOMAIN rows : ~(rows[i].strategy = Chosen[at] /\ rows[i].task = on)
    BY <1>5 DEF RowOf
  <2>2. \A i, j \in DOMAIN rows :
          rows[i].strategy = rows[j].strategy /\ rows[i].task = rows[j].task => i = j
    BY DEF RowsOK
  <2> QED  BY <1>3, <1>4, <2>1, <2>2
<1>7. ASSUME NEW p \in 1..P, NEW t \in 1..N
      PROVE  RowOf(p, t)' # {} <=> Done(p, t)'
  <2>1. RowOf(p, t)' = {i \in DOMAIN rows' : rows'[i].strategy = Chosen[p] /\ rows'[i].task = t}
    BY DEF RowOf
  <2>2. RowOf(p, t)' # {} <=> RowOf(p, t) # {} \/ (Chosen[at] = Chosen[p] /\ on = t)
    BY <1>3, <1>4, <2>1 DEF RowOf
  <2>3. Chosen[at] = Chosen[p] <=> p = at
    BY <1>1, ConstantsAre DEF P
  <2>4. RowOf(p, t) # {} <=> Done(p, t)
    BY DEF RowsOK, P, N
  <2>5. Done(p, t)' <=> p < at' \/ (p = at' /\ t < on')
    BY DEF Done
  <2>6. Done(p, t) <=> p < at \/ (p = at /\ t < on)
    BY DEF Done
  <2>7. (p < at' \/ (p = at' /\ t < on')) <=> (p < at \/ (p = at /\ t < on)) \/ (p = at /\ t = on)
    <3>1. CASE on < N
      BY <1>1, <1>2, <3>1
    <3>2. CASE ~(on < N)
      BY <1>1, <1>2, <3>2
    <3> QED  BY <3>1, <3>2
  <2> QED  BY <2>2, <2>3, <2>4, <2>5, <2>6, <2>7
<1>8. phase' = "over" => on' = 1
  BY <1>1, <1>2
<1> QED  BY <1>6, <1>7, <1>8 DEF RowsOK, P, N

(* A verdict on the reply, from wherever it comes.                         *)
Concluded ==
  /\ LoopOK' /\ RowsOK' /\ Answered' /\ AttemptsOK(attempts)'
  /\ \A i \in DOMAIN rows' : rows'[i].attempts # <<>> /\ AttemptsOK(rows'[i].attempts)

LEMMA ConcludeKeeps ==
  ASSUME EvalOK, phase \in {"desk", "panel"}, NEW v \in VerdictType,
         Grades(reply.error, reply.answer, v), Conclude(v), calls' = calls
  PROVE  Concluded
<1>1. EvalType /\ LoopOK /\ GradedOK /\ RowsOK /\ Answered /\ phase # "over"
  BY MeteredIs DEF EvalOK
<1>2. phase' \in {"answer", "over"} /\ reply' = Idle /\ samples' = <<>> /\ Idle.charged = 0
  BY <1>1, ConcludeType, ConcludeIs DEF Idle
<1>3. attempts \in Seq(AttemptType) /\ AttemptsOK(attempts) /\ AttemptOK(Tried(v))
  BY <1>1 DEF EvalType, GradedOK, AttemptsOK, LoopOK, AttemptOK, Tried
<1>4. AttemptsOK(Append(attempts, Tried(v))) /\ Append(attempts, Tried(v)) # <<>>
  BY <1>3, AttemptsAppend
<1>5. /\ Cardinality(ChargesIn(attempts)) \in Nat
      /\ Cardinality(ChargesIn(Append(attempts, Tried(v)))) =
           Cardinality(ChargesIn(attempts)) + IF reply.charged # 0 THEN 1 ELSE 0
  <2>1. Tried(v).charged = reply.charged
    BY DEF Tried
  <2> QED  BY <1>3, <2>1, ChargesAppend
<1>6. rows \in Seq(RowType) /\ TriedRow(v) \in RowType
  BY <1>1, TriedIs DEF EvalType
<1>7. /\ RowCharges \in Nat
      /\ rows' = Append(rows, TriedRow(v)) =>
           RowCharges' = RowCharges + Cardinality(ChargesIn(TriedRow(v).attempts))
  BY <1>6, RowChargesType, RowsAppend
<1>8. /\ \A i \in DOMAIN rows : rows[i].attempts # <<>> /\ AttemptsOK(rows[i].attempts)
  BY <1>1 DEF GradedOK, AttemptsOK
<1>9. Answered' <=> calls = Cardinality(ChargesIn(attempts')) + RowCharges'
  <2>1. Answered' <=> calls' = Cardinality(ChargesIn(attempts'))
                        + (IF reply'.charged # 0 THEN 1 ELSE 0) + RowCharges'
    BY DEF Answered, ChargesIn
  <2>2. reply'.charged = 0
    BY <1>2
  <2> QED
    <3>1. Cardinality(ChargesIn(attempts')) \in Nat /\ RowCharges' \in Nat
      <4>1. attempts' \in Seq(AttemptType) /\ rows' \in Seq(RowType)
        BY <1>1, ConcludeType
      <4>2. Cardinality(ChargesIn(attempts')) \in Nat
        BY <4>1, ChargesAppend
      <4>3. RowCharges' \in Nat
        <5>1. CASE rows' = rows
          BY <1>7, <5>1 DEF RowCharges, Charged
        <5>2. CASE rows' = Append(rows, TriedRow(v))
          <6>1. TriedRow(v).attempts \in Seq(AttemptType)
            BY <1>6 DEF RowType
          <6>2. Cardinality(ChargesIn(TriedRow(v).attempts)) \in Nat
            BY <6>1, ChargesAppend
          <6> QED  BY <1>7, <5>2, <6>2
        <5> QED  BY <5>1, <5>2, ConcludeIs DEF TriesAgain, EndsRow
      <4> QED  BY <4>2, <4>3
    <3> QED  BY <2>1, <2>2, <3>1
<1>10. CASE TriesAgain(v)
  <2>1. /\ attempts' = Append(attempts, Tried(v)) /\ rows' = rows
        /\ at' = at /\ on' = on /\ phase' = "answer"
    BY <1>10 DEF TriesAgain
  <2>2. RowsOK' /\ RowCharges' = RowCharges
    BY <1>1, <2>1 DEF RowsOK, RowOf, Done, RowCharges, Charged
  <2>3. Answered'
    BY <1>1, <1>5, <1>7, <1>9, <2>1, <2>2 DEF Answered
  <2>4. LoopOK'
    BY <1>2, <2>1 DEF LoopOK
  <2>5. AttemptsOK(attempts)'
    BY <1>4, <2>1 DEF AttemptsOK
  <2> QED  BY <1>8, <2>1, <2>2, <2>3, <2>4, <2>5 DEF Concluded
<1>11. CASE EndsRow(v)
  <2>1. rows' = Append(rows, TriedRow(v)) /\ attempts' = <<>>
    BY <1>11 DEF EndsRow
  <2>2. RowsOK'
    BY <1>1, <1>11, EndsRowRows
  <2>3. TriedRow(v).attempts = Append(attempts, Tried(v))
    BY DEF TriedRow
  <2>4. Cardinality(ChargesIn(attempts')) = 0
    <3>1. ChargesIn(attempts') = {}
      BY <2>1 DEF ChargesIn
    <3> QED  BY <3>1, FS_EmptySet
  <2>5. Answered'
    BY <1>1, <1>5, <1>7, <1>9, <2>1, <2>3, <2>4 DEF Answered
  <2>6. LoopOK'
    BY <1>2, <2>1 DEF LoopOK
  <2>7. AttemptsOK(attempts)'
    BY <2>1 DEF AttemptsOK
  <2>8. \A i \in DOMAIN rows' : rows'[i].attempts # <<>> /\ AttemptsOK(rows'[i].attempts)
    <3>1. /\ DOMAIN rows' = DOMAIN rows \cup {Len(rows) + 1}
          /\ rows'[Len(rows) + 1] = TriedRow(v)
          /\ \A i \in DOMAIN rows : rows'[i] = rows[i]
      BY <1>6, <2>1
    <3> QED  BY <1>4, <1>8, <2>3, <3>1
  <2> QED  BY <2>2, <2>5, <2>6, <2>7, <2>8 DEF Concluded
<1> QED  BY <1>10, <1>11, ConcludeIs

LEMMA EvalInit == Init => EvalOK
<1> SUFFICES ASSUME Init PROVE EvalOK
  OBVIOUS
<1>1. /\ samples = <<>> /\ failed = 0 /\ meter = [calls |-> 0, failures |-> 0]
      /\ phase = "answer" /\ at = 1 /\ on = 1 /\ tier = Strategy(Chosen[1]).start
      /\ reply = Idle /\ attempts = <<>> /\ desk = <<>> /\ rows = <<>> /\ calls = 0
  BY DEF Init, JudgeInit
<1>2. /\ Len(Chosen) \in Nat \ {0} /\ Len(Tasks) \in Nat \ {0} /\ tier \in 1..Top
      /\ Idle \in ReplyType /\ Idle.charged = 0
  <2>1. tier \in 1..Top
    BY <1>1, StrategyIs
  <2>2. Idle \in ReplyType /\ Idle.charged = 0
    BY ConstantsAre DEF Idle, ReplyType
  <2> QED  BY <2>1, <2>2, ConstantsAre
<1>3. EvalType
  <2>1. desk = [k \in DOMAIN desk |-> desk[k]] /\ DOMAIN desk = {}
    BY <1>1
  <2>2. IsFiniteSet(DOMAIN desk) /\ \A k \in DOMAIN desk : desk[k] \in VerdictType
    BY <2>1, FS_EmptySet
  <2>3. phase = "over" <=> at = Len(Chosen) + 1
    BY <1>1, <1>2
  <2> QED  BY <1>1, <1>2, <2>1, <2>2, <2>3 DEF EvalType
<1>4. LoopOK
  BY <1>1 DEF LoopOK
<1>5. GradedOK
  <2>1. DOMAIN desk = {} /\ DOMAIN attempts = {} /\ DOMAIN rows = {}
    BY <1>1
  <2> QED  BY <2>1 DEF GradedOK
<1>6. RowsOK
  <2>1. DOMAIN rows = {}
    BY <1>1
  <2>2. \A p \in 1..Len(Chosen), t \in 1..Len(Tasks) : RowOf(p, t) = {} /\ ~Done(p, t)
    BY <1>1, <1>2, <2>1 DEF RowOf, Done
  <2> QED  BY <1>1, <2>1, <2>2 DEF RowsOK
<1>7. CallsAreMetered
  <2>1. RowCharges = 0 /\ DeskCalls = 0
    BY <1>1, SumOfNone DEF RowCharges, DeskCalls
  <2>2. Called = 0 /\ Cardinality(ChargesIn(attempts)) = 0
    <3>1. {i \in DOMAIN samples : samples[i].called} = {} /\ ChargesIn(attempts) = {}
      BY <1>1 DEF ChargesIn
    <3> QED  BY <3>1, FS_EmptySet DEF Called
  <2>3. Answered
    BY <1>1, <1>2, <2>1, <2>2 DEF Answered
  <2>4. meter.calls = Called + DeskCalls
    BY <1>1, <2>1, <2>2
  <2> QED  BY <2>3, <2>4, MeteredIs
<1> QED  BY <1>3, <1>4, <1>5, <1>6, <1>7 DEF EvalOK

LEMMA UnchangedRows ==
  ASSUME RowsOK, UNCHANGED <<at, on, rows>>, phase' # "over"
  PROVE  RowsOK' /\ RowCharges' = RowCharges
BY DEF RowsOK, RowOf, Done, RowCharges, Charged

(* A reply arrives: its call is metered and still to be entered in a row.  *)
LEMMA AnswerKeeps == EvalOK /\ (Answer \/ NoAnswer) => EvalOK'
<1> SUFFICES ASSUME EvalOK, Answer \/ NoAnswer PROVE EvalOK'
  OBVIOUS
<1>1. EvalType /\ LoopOK /\ GradedOK /\ RowsOK /\ Answered /\ meter.calls = Called + DeskCalls
  BY MeteredIs DEF EvalOK
<1>2. /\ phase = "answer" /\ phase' = "desk" /\ reply = Idle /\ Idle.charged = 0
      /\ UNCHANGED <<at, on, tier, attempts, desk, rows, samples, failed, meter>>
  BY <1>1 DEF Answer, NoAnswer, Attempted, Rest, judgeVars, LoopOK, Idle
<1>3. /\ reply' \in ReplyType /\ (reply'.charged # 0 <=> reply'.error = "")
      /\ calls' = (IF reply'.charged # 0 THEN calls + 1 ELSE calls)
  <2>1. CASE Answer
    <3>1. PICK t \in 1..tier, a \in Answers :
            reply' = [answer |-> a, error |-> "", charged |-> t]
      BY <2>1 DEF Answer, Attempted
    <3>2. t \in 0..Top /\ t # 0
      <4>1. tier \in 1..Top /\ Top \in Nat
        BY <1>1, ConstantsAre DEF EvalType
      <4>2. \A u \in 1..tier : u \in 0..Top /\ u # 0
        BY <4>1
      <4> QED  BY <4>2
    <3>3. calls' = calls + 1
      BY <2>1 DEF Answer, Metered
    <3>4. reply' \in ReplyType /\ reply'.charged = t /\ reply'.error = ""
      BY <3>1, <3>2 DEF ReplyType
    <3>5. reply'.charged # 0
      BY <3>2, <3>4
    <3> QED  BY <3>3, <3>4, <3>5
  <2>2. CASE NoAnswer
    <3>1. reply' = [answer |-> Empty, error |-> "error", charged |-> 0] /\ calls' = calls
      BY <2>2 DEF NoAnswer, Attempted, Idle
    <3>2. calls \in Nat /\ Top \in Nat /\ Empty \in Answers
      BY <1>1, ConstantsAre DEF EvalType
    <3>3. reply' \in ReplyType /\ reply'.charged = 0 /\ reply'.error = "error"
      BY <3>1, <3>2 DEF ReplyType
    <3> QED  BY <3>1, <3>2, <3>3
  <2> QED  BY <2>1, <2>2
<1>4. calls' \in Nat
  <2> DEFINE more == reply'.charged # 0
  <2>1. calls \in Nat /\ calls' = (IF more THEN calls + 1 ELSE calls)
    BY <1>1, <1>3 DEF EvalType
  <2> HIDE DEF more
  <2> QED  BY <2>1
<1>5. EvalType'
  BY <1>1, <1>2, <1>3, <1>4 DEF EvalType
<1>6. LoopOK'
  BY <1>1, <1>2, <1>3 DEF LoopOK
<1>7. GradedOK'
  BY <1>1, <1>2 DEF GradedOK
<1>8. RowsOK' /\ RowCharges' = RowCharges
  BY <1>1, <1>2, UnchangedRows
<1>9. Answered'
  <2>1. Cardinality(ChargesIn(attempts)) \in Nat /\ RowCharges \in Nat
    BY <1>1, ChargesAppend, RowChargesType DEF EvalType
  <2>2. calls = Cardinality(ChargesIn(attempts)) + RowCharges
    BY <1>1, <1>2, <2>1 DEF Answered
  <2>3. ChargesIn(attempts') = ChargesIn(attempts)
    BY <1>2
  <2>4. Answered' <=> calls' = Cardinality(ChargesIn(attempts'))
                        + (IF reply'.charged # 0 THEN 1 ELSE 0) + RowCharges'
    BY DEF Answered, ChargesIn
  <2> DEFINE more == reply'.charged # 0
  <2>5. calls' = (IF more THEN calls + 1 ELSE calls)
    BY <1>3
  <2>6. Answered' <=> calls' = Cardinality(ChargesIn(attempts)) + (IF more THEN 1 ELSE 0) + RowCharges
    BY <1>8, <2>3, <2>4
  <2> HIDE DEF more
  <2> QED  BY <2>1, <2>2, <2>5, <2>6
<1>10. (meter.calls = Called + DeskCalls)'
  BY <1>1, <1>2 DEF Called, DeskCalls
<1> QED  BY <1>5, <1>6, <1>7, <1>8, <1>9, <1>10, MeteredAfter DEF EvalOK

(* A fresh verdict joins the desk and the row.                             *)
LEMMA FreshKeeps ==
  ASSUME EvalOK, phase \in {"desk", "panel"}, Key \notin DOMAIN desk,
         NEW v \in VerdictType, Grades(reply.error, reply.answer, v), v.calls = Called,
         Remember(v), Conclude(v), UNCHANGED <<calls, failed, meter>>
  PROVE  EvalOK'
<1>1. EvalType /\ LoopOK /\ GradedOK /\ RowsOK /\ Answered /\ meter.calls = Called + DeskCalls
  BY MeteredIs DEF EvalOK
<1>2. /\ DeskCalls \in Nat /\ DeskCalls' = DeskCalls + v.calls
      /\ desk' = [k \in DOMAIN desk' |-> desk'[k]] /\ IsFiniteSet(DOMAIN desk')
      /\ \A k \in DOMAIN desk' : desk'[k] \in VerdictType
      /\ DOMAIN desk' = DOMAIN desk \cup {Key} /\ desk'[Key] = v
      /\ \A k \in DOMAIN desk : desk'[k] = desk[k]
  BY <1>1, DeskGrows
<1>3. Concluded
  BY ConcludeKeeps
<1>4. EvalType'
  <2>1. calls' \in Nat /\ failed' \in Nat /\ meter' \in [calls : Nat, failures : Nat]
    BY <1>1 DEF EvalType
  <2> QED  BY <1>1, <1>2, <2>1, ConcludeType DEF EvalType
<1>5. GradedOK'
  <2>1. Key[2] = reply.error /\ Key[3] = reply.answer
    BY DEF Key
  <2>2. \A k \in DOMAIN desk' : Grades(k[2], k[3], desk'[k])
    <3> DEFINE key == Key
    <3>1. Grades(key[2], key[3], v)
      BY <2>1
    <3> HIDE DEF key
    <3>2. /\ DOMAIN desk' = DOMAIN desk \cup {key} /\ desk'[key] = v
          /\ \A k \in DOMAIN desk : desk'[k] = desk[k]
      BY <1>2 DEF key
    <3>3. \A k \in DOMAIN desk : Grades(k[2], k[3], desk[k])
      BY <1>1 DEF GradedOK
    <3> QED  BY <3>1, <3>2, <3>3
  <2> QED  BY <1>3, <2>2 DEF GradedOK, Concluded, AttemptsOK
<1>6. (meter.calls = Called + DeskCalls)'
  <2>1. Called' = 0
    <3>1. samples' = <<>>
      BY ConcludeIs
    <3>2. {i \in DOMAIN samples' : samples'[i].called} = {}
      BY <3>1
    <3> QED  BY <3>2, FS_EmptySet DEF Called
  <2>2. Called \in Nat
    BY <1>1, CalledIs DEF EvalType
  <2> QED  BY <1>1, <1>2, <2>1, <2>2
<1> QED  BY <1>3, <1>4, <1>5, <1>6, MeteredAfter DEF EvalOK, Concluded

(* An empty or errored answer, and the panel's verdict.                    *)
LEMMA GradeKeeps == EvalOK /\ (GradeNothing \/ Judge) => EvalOK'
<1> SUFFICES ASSUME EvalOK, GradeNothing \/ Judge PROVE EvalOK'
  OBVIOUS
<1>1. EvalType /\ LoopOK
  BY DEF EvalOK
<1>2. CASE GradeNothing
  <2> DEFINE v == [status |-> "unresolved", usable |-> 0, calls |-> 0]
  <2>1. /\ phase = "desk" /\ Key \notin DOMAIN desk /\ NothingToGrade
        /\ Remember(v) /\ Conclude(v) /\ UNCHANGED <<calls, failed, meter>>
    BY <1>2 DEF GradeNothing
  <2>2. Called = 0
    <3>1. samples = <<>>
      BY <1>1, <2>1 DEF LoopOK
    <3>2. {i \in DOMAIN samples : samples[i].called} = {}
      BY <3>1
    <3> QED  BY <3>2, FS_EmptySet DEF Called
  <2>3. v \in VerdictType /\ v.calls = 0
    BY DEF VerdictType
  <2>4. Grades(reply.error, reply.answer, v)
    BY <2>1 DEF Grades, NothingToGrade
  <2> HIDE DEF v
  <2> QED  BY <2>1, <2>2, <2>3, <2>4, FreshKeeps
<1>3. CASE Judge
  <2> DEFINE status == Decided(Applicable(Tasks[on] \in Expected))
             usable == Cardinality(DOMAIN Usable)
             v == [status |-> status, usable |-> usable, calls |-> Called]
  <2>1. /\ phase = "panel" /\ Remember(v) /\ Conclude(v) /\ UNCHANGED <<calls, failed, meter>>
    BY <1>3 DEF Judge
  <2>2. Key \notin DOMAIN desk /\ ~NothingToGrade
    BY <1>1, <2>1 DEF LoopOK
  <2>3. /\ usable \in Nat /\ status \in {"resolved", "unresolved", "judge_failed"}
        /\ status = "judge_failed" <=> usable = 0
        /\ Called \in Nat
    BY <1>1, DecidedIs, CalledIs DEF EvalType
  <2> HIDE DEF status, usable
  <2>4. /\ v \in VerdictType /\ v.calls = Called /\ v.status = status /\ v.usable = usable
    BY <2>3 DEF VerdictType
  <2> HIDE DEF v
  <2>5. Grades(reply.error, reply.answer, v)
    BY <2>2, <2>3, <2>4 DEF Grades, NothingToGrade
  <2> QED  BY <2>1, <2>2, <2>4, <2>5, FreshKeeps
<1> QED  BY <1>2, <1>3

LEMMA ReuseKeeps == EvalOK /\ Reuse => EvalOK'
<1> SUFFICES ASSUME EvalOK, Reuse PROVE EvalOK'
  OBVIOUS
<1>1. EvalType /\ LoopOK /\ GradedOK /\ meter.calls = Called + DeskCalls
  BY MeteredIs DEF EvalOK
<1>2. /\ phase = "desk" /\ Key \in DOMAIN desk /\ Conclude(desk[Key])
      /\ UNCHANGED <<desk, calls, failed, meter>>
  BY DEF Reuse
<1>3. desk[Key] \in VerdictType /\ Grades(reply.error, reply.answer, desk[Key])
  <2>1. Key[2] = reply.error /\ Key[3] = reply.answer
    BY DEF Key
  <2>2. Grades(Key[2], Key[3], desk[Key])
    BY <1>1, <1>2 DEF GradedOK
  <2> QED  BY <1>1, <1>2, <2>1, <2>2 DEF EvalType
<1>4. Concluded
  BY <1>2, <1>3, ConcludeKeeps
<1>5. EvalType'
  <2>1. /\ calls' \in Nat /\ failed' \in Nat /\ meter' \in [calls : Nat, failures : Nat]
        /\ desk' = [k \in DOMAIN desk' |-> desk'[k]] /\ IsFiniteSet(DOMAIN desk')
        /\ \A k \in DOMAIN desk' : desk'[k] \in VerdictType
    BY <1>1, <1>2 DEF EvalType
  <2> QED  BY <1>1, <1>2, <1>3, <2>1, ConcludeType DEF EvalType
<1>6. GradedOK'
  BY <1>1, <1>2, <1>4 DEF GradedOK, Concluded, AttemptsOK
<1>7. (meter.calls = Called + DeskCalls)'
  <2>1. samples' = samples
    BY <1>1, <1>2, ConcludeIs DEF LoopOK
  <2> QED  BY <1>1, <1>2, <2>1 DEF Called, DeskCalls
<1> QED  BY <1>4, <1>5, <1>6, <1>7, MeteredAfter DEF EvalOK, Concluded

(* The panel is asked, one sample after the other.                         *)
LEMMA PanelKeeps == EvalOK /\ (AskPanel \/ Sample) => EvalOK'
<1> SUFFICES ASSUME EvalOK, AskPanel \/ Sample PROVE EvalOK'
  OBVIOUS
<1>1. EvalType /\ LoopOK /\ GradedOK /\ RowsOK /\ Answered /\ meter.calls = Called + DeskCalls
  BY MeteredIs DEF EvalOK
<1>2. /\ phase' = "panel" /\ phase \in {"desk", "panel"}
      /\ Key \notin DOMAIN desk /\ ~NothingToGrade
      /\ UNCHANGED <<at, on, tier, reply, attempts, desk, calls, rows>>
  BY <1>1 DEF AskPanel, Sample, LoopOK
<1>3. SampleKeeps
  <2>1. CASE AskPanel
    <3>1. samples' = samples /\ failed' = failed /\ meter' = meter
      BY <2>1 DEF AskPanel, judgeVars
    <3> QED  BY <1>1, <3>1 DEF SampleKeeps, Called, EvalType
  <2>2. CASE Sample
    BY <1>1, <2>2, JudgeStep DEF Sample
  <2> QED  BY <2>1, <2>2
<1>4. EvalType'
  BY <1>1, <1>2, <1>3 DEF EvalType, SampleKeeps
<1>5. LoopOK'
  BY <1>1, <1>2 DEF LoopOK, Key, NothingToGrade
<1>6. GradedOK'
  BY <1>1, <1>2 DEF GradedOK
<1>7. RowsOK' /\ RowCharges' = RowCharges
  BY <1>1, <1>2, UnchangedRows
<1>8. Answered'
  BY <1>1, <1>2, <1>7 DEF Answered, ChargesIn
<1>9. (meter.calls = Called + DeskCalls)'
  <2>1. /\ DeskCalls' = DeskCalls /\ meter'.calls - Called' = meter.calls - Called
    BY <1>2, <1>3 DEF DeskCalls, SampleKeeps
  <2>2. Called \in Nat /\ Called' \in Nat /\ meter.calls \in Nat /\ meter'.calls \in Nat
    <3>1. Called \in Nat /\ meter.calls \in Nat
      BY <1>1, CalledIs DEF EvalType
    <3>2. meter'.calls \in Nat
      BY <1>3 DEF SampleKeeps
    <3>3. Called' \in Nat
      BY <1>3, CalledAfter DEF SampleKeeps
    <3> QED  BY <3>1, <3>2, <3>3
  <2>3. DeskCalls \in Int
    BY <1>1, DeskCallsType
  <2> HIDE DEF DeskCalls
  <2> QED  BY <1>1, <2>1, <2>2, <2>3
<1> QED  BY <1>4, <1>5, <1>6, <1>7, <1>8, <1>9, MeteredAfter DEF EvalOK

LEMMA EvalStep == EvalOK /\ [Next]_vars => EvalOK'
<1> SUFFICES ASSUME EvalOK, [Next]_vars PROVE EvalOK'
  OBVIOUS
<1>1. CASE UNCHANGED vars
  <2>1. UNCHANGED vars /\ UNCHANGED judgeVars
    BY <1>1 DEF vars
  <2>2. EvalType'
    BY <2>1 DEF EvalOK, EvalType, vars, judgeVars
  <2>3. LoopOK'
    BY <2>1 DEF EvalOK, LoopOK, Key, NothingToGrade, vars, judgeVars
  <2>4. GradedOK'
    BY <2>1 DEF EvalOK, GradedOK, vars
  <2>5. RowsOK'
    BY <2>1 DEF EvalOK, RowsOK, RowOf, Done, vars
  <2>6. CallsAreMetered'
    <3>1. Answered /\ meter.calls = Called + DeskCalls
      BY MeteredIs DEF EvalOK
    <3>2. RowCharges' = RowCharges /\ DeskCalls' = DeskCalls /\ Called' = Called
      BY <2>1 DEF RowCharges, DeskCalls, Called, Charged, vars, judgeVars
    <3>3. Answered'
      BY <2>1, <3>1, <3>2 DEF Answered, ChargesIn, vars
    <3>4. meter' = meter
      BY <2>1 DEF judgeVars
    <3> QED  BY <3>1, <3>2, <3>3, <3>4, MeteredAfter
  <2> QED  BY <2>2, <2>3, <2>4, <2>5, <2>6 DEF EvalOK
<1> QED  BY <1>1, AnswerKeeps, GradeKeeps, ReuseKeeps, PanelKeeps DEF Next

LEMMA EvalAlways == Spec => []EvalOK
<1> QED  BY EvalInit, EvalStep, PTL DEF Spec

-----------------------------------------------------------------------------
(***************************************************************************)
(* "An unparseable verdict is a JUDGE failure, never a task outcome", and  *)
(* an empty or errored answer is unresolved without a call: for any panel, *)
(* rubric and tie-break, verdicts fresh and remembered (judge,             *)
(* verdict_for).                                                           *)
(***************************************************************************)
THEOREM OutcomesAreGradedAlways == Spec => []OutcomesAreGraded
<1>1. EvalOK => OutcomesAreGraded
  <2> SUFFICES ASSUME EvalOK, NEW a \in Attempts PROVE AttemptOK(a)
    BY DEF OutcomesAreGraded, AttemptOK, Grades
  <2>1. CASE a \in ToSet(attempts)
    BY <2>1 DEF EvalOK, GradedOK, ToSet
  <2>2. CASE a \notin ToSet(attempts)
    <3>1. PICK i \in DOMAIN rows : a \in ToSet(rows[i].attempts)
      <4>1. a \in UNION {ToSet(rows[i].attempts) : i \in DOMAIN rows}
        BY <2>2 DEF Attempts
      <4>2. PICK x \in {ToSet(rows[i].attempts) : i \in DOMAIN rows} : a \in x
        BY <4>1, Zenon
      <4> QED  BY <4>2, Zenon
    <3>2. PICK k \in DOMAIN rows[i].attempts : a = rows[i].attempts[k]
      BY <3>1 DEF ToSet
    <3> QED  BY <3>2 DEF EvalOK, GradedOK
  <2> QED  BY <2>1, <2>2
<1> QED  BY <1>1, EvalAlways, PTL

(***************************************************************************)
(* "Every answering provider call that returned is metered", and the       *)
(* judge's meter is what the verdicts on the desk cost, each bought once,  *)
(* at every step: for any number of tasks, strategies, attempts, retries   *)
(* and judges.                                                             *)
(***************************************************************************)
THEOREM CallsAreMeteredAlways == Spec => []CallsAreMetered
<1>1. EvalOK => CallsAreMetered
  BY DEF EvalOK
<1> QED  BY <1>1, EvalAlways, PTL

(***************************************************************************)
(* What the rows add up to.  When it is over, each strategy has one row for*)
(* each task.                                                              *)
(***************************************************************************)
ResolvedOf(key) == {i \in RowsOf(key) : Resolved(rows[i])}
TasksOf(R) == {rows[i].task : i \in R}

LEMMA RowsOfType ==
  ASSUME EvalType, NEW key
  PROVE  /\ IsFiniteSet(RowsOf(key)) /\ RowsOf(key) \subseteq DOMAIN rows
         /\ \A i \in RowsOf(key) : rows[i] \in RowType
<1>1. rows \in Seq(RowType)
  BY DEF EvalType
<1>2. DOMAIN rows = 1..Len(rows) /\ Len(rows) \in Nat /\ \A i \in DOMAIN rows : rows[i] \in RowType
  BY <1>1
<1>3. RowsOf(key) \subseteq 1..Len(rows)
  BY <1>2 DEF RowsOf
<1>4. IsFiniteSet(1..Len(rows))
  BY <1>2, FS_Interval
<1> QED  BY <1>2, <1>3, <1>4, FS_Subset

(* Of the rows of a strategy there are as many as tasks they are about.    *)
LEMMA RowsAreTasks ==
  ASSUME EvalType, RowsOK, NEW key, NEW R, R \subseteq RowsOf(key)
  PROVE  /\ IsFiniteSet(R) /\ IsFiniteSet(TasksOf(R))
         /\ Cardinality(R) = Cardinality(TasksOf(R)) /\ Cardinality(R) \in Nat
<1> DEFINE f == [i \in R |-> rows[i].task]
<1>1. IsFiniteSet(R)
  BY RowsOfType, FS_Subset
<1>2. \A i, j \in R : rows[i].task = rows[j].task => i = j
  BY RowsOfType DEF RowsOf, RowsOK
<1>3. f \in Bijection(R, TasksOf(R))
  <2>1. f \in [R -> TasksOf(R)]
    BY DEF TasksOf
  <2>2. \A t \in TasksOf(R) : \E i \in R : f[i] = t
    BY DEF TasksOf
  <2>3. \A i, j \in R : f[i] = f[j] => i = j
    BY <1>2
  <2> HIDE DEF f
  <2> QED  BY <2>1, <2>2, <2>3 DEF Bijection, Injection, Surjection, IsInjective
<1> HIDE DEF f
<1>4. ExistsBijection(R, TasksOf(R))
  BY <1>3 DEF ExistsBijection
<1> QED  BY <1>1, <1>4, FS_Bijection, FS_CardinalityType

LEMMA OneRowForEach ==
  ASSUME EvalOK, phase = "over", NEW key \in ToSet(Chosen), NEW t \in DOMAIN Tasks
  PROVE  \E i \in RowsOf(key) :
           rows[i].task = t /\ \A j \in RowsOf(key) : rows[j].task = t => j = i
<1>1. PICK p \in 1..Len(Chosen) : Chosen[p] = key
  BY ConstantsAre DEF ToSet
<1>2. t \in 1..Len(Tasks) /\ Len(Chosen) \in Nat
  BY ConstantsAre
<1>3. Done(p, t)
  BY <1>2 DEF EvalOK, EvalType, Done
<1>4. RowOf(p, t) # {}
  BY <1>2, <1>3 DEF EvalOK, RowsOK
<1>5. PICK i \in RowOf(p, t) : TRUE
  BY <1>4
<1>6. i \in RowsOf(key) /\ rows[i].task = t
  BY <1>1, <1>5 DEF RowOf, RowsOf
<1>7. \A j \in RowsOf(key) : rows[j].task = t => j = i
  BY <1>6 DEF RowsOf, EvalOK, RowsOK
<1> QED  BY <1>6, <1>7

LEMMA DivergentIs ==
  ASSUME EvalOK, phase = "over", NEW l \in ToSet(Chosen), NEW r \in ToSet(Chosen)
  PROVE  Divergent(l, r) = TasksOf(ResolvedOf(l)) \ TasksOf(ResolvedOf(r))
<1>0. \A key, i : i \in RowsOf(key) => rows[i].task \in DOMAIN Tasks
  BY RowsOfType, ConstantsAre DEF EvalOK, RowType
<1>1. ASSUME NEW t \in Divergent(l, r)
      PROVE  t \in TasksOf(ResolvedOf(l)) \ TasksOf(ResolvedOf(r))
  <2>1. PICK i \in RowsOf(l), j \in RowsOf(r) :
          rows[i].task = t /\ rows[j].task = t /\ Resolved(rows[i]) /\ ~Resolved(rows[j])
    BY <1>1 DEF Divergent
  <2>2. t \in TasksOf(ResolvedOf(l)) /\ t \in DOMAIN Tasks
    BY <1>0, <2>1 DEF TasksOf, ResolvedOf
  <2>3. \A m \in ResolvedOf(r) : rows[m].task # t
    BY <2>1, <2>2, OneRowForEach DEF ResolvedOf
  <2> QED  BY <2>2, <2>3 DEF TasksOf
<1>2. ASSUME NEW t \in TasksOf(ResolvedOf(l)), t \notin TasksOf(ResolvedOf(r))
      PROVE  t \in Divergent(l, r)
  <2>1. PICK i \in RowsOf(l) : Resolved(rows[i]) /\ rows[i].task = t
    BY <1>2 DEF TasksOf, ResolvedOf
  <2>2. t \in DOMAIN Tasks
    BY <1>0, <2>1
  <2>3. PICK j \in RowsOf(r) : rows[j].task = t
    BY <2>2, OneRowForEach
  <2>4. ~Resolved(rows[j])
    BY <1>2, <2>3 DEF TasksOf, ResolvedOf
  <2> QED  BY <2>1, <2>2, <2>3, <2>4 DEF Divergent
<1> QED  BY <1>1, <1>2

LEMMA DifferenceOfResolved ==
  ASSUME EvalOK, phase = "over", NEW l \in ToSet(Chosen), NEW r \in ToSet(Chosen)
  PROVE  Cardinality(ResolvedOf(l)) - Cardinality(ResolvedOf(r)) =
           Cardinality(Divergent(l, r)) - Cardinality(Divergent(r, l))
<1> DEFINE L == TasksOf(ResolvedOf(l))
           M == TasksOf(ResolvedOf(r))
<1>1. ResolvedOf(l) \subseteq RowsOf(l) /\ ResolvedOf(r) \subseteq RowsOf(r)
  BY DEF ResolvedOf
<1>2. /\ IsFiniteSet(L) /\ Cardinality(ResolvedOf(l)) = Cardinality(L)
      /\ IsFiniteSet(M) /\ Cardinality(ResolvedOf(r)) = Cardinality(M)
  BY <1>1, RowsAreTasks DEF EvalOK
<1>3. Divergent(l, r) = L \ M /\ Divergent(r, l) = M \ L
  BY DivergentIs
<1> HIDE DEF L, M
<1>4. /\ Cardinality(L \ M) = Cardinality(L) - Cardinality(L \cap M)
      /\ Cardinality(M \ L) = Cardinality(M) - Cardinality(M \cap L)
  BY <1>2, FS_Difference
<1>5. M \cap L = L \cap M
  OBVIOUS
<1>6. Cardinality(L) \in Nat /\ Cardinality(M) \in Nat /\ Cardinality(L \cap M) \in Nat
  BY <1>2, FS_CardinalityType, FS_Intersection
<1>7. Cardinality(M \cap L) = Cardinality(L \cap M)
  BY <1>5
<1> DEFINE a == Cardinality(L)
           b == Cardinality(M)
           c == Cardinality(L \cap M)
<1>8. /\ Cardinality(Divergent(l, r)) = a - c /\ Cardinality(Divergent(r, l)) = b - c
      /\ Cardinality(ResolvedOf(l)) = a /\ Cardinality(ResolvedOf(r)) = b
      /\ a \in Nat /\ b \in Nat /\ c \in Nat
  BY <1>2, <1>3, <1>4, <1>6, <1>7
<1> HIDE DEF a, b, c
<1> QED  BY <1>8

(* A row that is resolved was paid for: its last attempt was graded.       *)
LEMMA ResolvedIsCharged ==
  ASSUME EvalOK, NEW i \in DOMAIN rows, Resolved(rows[i])
  PROVE  Cardinality(Charged(rows[i])) >= 1
<1> DEFINE s == rows[i].attempts
           n == Len(s)
<1>1. rows[i] \in RowType
  BY DEF EvalOK, EvalType
<1>2. s \in Seq(AttemptType) /\ s # <<>> /\ n \in DOMAIN s /\ n \in Nat
  <2>1. s \in Seq(AttemptType) /\ s # <<>>
    BY <1>1 DEF RowType, EvalOK, GradedOK
  <2> QED  BY <2>1
<1>3. AttemptOK(s[n]) /\ s[n].verdict.status = "resolved"
  BY <1>2 DEF EvalOK, GradedOK, Resolved
<1>4. s[n].charged # 0
  BY <1>3 DEF AttemptOK, Grades
<1>5. n \in Charged(rows[i]) /\ Charged(rows[i]) \subseteq 1..n
  BY <1>2, <1>4 DEF Charged
<1>6. IsFiniteSet(1..n)
  BY <1>2, FS_Interval
<1> HIDE DEF s, n
<1>7. IsFiniteSet(Charged(rows[i])) /\ Charged(rows[i]) # {}
  BY <1>5, <1>6, FS_Subset
<1> QED  BY <1>7, FS_EmptySet, FS_CardinalityType

LEMMA SpendIs == \A row \in RowType : SpendOf(row) \in Nat
<1> SUFFICES ASSUME NEW row \in RowType PROVE SpendOf(row) \in Nat
  OBVIOUS
<1> DEFINE f == [k \in Charged(row) |-> Price[row.attempts[k].charged]]
<1>1. row.attempts \in Seq(AttemptType)
  BY DEF RowType
<1>2. Charged(row) \subseteq 1..Len(row.attempts) /\ Len(row.attempts) \in Nat
  BY <1>1 DEF Charged
<1>3. IsFiniteSet(1..Len(row.attempts))
  BY <1>2, FS_Interval
<1>4. IsFiniteSet(DOMAIN f)
  BY <1>2, <1>3, FS_Subset
<1>5. \A k \in DOMAIN f : f[k] \in Nat
  <2> SUFFICES ASSUME NEW k \in Charged(row) PROVE Price[row.attempts[k].charged] \in Nat
    OBVIOUS
  <2>1. row.attempts[k] \in AttemptType /\ row.attempts[k].charged # 0
    <3>1. k \in DOMAIN row.attempts /\ row.attempts[k].charged # 0
      BY DEF Charged
    <3> QED  BY <1>1, <3>1
  <2>2. row.attempts[k].charged \in 1..Top
    <3>1. row.attempts[k].charged \in 0..Top
      BY <2>1 DEF AttemptType
    <3> QED  BY <2>1, <3>1, ConstantsAre
  <2> QED  BY <2>2, ConstantsAre
<1>6. SpendOf(row) = SumFunction(f)
  BY DEF SpendOf
<1> HIDE DEF f
<1> QED  BY <1>4, <1>5, <1>6, SumType DEF SumFunction

LEMMA SummaryIs ==
  ASSUME EvalOK, NEW key
  PROVE  /\ Summary(key).tasks \in Nat /\ Summary(key).spend \in Nat
         /\ Summary(key).calls \in Nat /\ Summary(key).resolved \in Nat
         /\ Summary(key).resolved <= Summary(key).tasks
         /\ Summary(key).resolved <= Summary(key).calls
         /\ \A k \in Nat :
              (\A i \in RowsOf(key) :
                 Cardinality(Charged(rows[i])) = IF Resolved(rows[i]) THEN 1 ELSE k) =>
              Summary(key).calls = Summary(key).resolved
                                     + (Summary(key).tasks - Summary(key).resolved) * k
<1> DEFINE R == RowsOf(key)
           A == ResolvedOf(key)
           F == [i \in R |-> Cardinality(Charged(rows[i]))]
           G == [i \in R |-> SpendOf(rows[i])]
<1>1. /\ Summary(key).tasks = Cardinality(R) /\ Summary(key).resolved = Cardinality(A)
      /\ Summary(key).calls = SumFunctionOnSet(F, R) /\ Summary(key).spend = SumFunctionOnSet(G, R)
  BY DEF Summary, ResolvedOf, SumFunction
<1>2. /\ IsFiniteSet(R) /\ R \subseteq DOMAIN rows /\ A \subseteq R
      /\ \A i \in R : rows[i] \in RowType
  BY RowsOfType DEF EvalOK, ResolvedOf
<1>3. \A i \in R : F[i] \in Nat /\ G[i] \in Nat /\ (i \in A => F[i] >= 1)
  BY <1>2, ChargesType, SpendIs, ResolvedIsCharged DEF ResolvedOf
<1>4. R \cap A = A /\ \A i \in R : i \in A <=> Resolved(rows[i])
  BY DEF ResolvedOf
<1>5. \A i \in R : F[i] = Cardinality(Charged(rows[i]))
  OBVIOUS
<1> HIDE DEF R, A, F, G
<1>6. IsFiniteSet(A) /\ Cardinality(A) <= Cardinality(R)
  BY <1>2, FS_Subset
<1>7. /\ SumFunctionOnSet(F, R) \in Nat /\ SumFunctionOnSet(G, R) \in Nat
      /\ Cardinality(A) \in Nat /\ Cardinality(R) \in Nat
  BY <1>2, <1>3, <1>6, SumType, FS_CardinalityType
<1>8. SumFunctionOnSet(F, R) >= Cardinality(A)
  <2>1. SumFunctionOnSet(F, R) >= Cardinality(R \cap A)
    BY <1>2, <1>3, SumAtLeast
  <2> QED  BY <1>4, <2>1
<1>9. ASSUME NEW k \in Nat,
             \A i \in R : Cardinality(Charged(rows[i])) = IF Resolved(rows[i]) THEN 1 ELSE k
      PROVE  SumFunctionOnSet(F, R) = Cardinality(A) + (Cardinality(R) - Cardinality(A)) * k
  <2>1. \A i \in R : F[i] = IF i \in A THEN 1 ELSE k
    BY <1>4, <1>5, <1>9
  <2>2. SumFunctionOnSet(F, R) = Cardinality(R \cap A) + Cardinality(R \ A) * k
    BY <1>2, <2>1, SumOfTwoValues
  <2>3. Cardinality(R \ A) = Cardinality(R) - Cardinality(R \cap A)
    BY <1>2, FS_Difference
  <2> QED  BY <1>4, <2>2, <2>3
<1>10. Cardinality(A) <= SumFunctionOnSet(F, R)
  BY <1>7, <1>8
<1> QED  BY <1>1, <1>6, <1>7, <1>9, <1>10 DEF R

(* The rate at which the two cost the same per resolved task: where B is   *)
(* cheaper per call, the rate is not capped.                               *)
LEMMA BelowIsDearer ==
  ASSUME NEW T \in Nat, NEW R \in Nat, NEW C \in Nat, NEW s \in Nat,
         NEW D \in Nat, NEW q \in Nat, NEW d \in Nat, NEW k \in Nat \ {0},
         R <= T, C = R + (T - R) * k, D <= q, s * q < d * C
  PROVE  s * D > d * R <=> R * (d * C + (k - 1) * D * s)
                             < Min({k * D * s, d * C + (k - 1) * D * s}) * T
<1> DEFINE j == k - 1
           x == D * s
           y == d * C
           m == y + j * x
<1>1. j \in Nat /\ x \in Nat /\ y \in Nat /\ j * x \in Nat /\ m \in Nat
  OBVIOUS
<1>2. x < y
  <2>1. s * D <= s * q
    OBVIOUS
  <2>2. s * D = x /\ s * D \in Nat /\ s * q \in Nat
    OBVIOUS
  <2> HIDE DEF x, y
  <2>3. s * q < y
    BY DEF y
  <2> QED  BY <1>1, <2>1, <2>2, <2>3
<1>3. k * D * s = j * x + x /\ (k - 1) * D * s = j * x
  <2>1. (j + 1) * D * s = j * (D * s) + D * s /\ j * D * s = j * (D * s)
    BY <1>1
  <2>2. k = j + 1
    OBVIOUS
  <2> QED  BY <2>1, <2>2
<1>4. Min({k * D * s, d * C + (k - 1) * D * s}) = j * x + x
  <2> DEFINE u == j * x
  <2>1. u \in Nat /\ u + x <= y + u /\ u + x \in Int /\ y + u \in Int
    BY <1>1, <1>2
  <2>2. Min({u + x, y + u}) = u + x
    BY <2>1, MinOfTwo
  <2> QED  BY <1>3, <2>2
<1>5. C + R * j = k * T
  <2>1. R * (j + 1) = R * j + R /\ (T - R) * k = T * k - R * k
    BY <1>1
  <2>2. R * k = R * (j + 1) /\ T * k = k * T
    OBVIOUS
  <2>3. R * j \in Int /\ R * k \in Int /\ k * T \in Int
    BY <1>1
  <2> HIDE DEF j
  <2> QED  BY <2>1, <2>2, <2>3
<1>6. (j * x + x) * T = x * C + x * (R * j)
  <2>1. (j * x + x) * T = x * (k * T)
    <3>1. j * x + x = x * (j + 1) /\ j + 1 = k
      BY <1>1
    <3>2. (x * k) * T = x * (k * T)
      BY <1>1
    <3> HIDE DEF x, j
    <3> QED  BY <3>1, <3>2
  <2>2. x * (C + R * j) = x * C + x * (R * j)
    BY <1>1
  <2> HIDE DEF x, j
  <2> QED  BY <1>5, <2>1, <2>2
<1>7. R * m = (d * R) * C + x * (R * j)
  BY <1>1
<1>8. s * D > d * R <=> (d * R) * C < x * C
  <2>1. C > 0
    <3>1. C = 0 => d * C = 0
      OBVIOUS
    <3>2. s * q \in Nat
      OBVIOUS
    <3> QED  BY <3>1, <3>2
  <2> DEFINE a == d * R
  <2>2. a \in Nat /\ s * D = x
    OBVIOUS
  <2> HIDE DEF a, x
  <2>3. a < x => a * C < x * C
    BY <1>1, <2>1, <2>2
  <2>4. ~(a < x) => ~(a * C < x * C)
    BY <1>1, <2>1, <2>2
  <2> QED  BY <1>1, <2>2, <2>3, <2>4 DEF a
<1>9. (d * R) * C \in Nat /\ x * C \in Nat /\ x * (R * j) \in Nat
  BY <1>1
<1>10. R * m < (j * x + x) * T <=> (d * R) * C < x * C
  <2> DEFINE a == (d * R) * C
             b == x * C
             e == x * (R * j)
  <2>1. R * m = a + e /\ (j * x + x) * T = b + e /\ a \in Nat /\ b \in Nat /\ e \in Nat
    BY <1>6, <1>7, <1>9
  <2> HIDE DEF a, b, e, m, j, x
  <2>2. R * m < (j * x + x) * T <=> a < b
    BY <2>1
  <2> QED  BY <2>2 DEF a, b
<1> HIDE DEF j, x
<1> QED  BY <1>3, <1>4, <1>8, <1>10

(***************************************************************************)
(* The finding follows from the tasks (divergences,                        *)
(* break_even_resolution_rate): what B and another strategy resolve differ *)
(* by the tasks they disagree on; and, in the regime the rate is derived   *)
(* for, B is dearer per resolved task exactly below it: for any tasks,     *)
(* prices, ladder and number of attempts.                                  *)
(***************************************************************************)
THEOREM FindingFollowsFromTasksAlways == Spec => []FindingFollowsFromTasks
<1>1. EvalOK => FindingFollowsFromTasks
  <2> SUFFICES ASSUME EvalOK, phase = "over", "B" \in ToSet(Chosen),
                      NEW key \in ToSet(Chosen) \ {"B"}
               PROVE  LET cheap == Summary("B")
                          dear  == Summary(key)
                          found == Finding(cheap, dear, Strategy("B").attempts)
                      IN  /\ cheap.resolved - dear.resolved =
                               Cardinality(Divergent("B", key)) - Cardinality(Divergent(key, "B"))
                          /\ (found.cheaper /\ cheap.resolved > 0 /\ dear.resolved > 0
                                /\ \A i \in RowsOf("B") : FirstOrder(i)) =>
                               (found.dearer <=> found.below)
    BY DEF FindingFollowsFromTasks
  <2> DEFINE cheap == Summary("B")
             dear == Summary(key)
             k == Strategy("B").attempts
             found == Finding(cheap, dear, k)
  <2>1. cheap.resolved - dear.resolved =
          Cardinality(Divergent("B", key)) - Cardinality(Divergent(key, "B"))
    <3>1. cheap.resolved = Cardinality(ResolvedOf("B")) /\ dear.resolved = Cardinality(ResolvedOf(key))
      BY DEF Summary, ResolvedOf
    <3> QED  BY <3>1, DifferenceOfResolved
  <2>2. ASSUME found.cheaper, cheap.resolved > 0, dear.resolved > 0,
               \A i \in RowsOf("B") : FirstOrder(i)
        PROVE  found.dearer <=> found.below
    <3>1. k \in Nat \ {0}
      BY StrategyIs
    <3>2. /\ cheap.tasks \in Nat /\ cheap.spend \in Nat /\ cheap.calls \in Nat
          /\ cheap.resolved \in Nat /\ cheap.resolved <= cheap.tasks
      BY SummaryIs
    <3>3. /\ dear.spend \in Nat /\ dear.calls \in Nat /\ dear.resolved \in Nat
          /\ dear.resolved <= dear.calls
      BY SummaryIs
    <3>4. cheap.calls = cheap.resolved + (cheap.tasks - cheap.resolved) * k
      BY <2>2, <3>1, SummaryIs DEF FirstOrder
    <3> HIDE DEF cheap, dear, k
    <3>5. found.cheaper <=> /\ cheap.calls > 0 /\ dear.calls > 0
                            /\ cheap.spend * dear.calls < dear.spend * cheap.calls
      BY DEF Finding
    <3>6. found.dearer <=> /\ cheap.resolved > 0 /\ dear.resolved > 0
                           /\ cheap.spend * dear.resolved > dear.spend * cheap.resolved
      BY DEF Finding
    <3>7. found.below <=>
            cheap.resolved * (dear.spend * cheap.calls + (k - 1) * dear.resolved * cheap.spend)
              < Min({k * dear.resolved * cheap.spend,
                     dear.spend * cheap.calls + (k - 1) * dear.resolved * cheap.spend}) * cheap.tasks
      BY DEF Finding, BreakEven
    <3> HIDE DEF found
    <3>8. cheap.spend * dear.calls < dear.spend * cheap.calls
      BY <2>2, <3>5
    <3>9. cheap.spend * dear.resolved > dear.spend * cheap.resolved <=>
            cheap.resolved * (dear.spend * cheap.calls + (k - 1) * dear.resolved * cheap.spend)
              < Min({k * dear.resolved * cheap.spend,
                     dear.spend * cheap.calls + (k - 1) * dear.resolved * cheap.spend}) * cheap.tasks
      BY <3>1, <3>2, <3>3, <3>4, <3>8, BelowIsDearer
    <3> QED  BY <2>2, <3>6, <3>7, <3>9
  <2> QED  BY <2>1, <2>2
<1> QED  BY <1>1, EvalAlways, PTL

=============================================================================

---------------------------- MODULE BudgetProofs ----------------------------
(***************************************************************************)
(* Proofs about the budget, for every ladder, price list, set of callers   *)
(* and number of calls in flight.                                          *)
(***************************************************************************)
EXTENDS Budget, FiniteSetTheorems, WellFoundedInduction, TLAPS

(***************************************************************************)
(* A non-empty set of naturals below a bound has a greatest element: the   *)
(* walk down the ladder ends at the most capable tier that fits.           *)
(***************************************************************************)
LEMMA GreatestExists ==
  ASSUME NEW k \in Nat, NEW S \in SUBSET (0..k), S # {}
  PROVE  \E m \in S : \A u \in S : u <= m
<1> DEFINE T == {i \in Nat : k - i \in S}
           R == OpToRel(<, Nat)
<1>1. T \subseteq Nat /\ T # {}
  <2>1. PICK s \in S : TRUE
    OBVIOUS
  <2>2. k - s \in Nat /\ k - (k - s) = s
    BY SMT
  <2>3. k - s \in T
    BY <2>1, <2>2
  <2> QED  BY <2>3
<1>2. IsWellFoundedOn(R, Nat)
  BY NatLessThanWellFounded
<1>3. PICK x \in T : \A y \in T : ~ (<<y, x>> \in R)
  BY <1>1, <1>2, WFMin, Zenon
<1>4. \A y \in T : ~ (y < x)
  BY <1>1, <1>3 DEF OpToRel
<1>5. k - x \in S /\ x \in Nat
  BY <1>3
<1>6. ASSUME NEW u \in S PROVE u <= k - x
  <2>1. k - u \in Nat /\ k - (k - u) = u
    BY SMT
  <2>2. k - u \in T
    BY <2>1
  <2>3. ~ (k - u < x)
    BY <2>2, <1>4
  <2> QED  BY <2>1, <2>3, <1>5, SMT
<1> QED  BY <1>5, <1>6


-----------------------------------------------------------------------------
(* What an admission says. *)

(***************************************************************************)
(* decide admits a caller only at a tier of the ladder whose projected     *)
(* cost fits the run, only below the call ceilings, and only while there   *)
(* is something left to spend.                                             *)
(***************************************************************************)
Admissible(n, prompt, d) ==
  /\ d.tier \in Tiers
  /\ d.action \in {"proceed", "downgrade", "branch"}
  /\ WithinRun(Project(prompt, d.tier))
  /\ ~CallCeilingReached(n)
  /\ spent < Total

(* A projection is a cost between zero and CostBound. *)
LEMMA ProjectType ==
  ASSUME NEW prompt \in Prompts, NEW t \in Tiers
  PROVE  Project(prompt, t) \in 0..CostBound
<1>1. InputCost[prompt][t] \in Nat /\ MaxTokens[t] \in Nat /\ TokenPrice[t] \in Nat
  BY PolicyAssumption
<1>2. Project(prompt, t) \in Nat
  BY <1>1, SMT DEF Project
<1>3. Project(prompt, t) <= CostBound /\ CostBound \in Nat
  BY CostBoundAssumption
<1> QED  BY <1>2, <1>3, SMT

(* What decide admits is Admissible, whatever slice it is given. *)
LEMMA DecideAdmits ==
  ASSUME spent \in Nat, NEW n \in Callers, NEW slice, NEW prompt \in Prompts,
         NEW requested \in Tiers,
         Decide(n, slice, prompt, requested).action # "refuse"
  PROVE  Admissible(n, prompt, Decide(n, slice, prompt, requested))
<1> DEFINE F == Fitting(slice, prompt, requested)
           best == CHOOSE t \in F : \A u \in F : u <= t
           d == Decide(n, slice, prompt, requested)
<1>1. ~CallCeilingReached(n) /\ ~PressureAtLeast(RefuseAt)
  BY DEF Decide, Refusal
<1>2. spent < Total
  BY <1>1, BudgetAssumption, PolicyAssumption, SMT DEF PressureAtLeast
<1>3. StartTier(requested) \in Nat /\ StartTier(requested) <= requested
  BY SMT DEF StartTier, Tiers
<1>4. CASE F # {}
  <2>1. F \in SUBSET (0..StartTier(requested))
    BY DEF Fitting
  <2>2. \E t \in F : \A u \in F : u <= t
    BY <1>3, <1>4, <2>1, GreatestExists
  <2>3. best \in F
    BY <2>2
  <2>4. best \in Tiers /\ WithinRun(Project(prompt, best))
    BY <2>1, <2>3, <1>3, PolicyAssumption, SMT DEF Fitting, CanAdmit, Tiers
  <2>5. d.tier = best /\ d.action \in {"proceed", "downgrade"}
    BY <1>1, <1>4 DEF Decide
  <2> QED  BY <1>1, <1>2, <2>4, <2>5 DEF Admissible
<1>5. CASE F = {}
  <2>1. d = [action |-> "branch", tier |-> 0] /\ RoomForCheapest(prompt)
    BY <1>1, <1>5 DEF Decide, Refusal
  <2>2. 0 \in Tiers
    BY PolicyAssumption DEF Tiers
  <2> QED  BY <1>1, <1>2, <2>1, <2>2 DEF Admissible, RoomForCheapest
<1> QED  BY <1>4, <1>5

(* A branch decides again, so the same holds of what _decide returns. *)
LEMMA DecisionAdmits ==
  ASSUME spent \in Nat, NEW n \in Callers, NEW prompt \in Prompts,
         Decision(n, prompt).action # "refuse"
  PROVE  Admissible(n, prompt, Decision(n, prompt))
<1> DEFINE first  == Decide(n, reservations[n], prompt, Requested[n])
           second == Decide(n, NoSlice, prompt, Requested[n])
<1>0. Requested[n] \in Tiers
  BY GatewayAssumption
<1>1. CASE first.action # "branch"
  BY <1>0, <1>1, DecideAdmits DEF Decision
<1>2. CASE first.action = "branch"
  <2>1. second.action # "refuse"
    BY <1>2 DEF Decision
  <2>2. Admissible(n, prompt, second)
    BY <1>0, <2>1, DecideAdmits
  <2>3. Decision(n, prompt) = [second EXCEPT !.action = "branch"]
    BY <1>2, <2>1 DEF Decision
  <2>4. second = [action |-> second.action, tier |-> second.tier]
    BY <2>1 DEF Decide, Refusal
  <2>5. /\ Decision(n, prompt).tier = second.tier
        /\ Decision(n, prompt).action = "branch"
    BY <2>3, <2>4
  <2> QED  BY <2>2, <2>5 DEF Admissible
<1> QED  BY <1>1, <1>2
-----------------------------------------------------------------------------
(* Types. *)

(* What allocate divides is never negative. *)
LEMMA SpendableType ==
  ASSUME spent \in Nat PROVE Spendable \in Nat
BY BudgetAssumption, SMT DEF Spendable, Remaining

(* allocate gives every caller a slice of the right type. *)
LEMMA SlicesType ==
  ASSUME spent \in Nat, NEW nodes \in SUBSET Callers
  PROVE  Slices(nodes) \in [Callers -> [amount : Nat, share : Nat]]
<1>1. Cardinality(nodes) \in Nat
  BY FS_Subset, FS_CardinalityType, BudgetAssumption
<1> QED  BY <1>1, SpendableType DEF Slices, NoSlice

(* Dropping a slice keeps the type of the reservations. *)
LEMMA ReleasedType ==
  ASSUME reservations \in [Callers -> [amount : Nat, share : Nat]],
         NEW n \in Callers, NEW prompt
  PROVE  Released(n, prompt) \in [Callers -> [amount : Nat, share : Nat]]
BY DEF Released, NoSlice

(* TypeOK is inductive: the ledger, the frontier and the calls in flight   *)
(* keep their types, and in particular only tiers of the ladder are called.*)
THEOREM TypeCorrect == Spec => []TypeOK
<1>1. Init => TypeOK
  BY DEF Init, LedgerInit, TypeOK, NoSlice
<1>2. TypeOK /\ [Next]_vars => TypeOK'
  <2> SUFFICES ASSUME TypeOK, [Next]_vars PROVE TypeOK'
    OBVIOUS
  <2> USE DEF TypeOK
  <2>1. CASE PlanRound
    <3>1. Frontier \in SUBSET Callers
      BY GatewayAssumption DEF Frontier
    <3>2. reservations' \in [Callers -> [amount : Nat, share : Nat]]
      BY <2>1, <3>1, SlicesType DEF PlanRound, Allocate
    <3> QED  BY <2>1, <3>2 DEF PlanRound, Allocate
  <2>2. ASSUME NEW n \in Callers, NEW prompt \in Prompts, Admit(n, prompt)
        PROVE  TypeOK'
    <3>1. Admissible(n, prompt, Decision(n, prompt))
      BY <2>2, DecisionAdmits DEF Admit
    <3>2. call' \in [Callers -> {NoCall} \cup
                       [action : {"proceed", "downgrade", "branch"},
                        tier : Tiers, prompt : Prompts]]
      BY <2>2, <3>1 DEF Admit, Admissible
    <3> QED  BY <2>2, <3>2, ReleasedType DEF Admit
  <2>3. ASSUME NEW n \in Callers, NEW prompt \in Prompts, Refuse(n, prompt)
        PROVE  TypeOK'
    BY <2>3, ReleasedType DEF Refuse
  <2>4. ASSUME NEW n \in Callers, Answer(n) PROVE TypeOK'
    <3>1. PICK cost \in 0..WorstCost(n, call[n].prompt, call[n].tier) : Charge(n, cost)
      BY <2>4 DEF Answer
    <3>2. cost \in Nat
      BY <3>1, SMT
    <3> QED  BY <2>4, <3>1, <3>2 DEF Answer, Charge
  <2>5. ASSUME NEW n \in Callers, Fail(n) PROVE TypeOK'
    BY <2>5 DEF Fail, ledger
  <2>6. CASE UNCHANGED vars
    BY <2>6 DEF vars, ledger
  <2> QED  BY <2>1, <2>2, <2>3, <2>4, <2>5, <2>6 DEF Next, Call
<1> QED  BY <1>1, <1>2, PTL DEF Spec
-----------------------------------------------------------------------------
(* The calls in flight as a finite set: who joins and who leaves it. *)

(* There are finitely many calls in flight. *)
LEMMA InFlightFinite ==
  IsFiniteSet(InFlight) /\ Cardinality(InFlight) \in Nat
BY BudgetAssumption, FS_Subset, FS_CardinalityType DEF InFlight

(* An admitted call is one more in flight, within MaxInFlight. *)
LEMMA AdmitJoins ==
  ASSUME TypeOK, NEW n \in Callers, NEW prompt \in Prompts, Admit(n, prompt)
  PROVE  /\ InFlight' = InFlight \cup {n}
         /\ Cardinality(InFlight') = Cardinality(InFlight) + 1
         /\ Cardinality(InFlight') <= MaxInFlight
<1>1. Decision(n, prompt).action # "none"
  BY DecisionAdmits DEF TypeOK, Admit, Admissible
<1>2. InFlight' = InFlight \cup {n} /\ n \notin InFlight
  BY <1>1 DEF TypeOK, Admit, MayCall, InFlight, NoCall
<1>3. Cardinality(InFlight') = Cardinality(InFlight) + 1
  BY <1>2, InFlightFinite, FS_AddElement
<1> QED
  BY <1>2, <1>3, InFlightFinite, GatewayAssumption, SMT DEF Admit, MayCall

(* A call that ends is one less in flight. *)
LEMMA EndLeaves ==
  ASSUME TypeOK, NEW n \in Callers, n \in InFlight,
         call' = [call EXCEPT ![n] = NoCall]
  PROVE  /\ InFlight' = InFlight \ {n}
         /\ Cardinality(InFlight') = Cardinality(InFlight) - 1
<1>1. InFlight' = InFlight \ {n}
  BY DEF TypeOK, InFlight
<1> QED  BY <1>1, InFlightFinite, FS_RemoveElement

(* A planning round starts no call, and leaves the others as they are. *)
LEMMA RoundLeaves ==
  ASSUME TypeOK, PlanRound
  PROVE  InFlight' \subseteq InFlight /\ \A n \in InFlight' : call'[n] = call[n]
BY DEF TypeOK, PlanRound, InFlight

-----------------------------------------------------------------------------
(***************************************************************************)
(* The money.  One call's admission looked at the ledger alone, so what    *)
(* the calls in flight may still add is not bounded by the ceiling.  What  *)
(* is invariant: all of them but one count for CostBound at most, and that *)
(* one, the last to be admitted or any later call in its place, for what   *)
(* it was projected to cost.                                               *)
(***************************************************************************)
Limit == (100 - HeadroomPct) * Total + 100 * (MaxInFlight - 1) * CostBound

WorstOf(n) == Project(call[n].prompt, call[n].tier)

Owed(k) == k * CostBound

Exposure ==
  /\ 100 * spent <= Limit
  /\ InFlight # {} =>
       \E n \in InFlight :
         100 * (spent + WorstOf(n) + Owed(Cardinality(InFlight) - 1)) <= Limit

(* Fewer calls in flight can add less. *)
LEMMA OwedMonotone ==
  ASSUME NEW a \in Int, NEW b \in Int, a <= b
  PROVE  Owed(a) \in Int /\ Owed(b) \in Int /\ Owed(a) <= Owed(b)
<1>1. CostBound \in Nat /\ b - a \in Nat
  BY CostBoundAssumption, SMT
<1>2. (b - a) * CostBound \in Nat
  BY <1>1, SMT
<1>3. (b - a) * CostBound = b * CostBound - a * CostBound
  BY <1>1, SMT
<1> QED  BY <1>1, <1>2, <1>3, SMT DEF Owed

(* One call more can add CostBound more. *)
LEMMA OwedStep ==
  ASSUME NEW k \in Int
  PROVE  Owed(k) = Owed(k - 1) + CostBound /\ Owed(0) = 0
BY CostBoundAssumption, SMT DEF Owed

(* The limit is an integer. *)
LEMMA LimitType == Limit \in Int /\ (100 - HeadroomPct) * Total \in Int
<1>1. (100 - HeadroomPct) * Total \in Int
  BY BudgetAssumption, SMT
<1>2. (MaxInFlight - 1) * CostBound \in Int
  BY GatewayAssumption, CostBoundAssumption, SMT
<1> QED  BY <1>1, <1>2, GatewayAssumption, CostBoundAssumption, SMT DEF Limit

(* A call in flight is projected to cost CostBound at most. *)
LEMMA WorstOfType ==
  ASSUME TypeOK, NEW n \in InFlight
  PROVE  WorstOf(n) \in Nat /\ WorstOf(n) <= CostBound
<1>1. call[n].prompt \in Prompts /\ call[n].tier \in Tiers
  BY DEF TypeOK, InFlight
<1> QED  BY <1>1, ProjectType, CostBoundAssumption, SMT DEF WorstOf
(* Calls that leave without a charge keep the exposure. *)
LEMMA ExposureShrinks ==
  ASSUME TypeOK, Exposure, spent' = spent,
         InFlight' \subseteq InFlight, \A n \in InFlight' : call'[n] = call[n]
  PROVE  Exposure'
<1> DEFINE k == Cardinality(InFlight)
           l == Cardinality(InFlight')
<1>1. k \in Nat /\ l \in Nat /\ l <= k
  BY InFlightFinite, FS_Subset, FS_CardinalityType
<1>2. \A n \in InFlight' : WorstOf(n)' = WorstOf(n)
  BY DEF WorstOf, Project
<1>3. ASSUME InFlight' # {}
      PROVE  \E n \in InFlight' : 100 * (spent + WorstOf(n) + Owed(l - 1)) <= Limit
  <2>1. PICK j \in InFlight : 100 * (spent + WorstOf(j) + Owed(k - 1)) <= Limit
    BY <1>3 DEF Exposure
  <2>2. CASE j \in InFlight'
    <3>1. Owed(l - 1) <= Owed(k - 1) /\ Owed(l - 1) \in Int /\ Owed(k - 1) \in Int
      BY <1>1, OwedMonotone, SMT
    <3>2. WorstOf(j) \in Nat
      BY WorstOfType
    <3>3. 100 * (spent + WorstOf(j) + Owed(l - 1)) <= Limit
      BY <2>1, <3>1, <3>2, LimitType, SMT DEF TypeOK
    <3> QED  BY <2>2, <3>3
  <2>3. CASE j \notin InFlight'
    <3>1. PICK n \in InFlight' : TRUE
      BY <1>3
    <3>2. InFlight' \subseteq InFlight \ {j} /\ Cardinality(InFlight \ {j}) = k - 1
      BY <2>3, InFlightFinite, FS_RemoveElement
    <3>3. l <= k - 1
      BY <3>2, InFlightFinite, FS_RemoveElement, FS_Subset
    <3>4. Owed(l) <= Owed(k - 1) /\ Owed(l) \in Int /\ Owed(k - 1) \in Int
      BY <1>1, <3>3, OwedMonotone, SMT
    <3>5. Owed(l) = Owed(l - 1) + CostBound /\ Owed(l - 1) \in Int
      BY <1>1, OwedStep, OwedMonotone, SMT
    <3>6. WorstOf(n) \in Nat /\ WorstOf(n) <= CostBound /\ WorstOf(j) \in Nat
      BY <3>1, WorstOfType
    <3>7. 100 * (spent + WorstOf(n) + Owed(l - 1)) <= Limit
      BY <2>1, <3>4, <3>5, <3>6, LimitType, CostBoundAssumption, SMT DEF TypeOK
    <3> QED  BY <3>1, <3>7
  <2> QED  BY <2>2, <2>3
<1>4. Limit' = Limit /\ \A a : Owed(a)' = Owed(a)
  BY DEF Limit, Owed
<1> QED  BY <1>2, <1>3, <1>4 DEF Exposure

(* An admitted call fits beside what was spent when it was admitted. *)
LEMMA ExposureAdmits ==
  ASSUME TypeOK, Exposure, NEW n \in Callers, NEW prompt \in Prompts, Admit(n, prompt)
  PROVE  Exposure'
<1> DEFINE d == Decision(n, prompt)
           cost == Project(prompt, d.tier)
           l == Cardinality(InFlight')
<1>1. Admissible(n, prompt, d)
  BY DecisionAdmits DEF TypeOK, Admit
<1>2. cost \in Nat
  BY <1>1, ProjectType, SMT DEF Admissible
<1>3. 100 * (spent + cost) <= (100 - HeadroomPct) * Total
  <2>1. 100 * cost <= 100 * (Total - spent) - HeadroomPct * Total
    BY <1>1, SMT DEF Admissible, WithinRun, Remaining
  <2>2. (100 - HeadroomPct) * Total = 100 * Total - HeadroomPct * Total
    BY BudgetAssumption, SMT
  <2>3. HeadroomPct * Total \in Int
    BY BudgetAssumption, SMT
  <2> QED  BY <1>2, <2>1, <2>2, <2>3, BudgetAssumption, SMT DEF TypeOK
<1>4. l - 1 \in Int /\ l - 1 <= MaxInFlight - 1
  BY AdmitJoins, InFlightFinite, GatewayAssumption, SMT
<1>5. Owed(l - 1) <= Owed(MaxInFlight - 1) /\ Owed(l - 1) \in Int
        /\ Owed(MaxInFlight - 1) \in Int
  BY <1>4, GatewayAssumption, OwedMonotone, SMT
<1>6. Limit = (100 - HeadroomPct) * Total + 100 * Owed(MaxInFlight - 1)
  BY <1>5, GatewayAssumption, CostBoundAssumption, BudgetAssumption, SMT DEF Limit, Owed
<1>7. 100 * (spent + cost + Owed(l - 1)) <= Limit
  BY <1>2, <1>3, <1>5, <1>6, LimitType, SMT DEF TypeOK
<1>8. spent' = spent /\ n \in InFlight' /\ WorstOf(n)' = cost
  BY AdmitJoins DEF TypeOK, Admit, WorstOf, Project
<1>9. Limit' = Limit /\ \A a : Owed(a)' = Owed(a)
  BY DEF Limit, Owed
<1> QED  BY <1>7, <1>8, <1>9 DEF Exposure
(* An answer moves at most its projected cost from the exposure to spent:  *)
(* max_tokens is the tier's, because no caller brings its own.             *)
LEMMA ExposureAnswers ==
  ASSUME Overriding = {}, TypeOK, Exposure, NEW n \in Callers, Answer(n)
  PROVE  Exposure'
<1> DEFINE k == Cardinality(InFlight)
<1>1. n \in InFlight
  BY DEF Answer, InFlight
<1>2. InFlight' = InFlight \ {n} /\ Cardinality(InFlight') = k - 1 /\ k \in Nat
  BY <1>1, EndLeaves, InFlightFinite DEF Answer
<1>3. PICK cost \in 0..WorstOf(n) : spent' = spent + cost
  BY DEF Answer, Charge, WorstCost, TokenCeiling, WorstOf, Project
<1>4. WorstOf(n) \in Nat /\ WorstOf(n) <= CostBound /\ cost \in Nat /\ cost <= WorstOf(n)
  BY <1>1, <1>3, WorstOfType, SMT
<1>5. PICK j \in InFlight : 100 * (spent + WorstOf(j) + Owed(k - 1)) <= Limit
  BY <1>1 DEF Exposure
<1>6. WorstOf(j) \in Nat
  BY WorstOfType
<1>7. Owed(k - 1) = Owed(k - 2) + CostBound /\ Owed(k - 1) \in Int /\ Owed(k - 2) \in Int
  BY <1>2, OwedStep, OwedMonotone, SMT
<1>8. \A m \in InFlight' : WorstOf(m)' = WorstOf(m) /\ m \in InFlight /\ m # n
  BY <1>2 DEF TypeOK, Answer, WorstOf, Project
<1>9. k >= 1
  BY <1>1, <1>2, InFlightFinite, FS_EmptySet, SMT
<1>10. Owed(k - 1) >= 0
  BY <1>2, <1>9, OwedMonotone, OwedStep, SMT
<1>11. 100 * (spent + cost) <= Limit
  <2>1. CASE j = n
    BY <2>1, <1>4, <1>5, <1>7, <1>10, LimitType, SMT DEF TypeOK
  <2>2. CASE j # n
    <3>1. InFlight' # {} /\ IsFiniteSet(InFlight')
      BY <2>2, <1>2, InFlightFinite, FS_RemoveElement
    <3>2. k - 2 >= 0
      <4>1. Cardinality(InFlight') \in Nat /\ Cardinality(InFlight') # 0
        BY <3>1, FS_CardinalityType, FS_EmptySet
      <4> QED  BY <4>1, <1>2, SMT
    <3>3. Owed(k - 2) >= 0
      BY <3>2, <1>2, OwedMonotone, OwedStep, SMT
    <3> QED  BY <3>3, <1>4, <1>5, <1>6, <1>7, LimitType, CostBoundAssumption, SMT
               DEF TypeOK
  <2> QED  BY <2>1, <2>2
<1>12. ASSUME InFlight' # {}
       PROVE  \E m \in InFlight' :
                100 * (spent + cost + WorstOf(m) + Owed(k - 2)) <= Limit
  <2>1. CASE j \in InFlight'
    <3>1. j # n
      BY <2>1, <1>2
    <3>2. 100 * (spent + cost + WorstOf(j) + Owed(k - 2)) <= Limit
      BY <1>4, <1>5, <1>6, <1>7, LimitType, CostBoundAssumption, SMT DEF TypeOK
    <3> QED  BY <2>1, <3>2
  <2>2. CASE j \notin InFlight'
    <3>1. j = n
      BY <2>2, <1>2
    <3>2. PICK m \in InFlight' : TRUE
      BY <1>12
    <3>3. WorstOf(m) \in Nat /\ WorstOf(m) <= CostBound
      BY <3>2, <1>8, WorstOfType
    <3>4. 100 * (spent + cost + WorstOf(m) + Owed(k - 2)) <= Limit
      BY <3>1, <3>3, <1>4, <1>5, <1>7, LimitType, CostBoundAssumption, SMT DEF TypeOK
    <3> QED  BY <3>2, <3>4
  <2> QED  BY <2>1, <2>2
<1>13. /\ Limit' = Limit
       /\ \A a : Owed(a)' = Owed(a)
       /\ Cardinality(InFlight') - 1 = k - 2
  BY <1>2, SMT DEF Limit, Owed
<1> QED  BY <1>3, <1>8, <1>11, <1>12, <1>13 DEF Exposure

(***************************************************************************)
(* The bound the controller guarantees with calls side by side, whatever   *)
(* the ladder, the prices and the order of admissions, answers, failures,  *)
(* cancellations and re-allocations; provided no caller overrides the      *)
(* tier's max_tokens.                                                      *)
(***************************************************************************)
THEOREM OvershootBoundedAlways ==
  ASSUME Overriding = {} PROVE Spec => []OvershootBounded
<1>1. Init => Exposure
  <2> SUFFICES ASSUME Init PROVE Exposure
    OBVIOUS
  <2>1. InFlight = {} /\ spent = 0
    BY DEF Init, LedgerInit, InFlight
  <2>2. (100 - HeadroomPct) * Total \in Nat
    BY BudgetAssumption, SMT
  <2>3. (MaxInFlight - 1) * CostBound \in Nat
    BY GatewayAssumption, CostBoundAssumption, SMT
  <2>4. Limit >= 0
    BY <2>2, <2>3, GatewayAssumption, CostBoundAssumption, SMT DEF Limit
  <2> QED  BY <2>1, <2>4 DEF Exposure
<1>2. Exposure /\ TypeOK /\ [Next]_vars => Exposure'
  <2> SUFFICES ASSUME Exposure, TypeOK, [Next]_vars PROVE Exposure'
    OBVIOUS
  <2>1. CASE PlanRound
    BY <2>1, RoundLeaves, ExposureShrinks DEF PlanRound, Allocate
  <2>2. ASSUME NEW n \in Callers, NEW prompt \in Prompts, Admit(n, prompt)
        PROVE  Exposure'
    BY <2>2, ExposureAdmits
  <2>3. ASSUME NEW n \in Callers, NEW prompt \in Prompts, Refuse(n, prompt)
        PROVE  Exposure'
    BY <2>3, ExposureShrinks DEF Refuse, InFlight
  <2>4. ASSUME NEW n \in Callers, Answer(n) PROVE Exposure'
    BY <2>4, ExposureAnswers
  <2>5. ASSUME NEW n \in Callers, Fail(n) PROVE Exposure'
    <3>1. InFlight' = InFlight \ {n}
      BY <2>5, EndLeaves DEF Fail, InFlight
    <3>2. \A m \in InFlight' : call'[m] = call[m]
      BY <2>5, <3>1 DEF Fail, TypeOK, InFlight
    <3> QED  BY <2>5, <3>1, <3>2, ExposureShrinks DEF Fail, ledger
  <2>6. CASE UNCHANGED vars
    BY <2>6, ExposureShrinks DEF vars, ledger, InFlight
  <2> QED  BY <2>1, <2>2, <2>3, <2>4, <2>5, <2>6 DEF Next, Call
<1>3. Exposure => OvershootBounded
  BY DEF Exposure, Limit, OvershootBounded
<1> QED  BY <1>1, <1>2, <1>3, TypeCorrect, PTL DEF Spec

(***************************************************************************)
(* With one call at a time the controller keeps its promise.               *)
(***************************************************************************)
THEOREM CeilingHoldsInSeries ==
  ASSUME Overriding = {}, MaxInFlight = 1 PROVE Spec => []CeilingHolds
<1>1. TypeOK /\ OvershootBounded => CeilingHolds
  <2> SUFFICES ASSUME TypeOK, OvershootBounded PROVE CeilingHolds
    OBVIOUS
  <2>1. 100 * (MaxInFlight - 1) * CostBound = 0
    BY CostBoundAssumption, SMT
  <2>2. HeadroomPct * Total \in Nat
    BY BudgetAssumption, SMT
  <2>3. (100 - HeadroomPct) * Total = 100 * Total - HeadroomPct * Total
    BY BudgetAssumption, SMT
  <2> QED  BY <2>1, <2>2, <2>3, BudgetAssumption, SMT
             DEF TypeOK, OvershootBounded, CeilingHolds
<1> QED  BY <1>1, TypeCorrect, OvershootBoundedAlways, PTL
-----------------------------------------------------------------------------
(***************************************************************************)
(* The calls.  A charge was admitted below the ceilings, together with     *)
(* what was in flight then: so it is charges and calls in flight together  *)
(* that are bounded, over the run and for each caller.                     *)
(***************************************************************************)
CallExposure ==
  /\ MaxCallsPerRun > 0 =>
       calls + Cardinality(InFlight) <= MaxCallsPerRun + MaxInFlight - 1
  /\ MaxCallsPerNode > 0 =>
       \A n \in Callers : /\ nodeCalls[n] <= MaxCallsPerNode
                          /\ n \in InFlight => nodeCalls[n] + 1 <= MaxCallsPerNode

(* Calls that leave without a charge keep the bound on the calls. *)
LEMMA CallExposureShrinks ==
  ASSUME TypeOK, CallExposure, calls' = calls, nodeCalls' = nodeCalls,
         InFlight' \subseteq InFlight
  PROVE  CallExposure'
<1>1. Cardinality(InFlight') <= Cardinality(InFlight)
  BY InFlightFinite, FS_Subset
<1>2. Cardinality(InFlight') \in Nat
  BY InFlightFinite, FS_Subset, FS_CardinalityType
<1> QED
  BY <1>1, <1>2, InFlightFinite, GatewayAssumption, PolicyAssumption, SMT
     DEF CallExposure, TypeOK

(* A call that admission lets through is below both ceilings. *)
LEMMA CallExposureAdmits ==
  ASSUME TypeOK, CallExposure,
         NEW n \in Callers, NEW prompt \in Prompts, Admit(n, prompt)
  PROVE  CallExposure'
<1>1. ~CallCeilingReached(n)
  BY DecisionAdmits DEF TypeOK, Admit, Admissible
<1>2. calls' = calls /\ nodeCalls' = nodeCalls
  BY DEF Admit
<1>3. MaxCallsPerRun > 0 =>
        calls + Cardinality(InFlight') <= MaxCallsPerRun + MaxInFlight - 1
  <2>1. MaxCallsPerRun > 0 => calls <= MaxCallsPerRun - 1
    BY <1>1, PolicyAssumption, SMT DEF CallCeilingReached, TypeOK
  <2> QED
    BY <2>1, AdmitJoins, InFlightFinite, GatewayAssumption, PolicyAssumption, SMT
       DEF TypeOK
<1>4. MaxCallsPerNode > 0 => nodeCalls[n] + 1 <= MaxCallsPerNode
  <2>1. nodeCalls[n] \in Nat
    BY DEF TypeOK
  <2> QED  BY <1>1, <2>1, PolicyAssumption, SMT DEF CallCeilingReached
<1> QED  BY <1>2, <1>3, <1>4, AdmitJoins DEF CallExposure

(* A charge takes the place of the call it is for. *)
LEMMA CallExposureAnswers ==
  ASSUME TypeOK, CallExposure, NEW n \in Callers, Answer(n)
  PROVE  CallExposure'
<1>1. n \in InFlight
  BY DEF Answer, InFlight
<1>2. /\ InFlight' = InFlight \ {n}
      /\ Cardinality(InFlight') = Cardinality(InFlight) - 1
  BY <1>1, EndLeaves DEF Answer
<1>3. calls' = calls + 1 /\ nodeCalls' = [nodeCalls EXCEPT ![n] = @ + 1]
  BY DEF Answer, Charge
<1>4. MaxCallsPerRun > 0 =>
        calls' + Cardinality(InFlight') <= MaxCallsPerRun + MaxInFlight - 1
  BY <1>2, <1>3, InFlightFinite, SMT DEF CallExposure, TypeOK
<1>5. ASSUME MaxCallsPerNode > 0, NEW m \in Callers
      PROVE  /\ nodeCalls'[m] <= MaxCallsPerNode
             /\ m \in InFlight' => nodeCalls'[m] + 1 <= MaxCallsPerNode
  <2>1. CASE m = n
    BY <2>1, <1>1, <1>2, <1>3, <1>5 DEF CallExposure, TypeOK
  <2>2. CASE m # n
    BY <2>2, <1>2, <1>3, <1>5 DEF CallExposure, TypeOK
  <2> QED  BY <2>1, <2>2
<1> QED  BY <1>4, <1>5 DEF CallExposure

(* Charges and calls in flight stay bounded together. *)
LEMMA CallExposureInvariant == Spec => []CallExposure
<1>1. Init => CallExposure
  <2> SUFFICES ASSUME Init PROVE CallExposure
    OBVIOUS
  <2>1. InFlight = {} /\ calls = 0 /\ nodeCalls = [n \in Callers |-> 0]
    BY DEF Init, LedgerInit, InFlight
  <2>2. Cardinality(InFlight) = 0
    BY <2>1, FS_EmptySet
  <2> QED
    BY <2>1, <2>2, PolicyAssumption, GatewayAssumption, SMT DEF CallExposure
<1>2. CallExposure /\ TypeOK /\ [Next]_vars => CallExposure'
  <2> SUFFICES ASSUME CallExposure, TypeOK, [Next]_vars PROVE CallExposure'
    OBVIOUS
  <2>1. CASE PlanRound
    BY <2>1, RoundLeaves, CallExposureShrinks DEF PlanRound, Allocate
  <2>2. ASSUME NEW n \in Callers, NEW prompt \in Prompts, Admit(n, prompt)
        PROVE  CallExposure'
    BY <2>2, CallExposureAdmits
  <2>3. ASSUME NEW n \in Callers, NEW prompt \in Prompts, Refuse(n, prompt)
        PROVE  CallExposure'
    BY <2>3, CallExposureShrinks DEF Refuse, InFlight
  <2>4. ASSUME NEW n \in Callers, Answer(n) PROVE CallExposure'
    BY <2>4, CallExposureAnswers
  <2>5. ASSUME NEW n \in Callers, Fail(n) PROVE CallExposure'
    BY <2>5, EndLeaves, CallExposureShrinks DEF Fail, ledger, InFlight
  <2>6. CASE UNCHANGED vars
    BY <2>6, CallExposureShrinks DEF vars, ledger, InFlight
  <2> QED  BY <2>1, <2>2, <2>3, <2>4, <2>5, <2>6 DEF Next, Call
<1> QED  BY <1>1, <1>2, TypeCorrect, PTL DEF Spec

(***************************************************************************)
(* The ceiling on a run's calls is missed by the calls in flight at most.  *)
(***************************************************************************)
THEOREM CallOvershootBoundedAlways == Spec => []CallOvershootBounded
<1>1. CallExposure /\ TypeOK => CallOvershootBounded
  BY InFlightFinite, PolicyAssumption, GatewayAssumption, SMT
     DEF CallExposure, CallOvershootBounded, TypeOK
<1> QED  BY <1>1, CallExposureInvariant, TypeCorrect, PTL

(***************************************************************************)
(* One node makes one call at a time, so its ceiling holds however many    *)
(* nodes call side by side.                                                *)
(***************************************************************************)
THEOREM NodeCallCeilingAlways == Spec => []NodeCallCeilingHolds
<1>1. CallExposure => NodeCallCeilingHolds
  BY DEF CallExposure, NodeCallCeilingHolds
<1> QED  BY <1>1, CallExposureInvariant, PTL

(***************************************************************************)
(* A branch never turns into a refusal: the cheapest rung that made decide *)
(* answer "branch" fits once the caller's slice is dropped.                *)
(***************************************************************************)
THEOREM BranchFindsRoomAlways == Spec => []BranchFindsRoom
<1>1. TypeOK => BranchFindsRoom
  <2> SUFFICES ASSUME TypeOK, NEW n \in Callers, NEW prompt \in Prompts,
                      Decide(n, reservations[n], prompt, Requested[n]).action = "branch"
               PROVE  /\ Decision(n, prompt).action = "branch"
                      /\ CanAdmit(NoSlice, Project(prompt, Decision(n, prompt).tier))
    BY DEF BranchFindsRoom
  <2> DEFINE second == Decide(n, NoSlice, prompt, Requested[n])
             F == Fitting(NoSlice, prompt, Requested[n])
  <2>1. /\ ~CallCeilingReached(n) /\ ~PressureAtLeast(RefuseAt)
        /\ RoomForCheapest(prompt)
    BY DEF Decide, Refusal
  <2>2. Requested[n] \in Nat
    BY GatewayAssumption, PolicyAssumption, SMT DEF Tiers
  <2>3. 0 \in 0..StartTier(Requested[n])
    BY <2>2, SMT DEF StartTier
  <2>4. 0 \in F
    BY <2>1, <2>3 DEF Fitting, RoomForCheapest, CanAdmit, WithinSlice, NoSlice
  <2>5. second.action # "refuse" /\ second = [action |-> second.action, tier |-> second.tier]
    BY <2>1, <2>4 DEF Decide
  <2>6. Decision(n, prompt) = [second EXCEPT !.action = "branch"]
    BY <2>5 DEF Decision
  <2>7. Decision(n, prompt).action = "branch" /\ Decision(n, prompt).tier = second.tier
    BY <2>5, <2>6
  <2>8. Admissible(n, prompt, second)
    BY <2>5, DecideAdmits, GatewayAssumption DEF TypeOK
  <2> QED  BY <2>7, <2>8 DEF Admissible, CanAdmit, WithinSlice, NoSlice
<1> QED  BY <1>1, TypeCorrect, PTL
=============================================================================

---------------------------- MODULE BudgetPolicy ----------------------------
(***************************************************************************)
(* BudgetPolicy of economics/policy.py over the ladder of                  *)
(* economics/tiers.py and the prices of economics/pricing.py.              *)
(*                                                                         *)
(* A tier is its rank, 0 the cheapest.  A prompt is known by what its      *)
(* input costs at each tier; what a call costs is that plus the price of   *)
(* the output tokens, of which the request admits at most max_tokens.      *)
(***************************************************************************)
EXTENDS RunBudget

CONSTANTS
  TopTier,       \* rank of the most capable tier
  Prompts,       \* what may be sent
  InputCost,     \* [Prompts -> [tiers -> cost of the estimated input]]
  TokenPrice,    \* [tiers -> price of an output token]
  MaxTokens,     \* [tiers -> the tier's max_tokens]
  DowngradeAt, RefuseAt,              \* percent
  MaxCallsPerRun, MaxCallsPerNode     \* 0: no ceiling

Tiers == 0..TopTier

ASSUME PolicyAssumption ==
  /\ TopTier \in Nat
  /\ InputCost \in [Prompts -> [Tiers -> Nat]]
  /\ TokenPrice \in [Tiers -> Nat]
  /\ MaxTokens \in [Tiers -> Nat]
  /\ DowngradeAt \in 0..100 /\ RefuseAt \in 0..100
  /\ MaxCallsPerRun \in Nat /\ MaxCallsPerNode \in Nat

VARIABLE calls \* len(budget.charges)

(* project: the worst case of a call at a tier, by its max_tokens. *)
Project(prompt, tier) ==
  InputCost[prompt][tier] + MaxTokens[tier] * TokenPrice[tier]

\* Mutant of CallCeilingReached: only the ceiling of the node is looked at.
NodeCeilingReached(n) == MaxCallsPerNode > 0 /\ nodeCalls[n] >= MaxCallsPerNode

\* Mutant of CallCeilingReached: only the ceiling of the run is looked at.
RunCeilingReached(n) == MaxCallsPerRun > 0 /\ calls >= MaxCallsPerRun

CallCeilingReached(n) ==
  \/ MaxCallsPerRun > 0 /\ calls >= MaxCallsPerRun
  \/ MaxCallsPerNode > 0 /\ nodeCalls[n] >= MaxCallsPerNode

(* Under pressure the walk down the ladder starts one rung lower. *)
StartTier(requested) ==
  IF PressureAtLeast(DowngradeAt) /\ requested > 0 THEN requested - 1
                                                   ELSE requested

Fitting(slice, prompt, requested) ==
  {t \in 0..StartTier(requested) : CanAdmit(slice, Project(prompt, t))}

Refusal == [action |-> "refuse", tier |-> 0]

\* Mutant of RoomForCheapest: the headroom is forgotten.
RoomWithoutHeadroom(prompt) == Project(prompt, 0) <= Remaining

(* The run holds the cheapest rung: re-plan rather than refuse. *)
RoomForCheapest(prompt) == WithinRun(Project(prompt, 0))

(* decide for caller n, whose slice is passed: _decide calls it twice. *)
Decide(n, slice, prompt, requested) ==
  LET fitting == Fitting(slice, prompt, requested)
      best == CHOOSE t \in fitting : \A u \in fitting : u <= t
  IN  IF CallCeilingReached(n) \/ PressureAtLeast(RefuseAt) THEN Refusal
      ELSE IF fitting # {}
           THEN [action |-> IF best = requested THEN "proceed" ELSE "downgrade",
                 tier |-> best]
      ELSE IF RoomForCheapest(prompt) THEN [action |-> "branch", tier |-> 0]
      ELSE Refusal
=============================================================================

------------------------------- MODULE Budget -------------------------------
(***************************************************************************)
(* What the budget promises: the properties of BudgetedGateway.            *)
(***************************************************************************)
EXTENDS BudgetedGateway

CONSTANT CostBound \* no admitted call is projected to cost more

ASSUME CostBoundAssumption ==
  /\ CostBound \in Nat
  /\ \A prompt \in Prompts, t \in Tiers : Project(prompt, t) <= CostBound

(* The type invariant. *)
TypeOK ==
  /\ spent \in Nat
  /\ reservations \in [Callers -> [amount : Nat, share : Nat]]
  /\ nodeCalls \in [Callers -> Nat]
  /\ calls \in Nat
  /\ stage \in [Nodes -> {"new", "open", "gone"}]
  /\ call \in [Callers -> {NoCall} \cup
                         [action : {"proceed", "downgrade", "branch"},
                          tier : Tiers, prompt : Prompts]]

(* "No run exceeds its ceiling" (controller.py).  Kept while calls are     *)
(* made one at a time and no request brings a max_tokens of its own.       *)
CeilingHolds == spent <= Total

(* What the controller does guarantee with calls side by side: at most one *)
(* call's worst case too much for each other call that may be in flight,   *)
(* and the headroom still counts.                                          *)
OvershootBounded ==
  100 * spent <= (100 - HeadroomPct) * Total + 100 * (MaxInFlight - 1) * CostBound

(* A charged call was admitted before the ceiling, so side by side at most *)
(* the other calls in flight come on top of it.                            *)
CallOvershootBounded ==
  MaxCallsPerRun > 0 => calls <= MaxCallsPerRun + MaxInFlight - 1

(* One node makes one call at a time, so its own ceiling holds exactly.    *)
NodeCallCeilingHolds ==
  MaxCallsPerNode > 0 => \A n \in Callers : nodeCalls[n] <= MaxCallsPerNode

(* A branch, once applied, is never a refusal nor a second branch: what    *)
(* fits the run at the cheapest rung fits a caller without a slice.        *)
BranchFindsRoom ==
  \A n \in Callers, prompt \in Prompts :
    Decide(n, reservations[n], prompt, Requested[n]).action = "branch" =>
      Decision(n, prompt).action = "branch"
        /\ CanAdmit(NoSlice, Project(prompt, Decision(n, prompt).tier))

=============================================================================

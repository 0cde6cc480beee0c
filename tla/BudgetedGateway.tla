-------------------------- MODULE BudgetedGateway --------------------------
(***************************************************************************)
(* BudgetedGateway of economics/controller.py: the seam every model call   *)
(* of a budgeted run goes through, with BudgetAwarePlanner of              *)
(* economics/policy.py re-dividing the allowance beside it.                *)
(*                                                                         *)
(* complete() decides without an await, then awaits the transport, then    *)
(* charges.  Each node is its own asyncio task and the planner may call    *)
(* too (as "unattributed"), so several calls are between the decision and  *)
(* the charge at once; nothing in the budget stands for them.              *)
(***************************************************************************)
EXTENDS BudgetPolicy

CONSTANTS
  Nodes,         \* the callers that are graph nodes; others: the planner
  Requested,     \* [Callers -> the tier its role asks for]
  Overriding,    \* callers whose requests bring their own max_tokens
  OverrideTokens,\* that max_tokens (compose_surface: 4000)
  MaxInFlight    \* calls that may be in flight: workers, plus the planner

ASSUME GatewayAssumption ==
  /\ Nodes \subseteq Callers
  /\ Requested \in [Callers -> Tiers]
  /\ Overriding \subseteq Callers
  /\ OverrideTokens \in Nat
  /\ MaxInFlight \in Nat \ {0}

VARIABLES
  stage,  \* "new", "open" or "gone": open nodes are on the frontier
  call    \* the call each caller awaits, or NoCall

vars == <<ledger, calls, stage, call>>

NoCall == [action |-> "none", tier |-> 0, prompt |-> "none"]

InFlight == {n \in Callers : call[n] # NoCall}

(* request_for: the tier's request with the caller's overrides on top. *)
TokenCeiling(n, tier) ==
  IF n \in Overriding THEN OverrideTokens ELSE MaxTokens[tier]

(* What a provider that honours max_tokens may bill at most. *)
WorstCost(n, prompt, tier) ==
  InputCost[prompt][tier] + TokenCeiling(n, tier) * TokenPrice[tier]

(* _decide: a branch drops the caller's slice and decides again. *)
Decision(n, prompt) ==
  LET first  == Decide(n, reservations[n], prompt, Requested[n])
      second == Decide(n, NoSlice, prompt, Requested[n])
  IN  IF first.action # "branch" THEN first
      ELSE IF second.action = "refuse" THEN second
      ELSE [second EXCEPT !.action = "branch"]

Released(n, prompt) ==
  IF Decide(n, reservations[n], prompt, Requested[n]).action = "branch"
  THEN [reservations EXCEPT ![n] = NoSlice] ELSE reservations

-----------------------------------------------------------------------------

Init ==
  /\ LedgerInit
  /\ calls = 0
  /\ stage = [n \in Nodes |-> "new"]
  /\ call = [n \in Callers |-> NoCall]

(* BudgetAwarePlanner.plan, after the inner planner has answered (so that  *)
(* no call of the planner itself is in flight).  The frontier is what the  *)
(* snapshot it was given and its patch say, _frontier: nodes are added and *)
(* leave it, and task ids are never used twice.  Calls in flight are       *)
(* neither looked at nor subtracted.  A node that leaves was cancelled by  *)
(* the patch, or has ended: if it was awaiting the transport its coroutine *)
(* is cancelled there, and the call is never charged.                      *)
Frontier == {n \in Nodes : stage'[n] = "open"}

PlanRound ==
  /\ \A n \in Callers \ Nodes : call[n] = NoCall
  /\ stage' \in [Nodes -> {"new", "open", "gone"}]
  /\ \A n \in Nodes : /\ stage[n] = "open" => stage'[n] # "new"
                      /\ stage[n] = "new" => stage'[n] # "gone"
                      /\ stage[n] = "gone" => stage'[n] = "gone"
  /\ Allocate(Frontier)
  /\ call' = [n \in Callers |-> IF n \in Nodes \ Frontier THEN NoCall ELSE call[n]]
  /\ UNCHANGED calls

MayCall(n) ==
  /\ n \in Nodes => stage[n] = "open"
  /\ call[n] = NoCall
  /\ Cardinality(InFlight) < MaxInFlight

(* complete() up to the await, admitted. *)
Admit(n, prompt) ==
  LET d == Decision(n, prompt)
  IN  /\ MayCall(n)
      /\ d.action # "refuse"
      /\ reservations' = Released(n, prompt)
      /\ call' = [call EXCEPT ![n] = [action |-> d.action, tier |-> d.tier,
                                      prompt |-> prompt]]
      /\ UNCHANGED <<spent, nodeCalls, calls, stage>>

(* complete() raises BudgetRefused; only the refusal log grows. *)
Refuse(n, prompt) ==
  /\ MayCall(n)
  /\ Decision(n, prompt).action = "refuse"
  /\ reservations' = Released(n, prompt)
  /\ UNCHANGED <<spent, nodeCalls, calls, stage, call>>

(* The transport answers: the call is charged for what it used. *)
Answer(n) ==
  /\ call[n] # NoCall
  /\ \E cost \in 0..WorstCost(n, call[n].prompt, call[n].tier) : Charge(n, cost)
  /\ calls' = calls + 1
  /\ call' = [call EXCEPT ![n] = NoCall]
  /\ UNCHANGED stage

(* The transport raises: no charge. *)
Fail(n) ==
  /\ call[n] # NoCall
  /\ call' = [call EXCEPT ![n] = NoCall]
  /\ UNCHANGED <<ledger, calls, stage>>

Call(n) ==
  \/ \E prompt \in Prompts : Admit(n, prompt) \/ Refuse(n, prompt)
  \/ Answer(n)
  \/ Fail(n)

Next == PlanRound \/ \E n \in Callers : Call(n)

Spec == Init /\ [][Next]_vars
=============================================================================

------------------------------ MODULE MCBudget ------------------------------
(* Instances of the budget for TLC. *)
EXTENDS Budget

CONSTANTS research, answer, planner

MCCallers == {research, answer, planner}
MCNodes == {research, answer}
MCPrompts == {"short", "long"}
MCInputCost == [prompt \in MCPrompts |->
                  IF prompt = "short" THEN <<0, 1, 1>> ELSE <<1, 2, 3>>]
MCCost == [prompt \in MCPrompts |-> [t \in 0..2 |-> MCInputCost[prompt][t + 1]]]
MCTokenPrice == [t \in 0..2 |-> t + 1]
MCMaxTokens == [t \in 0..2 |-> 1]
MCRequested == [n \in MCCallers |-> IF n = planner THEN 1 ELSE 2]
MCNone == {}
=============================================================================

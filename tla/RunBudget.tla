----------------------------- MODULE RunBudget -----------------------------
(***************************************************************************)
(* RunBudget of economics/budget.py: the ledger of one run.                *)
(*                                                                         *)
(* Money is counted in whole units and a fraction in percent, so that      *)
(* every comparison of the code is an exact one on integers; a slice of    *)
(* the allowance is kept as the pair of what was divided and by how many.  *)
(* The audit fields of a charge (provider, latency, tokens...) are left    *)
(* out.                                                                    *)
(***************************************************************************)
EXTENDS Integers, FiniteSets

CONSTANTS
  Callers,  \* graph nodes, and "unattributed" for calls outside any node
  Total,    \* RunBudget.total
  ReservePct, HeadroomPct \* reserve_fraction, headroom_fraction

ASSUME BudgetAssumption ==
  /\ IsFiniteSet(Callers)
  /\ Total \in Nat
  /\ ReservePct \in 0..99
  /\ HeadroomPct \in 0..99

VARIABLES
  spent,        \* RunBudget.spent
  reservations, \* the slice of each caller, share 0 when it has none
  nodeCalls     \* calls_by_node: the charges of each caller

ledger == <<spent, reservations, nodeCalls>>

NoSlice == [amount |-> 0, share |-> 0]

Remaining == IF spent < Total THEN Total - spent ELSE 0

(* pressure >= pct, where pressure is min(1, spent / total) *)
PressureAtLeast(pct) == 
  (IF spent < Total THEN spent ELSE Total) * 100 >= pct * Total

\* Mutant of Spendable: the reserve is subtracted without a floor.
SpendableWithoutFloor == 100 * Remaining - ReservePct * Total

Spendable ==
  LET free == 100 * Remaining - ReservePct * Total
  IN  IF free > 0 THEN free ELSE 0

Slices(nodes) ==
  [n \in Callers |-> IF n \in nodes
                     THEN [amount |-> Spendable, share |-> Cardinality(nodes)]
                     ELSE NoSlice]

(* allowance(node) admits cost: within the slice, if there is one.  That   *)
(* it is also within the remainder is the other half of can_admit.         *)
WithinSlice(slice, cost) ==
  slice.share = 0 \/ 100 * cost * slice.share <= slice.amount

\* Mutant of WithinRun: the call is held against the total, not the remainder.
WithinTotal(cost) == 100 * cost <= 100 * Total - HeadroomPct * Total

WithinRun(cost) == 100 * cost <= 100 * Remaining - HeadroomPct * Total

\* Mutant of CanAdmit: a caller's own slice is all that is looked at.
AdmitWithinSlice(slice, cost) == WithinSlice(slice, cost)

CanAdmit(slice, cost) == WithinRun(cost) /\ WithinSlice(slice, cost)

-----------------------------------------------------------------------------

LedgerInit ==
  /\ spent = 0
  /\ reservations = [n \in Callers |-> NoSlice]
  /\ nodeCalls = [n \in Callers |-> 0]

(* allocate: every reservation is replaced. *)
Allocate(nodes) ==
  /\ reservations' = Slices(nodes)
  /\ UNCHANGED <<spent, nodeCalls>>

(* charge: the only place spent moves.  The caller's slice stays as it is. *)
Charge(n, cost) ==
  /\ spent' = spent + cost
  /\ nodeCalls' = [nodeCalls EXCEPT ![n] = @ + 1]
  /\ UNCHANGED reservations
=============================================================================

----------------------------- MODULE Evaluation -----------------------------
(* What the cost-per-resolved-task evaluation must keep true. *)
EXTENDS CostPerTask

Attempts == (UNION {ToSet(rows[i].attempts) : i \in DOMAIN rows}) \cup ToSet(attempts)

(* "An unparseable verdict is a JUDGE failure, never a task outcome", and  *)
(* "an empty or errored answer is unresolved without a call" (judge.py):   *)
(* a verdict is a task outcome exactly when a judge graded the answer or   *)
(* there was none, and only a graded answer is resolved, the verdict being *)
(* fresh or remembered.                                                    *)
OutcomesAreGraded ==
  \A a \in Attempts :
    LET nothing == a.error # "" \/ a.answer = Empty
    IN  /\ a.verdict.status = "judge_failed" <=> (~nothing /\ a.verdict.usable = 0)
        /\ nothing => a.verdict.status = "unresolved" /\ a.verdict.usable = 0

(* "Every answering provider call that returned is metered" (the proof's   *)
(* check): the transport's count is the charges of all rows.  And the      *)
(* judge's own meter is what the verdicts on the desk cost, each bought    *)
(* once, and the samples under way, read or not ("LLM-as-judge is not      *)
(* free; report it").                                                      *)
CallsAreMetered ==
  LET charged == Cardinality({k \in DOMAIN attempts : attempts[k].charged # 0})
      pending == IF reply.charged # 0 THEN 1 ELSE 0
  IN  /\ calls = charged + pending +
           SumFunction([i \in DOMAIN rows |-> Cardinality(Charged(rows[i]))])
      /\ meter.calls = Called + SumFunction([k \in DOMAIN desk |-> desk[k].calls])

(* "The aggregate can only move if individual tasks moved" (divergences):  *)
(* the tasks B and another strategy disagree on account for the whole      *)
(* difference of what they resolved.  And break_even_resolution_rate: in   *)
(* the regime it is derived for (a resolved task cost one call, any other  *)
(* one all the attempts), where B is cheaper per call it is dearer per     *)
(* resolved task exactly below the rate.                                   *)
FirstOrder(i) ==
  Cardinality(Charged(rows[i])) = IF Resolved(rows[i]) THEN 1 ELSE Strategy("B").attempts

FindingFollowsFromTasks ==
  phase = "over" /\ "B" \in ToSet(Chosen) =>
    \A key \in ToSet(Chosen) \ {"B"} :
      LET cheap == Summary("B")
          dear  == Summary(key)
          found == Finding(cheap, dear, Strategy("B").attempts)
      IN  /\ cheap.resolved - dear.resolved =
               Cardinality(Divergent("B", key)) - Cardinality(Divergent(key, "B"))
          /\ (found.cheaper /\ cheap.resolved > 0 /\ dear.resolved > 0
                /\ \A i \in RowsOf("B") : FirstOrder(i)) =>
               (found.dearer <=> found.below)

=============================================================================

---------------------------- MODULE MCEvaluation ----------------------------
(* An instance of the evaluation: two criteria, one of them for tasks with *)
(* an expectation; two judges; two tasks, of which the second has one.     *)
EXTENDS Evaluation

MCCriteria == {"sound", "expected"}
MCWeight == [c \in MCCriteria |-> IF c = "sound" THEN 1 ELSE 2]
MCNeeds == {"expected"}
MCPanel == <<"judge", "second">>
(* Good, good on one criterion only, and beyond the scale on both sides. *)
MCReplies == {[c \in MCCriteria |-> 3], [c \in MCCriteria |-> IF c = "sound" THEN 3 ELSE 0],
              [c \in MCCriteria |-> IF c = "sound" THEN -9 ELSE 5]}
MCTasks == <<"t1", "t2">>
MCExpected == {"t2"}
MCAnswers == {"", "x"}
MCChosen == <<"B", "C">>
MCPrice == [t \in 1..2 |-> IF t = 1 THEN 2 ELSE 3]
=============================================================================

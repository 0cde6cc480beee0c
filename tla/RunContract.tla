---------------------------- MODULE RunContract ----------------------------
(***************************************************************************)
(* What a run promises to whoever reads it, whatever crashes, resumes and  *)
(* cancellations happen underneath: a task is accepted once and settles or *)
(* is dropped once; each settled task, and the start of the run, gets at   *)
(* most one decision of the planner; a decision may accept tasks, drop     *)
(* them and close the run; and a closed run leaves no task open and never  *)
(* changes again.                                                          *)
(***************************************************************************)
EXTENDS Integers

CONSTANTS Tasks

VARIABLES opened, closed, task, decided

vars == <<opened, closed, task, decided>>

Start == 0   \* stands for the start of the run among the planner's triggers

Decidable == {e \in Tasks \cup {Start} :
                IF e \in Tasks THEN task[e] = "settled" ELSE opened}

Init ==
  /\ opened = FALSE /\ closed = FALSE
  /\ task = [n \in Tasks |-> "unknown"]
  /\ decided = {}

OpenRun == ~opened /\ opened' = TRUE /\ UNCHANGED <<closed, task, decided>>

Settle(n) ==
  /\ ~closed /\ task[n] = "open"
  /\ task' = [task EXCEPT ![n] = "settled"]
  /\ UNCHANGED <<opened, closed, decided>>

Decide(e) ==
  /\ ~closed
  /\ e \in Decidable \ decided
  /\ decided' = decided \cup {e}
  /\ task' \in [Tasks -> {"unknown", "open", "settled", "dropped"}]
  /\ \A n \in Tasks :
       \/ task'[n] = task[n]
       \/ task[n] = "unknown" /\ task'[n] \in {"open", "dropped"}
       \/ task[n] = "open" /\ task'[n] = "dropped"
  /\ closed' \in BOOLEAN
  /\ closed' => \A n \in Tasks : task'[n] # "open"
  /\ UNCHANGED opened

Next ==
  \/ OpenRun
  \/ \E n \in Tasks : Settle(n)
  \/ \E e \in Tasks \cup {Start} : Decide(e)

Spec == Init /\ [][Next]_vars
=============================================================================

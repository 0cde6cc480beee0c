------------------------------- MODULE Remote -------------------------------
(***************************************************************************)
(* What the A2A task core and its bridge to the live graph promise.        *)
(***************************************************************************)
EXTENDS GraphBridge

(* A task that ended stays as it ended, whatever job, restart or second    *)
(* request comes later.  The one exception the code has: _complete of a    *)
(* request that waited for the handler while the task was cancelled.       *)
EndedStaysEnded ==
  [][\A t \in Tasks : task[t] \in TERMINAL /\ task'[t] # task[t] =>
       task[t] = "canceled" /\ pc[t]["request"] = "handler"]_vars

(* Idempotent push delivery: a webhook receives one change at most         *)
(* push_attempts times, and never again once it was acknowledged, so a     *)
(* change with an acknowledged delivery was received.                      *)
DeliveriesBounded ==
  \A t \in Tasks, e \in 1..MaxRev :
    LET got == Cardinality({i \in DOMAIN inbox[t] : inbox[t][i] = e})
    IN  /\ got <= ledger[t][e].attempts
        /\ ledger[t][e].attempts <= PushAttempts
        /\ ledger[t][e].delivered =>
             /\ got >= 1
             /\ \A c \in Coroutines : pc[t][c] = "post" => event[t][c] # e

(* Every task ends, through restarts, unless the client of the request     *)
(* that had to complete it went away: then it waits for the next restart.  *)
TasksEnd == \A t \in Tasks : (task[t] \in Unfinished /\ drops = 0) ~>
                             (task[t] \in TERMINAL \/ drops > 0)

(* A completion in the journal was applied, is about to be, or found a     *)
(* node that no longer waited, and apply_patch never refuses it; and       *)
(* result_skill finds the result its node was resumed for.  Only a crash   *)
(* of the graph's process leaves a completion that nobody applies, between *)
(* the two transactions of dispatch_waiting, or loses the result that the  *)
(* journal promised.                                                       *)
CompletionsAreApplied ==
  /\ \A i \in DOMAIN journal, n \in Nodes :
       Row("a2a_task_completed", n) \in journal[i] =>
         \/ i \in patched \/ state[n] # "waiting" \/ graphCrashes > 0
         \/ \E t \in Tasks : at[t] = "journalled" /\ trigger[t] = i
  /\ \A t \in Tasks : at[t] # "refused"
  /\ \A n \in Nodes : state[n] = "failed" => graphCrashes > 0
=============================================================================

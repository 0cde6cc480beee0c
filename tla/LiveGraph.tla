----------------------------- MODULE LiveGraph -----------------------------
(***************************************************************************)
(* What the live graph promises: the properties of LiveGraphExecutor.      *)
(***************************************************************************)
EXTENDS LiveGraphExecutor

JournalRow ==
  [kind : PlannerKinds \cup {"run_resumed", "task_started", "task_cancelled",
                            "graph_patched"},
   node : Nodes \cup {NoNode}, trigger : Nat]

(* The type invariant of the store and of the invocations. *)
StoreTypeOK ==
  /\ known \in BOOLEAN /\ finished \in BOOLEAN
  /\ state \in [Nodes -> {"absent"} \cup NodeState]
  /\ edges \subseteq Nodes \X Nodes
  /\ journal \in Seq(SUBSET JournalRow)
  /\ patched \subseteq DOMAIN journal

TypeOK ==
  /\ StoreTypeOK
  /\ pc \in [Invocations -> PC]
  /\ fut \in [Invocations -> [Futures -> Future]]
  /\ batch \in [Invocations -> SUBSET Futures]
  /\ queue \in [Invocations -> SUBSET DOMAIN journal]
  /\ executed \in [Invocations -> Nat]

-----------------------------------------------------------------------------
(* Journal rows of a kind for a node: the transactions that hold one. *)
RowsOf(kinds, n) ==
  {i \in DOMAIN journal : \E r \in journal[i] : r.kind \in kinds /\ r.node = n}

OutcomeKinds == {"task_succeeded", "task_failed"}

(* "Finish is a durable cancellation boundary" (store.py, apply_patch):    *)
(* once a run is finished none of its nodes is pending, waiting or         *)
(* running, whatever crashed or was resumed before or after.               *)
FinishedIsQuiescent == finished => \A n \in Nodes : state[n] \notin Open

(* The journal and the materialised state agree on what ended: a node has  *)
(* at most one outcome row, in the journal of every process that worked on *)
(* the run, and has one exactly when it is succeeded or failed.  So a      *)
(* resumed run never repeats, nor loses, what an earlier one completed.    *)
OutcomesMatchState ==
  \A n \in Nodes :
    /\ \A i, j \in RowsOf(OutcomeKinds, n) : i = j
    /\ state[n] = "succeeded" <=> RowsOf({"task_succeeded"}, n) # {}
    /\ state[n] = "failed" <=> RowsOf({"task_failed"}, n) # {}

(* Outcomes and patches are separate transactions made exactly-once by     *)
(* trigger_event: an event has a graph_patched row exactly when it has a   *)
(* patches row, it has one at most, and only planner events that precede   *)
(* the row have any.                                                       *)
OnePatchPerEvent ==
  LET applied(t) == {i \in DOMAIN journal : PatchRow(t) \in journal[i]}
  IN  /\ patched \subseteq PlannerEvents
      /\ \A t \in DOMAIN journal :
           /\ t \in patched <=> applied(t) # {}
           /\ \A i, j \in applied(t) : i = j /\ t < i

(* The store and the loop agree on what is running: a node is recorded as  *)
(* running while its invocation holds a coroutine for it that was not told *)
(* to stop, and a coroutine runs only for a node recorded as running.      *)
RunningIsHeld ==
  \A i \in Invocations : pc[i] \in Active =>
    /\ \A t \in Futures : fut[i][t] = "live" => state[t[1]] = "running"
    /\ \A n \in Nodes : state[n] = "running" =>
         \E t \in {n} \X Invocations : fut[i][t] \in {"live", "ok", "error"}

(* "Its late result is intentionally discarded" (core.py, run): a result   *)
(* that comes after the graph cancelled its node never ends the run with a *)
(* GraphMutationError.                                                     *)
LateResultNeverAborts == \A i \in Invocations : pc[i] # "refused"

(* A node that ran found all its parents succeeded, and they stay so: no   *)
(* crash, resume or cancellation takes the ground from under a result.     *)
(* Patches that connect a node which is already there are left out here.   *)
StartedAfterParents ==
  \A e \in edges :
    state[e[2]] \in {"running", "succeeded", "failed"} => state[e[1]] = "succeeded"

(* A call of run() that comes back, not stopped by max_completed, has      *)
(* nothing left it could do: the run is finished, or every planner event   *)
(* is patched, no node is recorded as running and none is ready.           *)
ReturnLeavesNothingToDo ==
  [][\A i \in Invocations :
       pc[i] # "returned" /\ pc'[i] = "returned" /\ executed'[i] < MaxCompleted =>
         \/ finished'
         \/ /\ PendingPlannerEvents' = {}
            /\ \A n \in Nodes : state'[n] # "running"
            /\ Runnable' = {}]_vars

(* "The optional test stop never leaves an unjournalled coroutine behind:  *)
(* launch capacity above prevented extra work" (core.py, run): the         *)
(* outcomes a call executed and the futures it holds, two of one node that *)
(* was launched again after an overlapping resume included, are            *)
(* max_completed at most, and a call that returns holds none.              *)
StopLeavesNothingBehind ==
  \A i \in Invocations :
    /\ executed[i] <= MaxCompleted
    /\ pc[i] \in Active => executed[i] + Cardinality(Held(i)) <= MaxCompleted
    /\ pc[i] = "returned" => Held(i) = {}

(* Every call of run() ends, whatever the planner answers: each event is   *)
(* planned once, so a planner cannot keep a run busy for ever.             *)
InvocationEnds ==
  \A i \in Invocations : pc[i] \in Active ~> pc[i] \in Ended

-----------------------------------------------------------------------------
(* The contract a run keeps.  Pending, running and waiting are one state   *)
(* to it, so starting, parking, crashing and resuming are invisible.       *)
Progress(s) ==
  CASE s = "absent" -> "unknown"
    [] s \in Open -> "open"
    [] s \in {"succeeded", "failed"} -> "settled"
    [] s = "cancelled" -> "dropped"

DecidedEvents ==
  {n \in Nodes \cup {NoNode} : RowsOf(PlannerKinds, n) \cap patched # {}}

Contract == INSTANCE RunContract WITH
  Tasks <- Nodes, opened <- known, closed <- finished,
  task <- [n \in Nodes |-> Progress(state[n])], decided <- DecidedEvents

(* The executor over its store implements the contract. *)
KeepsContract == Contract!Spec

=============================================================================

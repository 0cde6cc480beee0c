---------------------------- MODULE GraphBridge ----------------------------
(***************************************************************************)
(* A2AGraphBridge of core/a2a/official.py: a waiting node of the live      *)
(* graph is worked on by a task of the A2A server, in another process, and *)
(* resumed when a subscription to that task ends.                          *)
(*                                                                         *)
(* A call of dispatch_waiting is named by the remote task it starts.  Its  *)
(* two transactions, the external event and the patch, have no await in    *)
(* between: only a crash of the graph's process can separate them.         *)
(***************************************************************************)
EXTENDS GraphStore, TaskServer

CONSTANTS
  MaxFaults,       \* bound: crashes, of either process, and dropped requests
  MaxClientTasks,  \* bound: tasks created by other clients than the bridge
  Mixed            \* bound: do they and the bridge share one behaviour?

ASSUME BridgeAssumption == /\ MaxFaults \in Nat /\ MaxClientTasks \in Nat
                           /\ Mixed \in BOOLEAN

VARIABLES
  at,           \* where the dispatch of a remote task is
  target,       \* the node it works for
  trigger,      \* the external event it journalled
  remote_ids,   \* the remote task of a node
  results,      \* the last snapshot of it, "none" before
  runner,       \* the executor that runs the resumed node
  decision,     \* the caller's journalled decision to cancel the run
  graphCrashes

bridge == <<at, target, trigger, remote_ids, results, runner, decision, graphCrashes>>
vars   == <<store, server, bridge>>

NoTask == "no task"
NoRun  == [at |-> "idle", node |-> NoNode]

(* A run that a planner parked: every node was added and told to wait.     *)
GraphInit ==
  /\ known = TRUE /\ finished = FALSE
  /\ state = [n \in Nodes |-> "waiting"]
  /\ edges = {}
  /\ journal = <<{Row("run_started", NoNode)}, {PatchRow(1)}>>
  /\ patched = {1}

Init ==
  /\ GraphInit /\ ServerInit
  /\ at = [t \in Tasks |-> "idle"]
  /\ target = [t \in Tasks |-> NoNode]
  /\ trigger = [t \in Tasks |-> 0]
  /\ remote_ids = [n \in Nodes |-> NoTask]
  /\ results = [n \in Nodes |-> "none"]
  /\ runner = NoRun
  /\ decision = 0
  /\ graphCrashes = 0

(* record_external_event *)
RecordExternalEvent(row) ==
  /\ known
  /\ Commit({row})
  /\ UNCHANGED <<known, finished, state, edges, patched>>

NoPatch == [add |-> {}, connect |-> {}, cancel |-> {}, wait |-> {}, resume |-> {},
            finish |-> FALSE]

Dispatched  == {t \in Tasks : target[t] # NoNode}
ClientTasks == {t \in Tasks : task[t] # "absent"} \ Dispatched

(* Nothing else of the graph's process moves between the two transactions. *)
GraphFree == \A t \in Tasks : at[t] # "journalled"

-----------------------------------------------------------------------------
(* dispatch_waiting up to remote.start; the official message carries no    *)
(* push configuration.                                                     *)
Dispatch(n, t) ==
  /\ GraphFree /\ state[n] = "waiting"
  /\ Mixed \/ ClientTasks = {}
  /\ \E k \in {"send", "async"} : Send(t, k, FALSE)
  /\ at' = [at EXCEPT ![t] = "starting"]
  /\ target' = [target EXCEPT ![t] = n]
  /\ UNCHANGED <<store, trigger, remote_ids, results, runner, decision, graphCrashes>>

(* remote.start returned, the subscription is opened. *)
StartReturns(t) ==
  /\ GraphFree
  /\ at[t] = "starting" /\ pc[t]["request"] = "idle"
  /\ remote_ids' = [remote_ids EXCEPT ![target[t]] = t]
  /\ at' = [at EXCEPT ![t] = "waiting"]
  /\ Subscribe(t)
  /\ UNCHANGED <<store, target, trigger, results, runner, decision, graphCrashes>>

(* The subscription ended: its last snapshot is the result, and the event  *)
(* is journalled.                                                          *)
Joined(t) ==
  /\ GraphFree
  /\ at[t] = "waiting" /\ pc[t]["subscriber"] = "ended"
  /\ results' = [results EXCEPT ![target[t]] = snapshot[t]]
  /\ RecordExternalEvent(Row("a2a_task_completed", target[t]))
  /\ trigger' = [trigger EXCEPT ![t] = Len(journal')]
  /\ at' = [at EXCEPT ![t] = "journalled"]
  /\ UNCHANGED <<server, target, remote_ids, runner, decision, graphCrashes>>

\* Mutant of StillWaiting: only a node nobody cancelled meanwhile, but not
\* one that waits, is resumed.
StillPending(n) == state[n] = "pending"

StillWaiting(n) == state[n] = "waiting"

(* The second half: resume the node, if it still waits. *)
ResumeNode(t) ==
  LET n == target[t]
      p == [NoPatch EXCEPT !.resume = {n}]
  IN  /\ at[t] = "journalled"
      /\ IF ~StillWaiting(n) THEN at' = [at EXCEPT ![t] = "idle"] /\ UNCHANGED store
         ELSE IF Accepts(p)
         THEN at' = [at EXCEPT ![t] = "idle"] /\ CommitPatch(p, trigger[t])
         ELSE at' = [at EXCEPT ![t] = "refused"] /\ UNCHANGED store
      /\ UNCHANGED <<server, target, trigger, remote_ids, results, runner, decision,
                     graphCrashes>>

-----------------------------------------------------------------------------
(* The executor takes up a node that became pending: resume, mark_running, *)
(* and result_skill, which fails when the result is not in memory.         *)
TakeUp(n) ==
  /\ GraphFree /\ runner = NoRun
  /\ state[n] \in {"pending", "running"} /\ ~finished
  /\ Resume
  /\ runner' = [at |-> "fill", node |-> n]
  /\ UNCHANGED <<server, at, target, trigger, remote_ids, results, decision, graphCrashes>>

Launch ==
  /\ GraphFree /\ runner.at = "fill"
  /\ MarkRunning({runner.node})
  /\ runner' = [runner EXCEPT !.at = "skill"]
  /\ UNCHANGED <<server, at, target, trigger, remote_ids, results, decision, graphCrashes>>

ResultSkill ==
  /\ GraphFree /\ runner.at = "skill"
  /\ RecordOutcome(runner.node, results[runner.node] # "none")
  /\ runner' = NoRun
  /\ UNCHANGED <<server, at, target, trigger, remote_ids, results, decision, graphCrashes>>

-----------------------------------------------------------------------------
(* The caller gives the run up: it journals its decision, cancels the node *)
(* with it, and tells the remote task.                                     *)
Decide ==
  /\ GraphFree /\ decision = 0 /\ ~finished
  /\ RecordExternalEvent(Row("graph_cancel_requested", NoNode))
  /\ decision' = Len(journal')
  /\ UNCHANGED <<server, at, target, trigger, remote_ids, results, runner, graphCrashes>>

CancelGraph ==
  /\ GraphFree /\ decision # 0 /\ decision \notin patched
  /\ CommitPatch([NoPatch EXCEPT !.cancel = {n \in Nodes : state[n] = "waiting"},
                                 !.finish = TRUE], decision)
  /\ runner' = NoRun
  /\ UNCHANGED <<server, at, target, trigger, remote_ids, results, decision, graphCrashes>>

(* cancel_node, whose call and whose journal row are one step here: nothing*)
(* reads the row.                                                          *)
CancelNode(n) ==
  /\ GraphFree /\ up /\ state[n] = "cancelled" /\ remote_ids[n] # NoTask
  /\ Cancel(remote_ids[n])
  /\ RecordExternalEvent(Row("a2a_task_cancelled", n))
  /\ UNCHANGED bridge

-----------------------------------------------------------------------------
(* The server stops: every call of its clients fails, and dispatch_waiting *)
(* with it.                                                                *)
ServerStops ==
  /\ Down
  /\ at' = [t \in Tasks |-> IF at[t] \in {"starting", "waiting"} THEN "idle" ELSE at[t]]
  /\ UNCHANGED <<store, target, trigger, remote_ids, results, runner, decision, graphCrashes>>

(* The graph's process dies; what the bridge knew was in memory only. *)
GraphCrash ==
  /\ graphCrashes' = graphCrashes + 1
  /\ at' = [t \in Tasks |-> "idle"]
  /\ remote_ids' = [n \in Nodes |-> NoTask]
  /\ results' = [n \in Nodes |-> "none"]
  /\ runner' = NoRun
  /\ UNCHANGED <<store, server, target, trigger, decision>>

(* What other clients of the server do. *)
Clients(t) ==
  \/ /\ Mixed \/ Dispatched = {}
     /\ Cardinality(ClientTasks) < MaxClientTasks
     /\ Create(t)
  \/ (Mixed \/ t \notin Dispatched) /\ (Cancel(t) \/ Subscribe(t))
  \/ at[t] = "idle" /\ \E c \in Coroutines : Drop(t, c)

Bridge ==
  \/ \E t \in Tasks : StartReturns(t) \/ Joined(t) \/ ResumeNode(t)
  \/ \E n \in Nodes : TakeUp(n)
  \/ Launch \/ ResultSkill

Server == (Boot \/ \E t \in Tasks : ServerStep(t) \/ SubscriberStep(t)) /\ UNCHANGED <<store, bridge>>

Next ==
  \/ \E n \in Nodes, t \in Tasks : Dispatch(n, t)
  \/ Bridge
  \/ Server
  \/ \E t \in Tasks : Clients(t) /\ UNCHANGED <<store, bridge>>
  \/ Decide \/ CancelGraph \/ \E n \in Nodes : CancelNode(n)
  \/ ServerStops \/ GraphCrash

Bounded == crashes + drops + graphCrashes <= MaxFaults

Spec == Init /\ [][Next /\ Bounded']_vars

(* The loop runs every coroutine, handlers return, a server that stopped   *)
(* is started again.  Clients, crashes and lost requests are not due.      *)
ServerFairness ==
  /\ WF_vars(Boot /\ UNCHANGED <<store, bridge>>)
  /\ \A t \in Tasks : /\ WF_vars(ServerStep(t) /\ UNCHANGED <<store, bridge>>)
                      /\ WF_vars(SubscriberStep(t) /\ UNCHANGED <<store, bridge>>)

FairSpec == Spec /\ ServerFairness /\ WF_vars(Bridge)
=============================================================================

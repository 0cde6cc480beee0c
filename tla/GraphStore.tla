----------------------------- MODULE GraphStore -----------------------------
(***************************************************************************)
(* The durable half of the live graph: GraphStore of                       *)
(* core/live_graph/store.py, for one run.                                  *)
(*                                                                         *)
(* Every method that writes runs inside one SQLite transaction             *)
(* ("with self.db"), so each is one action here, and a crash falls between *)
(* two of them.  The events table is a sequence of transactions: journal[i]*)
(* is the set of rows the i-th writing transaction inserted, and i stands  *)
(* for the sequence number of a row that was inserted alone, which the     *)
(* three kinds the planner is triggered by always are.                     *)
(*                                                                         *)
(* Task ids are replaced by their rank in the order the code sorts them    *)
(* in; skills, inputs, results and reasons are left out.                   *)
(***************************************************************************)
EXTENDS Integers, Sequences, FiniteSets

CONSTANTS
  Nodes,    \* the task ids a planner may use, as positive ranks
  Patches   \* the patches a planner may return

VARIABLES
  known,    \* the runs row exists
  finished, \* runs.finished
  state,    \* nodes.state, "absent" when there is no row
  edges,    \* the edges table, <<parent, child>>
  journal,  \* the events table, one set of rows per transaction
  patched   \* patches.trigger_event

store == <<known, finished, state, edges, journal, patched>>

Open     == {"pending", "running", "waiting"}
Terminal == {"succeeded", "failed", "cancelled"}
NodeState == Open \cup Terminal

NoNode == 0
Row(kind, n) == [kind |-> kind, node |-> n, trigger |-> 0]
PatchRow(t)  == [kind |-> "graph_patched", node |-> NoNode, trigger |-> t]

GraphPatch == [add : SUBSET Nodes, connect : SUBSET (Nodes \X Nodes),
               cancel : SUBSET Nodes, wait : SUBSET Nodes,
               resume : SUBSET Nodes, finish : BOOLEAN]

ASSUME NodesAssumption   == Nodes \subseteq Nat \ {0}
ASSUME PatchesAssumption == Patches \subseteq GraphPatch

Existing == {n \in Nodes : state[n] # "absent"}

(***************************************************************************)
(* The rows a planner is triggered by, and those whose patch has not been  *)
(* committed yet (pending_planner_events).                                 *)
(***************************************************************************)
PlannerKinds == {"run_started", "task_succeeded", "task_failed"}

PlannerEvents == {i \in DOMAIN journal :
                    \E r \in journal[i] : r.kind \in PlannerKinds}

PendingPlannerEvents == PlannerEvents \ patched

(***************************************************************************)
(* ready(limit): the first limit pending nodes, by id, that have no parent *)
(* in any state but succeeded.                                             *)
(***************************************************************************)
ParentsSucceeded(n) == \A e \in edges : e[2] = n => state[e[1]] = "succeeded"

Runnable == {n \in Nodes : state[n] = "pending" /\ ParentsSucceeded(n)}

\* Mutant of Ready: the dependency check is lost, a pending node is ready.
ReadyIgnoringParents(limit) ==
  LET pending == {n \in Nodes : state[n] = "pending"}
  IN  {n \in pending : Cardinality({m \in pending : m < n}) < limit}

Ready(limit) ==
  {n \in Runnable : Cardinality({m \in Runnable : m < n}) < limit}

(***************************************************************************)
(* A dependency cycle: some nodes each of which has a successor among      *)
(* them.  _has_cycle looks for one with a depth-first search.              *)
(***************************************************************************)
HasCycle(E) ==
  \E S \in SUBSET {e[1] : e \in E} :
    S # {} /\ \A n \in S : \E m \in S : <<n, m>> \in E

-----------------------------------------------------------------------------

StoreInit ==
  /\ known = FALSE
  /\ finished = FALSE
  /\ state = [n \in Nodes |-> "absent"]
  /\ edges = {}
  /\ journal = <<>>
  /\ patched = {}

Commit(rows) == journal' = Append(journal, rows)

(* start: INSERT OR IGNORE of the runs row; a known run is left alone. *)
Start ==
  /\ ~known
  /\ known' = TRUE
  /\ Commit({Row("run_started", NoNode)})
  /\ UNCHANGED <<finished, state, edges, patched>>

\* Mutant of Interrupted: a node recorded as running is not taken back.
InterruptedStaysRunning(s) == s

\* Mutant of Interrupted: a state that is none of NodeState is written.
InterruptedByAnotherName(s) == IF s = "running" THEN "interrupted" ELSE s

\* Mutant of Interrupted: failed nodes are taken back as well.
InterruptedRetriesFailed(s) == IF s \in {"running", "failed"} THEN "pending" ELSE s

Interrupted(s) == IF s = "running" THEN "pending" ELSE s

(* resume: nodes a crash left running become pending again. *)
Resume ==
  /\ known
  /\ state' = [n \in Nodes |-> Interrupted(state[n])]
  /\ Commit({Row("run_resumed", NoNode)})
  /\ UNCHANGED <<known, finished, edges, patched>>

(* mark_running: one transaction for all the tasks that are launched. *)
MarkRunning(tasks) ==
  /\ state' = [n \in Nodes |-> IF n \in tasks /\ state[n] = "pending"
                               THEN "running" ELSE state[n]]
  /\ Commit({Row("task_started", n) : n \in tasks})
  /\ UNCHANGED <<known, finished, edges, patched>>

\* Mutant of OutcomeAccepted: the update forgets "AND state = running".
OutcomeAlwaysAccepted(n) == state[n] # "absent"

OutcomeAccepted(n) == state[n] = "running"

(* record_outcome, when the node is still running; it raises otherwise. *)
RecordOutcome(n, success) ==
  /\ OutcomeAccepted(n)
  /\ state' = [state EXCEPT ![n] = IF success THEN "succeeded" ELSE "failed"]
  /\ Commit({Row(IF success THEN "task_succeeded" ELSE "task_failed", n)})
  /\ UNCHANGED <<known, finished, edges, patched>>

(***************************************************************************)
(* apply_patch.  What it refuses, in the order it looks: a finished graph, *)
(* a task id already used, an edge to an unknown task or from a task to    *)
(* itself, an unknown id in cancel, wait or resume, a cancel of a node     *)
(* that is not open (of a node this very patch adds, too: its state is     *)
(* looked up in the graph before the patch), a wait of a node that is not  *)
(* pending, a resume of one that is not waiting, a dependency cycle.       *)
(* Every refusal rolls the transaction back.                               *)
(***************************************************************************)
\* Mutant of Accepts: a cancelled node may be resumed like a waiting one.
AcceptsResumeOfCancelled(p) ==
  LET ids == Existing \cup p.add
  IN  /\ ~finished
      /\ p.add \cap Existing = {}
      /\ \A e \in p.connect : e[1] \in ids /\ e[2] \in ids /\ e[1] # e[2]
      /\ p.cancel \cup p.wait \cup p.resume \subseteq ids
      /\ \A n \in p.cancel : state[n] \in Open
      /\ \A n \in p.wait \cap Existing : state[n] = "pending"
      /\ \A n \in p.resume \cap Existing : state[n] \in {"waiting", "cancelled"}
      /\ ~HasCycle(edges \cup p.connect)

Accepts(p) ==
  LET ids == Existing \cup p.add
  IN  /\ ~finished
      /\ p.add \cap Existing = {}
      /\ \A e \in p.connect : e[1] \in ids /\ e[2] \in ids /\ e[1] # e[2]
      /\ p.cancel \cup p.wait \cup p.resume \subseteq ids
      /\ \A n \in p.cancel : state[n] \in Open
      /\ \A n \in p.wait \cap Existing : state[n] = "pending"
      /\ \A n \in p.resume \cap Existing : state[n] = "waiting"
      /\ ~HasCycle(edges \cup p.connect)

(* The writes to one node in the order of the code: insert, cancel, wait,  *)
(* resume.                                                                 *)
Rewritten(p, n) ==
  IF n \in p.resume THEN "pending"
  ELSE IF n \in p.wait THEN "waiting"
  ELSE IF n \in p.cancel THEN "cancelled"
  ELSE IF n \in p.add THEN "pending"
  ELSE state[n]

\* Mutant of Leftovers: a running node survives the end of the run.
LeftoversNotRunning(p) ==
  {n \in Nodes : p.finish /\ Rewritten(p, n) \in Open \ {"running"}}

(* finish cancels what is still open once the rest of the patch is in. *)
Leftovers(p) == {n \in Nodes : p.finish /\ Rewritten(p, n) \in Open}

(* apply_patch, when nothing refuses it and t has no patches row yet. *)
CommitPatch(p, t) ==
  /\ Accepts(p)
  /\ state' = [n \in Nodes |-> IF n \in Leftovers(p) THEN "cancelled"
                               ELSE Rewritten(p, n)]
  /\ edges' = edges \cup p.connect
  /\ finished' = (finished \/ p.finish)
  /\ Commit({Row("task_cancelled", n) : n \in p.cancel \cup Leftovers(p)}
              \cup {PatchRow(t)})
  /\ patched' = patched \cup {t}
  /\ UNCHANGED known
=============================================================================

------------------------- MODULE LiveGraphExecutor -------------------------
(***************************************************************************)
(* LiveGraphExecutor.run of core/live_graph/core.py over the GraphStore.   *)
(*                                                                         *)
(* An invocation is one call of run() for the run: the first one starts    *)
(* it, later ones resume it (runtime.py and routes.py use it so).  All of  *)
(* them live in one asyncio loop: while an invocation is between two       *)
(* awaits (pc "fill" and "handle") nothing else moves, but the process may *)
(* crash between any two commits.  The planner is any function of its      *)
(* snapshot: a plan await returns any patch of Patches, or raises.         *)
(***************************************************************************)
EXTENDS GraphStore

CONSTANTS
  MaxInvocations, \* bound: calls of run() in a behaviour
  MaxWorkers,     \* max_workers
  MaxCompleted,   \* max_completed; None is any value >= Cardinality(Nodes)
  Overlapping,    \* may a caller resume while another call is active?
  PlannerMayRaise \* may planner.plan raise?

ASSUME BoundsAssumption ==
  /\ MaxInvocations \in Nat \ {0}
  /\ MaxWorkers \in Nat \ {0}
  /\ MaxCompleted \in Nat \ {0}
  /\ Overlapping \in BOOLEAN
  /\ PlannerMayRaise \in BOOLEAN

VARIABLES
  pc,       \* where each invocation is
  fut,      \* in_flight: the futures each invocation holds
  batch,    \* the done set it is walking through
  queue,    \* planner events it still has to plan, the earliest first
  executed  \* len(executed)

volatile == <<pc, fut, batch, queue, executed>>
vars == <<store, volatile>>

Invocations == 1..MaxInvocations

Awaiting == {"plan", "wait"}
Active   == Awaiting \cup {"fill", "handle"}
Ended    == {"returned", "rejected", "refused", "crashed"}
PC       == {"idle"} \cup Active \cup Ended

(* in_flight is keyed by asyncio.Task, so a call can hold two futures of   *)
(* one node: launched by it, returned to pending by the resume of a later  *)
(* call, launched by it again.  Nothing else makes a running node pending, *)
(* so a future is named by its node and the latest call that had begun     *)
(* when it was launched.                                                   *)
Futures == Nodes \X Invocations

Latest == CHOOSE j \in Invocations :
  /\ pc[j] # "idle"
  /\ \A k \in Invocations : pc[k] # "idle" => k <= j

(* A future runs, has been told to cancel, or is done in one of three ways *)
Done   == {"ok", "error", "cancelled"}
Future == {"none", "live", "cancelling"} \cup Done

LoopFree == \A i \in Invocations : pc[i] \notin Active \ Awaiting

Held(i)  == {t \in Futures : fut[i][t] # "none"}
First(S) == CHOOSE n \in S : \A m \in S : n <= m

(* What sorted(done, key=id) may put first: two futures of a node are in   *)
(* the arbitrary order of the done set.                                    *)
Heads(S) == {t \in S : \A u \in S : t[1] <= u[1]}

-----------------------------------------------------------------------------
(* _cancel_graph_cancelled_tasks over the futures f: the running ones of   *)
(* the nodes in drop are told to cancel; a done one cannot be.             *)
CancelFutures(f, drop) ==
  [t \in Futures |-> IF t[1] \in drop /\ f[t] = "live" THEN "cancelling" ELSE f[t]]

DroppedByGraph == {n \in Nodes : state'[n] = "cancelled"}

(* run() raised: nobody cancels its futures.  The coroutines that have not *)
(* ended go on without an owner; what they return is lost.                 *)
Orphaned(f) == [t \in Futures |-> IF f[t] \in Done THEN "none" ELSE f[t]]

Idle(i) ==
  /\ batch' = [batch EXCEPT ![i] = {}]
  /\ queue' = [queue EXCEPT ![i] = {}]

(* An exception leaves run(). *)
Raise(i, why) ==
  /\ pc' = [pc EXCEPT ![i] = why]
  /\ fut' = [fut EXCEPT ![i] = Orphaned(@)]
  /\ Idle(i)
  /\ UNCHANGED executed

(* After a batch has been walked through: when the run is finished all     *)
(* futures are told to cancel, then the loop starts over.                  *)
EndOfBatch(i, f) ==
  /\ pc' = [pc EXCEPT ![i] = "fill"]
  /\ fut' = [fut EXCEPT ![i] = IF finished' THEN CancelFutures(f, Nodes) ELSE f]

NextInBatch(i, f) ==
  IF batch'[i] = {} THEN EndOfBatch(i, f)
  ELSE /\ pc' = [pc EXCEPT ![i] = "handle"]
       /\ fut' = [fut EXCEPT ![i] = f]

(* The max_completed test after an outcome, before the next of the batch. *)
StopReached(i) == executed'[i] >= MaxCompleted

AfterOutcome(i, f) ==
  IF StopReached(i)
  THEN /\ pc' = [pc EXCEPT ![i] = "returned"]
       /\ fut' = [fut EXCEPT ![i] = f]
  ELSE NextInBatch(i, f)
-----------------------------------------------------------------------------

Init ==
  /\ StoreInit
  /\ pc = [i \in Invocations |-> "idle"]
  /\ fut = [i \in Invocations |-> [t \in Futures |-> "none"]]
  /\ batch = [i \in Invocations |-> {}]
  /\ queue = [i \in Invocations |-> {}]
  /\ executed = [i \in Invocations |-> 0]

\* Mutant of Replay: outcomes without a patch are not replayed.
NoReplay == {}

(* _replay_pending_planner_events reads the list once. *)
Replay == IF finished' THEN {} ELSE PendingPlannerEvents'

(* run() up to its first await: start or resume, then the replay list. *)
Begin(i) ==
  /\ pc[i] = "idle" /\ \A j \in Invocations : j < i => pc[j] # "idle"
  /\ LoopFree
  /\ Overlapping \/ \A j \in Invocations : pc[j] \notin Active
  /\ Start \/ Resume
  /\ queue' = [queue EXCEPT ![i] = Replay]
  /\ pc' = [pc EXCEPT ![i] = IF queue'[i] = {} THEN "fill" ELSE "plan"]
  /\ UNCHANGED <<fut, batch, executed>>

\* Mutant of Capacity: the outcomes still in flight are not subtracted from
\* what max_completed leaves.
CapacityForgettingInFlight(i) ==
  LET free == MaxWorkers - Cardinality(Held(i))
      left == MaxCompleted - executed[i]
  IN  IF free < left THEN free ELSE left

\* min(max_workers - len(in_flight), max_completed - len(executed) - len(in_flight))
Capacity(i) ==
  LET free == MaxWorkers - Cardinality(Held(i))
      left == MaxCompleted - executed[i] - Cardinality(Held(i))
  IN  IF free < left THEN free ELSE left

Launchable(i) == IF finished THEN {} ELSE Ready(Capacity(i))

(* Fill the free worker slots, then wait for the first future to be done. *)
Launch(i) ==
  /\ pc[i] = "fill" /\ Launchable(i) # {}
  /\ MarkRunning(Launchable(i))
  /\ fut' = [fut EXCEPT ![i] = [t \in Futures |->
                                  IF t \in Launchable(i) \X {Latest} THEN "live"
                                  ELSE @[t]]]
  /\ pc' = [pc EXCEPT ![i] = "wait"]
  /\ UNCHANGED <<batch, queue, executed>>

LaunchNothing(i) ==
  /\ pc[i] = "fill" /\ Launchable(i) = {}
  /\ pc' = [pc EXCEPT ![i] = IF Held(i) = {} THEN "returned" ELSE "wait"]
  /\ UNCHANGED <<store, fut, batch, queue, executed>>

(* A worker ends, well or with an exception (also: unknown skill). *)
WorkerEnds(i, t) ==
  /\ LoopFree
  /\ fut[i][t] = "live"
  /\ \E how \in {"ok", "error"} :
       fut' = [fut EXCEPT ![i][t] = IF pc[i] \in Active THEN how ELSE "none"]
  /\ UNCHANGED <<store, pc, batch, queue, executed>>

(* The loop delivers CancelledError to a coroutine that was told to cancel. *)
WorkerCancelled(i, t) ==
  /\ LoopFree
  /\ fut[i][t] = "cancelling"
  /\ fut' = [fut EXCEPT ![i][t] = IF pc[i] \in Active THEN "cancelled" ELSE "none"]
  /\ UNCHANGED <<store, pc, batch, queue, executed>>

(* asyncio.wait returns every future that is done by then. *)
WaitReturns(i) ==
  LET done == {t \in Futures : fut[i][t] \in Done}
  IN  /\ LoopFree
      /\ pc[i] = "wait" /\ done # {}
      /\ batch' = [batch EXCEPT ![i] = done]
      /\ pc' = [pc EXCEPT ![i] = "handle"]
      /\ UNCHANGED <<store, fut, queue, executed>>

\* Mutant of Discarded: the late result of a node the graph cancelled is
\* taken for an outcome.
DiscardedOnlyIfCancelledFuture(i, t) == fut[i][t] = "cancelled"

(* The result is dropped: the coroutine was cancelled, or the graph        *)
(* cancelled the node after the coroutine had ended.                       *)
Discarded(i, t) == fut[i][t] = "cancelled" \/ state[t[1]] = "cancelled"

\* Mutant of DropResult: the future stays in in_flight.
DropResultKeepsFuture(i, t) ==
  /\ pc[i] = "handle" /\ t \in Heads(batch[i]) /\ Discarded(i, t)
  /\ batch' = [batch EXCEPT ![i] = @ \ {t}]
  /\ UNCHANGED <<store, queue, executed>>
  /\ NextInBatch(i, fut[i])

DropResult(i, t) ==
  /\ pc[i] = "handle" /\ t \in Heads(batch[i]) /\ Discarded(i, t)
  /\ batch' = [batch EXCEPT ![i] = @ \ {t}]
  /\ UNCHANGED <<store, queue, executed>>
  /\ NextInBatch(i, [fut[i] EXCEPT ![t] = "none"])

TakeOutcome(i, t) ==
  LET f == [fut[i] EXCEPT ![t] = "none"]
  IN  /\ pc[i] = "handle" /\ t \in Heads(batch[i]) /\ ~Discarded(i, t)
      /\ RecordOutcome(t[1], fut[i][t] = "ok")
      /\ batch' = [batch EXCEPT ![i] = @ \ {t}]
      /\ executed' = [executed EXCEPT ![i] = @ + 1]
      /\ IF finished THEN AfterOutcome(i, f) /\ UNCHANGED queue
         ELSE /\ queue' = [queue EXCEPT ![i] = {Len(journal')}]
              /\ pc' = [pc EXCEPT ![i] = "plan"]
              /\ fut' = [fut EXCEPT ![i] = f]

(* record_outcome raises GraphMutationError: the node is not running. *)
OutcomeRefused(i, t) ==
  /\ pc[i] = "handle" /\ t \in Heads(batch[i])
  /\ ~Discarded(i, t) /\ ~OutcomeAccepted(t[1])
  /\ Raise(i, "refused")
  /\ UNCHANGED store

(* The next future of the batch. *)
Handle(i) ==
  \E t \in Futures : DropResult(i, t) \/ TakeOutcome(i, t) \/ OutcomeRefused(i, t)

\* Mutant of Unpatched: apply_patch does not look for an earlier patch.
UnpatchedUnchecked(t) == TRUE

Unpatched(t) == t \notin patched

(* The rest of _plan, once the planner has answered with p: the patch is   *)
(* applied unless its trigger has one, futures the graph cancelled are     *)
(* told so, and the replay or the batch goes on.                           *)
PlanAnswers(i, p) ==
  LET t == First(queue[i])
  IN  /\ LoopFree
      /\ pc[i] = "plan"
      /\ IF Unpatched(t) THEN CommitPatch(p, t) ELSE UNCHANGED store
      /\ queue' = [queue EXCEPT ![i] = IF finished' THEN {} ELSE @ \ {t}]
      /\ UNCHANGED <<batch, executed>>
      /\ LET f == CancelFutures(fut[i], DroppedByGraph)
         IN  IF queue'[i] # {}
             THEN pc' = [pc EXCEPT ![i] = "plan"] /\ fut' = [fut EXCEPT ![i] = f]
             ELSE AfterOutcome(i, f)

PlanReturns(i) == \E p \in Patches : PlanAnswers(i, p)

(* The planner raises, or apply_patch refuses its patch and rolls back. *)
PlanRaises(i) ==
  /\ LoopFree
  /\ pc[i] = "plan"
  /\ PlannerMayRaise \/ \E p \in Patches : Unpatched(First(queue[i])) /\ ~Accepts(p)
  /\ Raise(i, "rejected")
  /\ UNCHANGED store

(* The process dies: every call and every coroutine is gone. *)
Crash ==
  /\ \E i \in Invocations : pc[i] \in Active
  /\ pc' = [i \in Invocations |-> IF pc[i] \in Active THEN "crashed" ELSE pc[i]]
  /\ fut' = [i \in Invocations |-> [t \in Futures |-> "none"]]
  /\ batch' = [i \in Invocations |-> {}]
  /\ queue' = [i \in Invocations |-> {}]
  /\ UNCHANGED <<store, executed>>

Step(i) ==
  \/ Launch(i) \/ LaunchNothing(i)
  \/ WaitReturns(i)
  \/ Handle(i)
  \/ PlanReturns(i) \/ PlanRaises(i)

Worker(i, t) == WorkerEnds(i, t) \/ WorkerCancelled(i, t)

Next ==
  \/ \E i \in Invocations : Begin(i) \/ Step(i) \/ \E t \in Futures : Worker(i, t)
  \/ Crash

Spec == Init /\ [][Next]_vars

(* The loop runs whatever can run, planners answer, and workers end: every *)
(* network call of a skill has a timeout.                                  *)
Fairness ==
  /\ \A i \in Invocations : WF_vars(Step(i))
  /\ \A i \in Invocations, t \in Futures : WF_vars(Worker(i, t))

FairSpec == Spec /\ Fairness
=============================================================================

--------------------------- MODULE LiveGraphProofs ---------------------------
(***************************************************************************)
(* Proofs about the live graph, for every set of tasks, every planner and  *)
(* any number of invocations, crashes and resumes.                         *)
(***************************************************************************)
EXTENDS LiveGraph, FiniteSetTheorems, WellFoundedInduction, TLAPS

(***************************************************************************)
(* A non-empty set of naturals has a least element, so First(S) is in S.   *)
(***************************************************************************)
LEMMA FirstIsLeast ==
  ASSUME NEW S \in SUBSET Nat, S # {}
  PROVE  \E m \in S : \A u \in S : m <= u
<1> DEFINE R == OpToRel(<, Nat)
<1>1. IsWellFoundedOn(R, Nat)
  BY NatLessThanWellFounded
<1>2. PICK x \in S : \A y \in S : ~ (<<y, x>> \in R)
  BY <1>1, WFMin, Zenon
<1>3. \A y \in S : ~ (y < x)
  BY <1>2 DEF OpToRel
<1>4. \A y \in S : x <= y
  BY <1>3, SMT
<1> QED  BY <1>4

(* Once a call has begun there is a latest one. *)
LEMMA LatestIsLast ==
  ASSUME NEW i \in Invocations, pc[i] # "idle"
  PROVE  /\ Latest \in Invocations /\ pc[Latest] # "idle"
         /\ \A k \in Invocations : pc[k] # "idle" => k <= Latest
<1> DEFINE S == {MaxInvocations - k : k \in {j \in Invocations : pc[j] # "idle"}}
<1>1. Invocations = 1..MaxInvocations /\ MaxInvocations \in Nat
  BY BoundsAssumption DEF Invocations
<1>2. S \in SUBSET Nat /\ MaxInvocations - i \in S
  BY <1>1
<1>3. PICK m \in S : \A u \in S : m <= u
  BY <1>2, FirstIsLeast
<1>4. PICK j \in Invocations : pc[j] # "idle" /\ m = MaxInvocations - j
  BY <1>3
<1>5. ASSUME NEW k \in Invocations, pc[k] # "idle" PROVE k <= j
  <2>1. MaxInvocations - k \in S
    BY <1>5
  <2>2. MaxInvocations - j <= MaxInvocations - k
    BY <1>3, <1>4, <2>1
  <2> QED  BY <1>1, <2>2
<1> QED  BY <1>4, <1>5 DEF Latest

(* The head of a queue of events belongs to it. *)
LEMMA FirstOfEvents ==
  ASSUME journal \in Seq(SUBSET JournalRow), NEW S \in SUBSET DOMAIN journal, S # {}
  PROVE  First(S) \in S
<1> HIDE DEF JournalRow
<1>1. DOMAIN journal = 1..Len(journal) /\ Len(journal) \in Nat
  OBVIOUS
<1>2. S \in SUBSET Nat
  BY <1>1, SMT
<1>3. \E m \in S : \A u \in S : m <= u
  BY <1>2, FirstIsLeast
<1> QED  BY <1>3 DEF First

-----------------------------------------------------------------------------
(* The store: what each of its transactions does to the types. *)

(* The journal only grows, by one transaction at a time. *)
LEMMA CommitAppends ==
  ASSUME StoreTypeOK, NEW rows, Commit(rows)
  PROVE  /\ Len(journal) \in Nat /\ Len(journal') = Len(journal) + 1
         /\ DOMAIN journal = 1..Len(journal)
         /\ DOMAIN journal' = DOMAIN journal \cup {Len(journal')}
         /\ Len(journal') \notin DOMAIN journal
         /\ \A i \in DOMAIN journal : journal'[i] = journal[i]
         /\ journal'[Len(journal')] = rows
BY SMT DEF StoreTypeOK, Commit

(* A transaction of journal rows keeps the type of the journal. *)
LEMMA CommitType ==
  ASSUME StoreTypeOK, NEW rows \in SUBSET JournalRow, Commit(rows)
  PROVE  journal' \in Seq(SUBSET JournalRow)
BY DEF StoreTypeOK, Commit
-----------------------------------------------------------------------------
(***************************************************************************)
(* Every step of the system is, to the store, one of its transactions or   *)
(* nothing, made where the executor makes it.                              *)
(***************************************************************************)
StoreStep ==
  \/ UNCHANGED store
  \/ Start
  \/ Resume
  \/ /\ ~finished
     /\ \E tasks \in SUBSET Runnable : MarkRunning(tasks)
  \/ \E n \in Nodes, success \in BOOLEAN : RecordOutcome(n, success)
  \/ \E p \in Patches, t \in DOMAIN journal \ patched : CommitPatch(p, t)

(* Every transaction keeps the types of the store. *)
LEMMA StoreStepType ==
  ASSUME StoreTypeOK, StoreStep
  PROVE  StoreTypeOK'
<1> USE DEF StoreTypeOK
<1>1. CASE UNCHANGED store
  BY <1>1 DEF store
<1>2. CASE Start
  <2>1. {Row("run_started", NoNode)} \in SUBSET JournalRow
    BY DEF Row, JournalRow, PlannerKinds
  <2>2. journal' \in Seq(SUBSET JournalRow) /\ DOMAIN journal \subseteq DOMAIN journal'
    BY <1>2, <2>1, CommitType, CommitAppends DEF Start
  <2> QED  BY <1>2, <2>2 DEF Start
<1>3. CASE Resume
  <2>1. {Row("run_resumed", NoNode)} \in SUBSET JournalRow
    BY DEF Row, JournalRow
  <2>2. journal' \in Seq(SUBSET JournalRow) /\ DOMAIN journal \subseteq DOMAIN journal'
    BY <1>3, <2>1, CommitType, CommitAppends DEF Resume
  <2> QED  BY <1>3, <2>2 DEF Resume, Interrupted, NodeState, Open
<1>4. ASSUME NEW tasks \in SUBSET Runnable, MarkRunning(tasks)
      PROVE  StoreTypeOK'
  <2>1. {Row("task_started", n) : n \in tasks} \in SUBSET JournalRow
    BY DEF Row, JournalRow, Runnable
  <2>2. journal' \in Seq(SUBSET JournalRow) /\ DOMAIN journal \subseteq DOMAIN journal'
    BY <1>4, <2>1, CommitType, CommitAppends DEF MarkRunning
  <2> QED  BY <1>4, <2>2 DEF MarkRunning, NodeState, Open
<1>5. ASSUME NEW n \in Nodes, NEW success \in BOOLEAN, RecordOutcome(n, success)
      PROVE  StoreTypeOK'
  <2>1. {Row(IF success THEN "task_succeeded" ELSE "task_failed", n)} \in SUBSET JournalRow
    BY DEF Row, JournalRow, PlannerKinds
  <2>2. journal' \in Seq(SUBSET JournalRow) /\ DOMAIN journal \subseteq DOMAIN journal'
    BY <1>5, <2>1, CommitType, CommitAppends DEF RecordOutcome
  <2> QED  BY <1>5, <2>2 DEF RecordOutcome, NodeState, Terminal
<1>6. ASSUME NEW p \in Patches, NEW t \in DOMAIN journal \ patched, CommitPatch(p, t)
      PROVE  StoreTypeOK'
  <2>1. p \in GraphPatch
    BY PatchesAssumption
  <2>2. t \in Nat
    BY SMT
  <2>3. {Row("task_cancelled", n) : n \in p.cancel \cup Leftovers(p)} \cup {PatchRow(t)}
          \in SUBSET JournalRow
    BY <2>1, <2>2 DEF Row, PatchRow, JournalRow, GraphPatch, Leftovers
  <2>4. journal' \in Seq(SUBSET JournalRow) /\ DOMAIN journal \subseteq DOMAIN journal'
    BY <1>6, <2>3, CommitType, CommitAppends DEF CommitPatch
  <2>5. state' \in [Nodes -> {"absent"} \cup NodeState]
    BY <1>6 DEF CommitPatch, Rewritten, NodeState, Open, Terminal
  <2>6. edges' \subseteq Nodes \X Nodes
    BY <1>6, <2>1 DEF CommitPatch, GraphPatch
  <2>7. finished' \in BOOLEAN /\ known' \in BOOLEAN
    BY <1>6, <2>1 DEF CommitPatch, GraphPatch
  <2>8. patched' \subseteq DOMAIN journal'
    BY <1>6, <2>4 DEF CommitPatch
  <2> QED  BY <2>4, <2>5, <2>6, <2>7, <2>8
<1> QED  BY <1>1, <1>2, <1>3, <1>4, <1>5, <1>6 DEF StoreStep
-----------------------------------------------------------------------------
(***************************************************************************)
(* The executor.  A plan is awaited for an event, and a batch is walked    *)
(* through while something of it is left.                                  *)
(***************************************************************************)
ControlOK ==
  \A i \in Invocations : /\ pc[i] = "plan" => queue[i] # {}
                         /\ pc[i] = "handle" => batch[i] # {}

InFlight == [Futures -> Future]

(* Telling futures to cancel leaves futures. *)
LEMMA CancelFuturesType ==
  ASSUME NEW f \in InFlight, NEW drop
  PROVE  CancelFutures(f, drop) \in InFlight
BY DEF CancelFutures, InFlight, Future

(* Going on with the batch moves one call, to fill or to the next result. *)
LEMMA NextInBatchType ==
  ASSUME TypeOK, NEW i \in Invocations, NEW f \in InFlight, NextInBatch(i, f),
         batch' \in [Invocations -> SUBSET Futures]
  PROVE  /\ pc' = [pc EXCEPT ![i] = pc'[i]]
         /\ pc'[i] \in {"fill", "handle"}
         /\ pc'[i] = "handle" <=> batch'[i] # {}
         /\ fut' \in [Invocations -> InFlight]
         /\ fut' = [fut EXCEPT ![i] = fut'[i]]
<1>1. CASE batch'[i] = {}
  BY <1>1, CancelFuturesType DEF TypeOK, NextInBatch, EndOfBatch, InFlight
<1>2. CASE batch'[i] # {}
  BY <1>2 DEF TypeOK, NextInBatch, InFlight
<1> QED  BY <1>1, <1>2

(* The same after an outcome, where max_completed may end the call. *)
LEMMA AfterOutcomeType ==
  ASSUME TypeOK, NEW i \in Invocations, NEW f \in InFlight, AfterOutcome(i, f),
         batch' \in [Invocations -> SUBSET Futures]
  PROVE  /\ pc' = [pc EXCEPT ![i] = pc'[i]]
         /\ pc'[i] \in {"fill", "handle", "returned"}
         /\ pc'[i] = "handle" => batch'[i] # {}
         /\ fut' \in [Invocations -> InFlight]
         /\ fut' = [fut EXCEPT ![i] = fut'[i]]
<1>1. CASE StopReached(i)
  BY <1>1 DEF TypeOK, AfterOutcome, InFlight
<1>2. CASE ~StopReached(i)
  BY <1>2, NextInBatchType DEF AfterOutcome
<1> QED  BY <1>1, <1>2

(* What is outside the store keeps its type, whatever the store does. *)
VolatileOK ==
  /\ pc \in [Invocations -> PC]
  /\ fut \in [Invocations -> InFlight]
  /\ batch \in [Invocations -> SUBSET Futures]
  /\ queue \in [Invocations -> SUBSET DOMAIN journal]
  /\ executed \in [Invocations -> Nat]

(* The type invariant is that of the store and that of the rest. *)
LEMMA TypeOKSplits == TypeOK <=> StoreTypeOK /\ VolatileOK
BY DEF TypeOK, VolatileOK, InFlight

(* The journal only grows in a store step. *)
LEMMA JournalGrows ==
  ASSUME StoreTypeOK, StoreStep
  PROVE  DOMAIN journal \subseteq DOMAIN journal'
BY CommitAppends
   DEF StoreStep, store, Start, Resume, MarkRunning, RecordOutcome, CommitPatch
(* An exception that ends a call keeps the types of what is left. *)
LEMMA RaiseType ==
  ASSUME VolatileOK, ControlOK, NEW i \in Invocations, NEW why \in Ended,
         Raise(i, why), UNCHANGED store
  PROVE  VolatileOK' /\ ControlOK'
<1>1. pc' \in [Invocations -> PC]
  BY DEF VolatileOK, Raise, PC
<1>2. fut' \in [Invocations -> InFlight]
  BY DEF VolatileOK, Raise, Orphaned, InFlight, Future
<1>3. /\ batch' \in [Invocations -> SUBSET Futures]
      /\ queue' \in [Invocations -> SUBSET DOMAIN journal']
      /\ executed' \in [Invocations -> Nat]
  BY DEF VolatileOK, Raise, Idle, store
<1>4. ControlOK'
  BY DEF VolatileOK, ControlOK, Raise, Idle, Ended
<1> QED  BY <1>1, <1>2, <1>3, <1>4 DEF VolatileOK

(* A call that starts takes its replay list from the journal. *)
LEMMA BeginType ==
  ASSUME TypeOK, ControlOK, NEW i \in Invocations, Begin(i)
  PROVE  StoreStep /\ VolatileOK' /\ ControlOK'
<1>1. StoreStep
  BY DEF Begin, StoreStep
<1>2. DOMAIN journal \subseteq DOMAIN journal'
  BY <1>1, JournalGrows, TypeOKSplits
<1>3. Replay \subseteq DOMAIN journal'
  BY DEF Replay, PendingPlannerEvents, PlannerEvents
<1>4. queue' = [queue EXCEPT ![i] = Replay]
  BY DEF Begin
<1>5. queue' \in [Invocations -> SUBSET DOMAIN journal']
  BY <1>2, <1>3, <1>4 DEF TypeOK
<1>6. pc' \in [Invocations -> PC]
  BY DEF TypeOK, Begin, PC, Active, Awaiting
<1>7. ControlOK'
  <2> SUFFICES ASSUME NEW j \in Invocations
               PROVE  /\ pc'[j] = "plan" => queue'[j] # {}
                      /\ pc'[j] = "handle" => batch'[j] # {}
    BY DEF ControlOK
  <2>1. CASE j = i
    BY <2>1 DEF TypeOK, Begin
  <2>2. CASE j # i
    BY <2>2, <1>4 DEF TypeOK, Begin, ControlOK
  <2> QED  BY <2>1, <2>2
<1> QED
  BY <1>1, <1>5, <1>6, <1>7 DEF VolatileOK, Begin, TypeOK, InFlight

(* A launch marks nodes that are runnable, and only before finish. *)
LEMMA LaunchType ==
  ASSUME TypeOK, ControlOK, NEW i \in Invocations, Launch(i)
  PROVE  StoreStep /\ VolatileOK' /\ ControlOK'
<1>1. Launchable(i) \in SUBSET Runnable /\ ~finished
  BY DEF Launch, Launchable, Ready
<1>2. StoreStep
  BY <1>1 DEF Launch, StoreStep
<1>3. DOMAIN journal \subseteq DOMAIN journal'
  BY <1>2, JournalGrows, TypeOKSplits
<1>4. fut' \in [Invocations -> InFlight]
  BY DEF TypeOK, Launch, InFlight, Future
<1>5. pc' \in [Invocations -> PC]
  BY DEF TypeOK, Launch, PC, Active, Awaiting
<1>6. ControlOK'
  BY DEF TypeOK, Launch, ControlOK
<1> QED  BY <1>2, <1>3, <1>4, <1>5, <1>6 DEF VolatileOK, Launch, TypeOK

(* Steps the store has no part in. *)
LEMMA QuietType ==
  ASSUME TypeOK, ControlOK, NEW i \in Invocations,
         \/ LaunchNothing(i)
         \/ \E t \in Futures : Worker(i, t)
         \/ WaitReturns(i)
         \/ Crash
         \/ UNCHANGED vars
  PROVE  StoreStep /\ VolatileOK' /\ ControlOK'
<1> USE DEF StoreStep, VolatileOK, TypeOK, ControlOK, store
<1>1. CASE LaunchNothing(i)
  BY <1>1 DEF LaunchNothing, PC, Active, Awaiting, Ended, InFlight
<1>2. ASSUME NEW t \in Futures, Worker(i, t)
      PROVE  StoreStep /\ VolatileOK' /\ ControlOK'
  <2>1. PICK v \in Future : fut' = [fut EXCEPT ![i][t] = v]
    <3>1. CASE WorkerEnds(i, t)
      <4>1. PICK how \in {"ok", "error"} :
              fut' = [fut EXCEPT ![i][t] = IF pc[i] \in Active THEN how ELSE "none"]
        BY <3>1 DEF WorkerEnds
      <4>2. (IF pc[i] \in Active THEN how ELSE "none") \in Future
        BY DEF Future, Done
      <4> QED  BY <4>1, <4>2
    <3>2. CASE WorkerCancelled(i, t)
      <4>1. (IF pc[i] \in Active THEN "cancelled" ELSE "none") \in Future
        BY DEF Future, Done
      <4> QED  BY <3>2, <4>1 DEF WorkerCancelled
    <3> QED  BY <1>2, <3>1, <3>2 DEF Worker
  <2>2. fut' \in [Invocations -> InFlight]
    BY <2>1 DEF InFlight
  <2> QED  BY <1>2, <2>2 DEF Worker, WorkerEnds, WorkerCancelled
<1>3. CASE WaitReturns(i)
  BY <1>3 DEF WaitReturns, PC, Active, Awaiting, InFlight
<1>4. CASE Crash
  BY <1>4 DEF Crash, PC, Active, Awaiting, Ended, InFlight, Future
<1>5. CASE UNCHANGED vars
  BY <1>5 DEF vars, volatile, InFlight
<1> QED  BY <1>1, <1>2, <1>3, <1>4, <1>5
(* One result of the batch is dropped. *)
LEMMA DropResultType ==
  ASSUME TypeOK, ControlOK, NEW i \in Invocations, NEW t \in Futures, DropResult(i, t)
  PROVE  StoreStep /\ VolatileOK' /\ ControlOK'
<1> DEFINE f == [fut[i] EXCEPT ![t] = "none"]
<1>2. f \in InFlight
  BY DEF TypeOK, InFlight, Future
<1>3. batch' = [batch EXCEPT ![i] = @ \ {t}] /\ batch' \in [Invocations -> SUBSET Futures]
  BY DEF TypeOK, DropResult
<1>4. NextInBatch(i, f)
  BY DEF DropResult
<1>5. /\ pc' = [pc EXCEPT ![i] = pc'[i]]
      /\ pc'[i] \in {"fill", "handle"}
      /\ pc'[i] = "handle" <=> batch'[i] # {}
      /\ fut' \in [Invocations -> InFlight]
  BY <1>2, <1>3, <1>4, NextInBatchType
<1>6. UNCHANGED <<store, queue, executed>>
  BY DEF DropResult
<1>7. ControlOK'
  BY <1>3, <1>5, <1>6 DEF TypeOK, ControlOK
<1>8. pc' \in [Invocations -> PC]
  BY <1>5 DEF TypeOK, PC, Active
<1> QED
  BY <1>3, <1>5, <1>6, <1>7, <1>8 DEF StoreStep, VolatileOK, TypeOK, store

(* An outcome is recorded; its planning starts unless the run is finished. *)
LEMMA TakeOutcomeType ==
  ASSUME TypeOK, ControlOK, NEW i \in Invocations, NEW t \in Futures, TakeOutcome(i, t)
  PROVE  StoreStep /\ VolatileOK' /\ ControlOK'
<1> DEFINE f == [fut[i] EXCEPT ![t] = "none"]
<1>1. t[1] \in Nodes /\ (fut[i][t] = "ok") \in BOOLEAN
  BY DEF Futures
<1>2. f \in InFlight
  BY DEF TypeOK, InFlight, Future
<1>3. batch' = [batch EXCEPT ![i] = @ \ {t}] /\ batch' \in [Invocations -> SUBSET Futures]
  BY DEF TypeOK, TakeOutcome
<1>4. executed' \in [Invocations -> Nat]
  BY DEF TypeOK, TakeOutcome
<1>5. StoreStep
  BY <1>1 DEF TakeOutcome, StoreStep
<1>6. DOMAIN journal \subseteq DOMAIN journal'
  BY <1>5, JournalGrows, TypeOKSplits
<1>7. CASE finished
  <2>1. AfterOutcome(i, f) /\ queue' = queue
    BY <1>7 DEF TakeOutcome
  <2>2. /\ pc' = [pc EXCEPT ![i] = pc'[i]]
        /\ pc'[i] \in {"fill", "handle", "returned"}
        /\ pc'[i] = "handle" => batch'[i] # {}
        /\ fut' \in [Invocations -> InFlight]
    BY <1>2, <1>3, <2>1, AfterOutcomeType
  <2>3. ControlOK'
    BY <1>3, <2>1, <2>2 DEF TypeOK, ControlOK
  <2>4. pc' \in [Invocations -> PC]
    BY <2>2 DEF TypeOK, PC, Active, Ended
  <2> QED
    BY <1>3, <1>4, <1>5, <1>6, <2>1, <2>2, <2>3, <2>4 DEF VolatileOK, TypeOK
<1>8. CASE ~finished
  <2>1. /\ queue' = [queue EXCEPT ![i] = {Len(journal')}]
        /\ pc' = [pc EXCEPT ![i] = "plan"]
        /\ fut' = [fut EXCEPT ![i] = f]
    BY <1>8 DEF TakeOutcome
  <2>2. Len(journal') \in DOMAIN journal'
    BY CommitAppends, TypeOKSplits DEF TakeOutcome, RecordOutcome
  <2>3. queue' \in [Invocations -> SUBSET DOMAIN journal']
    BY <1>6, <2>1, <2>2 DEF TypeOK
  <2>4. ControlOK'
    BY <1>3, <2>1 DEF TypeOK, ControlOK
  <2>5. pc' \in [Invocations -> PC] /\ fut' \in [Invocations -> InFlight]
    BY <1>2, <2>1 DEF TypeOK, PC, Active, Awaiting, InFlight
  <2> QED  BY <1>3, <1>4, <1>5, <2>3, <2>4, <2>5 DEF VolatileOK
<1> QED  BY <1>7, <1>8

(* A patch is applied, or found to be applied already. *)
LEMMA PlanReturnsType ==
  ASSUME TypeOK, ControlOK, NEW i \in Invocations, PlanReturns(i)
  PROVE  StoreStep /\ VolatileOK' /\ ControlOK'
<1> DEFINE t == First(queue[i])
           f == CancelFutures(fut[i], DroppedByGraph)
<1>1. t \in queue[i] /\ t \in DOMAIN journal
  BY FirstOfEvents DEF TypeOK, StoreTypeOK, ControlOK, PlanReturns, PlanAnswers
<1>2. StoreStep
  BY <1>1 DEF PlanReturns, PlanAnswers, Unpatched, StoreStep
<1>3. DOMAIN journal \subseteq DOMAIN journal'
  BY <1>2, JournalGrows, TypeOKSplits
<1>4. f \in InFlight
  BY CancelFuturesType DEF TypeOK, InFlight
<1>5. queue' = [queue EXCEPT ![i] = IF finished' THEN {} ELSE @ \ {t}]
  BY DEF PlanReturns, PlanAnswers
<1>6. queue' \in [Invocations -> SUBSET DOMAIN journal']
  BY <1>3, <1>5 DEF TypeOK
<1>7. batch' = batch /\ executed' = executed
  BY DEF PlanReturns, PlanAnswers
<1>8. CASE queue'[i] # {}
  <2>1. pc' = [pc EXCEPT ![i] = "plan"] /\ fut' = [fut EXCEPT ![i] = f]
    BY <1>8 DEF PlanReturns, PlanAnswers
  <2>2. ControlOK'
    BY <1>5, <1>7, <1>8, <2>1 DEF TypeOK, ControlOK
  <2>3. pc' \in [Invocations -> PC] /\ fut' \in [Invocations -> InFlight]
    BY <1>4, <2>1 DEF TypeOK, PC, Active, Awaiting, InFlight
  <2> QED  BY <1>2, <1>6, <1>7, <2>2, <2>3 DEF VolatileOK, TypeOK
<1>9. CASE queue'[i] = {}
  <2>1. AfterOutcome(i, f)
    BY <1>9 DEF PlanReturns, PlanAnswers
  <2>2. /\ pc' = [pc EXCEPT ![i] = pc'[i]]
        /\ pc'[i] \in {"fill", "handle", "returned"}
        /\ pc'[i] = "handle" => batch'[i] # {}
        /\ fut' \in [Invocations -> InFlight]
    BY <1>4, <1>7, <2>1, AfterOutcomeType DEF TypeOK
  <2>3. ControlOK'
    BY <1>5, <1>7, <2>2 DEF TypeOK, ControlOK
  <2>4. pc' \in [Invocations -> PC]
    BY <2>2 DEF TypeOK, PC, Active, Ended
  <2> QED  BY <1>2, <1>6, <1>7, <2>2, <2>3, <2>4 DEF VolatileOK, TypeOK
<1> QED  BY <1>8, <1>9

(* Type correctness and the store's part of every step, in one induction. *)
LEMMA StepType ==
  ASSUME TypeOK, ControlOK, [Next]_vars
  PROVE  TypeOK' /\ ControlOK' /\ StoreStep
<1>1. StoreStep /\ VolatileOK' /\ ControlOK'
  <2>1. ASSUME NEW i \in Invocations, Begin(i)
        PROVE  StoreStep /\ VolatileOK' /\ ControlOK'
    BY <2>1, BeginType
  <2>2. ASSUME NEW i \in Invocations, Step(i)
        PROVE  StoreStep /\ VolatileOK' /\ ControlOK'
    <3>1. CASE Launch(i)
      BY <3>1, LaunchType
    <3>2. CASE LaunchNothing(i) \/ WaitReturns(i)
      BY <3>2, QuietType
    <3>3. ASSUME NEW t \in Futures, DropResult(i, t)
          PROVE  StoreStep /\ VolatileOK' /\ ControlOK'
      BY <3>3, DropResultType
    <3>4. ASSUME NEW t \in Futures, TakeOutcome(i, t)
          PROVE  StoreStep /\ VolatileOK' /\ ControlOK'
      BY <3>4, TakeOutcomeType
    <3>5. ASSUME NEW t \in Futures, OutcomeRefused(i, t)
          PROVE  StoreStep /\ VolatileOK' /\ ControlOK'
      BY <3>5, RaiseType, TypeOKSplits DEF OutcomeRefused, Ended, StoreStep
    <3>6. CASE PlanReturns(i)
      BY <3>6, PlanReturnsType
    <3>7. CASE PlanRaises(i)
      BY <3>7, RaiseType, TypeOKSplits DEF PlanRaises, Ended, StoreStep
    <3> QED  BY <2>2, <3>1, <3>2, <3>3, <3>4, <3>5, <3>6, <3>7 DEF Step, Handle
  <2>3. ASSUME NEW i \in Invocations, NEW t \in Futures, Worker(i, t)
        PROVE  StoreStep /\ VolatileOK' /\ ControlOK'
    BY <2>3, QuietType
  <2>4. CASE Crash \/ UNCHANGED vars
    <3>1. 1 \in Invocations
      BY BoundsAssumption, SMT DEF Invocations
    <3> QED  BY <2>4, <3>1, QuietType
  <2> QED  BY <2>1, <2>2, <2>3, <2>4 DEF Next
<1>2. StoreTypeOK'
  BY <1>1, StoreStepType, TypeOKSplits
<1>3. TypeOK' <=> StoreTypeOK' /\ VolatileOK'
  BY DEF TypeOK, VolatileOK, InFlight
<1> QED  BY <1>1, <1>2, <1>3

(* The initial state has its types. *)
LEMMA InitType == Init => TypeOK /\ ControlOK
<1> SUFFICES ASSUME Init PROVE TypeOK /\ ControlOK
  OBVIOUS
<1>1. StoreTypeOK
  <2>1. journal \in Seq(SUBSET JournalRow)
    BY DEF Init, StoreInit
  <2>2. state \in [Nodes -> {"absent"} \cup NodeState]
    BY DEF Init, StoreInit
  <2> QED  BY <2>1, <2>2 DEF Init, StoreInit, StoreTypeOK
<1>2. pc \in [Invocations -> PC] /\ fut \in [Invocations -> [Futures -> Future]]
  BY DEF Init, PC, Future
<1>3. /\ batch \in [Invocations -> SUBSET Futures]
      /\ queue \in [Invocations -> SUBSET DOMAIN journal]
      /\ executed \in [Invocations -> Nat]
  BY DEF Init
<1>4. ControlOK
  BY DEF Init, ControlOK
<1> QED  BY <1>1, <1>2, <1>3, <1>4 DEF TypeOK

(***************************************************************************)
(* The types, and which step follows which, hold in every reachable state. *)
(***************************************************************************)
THEOREM TypeCorrect == Spec => [](TypeOK /\ ControlOK)
<1>1. TypeOK /\ ControlOK /\ [Next]_vars => (TypeOK /\ ControlOK)'
  BY StepType
<1> QED  BY <1>1, InitType, PTL DEF Spec

(* In every step the store makes one of its transactions or none. *)
LEMMA StoreSteps == Spec => [][StoreStep]_store
<1>1. TypeOK /\ ControlOK /\ [Next]_vars => [StoreStep]_store
  BY StepType
<1> QED  BY <1>1, TypeCorrect, PTL DEF Spec
-----------------------------------------------------------------------------
(* No transaction opens a node of a finished run. *)
LEMMA FinishedStep ==
  ASSUME StoreTypeOK, FinishedIsQuiescent, StoreStep
  PROVE  FinishedIsQuiescent'
<1> USE DEF FinishedIsQuiescent, Open
<1>1. CASE UNCHANGED store
  BY <1>1 DEF store
<1>2. CASE Start
  BY <1>2 DEF Start
<1>3. CASE Resume
  BY <1>3 DEF Resume, Interrupted
<1>4. ASSUME ~finished, NEW tasks \in SUBSET Runnable, MarkRunning(tasks)
      PROVE  FinishedIsQuiescent'
  BY <1>4 DEF MarkRunning
<1>5. ASSUME NEW n \in Nodes, NEW success \in BOOLEAN, RecordOutcome(n, success)
      PROVE  FinishedIsQuiescent'
  BY <1>5 DEF RecordOutcome, StoreTypeOK
<1>6. ASSUME NEW p \in Patches, NEW t \in DOMAIN journal \ patched, CommitPatch(p, t)
      PROVE  FinishedIsQuiescent'
  BY <1>6 DEF CommitPatch, Accepts, Leftovers
<1> QED  BY <1>1, <1>2, <1>3, <1>4, <1>5, <1>6 DEF StoreStep

(***************************************************************************)
(* "Finish is a durable cancellation boundary": the patch that finishes a  *)
(* run leaves no node open, and no later transaction opens one.            *)
(***************************************************************************)
THEOREM FinishedIsQuiescentAlways == Spec => []FinishedIsQuiescent
<1>1. Init => FinishedIsQuiescent
  BY DEF Init, StoreInit, FinishedIsQuiescent
<1>2. TypeOK /\ ControlOK /\ FinishedIsQuiescent /\ [Next]_vars => FinishedIsQuiescent'
  BY FinishedStep, StepType, TypeOKSplits
<1> QED  BY <1>1, <1>2, TypeCorrect, PTL DEF Spec

-----------------------------------------------------------------------------
(***************************************************************************)
(* The journal beside the graph.  How a transaction with rows changes the  *)
(* transactions that hold a row of some kind for a node.                   *)
(***************************************************************************)
Holds(rows, kinds, n) == \E r \in rows : r.kind \in kinds /\ r.node = n

(* A transaction adds itself to the rows it holds. *)
LEMMA RowsAppend ==
  ASSUME StoreTypeOK, NEW rows, Commit(rows), NEW kinds, NEW n
  PROVE  RowsOf(kinds, n)' = RowsOf(kinds, n)
           \cup (IF Holds(rows, kinds, n) THEN {Len(journal')} ELSE {})
<1>1. RowsOf(kinds, n)' = {i \in DOMAIN journal' : Holds(journal'[i], kinds, n)}
  BY DEF RowsOf, Holds
<1>2. RowsOf(kinds, n) = {i \in DOMAIN journal : Holds(journal[i], kinds, n)}
  BY DEF RowsOf, Holds
<1>3. /\ DOMAIN journal' = DOMAIN journal \cup {Len(journal')}
      /\ \A i \in DOMAIN journal : journal'[i] = journal[i]
      /\ journal'[Len(journal')] = rows
  BY CommitAppends
<1>4. \A i \in DOMAIN journal : Holds(journal'[i], kinds, n) <=> Holds(journal[i], kinds, n)
  BY <1>3
<1>5. Holds(journal'[Len(journal')], kinds, n) <=> Holds(rows, kinds, n)
  BY <1>3
<1> QED  BY <1>1, <1>2, <1>3, <1>4, <1>5, Zenon

(* A transaction without such a row leaves them as they are. *)
LEMMA RowsKept ==
  ASSUME StoreTypeOK, NEW rows, Commit(rows), NEW kinds, NEW n,
         ~Holds(rows, kinds, n)
  PROVE  RowsOf(kinds, n)' = RowsOf(kinds, n)
<1>1. RowsOf(kinds, n)' = RowsOf(kinds, n)
        \cup (IF Holds(rows, kinds, n) THEN {Len(journal')} ELSE {})
  BY RowsAppend
<1> QED  BY <1>1

(* So does a step that leaves the store alone. *)
LEMMA RowsUnchanged ==
  ASSUME UNCHANGED store, NEW kinds, NEW n
  PROVE  RowsOf(kinds, n)' = RowsOf(kinds, n)
BY DEF RowsOf, store

(* The transactions that are no outcome leave the outcomes alone, in the   *)
(* journal and in the graph.                                               *)
LEMMA OutcomesKept ==
  ASSUME StoreTypeOK,
         \/ UNCHANGED store
         \/ Start
         \/ Resume
         \/ \E tasks \in SUBSET Runnable : MarkRunning(tasks)
         \/ \E p \in Patches, t \in DOMAIN journal \ patched : CommitPatch(p, t),
         NEW n \in Nodes, NEW kinds \in SUBSET OutcomeKinds
  PROVE  /\ RowsOf(kinds, n)' = RowsOf(kinds, n)
         /\ \A s \in {"succeeded", "failed"} : state'[n] = s <=> state[n] = s
<1> USE DEF Row, Holds, OutcomeKinds
<1>1. CASE UNCHANGED store
  BY <1>1, RowsUnchanged DEF store
<1>2. CASE Start
  BY <1>2, RowsKept DEF Start
<1>3. CASE Resume
  <2>1. RowsOf(kinds, n)' = RowsOf(kinds, n)
    BY <1>3, RowsKept DEF Resume
  <2> QED  BY <1>3, <2>1 DEF Resume, Interrupted
<1>4. ASSUME NEW tasks \in SUBSET Runnable, MarkRunning(tasks)
      PROVE  /\ RowsOf(kinds, n)' = RowsOf(kinds, n)
             /\ \A s \in {"succeeded", "failed"} : state'[n] = s <=> state[n] = s
  <2>1. RowsOf(kinds, n)' = RowsOf(kinds, n)
    BY <1>4, RowsKept DEF MarkRunning
  <2> QED  BY <1>4, <2>1 DEF MarkRunning
<1>5. ASSUME NEW p \in Patches, NEW t \in DOMAIN journal \ patched, CommitPatch(p, t)
      PROVE  /\ RowsOf(kinds, n)' = RowsOf(kinds, n)
             /\ \A s \in {"succeeded", "failed"} : state'[n] = s <=> state[n] = s
  <2> DEFINE rows5 == {Row("task_cancelled", m) : m \in p.cancel \cup Leftovers(p)}
                        \cup {PatchRow(t)}
  <2>1. ~Holds(rows5, kinds, n)
    BY DEF PatchRow
  <2>2. RowsOf(kinds, n)' = RowsOf(kinds, n)
    BY <1>5, <2>1, RowsKept DEF CommitPatch
  <2>3. \A s \in {"succeeded", "failed"} : state'[n] = s <=> state[n] = s
    BY <1>5 DEF CommitPatch, Accepts, Leftovers, Rewritten, Existing, Open
  <2> QED  BY <2>2, <2>3
<1> QED  BY <1>1, <1>2, <1>3, <1>4, <1>5
(* A new outcome is the only one of its node. *)
LEMMA OutcomeIsFirst ==
  ASSUME StoreTypeOK, OutcomesMatchState,
         NEW m \in Nodes, NEW success \in BOOLEAN, RecordOutcome(m, success),
         NEW n \in Nodes
  PROVE  /\ \A i, j \in RowsOf(OutcomeKinds, n)' : i = j
         /\ state'[n] = "succeeded" <=> RowsOf({"task_succeeded"}, n)' # {}
         /\ state'[n] = "failed" <=> RowsOf({"task_failed"}, n)' # {}
<1> DEFINE kind == IF success THEN "task_succeeded" ELSE "task_failed"
           rows == {Row(kind, m)}
<1>0. Commit(rows)
  BY DEF RecordOutcome
<1>1. ASSUME NEW kinds
      PROVE  RowsOf(kinds, n)' = RowsOf(kinds, n)
               \cup (IF Holds(rows, kinds, n) THEN {Len(journal')} ELSE {})
  BY <1>0, RowsAppend
<1>2. CASE n # m
  <2>1. ASSUME NEW kinds PROVE RowsOf(kinds, n)' = RowsOf(kinds, n)
    <3>1. ~Holds(rows, kinds, n)
      BY <1>2 DEF Holds, Row
    <3> QED  BY <3>1, <1>1
  <2>2. /\ RowsOf(OutcomeKinds, n)' = RowsOf(OutcomeKinds, n)
        /\ RowsOf({"task_succeeded"}, n)' = RowsOf({"task_succeeded"}, n)
        /\ RowsOf({"task_failed"}, n)' = RowsOf({"task_failed"}, n)
    BY <2>1
  <2>3. state'[n] = state[n]
    BY <1>2 DEF RecordOutcome, StoreTypeOK
  <2> QED  BY <2>2, <2>3 DEF OutcomesMatchState
<1>3. CASE n = m
  <2>1. RowsOf({"task_succeeded"}, n) = {} /\ RowsOf({"task_failed"}, n) = {}
    BY <1>3 DEF RecordOutcome, OutcomeAccepted, OutcomesMatchState
  <2>2. RowsOf(OutcomeKinds, n) = {}
    BY <2>1 DEF RowsOf, OutcomeKinds
  <2>3. /\ Holds(rows, OutcomeKinds, n)
        /\ Holds(rows, {"task_succeeded"}, n) <=> success
        /\ Holds(rows, {"task_failed"}, n) <=> ~success
    BY <1>3 DEF Holds, Row, OutcomeKinds
  <2>4. RowsOf(OutcomeKinds, n)' = {Len(journal')}
    BY <1>1, <2>2, <2>3
  <2>5. RowsOf({"task_succeeded"}, n)' = (IF success THEN {Len(journal')} ELSE {})
    BY <1>1, <2>1, <2>3
  <2>6. RowsOf({"task_failed"}, n)' = (IF success THEN {} ELSE {Len(journal')})
    BY <1>1, <2>1, <2>3
  <2>7. state'[n] = IF success THEN "succeeded" ELSE "failed"
    BY <1>3 DEF RecordOutcome, StoreTypeOK
  <2> QED  BY <2>4, <2>5, <2>6, <2>7
<1> QED  BY <1>2, <1>3

(* Journal and graph agree on the outcomes after every transaction. *)
LEMMA OutcomesStep ==
  ASSUME StoreTypeOK, OutcomesMatchState, StoreStep
  PROVE  OutcomesMatchState'
<1>1. SUFFICES ASSUME NEW n \in Nodes
               PROVE  /\ \A i, j \in RowsOf(OutcomeKinds, n)' : i = j
                      /\ state'[n] = "succeeded" <=> RowsOf({"task_succeeded"}, n)' # {}
                      /\ state'[n] = "failed" <=> RowsOf({"task_failed"}, n)' # {}
  BY DEF OutcomesMatchState
<1>2. ASSUME NEW m \in Nodes, NEW success \in BOOLEAN, RecordOutcome(m, success)
      PROVE  /\ \A i, j \in RowsOf(OutcomeKinds, n)' : i = j
             /\ state'[n] = "succeeded" <=> RowsOf({"task_succeeded"}, n)' # {}
             /\ state'[n] = "failed" <=> RowsOf({"task_failed"}, n)' # {}
  BY <1>2, OutcomeIsFirst
<1>3. CASE \/ UNCHANGED store
           \/ Start
           \/ Resume
           \/ \E tasks \in SUBSET Runnable : MarkRunning(tasks)
           \/ \E p \in Patches, t \in DOMAIN journal \ patched : CommitPatch(p, t)
  <2>1. /\ RowsOf(OutcomeKinds, n)' = RowsOf(OutcomeKinds, n)
        /\ \A s \in {"succeeded", "failed"} : state'[n] = s <=> state[n] = s
    BY <1>3, OutcomesKept
  <2>2. RowsOf({"task_succeeded"}, n)' = RowsOf({"task_succeeded"}, n)
    <3>1. {"task_succeeded"} \in SUBSET OutcomeKinds
      BY DEF OutcomeKinds
    <3> QED  BY <1>3, <3>1, OutcomesKept
  <2>3. RowsOf({"task_failed"}, n)' = RowsOf({"task_failed"}, n)
    <3>1. {"task_failed"} \in SUBSET OutcomeKinds
      BY DEF OutcomeKinds
    <3> QED  BY <1>3, <3>1, OutcomesKept
  <2> QED  BY <2>1, <2>2, <2>3 DEF OutcomesMatchState
<1> QED  BY <1>2, <1>3 DEF StoreStep

(***************************************************************************)
(* A node has one outcome in the journal at most, and has it exactly when  *)
(* the graph says so: through crashes, resumes, cancellations and even     *)
(* several executors on one run.                                           *)
(***************************************************************************)
THEOREM OutcomesMatchStateAlways == Spec => []OutcomesMatchState
<1>1. Init => OutcomesMatchState
  BY DEF Init, StoreInit, OutcomesMatchState, RowsOf
<1>2. TypeOK /\ ControlOK /\ OutcomesMatchState /\ [Next]_vars => OutcomesMatchState'
  BY StepType, OutcomesStep, TypeOKSplits
<1> QED  BY <1>1, <1>2, TypeCorrect, PTL DEF Spec
-----------------------------------------------------------------------------
(***************************************************************************)
(* Planners that connect only tasks the same patch adds.  The planner of   *)
(* runtime.py does; apply_patch does not ask for it, and the language      *)
(* model's planner of planner.py may do otherwise.                         *)
(***************************************************************************)
ConnectsNewTasks == \A p \in Patches : \A e \in p.connect : e[2] \in p.add

(***************************************************************************)
(* With such a planner no node is started before all its parents have      *)
(* succeeded, and no parent of a started node ever leaves that state.      *)
(***************************************************************************)
THEOREM StartedAfterParentsAlways ==
  ASSUME ConnectsNewTasks PROVE Spec => []StartedAfterParents
<1>1. Init => StartedAfterParents
  BY DEF Init, StoreInit, StartedAfterParents
<1>2. ASSUME StoreTypeOK, StartedAfterParents, StoreStep
      PROVE  StartedAfterParents'
  <2> SUFFICES ASSUME NEW e \in edges',
                      state'[e[2]] \in {"running", "succeeded", "failed"}
               PROVE  state'[e[1]] = "succeeded"
    BY DEF StartedAfterParents
  <2> USE DEF StoreTypeOK
  <2>0. e \in edges =>
          /\ e[1] \in Nodes /\ e[2] \in Nodes
          /\ state[e[2]] \in {"running", "succeeded", "failed"} => state[e[1]] = "succeeded"
    BY <1>2 DEF StartedAfterParents
  <2>1. CASE UNCHANGED store
    BY <2>0, <2>1 DEF store
  <2>2. CASE Start
    BY <2>0, <2>2 DEF Start
  <2>3. CASE Resume
    BY <2>0, <2>3 DEF Resume, Interrupted
  <2>4. ASSUME NEW tasks \in SUBSET Runnable, MarkRunning(tasks)
        PROVE  state'[e[1]] = "succeeded"
    <3>1. e \in edges
      BY <2>4 DEF MarkRunning
    <3>2. CASE e[2] \in tasks
      BY <2>0, <2>4, <3>1, <3>2 DEF MarkRunning, Runnable, ParentsSucceeded
    <3>3. CASE e[2] \notin tasks
      BY <2>0, <2>4, <3>1, <3>3 DEF MarkRunning
    <3> QED  BY <3>2, <3>3
  <2>5. ASSUME NEW n \in Nodes, NEW success \in BOOLEAN, RecordOutcome(n, success)
        PROVE  state'[e[1]] = "succeeded"
    <3>1. e \in edges /\ state[n] = "running"
      BY <2>5 DEF RecordOutcome, OutcomeAccepted
    <3>2. state[e[2]] \in {"running", "succeeded", "failed"}
      BY <1>2, <2>0, <2>5, <3>1 DEF RecordOutcome
    <3>3. state[e[1]] = "succeeded" /\ e[1] # n
      BY <2>0, <3>1, <3>2
    <3> QED  BY <2>0, <2>5, <3>1, <3>3 DEF RecordOutcome
  <2>6. ASSUME NEW p \in Patches, NEW t \in DOMAIN journal \ patched, CommitPatch(p, t)
        PROVE  state'[e[1]] = "succeeded"
    <3>1. p \in GraphPatch
      BY PatchesAssumption
    <3>2. CASE e \in p.connect
      <4>1. e[2] \in p.add /\ e[2] \in Nodes
        BY <3>1, <3>2 DEF ConnectsNewTasks, GraphPatch
      <4>2. state'[e[2]] \in {"pending", "waiting", "cancelled"}
        BY <2>6, <4>1 DEF CommitPatch, Rewritten
      <4> QED  BY <4>2
    <3>3. CASE e \in edges
      <4>1. state[e[2]] = state'[e[2]]
        BY <2>0, <2>6, <3>3
           DEF CommitPatch, Accepts, Rewritten, Leftovers, Existing, Open
      <4>2. state[e[1]] = "succeeded"
        BY <2>0, <3>3, <4>1
      <4> QED  BY <2>0, <2>6, <3>3, <4>2
                  DEF CommitPatch, Accepts, Rewritten, Leftovers, Existing, Open
    <3> QED  BY <2>6, <3>2, <3>3 DEF CommitPatch
  <2> QED  BY <1>2, <2>1, <2>2, <2>3, <2>4, <2>5, <2>6 DEF StoreStep
<1>3. TypeOK /\ ControlOK /\ StartedAfterParents /\ [Next]_vars => StartedAfterParents'
  BY <1>2, StepType, TypeOKSplits
<1> QED  BY <1>1, <1>3, TypeCorrect, PTL DEF Spec

-----------------------------------------------------------------------------
(***************************************************************************)
(* A decision is taken once, and the executor over its store implements    *)
(* RunContract: the patch table, the journal and the queues agree.         *)
(***************************************************************************)

(* The transactions that applied a patch for t. *)
Applied(t) == {i \in DOMAIN journal : PatchRow(t) \in journal[i]}

(***************************************************************************)
(* OnePatchPerEvent for every number t, and not only for the rows there    *)
(* are: so it says of the next row that no patch refers to it yet.         *)
(***************************************************************************)
PatchesOK ==
  /\ patched \subseteq PlannerEvents
  /\ \A t \in Nat : /\ t \in patched <=> Applied(t) # {}
                    /\ \A i, j \in Applied(t) : i = j /\ t < i

(* What an invocation has still to plan are events of the planner. *)
QueueOK == \A i \in Invocations : queue[i] \subseteq PlannerEvents

-----------------------------------------------------------------------------
(* A transaction adds itself to the patches it holds. *)
LEMMA AppliedAppend ==
  ASSUME StoreTypeOK, NEW rows, Commit(rows), NEW t
  PROVE  Applied(t)' = Applied(t)
           \cup (IF PatchRow(t) \in rows THEN {Len(journal')} ELSE {})
<1>1. /\ DOMAIN journal' = DOMAIN journal \cup {Len(journal')}
      /\ Len(journal') \notin DOMAIN journal
      /\ \A i \in DOMAIN journal : journal'[i] = journal[i]
      /\ journal'[Len(journal')] = rows
  BY CommitAppends
<1>2. Applied(t)' = {i \in DOMAIN journal' : PatchRow(t) \in journal'[i]}
  BY DEF Applied, PatchRow
<1> QED  BY <1>1, <1>2 DEF Applied

(* An event of the planner stays one. *)
LEMMA EventsKept ==
  ASSUME StoreTypeOK, StoreStep
  PROVE  PlannerEvents \subseteq PlannerEvents'
<1>1. ASSUME NEW rows, Commit(rows)
      PROVE  PlannerEvents \subseteq PlannerEvents'
  <2>1. /\ DOMAIN journal \subseteq DOMAIN journal'
        /\ \A i \in DOMAIN journal : journal'[i] = journal[i]
    BY <1>1, CommitAppends
  <2> QED  BY <2>1 DEF PlannerEvents
<1>2. CASE UNCHANGED store
  BY <1>2 DEF store, PlannerEvents
<1> QED
  BY <1>1, <1>2 DEF StoreStep, Start, Resume, MarkRunning, RecordOutcome, CommitPatch

-----------------------------------------------------------------------------
(* A transaction that is no patch leaves the patches alone. *)
LEMMA NoPatchKeeps ==
  ASSUME StoreTypeOK, PatchesOK, NEW rows, Commit(rows),
         \A r \in rows : r.kind # "graph_patched",
         patched' = patched, PlannerEvents \subseteq PlannerEvents'
  PROVE  PatchesOK'
<1>1. ASSUME NEW t \in Nat PROVE Applied(t)' = Applied(t)
  <2>1. PatchRow(t) \notin rows
    BY DEF PatchRow
  <2>2. Applied(t)' = Applied(t) \cup (IF PatchRow(t) \in rows THEN {Len(journal')} ELSE {})
    BY AppliedAppend
  <2> QED  BY <2>1, <2>2
<1> QED  BY <1>1 DEF PatchesOK

(* A patch is the first, and the only one, of the event that triggers it. *)
LEMMA PatchIsFirst ==
  ASSUME StoreTypeOK, PatchesOK,
         NEW p \in Patches, NEW t \in DOMAIN journal \ patched, CommitPatch(p, t),
         t \in PlannerEvents, PlannerEvents \subseteq PlannerEvents'
  PROVE  PatchesOK'
<1> DEFINE rows == {Row("task_cancelled", n) : n \in p.cancel \cup Leftovers(p)}
                     \cup {PatchRow(t)}
<1>1. Commit(rows) /\ patched' = patched \cup {t}
  BY DEF CommitPatch
<1>2. t \in Nat /\ t < Len(journal')
  <2>1. /\ Len(journal) \in Nat /\ Len(journal') = Len(journal) + 1
        /\ DOMAIN journal = 1..Len(journal)
    BY <1>1, CommitAppends
  <2> QED  BY <2>1
<1>3. PatchRow(t) \in rows
  OBVIOUS
<1>4. ASSUME NEW u \in Nat, u # t PROVE PatchRow(u) \notin rows
  BY <1>4 DEF PatchRow, Row
<1> HIDE DEF rows
<1>5. ASSUME NEW u
      PROVE  Applied(u)' = Applied(u)
               \cup (IF PatchRow(u) \in rows THEN {Len(journal')} ELSE {})
  BY <1>1, AppliedAppend
<1>6. Applied(t)' = {Len(journal')}
  BY <1>2, <1>3, <1>5 DEF PatchesOK
<1>7. ASSUME NEW u \in Nat
      PROVE  /\ u \in patched' <=> Applied(u)' # {}
             /\ \A i, j \in Applied(u)' : i = j /\ u < i
  <2>1. CASE u = t
    BY <1>1, <1>2, <1>6, <2>1
  <2>2. CASE u # t
    <3>1. Applied(u)' = Applied(u)
      BY <1>4, <1>5, <2>2
    <3> QED  BY <1>1, <2>2, <3>1 DEF PatchesOK
  <2> QED  BY <2>1, <2>2
<1>8. patched' \subseteq PlannerEvents'
  BY <1>1 DEF PatchesOK
<1> QED  BY <1>7, <1>8 DEF PatchesOK
(* Every transaction keeps the patches in order, if it is triggered well.  *)
LEMMA PatchesStep ==
  ASSUME StoreTypeOK, PatchesOK, StoreStep,
         patched' \subseteq patched \cup PlannerEvents
  PROVE  PatchesOK'
<1>0. PlannerEvents \subseteq PlannerEvents'
  BY EventsKept
<1>1. CASE UNCHANGED store
  BY <1>1 DEF store, PatchesOK, PlannerEvents, Applied
<1>2. CASE Start
  <2>1. \A r \in {Row("run_started", NoNode)} : r.kind # "graph_patched"
    BY DEF Row
  <2> QED  BY <1>0, <1>2, <2>1, NoPatchKeeps DEF Start
<1>3. CASE Resume
  <2>1. \A r \in {Row("run_resumed", NoNode)} : r.kind # "graph_patched"
    BY DEF Row
  <2> QED  BY <1>0, <1>3, <2>1, NoPatchKeeps DEF Resume
<1>4. ASSUME NEW tasks \in SUBSET Runnable, MarkRunning(tasks)
      PROVE  PatchesOK'
  <2>1. \A r \in {Row("task_started", n) : n \in tasks} : r.kind # "graph_patched"
    BY DEF Row
  <2> QED  BY <1>0, <1>4, <2>1, NoPatchKeeps DEF MarkRunning
<1>5. ASSUME NEW n \in Nodes, NEW success \in BOOLEAN, RecordOutcome(n, success)
      PROVE  PatchesOK'
  <2>1. \A r \in {Row(IF success THEN "task_succeeded" ELSE "task_failed", n)} :
          r.kind # "graph_patched"
    BY DEF Row
  <2> QED  BY <1>0, <1>5, <2>1, NoPatchKeeps DEF RecordOutcome
<1>6. ASSUME NEW p \in Patches, NEW t \in DOMAIN journal \ patched, CommitPatch(p, t)
      PROVE  PatchesOK'
  <2>1. t \in PlannerEvents
    BY <1>6 DEF CommitPatch
  <2> QED  BY <1>0, <1>6, <2>1, PatchIsFirst
<1> QED  BY <1>1, <1>2, <1>3, <1>4, <1>5, <1>6 DEF StoreStep

-----------------------------------------------------------------------------
(* The new outcome is an event of the planner. *)
LEMMA OutcomeIsEvent ==
  ASSUME StoreTypeOK, NEW n \in Nodes, NEW success \in BOOLEAN,
         RecordOutcome(n, success)
  PROVE  Len(journal') \in PlannerEvents'
<1> DEFINE row == Row(IF success THEN "task_succeeded" ELSE "task_failed", n)
<1>1. Commit({row})
  BY DEF RecordOutcome
<1>2. Len(journal') \in DOMAIN journal' /\ journal'[Len(journal')] = {row}
  BY <1>1, CommitAppends
<1>3. row.kind \in PlannerKinds
  BY DEF Row, PlannerKinds
<1> QED  BY <1>2, <1>3 DEF PlannerEvents

(* Queues hold events of the planner: they are filled from the journal or  *)
(* with the outcome just recorded, and shrink otherwise.                   *)
LEMMA QueueStep ==
  ASSUME TypeOK, ControlOK, QueueOK, [Next]_vars
  PROVE  QueueOK'
<1>0. StoreTypeOK /\ PlannerEvents \subseteq PlannerEvents'
  BY StepType, EventsKept, TypeOKSplits
<1>1. ASSUME \A i \in Invocations : queue'[i] \subseteq queue[i]
      PROVE  QueueOK'
  BY <1>0, <1>1 DEF QueueOK
<1>2. ASSUME NEW i \in Invocations, Begin(i)
      PROVE  QueueOK'
  <2>1. queue' = [queue EXCEPT ![i] = Replay]
    BY <1>2 DEF Begin
  <2>2. Replay \subseteq PlannerEvents'
    BY DEF Replay, PendingPlannerEvents
  <2> QED  BY <1>0, <2>1, <2>2 DEF TypeOK, QueueOK
<1>3. ASSUME NEW i \in Invocations, NEW t \in Futures, TakeOutcome(i, t)
      PROVE  QueueOK'
  <2>1. t[1] \in Nodes
    BY DEF Futures
  <2>2. Len(journal') \in PlannerEvents'
    BY <1>0, <1>3, <2>1, OutcomeIsEvent DEF TakeOutcome
  <2>3. queue' = queue \/ queue' = [queue EXCEPT ![i] = {Len(journal')}]
    BY <1>3 DEF TakeOutcome
  <2>4. CASE queue' = queue
    BY <1>1, <2>4
  <2>5. CASE queue' = [queue EXCEPT ![i] = {Len(journal')}]
    <3>1. \A j \in Invocations :
            queue'[j] = IF j = i THEN {Len(journal')} ELSE queue[j]
      BY <2>5 DEF TypeOK
    <3> QED  BY <1>0, <2>2, <3>1 DEF QueueOK
  <2> QED  BY <2>3, <2>4, <2>5
<1>4. ASSUME NEW i \in Invocations, PlanReturns(i)
      PROVE  QueueOK'
  <2>1. queue' = [queue EXCEPT ![i] = IF finished' THEN {} ELSE @ \ {First(queue[i])}]
    BY <1>4 DEF PlanReturns, PlanAnswers
  <2>2. \A j \in Invocations : queue'[j] \subseteq queue[j]
    BY <2>1, Zenon DEF TypeOK
  <2> QED  BY <1>1, <2>2
<1>5. ASSUME NEW i \in Invocations,
             PlanRaises(i) \/ \E t \in Futures : OutcomeRefused(i, t)
      PROVE  QueueOK'
  BY <1>1, <1>5 DEF TypeOK, OutcomeRefused, PlanRaises, Raise, Idle
<1>6. ASSUME NEW i \in Invocations,
             \/ Launch(i) \/ LaunchNothing(i) \/ WaitReturns(i)
             \/ \E t \in Futures : DropResult(i, t) \/ Worker(i, t)
      PROVE  QueueOK'
  <2>1. queue' = queue
    BY <1>6 DEF Launch, LaunchNothing, WaitReturns, DropResult, Worker, WorkerEnds,
                WorkerCancelled
  <2> QED  BY <1>1, <2>1
<1>7. CASE Crash
  BY <1>1, <1>7 DEF Crash
<1>8. CASE UNCHANGED vars
  BY <1>1, <1>8 DEF vars, volatile
<1> QED
  BY <1>2, <1>3, <1>4, <1>5, <1>6, <1>7, <1>8 DEF Next, Step, Handle

(* Only an event of the planner that was queued gets a patch. *)
LEMMA PatchedWereQueued ==
  ASSUME TypeOK, ControlOK, QueueOK, [Next]_vars
  PROVE  patched' \subseteq patched \cup PlannerEvents
<1>1. ASSUME NEW i \in Invocations, PlanReturns(i)
      PROVE  patched' \subseteq patched \cup PlannerEvents
  <2>1. First(queue[i]) \in PlannerEvents
    BY <1>1, FirstOfEvents DEF TypeOK, StoreTypeOK, ControlOK, QueueOK, PlanReturns, PlanAnswers
  <2> QED  BY <1>1, <2>1 DEF PlanReturns, PlanAnswers, CommitPatch, store
<1>2. ASSUME NEW i \in Invocations,
             \/ Begin(i) \/ Launch(i) \/ LaunchNothing(i) \/ WaitReturns(i) \/ PlanRaises(i)
             \/ \E t \in Futures : \/ DropResult(i, t) \/ TakeOutcome(i, t)
                                  \/ OutcomeRefused(i, t) \/ Worker(i, t)
      PROVE  patched' = patched
  BY <1>2 DEF Begin, Start, Resume, Launch, MarkRunning, LaunchNothing, WaitReturns,
              DropResult, TakeOutcome, RecordOutcome, OutcomeRefused, PlanRaises,
              Worker, WorkerEnds, WorkerCancelled, store
<1>3. CASE Crash \/ UNCHANGED vars
  BY <1>3 DEF Crash, vars, store
<1> QED  BY <1>1, <1>2, <1>3 DEF Next, Step, Handle

(***************************************************************************)
(* Every event the planner is triggered by is patched at most once, and    *)
(* the patch table and the journal agree on which: through crashes between *)
(* an outcome and its patch, replays, and executors that plan side by side.*)
(***************************************************************************)
THEOREM OnePatchPerEventAlways == Spec => []OnePatchPerEvent
<1> DEFINE Inv == TypeOK /\ ControlOK /\ QueueOK /\ PatchesOK
<1>1. Init => Inv
  <2>1. Init => QueueOK
    BY DEF Init, QueueOK
  <2>2. Init => PatchesOK
    BY DEF Init, StoreInit, PatchesOK, Applied
  <2> QED  BY <2>1, <2>2, InitType
<1>2. Inv /\ [Next]_vars => Inv'
  BY StepType, QueueStep, PatchedWereQueued, PatchesStep, TypeOKSplits
<1>3. Inv => OnePatchPerEvent
  <2> SUFFICES ASSUME Inv PROVE OnePatchPerEvent
    OBVIOUS
  <2>1. DOMAIN journal \subseteq Nat
    BY DEF TypeOK, StoreTypeOK
  <2> QED  BY <2>1 DEF PatchesOK, Applied, OnePatchPerEvent
<1> QED  BY <1>1, <1>2, <1>3, PTL DEF Spec

-----------------------------------------------------------------------------
(***************************************************************************)
(* The events of the planner: each is alone in its transaction, an outcome *)
(* is that of a node, the start of the run is that of no node, there is    *)
(* one start at most, and no event nor node before the run is known.       *)
(***************************************************************************)
EventsOK ==
  /\ \A i \in DOMAIN journal : \A r \in journal[i] :
       /\ r.kind = "run_started" => r.node = NoNode
       /\ r.kind \in OutcomeKinds => r.node \in Nodes
       /\ r.kind \in PlannerKinds => journal[i] = {r}
  /\ \A i, j \in RowsOf({"run_started"}, NoNode) : i = j
  /\ ~known => PlannerEvents = {} /\ \A n \in Nodes : state[n] = "absent"

-----------------------------------------------------------------------------
(* A transaction without an event of the planner leaves the events alone.  *)
LEMMA NoEventKeeps ==
  ASSUME StoreTypeOK, EventsOK, NEW rows, Commit(rows),
         \A r \in rows : r.kind \notin PlannerKinds, known' = known,
         ~known => \A n \in Nodes : state'[n] = "absent"
  PROVE  EventsOK'
<1>1. /\ DOMAIN journal' = DOMAIN journal \cup {Len(journal')}
      /\ \A i \in DOMAIN journal : journal'[i] = journal[i]
      /\ journal'[Len(journal')] = rows
  BY CommitAppends
<1>2. \A i \in DOMAIN journal' : \A r \in journal'[i] :
        /\ r.kind = "run_started" => r.node = NoNode
        /\ r.kind \in OutcomeKinds => r.node \in Nodes
        /\ r.kind \in PlannerKinds => journal'[i] = {r}
  BY <1>1 DEF EventsOK, OutcomeKinds, PlannerKinds
<1>3. RowsOf({"run_started"}, NoNode)' = RowsOf({"run_started"}, NoNode)
  BY RowsKept DEF Holds, PlannerKinds
<1>4. PlannerEvents' = PlannerEvents
  BY <1>1 DEF PlannerEvents
<1> QED  BY <1>2, <1>3, <1>4 DEF EventsOK

(* A transaction that is one event of the planner is the only one of it.   *)
LEMMA EventsStep ==
  ASSUME StoreTypeOK, EventsOK, StoreStep,
         patched' \subseteq patched \cup PlannerEvents
  PROVE  EventsOK'
<1>1. CASE UNCHANGED store
  BY <1>1 DEF store, EventsOK, RowsOf, PlannerEvents
<1>2. CASE Start
  <2> DEFINE row == Row("run_started", NoNode)
  <2>1. Commit({row}) /\ ~known /\ known'
    BY <1>2 DEF Start
  <2>2. /\ DOMAIN journal' = DOMAIN journal \cup {Len(journal')}
        /\ \A i \in DOMAIN journal : journal'[i] = journal[i]
        /\ journal'[Len(journal')] = {row}
    BY <2>1, CommitAppends
  <2>3. row.kind = "run_started" /\ row.node = NoNode
    BY DEF Row
  <2>4. RowsOf({"run_started"}, NoNode) = {}
    BY <2>1 DEF EventsOK, RowsOf, PlannerEvents, PlannerKinds
  <2>5. RowsOf({"run_started"}, NoNode)' = {Len(journal')}
    <3>1. Holds({row}, {"run_started"}, NoNode)
      BY <2>3 DEF Holds
    <3>2. RowsOf({"run_started"}, NoNode)' = RowsOf({"run_started"}, NoNode)
            \cup (IF Holds({row}, {"run_started"}, NoNode) THEN {Len(journal')} ELSE {})
      BY <2>1, RowsAppend
    <3> QED  BY <2>4, <3>1, <3>2
  <2>6. \A i \in DOMAIN journal' : \A r \in journal'[i] :
          /\ r.kind = "run_started" => r.node = NoNode
          /\ r.kind \in OutcomeKinds => r.node \in Nodes
          /\ r.kind \in PlannerKinds => journal'[i] = {r}
    BY <2>2, <2>3 DEF EventsOK, OutcomeKinds
  <2> QED  BY <2>1, <2>5, <2>6 DEF EventsOK
<1>3. CASE Resume
  <2>1. \A r \in {Row("run_resumed", NoNode)} : r.kind \notin PlannerKinds
    BY DEF Row, PlannerKinds
  <2> QED  BY <1>3, <2>1, NoEventKeeps DEF Resume
<1>4. ASSUME NEW tasks \in SUBSET Runnable, MarkRunning(tasks)
      PROVE  EventsOK'
  <2>1. \A r \in {Row("task_started", n) : n \in tasks} : r.kind \notin PlannerKinds
    BY DEF Row, PlannerKinds
  <2>2. ~known => \A n \in Nodes : state'[n] = "absent"
    BY <1>4 DEF EventsOK, MarkRunning
  <2> QED  BY <1>4, <2>1, <2>2, NoEventKeeps DEF MarkRunning
<1>5. ASSUME NEW n \in Nodes, NEW success \in BOOLEAN, RecordOutcome(n, success)
      PROVE  EventsOK'
  <2> DEFINE row == Row(IF success THEN "task_succeeded" ELSE "task_failed", n)
  <2>1. Commit({row}) /\ known' = known
    BY <1>5 DEF RecordOutcome
  <2>2. /\ DOMAIN journal' = DOMAIN journal \cup {Len(journal')}
        /\ \A i \in DOMAIN journal : journal'[i] = journal[i]
        /\ journal'[Len(journal')] = {row}
    BY <2>1, CommitAppends
  <2>3. row.kind \in OutcomeKinds /\ row.kind # "run_started" /\ row.node = n
    BY DEF Row, OutcomeKinds
  <2>4. RowsOf({"run_started"}, NoNode)' = RowsOf({"run_started"}, NoNode)
    <3>1. ~Holds({row}, {"run_started"}, NoNode)
      BY <2>3 DEF Holds
    <3> QED  BY <2>1, <3>1, RowsKept
  <2>5. \A i \in DOMAIN journal' : \A r \in journal'[i] :
          /\ r.kind = "run_started" => r.node = NoNode
          /\ r.kind \in OutcomeKinds => r.node \in Nodes
          /\ r.kind \in PlannerKinds => journal'[i] = {r}
    BY <2>2, <2>3 DEF EventsOK
  <2>6. known
    BY <1>5 DEF EventsOK, RecordOutcome, OutcomeAccepted
  <2> QED  BY <2>1, <2>4, <2>5, <2>6 DEF EventsOK
<1>6. ASSUME NEW p \in Patches, NEW t \in DOMAIN journal \ patched, CommitPatch(p, t)
      PROVE  EventsOK'
  <2>1. \A r \in {Row("task_cancelled", n) : n \in p.cancel \cup Leftovers(p)}
                   \cup {PatchRow(t)} : r.kind \notin PlannerKinds
    BY DEF Row, PatchRow, PlannerKinds
  <2>2. known
    BY <1>6 DEF EventsOK, CommitPatch
  <2> QED  BY <1>6, <2>1, <2>2, NoEventKeeps DEF CommitPatch
<1> QED  BY <1>1, <1>2, <1>3, <1>4, <1>5, <1>6 DEF StoreStep
-----------------------------------------------------------------------------
(***************************************************************************)
(* An event of the planner is that of one task that settled, or the start  *)
(* of the run, and the only event of it.                                   *)
(***************************************************************************)
Triggers == Nodes \cup {NoNode}

LEMMA EventIsOfOne ==
  ASSUME EventsOK, OutcomesMatchState, NEW t \in PlannerEvents
  PROVE  \E e \in Triggers :
           /\ \A n \in Triggers : t \in RowsOf(PlannerKinds, n) <=> n = e
           /\ RowsOf(PlannerKinds, e) = {t}
           /\ IF e \in Nodes THEN state[e] \in {"succeeded", "failed"} ELSE known
<1>1. PICK r \in journal[t] : t \in DOMAIN journal /\ r.kind \in PlannerKinds
  BY DEF PlannerEvents
<1>2. journal[t] = {r}
  BY <1>1 DEF EventsOK
<1>3. \A n \in Triggers : t \in RowsOf(PlannerKinds, n) <=> n = r.node
  BY <1>1, <1>2 DEF RowsOf
<1>4. CASE r.kind = "run_started"
  <2>1. r.node = NoNode
    BY <1>1, <1>4 DEF EventsOK
  <2>2. NoNode \notin Nodes
    BY NodesAssumption DEF NoNode
  <2>3. RowsOf(PlannerKinds, NoNode) = RowsOf({"run_started"}, NoNode)
    BY <2>2 DEF RowsOf, EventsOK, PlannerKinds, OutcomeKinds
  <2>4. RowsOf(PlannerKinds, NoNode) = {t}
    BY <1>3, <2>1, <2>3 DEF EventsOK, Triggers
  <2>5. known
    BY DEF EventsOK
  <2> QED  BY <1>3, <2>1, <2>2, <2>4, <2>5 DEF Triggers
<1>5. CASE r.kind \in OutcomeKinds
  <2>1. r.node \in Nodes /\ r.node # NoNode
    BY <1>1, <1>5, NodesAssumption DEF EventsOK, NoNode
  <2>2. RowsOf(PlannerKinds, r.node) = RowsOf(OutcomeKinds, r.node)
    BY <2>1 DEF RowsOf, EventsOK, PlannerKinds, OutcomeKinds
  <2>3. RowsOf(PlannerKinds, r.node) = {t}
    BY <1>3, <2>1, <2>2 DEF OutcomesMatchState, Triggers
  <2>4. state[r.node] \in {"succeeded", "failed"}
    <3>1. t \in RowsOf({"task_succeeded"}, r.node) \/ t \in RowsOf({"task_failed"}, r.node)
      BY <1>1, <1>5 DEF RowsOf, OutcomeKinds
    <3> QED  BY <2>1, <3>1 DEF OutcomesMatchState
  <2> QED  BY <1>3, <2>1, <2>3, <2>4 DEF Triggers
<1> QED  BY <1>1, <1>4, <1>5 DEF PlannerKinds, OutcomeKinds

(* What the contract sees of a state. *)
LEMMA ProgressOf ==
  /\ Progress("absent") = "unknown" /\ Progress("cancelled") = "dropped"
  /\ \A s \in Open : Progress(s) = "open"
  /\ \A s \in {"succeeded", "failed"} : Progress(s) = "settled"
BY DEF Progress, Open
-----------------------------------------------------------------------------
(* Transactions that decide nothing leave the decided triggers alone: what *)
(* they append has no patch yet.                                           *)
LEMMA DecidedKept ==
  ASSUME StoreTypeOK, NEW rows, Commit(rows), patched' = patched
  PROVE  DecidedEvents' = DecidedEvents
<1>1. ASSUME NEW n \in Triggers
      PROVE  (RowsOf(PlannerKinds, n) \cap patched)' = RowsOf(PlannerKinds, n) \cap patched
  <2>1. RowsOf(PlannerKinds, n)' = RowsOf(PlannerKinds, n)
          \cup (IF Holds(rows, PlannerKinds, n) THEN {Len(journal')} ELSE {})
    BY RowsAppend
  <2>2. Len(journal') \notin patched
    BY CommitAppends DEF StoreTypeOK
  <2> QED  BY <2>1, <2>2
<1> QED  BY <1>1 DEF DecidedEvents, Triggers

(* Starting, parking, interrupting and resuming are no step to it. *)
LEMMA StutterStep ==
  ASSUME StoreTypeOK,
         UNCHANGED store \/ Resume \/ \E tasks \in SUBSET Runnable : MarkRunning(tasks)
  PROVE  UNCHANGED Contract!vars
<1>1. /\ UNCHANGED <<known, finished>>
      /\ DecidedEvents' = DecidedEvents
  <2>1. CASE UNCHANGED store
    BY <2>1 DEF store, DecidedEvents, RowsOf
  <2>2. CASE Resume
    BY <2>2, DecidedKept DEF Resume
  <2>3. ASSUME NEW tasks \in SUBSET Runnable, MarkRunning(tasks)
        PROVE  UNCHANGED <<known, finished>> /\ DecidedEvents' = DecidedEvents
    BY <2>3, DecidedKept DEF MarkRunning
  <2> QED  BY <2>1, <2>2, <2>3
<1>2. \A n \in Nodes : state'[n] = state[n] \/ (state[n] \in Open /\ state'[n] \in Open)
  BY DEF store, Resume, Interrupted, MarkRunning, Open
<1>3. \A n \in Nodes : Progress(state'[n]) = Progress(state[n])
  BY <1>2, ProgressOf
<1> QED  BY <1>1, <1>3 DEF Contract!vars
(* The first start of the run opens it. *)
LEMMA OpenStep ==
  ASSUME StoreTypeOK, Start
  PROVE  Contract!OpenRun
<1>1. DecidedEvents' = DecidedEvents
  BY DecidedKept DEF Start
<1> QED  BY <1>1 DEF Start, Contract!OpenRun

(* An outcome settles its task, in a run that is not closed. *)
LEMMA SettleStep ==
  ASSUME StoreTypeOK, FinishedIsQuiescent,
         NEW n \in Nodes, NEW success \in BOOLEAN, RecordOutcome(n, success)
  PROVE  Contract!Settle(n)
<1>1. state[n] = "running" /\ ~finished
  BY DEF RecordOutcome, OutcomeAccepted, FinishedIsQuiescent, Open
<1>2. DecidedEvents' = DecidedEvents
  BY DecidedKept DEF RecordOutcome
<1>3. UNCHANGED <<known, finished>>
  BY DEF RecordOutcome
<1>4. PICK s \in {"succeeded", "failed"} : state' = [state EXCEPT ![n] = s]
  BY DEF RecordOutcome
<1>5. Progress(state[n]) = "open" /\ Progress(s) = "settled"
  BY <1>1, ProgressOf DEF Open
<1>6. \A m \in Nodes : Progress(state'[m]) = IF m = n THEN "settled" ELSE Progress(state[m])
  BY <1>4, <1>5 DEF StoreTypeOK
<1>7. [m \in Nodes |-> Progress(state'[m])]
        = [[m \in Nodes |-> Progress(state[m])] EXCEPT ![n] = "settled"]
  BY <1>6
<1> QED  BY <1>1, <1>2, <1>3, <1>5, <1>7 DEF Contract!Settle

(* What a patch may do to one task, as the contract sees it. *)
LEMMA PatchAndTask ==
  ASSUME StoreTypeOK, NEW p \in Patches, NEW t, CommitPatch(p, t), NEW n \in Nodes
  PROVE  LET old == Progress(state[n])
             new == Progress(state'[n])
         IN  /\ new \in {"unknown", "open", "settled", "dropped"}
             /\ \/ new = old
                \/ old = "unknown" /\ new \in {"open", "dropped"}
                \/ old = "open" /\ new = "dropped"
             /\ finished' => new # "open"
<1>1. state'[n] = IF n \in Leftovers(p) THEN "cancelled" ELSE Rewritten(p, n)
  BY DEF CommitPatch
<1>2. Accepts(p) /\ finished' = (finished \/ p.finish)
  BY DEF CommitPatch
<1>3. /\ state[n] \in {"absent"} \cup NodeState
      /\ state'[n] \in {"absent"} \cup NodeState
  <2>1. state[n] \in {"absent"} \cup NodeState
    BY DEF StoreTypeOK
  <2> QED  BY <1>1, <2>1 DEF Rewritten, NodeState, Open, Terminal
<1>4. /\ p.add \cap Existing = {}
      /\ \A m \in p.cancel : state[m] \in Open
      /\ \A m \in p.wait \cap Existing : state[m] = "pending"
      /\ \A m \in p.resume \cap Existing : state[m] = "waiting"
  BY <1>2 DEF Accepts
<1>5. n \in Existing <=> state[n] # "absent"
  BY DEF Existing
<1>6. \/ Rewritten(p, n) = state[n]
      \/ /\ state[n] \in Open \cup {"absent"}
         /\ Rewritten(p, n) \in Open \cup {"cancelled"}
  <2>1. n \in p.resume \cup p.wait => state[n] \in {"absent", "pending", "waiting"}
    BY <1>4, <1>5
  <2>2. n \in p.cancel => state[n] \in Open
    BY <1>4
  <2>3. n \in p.add => n \notin Existing
    BY <1>4, Zenon
  <2> QED  BY <1>5, <2>1, <2>2, <2>3 DEF Rewritten, Open
<1>7. n \in Leftovers(p) <=> p.finish /\ Rewritten(p, n) \in Open
  BY DEF Leftovers
<1>8. \/ state'[n] = state[n]
      \/ state[n] = "absent" /\ state'[n] \in Open \cup {"cancelled"}
      \/ state[n] \in Open /\ state'[n] \in Open \cup {"cancelled"}
  BY <1>1, <1>6, <1>7 DEF Open
<1>9. finished' => state'[n] \notin Open
  BY <1>1, <1>2, <1>4, <1>7 DEF Accepts, Open
<1>10. \A s \in {"absent"} \cup NodeState :
        /\ s = "absent" => Progress(s) = "unknown"
        /\ s \in Open => Progress(s) = "open"
        /\ s \in {"succeeded", "failed"} => Progress(s) = "settled"
        /\ s = "cancelled" => Progress(s) = "dropped"
  BY ProgressOf
<1> HIDE DEF Progress
<1> QED  BY <1>3, <1>8, <1>9, <1>10 DEF NodeState, Terminal

(* A patch is the one decision about the event that triggers it. *)
LEMMA DecideStep ==
  ASSUME StoreTypeOK, EventsOK, OutcomesMatchState,
         NEW p \in Patches, NEW t \in PlannerEvents \ patched, CommitPatch(p, t)
  PROVE  \E e \in Triggers : Contract!Decide(e)
<1> DEFINE rows == {Row("task_cancelled", n) : n \in p.cancel \cup Leftovers(p)}
                     \cup {PatchRow(t)}
<1>1. Commit(rows) /\ patched' = patched \cup {t} /\ known' = known /\ ~finished
  BY DEF CommitPatch, Accepts
<1>2. \A r \in rows : r.kind \notin PlannerKinds
  BY DEF Row, PatchRow, PlannerKinds
<1> HIDE DEF rows
<1>3. ASSUME NEW n \in Triggers PROVE RowsOf(PlannerKinds, n)' = RowsOf(PlannerKinds, n)
  BY <1>1, <1>2, RowsKept DEF Holds
<1>4. PICK e \in Triggers :
        /\ \A n \in Triggers : t \in RowsOf(PlannerKinds, n) <=> n = e
        /\ RowsOf(PlannerKinds, e) = {t}
        /\ IF e \in Nodes THEN state[e] \in {"succeeded", "failed"} ELSE known
  BY EventIsOfOne
<1>5. DecidedEvents' = DecidedEvents \cup {e}
  <2>1. DecidedEvents' = {n \in Triggers : RowsOf(PlannerKinds, n) \cap (patched \cup {t}) # {}}
    BY <1>1, <1>3 DEF DecidedEvents, Triggers
  <2>2. DecidedEvents = {n \in Triggers : RowsOf(PlannerKinds, n) \cap patched # {}}
    BY DEF DecidedEvents, Triggers
  <2> QED  BY <1>4, <2>1, <2>2
<1>6. e \notin DecidedEvents
  BY <1>4 DEF DecidedEvents
<1>7. e \in Contract!Decidable
  <2>1. e \in Nodes => Progress(state[e]) = "settled"
    BY <1>4, ProgressOf
  <2> QED  BY <1>4, <2>1 DEF Contract!Decidable, Contract!Start, Triggers, NoNode
<1>8. finished' \in BOOLEAN
  BY PatchesAssumption DEF CommitPatch, StoreTypeOK, GraphPatch
<1>9. ASSUME NEW n \in Nodes
      PROVE  /\ Progress(state'[n]) \in {"unknown", "open", "settled", "dropped"}
             /\ \/ Progress(state'[n]) = Progress(state[n])
                \/ /\ Progress(state[n]) = "unknown"
                   /\ Progress(state'[n]) \in {"open", "dropped"}
                \/ Progress(state[n]) = "open" /\ Progress(state'[n]) = "dropped"
             /\ finished' => Progress(state'[n]) # "open"
  BY PatchAndTask
<1>10. Contract!Decide(e)
  BY <1>1, <1>5, <1>6, <1>7, <1>8, <1>9 DEF Contract!Decide
<1> QED  BY <1>10

(***************************************************************************)
(* The executor implements the contract: every transaction of any of its   *)
(* calls is one step of the contract or none, for any planner and through  *)
(* any crashes, resumes, cancellations and overlapping calls.              *)
(***************************************************************************)
THEOREM KeepsContractAlways == Spec => KeepsContract
<1> DEFINE Inv == /\ TypeOK /\ ControlOK /\ QueueOK /\ EventsOK
                  /\ OutcomesMatchState /\ FinishedIsQuiescent
<1>1. Init => QueueOK /\ EventsOK
  BY DEF Init, StoreInit, QueueOK, EventsOK, RowsOf, PlannerEvents
<1>2. TypeOK /\ ControlOK /\ QueueOK /\ EventsOK /\ [Next]_vars => QueueOK' /\ EventsOK'
  BY StepType, QueueStep, PatchedWereQueued, EventsStep, TypeOKSplits
<1>3. Spec => []Inv
  BY <1>1, <1>2, TypeCorrect, OutcomesMatchStateAlways, FinishedIsQuiescentAlways,
     PTL DEF Spec
<1>4. Init => Contract!Init
  BY ProgressOf DEF Init, StoreInit, Contract!Init, DecidedEvents
<1>5. Inv /\ [Next]_vars => [Contract!Next]_(Contract!vars)
  <2> SUFFICES ASSUME Inv, [Next]_vars
               PROVE  Contract!Next \/ UNCHANGED Contract!vars
    OBVIOUS
  <2>1. StoreTypeOK /\ StoreStep /\ patched' \subseteq patched \cup PlannerEvents
    BY StepType, PatchedWereQueued, TypeOKSplits
  <2>2. CASE UNCHANGED store \/ Resume \/ \E tasks \in SUBSET Runnable : MarkRunning(tasks)
    BY <2>1, <2>2, StutterStep
  <2>3. CASE Start
    BY <2>1, <2>3, OpenStep DEF Contract!Next
  <2>4. ASSUME NEW n \in Nodes, NEW success \in BOOLEAN, RecordOutcome(n, success)
        PROVE  Contract!Next
    BY <2>1, <2>4, SettleStep DEF Contract!Next
  <2>5. ASSUME NEW p \in Patches, NEW t \in DOMAIN journal \ patched, CommitPatch(p, t)
        PROVE  Contract!Next
    <3>1. t \in PlannerEvents \ patched
      BY <2>1, <2>5 DEF CommitPatch
    <3>2. \E e \in Triggers : Contract!Decide(e)
      BY <2>1, <2>5, <3>1, DecideStep
    <3> QED  BY <3>2 DEF Contract!Next, Contract!Start, Triggers, NoNode
  <2> QED  BY <2>1, <2>2, <2>3, <2>4, <2>5 DEF StoreStep
<1> QED  BY <1>3, <1>4, <1>5, PTL DEF Spec, KeepsContract, Contract!Spec

-----------------------------------------------------------------------------
(***************************************************************************)
(* The calls of run() for one run: what a call that stops, or comes back,  *)
(* leaves behind; and, as long as calls do not overlap, that the store and *)
(* the loop agree on what is running.                                      *)
(***************************************************************************)

(* ready(limit) returns limit tasks at most: the first k of a set of       *)
(* naturals are no more than k, be the set finite or not.                  *)
LEMMA FirstFew ==
  ASSUME NEW R, R \subseteq Nat, NEW k \in Int
  PROVE  LET few == {n \in R : Cardinality({m \in R : m < n}) < k}
         IN  IsFiniteSet(few) /\ Cardinality(few) <= IF k < 0 THEN 0 ELSE k
<1> DEFINE Below == [n \in R |-> {m \in R : m < n}]
           size == [n \in R |-> Cardinality(Below[n])]
           few == {n \in R : size[n] < k}
<1>1. ASSUME NEW n \in R
      PROVE  IsFiniteSet(Below[n]) /\ size[n] \in Nat
  <2>1. \A m \in R : m \in Nat
    OBVIOUS
  <2>2. Below[n] \in SUBSET Nat
    BY <2>1
  <2>3. \A x \in Below[n] : x <= n
    BY <2>1
  <2>4. n \in Nat
    BY <2>1
  <2>5. IsFiniteSet(Below[n])
    <3> HIDE DEF Below
    <3> QED  BY <2>2, <2>3, <2>4, FS_BoundedSetOfNaturals
  <2> QED  BY <2>5, FS_CardinalityType
<1>2. ASSUME NEW n \in R, NEW o \in R, n < o
      PROVE  size[n] < size[o]
  <2>1. n \in Nat /\ o \in Nat /\ \A m \in R : m \in Nat
    OBVIOUS
  <2>2. \A m \in R : m < n => m < o
    BY <1>2, <2>1
  <2>3. Below[n] \cup {n} \subseteq Below[o]
    BY <1>2, <2>2
  <2>4. n \notin Below[n]
    BY <2>1
  <2>5. /\ IsFiniteSet(Below[n]) /\ IsFiniteSet(Below[o])
        /\ size[n] \in Nat /\ size[o] \in Nat
        /\ size[n] = Cardinality(Below[n]) /\ size[o] = Cardinality(Below[o])
    BY <1>1
  <2> HIDE DEF Below, size
  <2>6. Cardinality(Below[n] \cup {n}) = size[n] + 1
    BY <2>4, <2>5, FS_AddElement
  <2>7. Cardinality(Below[n] \cup {n}) <= size[o]
    BY <2>3, <2>5, FS_Subset
  <2> QED  BY <2>5, <2>6, <2>7
<1>3. few = {n \in R : Cardinality({m \in R : m < n}) < k}
  OBVIOUS
<1> HIDE DEF Below, size
<1>4. CASE k <= 0
  <2>0. \A n \in R : ~(size[n] < k)
    BY <1>1, <1>4
  <2>1. few = {}
    BY <2>0
  <2>2. IsFiniteSet(few) /\ Cardinality(few) = 0
    BY <2>1, FS_EmptySet
  <2> HIDE DEF few
  <2> QED  BY <2>2, <1>3, <1>4
<1>5. CASE k > 0
  <2> DEFINE rank == [n \in few |-> size[n]]
  <2>1. rank \in Injection(few, 0..(k - 1))
    <3>1. rank \in [few -> 0..(k - 1)]
      <4>1. \A n \in few : size[n] \in 0..(k - 1)
        BY <1>1, <1>5
      <4> QED  BY <4>1
    <3>2. \A n, o \in few : rank[n] = rank[o] => n = o
      <4> SUFFICES ASSUME NEW n \in few, NEW o \in few, n # o
                   PROVE  rank[n] # rank[o]
        OBVIOUS
      <4>1. n \in R /\ o \in R /\ n \in Nat /\ o \in Nat
        OBVIOUS
      <4>2. n < o \/ o < n
        BY <4>1
      <4>3. /\ n < o => size[n] < size[o]
            /\ o < n => size[o] < size[n]
        BY <4>1, <1>2
      <4>4. size[n] \in Nat /\ size[o] \in Nat
        BY <4>1, <1>1
      <4>5. rank[n] = size[n] /\ rank[o] = size[o]
        OBVIOUS
      <4> HIDE DEF rank
      <4> QED  BY <4>2, <4>3, <4>4, <4>5
    <3> HIDE DEF rank
    <3> QED  BY <3>1, <3>2 DEF Injection, IsInjective
  <2>2. IsFiniteSet(0..(k - 1)) /\ Cardinality(0..(k - 1)) = k
    BY <1>5, FS_Interval
  <2> HIDE DEF few, rank
  <2>3. IsFiniteSet(few) /\ Cardinality(few) <= k
    BY <2>1, <2>2, FS_Injection
  <2> QED  BY <1>3, <1>5, <2>3
<1> QED  BY <1>4, <1>5

-----------------------------------------------------------------------------
(* The futures among f that hold a coroutine or its result, and            *)
(* what max_completed asks of them beside e outcomes already executed.     *)
HeldIn(f)  == {t \in Futures : f[t] # "none"}
Fits(f, e) == IsFiniteSet(HeldIn(f)) /\ e + Cardinality(HeldIn(f)) <= MaxCompleted

(***************************************************************************)
(* StopLeavesNothingBehind, strengthened: the outcomes a call executed and *)
(* those it may still execute are max_completed at most; a call to come    *)
(* holds nothing; and a batch holds results, none of them while the loop   *)
(* fills its worker slots or waits.                                        *)
(***************************************************************************)
StopOf(i) ==
  /\ executed[i] <= MaxCompleted
  /\ pc[i] = "idle" => executed[i] = 0 /\ HeldIn(fut[i]) = {}
  /\ pc[i] \in {"idle", "fill", "wait"} => batch[i] = {}
  /\ pc[i] \in Active => /\ Fits(fut[i], executed[i])
                         /\ \A t \in batch[i] : fut[i][t] \in Done
  /\ pc[i] = "returned" => HeldIn(fut[i]) = {}

StopOK == \A i \in Invocations : StopOf(i)

(* What a step does to one call is seen in that call alone. *)
LEMMA StopElsewhere ==
  ASSUME TypeOK, StopOK, NEW i \in Invocations,
         pc' = [pc EXCEPT ![i] = pc'[i]], fut' = [fut EXCEPT ![i] = fut'[i]],
         batch' = [batch EXCEPT ![i] = batch'[i]],
         executed' = [executed EXCEPT ![i] = executed'[i]],
         StopOf(i)'
  PROVE  StopOK'
<1>1. SUFFICES ASSUME NEW j \in Invocations, j # i PROVE StopOf(j)'
  BY DEF StopOK
<1>2. pc'[j] = pc[j] /\ fut'[j] = fut[j] /\ batch'[j] = batch[j] /\ executed'[j] = executed[j]
  BY <1>1 DEF TypeOK
<1>3. StopOf(j)
  BY DEF StopOK
<1> QED  BY <1>2, <1>3 DEF StopOf, Fits, HeldIn

(* InFlight that are told to cancel are still held. *)
LEMMA CancelKeepsHeld ==
  ASSUME NEW f, NEW drop
  PROVE  HeldIn(CancelFutures(f, drop)) = HeldIn(f)
BY DEF HeldIn, CancelFutures

(* A result that leaves the futures makes room for one outcome. *)
LEMMA OneLessHeld ==
  ASSUME NEW f \in InFlight, NEW t \in Futures, f[t] # "none", NEW e \in Nat, Fits(f, e)
  PROVE  Fits([f EXCEPT ![t] = "none"], e + 1)
<1>1. HeldIn([f EXCEPT ![t] = "none"]) = HeldIn(f) \ {t}
  BY DEF HeldIn, InFlight
<1>2. t \in HeldIn(f) /\ IsFiniteSet(HeldIn(f))
  BY DEF HeldIn, Fits
<1>3. /\ IsFiniteSet(HeldIn(f) \ {t})
      /\ Cardinality(HeldIn(f) \ {t}) = Cardinality(HeldIn(f)) - 1
  BY <1>2, FS_RemoveElement
<1>4. Cardinality(HeldIn(f)) \in Nat
  BY <1>2, FS_CardinalityType
<1>5. e + Cardinality(HeldIn(f)) <= MaxCompleted
  BY DEF Fits
<1>6. (e + 1) + Cardinality(HeldIn(f) \ {t}) <= MaxCompleted
  BY <1>3, <1>4, <1>5, BoundsAssumption
<1> QED  BY <1>1, <1>3, <1>6 DEF Fits

(* With fewer outcomes executed there is the more room. *)
LEMMA FitsBefore ==
  ASSUME NEW f, NEW e \in Nat, Fits(f, e + 1)
  PROVE  Fits(f, e)
<1>1. Cardinality(HeldIn(f)) \in Nat
  BY FS_CardinalityType DEF Fits
<1> QED  BY <1>1, BoundsAssumption DEF Fits

(* When max_completed is reached there is no room for a future. *)
LEMMA FullHoldsNothing ==
  ASSUME NEW f, NEW e \in Nat, Fits(f, e), e >= MaxCompleted
  PROVE  HeldIn(f) = {} /\ e = MaxCompleted
<1>1. IsFiniteSet(HeldIn(f)) /\ Cardinality(HeldIn(f)) \in Nat
  BY FS_CardinalityType DEF Fits
<1>2. Cardinality(HeldIn(f)) = 0 /\ e = MaxCompleted
  BY <1>1, BoundsAssumption DEF Fits
<1> QED  BY <1>1, <1>2, FS_EmptySet

(* After an outcome the call goes on with room for what it holds, or has   *)
(* reached max_completed and holds nothing.                                *)
LEMMA AfterOutcomeStops ==
  ASSUME TypeOK, NEW i \in Invocations, NEW f \in InFlight,
         batch' \in [Invocations -> SUBSET Futures], executed' \in [Invocations -> Nat],
         AfterOutcome(i, f) \/ NextInBatch(i, f),
         Fits(f, executed'[i]), \A t \in batch'[i] : f[t] \in Done
  PROVE  /\ pc' = [pc EXCEPT ![i] = pc'[i]] /\ fut' = [fut EXCEPT ![i] = fut'[i]]
         /\ StopOf(i)'
<1>0. executed'[i] \in Nat /\ executed'[i] <= MaxCompleted
  <2>1. Cardinality(HeldIn(f)) \in Nat /\ executed'[i] \in Nat
    BY FS_CardinalityType DEF Fits
  <2> QED  BY <2>1, BoundsAssumption DEF Fits
<1>1. CASE AfterOutcome(i, f) /\ StopReached(i)
  <2>1. /\ pc' = [pc EXCEPT ![i] = "returned"] /\ fut' = [fut EXCEPT ![i] = f]
    BY <1>1 DEF AfterOutcome
  <2>2. pc'[i] = "returned" /\ fut'[i] = f
    BY <2>1 DEF TypeOK
  <2>3. HeldIn(f) = {}
    BY <1>0, <1>1, FullHoldsNothing DEF StopReached
  <2> QED  BY <1>0, <2>1, <2>2, <2>3 DEF StopOf, HeldIn, Active, Awaiting
<1>2. CASE NextInBatch(i, f)
  <2>1. /\ pc' = [pc EXCEPT ![i] = pc'[i]] /\ pc'[i] \in {"fill", "handle"}
        /\ pc'[i] = "handle" <=> batch'[i] # {}
        /\ fut' = [fut EXCEPT ![i] = fut'[i]]
    BY <1>2, NextInBatchType
  <2>2. CASE batch'[i] # {}
    <3>1. fut'[i] = f
      BY <1>2, <2>2 DEF NextInBatch, TypeOK
    <3>2. Fits(fut'[i], executed'[i]) /\ \A t \in batch'[i] : fut'[i][t] \in Done
      BY <3>1
    <3> QED  BY <1>0, <2>1, <2>2, <3>2 DEF StopOf, Fits, HeldIn
  <2>3. CASE batch'[i] = {}
    <3>1. fut'[i] = f \/ fut'[i] = CancelFutures(f, Nodes)
      BY <1>2, <2>3 DEF NextInBatch, EndOfBatch, TypeOK
    <3>2. Fits(fut'[i], executed'[i])
      BY <3>1, CancelKeepsHeld DEF Fits
    <3> QED  BY <1>0, <2>1, <2>3, <3>2 DEF StopOf, Fits, HeldIn
  <2> QED  BY <2>2, <2>3
<1> QED  BY <1>1, <1>2 DEF AfterOutcome

-----------------------------------------------------------------------------
(* The steps of one call, one after the other. *)
LEMMA BeginStops ==
  ASSUME TypeOK, StopOK, NEW i \in Invocations, Begin(i)
  PROVE  StopOK'
<1>1. /\ pc[i] = "idle" /\ pc' = [pc EXCEPT ![i] = pc'[i]] /\ pc'[i] \in {"fill", "plan"}
      /\ UNCHANGED <<fut, batch, executed>>
  BY DEF Begin, TypeOK
<1>2. executed[i] = 0 /\ HeldIn(fut[i]) = {} /\ batch[i] = {}
  BY <1>1 DEF StopOK, StopOf
<1>3. Fits(fut[i], executed[i])
  BY <1>2, FS_EmptySet, BoundsAssumption DEF Fits
<1>4. StopOf(i)'
  BY <1>1, <1>2, <1>3, BoundsAssumption DEF StopOf, Fits, HeldIn
<1>5. /\ fut' = [fut EXCEPT ![i] = fut'[i]] /\ batch' = [batch EXCEPT ![i] = batch'[i]]
      /\ executed' = [executed EXCEPT ![i] = executed'[i]]
  BY <1>1 DEF TypeOK
<1> QED  BY <1>1, <1>4, <1>5, StopElsewhere

(* A launch takes no more tasks than Capacity leaves.                      *)
LEMMA LaunchStops ==
  ASSUME TypeOK, StopOK, NEW i \in Invocations, Launch(i)
  PROVE  StopOK'
<1> DEFINE L == Launchable(i)
           H == HeldIn(fut[i])
<1>1. pc[i] = "fill" /\ pc[i] \in Active /\ L # {} /\ L = Ready(Capacity(i))
  BY DEF Launch, Launchable, Active
<1>2. /\ batch[i] = {} /\ executed[i] \in Nat /\ executed[i] <= MaxCompleted
      /\ IsFiniteSet(H) /\ executed[i] + Cardinality(H) <= MaxCompleted
  BY <1>1 DEF StopOK, StopOf, Fits, TypeOK
<1>3. Cardinality(H) \in Nat
  BY <1>2, FS_CardinalityType
<1>4. Capacity(i) \in Int /\ Capacity(i) <= MaxCompleted - executed[i] - Cardinality(H)
  BY <1>2, <1>3, BoundsAssumption DEF Capacity, Held, HeldIn
<1>5. IsFiniteSet(L) /\ Cardinality(L) <= IF Capacity(i) < 0 THEN 0 ELSE Capacity(i)
  <2>1. Runnable \subseteq Nat
    BY NodesAssumption DEF Runnable
  <2> QED  BY <1>1, <1>4, <2>1, FirstFew DEF Ready
<1>0. Latest \in Invocations
  BY <1>1, LatestIsLast DEF Active
<1> DEFINE N == L \X {Latest}
<1>20. IsFiniteSet(N) /\ Cardinality(N) = Cardinality(L)
  <2>1. IsFiniteSet({Latest}) /\ Cardinality({Latest}) = 1
    BY FS_Singleton
  <2>2. IsFiniteSet(N) /\ Cardinality(N) = Cardinality(L) * 1
    BY <1>5, <2>1, FS_Product
  <2>3. Cardinality(L) \in Nat
    BY <1>5, FS_CardinalityType
  <2> QED  BY <2>2, <2>3
<1>21. N \subseteq Futures
  BY <1>0, <1>1 DEF Ready, Runnable, Futures
<1>22. \A t \in Futures : fut'[i][t] = IF t \in N THEN "live" ELSE fut[i][t]
  BY DEF Launch, TypeOK
<1> HIDE DEF L, H, N
<1>6. IsFiniteSet(H \cup N) /\ Cardinality(H \cup N) <= Cardinality(H) + Cardinality(N)
  <2>1. /\ IsFiniteSet(H \cup N)
        /\ Cardinality(H \cup N) = Cardinality(H) + Cardinality(N) - Cardinality(H \cap N)
    BY <1>2, <1>20, FS_Union
  <2>2. IsFiniteSet(H \cap N)
    BY <1>2, FS_Subset
  <2>3. Cardinality(H \cap N) \in Nat /\ Cardinality(N) \in Nat
    BY <1>20, <2>2, FS_CardinalityType
  <2> QED  BY <1>3, <2>1, <2>3
<1>7. Cardinality(L) \in Nat /\ Cardinality(H \cup N) \in Nat
  BY <1>5, <1>6, FS_CardinalityType
<1>8. executed[i] + Cardinality(H \cup N) <= MaxCompleted
  BY <1>2, <1>3, <1>4, <1>5, <1>6, <1>7, <1>20, BoundsAssumption
<1>9. HeldIn(fut'[i]) = H \cup N
  BY <1>21, <1>22 DEF HeldIn, H
<1>10. /\ pc' = [pc EXCEPT ![i] = pc'[i]] /\ pc'[i] = "wait"
       /\ fut' = [fut EXCEPT ![i] = fut'[i]]
       /\ batch' = [batch EXCEPT ![i] = batch'[i]] /\ batch' = batch
       /\ executed' = [executed EXCEPT ![i] = executed'[i]] /\ executed' = executed
  BY DEF Launch, TypeOK
<1>11. Fits(fut'[i], executed'[i])
  BY <1>6, <1>8, <1>9, <1>10 DEF Fits
<1>12. StopOf(i)'
  BY <1>2, <1>10, <1>11 DEF StopOf, Fits, HeldIn
<1> QED  BY <1>10, <1>12, StopElsewhere

(* A coroutine that ends leaves its result where it was held. *)
LEMMA WorkerStops ==
  ASSUME TypeOK, StopOK, NEW i \in Invocations, NEW t \in Futures, Worker(i, t)
  PROVE  StopOK'
<1>1. /\ UNCHANGED <<pc, batch, executed>>
      /\ fut[i][t] # "none" /\ fut[i][t] \notin Done
  BY DEF Worker, WorkerEnds, WorkerCancelled, Done
<1>2. PICK v : /\ fut' = [fut EXCEPT ![i][t] = v]
               /\ pc[i] \in Active => v \in Done
  <2>1. CASE WorkerEnds(i, t)
    BY <2>1 DEF WorkerEnds, Done
  <2>2. CASE WorkerCancelled(i, t)
    BY <2>2 DEF WorkerCancelled, Done
  <2> QED  BY <2>1, <2>2 DEF Worker
<1>3. /\ fut' = [fut EXCEPT ![i] = fut'[i]]
      /\ \A m \in Futures : fut'[i][m] = IF m = t THEN v ELSE fut[i][m]
  BY <1>2 DEF TypeOK
<1>4. t \in HeldIn(fut[i]) /\ pc[i] # "idle" /\ pc[i] # "returned"
  BY <1>1 DEF StopOK, StopOf, HeldIn
<1>5. StopOf(i)'
  <2>1. CASE pc[i] \in Active
    <3>1. HeldIn(fut'[i]) = HeldIn(fut[i])
      BY <1>2, <1>3, <1>4, <2>1 DEF HeldIn, Done
    <3>2. \A m \in batch[i] : fut[i][m] \in Done /\ m \in Futures
      BY <2>1 DEF StopOK, StopOf, TypeOK
    <3>3. \A m \in batch'[i] : fut'[i][m] \in Done
      BY <1>1, <1>3, <3>2
    <3>4. Fits(fut'[i], executed'[i])
      BY <1>1, <2>1, <3>1 DEF StopOK, StopOf, Fits
    <3> QED  BY <1>1, <1>4, <2>1, <3>3, <3>4 DEF StopOK, StopOf, Fits, HeldIn
  <2>2. CASE pc[i] \notin Active
    BY <1>1, <1>4, <2>2 DEF StopOK, StopOf
  <2> QED  BY <2>1, <2>2
<1>6. /\ pc' = [pc EXCEPT ![i] = pc'[i]] /\ batch' = [batch EXCEPT ![i] = batch'[i]]
      /\ executed' = [executed EXCEPT ![i] = executed'[i]]
  BY <1>1 DEF TypeOK
<1> QED  BY <1>3, <1>5, <1>6, StopElsewhere
(* The steps that hand a call its results, and those that end it early. *)
LEMMA QuietStops ==
  ASSUME TypeOK, StopOK, NEW i \in Invocations,
         LaunchNothing(i) \/ WaitReturns(i) \/ \E why \in {"refused", "rejected"} : Raise(i, why)
  PROVE  StopOK'
<1>1. StopOf(i) /\ executed' = executed
  BY DEF StopOK, LaunchNothing, WaitReturns, Raise
<1>2. /\ pc' = [pc EXCEPT ![i] = pc'[i]] /\ fut' = [fut EXCEPT ![i] = fut'[i]]
      /\ batch' = [batch EXCEPT ![i] = batch'[i]]
      /\ executed' = [executed EXCEPT ![i] = executed'[i]]
  BY <1>1 DEF TypeOK, LaunchNothing, WaitReturns, Raise, Idle
<1>3. CASE LaunchNothing(i)
  <2>1. /\ pc[i] = "fill" /\ UNCHANGED <<fut, batch>>
        /\ pc'[i] = IF HeldIn(fut[i]) = {} THEN "returned" ELSE "wait"
    BY <1>3 DEF LaunchNothing, TypeOK, Held, HeldIn
  <2>2. StopOf(i)'
    BY <1>1, <2>1 DEF StopOf, Fits, HeldIn, Active, Awaiting
  <2> QED  BY <1>2, <2>2, StopElsewhere
<1>4. CASE WaitReturns(i)
  <2>1. /\ pc[i] = "wait" /\ pc'[i] = "handle" /\ fut' = fut
        /\ \A t \in batch'[i] : fut[i][t] \in Done
    BY <1>4 DEF WaitReturns, TypeOK
  <2>2. StopOf(i)'
    BY <1>1, <2>1 DEF StopOf, Fits, HeldIn, Active, Awaiting
  <2> QED  BY <1>2, <2>2, StopElsewhere
<1>5. CASE \E why \in {"refused", "rejected"} : Raise(i, why)
  <2>1. pc'[i] \in {"refused", "rejected"}
    BY <1>5 DEF Raise, TypeOK
  <2>2. StopOf(i)'
    BY <1>1, <2>1 DEF StopOf, Active, Awaiting
  <2> QED  BY <1>2, <2>2, StopElsewhere
<1> QED  BY <1>3, <1>4, <1>5

(* A result of the batch leaves the futures, be it dropped or taken. *)
LEMMA ResultStops ==
  ASSUME TypeOK, StopOK, NEW i \in Invocations, pc[i] = "handle",
         NEW t \in batch[i]
  PROVE  LET f == [fut[i] EXCEPT ![t] = "none"]
         IN  /\ f \in InFlight
             /\ Fits(f, executed[i] + 1) /\ Fits(f, executed[i])
             /\ \A m \in batch[i] \ {t} : f[m] \in Done
<1> DEFINE f == [fut[i] EXCEPT ![t] = "none"]
<1>2. /\ fut[i] \in InFlight /\ executed[i] \in Nat /\ batch[i] \subseteq Futures
      /\ Fits(fut[i], executed[i]) /\ \A m \in batch[i] : fut[i][m] \in Done
  BY DEF TypeOK, StopOK, StopOf, Active, InFlight
<1>3. t \in Futures /\ fut[i][t] # "none"
  BY <1>2 DEF Done
<1>4. Fits(f, executed[i] + 1)
  BY <1>2, <1>3, OneLessHeld
<1>5. f \in InFlight /\ \A m \in batch[i] \ {t} : f[m] = fut[i][m]
  BY <1>2, <1>3 DEF InFlight, Future
<1> HIDE DEF f
<1>6. Fits(f, executed[i])
  BY <1>2, <1>4, FitsBefore
<1> QED  BY <1>2, <1>4, <1>5, <1>6 DEF f

(* One result is dropped. *)
LEMMA DropResultStops ==
  ASSUME TypeOK, StopOK, NEW i \in Invocations, NEW t \in Futures, DropResult(i, t)
  PROVE  StopOK'
<1> DEFINE f == [fut[i] EXCEPT ![t] = "none"]
<1>1. /\ f \in InFlight /\ Fits(f, executed[i])
      /\ \A m \in batch[i] \ {t} : f[m] \in Done
  BY ResultStops DEF DropResult, Heads
<1>2. /\ batch' = [batch EXCEPT ![i] = batch[i] \ {t}]
      /\ executed' = executed /\ NextInBatch(i, f)
  BY DEF DropResult
<1> HIDE DEF f
<1>3. /\ batch' \in [Invocations -> SUBSET Futures] /\ batch'[i] = batch[i] \ {t}
      /\ batch' = [batch EXCEPT ![i] = batch'[i]]
      /\ executed' \in [Invocations -> Nat]
      /\ executed' = [executed EXCEPT ![i] = executed'[i]]
  BY <1>2 DEF TypeOK
<1>4. Fits(f, executed'[i]) /\ \A m \in batch'[i] : f[m] \in Done
  BY <1>1, <1>2, <1>3
<1>5. /\ pc' = [pc EXCEPT ![i] = pc'[i]] /\ fut' = [fut EXCEPT ![i] = fut'[i]]
      /\ StopOf(i)'
  BY <1>1, <1>2, <1>3, <1>4, AfterOutcomeStops
<1> QED  BY <1>3, <1>5, StopElsewhere

(* Waiting for a plan with room for what is held. *)
LEMMA PlanningStops ==
  ASSUME TypeOK, NEW i \in Invocations, NEW f \in InFlight,
         pc' = [pc EXCEPT ![i] = "plan"], fut' = [fut EXCEPT ![i] = f],
         executed'[i] \in Nat,
         Fits(f, executed'[i]), \A t \in batch'[i] : f[t] \in Done
  PROVE  /\ pc' = [pc EXCEPT ![i] = pc'[i]] /\ fut' = [fut EXCEPT ![i] = fut'[i]]
         /\ StopOf(i)'
<1>1. pc'[i] = "plan" /\ fut'[i] = f
  BY DEF TypeOK
<1>2. Cardinality(HeldIn(f)) \in Nat
  BY FS_CardinalityType DEF Fits
<1>3. executed'[i] <= MaxCompleted
  BY <1>2, BoundsAssumption DEF Fits
<1> QED  BY <1>1, <1>3 DEF StopOf, Fits, HeldIn

(* An outcome takes the place of the future it came from. *)
LEMMA TakeOutcomeStops ==
  ASSUME TypeOK, StopOK, NEW i \in Invocations, NEW t \in Futures, TakeOutcome(i, t)
  PROVE  StopOK'
<1> DEFINE f == [fut[i] EXCEPT ![t] = "none"]
<1>1. /\ f \in InFlight /\ Fits(f, executed[i] + 1)
      /\ \A m \in batch[i] \ {t} : f[m] \in Done
  BY ResultStops DEF TakeOutcome, Heads
<1>2. /\ batch' = [batch EXCEPT ![i] = batch[i] \ {t}]
      /\ executed' = [executed EXCEPT ![i] = executed[i] + 1]
      /\ AfterOutcome(i, f) \/ (pc' = [pc EXCEPT ![i] = "plan"] /\ fut' = [fut EXCEPT ![i] = f])
  BY DEF TakeOutcome
<1> HIDE DEF f
<1>3. /\ batch' \in [Invocations -> SUBSET Futures] /\ batch'[i] = batch[i] \ {t}
      /\ batch' = [batch EXCEPT ![i] = batch'[i]]
      /\ executed' \in [Invocations -> Nat] /\ executed'[i] = executed[i] + 1
      /\ executed' = [executed EXCEPT ![i] = executed'[i]]
  BY <1>2 DEF TypeOK
<1>4. Fits(f, executed'[i]) /\ \A m \in batch'[i] : f[m] \in Done
  BY <1>1, <1>3
<1>5. /\ pc' = [pc EXCEPT ![i] = pc'[i]] /\ fut' = [fut EXCEPT ![i] = fut'[i]]
      /\ StopOf(i)'
  BY <1>1, <1>2, <1>3, <1>4, AfterOutcomeStops, PlanningStops
<1> QED  BY <1>3, <1>5, StopElsewhere

(* A patch may tell futures to cancel, but lets go of none. *)
LEMMA PlanReturnsStops ==
  ASSUME TypeOK, StopOK, NEW i \in Invocations, PlanReturns(i)
  PROVE  StopOK'
<1> DEFINE f == CancelFutures(fut[i], DroppedByGraph)
<1>1. /\ pc[i] = "plan" /\ pc[i] \in Active /\ UNCHANGED <<batch, executed>>
      /\ AfterOutcome(i, f) \/ (pc' = [pc EXCEPT ![i] = "plan"] /\ fut' = [fut EXCEPT ![i] = f])
  BY DEF PlanReturns, PlanAnswers, Active, Awaiting
<1>2. f \in InFlight
  BY CancelFuturesType DEF TypeOK, InFlight
<1>3. /\ batch' \in [Invocations -> SUBSET Futures]
      /\ batch' = [batch EXCEPT ![i] = batch'[i]]
      /\ executed' \in [Invocations -> Nat] /\ executed'[i] \in Nat
      /\ executed' = [executed EXCEPT ![i] = executed'[i]]
  BY <1>1 DEF TypeOK
<1>4. Fits(f, executed'[i])
  BY <1>1, CancelKeepsHeld DEF StopOK, StopOf, Fits
<1>5. \A m \in batch'[i] : f[m] \in Done
  <2>1. \A m \in batch[i] : m \in Futures /\ fut[i][m] \in Done
    BY <1>1 DEF StopOK, StopOf, TypeOK
  <2> QED  BY <1>1, <2>1 DEF CancelFutures, Done
<1> HIDE DEF f
<1>6. /\ pc' = [pc EXCEPT ![i] = pc'[i]] /\ fut' = [fut EXCEPT ![i] = fut'[i]]
      /\ StopOf(i)'
  BY <1>1, <1>2, <1>3, <1>4, <1>5, AfterOutcomeStops, PlanningStops
<1> QED  BY <1>3, <1>6, StopElsewhere

(* A crash leaves every call without a future. *)
LEMMA CrashStops ==
  ASSUME TypeOK, StopOK, Crash \/ UNCHANGED vars
  PROVE  StopOK'
<1>1. CASE Crash
  <2> SUFFICES ASSUME NEW i \in Invocations PROVE StopOf(i)'
    BY DEF StopOK
  <2>1. /\ pc'[i] = (IF pc[i] \in Active THEN "crashed" ELSE pc[i])
        /\ HeldIn(fut'[i]) = {} /\ batch'[i] = {} /\ executed'[i] = executed[i]
    BY <1>1 DEF Crash, TypeOK, HeldIn
  <2> QED  BY <2>1 DEF StopOK, StopOf, HeldIn, Active, Awaiting
<1>2. CASE UNCHANGED vars
  BY <1>2 DEF StopOK, StopOf, Fits, HeldIn, vars, volatile
<1> QED  BY <1>1, <1>2

(***************************************************************************)
(* "The optional test stop never leaves an unjournalled coroutine behind": *)
(* a call of run() has never more futures and executed outcomes together   *)
(* than max_completed, and holds no future when it returns, also when      *)
(* several calls overlap on one run and a call holds two futures of one    *)
(* node, and for every number of workers.                                  *)
(***************************************************************************)
THEOREM StopLeavesNothingBehindAlways == Spec => []StopLeavesNothingBehind
<1>1. Init => StopOK
  BY BoundsAssumption DEF Init, StopOK, StopOf, HeldIn, Active, Awaiting
<1>2. ASSUME TypeOK, ControlOK, StopOK, [Next]_vars
      PROVE  StopOK'
  <2>1. ASSUME NEW i \in Invocations, Step(i)
        PROVE  StopOK'
    <3>1. CASE Launch(i)
      BY <1>2, <3>1, LaunchStops
    <3>2. CASE \/ LaunchNothing(i) \/ WaitReturns(i) \/ PlanRaises(i)
               \/ \E t \in Futures : OutcomeRefused(i, t)
      BY <1>2, <3>2, QuietStops DEF OutcomeRefused, PlanRaises
    <3>3. CASE \E t \in Futures : DropResult(i, t)
      BY <1>2, <3>3, DropResultStops
    <3>4. CASE \E t \in Futures : TakeOutcome(i, t)
      BY <1>2, <3>4, TakeOutcomeStops
    <3>5. CASE PlanReturns(i)
      BY <1>2, <3>5, PlanReturnsStops
    <3> QED  BY <2>1, <3>1, <3>2, <3>3, <3>4, <3>5 DEF Step, Handle
  <2> QED  BY <1>2, <2>1, BeginStops, WorkerStops, CrashStops DEF Next
<1>3. StopOK => StopLeavesNothingBehind
  BY DEF StopOK, StopOf, Fits, StopLeavesNothingBehind, Held, HeldIn
<1>4. TypeOK /\ ControlOK /\ StopOK /\ [Next]_vars => StopOK'
  BY <1>2
<1> QED  BY <1>1, <1>3, <1>4, TypeCorrect, PTL DEF Spec

-----------------------------------------------------------------------------
(***************************************************************************)
(* How futures are named.  No call holds a future of node n launched since *)
(* call e was the latest if e has not begun, or if it is the latest and n  *)
(* was not launched since: nothing but a resume makes a running node       *)
(* pending again.                                                          *)
(***************************************************************************)
NotLaunched == {"absent", "pending", "waiting"}

Unused(n, e) ==
  \/ \A k \in Invocations : pc[k] # "idle" => k < e
  \/ /\ \A k \in Invocations : pc[k] # "idle" => k <= e
     /\ state[n] \in NotLaunched

FreshOK ==
  /\ \A i, j \in Invocations : pc[i] = "idle" /\ i < j => pc[j] = "idle"
  /\ \A i, e \in Invocations, n \in Nodes : Unused(n, e) => fut[i][<<n, e>>] = "none"

(* A call begins after all that have begun, and so its number is unused.   *)
LEMMA BeginFresh ==
  ASSUME TypeOK, FreshOK, NEW i \in Invocations, Begin(i)
  PROVE  FreshOK'
<1>1. /\ pc[i] = "idle" /\ fut' = fut /\ pc'[i] # "idle"
      /\ \A j \in Invocations : j < i => pc[j] # "idle"
      /\ \A j \in Invocations : j # i => pc'[j] = pc[j]
  BY DEF Begin, TypeOK
<1>2. \A k \in Invocations : pc[k] # "idle" => k < i
  BY <1>1 DEF FreshOK, Invocations
<1>3. \A j, k \in Invocations : pc'[j] = "idle" /\ j < k => pc'[k] = "idle"
  BY <1>1, <1>2 DEF FreshOK, Invocations
<1>4. ASSUME NEW e \in Invocations, NEW n \in Nodes, Unused(n, e)'
      PROVE  Unused(n, e)
  <2>1. i <= e
    BY <1>1, <1>4 DEF Unused, Invocations
  <2>2. \A k \in Invocations : pc[k] # "idle" => k < e
    BY <1>2, <2>1 DEF Invocations
  <2> QED  BY <2>2 DEF Unused
<1> QED  BY <1>1, <1>3, <1>4 DEF FreshOK

(* What is launched gets futures with the name of the latest call.         *)
LEMMA LaunchFresh ==
  ASSUME TypeOK, FreshOK, NEW i \in Invocations, Launch(i)
  PROVE  FreshOK'
<1>1. /\ pc[i] = "fill" /\ pc' = [pc EXCEPT ![i] = "wait"]
      /\ \A n \in Launchable(i) : n \in Nodes /\ state[n] = "pending"
  BY DEF Launch, Launchable, Ready, Runnable
<1>2. \A k \in Invocations : pc'[k] = "idle" <=> pc[k] = "idle"
  BY <1>1 DEF TypeOK
<1>3. \A n \in Nodes : state'[n] = IF n \in Launchable(i) THEN "running" ELSE state[n]
  BY <1>1 DEF Launch, MarkRunning
<1>4. /\ \A j \in Invocations : j # i => fut'[j] = fut[j]
      /\ \A t \in Futures : fut'[i][t] = IF t \in Launchable(i) \X {Latest} THEN "live"
                                         ELSE fut[i][t]
  BY DEF Launch, TypeOK
<1>5. Latest \in Invocations /\ pc[Latest] # "idle"
  BY <1>1, LatestIsLast
<1>6. ASSUME NEW j \in Invocations, NEW e \in Invocations, NEW n \in Nodes, Unused(n, e)'
      PROVE  fut'[j][<<n, e>>] = "none"
  <2>1. Unused(n, e)
    BY <1>2, <1>3, <1>6 DEF Unused, NotLaunched
  <2>2. ~(n \in Launchable(i) /\ e = Latest)
    BY <1>2, <1>3, <1>5, <1>6 DEF Unused, NotLaunched, Invocations
  <2>3. <<n, e>> \in Futures
    BY DEF Futures
  <2>4. fut'[j][<<n, e>>] = fut[j][<<n, e>>]
    BY <1>4, <2>2, <2>3
  <2> QED  BY <2>1, <2>4 DEF FreshOK
<1> QED  BY <1>2, <1>6 DEF FreshOK

(* No other step gives a call a future, begins a call or makes a node one  *)
(* that may be launched.                                                   *)
LEMMA OtherFresh ==
  ASSUME TypeOK, FreshOK,
         \A i \in Invocations : pc'[i] = "idle" <=> pc[i] = "idle",
         \A n \in Nodes : state'[n] \in NotLaunched => state[n] \in NotLaunched,
         \A i \in Invocations, t \in Futures : fut[i][t] = "none" => fut'[i][t] = "none"
  PROVE  FreshOK'
<1>1. ASSUME NEW i \in Invocations, NEW e \in Invocations, NEW n \in Nodes, Unused(n, e)'
      PROVE  fut'[i][<<n, e>>] = "none"
  <2>1. Unused(n, e)
    BY <1>1 DEF Unused
  <2>2. <<n, e>> \in Futures
    BY DEF Futures
  <2> QED  BY <2>1, <2>2 DEF FreshOK
<1> QED  BY <1>1 DEF FreshOK

(* The futures after an outcome are those before it, told to cancel or not.*)
LEMMA AfterOutcomeFresh ==
  ASSUME TypeOK, NEW i \in Invocations, pc[i] # "idle", NEW f \in InFlight,
         \/ AfterOutcome(i, f) \/ NextInBatch(i, f)
         \/ pc' = [pc EXCEPT ![i] = "plan"] /\ fut' = [fut EXCEPT ![i] = f],
         \A t \in Futures : fut[i][t] = "none" => f[t] = "none"
  PROVE  /\ \A j \in Invocations : pc'[j] = "idle" <=> pc[j] = "idle"
         /\ \A j \in Invocations, t \in Futures : fut[j][t] = "none" => fut'[j][t] = "none"
<1>1. /\ \E q \in {"plan", "fill", "handle", "returned"} : pc' = [pc EXCEPT ![i] = q]
      /\ fut' = [fut EXCEPT ![i] = f] \/ fut' = [fut EXCEPT ![i] = CancelFutures(f, Nodes)]
  BY DEF AfterOutcome, NextInBatch, EndOfBatch
<1>2. \A j \in Invocations : pc'[j] = "idle" <=> pc[j] = "idle"
  BY <1>1 DEF TypeOK
<1>3. \A t \in Futures : f[t] = "none" => CancelFutures(f, Nodes)[t] = "none"
  BY DEF CancelFutures
<1>4. \A j \in Invocations :
        \/ fut'[j] = fut[j]
        \/ j = i /\ (fut'[j] = f \/ fut'[j] = CancelFutures(f, Nodes))
  BY <1>1 DEF TypeOK
<1> QED  BY <1>2, <1>3, <1>4

(* The steps that leave the state of every node alone. *)
LEMMA QuietFresh ==
  ASSUME TypeOK, FreshOK,
         \/ \E i \in Invocations :
              \/ LaunchNothing(i) \/ WaitReturns(i) \/ PlanRaises(i)
              \/ \E t \in Futures : OutcomeRefused(i, t) \/ Worker(i, t)
         \/ Crash
         \/ UNCHANGED vars
  PROVE  FreshOK'
<1>1. state' = state
  BY DEF LaunchNothing, WaitReturns, PlanRaises, OutcomeRefused, Worker, WorkerEnds,
         WorkerCancelled, Crash, vars, store
<1>2. \A i \in Invocations : pc'[i] = "idle" <=> pc[i] = "idle"
  BY DEF LaunchNothing, WaitReturns, PlanRaises, OutcomeRefused, Raise, Worker, WorkerEnds,
         WorkerCancelled, Crash, vars, volatile, TypeOK, Active, Awaiting
<1>3. \A i \in Invocations, t \in Futures : fut[i][t] = "none" => fut'[i][t] = "none"
  <2>1. CASE \E i \in Invocations : LaunchNothing(i) \/ WaitReturns(i)
    BY <2>1 DEF LaunchNothing, WaitReturns
  <2>2. ASSUME NEW i \in Invocations, NEW why, Raise(i, why)
        PROVE  \A j \in Invocations, t \in Futures : fut[j][t] = "none" => fut'[j][t] = "none"
    BY <2>2 DEF Raise, Orphaned, TypeOK
  <2>3. ASSUME NEW i \in Invocations, NEW u \in Futures, Worker(i, u)
        PROVE  \A j \in Invocations, t \in Futures : fut[j][t] = "none" => fut'[j][t] = "none"
    <3>1. fut[i][u] # "none" /\ \E v : fut' = [fut EXCEPT ![i][u] = v]
      BY <2>3 DEF Worker, WorkerEnds, WorkerCancelled
    <3> QED  BY <3>1 DEF TypeOK
  <2>4. CASE Crash
    BY <2>4 DEF Crash
  <2>5. CASE UNCHANGED vars
    BY <2>5 DEF vars, volatile
  <2> QED  BY <2>1, <2>2, <2>3, <2>4, <2>5 DEF PlanRaises, OutcomeRefused
<1> QED  BY <1>1, <1>2, <1>3, OtherFresh

(* A result leaves the futures; its node, if it settles, was running.      *)
LEMMA ResultFresh ==
  ASSUME TypeOK, FreshOK, NEW i \in Invocations, NEW t \in Futures,
         DropResult(i, t) \/ TakeOutcome(i, t)
  PROVE  FreshOK'
<1> DEFINE f == [fut[i] EXCEPT ![t] = "none"]
<1>1. f \in InFlight /\ \A u \in Futures : fut[i][u] = "none" => f[u] = "none"
  BY DEF TypeOK, InFlight, Future
<1>2. /\ pc[i] # "idle"
      /\ \/ AfterOutcome(i, f) \/ NextInBatch(i, f)
         \/ pc' = [pc EXCEPT ![i] = "plan"] /\ fut' = [fut EXCEPT ![i] = f]
  BY DEF DropResult, TakeOutcome
<1>3. \A n \in Nodes : state'[n] \in NotLaunched => state[n] \in NotLaunched
  <2>1. CASE DropResult(i, t)
    BY <2>1 DEF DropResult, store
  <2>2. CASE TakeOutcome(i, t)
    <3>1. PICK s \in {"succeeded", "failed"} : state' = [state EXCEPT ![t[1]] = s]
      BY <2>2 DEF TakeOutcome, RecordOutcome
    <3> QED  BY <3>1 DEF TypeOK, StoreTypeOK, NotLaunched
  <2> QED  BY <2>1, <2>2
<1> HIDE DEF f
<1> QED  BY <1>1, <1>2, <1>3, AfterOutcomeFresh, OtherFresh

(* A patch makes no node that ran one that may be launched.                *)
LEMMA PatchFresh ==
  ASSUME TypeOK, FreshOK, NEW i \in Invocations, PlanReturns(i)
  PROVE  FreshOK'
<1> DEFINE f == CancelFutures(fut[i], DroppedByGraph)
<1>1. f \in InFlight /\ \A u \in Futures : fut[i][u] = "none" => f[u] = "none"
  BY CancelFuturesType DEF CancelFutures, TypeOK, InFlight
<1>2. /\ pc[i] # "idle"
      /\ \/ AfterOutcome(i, f)
         \/ pc' = [pc EXCEPT ![i] = "plan"] /\ fut' = [fut EXCEPT ![i] = f]
  BY DEF PlanReturns, PlanAnswers
<1>3. \A n \in Nodes : state'[n] \in NotLaunched => state[n] \in NotLaunched
  <2>1. UNCHANGED store \/ \E p \in Patches : CommitPatch(p, First(queue[i]))
    BY DEF PlanReturns, PlanAnswers
  <2>2. ASSUME NEW p \in Patches, CommitPatch(p, First(queue[i])), NEW n \in Nodes,
               state'[n] \in NotLaunched
        PROVE  state[n] \in NotLaunched
    BY <2>2 DEF CommitPatch, Accepts, Leftovers, Rewritten, Existing, Open, NotLaunched
  <2> QED  BY <2>1, <2>2 DEF store
<1> HIDE DEF f
<1> QED  BY <1>1, <1>2, <1>3, AfterOutcomeFresh, OtherFresh

(***************************************************************************)
(* A launch never takes the name of a future that some call still holds,   *)
(* so the model keeps every coroutine apart that in_flight keeps apart,    *)
(* two of one node too, however calls of run() overlap.                    *)
(***************************************************************************)
THEOREM LaunchesAreFresh ==
  Spec => [](\A i, j \in Invocations : \A n \in Launchable(i) :
               pc[i] = "fill" => fut[j][<<n, Latest>>] = "none")
<1>1. Init => FreshOK
  BY DEF Init, FreshOK, Futures
<1>2. ASSUME TypeOK, FreshOK, [Next]_vars
      PROVE  FreshOK'
  BY <1>2, BeginFresh, LaunchFresh, QuietFresh, ResultFresh, PatchFresh DEF Next, Step, Handle
<1>3. ASSUME FreshOK, NEW i \in Invocations, NEW j \in Invocations,
             NEW n \in Launchable(i), pc[i] = "fill"
      PROVE  fut[j][<<n, Latest>>] = "none"
  <2>1. /\ Latest \in Invocations
        /\ \A k \in Invocations : pc[k] # "idle" => k <= Latest
    BY <1>3, LatestIsLast
  <2>2. n \in Nodes /\ state[n] = "pending"
    BY DEF Launchable, Ready, Runnable
  <2>3. Unused(n, Latest)
    BY <2>1, <2>2 DEF Unused, NotLaunched
  <2>4. \A k, e \in Invocations, m \in Nodes : Unused(m, e) => fut[k][<<m, e>>] = "none"
    BY <1>3 DEF FreshOK
  <2> HIDE DEF Latest
  <2> QED  BY <2>1, <2>2, <2>3, <2>4, Zenon
<1>4. TypeOK /\ ControlOK /\ FreshOK /\ [Next]_vars => FreshOK'
  BY <1>2
<1>5. FreshOK => \A i, j \in Invocations : \A n \in Launchable(i) :
                    pc[i] = "fill" => fut[j][<<n, Latest>>] = "none"
  BY <1>3
<1> QED  BY <1>1, <1>4, <1>5, TypeCorrect, PTL DEF Spec

-----------------------------------------------------------------------------
(***************************************************************************)
(* What the state s of a node says of the future f that the active call    *)
(* holds for it, and the other way round.                                  *)
(***************************************************************************)
Matches(s, f) ==
  /\ f = "live" => s = "running"
  /\ s = "running" => f \in {"live", "ok", "error"}
  /\ f \in {"ok", "error"} => s \in {"running", "cancelled"}
  /\ f \in {"cancelling", "cancelled"} => s = "cancelled"

(* The futures f of call i, all of them launched since it is the latest,   *)
(* and what is left of the batch b agree with the states s.                *)
Agree(i, s, f, b) ==
  \A t \in Futures : /\ t[2] = i => Matches(s[t[1]], f[t])
                     /\ t[2] # i => f[t] = "none"
                     /\ t \in b => f[t] \in Done

(***************************************************************************)
(* RunningIsHeld, strengthened: one call is active, its futures match the  *)
(* states of their nodes whether they are live or done, its batch holds    *)
(* results, it is the latest that began, a call to come holds nothing, and *)
(* no call has begun and no node is there before the run is known.         *)
(***************************************************************************)
SeriesOK ==
  /\ \A i, j \in Invocations : pc[i] \in Active /\ pc[j] \in Active => i = j
  /\ \A i, j \in Invocations : pc[i] \in {"idle"} \cup Active /\ i < j => pc[j] = "idle"
  /\ \A i \in Invocations : pc[i] = "idle" =>
       batch[i] = {} /\ \A t \in Futures : fut[i][t] = "none"
  /\ \A i \in Invocations : pc[i] \in Active => Agree(i, state, fut[i], batch[i])
  /\ \A i \in Invocations : pc[i] # "refused"
  /\ ~known => /\ \A i \in Invocations : pc[i] = "idle"
               /\ \A n \in Nodes : state[n] = "absent"
-----------------------------------------------------------------------------
(* The step of one active call i, which may end it, leaves the others out  *)
(* of it; so only what i holds has to be looked at.                        *)
LEMMA OneCallMoves ==
  ASSUME TypeOK, SeriesOK, NEW i \in Invocations, pc[i] \in Active,
         pc' = [pc EXCEPT ![i] = pc'[i]], pc'[i] \notin {"idle", "refused"},
         fut' = [fut EXCEPT ![i] = fut'[i]], batch' = [batch EXCEPT ![i] = batch'[i]],
         pc'[i] \in Active => Agree(i, state', fut'[i], batch'[i]),
         known' = known
  PROVE  SeriesOK'
<1>0. known'
  BY DEF SeriesOK, Active, Awaiting
<1>1. ASSUME NEW j \in Invocations, j # i
      PROVE  pc'[j] = pc[j] /\ fut'[j] = fut[j] /\ batch'[j] = batch[j]
             /\ pc[j] \notin Active
  BY <1>1 DEF TypeOK, SeriesOK
<1>2. \A j, k \in Invocations : pc'[j] \in Active /\ pc'[k] \in Active => j = k
  BY <1>1
<1>3. \A j \in Invocations : pc'[j] = "idle" =>
        batch'[j] = {} /\ \A t \in Futures : fut'[j][t] = "none"
  BY <1>1 DEF SeriesOK
<1>6. \A j, k \in Invocations :
        pc'[j] \in {"idle"} \cup Active /\ j < k => pc'[k] = "idle"
  <2> SUFFICES ASSUME NEW j \in Invocations, NEW k \in Invocations,
                      pc'[j] \in {"idle"} \cup Active, j < k
               PROVE  pc'[k] = "idle"
    OBVIOUS
  <2>1. pc[j] \in {"idle"} \cup Active
    BY <1>1
  <2>2. pc[k] = "idle"
    BY <2>1 DEF SeriesOK
  <2>3. k # i
    BY <2>2 DEF Active, Awaiting
  <2> QED  BY <1>1, <2>2, <2>3
<1>4. \A j \in Invocations : pc'[j] \in Active => Agree(j, state', fut'[j], batch'[j])
  BY <1>1
<1>5. \A j \in Invocations : pc'[j] # "refused"
  BY <1>1 DEF SeriesOK
<1> QED  BY <1>0, <1>2, <1>3, <1>4, <1>5, <1>6 DEF SeriesOK, Agree

(* So the futures it launches are named by itself. *)
LEMMA ActiveIsLatest ==
  ASSUME SeriesOK, NEW i \in Invocations, pc[i] \in Active
  PROVE  Latest = i
<1>1. pc[i] # "idle"
  BY DEF Active, Awaiting
<1>2. Latest \in Invocations /\ pc[Latest] # "idle" /\ i <= Latest
  BY <1>1, LatestIsLast
<1>3. ~(i < Latest)
  BY <1>2 DEF SeriesOK
<1> QED  BY <1>2, <1>3 DEF Invocations

(* Going on after an outcome keeps the agreement: a finished run has no    *)
(* running node, so no live future either that could be told to cancel.    *)
LEMMA AfterOutcomeAgrees ==
  ASSUME TypeOK, NEW i \in Invocations, NEW f \in InFlight,
         batch' \in [Invocations -> SUBSET Futures],
         AfterOutcome(i, f) \/ NextInBatch(i, f),
         Agree(i, state', f, batch'[i]), FinishedIsQuiescent'
  PROVE  /\ pc' = [pc EXCEPT ![i] = pc'[i]] /\ pc'[i] \notin {"idle", "refused"}
         /\ fut' = [fut EXCEPT ![i] = fut'[i]]
         /\ Agree(i, state', fut'[i], batch'[i])
<1>1. /\ pc' = [pc EXCEPT ![i] = pc'[i]]
      /\ pc'[i] \in {"fill", "handle", "returned"}
      /\ fut' = [fut EXCEPT ![i] = fut'[i]]
  BY AfterOutcomeType, NextInBatchType
<1>2. fut'[i] = f \/ (finished' /\ fut'[i] = CancelFutures(f, Nodes))
  BY DEF AfterOutcome, NextInBatch, EndOfBatch, TypeOK
<1>3. ASSUME finished' PROVE CancelFutures(f, Nodes) = f
  <2>1. \A t \in Futures : f[t] # "live"
    BY <1>3 DEF Agree, Matches, FinishedIsQuiescent, Open, Futures
  <2> QED  BY <2>1 DEF CancelFutures, InFlight
<1> QED  BY <1>1, <1>2, <1>3

-----------------------------------------------------------------------------
(* A call begins when no other is active: no node is left running.         *)
LEMMA BeginSeries ==
  ASSUME ~Overlapping, TypeOK, SeriesOK, NEW i \in Invocations, Begin(i)
  PROVE  SeriesOK'
<1>1. pc[i] = "idle" /\ \A j \in Invocations : pc[j] \notin Active
  BY DEF Begin
<1>2. /\ pc' = [pc EXCEPT ![i] = pc'[i]] /\ pc'[i] \in {"fill", "plan"}
      /\ UNCHANGED <<fut, batch>>
  BY DEF Begin, TypeOK
<1>3. known' /\ \A n \in Nodes : state'[n] # "running"
  <2>1. CASE Start
    BY <2>1 DEF Start, SeriesOK
  <2>2. CASE Resume
    BY <2>2 DEF Resume, Interrupted
  <2> QED  BY <2>1, <2>2 DEF Begin
<1>4. Agree(i, state', fut'[i], batch'[i])
  BY <1>1, <1>2, <1>3 DEF SeriesOK, Agree, Matches, Futures
<1>5. ASSUME NEW j \in Invocations, j # i
      PROVE  pc'[j] = pc[j]
  BY <1>2, <1>5 DEF TypeOK
<1>6. \A j, k \in Invocations :
        pc'[j] \in {"idle"} \cup Active /\ j < k => pc'[k] = "idle"
  <2> SUFFICES ASSUME NEW j \in Invocations, NEW k \in Invocations,
                      pc'[j] \in {"idle"} \cup Active, j < k
               PROVE  pc'[k] = "idle"
    OBVIOUS
  <2>1. j = i \/ pc[j] = "idle"
    BY <1>1, <1>5
  <2>2. pc[j] = "idle"
    BY <1>1, <2>1
  <2>3. k # i
    BY <2>2 DEF Begin
  <2> QED  BY <1>5, <2>2, <2>3 DEF SeriesOK
<1>7. /\ \A j, k \in Invocations : pc'[j] \in Active /\ pc'[k] \in Active => j = k
      /\ \A j \in Invocations : pc'[j] # "refused"
  BY <1>1, <1>2, <1>5 DEF SeriesOK
<1>8. \A j \in Invocations : pc'[j] = "idle" =>
        batch'[j] = {} /\ \A t \in Futures : fut'[j][t] = "none"
  BY <1>2, <1>5 DEF SeriesOK
<1>9. \A j \in Invocations : pc'[j] \in Active => Agree(j, state', fut'[j], batch'[j])
  BY <1>1, <1>4, <1>5
<1> QED  BY <1>3, <1>6, <1>7, <1>8, <1>9 DEF SeriesOK, Agree

(* What is launched was pending, so it has no future and is in no batch.   *)
LEMMA LaunchSeries ==
  ASSUME TypeOK, SeriesOK, NEW i \in Invocations, Launch(i)
  PROVE  SeriesOK'
<1>1. pc[i] = "fill" /\ pc[i] \in Active
  BY DEF Launch, Active
<1>2. Agree(i, state, fut[i], batch[i])
  BY <1>1 DEF SeriesOK
<1>3. Launchable(i) \subseteq {n \in Nodes : state[n] = "pending"}
  BY DEF Launchable, Ready, Runnable
<1>4. \A n \in Nodes : state'[n] = IF n \in Launchable(i) THEN "running" ELSE state[n]
  BY <1>3 DEF Launch, MarkRunning
<1>5. \A t \in Futures :
        fut'[i][t] = IF t[1] \in Launchable(i) /\ t[2] = i THEN "live" ELSE fut[i][t]
  <2>1. \A t \in Futures : fut'[i][t] = IF t \in Launchable(i) \X {Latest} THEN "live"
                                        ELSE fut[i][t]
    BY DEF Launch, TypeOK
  <2>2. \A t \in Futures : t \in Launchable(i) \X {i} <=> t[1] \in Launchable(i) /\ t[2] = i
    BY DEF Futures
  <2> QED  BY <1>1, <2>1, <2>2, ActiveIsLatest
<1>6. batch' = batch /\ known' = known
  BY DEF Launch, MarkRunning
<1>7. Agree(i, state', fut'[i], batch'[i])
  <2> SUFFICES ASSUME NEW t \in Futures
               PROVE  /\ t[2] = i => Matches(state'[t[1]], fut'[i][t])
                      /\ t[2] # i => fut'[i][t] = "none"
                      /\ t \in batch'[i] => fut'[i][t] \in Done
    BY DEF Agree
  <2>1. t[1] \in Nodes
    BY DEF Futures
  <2>2. /\ t[2] = i => Matches(state[t[1]], fut[i][t])
        /\ t[2] # i => fut[i][t] = "none"
        /\ t \in batch[i] => fut[i][t] \in Done
    BY <1>2 DEF Agree
  <2> QED  BY <1>3, <1>4, <1>5, <1>6, <2>1, <2>2 DEF Matches, Done
<1>8. /\ pc' = [pc EXCEPT ![i] = pc'[i]] /\ pc'[i] \notin {"idle", "refused"}
      /\ fut' = [fut EXCEPT ![i] = fut'[i]] /\ batch' = [batch EXCEPT ![i] = batch'[i]]
  BY <1>6 DEF Launch, TypeOK
<1> QED  BY <1>1, <1>6, <1>7, <1>8, OneCallMoves
(* A coroutine ends with a result while its node is running, or is         *)
(* cancelled because its node was.  An orphan is nobody's.                 *)
LEMMA WorkerSeries ==
  ASSUME TypeOK, SeriesOK, NEW i \in Invocations, NEW t \in Futures, Worker(i, t)
  PROVE  SeriesOK'
<1>1. UNCHANGED <<store, pc, batch, queue, executed>>
  BY DEF Worker, WorkerEnds, WorkerCancelled
<1>2. fut[i][t] # "none"
  BY DEF Worker, WorkerEnds, WorkerCancelled
<1>3. \E v : fut' = [fut EXCEPT ![i][t] = v]
  BY DEF Worker, WorkerEnds, WorkerCancelled
<1>4. CASE pc[i] \in Active
  <2>1. PICK v : /\ fut' = [fut EXCEPT ![i][t] = v]
                 /\ \/ fut[i][t] = "live" /\ v \in {"ok", "error"}
                    \/ fut[i][t] = "cancelling" /\ v = "cancelled"
    BY <1>4 DEF Worker, WorkerEnds, WorkerCancelled
  <2>2. \A m \in Futures : fut'[i][m] = IF m = t THEN v ELSE fut[i][m]
    BY <2>1 DEF TypeOK
  <2>3. state' = state /\ batch' = batch /\ known' = known /\ pc' = pc
    BY <1>1 DEF store
  <2>4. Agree(i, state', fut'[i], batch'[i])
    BY <1>4, <2>1, <2>2, <2>3 DEF SeriesOK, Agree, Matches, Done
  <2>5. /\ pc' = [pc EXCEPT ![i] = pc'[i]] /\ pc'[i] \notin {"idle", "refused"}
        /\ fut' = [fut EXCEPT ![i] = fut'[i]] /\ batch' = [batch EXCEPT ![i] = batch'[i]]
    BY <1>4, <2>1, <2>3 DEF TypeOK, Active, Awaiting
  <2> QED  BY <1>4, <2>3, <2>4, <2>5, OneCallMoves
<1>5. CASE pc[i] \notin Active
  <2>1. pc[i] # "idle"
    BY <1>2 DEF SeriesOK
  <2>2. \A j \in Invocations : j # i => fut'[j] = fut[j]
    BY <1>3 DEF TypeOK
  <2> QED  BY <1>1, <1>5, <2>1, <2>2 DEF SeriesOK, Agree, store
<1> QED  BY <1>4, <1>5

(* The steps of the active call that leave the store alone. *)
LEMMA QuietSeries ==
  ASSUME TypeOK, SeriesOK, NEW i \in Invocations,
         LaunchNothing(i) \/ WaitReturns(i) \/ PlanRaises(i)
  PROVE  SeriesOK'
<1>1. pc[i] \in Active
  BY DEF LaunchNothing, WaitReturns, PlanRaises, Active, Awaiting
<1>2. state' = state /\ known' = known
  BY DEF LaunchNothing, WaitReturns, PlanRaises, store
<1>3. Agree(i, state, fut[i], batch[i])
  BY <1>1 DEF SeriesOK
<1>4. CASE LaunchNothing(i)
  <2>1. /\ pc' = [pc EXCEPT ![i] = pc'[i]] /\ pc'[i] \notin {"idle", "refused"}
        /\ fut' = [fut EXCEPT ![i] = fut'[i]] /\ batch' = [batch EXCEPT ![i] = batch'[i]]
        /\ fut' = fut /\ batch' = batch
    BY <1>4 DEF LaunchNothing, TypeOK
  <2> QED  BY <1>1, <1>2, <1>3, <2>1, OneCallMoves
<1>5. CASE WaitReturns(i)
  <2>1. batch' = [batch EXCEPT ![i] = {t \in Futures : fut[i][t] \in Done}] /\ fut' = fut
    BY <1>5 DEF WaitReturns
  <2>2. /\ pc' = [pc EXCEPT ![i] = pc'[i]] /\ pc'[i] \notin {"idle", "refused"}
        /\ fut' = [fut EXCEPT ![i] = fut'[i]] /\ batch' = [batch EXCEPT ![i] = batch'[i]]
    BY <1>5, <2>1 DEF WaitReturns, TypeOK
  <2>3. Agree(i, state, fut'[i], batch'[i])
    BY <1>3, <2>1 DEF Agree, TypeOK
  <2> QED  BY <1>1, <1>2, <2>2, <2>3, OneCallMoves
<1>6. CASE PlanRaises(i)
  <2>1. /\ pc' = [pc EXCEPT ![i] = pc'[i]] /\ pc'[i] = "rejected"
        /\ fut' = [fut EXCEPT ![i] = fut'[i]] /\ batch' = [batch EXCEPT ![i] = batch'[i]]
    BY <1>6 DEF PlanRaises, Raise, Idle, TypeOK
  <2>2. pc'[i] \notin Active \cup {"idle", "refused"}
    BY <2>1 DEF Active, Awaiting
  <2> QED  BY <1>1, <1>2, <2>1, <2>2, OneCallMoves
<1> QED  BY <1>4, <1>5, <1>6

(* A crash ends every active call and takes all futures with it. *)
LEMMA CrashSeries ==
  ASSUME TypeOK, SeriesOK, Crash \/ UNCHANGED vars
  PROVE  SeriesOK'
<1>1. CASE Crash
  <2>1. \A i \in Invocations :
          /\ pc'[i] \notin Active \cup {"refused"}
          /\ pc'[i] = "idle" => batch'[i] = {} /\ \A t \in Futures : fut'[i][t] = "none"
          /\ pc'[i] = "idle" <=> pc[i] = "idle"
    BY <1>1 DEF Crash, TypeOK, SeriesOK, Active, Awaiting
  <2>2. UNCHANGED store /\ known
    BY <1>1 DEF Crash, SeriesOK, Active, Awaiting
  <2> QED  BY <2>1, <2>2 DEF SeriesOK, store
<1>2. CASE UNCHANGED vars
  BY <1>2 DEF SeriesOK, Agree, vars, volatile, store
<1> QED  BY <1>1, <1>2
-----------------------------------------------------------------------------
(* A result that is dropped belongs to a node that is not running. *)
LEMMA DropResultSeries ==
  ASSUME TypeOK, SeriesOK, FinishedIsQuiescent,
         NEW i \in Invocations, NEW t \in Futures, DropResult(i, t)
  PROVE  SeriesOK'
<1> DEFINE f == [fut[i] EXCEPT ![t] = "none"]
<1>1. pc[i] = "handle" /\ pc[i] \in Active /\ t \in batch[i]
  BY DEF DropResult, Active, Heads
<1>2. t[1] \in Nodes
  BY DEF Futures
<1>3. f \in InFlight
  BY DEF TypeOK, InFlight, Future
<1>4. /\ batch' = [batch EXCEPT ![i] = batch[i] \ {t}]
      /\ batch' \in [Invocations -> SUBSET Futures] /\ UNCHANGED store
      /\ NextInBatch(i, f)
  BY DEF DropResult, TypeOK
<1>5. Agree(i, state, fut[i], batch[i])
  BY <1>1 DEF SeriesOK
<1>11. t[2] = i /\ state[t[1]] # "running"
  BY <1>1, <1>5 DEF Agree, Matches, DropResult, Discarded, Done
<1>6. \A m \in Futures : f[m] = IF m = t THEN "none" ELSE fut[i][m]
  BY DEF TypeOK
<1>7. state' = state /\ known' = known /\ FinishedIsQuiescent'
  BY <1>4 DEF store, FinishedIsQuiescent
<1>8. batch'[i] = batch[i] \ {t} /\ batch' = [batch EXCEPT ![i] = batch'[i]]
  BY <1>4 DEF TypeOK
<1>9. Agree(i, state', f, batch'[i])
  BY <1>5, <1>6, <1>7, <1>8, <1>11 DEF Agree, Matches
<1> HIDE DEF f
<1>10. /\ pc' = [pc EXCEPT ![i] = pc'[i]] /\ pc'[i] \notin {"idle", "refused"}
       /\ fut' = [fut EXCEPT ![i] = fut'[i]]
       /\ Agree(i, state', fut'[i], batch'[i])
  BY <1>3, <1>4, <1>7, <1>9, AfterOutcomeAgrees
<1> QED  BY <1>1, <1>7, <1>8, <1>10, OneCallMoves

(* A result of the batch that is not discarded belongs to a running node.  *)
LEMMA ResultIsAccepted ==
  ASSUME TypeOK, SeriesOK, NEW i \in Invocations, pc[i] = "handle",
         NEW t \in Futures, t \in batch[i], ~Discarded(i, t)
  PROVE  t[2] = i /\ OutcomeAccepted(t[1])
<1>1. t[1] \in Nodes
  BY DEF Futures
<1>2. Agree(i, state, fut[i], batch[i])
  BY DEF SeriesOK, Active
<1> QED  BY <1>1, <1>2 DEF Agree, Matches, Done, Discarded, OutcomeAccepted

(* An outcome settles its node, whose future is gone with it. *)
LEMMA TakeOutcomeSeries ==
  ASSUME TypeOK, SeriesOK, FinishedIsQuiescent',
         NEW i \in Invocations, NEW t \in Futures, TakeOutcome(i, t)
  PROVE  SeriesOK'
<1> DEFINE f == [fut[i] EXCEPT ![t] = "none"]
<1>1. pc[i] = "handle" /\ pc[i] \in Active /\ t \in batch[i] /\ ~Discarded(i, t)
  BY DEF TakeOutcome, Active, Heads
<1>2. t[1] \in Nodes /\ t[2] = i
  BY <1>1, ResultIsAccepted DEF Futures
<1>3. f \in InFlight
  BY DEF TypeOK, InFlight, Future
<1>4. /\ batch' = [batch EXCEPT ![i] = batch[i] \ {t}]
      /\ batch' \in [Invocations -> SUBSET Futures]
  BY DEF TakeOutcome, TypeOK
<1>5. PICK s \in {"succeeded", "failed"} : state' = [state EXCEPT ![t[1]] = s]
  BY DEF TakeOutcome, RecordOutcome
<1>6. state[t[1]] = "running" /\ known' = known
  BY DEF TakeOutcome, RecordOutcome, OutcomeAccepted
<1>7. Agree(i, state, fut[i], batch[i])
  BY <1>1 DEF SeriesOK
<1>8. AfterOutcome(i, f) \/ (pc' = [pc EXCEPT ![i] = "plan"] /\ fut' = [fut EXCEPT ![i] = f])
  BY DEF TakeOutcome
<1>9. /\ \A m \in Futures : f[m] = IF m = t THEN "none" ELSE fut[i][m]
      /\ \A m \in Futures : state'[m[1]] = IF m[1] = t[1] THEN s ELSE state[m[1]]
      /\ \A m \in Futures : m[1] = t[1] /\ m[2] = t[2] => m = t
  <2>1. \A m \in Futures : f[m] = IF m = t THEN "none" ELSE fut[i][m]
    BY DEF TypeOK
  <2>2. \A n \in Nodes : state'[n] = IF n = t[1] THEN s ELSE state[n]
    BY <1>2, <1>5 DEF TypeOK, StoreTypeOK
  <2>3. \A m \in Futures : m[1] \in Nodes
    BY DEF Futures
  <2>4. \A m \in Futures : m[1] = t[1] /\ m[2] = t[2] => m = t
    BY DEF Futures
  <2> QED  BY <2>1, <2>2, <2>3, <2>4
<1>10. batch'[i] = batch[i] \ {t} /\ batch' = [batch EXCEPT ![i] = batch'[i]]
  BY <1>4 DEF TypeOK
<1>11. Agree(i, state', f, batch'[i])
  <2> SUFFICES ASSUME NEW m \in Futures
               PROVE  /\ m[2] = i => Matches(state'[m[1]], f[m])
                      /\ m[2] # i => f[m] = "none"
                      /\ m \in batch'[i] => f[m] \in Done
    BY DEF Agree
  <2>1. /\ m[2] = i => Matches(state[m[1]], fut[i][m])
        /\ m[2] # i => fut[i][m] = "none"
        /\ m \in batch[i] => fut[i][m] \in Done
    BY <1>7 DEF Agree
  <2>2. CASE m = t
    BY <1>2, <1>5, <1>9, <1>10, <2>2 DEF Matches
  <2>3. CASE m # t
    BY <1>2, <1>9, <1>10, <2>1, <2>3
  <2> QED  BY <2>2, <2>3
<1> HIDE DEF f
<1>12. /\ pc' = [pc EXCEPT ![i] = pc'[i]] /\ pc'[i] \notin {"idle", "refused"}
       /\ fut' = [fut EXCEPT ![i] = fut'[i]]
       /\ Agree(i, state', fut'[i], batch'[i])
  <2>1. CASE AfterOutcome(i, f)
    BY <1>3, <1>4, <1>11, <2>1, AfterOutcomeAgrees
  <2>2. CASE pc' = [pc EXCEPT ![i] = "plan"] /\ fut' = [fut EXCEPT ![i] = f]
    BY <1>11, <2>2 DEF TypeOK
  <2> QED  BY <1>8, <2>1, <2>2
<1> QED  BY <1>1, <1>6, <1>10, <1>12, OneCallMoves

(* What a patch does to a node that has a future: nothing, or cancel it.   *)
LEMMA PatchAndFutures ==
  ASSUME StoreTypeOK, NEW p \in Patches, NEW t, CommitPatch(p, t), NEW n \in Nodes
  PROVE  /\ state[n] = "running" => state'[n] \in {"running", "cancelled"}
         /\ state[n] = "cancelled" => state'[n] = "cancelled"
         /\ state'[n] = "running" => state[n] = "running"
<1>1. state'[n] = IF n \in Leftovers(p) THEN "cancelled" ELSE Rewritten(p, n)
  BY DEF CommitPatch
<1>2. Accepts(p)
  BY DEF CommitPatch
<1> QED  BY <1>1, <1>2 DEF Accepts, Leftovers, Rewritten, Existing, Open

(* InFlight whose nodes the patch cancelled are told so, if still live. *)
LEMMA PlanReturnsSeries ==
  ASSUME TypeOK, ControlOK, SeriesOK, FinishedIsQuiescent',
         NEW i \in Invocations, PlanReturns(i)
  PROVE  SeriesOK'
<1> DEFINE f == CancelFutures(fut[i], DroppedByGraph)
<1>1. pc[i] = "plan" /\ pc[i] \in Active
  BY DEF PlanReturns, PlanAnswers, Active, Awaiting
<1>2. Agree(i, state, fut[i], batch[i])
  BY <1>1 DEF SeriesOK
<1>3. batch' = batch /\ batch' \in [Invocations -> SUBSET Futures]
      /\ batch' = [batch EXCEPT ![i] = batch'[i]]
  BY DEF PlanReturns, PlanAnswers, TypeOK
<1>4. f \in InFlight
  BY CancelFuturesType DEF TypeOK, InFlight
<1>5. UNCHANGED store \/ \E p \in Patches : CommitPatch(p, First(queue[i]))
  BY DEF PlanReturns, PlanAnswers
<1>6. ASSUME NEW n \in Nodes
      PROVE  /\ state[n] = "running" => state'[n] \in {"running", "cancelled"}
             /\ state[n] = "cancelled" => state'[n] = "cancelled"
             /\ state'[n] = "running" => state[n] = "running"
  BY <1>5, PatchAndFutures DEF TypeOK, store
<1>7. \A t \in Futures : f[t] = IF state'[t[1]] = "cancelled" /\ fut[i][t] = "live"
                                THEN "cancelling" ELSE fut[i][t]
  BY DEF CancelFutures, DroppedByGraph, Futures
<1>8. AfterOutcome(i, f) \/ (pc' = [pc EXCEPT ![i] = "plan"] /\ fut' = [fut EXCEPT ![i] = f])
  BY DEF PlanReturns, PlanAnswers
<1> HIDE DEF f
<1>9. Agree(i, state', f, batch'[i])
  <2> SUFFICES ASSUME NEW t \in Futures
               PROVE  /\ t[2] = i => Matches(state'[t[1]], f[t])
                      /\ t[2] # i => f[t] = "none"
                      /\ t \in batch'[i] => f[t] \in Done
    BY DEF Agree
  <2>1. t[1] \in Nodes
    BY DEF Futures
  <2>2. /\ t[2] = i => Matches(state[t[1]], fut[i][t])
        /\ t[2] # i => fut[i][t] = "none"
        /\ t \in batch[i] => fut[i][t] \in Done
    BY <1>2 DEF Agree
  <2> QED  BY <1>3, <1>6, <1>7, <2>1, <2>2 DEF Matches, Done
<1>10. /\ pc' = [pc EXCEPT ![i] = pc'[i]] /\ pc'[i] \notin {"idle", "refused"}
       /\ fut' = [fut EXCEPT ![i] = fut'[i]]
       /\ Agree(i, state', fut'[i], batch'[i])
  <2>1. CASE AfterOutcome(i, f)
    BY <1>3, <1>4, <1>9, <2>1, AfterOutcomeAgrees
  <2>2. CASE pc' = [pc EXCEPT ![i] = "plan"] /\ fut' = [fut EXCEPT ![i] = f]
    BY <1>9, <2>2 DEF TypeOK
  <2> QED  BY <1>8, <2>1, <2>2
<1>11. known' = known
  BY <1>5 DEF CommitPatch, store
<1> QED  BY <1>1, <1>3, <1>10, <1>11, OneCallMoves
-----------------------------------------------------------------------------
(* Every step keeps the agreement, when calls do not overlap. *)
LEMMA SeriesStep ==
  ASSUME ~Overlapping, TypeOK, ControlOK, FinishedIsQuiescent, FinishedIsQuiescent',
         SeriesOK, [Next]_vars
  PROVE  SeriesOK'
<1>1. ASSUME NEW i \in Invocations, Begin(i)
      PROVE  SeriesOK'
  BY <1>1, BeginSeries
<1>2. ASSUME NEW i \in Invocations, Step(i)
      PROVE  SeriesOK'
  <2>1. CASE Launch(i)
    BY <2>1, LaunchSeries
  <2>2. CASE LaunchNothing(i) \/ WaitReturns(i) \/ PlanRaises(i)
    BY <2>2, QuietSeries
  <2>3. CASE \E t \in Futures : DropResult(i, t)
    BY <2>3, DropResultSeries
  <2>4. CASE \E t \in Futures : TakeOutcome(i, t)
    BY <2>4, TakeOutcomeSeries
  <2>5. ASSUME NEW t \in Futures, OutcomeRefused(i, t)
        PROVE  SeriesOK'
    BY <2>5, ResultIsAccepted DEF OutcomeRefused, Heads
  <2>6. CASE PlanReturns(i)
    BY <2>6, PlanReturnsSeries
  <2> QED  BY <1>2, <2>1, <2>2, <2>3, <2>4, <2>5, <2>6 DEF Step, Handle
<1>3. ASSUME NEW i \in Invocations, NEW t \in Futures, Worker(i, t)
      PROVE  SeriesOK'
  BY <1>3, WorkerSeries
<1>4. CASE Crash \/ UNCHANGED vars
  BY <1>4, CrashSeries
<1> QED  BY <1>1, <1>2, <1>3, <1>4 DEF Next

(* SeriesOK holds in every reachable state. *)
LEMMA SeriesInvariant ==
  ASSUME ~Overlapping
  PROVE  Spec => []SeriesOK
<1>1. Init => SeriesOK
  BY DEF Init, StoreInit, SeriesOK, Active, Awaiting
<1>2. TypeOK /\ ControlOK /\ FinishedIsQuiescent /\ FinishedIsQuiescent'
        /\ SeriesOK /\ [Next]_vars => SeriesOK'
  BY SeriesStep
<1> QED  BY <1>1, <1>2, TypeCorrect, FinishedIsQuiescentAlways, PTL DEF Spec

(***************************************************************************)
(* While calls of run() follow one another, a node is recorded as running  *)
(* exactly as long as the active call holds a coroutine for it that was    *)
(* not told to stop, whatever the planner cancels, and after every crash.  *)
(***************************************************************************)
THEOREM RunningIsHeldInSeries ==
  ASSUME ~Overlapping
  PROVE  Spec => []RunningIsHeld
<1>1. ASSUME SeriesOK, NEW i \in Invocations, pc[i] \in Active
      PROVE  /\ \A t \in Futures : fut[i][t] = "live" => state[t[1]] = "running"
             /\ \A n \in Nodes : state[n] = "running" =>
                  \E t \in {n} \X Invocations : fut[i][t] \in {"live", "ok", "error"}
  <2>1. Agree(i, state, fut[i], batch[i])
    BY <1>1 DEF SeriesOK
  <2>2. \A t \in Futures : fut[i][t] = "live" => state[t[1]] = "running"
    BY <2>1 DEF Agree, Matches
  <2>3. ASSUME NEW n \in Nodes, state[n] = "running"
        PROVE  \E t \in {n} \X Invocations : fut[i][t] \in {"live", "ok", "error"}
    <3>1. /\ <<n, i>> \in Futures /\ <<n, i>> \in {n} \X Invocations
          /\ <<n, i>>[1] = n /\ <<n, i>>[2] = i
      BY DEF Futures
    <3>2. Matches(state[n], fut[i][<<n, i>>])
      BY <2>1, <3>1 DEF Agree
    <3> QED  BY <2>3, <3>1, <3>2 DEF Matches
  <2> QED  BY <2>2, <2>3
<1>2. SeriesOK => RunningIsHeld
  BY <1>1 DEF RunningIsHeld
<1> QED  BY <1>2, SeriesInvariant, PTL

(***************************************************************************)
(* And the result of a node the graph cancelled, before or after its       *)
(* coroutine ended, never ends a call with a GraphMutationError.           *)
(***************************************************************************)
THEOREM LateResultNeverAbortsInSeries ==
  ASSUME ~Overlapping
  PROVE  Spec => []LateResultNeverAborts
<1>1. SeriesOK => LateResultNeverAborts
  BY DEF SeriesOK, LateResultNeverAborts
<1> QED  BY <1>1, SeriesInvariant, PTL

-----------------------------------------------------------------------------
(***************************************************************************)
(* The active call knows the planner events that have no patch: those it   *)
(* has still to replay, or the one it has just recorded; none once the run *)
(* is finished, and none while it launches, waits or walks a batch.        *)
(***************************************************************************)
KnowsPending(i) ==
  /\ queue[i] = IF finished THEN {} ELSE PendingPlannerEvents
  /\ pc[i] \in {"fill", "wait", "handle"} => queue[i] = {}

PlanningOK == \A i \in Invocations : pc[i] \in Active => KnowsPending(i)

(* A transaction makes one planner event, if it holds a row of that kind.  *)
LEMMA EventsAppend ==
  ASSUME StoreTypeOK, NEW rows, Commit(rows)
  PROVE  PlannerEvents' = PlannerEvents
           \cup (IF \E r \in rows : r.kind \in PlannerKinds THEN {Len(journal')} ELSE {})
<1> DEFINE isEvent(rs) == \E r \in rs : r.kind \in PlannerKinds
<1>1. PlannerEvents' = {i \in DOMAIN journal' : isEvent(journal'[i])}
  BY DEF PlannerEvents
<1>2. PlannerEvents = {i \in DOMAIN journal : isEvent(journal[i])}
  BY DEF PlannerEvents
<1>3. /\ DOMAIN journal' = DOMAIN journal \cup {Len(journal')}
      /\ \A i \in DOMAIN journal : journal'[i] = journal[i]
      /\ journal'[Len(journal')] = rows
  BY CommitAppends
<1>4. \A i \in DOMAIN journal : isEvent(journal'[i]) <=> isEvent(journal[i])
  BY <1>3
<1>5. isEvent(journal'[Len(journal')]) <=> isEvent(rows)
  BY <1>3
<1> HIDE DEF isEvent
<1>6. PlannerEvents' = PlannerEvents \cup (IF isEvent(rows) THEN {Len(journal')} ELSE {})
  BY <1>1, <1>2, <1>3, <1>4, <1>5, Zenon
<1> QED  BY <1>6 DEF isEvent

(* When one call moves, the others are not active, so it is the one to     *)
(* look at.                                                                *)
LEMMA OneCallPlans ==
  ASSUME TypeOK, SeriesOK, NEW i \in Invocations,
         \A j \in Invocations : j # i => pc[j] \notin Active,
         pc' = [pc EXCEPT ![i] = pc'[i]], pc'[i] \in Active => KnowsPending(i)'
  PROVE  PlanningOK'
<1> SUFFICES ASSUME NEW j \in Invocations, j # i
             PROVE  pc'[j] \notin Active
  BY DEF PlanningOK
<1> QED  BY DEF TypeOK

(* A call that begins reads the list of what it has to replay. *)
LEMMA BeginPlans ==
  ASSUME ~Overlapping, TypeOK, SeriesOK, NEW i \in Invocations, Begin(i)
  PROVE  PlanningOK'
<1>1. /\ \A j \in Invocations : pc[j] \notin Active
      /\ pc' = [pc EXCEPT ![i] = pc'[i]]
      /\ pc'[i] = IF queue'[i] = {} THEN "fill" ELSE "plan"
  BY DEF Begin, TypeOK
<1>2. queue'[i] = Replay
  BY DEF Begin, TypeOK
<1>3. KnowsPending(i)'
  BY <1>1, <1>2 DEF KnowsPending, Replay
<1> QED  BY <1>1, <1>3, OneCallPlans

(* A transaction that records no event of the planner and patches none     *)
(* leaves the list as it is.                                               *)
LEMMA LaunchPlans ==
  ASSUME TypeOK, SeriesOK, PlanningOK, NEW i \in Invocations, Launch(i)
  PROVE  PlanningOK'
<1>1. pc[i] = "fill" /\ pc[i] \in Active
  BY DEF Launch, Active
<1>2. /\ pc' = [pc EXCEPT ![i] = pc'[i]] /\ pc'[i] = "wait"
      /\ UNCHANGED <<queue, finished, patched>>
  BY DEF Launch, MarkRunning, TypeOK
<1>3. PlannerEvents' = PlannerEvents
  <2> DEFINE rows == {Row("task_started", n) : n \in Launchable(i)}
  <2>1. Commit(rows)
    BY DEF Launch, MarkRunning
  <2>2. ~\E r \in rows : r.kind \in PlannerKinds
    BY DEF Row, PlannerKinds
  <2> QED  BY <2>1, <2>2, EventsAppend, TypeOKSplits
<1>4. KnowsPending(i)'
  BY <1>1, <1>2, <1>3 DEF PlanningOK, KnowsPending, PendingPlannerEvents
<1> QED  BY <1>1, <1>2, <1>4, OneCallPlans DEF SeriesOK

(* The steps of a call that leave store and queue alone. *)
LEMMA QuietPlans ==
  ASSUME TypeOK, SeriesOK, PlanningOK, NEW i \in Invocations,
         LaunchNothing(i) \/ WaitReturns(i) \/ \E t \in Futures : DropResult(i, t)
  PROVE  PlanningOK'
<1>1. pc[i] \in {"fill", "wait", "handle"} /\ pc[i] \in Active
  BY DEF LaunchNothing, WaitReturns, DropResult, Active, Awaiting
<1>2. pc' = [pc EXCEPT ![i] = pc'[i]] /\ UNCHANGED <<store, queue>>
  BY DEF LaunchNothing, WaitReturns, DropResult, NextInBatch, EndOfBatch, TypeOK
<1>3. KnowsPending(i)'
  BY <1>1, <1>2 DEF PlanningOK, KnowsPending, PendingPlannerEvents, PlannerEvents, store
<1> QED  BY <1>1, <1>2, <1>3, OneCallPlans DEF SeriesOK

(* An outcome is a planner event, and the only one that is pending. *)
LEMMA TakeOutcomePlans ==
  ASSUME TypeOK, ControlOK, SeriesOK, PlanningOK, NEW i \in Invocations,
         NEW t \in Futures, TakeOutcome(i, t)
  PROVE  PlanningOK'
<1>1. pc[i] = "handle" /\ pc[i] \in Active
  BY DEF TakeOutcome, Active
<1>2. queue[i] = {} /\ finished' = finished /\ patched' = patched
      /\ (~finished => PendingPlannerEvents = {})
  BY <1>1 DEF PlanningOK, KnowsPending, TakeOutcome, RecordOutcome
<1>3. CASE finished
  <2>1. pc' = [pc EXCEPT ![i] = pc'[i]] /\ queue' = queue
    BY <1>3 DEF TakeOutcome, AfterOutcome, NextInBatch, EndOfBatch, TypeOK
  <2>2. KnowsPending(i)'
    BY <1>2, <1>3, <2>1 DEF KnowsPending
  <2> QED  BY <1>1, <2>1, <2>2, OneCallPlans DEF SeriesOK
<1>4. CASE ~finished
  <2>1. /\ pc' = [pc EXCEPT ![i] = pc'[i]] /\ pc'[i] = "plan"
        /\ queue'[i] = {Len(journal')}
    BY <1>4 DEF TakeOutcome, TypeOK
  <2>2. PICK kind \in {"task_succeeded", "task_failed"} : Commit({Row(kind, t[1])})
    BY DEF TakeOutcome, RecordOutcome
  <2>3. PlannerEvents' = PlannerEvents \cup {Len(journal')}
    <3>1. \E r \in {Row(kind, t[1])} : r.kind \in PlannerKinds
      BY DEF Row, PlannerKinds
    <3> QED  BY <2>2, <3>1, EventsAppend, TypeOKSplits
  <2>4. Len(journal') \notin patched
    BY <2>2, CommitAppends, TypeOKSplits DEF StoreTypeOK
  <2>5. PendingPlannerEvents' = {Len(journal')}
    BY <1>2, <1>4, <2>3, <2>4 DEF PendingPlannerEvents
  <2>6. KnowsPending(i)'
    BY <1>2, <1>4, <2>1, <2>5 DEF KnowsPending
  <2> QED  BY <1>1, <2>1, <2>6, OneCallPlans DEF SeriesOK
<1> QED  BY <1>3, <1>4

(* A patch takes its event off the list; a patch that finishes the run     *)
(* clears it.                                                              *)
LEMMA PlanReturnsPlans ==
  ASSUME TypeOK, ControlOK, SeriesOK, PlanningOK, NEW i \in Invocations, PlanReturns(i)
  PROVE  PlanningOK'
<1> DEFINE t == First(queue[i])
<1>1. pc[i] = "plan" /\ pc[i] \in Active
  BY DEF PlanReturns, PlanAnswers, Active, Awaiting
<1>2. t \in queue[i]
  BY <1>1, FirstOfEvents DEF TypeOK, StoreTypeOK, ControlOK
<1>3. ~finished /\ queue[i] = PendingPlannerEvents
  BY <1>1, <1>2 DEF PlanningOK, KnowsPending
<1>4. PICK p \in Patches : CommitPatch(p, t)
  BY <1>2, <1>3 DEF PlanReturns, PlanAnswers, Unpatched, PendingPlannerEvents
<1>5. queue'[i] = IF finished' THEN {} ELSE queue[i] \ {t}
  BY DEF PlanReturns, PlanAnswers, TypeOK
<1>6. PlannerEvents' = PlannerEvents /\ patched' = patched \cup {t}
  <2> DEFINE rows == {Row("task_cancelled", n) : n \in p.cancel \cup Leftovers(p)}
                       \cup {PatchRow(t)}
  <2>1. Commit(rows) /\ patched' = patched \cup {t}
    BY <1>4 DEF CommitPatch
  <2>2. ~\E r \in rows : r.kind \in PlannerKinds
    BY DEF Row, PatchRow, PlannerKinds
  <2> HIDE DEF rows
  <2> QED  BY <2>1, <2>2, EventsAppend, TypeOKSplits
<1>7. queue'[i] = IF finished' THEN {} ELSE PendingPlannerEvents'
  BY <1>3, <1>5, <1>6 DEF PendingPlannerEvents
<1>8. /\ pc' = [pc EXCEPT ![i] = pc'[i]]
      /\ pc'[i] \in {"fill", "wait", "handle"} => queue'[i] = {}
  BY DEF PlanReturns, PlanAnswers, AfterOutcome, NextInBatch, EndOfBatch, TypeOK
<1>9. KnowsPending(i)'
  BY <1>7, <1>8 DEF KnowsPending
<1> QED  BY <1>1, <1>8, <1>9, OneCallPlans DEF SeriesOK

(* Steps that end a call, and steps of its coroutines. *)
LEMMA OtherPlans ==
  ASSUME TypeOK, SeriesOK, PlanningOK,
         \/ \E i \in Invocations : PlanRaises(i)
         \/ \E i \in Invocations, t \in Futures : OutcomeRefused(i, t) \/ Worker(i, t)
         \/ Crash
         \/ UNCHANGED vars
  PROVE  PlanningOK'
<1>1. ASSUME NEW i \in Invocations,
             PlanRaises(i) \/ \E t \in Futures : OutcomeRefused(i, t)
      PROVE  PlanningOK'
  <2>1. pc[i] \in Active /\ pc' = [pc EXCEPT ![i] = pc'[i]] /\ pc'[i] \notin Active
    BY <1>1 DEF OutcomeRefused, PlanRaises, Raise, TypeOK, Active, Awaiting
  <2> QED  BY <2>1, OneCallPlans DEF SeriesOK
<1>2. CASE \E i \in Invocations, t \in Futures : Worker(i, t)
  <2>1. UNCHANGED <<store, pc, queue>>
    BY <1>2 DEF Worker, WorkerEnds, WorkerCancelled
  <2> QED  BY <2>1 DEF PlanningOK, KnowsPending, PendingPlannerEvents, PlannerEvents, store
<1>3. CASE Crash
  <2>1. \A i \in Invocations : pc'[i] \notin Active
    BY <1>3 DEF Crash, Active, Awaiting
  <2> QED  BY <2>1 DEF PlanningOK
<1>4. CASE UNCHANGED vars
  BY <1>4
     DEF PlanningOK, KnowsPending, PendingPlannerEvents, PlannerEvents, store, vars, volatile
<1> QED  BY <1>1, <1>2, <1>3, <1>4

(* Every step keeps the list. *)
LEMMA PlanningStep ==
  ASSUME ~Overlapping, TypeOK, ControlOK, SeriesOK, PlanningOK, [Next]_vars
  PROVE  PlanningOK'
BY BeginPlans, LaunchPlans, QuietPlans, TakeOutcomePlans, PlanReturnsPlans, OtherPlans
   DEF Next, Step, Handle

-----------------------------------------------------------------------------
(* With a free slot, ready() returns something whenever a node is ready:   *)
(* the least of them.                                                      *)
LEMMA SomeReady ==
  ASSUME Runnable # {}, NEW k \in Int, k > 0
  PROVE  Ready(k) # {}
<1>1. Runnable \in SUBSET Nat
  BY NodesAssumption DEF Runnable
<1>2. PICK n \in Runnable : \A m \in Runnable : n <= m
  BY <1>1, FirstIsLeast
<1>3. \A m \in Runnable : m \in Nat
  BY <1>1
<1>4. {m \in Runnable : m < n} = {}
  BY <1>2, <1>3
<1>5. Cardinality({m \in Runnable : m < n}) = 0
  BY <1>4, FS_EmptySet
<1> QED  BY <1>2, <1>5 DEF Ready

(* A call comes back from max_completed or from a loop that found nothing  *)
(* to launch and nothing to wait for.                                      *)
LEMMA WhereItReturns ==
  ASSUME TypeOK, [Next]_vars, NEW i \in Invocations,
         pc[i] # "returned", pc'[i] = "returned"
  PROVE  executed'[i] >= MaxCompleted \/ (LaunchNothing(i) /\ Held(i) = {})
<1>1. ASSUME NEW j \in Invocations, pc' = [pc EXCEPT ![j] = pc'[j]]
      PROVE  i = j
  BY <1>1 DEF TypeOK
<1>2. ASSUME NEW j \in Invocations, NEW f, AfterOutcome(j, f)
      PROVE  executed'[i] >= MaxCompleted
  BY <1>2 DEF AfterOutcome, NextInBatch, EndOfBatch, StopReached, TypeOK
<1>3. ASSUME NEW j \in Invocations, Step(j)
      PROVE  executed'[i] >= MaxCompleted \/ (LaunchNothing(i) /\ Held(i) = {})
  <2>1. CASE LaunchNothing(j)
    BY <2>1 DEF LaunchNothing, TypeOK
  <2>2. CASE Launch(j) \/ WaitReturns(j) \/ \E t \in Futures : DropResult(j, t)
    BY <2>2 DEF Launch, WaitReturns, DropResult, NextInBatch, EndOfBatch, TypeOK
  <2>3. CASE \E t \in Futures : TakeOutcome(j, t)
    BY <1>2, <2>3 DEF TakeOutcome, TypeOK
  <2>4. CASE PlanRaises(j) \/ \E t \in Futures : OutcomeRefused(j, t)
    BY <2>4 DEF OutcomeRefused, PlanRaises, Raise, TypeOK
  <2>5. CASE PlanReturns(j)
    BY <1>2, <2>5 DEF PlanReturns, PlanAnswers, TypeOK
  <2> QED  BY <1>3, <2>1, <2>2, <2>3, <2>4, <2>5 DEF Step, Handle
<1>4. ~\E j \in Invocations : Begin(j)
  BY DEF Begin, TypeOK
<1>5. ~\E j \in Invocations, t \in Futures : Worker(j, t)
  BY DEF Worker, WorkerEnds, WorkerCancelled
<1>6. ~Crash /\ ~UNCHANGED vars
  BY DEF Crash, vars, volatile, TypeOK
<1> QED  BY <1>3, <1>4, <1>5, <1>6 DEF Next

(* Such a loop has planned every event, runs nothing and has nothing ready. *)
LEMMA NothingLeft ==
  ASSUME TypeOK, SeriesOK, PlanningOK, NEW i \in Invocations,
         LaunchNothing(i), Held(i) = {}, executed[i] < MaxCompleted
  PROVE  \/ finished
         \/ /\ PendingPlannerEvents = {}
            /\ \A n \in Nodes : state[n] # "running"
            /\ Runnable = {}
<1> SUFFICES ASSUME ~finished
             PROVE  /\ PendingPlannerEvents = {}
                    /\ \A n \in Nodes : state[n] # "running"
                    /\ Runnable = {}
  OBVIOUS
<1>1. pc[i] = "fill" /\ pc[i] \in Active /\ Ready(Capacity(i)) = {}
  BY DEF LaunchNothing, Launchable, Active
<1>2. PendingPlannerEvents = {}
  BY <1>1 DEF PlanningOK, KnowsPending
<1>3. \A n \in Nodes : state[n] # "running"
  <2>1. Agree(i, state, fut[i], batch[i]) /\ \A t \in Futures : fut[i][t] = "none"
    BY <1>1 DEF SeriesOK, Held
  <2>2. \A n \in Nodes : <<n, i>> \in Futures /\ <<n, i>>[1] = n /\ <<n, i>>[2] = i
    BY DEF Futures
  <2> QED  BY <2>1, <2>2 DEF Agree, Matches
<1>4. Cardinality(Held(i)) = 0
  BY FS_EmptySet
<1>5. Capacity(i) \in Int /\ Capacity(i) > 0
  BY <1>4, BoundsAssumption DEF Capacity, TypeOK
<1> QED  BY <1>1, <1>2, <1>3, <1>5, SomeReady

(***************************************************************************)
(* While calls follow one another, a call of run() that comes back before  *)
(* max_completed has left nothing it could do: the run is finished, or     *)
(* every outcome is planned, no node is running and none is ready.         *)
(***************************************************************************)
THEOREM ReturnLeavesNothingToDoInSeries ==
  ASSUME ~Overlapping
  PROVE  Spec => ReturnLeavesNothingToDo
<1> DEFINE A == \A i \in Invocations :
                  pc[i] # "returned" /\ pc'[i] = "returned" /\ executed'[i] < MaxCompleted =>
                    \/ finished'
                    \/ /\ PendingPlannerEvents' = {}
                       /\ \A n \in Nodes : state'[n] # "running"
                       /\ Runnable' = {}
<1>1. Init => PlanningOK
  BY DEF Init, PlanningOK, Active, Awaiting
<1>2. TypeOK /\ ControlOK /\ SeriesOK /\ PlanningOK /\ [Next]_vars => PlanningOK'
  BY PlanningStep
<1>3. ASSUME TypeOK, TypeOK', SeriesOK, PlanningOK, [Next]_vars
      PROVE  A
  <2> SUFFICES ASSUME NEW i \in Invocations, pc[i] # "returned", pc'[i] = "returned",
                      executed'[i] < MaxCompleted
               PROVE  \/ finished'
                      \/ /\ PendingPlannerEvents' = {}
                         /\ \A n \in Nodes : state'[n] # "running"
                         /\ Runnable' = {}
    OBVIOUS
  <2>1. executed'[i] \in Nat
    BY <1>3 DEF TypeOK
  <2>2. LaunchNothing(i) /\ Held(i) = {}
    BY <1>3, <2>1, WhereItReturns, BoundsAssumption
  <2>3. UNCHANGED <<store, executed>>
    BY <2>2 DEF LaunchNothing
  <2>4. \/ finished
        \/ /\ PendingPlannerEvents = {}
           /\ \A n \in Nodes : state[n] # "running"
           /\ Runnable = {}
    BY <1>3, <2>2, <2>3, NothingLeft
  <2> QED
    BY <2>3, <2>4 DEF store, PendingPlannerEvents, PlannerEvents, Runnable, ParentsSucceeded
<1>4. TypeOK /\ TypeOK' /\ SeriesOK /\ PlanningOK /\ [Next]_vars => [A]_vars
  BY <1>3
<1> HIDE DEF A
<1>5. Spec => [][A]_vars
  BY <1>1, <1>2, <1>4, TypeCorrect, SeriesInvariant, PTL DEF Spec
<1> QED  BY <1>5 DEF A, ReturnLeavesNothingToDo

=============================================================================

--------------------------- MODULE RemoteProofs ----------------------------
(***************************************************************************)
(* Proofs about the A2A tasks and their bridge to the live graph, for any  *)
(* number of tasks, notifications, restarts and lost requests: the bounds  *)
(* of the model are not used.                                              *)
(*                                                                         *)
(* The state of a task is written by whoever holds its handler, so the     *)
(* first invariant says who may: a request and a background job never work *)
(* on a task at once, no other coroutine has a handler, and a job that has *)
(* it works on a task that has not ended.  The second is about the numbers *)
(* of the changes of a task and the coroutines that post them, the third   *)
(* about the journal of the graph and what the bridge has in memory.       *)
(***************************************************************************)
EXTENDS Remote, FiniteSetTheorems, TLAPS

PlacesOf == [Coroutines -> Places]

TaskType ==
  /\ task \in [Tasks -> {"absent"} \cup Unfinished \cup TERMINAL]
  /\ pc \in [Tasks -> PlacesOf]

(* Of a task in state s, its coroutines at p, in a server that is up or    *)
(* not.                                                                    *)
Held(s, p, on) ==
  /\ s = "absent" \/ ~on => \A c \in Coroutines : p[c] = "idle"
  /\ p["request"] \in {"handler", "yielded"} =>
       p["job"] = "idle" /\ s \in Unfinished \cup {"canceled"}
  /\ p["job"] = "handler" => s \in Unfinished
  /\ p["cancel"] # "handler" /\ p["subscriber"] # "handler"

HandlersInv == TaskType /\ \A t \in Tasks : Held(task[t], pc[t], up)

(* What EndedStaysEnded says of one step. *)
Kept == \A t \in Tasks : task[t] \in TERMINAL /\ task'[t] # task[t] =>
          task[t] = "canceled" /\ pc[t]["request"] = "handler"

-----------------------------------------------------------------------------
(* A step that changes one task at most, to s and p, is one the invariant  *)
(* allows if s and p are.                                                  *)
LEMMA OneTask ==
  ASSUME HandlersInv, NEW t \in Tasks,
         NEW s \in {"absent"} \cup Unfinished \cup TERMINAL, NEW p \in PlacesOf,
         task' = [task EXCEPT ![t] = s], pc' = [pc EXCEPT ![t] = p], up' = up,
         Held(s, p, up),
         task[t] \in TERMINAL /\ s # task[t] =>
           task[t] = "canceled" /\ pc[t]["request"] = "handler"
  PROVE  HandlersInv' /\ Kept
<1>1. TaskType' BY DEF HandlersInv, TaskType
<1>2. \A u \in Tasks : Held(task'[u], pc'[u], up')
  <2>1. TAKE u \in Tasks
  <2>2. CASE u = t BY <2>2 DEF HandlersInv, TaskType
  <2>3. CASE u # t BY <2>3 DEF HandlersInv, TaskType
  <2>4. QED BY <2>2, <2>3
<1>3. Kept BY DEF Kept, HandlersInv, TaskType
<1>4. QED BY <1>1, <1>2, <1>3 DEF HandlersInv

(* A notification only moves the coroutine that makes it, or turns an      *)
(* asynchronous request into a job.                                        *)
LEMMA SettledMoves ==
  ASSUME NEW t \in Tasks, NEW c \in Coroutines, NEW p \in PlacesOf
  PROVE  /\ Settled(t, c, p) \in PlacesOf
         /\ \/ Settled(t, c, p) = [p EXCEPT ![c] = "idle"]
            \/ c = "request" /\ Settled(t, c, p) = [p EXCEPT !["request"] = "idle", !["job"] = "delay"]
BY DEF Settled, PlacesOf, Coroutines, Places

(* Where a coroutine may be while it notifies, it may also be done.        *)
LEMMA SettledHeld ==
  ASSUME NEW t \in Tasks, NEW c \in Coroutines, NEW p \in PlacesOf,
         NEW s \in Unfinished \cup TERMINAL, Held(s, [p EXCEPT ![c] = "post"], TRUE)
  PROVE  Settled(t, c, p) \in PlacesOf /\ Held(s, Settled(t, c, p), TRUE)
<1>1. CASE Settled(t, c, p) = [p EXCEPT ![c] = "idle"]
  BY <1>1, SettledMoves DEF Held, PlacesOf, Coroutines, Places, Unfinished, TERMINAL
<1>2. CASE c = "request" /\ Settled(t, c, p) = [p EXCEPT !["request"] = "idle", !["job"] = "delay"]
  BY <1>2, SettledMoves DEF Held, PlacesOf, Coroutines, Places, Unfinished, TERMINAL
<1>3. QED BY <1>1, <1>2, SettledMoves

LEMMA NotifyHeld ==
  ASSUME NEW t \in Tasks, NEW c \in Coroutines, NEW p \in PlacesOf,
         NEW s \in Unfinished \cup TERMINAL, Held(s, [p EXCEPT ![c] = "post"], TRUE),
         Notify(t, c, p)
  PROVE  \E q \in PlacesOf : pc' = [pc EXCEPT ![t] = q] /\ Held(s, q, TRUE)
<1>1. [p EXCEPT ![c] = "post"] \in PlacesOf  BY DEF PlacesOf, Places
<1>2. CASE push'[t]  BY <1>1, <1>2 DEF Notify
<1>3. CASE ~push'[t]  BY <1>3, SettledHeld DEF Notify
<1>4. QED BY <1>2, <1>3

(* A coroutine that is somewhere runs in a server that is up. *)
LEMMA RunsWhileUp ==
  ASSUME HandlersInv, NEW t \in Tasks, NEW c \in Coroutines, pc[t][c] # "idle"
  PROVE  up /\ task[t] \in Unfinished \cup TERMINAL
BY DEF HandlersInv, TaskType, Held

-----------------------------------------------------------------------------
(* The steps of the server, one by one. *)
LEMMA SendKeeps ==
  ASSUME HandlersInv, NEW t \in Tasks, NEW k, NEW u, Send(t, k, u)
  PROVE  HandlersInv' /\ Kept
<1>1. /\ up /\ up' = up /\ task[t] = "absent"
      /\ pc[t] \in PlacesOf /\ \A c \in Coroutines : pc[t][c] = "idle"
  BY DEF HandlersInv, TaskType, Held, Send, NewId, External
<1>2. CASE k = "async"
  <2>1. task' = [task EXCEPT ![t] = "working"] /\ Notify(t, "request", pc[t])
    BY <1>2 DEF Send, Save
  <2>2. Held("working", [pc[t] EXCEPT !["request"] = "post"], TRUE)
    BY <1>1 DEF Held, PlacesOf, Coroutines, Places, Unfinished
  <2>3. PICK q \in PlacesOf : pc' = [pc EXCEPT ![t] = q] /\ Held("working", q, TRUE)
    BY <1>1, <2>1, <2>2, NotifyHeld DEF Unfinished, Coroutines
  <2>4. Held("working", q, up)  BY <1>1, <2>3 DEF Held
  <2>5. QED BY <1>1, <2>1, <2>3, <2>4, OneTask DEF Unfinished, TERMINAL
<1>3. CASE k # "async"
  <2>1. task' = [task EXCEPT ![t] = "submitted"]  BY <1>3 DEF Send, Save
  <2>2. pc' = [pc EXCEPT ![t] = InRequest(pc[t])]
    BY <1>3 DEF Send, HandlersInv, TaskType
  <2>3. InRequest(pc[t]) \in PlacesOf /\ Held("submitted", InRequest(pc[t]), up)
    BY <1>1 DEF InRequest, Held, PlacesOf, Coroutines, Places, Unfinished
  <2>4. QED BY <1>1, <2>1, <2>2, <2>3, OneTask DEF Unfinished, TERMINAL
<1>4. QED BY <1>2, <1>3

LEMMA StreamKeeps ==
  ASSUME HandlersInv, NEW t \in Tasks, NEW u, Stream(t, u)
  PROVE  HandlersInv' /\ Kept
<1> DEFINE p == [pc[t] EXCEPT !["request"] = "yielded"]
<1>1. /\ up /\ up' = up /\ task[t] = "absent"
      /\ pc[t] \in PlacesOf /\ \A c \in Coroutines : pc[t][c] = "idle"
  BY DEF HandlersInv, TaskType, Held, Stream, NewId, External
<1>2. task' = [task EXCEPT ![t] = "working"] /\ pc' = [pc EXCEPT ![t] = p]
  BY DEF Stream, Save, HandlersInv, TaskType
<1>3. p \in PlacesOf /\ Held("working", p, up)
  BY <1>1 DEF Held, PlacesOf, Coroutines, Places, Unfinished
<1>4. QED BY <1>1, <1>2, <1>3, OneTask DEF Unfinished, TERMINAL

(* A step of a coroutine that leaves the state of its task alone. *)
LEMMA PlaceKeeps ==
  ASSUME HandlersInv, NEW t \in Tasks, NEW p \in PlacesOf,
         task' = task, up' = up, pc' = [pc EXCEPT ![t] = p], Held(task[t], p, up)
  PROVE  HandlersInv' /\ Kept
<1>1. task' = [task EXCEPT ![t] = task[t]]  BY DEF HandlersInv, TaskType
<1>2. task[t] \in {"absent"} \cup Unfinished \cup TERMINAL  BY DEF HandlersInv, TaskType
<1>3. QED BY <1>1, <1>2, OneTask

LEMMA StreamGoesOnKeeps ==
  ASSUME HandlersInv, NEW t \in Tasks, StreamGoesOn(t)
  PROVE  HandlersInv' /\ Kept
<1> DEFINE p == [pc[t] EXCEPT !["request"] = IF task[t] \in TERMINAL THEN "idle" ELSE "handler"]
<1>1. task' = task /\ up' = up /\ pc' = [pc EXCEPT ![t] = p]
  BY DEF StreamGoesOn, External
<1>2. pc[t] \in PlacesOf /\ Held(task[t], pc[t], up) /\ pc[t]["request"] = "yielded"
  BY DEF HandlersInv, TaskType, StreamGoesOn
<1>3. p \in PlacesOf  BY <1>2 DEF PlacesOf, Places
<1>4. Held(task[t], p, up)
  BY <1>2 DEF Held, PlacesOf, Coroutines, Places, Unfinished, TERMINAL
<1>5. QED BY <1>1, <1>3, <1>4, PlaceKeeps

LEMMA JobWakesKeeps ==
  ASSUME HandlersInv, NEW t \in Tasks, JobWakes(t)
  PROVE  HandlersInv' /\ Kept
<1> DEFINE p == [pc[t] EXCEPT !["job"] = IF task[t] \in TERMINAL THEN "idle" ELSE "handler"]
<1>1. task' = task /\ up' = up /\ pc' = [pc EXCEPT ![t] = p]
  BY DEF JobWakes, External
<1>2. /\ pc[t] \in PlacesOf /\ Held(task[t], pc[t], up) /\ pc[t]["job"] = "delay"
      /\ task[t] \in {"absent"} \cup Unfinished \cup TERMINAL
  BY DEF HandlersInv, TaskType, JobWakes
<1>3. p \in PlacesOf  BY <1>2 DEF PlacesOf, Places
<1>4. Held(task[t], p, up)
  BY <1>2 DEF Held, PlacesOf, Coroutines, Places, Unfinished, TERMINAL
<1>5. QED BY <1>1, <1>3, <1>4, PlaceKeeps

LEMMA HandlerReturnsKeeps ==
  ASSUME HandlersInv, NEW t \in Tasks, NEW c \in Coroutines, HandlerReturns(t, c)
  PROVE  HandlersInv' /\ Kept
<1>1. /\ pc[t] \in PlacesOf /\ Held(task[t], pc[t], up) /\ pc[t][c] = "handler"
      /\ up' = up /\ up
  BY RunsWhileUp DEF HandlersInv, TaskType, HandlerReturns, External
<1>2. PICK s \in {"completed", "failed"} : task' = [task EXCEPT ![t] = s]
  BY DEF HandlerReturns, Save
<1>3. Notify(t, c, pc[t])  BY DEF HandlerReturns
<1>4. Held(s, [pc[t] EXCEPT ![c] = "post"], TRUE)
  BY <1>1 DEF Held, PlacesOf, Coroutines, Places, Unfinished
<1>5. PICK q \in PlacesOf : pc' = [pc EXCEPT ![t] = q] /\ Held(s, q, TRUE)
  BY <1>1, <1>3, <1>4, NotifyHeld DEF TERMINAL
<1>6. Held(s, q, up)  BY <1>1, <1>5 DEF Held
<1>7. task[t] \in TERMINAL => task[t] = "canceled" /\ pc[t]["request"] = "handler"
  BY <1>1 DEF Held, Coroutines, Unfinished, TERMINAL
<1>8. QED BY <1>1, <1>2, <1>5, <1>6, <1>7, OneTask DEF TERMINAL

LEMMA CancelKeeps ==
  ASSUME HandlersInv, NEW t \in Tasks, Cancel(t)
  PROVE  HandlersInv' /\ Kept
<1>1. /\ pc[t] \in PlacesOf /\ Held(task[t], pc[t], up) /\ up' = up /\ up
      /\ task[t] \in Unfinished
  BY DEF HandlersInv, TaskType, Cancel, External
<1>2. task' = [task EXCEPT ![t] = "canceled"] /\ Notify(t, "cancel", StopJob(t))
  BY DEF Cancel, Save
<1>3. StopJob(t) \in PlacesOf  BY <1>1 DEF StopJob, PlacesOf, Places
<1>4. Held("canceled", [StopJob(t) EXCEPT !["cancel"] = "post"], TRUE)
  BY <1>1 DEF Held, StopJob, PlacesOf, Coroutines, Places, Unfinished
<1>5. PICK q \in PlacesOf : pc' = [pc EXCEPT ![t] = q] /\ Held("canceled", q, TRUE)
  BY <1>2, <1>3, <1>4, NotifyHeld DEF TERMINAL, Coroutines
<1>6. Held("canceled", q, up)  BY <1>1, <1>5 DEF Held
<1>7. QED BY <1>1, <1>2, <1>5, <1>6, OneTask DEF Unfinished, TERMINAL

LEMMA PostKeeps ==
  ASSUME HandlersInv, NEW t \in Tasks, NEW c \in Coroutines, Post(t, c)
  PROVE  HandlersInv' /\ Kept
<1>1. /\ pc[t] \in PlacesOf /\ Held(task[t], pc[t], up) /\ pc[t][c] = "post"
      /\ task' = task /\ up' = up /\ up /\ task[t] \in Unfinished \cup TERMINAL
  BY RunsWhileUp DEF HandlersInv, TaskType, Post
<1>2. pc' = [pc EXCEPT ![t] = pc[t]] \/ pc' = [pc EXCEPT ![t] = Settled(t, c, pc[t])]
  BY DEF Post, HandlersInv, TaskType
<1>3. Held(task[t], pc[t], TRUE)  BY <1>1 DEF Held
<1>4. pc[t] = [pc[t] EXCEPT ![c] = "post"]  BY <1>1 DEF PlacesOf
<1>5. Settled(t, c, pc[t]) \in PlacesOf /\ Held(task[t], Settled(t, c, pc[t]), TRUE)
  BY <1>1, <1>3, <1>4, SettledHeld
<1>6. Held(task[t], Settled(t, c, pc[t]), up)  BY <1>1, <1>5 DEF Held
<1>7. QED BY <1>1, <1>2, <1>5, <1>6, PlaceKeeps

LEMMA SubscriberKeeps ==
  ASSUME HandlersInv, NEW t \in Tasks, Subscribe(t) \/ SubscriberStep(t)
  PROVE  HandlersInv' /\ Kept
<1>1. PICK w \in {"yielded", "ended", "delay"} :
        task' = task /\ up' = up /\ pc' = [pc EXCEPT ![t]["subscriber"] = w]
  BY DEF Subscribe, SubscriberStep, SubscriberWakes, SubscriberAsked, SendSnapshot, External
<1> DEFINE p == [pc[t] EXCEPT !["subscriber"] = w]
<1>2. pc' = [pc EXCEPT ![t] = p]  BY <1>1
<1>3. pc[t] \in PlacesOf /\ Held(task[t], pc[t], up)  BY DEF HandlersInv, TaskType
<1>4. up /\ task[t] # "absent"
  BY <1>3, RunsWhileUp DEF Subscribe, SubscriberStep, SubscriberWakes, SubscriberAsked, Coroutines,
     Unfinished, TERMINAL
<1>5. p \in PlacesOf  BY <1>3 DEF PlacesOf, Places
<1>6. Held(task[t], p, up)
  BY <1>3, <1>4 DEF Held, PlacesOf, Coroutines, Places
<1>7. QED BY <1>1, <1>2, <1>5, <1>6, PlaceKeeps

LEMMA DropKeeps ==
  ASSUME HandlersInv, NEW t \in Tasks, NEW c \in Coroutines, Drop(t, c)
  PROVE  HandlersInv' /\ Kept
<1> DEFINE p == [pc[t] EXCEPT ![c] = "idle"]
<1>1. task' = task /\ up' = up /\ pc' = [pc EXCEPT ![t] = p]  BY DEF Drop
<1>2. pc[t] \in PlacesOf /\ Held(task[t], pc[t], up)  BY DEF HandlersInv, TaskType
<1>3. p \in PlacesOf  BY <1>2 DEF PlacesOf, Places
<1>4. Held(task[t], p, up)
  BY <1>2 DEF Held, PlacesOf, Coroutines, Places
<1>5. QED BY <1>1, <1>3, <1>4, PlaceKeeps

LEMMA DownKeeps ==
  ASSUME HandlersInv, Down
  PROVE  HandlersInv' /\ Kept
BY DEF Down, HandlersInv, TaskType, PlacesOf, Places, Coroutines, Held, Kept

LEMMA BootKeeps ==
  ASSUME HandlersInv, Boot
  PROVE  HandlersInv' /\ Kept
<1>1. ~up /\ up' = TRUE  BY DEF Boot
<1>2. \A t \in Tasks : pc[t] \in PlacesOf /\ \A c \in Coroutines : pc[t][c] = "idle"
  BY <1>1 DEF HandlersInv, TaskType, Held
<1>3. \A t \in Tasks :
        IF task[t] \in Unfinished
        THEN task'[t] = "working" /\ pc'[t] = [pc[t] EXCEPT !["job"] = "delay"]
        ELSE task'[t] = task[t] /\ pc'[t] = [pc[t] EXCEPT !["job"] = "idle"]
  BY <1>2 DEF Boot, Recovered, PlacesOf, Coroutines
<1>4. TaskType'
  BY <1>2, <1>3 DEF Boot, HandlersInv, TaskType, PlacesOf, Places, Coroutines, Recovered, Unfinished
<1>5. \A t \in Tasks : Held(task'[t], pc'[t], up')
  <2>1. TAKE t \in Tasks
  <2>2. pc[t] \in PlacesOf /\ \A c \in Coroutines : pc[t][c] = "idle"  BY <1>2
  <2>3. CASE task[t] \in Unfinished
    <3>1. task'[t] = "working" /\ pc'[t] = [pc[t] EXCEPT !["job"] = "delay"]  BY <1>3, <2>3
    <3>2. Held("working", [pc[t] EXCEPT !["job"] = "delay"], TRUE)
      BY <2>2 DEF Held, PlacesOf, Coroutines, Places, Unfinished
    <3>3. QED BY <1>1, <3>1, <3>2
  <2>4. CASE task[t] \notin Unfinished
    <3>1. task'[t] = task[t] /\ pc'[t] = [pc[t] EXCEPT !["job"] = "idle"]  BY <1>3, <2>4
    <3>2. Held(task[t], [pc[t] EXCEPT !["job"] = "idle"], TRUE)
      BY <2>2 DEF Held, PlacesOf, Coroutines, Places, Unfinished
    <3>3. QED BY <1>1, <3>1, <3>2
  <2>5. QED BY <2>3, <2>4
<1>6. Kept  BY <1>3 DEF Kept, Unfinished, TERMINAL
<1>7. QED BY <1>4, <1>5, <1>6 DEF HandlersInv

LEMMA ServerUnchanged ==
  ASSUME HandlersInv, UNCHANGED server
  PROVE  HandlersInv' /\ Kept
BY DEF server, HandlersInv, TaskType, Kept

-----------------------------------------------------------------------------
(* The bridge cancels no task but one of the server. *)
RemoteIdsType == remote_ids \in [Nodes -> Tasks \cup {NoTask}]

(* What the steps of the bridge do to the server. *)
LEMMA BridgeKeeps ==
  ASSUME HandlersInv, RemoteIdsType, Next
  PROVE  HandlersInv' /\ Kept
<1>1. CASE \E n \in Nodes, t \in Tasks : Dispatch(n, t)
  BY <1>1, SendKeeps DEF Dispatch
<1>2. CASE Bridge
  <2>1. CASE \E t \in Tasks : StartReturns(t)
    BY <2>1, SubscriberKeeps DEF StartReturns
  <2>2. CASE UNCHANGED server  BY <2>2, ServerUnchanged
  <2>3. QED
    BY <1>2, <2>1, <2>2 DEF Bridge, Joined, ResumeNode, TakeUp, Launch, ResultSkill
<1>3. CASE Server
  BY <1>3, BootKeeps, StreamGoesOnKeeps, JobWakesKeeps, HandlerReturnsKeeps, PostKeeps,
     SubscriberKeeps DEF Server, ServerStep
<1>4. CASE \E t \in Tasks : Clients(t) /\ UNCHANGED <<store, bridge>>
  BY <1>4, SendKeeps, StreamKeeps, CancelKeeps, SubscriberKeeps, DropKeeps DEF Clients, Create
<1>5. CASE Decide \/ CancelGraph \/ GraphCrash
  BY <1>5, ServerUnchanged DEF Decide, CancelGraph, GraphCrash
<1>6. CASE \E n \in Nodes : CancelNode(n)
  <2>1. PICK n \in Nodes : CancelNode(n)  BY <1>6
  <2>2. remote_ids[n] \in Tasks  BY <2>1 DEF CancelNode, RemoteIdsType
  <2>3. QED BY <2>1, <2>2, CancelKeeps DEF CancelNode
<1>7. CASE ServerStops
  BY <1>7, DownKeeps DEF ServerStops
<1>8. QED BY <1>1, <1>2, <1>3, <1>4, <1>5, <1>6, <1>7 DEF Next

LEMMA RemoteIdsKeep ==
  ASSUME RemoteIdsType, Next
  PROVE  RemoteIdsType'
<1>1. CASE \E t \in Tasks : StartReturns(t)
  BY <1>1 DEF StartReturns, RemoteIdsType
<1>2. CASE GraphCrash
  BY <1>2 DEF GraphCrash, RemoteIdsType
<1>3. CASE UNCHANGED remote_ids
  BY <1>3 DEF RemoteIdsType
<1>4. QED
  BY <1>1, <1>2, <1>3 DEF Next, Dispatch, Bridge, Joined, ResumeNode, TakeUp, Launch, ResultSkill,
     Server, Decide, CancelGraph, CancelNode, ServerStops, bridge

(* For every number of tasks, of webhook attempts, of restarts and of lost *)
(* requests, the coroutines of a task never hold its handler together, and *)
(* only an unfinished task has a job that does.                            *)
THEOREM HandlersAlone == Spec => [](HandlersInv /\ RemoteIdsType)
<1>1. Init => HandlersInv /\ RemoteIdsType
  BY DEF Init, ServerInit, HandlersInv, RemoteIdsType, TaskType, PlacesOf, Places, Held, Coroutines,
     Unfinished
<1>2. HandlersInv /\ RemoteIdsType /\ [Next /\ Bounded']_vars => (HandlersInv /\ RemoteIdsType)'
  <2>1. CASE Next  BY <2>1, BridgeKeeps, RemoteIdsKeep
  <2>2. CASE UNCHANGED vars
    BY <2>2, ServerUnchanged DEF vars, bridge, RemoteIdsType
  <2>3. QED BY <2>1, <2>2
<1>3. QED BY <1>1, <1>2, PTL DEF Spec

(* A2ADemoServer never changes the state of a task that ended, except in   *)
(* _complete of the request that was waiting for the handler while the     *)
(* task was cancelled: no job, no restart and no second request does.      *)
THEOREM EndedStays == Spec => EndedStaysEnded
<1>1. HandlersInv /\ RemoteIdsType /\ [Next /\ Bounded']_vars =>
        [\A t \in Tasks : task[t] \in TERMINAL /\ task'[t] # task[t] =>
           task[t] = "canceled" /\ pc[t]["request"] = "handler"]_vars
  BY BridgeKeeps DEF Kept
<1>2. QED BY <1>1, HandlersAlone, PTL DEF Spec, EndedStaysEnded

-----------------------------------------------------------------------------
(***************************************************************************)
(* Push deliveries.  Each change of a task has a number of its own, so a   *)
(* coroutine that posts a change is the only one that does, and the row of *)
(* the ledger it counts in is its own.                                     *)
(***************************************************************************)
Entry == [delivered : BOOLEAN, attempts : Nat]

(* How often a webhook with the inbox s received the change e. *)
Got(s, e) == Cardinality({i \in DOMAIN s : s[i] = e})

(* A change that was not acknowledged, with an attempt left. *)
Outstanding(row) == row.attempts < PushAttempts /\ ~row.delivered

(* Of a task with r changes, its coroutines at p notifying of the changes  *)
(* ev, the rows l of the ledger and the inbox s: what has no number yet    *)
(* was not posted, and what is being posted was not acknowledged.          *)
Delivery(r, p, ev, l, s) ==
  /\ r \in Nat /\ ev \in [Coroutines -> Nat] /\ l \in [1..MaxRev -> Entry] /\ s \in Seq(Nat)
  /\ \A i \in DOMAIN s : s[i] <= r
  /\ \A e \in 1..MaxRev :
       /\ Got(s, e) <= l[e].attempts /\ l[e].attempts <= PushAttempts
       /\ l[e].delivered => Got(s, e) >= 1
       /\ e > r => l[e] = NoEntry
  /\ \A c \in Coroutines : p[c] = "post" =>
       ev[c] \in 1..r /\ (ev[c] <= MaxRev => Outstanding(l[ev[c]]))
  /\ \A c, d \in Coroutines : p[c] = "post" /\ p[d] = "post" /\ ev[c] = ev[d] => c = d

DeliveryInv ==
  /\ rev \in [Tasks -> Nat] /\ event \in [Tasks -> [Coroutines -> Nat]]
  /\ ledger \in [Tasks -> [1..MaxRev -> Entry]] /\ inbox \in [Tasks -> Seq(Nat)]
  /\ \A t \in Tasks : Delivery(rev[t], pc[t], event[t], ledger[t], inbox[t])

(* A change is received once more when it is posted, and no other is.      *)
LEMMA GotAppend ==
  ASSUME NEW s \in Seq(Nat), NEW v \in Nat, NEW e
  PROVE  /\ Got(s, e) \in Nat
         /\ Got(Append(s, v), e) = Got(s, e) + (IF v = e THEN 1 ELSE 0)
<1> DEFINE here(q) == {i \in DOMAIN q : q[i] = e}
           new == Len(s) + 1
<1>1. /\ Len(s) \in Nat /\ DOMAIN s = 1..Len(s)
      /\ DOMAIN Append(s, v) = 1..new /\ Append(s, v)[new] = v
      /\ \A i \in DOMAIN s : Append(s, v)[i] = s[i]
  OBVIOUS
<1>2. here(Append(s, v)) = here(s) \cup (IF v = e THEN {new} ELSE {})
  <2>1. DOMAIN Append(s, v) = DOMAIN s \cup {new}
    BY <1>1
  <2> QED  BY <1>1, <2>1
<1>3. new \notin here(s)
  BY <1>1
<1>4. IsFiniteSet(here(s))
  <2>1. IsFiniteSet(1..Len(s))
    BY <1>1, FS_Interval
  <2>2. here(s) \subseteq 1..Len(s)
    BY <1>1
  <2> HIDE DEF here
  <2> QED  BY <2>1, <2>2, FS_Subset
<1>5. Cardinality(here(s)) \in Nat
  BY <1>4, FS_CardinalityType
<1>6. Got(s, e) = Cardinality(here(s)) /\ Got(Append(s, v), e) = Cardinality(here(Append(s, v)))
  BY DEF Got
<1> HIDE DEF here, new
<1>7. CASE v = e
  <2>1. here(Append(s, v)) = here(s) \cup {new}
    BY <1>2, <1>7
  <2>2. Cardinality(here(Append(s, v))) = Cardinality(here(s)) + 1
    BY <1>3, <1>4, <2>1, FS_AddElement
  <2> QED  BY <1>5, <1>6, <1>7, <2>2
<1>8. CASE v # e
  <2>1. here(Append(s, v)) = here(s)
    BY <1>2, <1>8
  <2> QED  BY <1>5, <1>6, <1>8, <2>1
<1> QED  BY <1>7, <1>8

-----------------------------------------------------------------------------
(* A task that posts nothing new keeps its deliveries. *)
LEMMA NoPostKeeps ==
  ASSUME NEW r, NEW p, NEW ev, NEW l, NEW s, Delivery(r, p, ev, l, s), NEW q, NEW r2 \in {r, r + 1},
         \A c \in Coroutines : q[c] = "post" => p[c] = "post"
  PROVE  Delivery(r2, q, ev, l, s)
<1>1. r2 \in Nat /\ r \in Nat /\ r2 >= r
  BY DEF Delivery
<1>2. \A i \in DOMAIN s : s[i] <= r2
  <2>1. \A i \in DOMAIN s : s[i] \in Nat /\ s[i] <= r
    BY DEF Delivery
  <2> QED  BY <1>1, <2>1
<1>3. \A e \in 1..MaxRev : e > r2 => l[e] = NoEntry
  BY <1>1, ServerAssumption DEF Delivery, MaxRev
<1>4. \A c \in Coroutines : q[c] = "post" =>
        ev[c] \in 1..r2 /\ (ev[c] <= MaxRev => Outstanding(l[ev[c]]))
  BY <1>1 DEF Delivery
<1>5. \A c, d \in Coroutines : q[c] = "post" /\ q[d] = "post" /\ ev[c] = ev[d] => c = d
  BY DEF Delivery
<1> QED  BY <1>1, <1>2, <1>3, <1>4, <1>5 DEF Delivery

(* A new change is announced by one coroutine under a number of its own.   *)
LEMMA NewPostKeeps ==
  ASSUME NEW r, NEW p, NEW ev, NEW l, NEW s, Delivery(r, p, ev, l, s),
         NEW q, NEW c \in Coroutines,
         \A d \in Coroutines : d # c /\ q[d] = "post" => p[d] = "post"
  PROVE  Delivery(r + 1, q, [ev EXCEPT ![c] = r + 1], l, s)
<1> DEFINE ev2 == [ev EXCEPT ![c] = r + 1]
<1>1. /\ r \in Nat /\ ev \in [Coroutines -> Nat] /\ ev2 \in [Coroutines -> Nat]
      /\ \A d \in Coroutines : ev2[d] = IF d = c THEN r + 1 ELSE ev[d]
  BY DEF Delivery
<1>2. \A i \in DOMAIN s : s[i] <= r + 1
  <2>1. \A i \in DOMAIN s : s[i] \in Nat /\ s[i] <= r
    BY DEF Delivery
  <2> QED  BY <1>1, <2>1
<1>3. \A e \in 1..MaxRev : e > r + 1 => l[e] = NoEntry
  BY <1>1, ServerAssumption DEF Delivery, MaxRev
<1>4. r + 1 <= MaxRev => Outstanding(l[r + 1])
  <2>1. r + 1 <= MaxRev => r + 1 \in 1..MaxRev /\ r + 1 > r
    BY <1>1, ServerAssumption DEF MaxRev
  <2> QED  BY <2>1, ServerAssumption DEF Delivery, NoEntry, Outstanding
<1>5. \A d \in Coroutines : d # c /\ q[d] = "post" =>
        ev[d] \in 1..r /\ (ev[d] <= MaxRev => Outstanding(l[ev[d]]))
  BY DEF Delivery
<1>6. \A d, e \in Coroutines : d # c /\ e # c /\ q[d] = "post" /\ q[e] = "post"
                               /\ ev[d] = ev[e] => d = e
  BY DEF Delivery
<1> HIDE DEF ev2
<1>7. \A d \in Coroutines : q[d] = "post" =>
        ev2[d] \in 1..(r + 1) /\ (ev2[d] <= MaxRev => Outstanding(l[ev2[d]]))
  BY <1>1, <1>4, <1>5
<1>8. \A d, e \in Coroutines : q[d] = "post" /\ q[e] = "post" /\ ev2[d] = ev2[e] => d = e
  BY <1>1, <1>5, <1>6
<1> QED  BY <1>1, <1>2, <1>3, <1>7, <1>8 DEF Delivery, ev2

(* An attempt counts in the row of the change it posts, arrived or not.    *)
LEMMA AttemptKeeps ==
  ASSUME NEW r, NEW p, NEW ev, NEW l, NEW s, Delivery(r, p, ev, l, s),
         NEW c \in Coroutines, p[c] = "post",
         NEW arrives \in BOOLEAN, NEW ok \in BOOLEAN, ok => arrives, NEW q,
         \/ q = p /\ ~ok /\ l[ev[c]].attempts + 1 < PushAttempts
         \/ \A d \in Coroutines : q[d] = "post" => d # c /\ p[d] = "post"
  PROVE  Delivery(r, q, ev,
                  [l EXCEPT ![ev[c]] = [delivered |-> ok, attempts |-> @.attempts + 1]],
                  IF arrives THEN Append(s, ev[c]) ELSE s)
<1> DEFINE v  == ev[c]
           l2 == [l EXCEPT ![v] = [delivered |-> ok, attempts |-> l[v].attempts + 1]]
           s2 == IF arrives THEN Append(s, v) ELSE s
<1>1. /\ r \in Nat /\ v \in 1..r /\ v \in Nat /\ s \in Seq(Nat)
      /\ ev \in [Coroutines -> Nat] /\ l \in [1..MaxRev -> Entry] /\ MaxRev \in Nat
      /\ PushAttempts \in Nat
  BY ServerAssumption DEF Delivery, MaxRev
<1>2. v <= MaxRev => v \in 1..MaxRev /\ l[v].attempts \in Nat /\ Outstanding(l[v])
  BY <1>1 DEF Delivery, Entry
<1>3. l2 \in [1..MaxRev -> Entry] /\ s2 \in Seq(Nat)
  <2>1. v \in 1..MaxRev => [delivered |-> ok, attempts |-> l[v].attempts + 1] \in Entry
    BY <1>1, <1>2 DEF Entry
  <2>2. l2 \in [1..MaxRev -> Entry]
    BY <1>1, <2>1
  <2>3. s2 \in Seq(Nat)
    <3>1. Append(s, v) \in Seq(Nat)
      BY <1>1
    <3> QED  BY <1>1, <3>1
  <2> QED  BY <2>2, <2>3
<1>4. \A i \in DOMAIN s2 : s2[i] <= r
  <2>1. \A i \in DOMAIN s : s[i] <= r
    BY DEF Delivery
  <2> QED  BY <1>1, <2>1
<1>5. ASSUME NEW e \in 1..MaxRev
      PROVE  /\ Got(s2, e) <= l2[e].attempts /\ l2[e].attempts <= PushAttempts
             /\ l2[e].delivered => Got(s2, e) >= 1
             /\ e > r => l2[e] = NoEntry
  <2>1. /\ Got(s, e) \in Nat /\ l[e].attempts \in Nat
        /\ Got(s2, e) = Got(s, e) + (IF arrives /\ v = e THEN 1 ELSE 0)
    BY <1>1, GotAppend DEF Entry
  <2>2. /\ Got(s, e) <= l[e].attempts /\ l[e].attempts <= PushAttempts
        /\ l[e].delivered => Got(s, e) >= 1
        /\ e > r => l[e] = NoEntry
    BY DEF Delivery
  <2>3. CASE e = v
    <3>1. l2[e] = [delivered |-> ok, attempts |-> l[e].attempts + 1]
      BY <1>1, <2>3
    <3>2. l[e].attempts < PushAttempts /\ ~(e > r)
      BY <1>1, <1>2, <2>3 DEF Outstanding
    <3> HIDE DEF v, l2, s2
    <3> QED  BY <1>1, <2>1, <2>2, <2>3, <3>1, <3>2
  <2>4. CASE e # v
    <3>1. l2[e] = l[e]
      BY <1>1, <2>4
    <3> HIDE DEF v, l2, s2
    <3> QED  BY <2>1, <2>2, <2>4, <3>1
  <2> QED  BY <2>3, <2>4
<1>6. ASSUME NEW d \in Coroutines, q[d] = "post"
      PROVE  p[d] = "post" /\ (d = c => ~ok /\ l[v].attempts + 1 < PushAttempts)
  BY <1>6
<1>7. ASSUME NEW d \in Coroutines, q[d] = "post"
      PROVE  ev[d] \in 1..r /\ (ev[d] <= MaxRev => Outstanding(l2[ev[d]]))
  <2>1. /\ p[d] = "post" /\ ev[d] \in 1..r
        /\ ev[d] <= MaxRev => ev[d] \in 1..MaxRev /\ Outstanding(l[ev[d]])
    BY <1>1, <1>6, <1>7 DEF Delivery
  <2>2. CASE d = c
    BY <1>1, <1>2, <1>6, <1>7, <2>1, <2>2 DEF Outstanding
  <2>3. CASE d # c
    <3>1. ev[d] # v
      BY <2>1, <2>3 DEF Delivery
    <3> QED  BY <1>1, <2>1, <3>1
  <2> QED  BY <2>2, <2>3
<1>8. \A d, e \in Coroutines : q[d] = "post" /\ q[e] = "post" /\ ev[d] = ev[e] => d = e
  BY <1>6 DEF Delivery
<1>9. /\ l2 = [l EXCEPT ![ev[c]] = [delivered |-> ok, attempts |-> @.attempts + 1]]
      /\ s2 = IF arrives THEN Append(s, ev[c]) ELSE s
  OBVIOUS
<1> HIDE DEF v, l2, s2
<1>10. Delivery(r, q, ev, l2, s2)
  BY <1>1, <1>3, <1>4, <1>5, <1>7, <1>8 DEF Delivery
<1> QED  BY <1>9, <1>10

-----------------------------------------------------------------------------
(* The steps of the server: those that announce nothing new ... *)
LEMMA QuietDeliveries ==
  ASSUME DeliveryInv, rev' \in [Tasks -> Nat],
         \A t \in Tasks : rev'[t] \in {rev[t], rev[t] + 1},
         UNCHANGED <<event, ledger, inbox>>,
         \A t \in Tasks, c \in Coroutines : pc'[t][c] = "post" => pc[t][c] = "post"
  PROVE  DeliveryInv'
<1>1. ASSUME NEW t \in Tasks
      PROVE  Delivery(rev'[t], pc'[t], event'[t], ledger'[t], inbox'[t])
  <2>1. Delivery(rev[t], pc[t], event[t], ledger[t], inbox[t])
    BY DEF DeliveryInv
  <2>2. Delivery(rev'[t], pc'[t], event[t], ledger[t], inbox[t])
    BY <2>1, NoPostKeeps
  <2> QED  BY <2>2
<1> QED  BY <1>1 DEF DeliveryInv

(* A coroutine that is done with its notification does not post it.        *)
LEMMA SettledPosts ==
  ASSUME NEW t \in Tasks, NEW c \in Coroutines, NEW p \in PlacesOf
  PROVE  \A d \in Coroutines : Settled(t, c, p)[d] = "post" => d # c /\ p[d] = "post"
<1>1. CASE Settled(t, c, p) = [p EXCEPT ![c] = "idle"]
  BY <1>1 DEF PlacesOf
<1>2. CASE c = "request" /\ Settled(t, c, p) = [p EXCEPT !["request"] = "idle", !["job"] = "delay"]
  <2> DEFINE q == [p EXCEPT !["request"] = "idle", !["job"] = "delay"]
  <2>1. \A d \in Coroutines : q[d] = "post" => d # "request" /\ p[d] = "post"
    BY DEF PlacesOf, Coroutines
  <2> QED  BY <1>2, <2>1
<1> QED  BY <1>1, <1>2, SettledMoves

(* ... and the one that announces a change of its task. *)
LEMMA ChangeKeeps ==
  ASSUME TaskType, DeliveryInv, NEW t \in Tasks, NEW c \in Coroutines, NEW p \in PlacesOf,
         NEW s, Save(t, s), Notify(t, c, p), UNCHANGED <<ledger, inbox>>,
         \A d \in Coroutines : p[d] = "post" => pc[t][d] = "post"
  PROVE  DeliveryInv'
<1>1. /\ rev' = [rev EXCEPT ![t] = rev[t] + 1] /\ rev' \in [Tasks -> Nat]
      /\ rev'[t] = rev[t] + 1
  BY DEF DeliveryInv, Save
<1>2. /\ event' = [event EXCEPT ![t] = [event[t] EXCEPT ![c] = rev[t] + 1]]
      /\ event' \in [Tasks -> [Coroutines -> Nat]]
      /\ event'[t] = [event[t] EXCEPT ![c] = rev[t] + 1]
  BY <1>1 DEF DeliveryInv, Notify
<1> DEFINE q == IF push'[t] THEN [p EXCEPT ![c] = "post"] ELSE Settled(t, c, p)
<1>3. pc' = [pc EXCEPT ![t] = q] /\ \A d \in Coroutines : d # c /\ q[d] = "post" => p[d] = "post"
  <2>1. pc' = [pc EXCEPT ![t] = q]
    BY DEF Notify
  <2>2. \A d \in Coroutines : d # c => [p EXCEPT ![c] = "post"][d] = p[d]
    BY DEF PlacesOf
  <2> QED  BY <2>1, <2>2, SettledPosts
<1> HIDE DEF q
<1>4. ASSUME NEW u \in Tasks
      PROVE  Delivery(rev'[u], pc'[u], event'[u], ledger'[u], inbox'[u])
  <2>1. Delivery(rev[u], pc[u], event[u], ledger[u], inbox[u])
    BY DEF DeliveryInv
  <2>2. CASE u = t
    <3>1. \A d \in Coroutines : d # c /\ q[d] = "post" => pc[t][d] = "post"
      BY <1>3
    <3>2. Delivery(rev[t] + 1, q, [event[t] EXCEPT ![c] = rev[t] + 1], ledger[t], inbox[t])
      BY <2>1, <2>2, <3>1, NewPostKeeps
    <3>3. pc'[t] = q
      BY <1>3 DEF TaskType
    <3> QED  BY <1>1, <1>2, <2>2, <3>2, <3>3
  <2>3. CASE u # t
    <3>1. rev'[u] = rev[u] /\ event'[u] = event[u] /\ pc'[u] = pc[u]
      BY <1>1, <1>2, <1>3, <2>3 DEF TaskType, DeliveryInv
    <3> QED  BY <2>1, <3>1
  <2> QED  BY <2>2, <2>3
<1> QED  BY <1>1, <1>2, <1>4 DEF DeliveryInv

(* An attempt to post a change. *)
LEMMA PostDelivers ==
  ASSUME HandlersInv, DeliveryInv, NEW t \in Tasks, NEW c \in Coroutines, Post(t, c)
  PROVE  DeliveryInv'
<1>1. PICK arrives \in BOOLEAN, ok \in BOOLEAN :
        /\ ok => arrives
        /\ inbox' = [inbox EXCEPT ![t] = IF arrives THEN Append(@, event[t][c]) ELSE @]
        /\ Record(t, c, ok)
        /\ pc' = [pc EXCEPT ![t] = IF ~ok /\ AttemptsLeft(t, c) THEN @ ELSE Settled(t, c, @)]
  BY DEF Post
<1>2. pc[t][c] = "post" /\ UNCHANGED <<rev, event>> /\ pc[t] \in PlacesOf
  BY DEF Post, HandlersInv, TaskType
<1> DEFINE l2 == [ledger[t] EXCEPT ![event[t][c]] =
                    [delivered |-> ok, attempts |-> @.attempts + 1]]
           s2 == IF arrives THEN Append(inbox[t], event[t][c]) ELSE inbox[t]
           q  == IF ~ok /\ AttemptsLeft(t, c) THEN pc[t] ELSE Settled(t, c, pc[t])
<1>3. /\ inbox'[t] = s2 /\ ledger'[t] = l2 /\ pc'[t] = q
      /\ \A u \in Tasks : u # t => inbox'[u] = inbox[u] /\ ledger'[u] = ledger[u] /\ pc'[u] = pc[u]
      /\ inbox' = [inbox EXCEPT ![t] = s2] /\ ledger' = [ledger EXCEPT ![t] = l2]
  BY <1>1 DEF DeliveryInv, HandlersInv, TaskType, Record
<1>4. Delivery(rev[t], pc[t], event[t], ledger[t], inbox[t])
  BY DEF DeliveryInv
<1>5. \/ q = pc[t] /\ ~ok /\ ledger[t][event[t][c]].attempts + 1 < PushAttempts
      \/ \A d \in Coroutines : q[d] = "post" => d # c /\ pc[t][d] = "post"
  <2>1. CASE ~ok /\ AttemptsLeft(t, c)
    BY <2>1 DEF AttemptsLeft
  <2>2. CASE ~(~ok /\ AttemptsLeft(t, c))
    BY <1>2, <2>2, SettledPosts
  <2> QED  BY <2>1, <2>2
<1>6. Delivery(rev[t], q, event[t], l2, s2)
  <2> HIDE DEF q
  <2> QED  BY <1>1, <1>2, <1>4, <1>5, AttemptKeeps
<1> HIDE DEF l2, s2, q
<1>7. ASSUME NEW u \in Tasks
      PROVE  Delivery(rev'[u], pc'[u], event'[u], ledger'[u], inbox'[u])
  <2>1. CASE u = t
    BY <1>2, <1>3, <1>6, <2>1
  <2>2. CASE u # t
    BY <1>2, <1>3, <2>2 DEF DeliveryInv
  <2> QED  BY <2>1, <2>2
<1>8. ledger' \in [Tasks -> [1..MaxRev -> Entry]] /\ inbox' \in [Tasks -> Seq(Nat)]
  BY <1>3, <1>6 DEF DeliveryInv, Delivery
<1> QED  BY <1>2, <1>7, <1>8 DEF DeliveryInv

-----------------------------------------------------------------------------
(* A new task, a handler that returns and a cancel change one task. *)
LEMMA SaveDelivers ==
  ASSUME HandlersInv, DeliveryInv, NEW t \in Tasks,
         \/ \E k, u : Send(t, k, u)
         \/ \E u : Stream(t, u)
         \/ \E c \in Coroutines : HandlerReturns(t, c)
         \/ Cancel(t)
  PROVE  DeliveryInv'
<1>1. pc[t] \in PlacesOf /\ StopJob(t) \in PlacesOf /\ TaskType
  BY DEF HandlersInv, TaskType, PlacesOf, Places, StopJob
<1>2. UNCHANGED <<ledger, inbox>>
  BY DEF Send, Stream, HandlerReturns, Cancel, External
<1>3. ASSUME NEW s, Save(t, s)
      PROVE  /\ rev' \in [Tasks -> Nat]
             /\ \A u \in Tasks : rev'[u] \in {rev[u], rev[u] + 1}
  BY <1>3 DEF Save, DeliveryInv
<1>4. ASSUME NEW k, NEW u, Send(t, k, u)
      PROVE  DeliveryInv'
  <2>1. CASE k = "async"
    BY <1>1, <1>2, <1>4, <2>1, ChangeKeeps DEF Send, Coroutines
  <2>2. CASE k # "async"
    <3>1. pc' = [pc EXCEPT ![t] = InRequest(pc[t])] /\ UNCHANGED event /\ Save(t, "submitted")
      BY <1>1, <1>4, <2>2 DEF Send, TaskType
    <3>2. \A v \in Tasks, c \in Coroutines : pc'[v][c] = "post" => pc[v][c] = "post"
      BY <1>1, <3>1 DEF InRequest, TaskType, PlacesOf
    <3> QED  BY <1>2, <1>3, <3>1, <3>2, QuietDeliveries
  <2> QED  BY <2>1, <2>2
<1>5. ASSUME NEW u, Stream(t, u)
      PROVE  DeliveryInv'
  <2>1. pc' = [pc EXCEPT ![t]["request"] = "yielded"] /\ UNCHANGED event /\ Save(t, "working")
    BY <1>5 DEF Stream
  <2>2. \A v \in Tasks, c \in Coroutines : pc'[v][c] = "post" => pc[v][c] = "post"
    BY <1>1, <2>1 DEF TaskType, PlacesOf
  <2> QED  BY <1>2, <1>3, <2>1, <2>2, QuietDeliveries
<1>6. ASSUME NEW c \in Coroutines, HandlerReturns(t, c)
      PROVE  DeliveryInv'
  BY <1>1, <1>2, <1>6, ChangeKeeps DEF HandlerReturns
<1>7. CASE Cancel(t)
  <2>1. \A d \in Coroutines : StopJob(t)[d] = "post" => pc[t][d] = "post"
    BY <1>1 DEF StopJob, PlacesOf
  <2> QED  BY <1>1, <1>2, <1>7, <2>1, ChangeKeeps DEF Cancel, Coroutines
<1> QED  BY <1>4, <1>5, <1>6, <1>7

(* Everything else moves coroutines, or stops and starts the server. *)
LEMMA MoveDelivers ==
  ASSUME HandlersInv, DeliveryInv,
         \/ \E t \in Tasks : \/ StreamGoesOn(t) \/ JobWakes(t)
                             \/ Subscribe(t) \/ SubscriberStep(t)
                             \/ \E c \in Coroutines : Drop(t, c)
         \/ Down
         \/ Boot
         \/ UNCHANGED server
  PROVE  DeliveryInv'
<1> USE DEF HandlersInv, TaskType, PlacesOf
<1>1. CASE \E t \in Tasks : \/ StreamGoesOn(t) \/ JobWakes(t)
                            \/ Subscribe(t) \/ SubscriberStep(t)
                            \/ \E c \in Coroutines : Drop(t, c)
  <2>1. PICK t \in Tasks, d \in Coroutines, w \in {"idle", "handler", "yielded", "ended", "delay"} :
          pc' = [pc EXCEPT ![t][d] = w] /\ UNCHANGED <<rev, event, ledger, inbox>>
    BY <1>1 DEF StreamGoesOn, JobWakes, Subscribe, SubscriberStep, SubscriberWakes,
                SubscriberAsked, SendSnapshot, Drop, External, Coroutines
  <2>2. \A v \in Tasks, c \in Coroutines : pc'[v][c] = "post" => pc[v][c] = "post"
    BY <2>1
  <2> QED  BY <2>1, <2>2, QuietDeliveries DEF DeliveryInv
<1>2. CASE Down
  BY <1>2, QuietDeliveries DEF Down, DeliveryInv
<1>3. CASE Boot
  <2>1. /\ UNCHANGED <<event, ledger, inbox>> /\ rev' \in [Tasks -> Nat]
        /\ \A t \in Tasks : rev'[t] \in {rev[t], rev[t] + 1}
    BY <1>3 DEF Boot, DeliveryInv
  <2>2. \A v \in Tasks, c \in Coroutines : pc'[v][c] = "post" => pc[v][c] = "post"
    BY <1>3 DEF Boot
  <2> QED  BY <2>1, <2>2, QuietDeliveries
<1>4. CASE UNCHANGED server
  BY <1>4, QuietDeliveries DEF server, DeliveryInv
<1> QED  BY <1>1, <1>2, <1>3, <1>4

-----------------------------------------------------------------------------
(***************************************************************************)
(* How many changes a task can see: it is made, completed and cancelled    *)
(* once, completed again by the request that held its handler while it was *)
(* cancelled, and taken up again after each start that finds it unfinished.*)
(***************************************************************************)
Boots == IF up THEN crashes ELSE crashes - 1

NumberOK(s, request, r, b) ==
  /\ s = "absent" => r = 0
  /\ s \in Unfinished => r <= 1 + b
  /\ r <= (IF request = "handler" THEN 2 ELSE 3) + b

NumberInv ==
  /\ crashes \in 0..MaxCrashes /\ (~up => crashes > 0)
  /\ rev \in [Tasks -> Nat]
  /\ \A t \in Tasks : NumberOK(task[t], pc[t]["request"], rev[t], Boots)

(* A step that changes no state and lets no request into the handler of a  *)
(* task that ended takes no number.                                        *)
LEMMA MoveNumbers ==
  ASSUME HandlersInv, NumberInv, UNCHANGED <<task, rev, up, crashes>>,
         \A t \in Tasks : pc'[t]["request"] = "handler" =>
           pc[t]["request"] = "handler" \/ task[t] \notin TERMINAL
  PROVE  NumberInv'
<1>1. Boots \in Nat /\ Boots' = Boots
  BY ServerAssumption DEF NumberInv, Boots
<1>2. ASSUME NEW t \in Tasks
      PROVE  NumberOK(task'[t], pc'[t]["request"], rev'[t], Boots')
  <2>1. NumberOK(task[t], pc[t]["request"], rev[t], Boots) /\ rev[t] \in Nat
    BY DEF NumberInv
  <2>2. task[t] \in {"absent"} \cup Unfinished \cup TERMINAL
    BY DEF HandlersInv, TaskType
  <2> QED  BY <1>1, <2>1, <2>2 DEF NumberOK
<1> QED  BY <1>2 DEF NumberInv

(* A change of one task takes the next number. *)
LEMMA SaveNumbers ==
  ASSUME HandlersInv, NumberInv, UNCHANGED <<up, crashes>>, up, NEW t \in Tasks,
         NEW s \in Unfinished \cup TERMINAL, Save(t, s),
         \A u \in Tasks : u # t => pc'[u] = pc[u],
         \/ task[t] = "absent"
         \/ task[t] \in Unfinished /\ s \in TERMINAL
         \/ pc[t]["request"] = "handler" /\ pc'[t]["request"] # "handler" /\ s \in TERMINAL
  PROVE  NumberInv'
<1>1. Boots \in Nat /\ Boots' = Boots
  BY ServerAssumption DEF NumberInv, Boots
<1>2. /\ rev' \in [Tasks -> Nat] /\ rev'[t] = rev[t] + 1 /\ task'[t] = s
      /\ \A u \in Tasks : u # t => rev'[u] = rev[u] /\ task'[u] = task[u]
  BY DEF NumberInv, HandlersInv, TaskType, Save
<1>3. ASSUME NEW u \in Tasks
      PROVE  NumberOK(task'[u], pc'[u]["request"], rev'[u], Boots')
  <2>1. NumberOK(task[u], pc[u]["request"], rev[u], Boots) /\ rev[u] \in Nat
    BY DEF NumberInv
  <2>2. CASE u = t
    BY <1>1, <1>2, <2>1, <2>2 DEF NumberOK, Unfinished, TERMINAL
  <2>3. CASE u # t
    BY <1>1, <1>2, <2>1, <2>3
  <2> QED  BY <2>2, <2>3
<1> QED  BY <1>2, <1>3 DEF NumberInv

(* A notification puts its request somewhere else than in the handler. *)
LEMMA NotifyMoves ==
  ASSUME TaskType, NEW t \in Tasks, NEW c \in Coroutines, NEW p \in PlacesOf, Notify(t, c, p)
  PROVE  /\ \A u \in Tasks : u # t => pc'[u] = pc[u]
         /\ c = "request" => pc'[t]["request"] # "handler"
<1> DEFINE q == IF push'[t] THEN [p EXCEPT ![c] = "post"] ELSE Settled(t, c, p)
<1>1. pc' = [pc EXCEPT ![t] = q]
  BY DEF Notify
<1>2. c = "request" => q["request"] # "handler"
  <2>1. CASE push'[t]
    BY <2>1 DEF PlacesOf
  <2>2. CASE ~push'[t]
    <3>1. c = "request" => Settled(t, c, p)["request"] = "idle"
      BY SettledMoves DEF PlacesOf
    <3> QED  BY <2>2, <3>1
  <2> QED  BY <2>1, <2>2
<1> HIDE DEF q
<1> QED  BY <1>1, <1>2 DEF TaskType

(* The changes a coroutine of the server makes are numbered so. *)
LEMMA ChangesNumbers ==
  ASSUME HandlersInv, NumberInv, NEW t \in Tasks,
         \/ \E k, u : Send(t, k, u)
         \/ \E u : Stream(t, u)
         \/ \E c \in Coroutines : HandlerReturns(t, c)
         \/ Cancel(t)
  PROVE  NumberInv'
<1>1. pc[t] \in PlacesOf /\ StopJob(t) \in PlacesOf /\ TaskType /\ Held(task[t], pc[t], up)
  BY DEF HandlersInv, TaskType, PlacesOf, Places, StopJob
<1>2. UNCHANGED <<up, crashes>>
  BY DEF Send, Stream, HandlerReturns, Cancel, External
<1>3. ASSUME NEW k, NEW u, Send(t, k, u)
      PROVE  NumberInv'
  <2>1. up /\ task[t] = "absent" /\ \E s \in Unfinished : Save(t, s)
    BY <1>3 DEF Send, NewId, Unfinished
  <2>2. \A v \in Tasks : v # t => pc'[v] = pc[v]
    <3>1. CASE k = "async"
      BY <1>1, <1>3, <3>1, NotifyMoves DEF Send, Coroutines
    <3>2. CASE k # "async"
      BY <1>1, <1>3, <3>2 DEF Send, TaskType
    <3> QED  BY <3>1, <3>2
  <2> QED  BY <1>2, <2>1, <2>2, SaveNumbers
<1>4. ASSUME NEW u, Stream(t, u)
      PROVE  NumberInv'
  <2>1. up /\ task[t] = "absent" /\ Save(t, "working") /\ "working" \in Unfinished
    BY <1>4 DEF Stream, NewId, Unfinished
  <2>2. \A v \in Tasks : v # t => pc'[v] = pc[v]
    BY <1>1, <1>4 DEF Stream, TaskType
  <2> QED  BY <1>2, <2>1, <2>2, SaveNumbers
<1>5. ASSUME NEW c \in Coroutines, HandlerReturns(t, c)
      PROVE  NumberInv'
  <2>1. up /\ pc[t][c] = "handler" /\ \E s \in TERMINAL : Save(t, s)
    BY <1>5, RunsWhileUp DEF HandlerReturns, TERMINAL
  <2>2. /\ \A v \in Tasks : v # t => pc'[v] = pc[v]
        /\ c = "request" => pc'[t]["request"] # "handler"
    BY <1>1, <1>5, NotifyMoves DEF HandlerReturns
  <2>3. c = "request" \/ task[t] \in Unfinished
    BY <1>1, <2>1 DEF Held, Coroutines
  <2> QED  BY <1>2, <2>1, <2>2, <2>3, SaveNumbers
<1>6. CASE Cancel(t)
  <2>1. up /\ task[t] \in Unfinished /\ Save(t, "canceled") /\ "canceled" \in TERMINAL
    BY <1>6 DEF Cancel, TERMINAL
  <2>2. \A v \in Tasks : v # t => pc'[v] = pc[v]
    BY <1>1, <1>6, NotifyMoves DEF Cancel, Coroutines
  <2> QED  BY <1>2, <2>1, <2>2, SaveNumbers
<1> QED  BY <1>3, <1>4, <1>5, <1>6

(* So are all the steps of the server. *)
LEMMA OtherNumbers ==
  ASSUME HandlersInv, NumberInv,
         \/ \E t \in Tasks : \/ StreamGoesOn(t) \/ JobWakes(t)
                             \/ Subscribe(t) \/ SubscriberStep(t)
                             \/ \E c \in Coroutines : Drop(t, c) \/ Post(t, c)
         \/ Down
         \/ Boot
         \/ UNCHANGED server
  PROVE  NumberInv'
<1>0. TaskType
  BY DEF HandlersInv
<1>1. CASE \E t \in Tasks : \/ StreamGoesOn(t) \/ JobWakes(t)
                            \/ Subscribe(t) \/ SubscriberStep(t)
                            \/ \E c \in Coroutines : Drop(t, c)
  <2>1. UNCHANGED <<task, rev, up, crashes>>
    BY <1>1 DEF StreamGoesOn, JobWakes, Subscribe, SubscriberStep, SubscriberWakes,
                SubscriberAsked, SendSnapshot, Drop, External
  <2>2. PICK t \in Tasks, d \in Coroutines, w \in {"idle", "handler", "yielded", "ended", "delay"} :
          /\ pc' = [pc EXCEPT ![t][d] = w]
          /\ d = "request" /\ w = "handler" => task[t] \notin TERMINAL
    BY <1>1 DEF StreamGoesOn, JobWakes, Subscribe, SubscriberStep, SubscriberWakes,
                SubscriberAsked, SendSnapshot, Drop, External, Coroutines
  <2>3. \A u \in Tasks : pc'[u]["request"] = "handler" =>
          pc[u]["request"] = "handler" \/ task[u] \notin TERMINAL
    BY <1>0, <2>2 DEF TaskType, PlacesOf
  <2> QED  BY <2>1, <2>3, MoveNumbers
<1>2. ASSUME NEW t \in Tasks, NEW c \in Coroutines, Post(t, c)
      PROVE  NumberInv'
  <2>1. pc' = [pc EXCEPT ![t] = pc[t]] \/ pc' = [pc EXCEPT ![t] = Settled(t, c, pc[t])]
    BY <1>0, <1>2 DEF Post, TaskType
  <2>2. pc[t] \in PlacesOf
    BY <1>0 DEF TaskType
  <2>3. Settled(t, c, pc[t])["request"] \in {"idle", pc[t]["request"]}
    <3> DEFINE p == pc[t]
    <3>1. /\ [p EXCEPT ![c] = "idle"]["request"] \in {"idle", p["request"]}
          /\ [p EXCEPT !["request"] = "idle", !["job"] = "delay"]["request"] = "idle"
      BY <2>2 DEF PlacesOf, Coroutines
    <3>2. \/ Settled(t, c, p) = [p EXCEPT ![c] = "idle"]
          \/ Settled(t, c, p) = [p EXCEPT !["request"] = "idle", !["job"] = "delay"]
      <4> HIDE DEF p
      <4>1. p \in PlacesOf
        BY <2>2 DEF p
      <4> QED  BY <4>1, SettledMoves
    <3> QED  BY <3>1, <3>2
  <2>4. \A u \in Tasks : pc'[u]["request"] = "handler" => pc[u]["request"] = "handler"
    BY <1>0, <2>1, <2>3 DEF TaskType
  <2>5. UNCHANGED <<task, rev, up, crashes>>
    BY <1>2 DEF Post
  <2> QED  BY <2>4, <2>5, MoveNumbers
<1>3. CASE Down
  <2>1. /\ UNCHANGED <<task, rev>> /\ Boots' = Boots /\ Boots \in Nat
        /\ crashes' \in 0..MaxCrashes /\ crashes' > 0
    BY <1>3, ServerAssumption DEF Down, NumberInv, Boots
  <2>2. \A t \in Tasks : pc'[t]["request"] # "handler"
    BY <1>3 DEF Down, Coroutines
  <2> QED  BY <2>1, <2>2 DEF NumberInv, NumberOK
<1>4. CASE Boot
  <2>1. /\ ~up /\ up' /\ crashes' = crashes /\ Boots \in Nat /\ Boots' = Boots + 1
    BY <1>4, ServerAssumption DEF Boot, NumberInv, Boots
  <2>2. \A t \in Tasks : pc'[t]["request"] = pc[t]["request"]
    BY <1>0, <1>4 DEF Boot, TaskType, PlacesOf, Coroutines
  <2>3. \A t \in Tasks : IF task[t] \in Unfinished
                         THEN task'[t] = "working" /\ rev'[t] = rev[t] + 1
                         ELSE task'[t] = task[t] /\ rev'[t] = rev[t]
    BY <1>4 DEF Boot, Recovered
  <2>4. rev' \in [Tasks -> Nat]
    BY <1>4 DEF Boot, NumberInv
  <2>5. \A t \in Tasks : NumberOK(task'[t], pc'[t]["request"], rev'[t], Boots')
    <3> SUFFICES ASSUME NEW t \in Tasks
                 PROVE  NumberOK(task'[t], pc'[t]["request"], rev'[t], Boots')
      OBVIOUS
    <3>1. NumberOK(task[t], pc[t]["request"], rev[t], Boots) /\ rev[t] \in Nat
      BY DEF NumberInv
    <3> QED  BY <2>1, <2>2, <2>3, <3>1 DEF NumberOK, Unfinished
  <2> QED  BY <2>1, <2>4, <2>5 DEF NumberInv
<1>5. CASE UNCHANGED server
  BY <1>5 DEF server, NumberInv, Boots
<1> QED  BY <1>1, <1>2, <1>3, <1>4, <1>5

-----------------------------------------------------------------------------
(* What every step of the system is to the server. *)
LEMMA DeliveryStep ==
  ASSUME HandlersInv, RemoteIdsType, DeliveryInv, NumberInv, [Next]_vars
  PROVE  DeliveryInv' /\ NumberInv'
<1>1. \/ \E t \in Tasks : \/ \E k, u : Send(t, k, u)
                          \/ \E u : Stream(t, u)
                          \/ \E c \in Coroutines : HandlerReturns(t, c)
                          \/ Cancel(t)
      \/ \E t \in Tasks : \/ StreamGoesOn(t) \/ JobWakes(t)
                          \/ Subscribe(t) \/ SubscriberStep(t)
                          \/ \E c \in Coroutines : Drop(t, c) \/ Post(t, c)
      \/ Down
      \/ Boot
      \/ UNCHANGED server
  <2>1. CASE \E n \in Nodes, t \in Tasks : Dispatch(n, t)
    BY <2>1 DEF Dispatch
  <2>2. CASE Bridge
    BY <2>2 DEF Bridge, StartReturns, Joined, ResumeNode, TakeUp, Launch, ResultSkill
  <2>3. CASE Server
    BY <2>3 DEF Server, ServerStep
  <2>4. CASE \E t \in Tasks : Clients(t) /\ UNCHANGED <<store, bridge>>
    BY <2>4 DEF Clients, Create
  <2>5. CASE Decide \/ CancelGraph \/ GraphCrash \/ UNCHANGED vars
    BY <2>5 DEF Decide, CancelGraph, GraphCrash, vars
  <2>6. CASE \E n \in Nodes : CancelNode(n)
    BY <2>6 DEF CancelNode, RemoteIdsType
  <2>7. CASE ServerStops
    BY <2>7 DEF ServerStops
  <2> QED  BY <2>1, <2>2, <2>3, <2>4, <2>5, <2>6, <2>7 DEF Next
<1> QED
  BY <1>1, SaveDelivers, ChangesNumbers, MoveDelivers, OtherNumbers, PostDelivers

(* Both hold in every reachable state. *)
LEMMA DeliveryInvariant == Spec => [](DeliveryInv /\ NumberInv)
<1>1. Init => DeliveryInv /\ NumberInv
  <2> SUFFICES ASSUME Init PROVE DeliveryInv /\ NumberInv
    OBVIOUS
  <2>1. /\ \A t \in Tasks : /\ task[t] = "absent" /\ rev[t] = 0 /\ inbox[t] = <<>>
                            /\ event[t] = [c \in Coroutines |-> 0]
                            /\ ledger[t] = [e \in 1..MaxRev |-> NoEntry]
                            /\ \A c \in Coroutines : pc[t][c] = "idle"
        /\ up /\ crashes = 0
    BY DEF Init, ServerInit
  <2>2. \A e : Got(<<>>, e) = 0
    <3>1. \A e : {i \in DOMAIN <<>> : <<>>[i] = e} = {}
      OBVIOUS
    <3> QED  BY <3>1, FS_EmptySet DEF Got
  <2>3. NoEntry \in Entry
    BY DEF NoEntry, Entry
  <2>4. \A t \in Tasks : Delivery(rev[t], pc[t], event[t], ledger[t], inbox[t])
    <3> SUFFICES ASSUME NEW t \in Tasks
                 PROVE  Delivery(0, pc[t], [c \in Coroutines |-> 0],
                                 [e \in 1..MaxRev |-> NoEntry], <<>>)
      BY <2>1
    <3>1. /\ [c \in Coroutines |-> 0] \in [Coroutines -> Nat]
          /\ [e \in 1..MaxRev |-> NoEntry] \in [1..MaxRev -> Entry]
          /\ <<>> \in Seq(Nat) /\ DOMAIN <<>> = {}
      BY <2>3
    <3>2. \A c \in Coroutines : pc[t][c] # "post"
      BY <2>1
    <3>3. \A e \in 1..MaxRev : /\ Got(<<>>, e) <= NoEntry.attempts
                                /\ NoEntry.attempts <= PushAttempts /\ ~NoEntry.delivered
      BY <2>2, ServerAssumption DEF NoEntry
    <3> QED  BY <3>1, <3>2, <3>3 DEF Delivery
  <2>5. /\ rev \in [Tasks -> Nat] /\ event \in [Tasks -> [Coroutines -> Nat]]
        /\ ledger \in [Tasks -> [1..MaxRev -> Entry]] /\ inbox \in [Tasks -> Seq(Nat)]
    BY <2>3 DEF Init, ServerInit
  <2>6. \A t \in Tasks : NumberOK(task[t], pc[t]["request"], rev[t], Boots)
    BY <2>1 DEF NumberOK, Boots, Unfinished, Coroutines
  <2> QED  BY <2>1, <2>4, <2>5, <2>6, ServerAssumption DEF DeliveryInv, NumberInv
<1>2. HandlersInv /\ RemoteIdsType /\ DeliveryInv /\ NumberInv /\ [Next /\ Bounded']_vars =>
        DeliveryInv' /\ NumberInv'
  BY DeliveryStep
<1> QED  BY <1>1, <1>2, HandlersAlone, PTL DEF Spec

(***************************************************************************)
(* Idempotent push delivery: for any number of tasks, attempts, restarts   *)
(* and lost requests, a webhook receives a change push_attempts times at   *)
(* most, and never again once it was acknowledged.                         *)
(***************************************************************************)
THEOREM DeliveriesBoundedAlways == Spec => []DeliveriesBounded
<1>1. DeliveryInv => DeliveriesBounded
  <2> SUFFICES ASSUME DeliveryInv, NEW t \in Tasks, NEW e \in 1..MaxRev
               PROVE  LET got == Cardinality({i \in DOMAIN inbox[t] : inbox[t][i] = e})
                      IN  /\ got <= ledger[t][e].attempts
                          /\ ledger[t][e].attempts <= PushAttempts
                          /\ ledger[t][e].delivered =>
                               /\ got >= 1
                               /\ \A c \in Coroutines : pc[t][c] = "post" => event[t][c] # e
    BY DEF DeliveriesBounded
  <2>1. Delivery(rev[t], pc[t], event[t], ledger[t], inbox[t])
    BY DEF DeliveryInv
  <2>2. e <= MaxRev
    BY ServerAssumption DEF MaxRev
  <2>3. ledger[t][e].delivered => \A c \in Coroutines : pc[t][c] = "post" => event[t][c] # e
    BY <2>1, <2>2 DEF Delivery, Outstanding
  <2> QED  BY <2>1, <2>3 DEF Delivery, Got
<1> QED  BY <1>1, DeliveryInvariant, PTL

(***************************************************************************)
(* The ledger of the model has a row for every change a task can see, so   *)
(* the bound MaxRev leaves none out.                                       *)
(***************************************************************************)
THEOREM LedgerHasEveryChange == Spec => [](\A t \in Tasks : rev[t] \in 0..MaxRev)
<1>1. NumberInv => \A t \in Tasks : rev[t] \in 0..MaxRev
  BY ServerAssumption DEF NumberInv, NumberOK, Boots, MaxRev
<1> QED  BY <1>1, DeliveryInvariant, PTL

-----------------------------------------------------------------------------
(***************************************************************************)
(* The graph's side of the bridge.                                         *)
(***************************************************************************)
RemoteKinds ==
  {"run_started", "run_resumed", "task_started", "task_succeeded", "task_failed",
   "task_cancelled", "graph_patched", "a2a_task_completed", "a2a_task_cancelled",
   "graph_cancel_requested"}

RemoteRow == [kind : RemoteKinds, node : Nat, trigger : Nat]

GraphType ==
  /\ finished \in BOOLEAN
  /\ state \in [Nodes -> {"absent"} \cup NodeState]
  /\ journal \in Seq(SUBSET RemoteRow)
  /\ at \in [Tasks -> {"idle", "starting", "waiting", "journalled", "refused"}]
  /\ target \in [Tasks -> Nodes \cup {NoNode}]
  /\ trigger \in [Tasks -> Nat]
  /\ results \in [Nodes -> {"none", "absent"} \cup Unfinished \cup TERMINAL]
  /\ snapshot \in [Tasks -> {"absent"} \cup Unfinished \cup TERMINAL]
  /\ runner \in [at : {"idle", "fill", "skill"}, node : Nodes \cup {NoNode}]
  /\ graphCrashes \in Nat /\ decision \in Nat

CompletedRow(n) == Row("a2a_task_completed", n)

(* A dispatch between its two transactions has just journalled the         *)
(* completion of its node, with the result in memory.                      *)
JournalledOK ==
  \A t \in Tasks :
    /\ at[t] # "refused"
    /\ at[t] \in {"starting", "waiting", "journalled"} => target[t] \in Nodes
    /\ at[t] = "journalled" =>
         /\ trigger[t] \in DOMAIN journal
         /\ journal[trigger[t]] = {CompletedRow(target[t])}
         /\ graphCrashes = 0 => results[target[t]] # "none"

(* A completion that is nobody's to apply is applied, or came too late.    *)
CompletionsOK ==
  \A i \in DOMAIN journal, n \in Nodes :
    CompletedRow(n) \in journal[i] =>
      \/ i \in patched \/ state[n] # "waiting" \/ graphCrashes > 0
      \/ \E t \in Tasks : at[t] = "journalled" /\ trigger[t] = i

(* While the graph's process lives, a node that was resumed has its        *)
(* result; and the graph has no edges, and nothing open once finished.     *)
ResumedOK ==
  /\ edges = {}
  /\ finished => \A n \in Nodes : state[n] \notin Open
  /\ graphCrashes = 0 =>
       \A n \in Nodes : /\ state[n] # "failed"
                        /\ state[n] \in {"pending", "running"} => results[n] # "none"

BridgeInv == GraphType /\ JournalledOK /\ CompletionsOK /\ ResumedOK

-----------------------------------------------------------------------------
(* The rows of the two processes are rows. *)
LEMMA RowsAreRows ==
  /\ \A k \in RemoteKinds, n \in Nodes \cup {NoNode} : Row(k, n) \in RemoteRow
  /\ \A t \in Nat : PatchRow(t) \in RemoteRow
<1>1. Nodes \cup {NoNode} \subseteq Nat
  BY NodesAssumption DEF NoNode
<1>2. ASSUME NEW k \in RemoteKinds, NEW n \in Nodes \cup {NoNode}
      PROVE  Row(k, n) \in RemoteRow
  BY <1>1 DEF Row, RemoteRow
<1>3. ASSUME NEW t \in Nat
      PROVE  PatchRow(t) \in RemoteRow
  BY DEF PatchRow, RemoteRow, RemoteKinds, NoNode
<1> QED  BY <1>2, <1>3

(* The journal grows by one transaction. *)
LEMMA RemoteCommit ==
  ASSUME journal \in Seq(SUBSET RemoteRow), NEW rows \in SUBSET RemoteRow, Commit(rows)
  PROVE  /\ journal' \in Seq(SUBSET RemoteRow) /\ Len(journal') \in Nat
         /\ DOMAIN journal' = DOMAIN journal \cup {Len(journal')}
         /\ Len(journal') \notin DOMAIN journal
         /\ \A i \in DOMAIN journal : journal'[i] = journal[i]
         /\ journal'[Len(journal')] = rows
BY SMT DEF Commit

(* A step of the server that the graph has no part in.                     *)
LEMMA ServerLeavesBridge ==
  ASSUME BridgeInv, UNCHANGED <<store, bridge>>,
         snapshot' \in [Tasks -> {"absent"} \cup Unfinished \cup TERMINAL]
  PROVE  BridgeInv'
BY DEF BridgeInv, GraphType, JournalledOK, CompletionsOK, ResumedOK, store, bridge

(* The bridge's own bookkeeping: dispatches that start, wait or stop.      *)
LEMMA BookkeepingKeeps ==
  ASSUME BridgeInv, UNCHANGED <<store, results, graphCrashes, trigger, decision>>, GraphType',
         \A t \in Tasks : at'[t] = "journalled" <=> at[t] = "journalled",
         \A t \in Tasks : at'[t] # "refused",
         \A t \in Tasks : at'[t] \in {"starting", "waiting", "journalled"} => target'[t] \in Nodes,
         \A t \in Tasks : at[t] = "journalled" => target'[t] = target[t]
  PROVE  BridgeInv'
<1>1. JournalledOK'
  BY DEF BridgeInv, JournalledOK, store
<1>2. CompletionsOK'
  BY DEF BridgeInv, CompletionsOK, store
<1>3. ResumedOK'
  BY DEF BridgeInv, ResumedOK, store
<1> QED  BY <1>1, <1>2, <1>3 DEF BridgeInv

(* Transactions of the graph that are no completion, while no dispatch is  *)
(* between its two: no node goes back to waiting, and none is resumed.     *)
LEMMA TransactionKeeps ==
  ASSUME BridgeInv, GraphFree, NEW rows \in SUBSET RemoteRow, Commit(rows),
         \A n \in Nodes : CompletedRow(n) \notin rows,
         UNCHANGED <<at, target, trigger, results, graphCrashes, snapshot>>,
         decision' \in Nat, finished' \in BOOLEAN,
         runner' \in [at : {"idle", "fill", "skill"}, node : Nodes \cup {NoNode}],
         state' \in [Nodes -> {"absent"} \cup NodeState],
         patched \subseteq patched', edges' = {},
         finished' => \A n \in Nodes : state'[n] \notin Open,
         \A n \in Nodes :
           /\ state'[n] = "waiting" => state[n] = "waiting"
           /\ state'[n] \in {"pending", "running"} => state[n] \in {"pending", "running"}
           /\ graphCrashes = 0 /\ state'[n] = "failed" => state[n] = "failed"
  PROVE  BridgeInv'
<1>1. /\ journal' \in Seq(SUBSET RemoteRow)
      /\ DOMAIN journal' = DOMAIN journal \cup {Len(journal')}
      /\ \A i \in DOMAIN journal : journal'[i] = journal[i]
      /\ journal'[Len(journal')] = rows
  BY RemoteCommit DEF BridgeInv, GraphType
<1>2. GraphType'
  BY <1>1 DEF BridgeInv, GraphType
<1>3. JournalledOK'
  BY DEF BridgeInv, JournalledOK, GraphFree
<1>4. CompletionsOK'
  <2> SUFFICES ASSUME NEW i \in DOMAIN journal', NEW n \in Nodes, CompletedRow(n) \in journal'[i]
               PROVE  i \in patched' \/ state'[n] # "waiting" \/ graphCrashes' > 0
    BY DEF CompletionsOK
  <2>1. i \in DOMAIN journal /\ journal'[i] = journal[i]
    BY <1>1
  <2>2. i \in patched \/ state[n] # "waiting" \/ graphCrashes > 0
    BY <2>1 DEF BridgeInv, CompletionsOK, GraphFree
  <2> QED  BY <2>2
<1>5. ResumedOK'
  BY DEF BridgeInv, ResumedOK
<1> QED  BY <1>2, <1>3, <1>4, <1>5 DEF BridgeInv

-----------------------------------------------------------------------------
(* A dispatch up to the moment it waits, and the end of those that wait.   *)
LEMMA DispatchKeeps ==
  ASSUME HandlersInv, BridgeInv,
         \/ \E n \in Nodes, t \in Tasks : Dispatch(n, t)
         \/ \E t \in Tasks : StartReturns(t)
         \/ ServerStops
  PROVE  BridgeInv'
<1> USE DEF BridgeInv, GraphType, store
<1>1. ASSUME NEW n \in Nodes, NEW t \in Tasks, Dispatch(n, t)
      PROVE  BridgeInv'
  <2>1. /\ at' = [at EXCEPT ![t] = "starting"] /\ target' = [target EXCEPT ![t] = n]
        /\ UNCHANGED <<store, snapshot, trigger, remote_ids, results, runner, decision, graphCrashes>>
        /\ \A u \in Tasks : at[u] # "journalled"
    BY <1>1 DEF Dispatch, Send, External, GraphFree
  <2>2. GraphType'
    BY <2>1
  <2> QED  BY <2>1, <2>2, BookkeepingKeeps DEF JournalledOK
<1>2. ASSUME NEW t \in Tasks, StartReturns(t)
      PROVE  BridgeInv'
  <2>1. /\ at' = [at EXCEPT ![t] = "waiting"] /\ at[t] = "starting"
        /\ snapshot' = [snapshot EXCEPT ![t] = task[t]]
        /\ UNCHANGED <<store, target, trigger, results, runner, decision, graphCrashes>>
        /\ \A u \in Tasks : at[u] # "journalled"
    BY <1>2 DEF StartReturns, Subscribe, SendSnapshot, GraphFree
  <2>2. GraphType'
    BY <2>1 DEF HandlersInv, TaskType
  <2> QED  BY <2>1, <2>2, BookkeepingKeeps DEF JournalledOK
<1>3. CASE ServerStops
  <2>1. /\ at' = [t \in Tasks |-> IF at[t] \in {"starting", "waiting"} THEN "idle" ELSE at[t]]
        /\ UNCHANGED <<store, snapshot, target, trigger, results, runner, decision, graphCrashes>>
    BY <1>3 DEF ServerStops, Down
  <2>2. GraphType'
    BY <2>1
  <2> QED  BY <2>1, <2>2, BookkeepingKeeps DEF JournalledOK
<1> QED  BY <1>1, <1>2, <1>3

(* The first transaction of a dispatch that was joined. *)
LEMMA JoinedKeeps ==
  ASSUME BridgeInv, NEW t \in Tasks, Joined(t)
  PROVE  BridgeInv'
<1> DEFINE n == target[t]
           rows == {CompletedRow(n)}
<1>1. /\ n \in Nodes /\ \A u \in Tasks : at[u] # "journalled"
      /\ at[t] = "waiting"
  BY DEF Joined, GraphFree, BridgeInv, JournalledOK
<1>2. /\ Commit(rows)
      /\ UNCHANGED <<known, finished, state, edges, patched, snapshot, target, runner, decision,
                     graphCrashes>>
      /\ at' = [at EXCEPT ![t] = "journalled"]
      /\ trigger' = [trigger EXCEPT ![t] = Len(journal')]
      /\ results' = [results EXCEPT ![n] = snapshot[t]]
  BY DEF Joined, RecordExternalEvent, CompletedRow, server
<1>3. rows \in SUBSET RemoteRow
  BY <1>1, RowsAreRows DEF CompletedRow, RemoteKinds
<1> HIDE DEF rows
<1>4. /\ journal' \in Seq(SUBSET RemoteRow) /\ Len(journal') \in Nat
      /\ DOMAIN journal' = DOMAIN journal \cup {Len(journal')}
      /\ \A i \in DOMAIN journal : journal'[i] = journal[i]
      /\ journal'[Len(journal')] = rows
  BY <1>2, <1>3, RemoteCommit DEF BridgeInv, GraphType
<1>5. snapshot[t] # "none" /\ snapshot[t] \in {"absent"} \cup Unfinished \cup TERMINAL
  BY DEF BridgeInv, GraphType, Unfinished, TERMINAL
<1>6. GraphType'
  BY <1>1, <1>2, <1>4, <1>5 DEF BridgeInv, GraphType
<1>7. \A m \in Nodes : results[m] # "none" => results'[m] # "none"
  BY <1>1, <1>2, <1>5 DEF BridgeInv, GraphType
<1>8. /\ at'[t] = "journalled" /\ trigger'[t] = Len(journal') /\ results'[n] # "none"
      /\ \A u \in Tasks : u # t => at'[u] = at[u]
  BY <1>1, <1>2, <1>5 DEF BridgeInv, GraphType
<1>9. JournalledOK'
  BY <1>1, <1>2, <1>4, <1>8 DEF BridgeInv, JournalledOK, rows
<1>10. CompletionsOK'
  <2> SUFFICES ASSUME NEW i \in DOMAIN journal', NEW m \in Nodes, CompletedRow(m) \in journal'[i]
               PROVE  \/ i \in patched' \/ state'[m] # "waiting" \/ graphCrashes' > 0
                      \/ \E u \in Tasks : at'[u] = "journalled" /\ trigger'[u] = i
    BY DEF CompletionsOK
  <2>1. CASE i = Len(journal')
    BY <1>8, <2>1
  <2>2. CASE i \in DOMAIN journal
    <3>1. i \in patched \/ state[m] # "waiting" \/ graphCrashes > 0
      BY <1>1, <1>4, <2>2 DEF BridgeInv, CompletionsOK
    <3> QED  BY <1>2, <3>1
  <2> QED  BY <1>4, <2>1, <2>2
<1>11. ResumedOK'
  BY <1>2, <1>7 DEF BridgeInv, ResumedOK
<1> QED  BY <1>6, <1>9, <1>10, <1>11 DEF BridgeInv

(* apply_patch never refuses to resume a node that waits. *)
LEMMA ResumeAccepted ==
  ASSUME BridgeInv, NEW n \in Nodes, state[n] = "waiting"
  PROVE  Accepts([NoPatch EXCEPT !.resume = {n}])
<1> DEFINE p == [NoPatch EXCEPT !.resume = {n}]
<1>1. /\ p.add = {} /\ p.connect = {} /\ p.cancel = {} /\ p.wait = {} /\ p.resume = {n}
  BY DEF NoPatch
<1>2. ~finished /\ edges = {}
  BY DEF BridgeInv, ResumedOK, Open
<1>3. ~HasCycle({})
  <2>1. {e[1] : e \in {}} = {}
    OBVIOUS
  <2> QED  BY <2>1 DEF HasCycle
<1> HIDE DEF p
<1>4. Accepts(p)
  BY <1>1, <1>2, <1>3 DEF Accepts, Existing
<1> QED  BY <1>4 DEF p

(* The second transaction, which applies the completion. *)
LEMMA ResumeNodeKeeps ==
  ASSUME BridgeInv, NEW t \in Tasks, ResumeNode(t)
  PROVE  BridgeInv'
<1> DEFINE n == target[t]
           p == [NoPatch EXCEPT !.resume = {n}]
           rows == {Row("task_cancelled", m) : m \in p.cancel \cup Leftovers(p)}
                     \cup {PatchRow(trigger[t])}
<1>1. /\ at[t] = "journalled" /\ n \in Nodes
      /\ UNCHANGED <<snapshot, target, trigger, results, runner, decision, graphCrashes>>
  BY DEF ResumeNode, BridgeInv, JournalledOK, server
<1>2. /\ trigger[t] \in DOMAIN journal /\ journal[trigger[t]] = {CompletedRow(n)}
      /\ graphCrashes = 0 => results[n] # "none"
  BY <1>1 DEF BridgeInv, JournalledOK
<1>3. /\ at' = [at EXCEPT ![t] = "idle"]
      /\ \/ state[n] # "waiting" /\ UNCHANGED store
         \/ state[n] = "waiting" /\ CommitPatch(p, trigger[t])
  BY <1>1, ResumeAccepted DEF ResumeNode, StillWaiting
<1>4. at'[t] = "idle" /\ \A u \in Tasks : u # t => at'[u] = at[u]
  BY <1>3 DEF BridgeInv, GraphType
<1>5. /\ \A i \in DOMAIN journal : i \in DOMAIN journal' /\ journal'[i] = journal[i]
      /\ journal' \in Seq(SUBSET RemoteRow)
      /\ \A i \in DOMAIN journal', m \in Nodes : CompletedRow(m) \in journal'[i] =>
           i \in DOMAIN journal
  <2>1. CASE UNCHANGED store
    BY <2>1 DEF store, BridgeInv, GraphType
  <2>2. CASE CommitPatch(p, trigger[t])
    <3>1. Commit(rows)
      BY <2>2 DEF CommitPatch
    <3>2. rows \in SUBSET RemoteRow /\ \A m \in Nodes : CompletedRow(m) \notin rows
      <4>1. p.cancel = {} /\ Leftovers(p) = {} /\ trigger[t] \in Nat
        BY DEF NoPatch, Leftovers, BridgeInv, GraphType
      <4>2. rows = {PatchRow(trigger[t])}
        BY <4>1
      <4> QED  BY <4>1, <4>2, RowsAreRows DEF CompletedRow, Row, PatchRow
    <3> HIDE DEF rows
    <3> QED  BY <3>1, <3>2, RemoteCommit DEF BridgeInv, GraphType
  <2> QED  BY <1>3, <2>1, <2>2
<1>6. /\ patched \subseteq patched' /\ edges' = {} /\ finished' = finished
      /\ state' \in [Nodes -> {"absent"} \cup NodeState]
      /\ \A m \in Nodes : \/ state'[m] = state[m]
                          \/ m = n /\ state'[m] = "pending" /\ ~finished
      /\ state[n] # "waiting" \/ trigger[t] \in patched'
  <2>1. CASE state[n] # "waiting" /\ UNCHANGED store
    <3>1. UNCHANGED <<patched, edges, finished, state>> /\ edges = {}
      BY <2>1 DEF store, BridgeInv, ResumedOK
    <3> QED  BY <2>1, <3>1 DEF BridgeInv, GraphType
  <2>2. CASE CommitPatch(p, trigger[t])
    <3>1. /\ p.add = {} /\ p.connect = {} /\ p.cancel = {} /\ p.wait = {} /\ p.resume = {n}
          /\ p.finish = FALSE
      BY DEF NoPatch
    <3> HIDE DEF p
    <3>2. Leftovers(p) = {}
      BY <3>1 DEF Leftovers
    <3>3. \A m \in Nodes : Rewritten(p, m) = IF m = n THEN "pending" ELSE state[m]
      BY <3>1 DEF Rewritten
    <3>4. state' = [m \in Nodes |-> IF m = n THEN "pending" ELSE state[m]]
      BY <2>2, <3>2, <3>3 DEF CommitPatch
    <3>5. ~finished /\ patched' = patched \cup {trigger[t]} /\ edges' = {}
      BY <2>2, <3>1 DEF CommitPatch, Accepts, BridgeInv, ResumedOK
    <3>6. finished' = finished
      BY <2>2, <3>1 DEF CommitPatch, BridgeInv, GraphType
    <3>7. state' \in [Nodes -> {"absent"} \cup NodeState]
      BY <3>4 DEF BridgeInv, GraphType, NodeState, Open
    <3>8. \A m \in Nodes : state'[m] = IF m = n THEN "pending" ELSE state[m]
      BY <3>4
    <3> QED  BY <3>5, <3>6, <3>7, <3>8
  <2> QED  BY <1>3, <2>1, <2>2
<1> HIDE DEF n, p, rows
<1>7. GraphType'
  BY <1>1, <1>3, <1>5, <1>6 DEF BridgeInv, GraphType
<1>8. JournalledOK'
  BY <1>1, <1>4, <1>5 DEF BridgeInv, JournalledOK
<1>9. CompletionsOK'
  <2> SUFFICES ASSUME NEW i \in DOMAIN journal', NEW m \in Nodes, CompletedRow(m) \in journal'[i]
               PROVE  \/ i \in patched' \/ state'[m] # "waiting" \/ graphCrashes' > 0
                      \/ \E u \in Tasks : at'[u] = "journalled" /\ trigger'[u] = i
    BY DEF CompletionsOK
  <2>1. /\ i \in DOMAIN journal /\ CompletedRow(m) \in journal[i]
    BY <1>5
  <2>2. \/ i \in patched \/ state[m] # "waiting" \/ graphCrashes > 0
        \/ \E u \in Tasks : at[u] = "journalled" /\ trigger[u] = i
    BY <2>1 DEF BridgeInv, CompletionsOK
  <2>3. CASE i = trigger[t]
    <3>1. m = n
      BY <1>2, <2>1, <2>3 DEF CompletedRow, Row
    <3> QED  BY <1>6, <2>3, <3>1
  <2>4. CASE i # trigger[t]
    BY <1>1, <1>4, <1>6, <2>2, <2>4
  <2> QED  BY <2>3, <2>4
<1>10. ResumedOK'
  BY <1>1, <1>2, <1>6 DEF BridgeInv, ResumedOK
<1> QED  BY <1>7, <1>8, <1>9, <1>10 DEF BridgeInv

-----------------------------------------------------------------------------
(* The executor's own transactions: take up, launch, and the outcome of    *)
(* result_skill, which finds what its node was resumed with.               *)
LEMMA RunnerKeeps ==
  ASSUME BridgeInv, (\E n \in Nodes : TakeUp(n)) \/ Launch \/ ResultSkill
  PROVE  BridgeInv'
<1> USE DEF CompletedRow
<1>1. ASSUME NEW n \in Nodes, TakeUp(n)
      PROVE  BridgeInv'
  <2>1. Row("run_resumed", NoNode) \in RemoteRow
    BY RowsAreRows DEF RemoteKinds
  <2>2. /\ Commit({Row("run_resumed", NoNode)}) /\ GraphFree
        /\ UNCHANGED <<finished, edges, patched, at, target, trigger, results, graphCrashes,
                       snapshot, decision>>
        /\ state' = [m \in Nodes |-> Interrupted(state[m])]
        /\ runner' = [at |-> "fill", node |-> n]
    BY <1>1 DEF TakeUp, Resume, server
  <2>3. \A m \in Nodes : CompletedRow(m) \notin {Row("run_resumed", NoNode)}
    BY DEF Row
  <2>4. /\ state' \in [Nodes -> {"absent"} \cup NodeState]
        /\ \A m \in Nodes : state'[m] = IF state[m] = "running" THEN "pending" ELSE state[m]
    BY <2>2 DEF BridgeInv, GraphType, Interrupted, NodeState, Open
  <2>5. edges' = {} /\ (finished' => \A m \in Nodes : state'[m] \notin Open)
    BY <2>2, <2>4 DEF BridgeInv, ResumedOK, Open
  <2> QED
    BY <2>1, <2>2, <2>3, <2>4, <2>5, TransactionKeeps DEF BridgeInv, GraphType
<1>2. CASE Launch
  <2> DEFINE rows == {Row("task_started", n) : n \in {runner.node}}
  <2>1. /\ Commit(rows) /\ GraphFree
        /\ UNCHANGED <<finished, edges, patched, at, target, trigger, results, graphCrashes,
                       snapshot, decision>>
        /\ state' = [m \in Nodes |-> IF m \in {runner.node} /\ state[m] = "pending"
                                     THEN "running" ELSE state[m]]
        /\ runner' = [runner EXCEPT !.at = "skill"]
    BY <1>2 DEF Launch, MarkRunning, server
  <2>2. runner.node \in Nodes \cup {NoNode}
    BY DEF BridgeInv, GraphType
  <2>3. rows \in SUBSET RemoteRow
    BY <2>2, RowsAreRows DEF RemoteKinds
  <2>4. \A m \in Nodes : CompletedRow(m) \notin rows
    BY DEF Row
  <2>5. /\ state' \in [Nodes -> {"absent"} \cup NodeState]
        /\ \A m \in Nodes : \/ state'[m] = state[m]
                            \/ state'[m] = "running" /\ state[m] = "pending"
    BY <2>1 DEF BridgeInv, GraphType, NodeState, Open
  <2>6. edges' = {} /\ (finished' => \A m \in Nodes : state'[m] \notin Open)
    BY <2>1, <2>5 DEF BridgeInv, ResumedOK, Open
  <2> HIDE DEF rows
  <2>7. runner' \in [at : {"idle", "fill", "skill"}, node : Nodes \cup {NoNode}]
    BY <2>1 DEF BridgeInv, GraphType
  <2> QED
    BY <2>1, <2>3, <2>4, <2>5, <2>6, <2>7, TransactionKeeps DEF BridgeInv, GraphType
<1>3. CASE ResultSkill
  <2> DEFINE n == runner.node
             good == results[n] # "none"
             row == Row(IF good THEN "task_succeeded" ELSE "task_failed", n)
  <2>1. /\ Commit({row}) /\ GraphFree /\ state[n] = "running"
        /\ UNCHANGED <<finished, edges, patched, at, target, trigger, results, graphCrashes,
                       snapshot, decision>>
        /\ state' = [state EXCEPT ![n] = IF good THEN "succeeded" ELSE "failed"]
        /\ runner' = NoRun
    BY <1>3 DEF ResultSkill, RecordOutcome, OutcomeAccepted, server
  <2>2. n \in Nodes \cup {NoNode}
    BY DEF BridgeInv, GraphType
  <2>3. row \in RemoteRow
    BY <2>2, RowsAreRows DEF RemoteKinds
  <2>4. \A m \in Nodes : CompletedRow(m) \notin {row}
    BY DEF Row
  <2>5. n \in Nodes /\ graphCrashes = 0 => good
    BY <2>1 DEF BridgeInv, ResumedOK
  <2>6. /\ state' \in [Nodes -> {"absent"} \cup NodeState]
        /\ \A m \in Nodes : \/ state'[m] = state[m]
                            \/ m = n /\ state'[m] = "succeeded"
                            \/ m = n /\ state'[m] = "failed" /\ ~good
    BY <2>1 DEF BridgeInv, GraphType, NodeState, Terminal
  <2>7. edges' = {} /\ (finished' => \A m \in Nodes : state'[m] \notin Open)
    BY <2>1, <2>6 DEF BridgeInv, ResumedOK, Open
  <2>8. runner' \in [at : {"idle", "fill", "skill"}, node : Nodes \cup {NoNode}]
    BY <2>1 DEF NoRun
  <2> HIDE DEF row, good, n
  <2>9. \A m \in Nodes :
          /\ state'[m] = "waiting" => state[m] = "waiting"
          /\ state'[m] \in {"pending", "running"} => state[m] \in {"pending", "running"}
          /\ graphCrashes = 0 /\ state'[m] = "failed" => state[m] = "failed"
    BY <2>5, <2>6
  <2> QED
    BY <2>1, <2>3, <2>4, <2>6, <2>7, <2>8, <2>9, TransactionKeeps DEF BridgeInv, GraphType
<1> QED  BY <1>1, <1>2, <1>3

-----------------------------------------------------------------------------
(* The caller that gives the run up. *)
LEMMA CallerKeeps ==
  ASSUME BridgeInv, Decide \/ CancelGraph \/ \E n \in Nodes : CancelNode(n)
  PROVE  BridgeInv'
<1> USE DEF CompletedRow
<1>1. CASE Decide
  <2> DEFINE row == Row("graph_cancel_requested", NoNode)
  <2>1. /\ Commit({row}) /\ GraphFree
        /\ UNCHANGED <<finished, edges, patched, state, at, target, trigger, results, graphCrashes,
                       snapshot, runner>>
        /\ decision' = Len(journal')
    BY <1>1 DEF Decide, RecordExternalEvent, server
  <2>2. row \in RemoteRow
    BY RowsAreRows DEF RemoteKinds
  <2>3. \A m \in Nodes : CompletedRow(m) \notin {row}
    BY DEF Row
  <2> HIDE DEF row
  <2>4. decision' \in Nat
    BY <2>1, <2>2, RemoteCommit DEF BridgeInv, GraphType
  <2> QED
    BY <2>1, <2>2, <2>3, <2>4, TransactionKeeps DEF BridgeInv, GraphType, ResumedOK
<1>2. CASE CancelGraph
  <2> DEFINE p == [NoPatch EXCEPT !.cancel = {n \in Nodes : state[n] = "waiting"},
                                  !.finish = TRUE]
             rows == {Row("task_cancelled", n) : n \in p.cancel \cup Leftovers(p)}
                       \cup {PatchRow(decision)}
  <2>1. /\ p.add = {} /\ p.connect = {} /\ p.wait = {} /\ p.resume = {} /\ p.finish = TRUE
        /\ p.cancel = {n \in Nodes : state[n] = "waiting"}
    BY DEF NoPatch
  <2>2. /\ CommitPatch(p, decision) /\ GraphFree /\ runner' = NoRun
        /\ UNCHANGED <<at, target, trigger, results, graphCrashes, snapshot, decision>>
    BY <1>2 DEF CancelGraph, server
  <2> HIDE DEF p
  <2>3. \A n \in Nodes : Rewritten(p, n) = IF state[n] = "waiting" THEN "cancelled" ELSE state[n]
    BY <2>1 DEF Rewritten
  <2>4. Leftovers(p) = {n \in Nodes : state[n] \in {"pending", "running"}}
    BY <2>1, <2>3 DEF Leftovers, Open
  <2>5. \A n \in Nodes : state'[n] = IF state[n] \in Open THEN "cancelled" ELSE state[n]
    BY <2>2, <2>3, <2>4 DEF CommitPatch, Open
  <2>6. state' \in [Nodes -> {"absent"} \cup NodeState]
    BY <2>2, <2>3 DEF CommitPatch, BridgeInv, GraphType, NodeState, Terminal
  <2>7. /\ Commit(rows) /\ finished' = TRUE /\ patched \subseteq patched' /\ edges' = {}
    BY <2>1, <2>2 DEF CommitPatch, BridgeInv, GraphType, ResumedOK
  <2>8. rows \in SUBSET RemoteRow
    <3>1. PatchRow(decision) \in RemoteRow
      BY RowsAreRows DEF BridgeInv, GraphType
    <3>2. \A n \in p.cancel \cup Leftovers(p) : Row("task_cancelled", n) \in RemoteRow
      BY <2>1, <2>4, RowsAreRows DEF RemoteKinds
    <3> QED  BY <3>1, <3>2
  <2>9. \A m \in Nodes : CompletedRow(m) \notin rows
    BY DEF Row, PatchRow
  <2> HIDE DEF rows
  <2>10. \A m \in Nodes : state'[m] \notin Open
    BY <2>5 DEF Open
  <2>11. \A m \in Nodes :
           /\ state'[m] = "waiting" => state[m] = "waiting"
           /\ state'[m] \in {"pending", "running"} => state[m] \in {"pending", "running"}
           /\ graphCrashes = 0 /\ state'[m] = "failed" => state[m] = "failed"
    BY <2>5 DEF Open
  <2>12. runner' \in [at : {"idle", "fill", "skill"}, node : Nodes \cup {NoNode}]
    BY <2>2 DEF NoRun
  <2> QED
    BY <2>2, <2>6, <2>7, <2>8, <2>9, <2>10, <2>11, <2>12, TransactionKeeps
    DEF BridgeInv, GraphType
<1>3. ASSUME NEW n \in Nodes, CancelNode(n)
      PROVE  BridgeInv'
  <2> DEFINE row == Row("a2a_task_cancelled", n)
  <2>1. /\ Commit({row}) /\ GraphFree
        /\ UNCHANGED <<finished, edges, patched, state, at, target, trigger, results, graphCrashes,
                       snapshot, runner, decision>>
    BY <1>3 DEF CancelNode, RecordExternalEvent, Cancel, External, bridge
  <2>2. row \in RemoteRow
    BY RowsAreRows DEF RemoteKinds
  <2>3. \A m \in Nodes : CompletedRow(m) \notin {row}
    BY DEF Row
  <2> HIDE DEF row
  <2> QED
    BY <2>1, <2>2, <2>3, TransactionKeeps DEF BridgeInv, GraphType, ResumedOK
<1> QED  BY <1>1, <1>2, <1>3

(* A crash of the graph's process, from which on the claims are void that  *)
(* memory was to keep.                                                     *)
LEMMA GraphCrashKeeps ==
  ASSUME BridgeInv, GraphCrash
  PROVE  BridgeInv'
<1>1. /\ graphCrashes' = graphCrashes + 1 /\ graphCrashes' \in Nat /\ graphCrashes' > 0
      /\ at' = [t \in Tasks |-> "idle"] /\ results' = [n \in Nodes |-> "none"]
      /\ runner' = NoRun
      /\ UNCHANGED <<store, snapshot, target, trigger, decision>>
  BY DEF GraphCrash, server, BridgeInv, GraphType
<1>2. GraphType'
  BY <1>1 DEF BridgeInv, GraphType, store, NoRun
<1>3. JournalledOK'
  BY <1>1 DEF JournalledOK
<1>4. CompletionsOK'
  BY <1>1 DEF CompletionsOK
<1>5. ResumedOK'
  BY <1>1 DEF BridgeInv, ResumedOK, store
<1> QED  BY <1>2, <1>3, <1>4, <1>5 DEF BridgeInv

(* The server and its other clients. *)
LEMMA ServerKeepsBridge ==
  ASSUME HandlersInv, BridgeInv, UNCHANGED <<store, bridge>>,
         \/ Boot \/ \E t \in Tasks : ServerStep(t) \/ SubscriberStep(t)
         \/ \E t \in Tasks : Clients(t)
  PROVE  BridgeInv'
<1> DEFINE S == {"absent"} \cup Unfinished \cup TERMINAL
<1>1. snapshot \in [Tasks -> S] /\ task \in [Tasks -> S]
  BY DEF BridgeInv, GraphType, HandlersInv, TaskType
<1>2. snapshot' = snapshot \/ \E t \in Tasks : snapshot' = [snapshot EXCEPT ![t] = task[t]]
  BY DEF Boot, ServerStep, SubscriberStep, StreamGoesOn, JobWakes, HandlerReturns, Post,
     SubscriberWakes, SubscriberAsked, SendSnapshot, Clients, Create, Send, Stream, Cancel,
     Subscribe, Drop, External
<1> HIDE DEF S
<1>3. snapshot' \in [Tasks -> S]
  BY <1>1, <1>2
<1> QED  BY <1>3, ServerLeavesBridge DEF S

-----------------------------------------------------------------------------
LEMMA BridgeStep ==
  ASSUME HandlersInv, BridgeInv, [Next /\ Bounded']_vars
  PROVE  BridgeInv'
<1>1. CASE \E n \in Nodes, t \in Tasks : Dispatch(n, t)
  BY <1>1, DispatchKeeps
<1>2. CASE Bridge
  BY <1>2, DispatchKeeps, JoinedKeeps, ResumeNodeKeeps, RunnerKeeps DEF Bridge
<1>3. CASE Server \/ \E t \in Tasks : Clients(t) /\ UNCHANGED <<store, bridge>>
  BY <1>3, ServerKeepsBridge DEF Server
<1>4. CASE Decide \/ CancelGraph \/ \E n \in Nodes : CancelNode(n)
  BY <1>4, CallerKeeps
<1>5. CASE ServerStops \/ GraphCrash
  BY <1>5, DispatchKeeps, GraphCrashKeeps
<1>6. CASE UNCHANGED vars
  BY <1>6, ServerLeavesBridge DEF vars, server, BridgeInv, GraphType
<1> QED  BY <1>1, <1>2, <1>3, <1>4, <1>5, <1>6 DEF Next

LEMMA BridgeStart == Init => BridgeInv
<1> SUFFICES ASSUME Init PROVE BridgeInv
  OBVIOUS
<1>1. /\ state = [n \in Nodes |-> "waiting"] /\ edges = {} /\ finished = FALSE
      /\ journal = <<{Row("run_started", NoNode)}, {PatchRow(1)}>>
      /\ at = [t \in Tasks |-> "idle"] /\ target = [t \in Tasks |-> NoNode]
      /\ trigger = [t \in Tasks |-> 0] /\ results = [n \in Nodes |-> "none"]
      /\ snapshot = [t \in Tasks |-> "absent"]
      /\ runner = NoRun /\ decision = 0 /\ graphCrashes = 0
  BY DEF Init, GraphInit, ServerInit
<1>2. Row("run_started", NoNode) \in RemoteRow /\ PatchRow(1) \in RemoteRow
  BY RowsAreRows DEF RemoteKinds
<1>3. GraphType
  <2> DEFINE first == {Row("run_started", NoNode)}
             second == {PatchRow(1)}
  <2>1. first \in SUBSET RemoteRow /\ second \in SUBSET RemoteRow
    BY <1>2
  <2>2. journal = <<first, second>>
    BY <1>1
  <2> HIDE DEF first, second
  <2>3. journal \in Seq(SUBSET RemoteRow)
    BY <2>1, <2>2
  <2>4. runner \in [at : {"idle", "fill", "skill"}, node : Nodes \cup {NoNode}]
    BY <1>1 DEF NoRun
  <2> QED  BY <1>1, <2>3, <2>4 DEF GraphType, NodeState, Open, NoNode
<1>4. JournalledOK
  BY <1>1 DEF JournalledOK
<1>5. CompletionsOK
  <2>1. \A n \in Nodes : CompletedRow(n) # Row("run_started", NoNode) /\ CompletedRow(n) # PatchRow(1)
    BY DEF CompletedRow, Row, PatchRow
  <2>2. \A i \in DOMAIN journal : journal[i] \in {{Row("run_started", NoNode)}, {PatchRow(1)}}
    BY <1>1
  <2> QED  BY <2>1, <2>2 DEF CompletionsOK
<1>6. ResumedOK
  BY <1>1 DEF ResumedOK
<1> QED  BY <1>3, <1>4, <1>5, <1>6 DEF BridgeInv

(* A2AGraphBridge: for every number of nodes, tasks, crashes and dropped   *)
(* requests, a completion in the graph's journal was applied, is being     *)
(* applied, or found a node that no longer waited, unless the graph's      *)
(* process crashed; apply_patch never refuses it, and a node fails only    *)
(* when a crash lost the result it was resumed for.                        *)
THEOREM CompletionsAreAppliedAlways == Spec => []CompletionsAreApplied
<1>1. HandlersInv /\ BridgeInv /\ [Next /\ Bounded']_vars => BridgeInv'
  BY BridgeStep
<1>2. BridgeInv => CompletionsAreApplied
  <2> SUFFICES ASSUME BridgeInv PROVE CompletionsAreApplied
    OBVIOUS
  <2>1. \A n \in Nodes : state[n] = "failed" => graphCrashes > 0
    BY DEF BridgeInv, GraphType, ResumedOK
  <2> QED
    BY <2>1 DEF BridgeInv, CompletionsOK, JournalledOK, CompletedRow, CompletionsAreApplied
<1> QED  BY <1>1, <1>2, BridgeStart, HandlersAlone, PTL DEF Spec
=============================================================================

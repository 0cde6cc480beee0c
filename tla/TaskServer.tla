----------------------------- MODULE TaskServer -----------------------------
(***************************************************************************)
(* The A2A task core: A2ADemoServer and DurableTaskStore of                *)
(* core/a2a/server.py, with the streaming servicer of core/a2a/official.py.*)
(*                                                                         *)
(* One asyncio loop runs, for each task, the request that created it, the  *)
(* background job that may complete it and the requests that cancel or     *)
(* follow it; an action is what one of them does between two awaits.  The  *)
(* state of a task is written to memory and to SQLite without an await in  *)
(* between, so the model keeps one copy, which survives a crash.  The      *)
(* notification of a change is named by the task and by the number of the  *)
(* change, which stands for updated_at.                                    *)
(***************************************************************************)
EXTENDS Integers, Sequences, FiniteSets

CONSTANTS
  Tasks,        \* ids new tasks may get
  PushAttempts, \* push_attempts
  MaxCrashes,   \* bound: server restarts in a behaviour
  MaxDrops      \* bound: requests whose client goes away

ASSUME ServerAssumption == /\ PushAttempts \in Nat \ {0}
                           /\ MaxCrashes \in Nat /\ MaxDrops \in Nat

VARIABLES
  up,      \* the server runs
  task,    \* Task.state, "absent" before the task exists
  rev,     \* changes of the state so far, for updated_at
  push,    \* Task.callback_url is set
  kind,    \* how the task was submitted
  pc,      \* where the coroutines of a task are
  event,   \* the change each of them is notifying the client of
  ledger,  \* a2a_push_delivery
  inbox,   \* what the webhook of a task received, in order
  snapshot,\* the last snapshot its subscriber was sent
  crashes, drops

server == <<up, task, rev, push, kind, pc, event, ledger, inbox, snapshot,
            crashes, drops>>

Unfinished == {"submitted", "working"}
TERMINAL   == {"completed", "failed", "canceled"}
Kinds      == {"send", "async", "stream"}

Coroutines == {"request", "job", "cancel", "subscriber"}
Places == {"idle", "delay", "handler", "post", "yielded", "ended"}

NoEntry == [delivered |-> FALSE, attempts |-> 0]
MaxRev  == MaxCrashes + 5

ServerInit ==
  /\ up = TRUE
  /\ task = [t \in Tasks |-> "absent"]
  /\ rev = [t \in Tasks |-> 0]
  /\ push = [t \in Tasks |-> FALSE]
  /\ kind = [t \in Tasks |-> "send"]
  /\ pc = [t \in Tasks |-> [c \in Coroutines |-> "idle"]]
  /\ event = [t \in Tasks |-> [c \in Coroutines |-> 0]]
  /\ ledger = [t \in Tasks |-> [e \in 1..MaxRev |-> NoEntry]]
  /\ inbox = [t \in Tasks |-> <<>>]
  /\ snapshot = [t \in Tasks |-> "absent"]
  /\ crashes = 0 /\ drops = 0

(* task.state = s; task.updated_at = now; store.save(task) *)
Save(t, s) ==
  /\ task' = [task EXCEPT ![t] = s]
  /\ rev' = [rev EXCEPT ![t] = @ + 1]

(* The coroutines of t once c has no notification (left) to post: an       *)
(* asynchronous send creates the job only then.                            *)
Settled(t, c, p) ==
  IF c = "request" /\ kind'[t] = "async"
  THEN [p EXCEPT !.request = "idle", !.job = "delay"]
  ELSE [p EXCEPT ![c] = "idle"]

(* await self._notify(task) in coroutine c, right after a Save. *)
Notify(t, c, p) ==
  /\ event' = [event EXCEPT ![t][c] = rev'[t]]
  /\ pc' = [pc EXCEPT ![t] = IF push'[t] THEN [p EXCEPT ![c] = "post"]
                                         ELSE Settled(t, c, p)]

(* uuid4, with the ids handed out in a fixed order. *)
NewId(t) ==
  LET free == {u \in Tasks : task[u] = "absent"}
  IN  free # {} /\ t = CHOOSE u \in free : TRUE

External == <<up, ledger, inbox, snapshot, crashes, drops>>

-----------------------------------------------------------------------------
InRequest(p) == [p EXCEPT !.request = "handler"]

(* send: a new task, completed by this request, or by a job when its text  *)
(* asks for it.                                                            *)
Send(t, k, withUrl) ==
  /\ up /\ NewId(t) /\ k \in {"send", "async"}
  /\ kind' = [kind EXCEPT ![t] = k]
  /\ push' = [push EXCEPT ![t] = withUrl]
  /\ Save(t, IF k = "async" THEN "working" ELSE "submitted")
  /\ IF k = "async" THEN Notify(t, "request", pc[t])
     ELSE pc' = [pc EXCEPT ![t] = InRequest(@)] /\ UNCHANGED event
  /\ UNCHANGED External

(* stream_updates up to its first yield, and from there to the handler. *)
Stream(t, withUrl) ==
  /\ up /\ NewId(t)
  /\ kind' = [kind EXCEPT ![t] = "stream"]
  /\ push' = [push EXCEPT ![t] = withUrl]
  /\ Save(t, "working")
  /\ pc' = [pc EXCEPT ![t]["request"] = "yielded"]
  /\ UNCHANGED <<event, External>>

StreamGoesOn(t) ==
  /\ pc[t]["request"] = "yielded"
  /\ pc' = [pc EXCEPT ![t]["request"] = IF task[t] \in TERMINAL THEN "idle" ELSE "handler"]
  /\ UNCHANGED <<task, rev, push, kind, event, External>>

\* Mutant of JobWakes: the job does not look whether the task has ended.
JobWakesBlindly(t) ==
  /\ pc[t]["job"] = "delay"
  /\ pc' = [pc EXCEPT ![t]["job"] = "handler"]
  /\ UNCHANGED <<task, rev, push, kind, event, External>>

(* _complete_later, after its sleep. *)
JobWakes(t) ==
  /\ pc[t]["job"] = "delay"
  /\ pc' = [pc EXCEPT ![t]["job"] = IF task[t] \in TERMINAL THEN "idle" ELSE "handler"]
  /\ UNCHANGED <<task, rev, push, kind, event, External>>

(* _complete: the handler is done, well or not.  The state is not looked at*)
(* again.                                                                  *)
HandlerReturns(t, c) ==
  /\ pc[t][c] = "handler"
  /\ UNCHANGED <<push, kind, External>>
  /\ \E s \in {"completed", "failed"} : Save(t, s)
  /\ Notify(t, c, pc[t])

(* job.cancel() *)
StopJob(t) == [pc[t] EXCEPT !.job = "idle"]

(* cancel, of a task that has not ended; one that has is left alone. *)
Cancel(t) ==
  /\ up /\ task[t] \in Unfinished
  /\ UNCHANGED <<push, kind, External>>
  /\ Save(t, "canceled")
  /\ Notify(t, "cancel", StopJob(t))

-----------------------------------------------------------------------------
(* _notify: one attempt to post the change that coroutine c announces.  It *)
(* arrives and is acknowledged ("ok"), arrives but the answer is lost, or  *)
(* does not arrive.  The ledger row is committed before the next attempt.  *)
Record(t, c, ok) ==
  ledger' = [ledger EXCEPT ![t][event[t][c]] =
               [delivered |-> ok, attempts |-> @.attempts + 1]]

\* Mutant of AttemptsLeft: the last attempt is counted from zero.
OneAttemptMore(t, c) == ledger[t][event[t][c]].attempts + 1 <= PushAttempts

AttemptsLeft(t, c) == ledger[t][event[t][c]].attempts + 1 < PushAttempts

Post(t, c) ==
  /\ pc[t][c] = "post"
  /\ UNCHANGED <<up, task, rev, push, kind, event, snapshot, crashes, drops>>
  /\ \E arrives, acknowledged \in BOOLEAN :
       /\ acknowledged => arrives
       /\ inbox' = [inbox EXCEPT ![t] = IF arrives THEN Append(@, event[t][c]) ELSE @]
       /\ Record(t, c, acknowledged)
       /\ pc' = [pc EXCEPT ![t] = IF ~acknowledged /\ AttemptsLeft(t, c) THEN @
                                  ELSE Settled(t, c, @)]

-----------------------------------------------------------------------------
(* SubscribeToTask sends a snapshot, and another one after each sleep that *)
(* found the task unfinished.  The loop condition is evaluated when the    *)
(* transport asks for the next snapshot, which is after an await.          *)
SendSnapshot(t) ==
  /\ snapshot' = [snapshot EXCEPT ![t] = task[t]]
  /\ pc' = [pc EXCEPT ![t]["subscriber"] = "yielded"]
  /\ UNCHANGED <<up, task, rev, push, kind, event, ledger, inbox, crashes, drops>>

Subscribe(t) == up /\ task[t] # "absent" /\ pc[t]["subscriber"] = "idle" /\ SendSnapshot(t)

SubscriberWakes(t) == pc[t]["subscriber"] = "delay" /\ SendSnapshot(t)

SubscriberAsked(t) ==
  /\ pc[t]["subscriber"] = "yielded"
  /\ pc' = [pc EXCEPT ![t]["subscriber"] = IF task[t] \in TERMINAL THEN "ended" ELSE "delay"]
  /\ UNCHANGED <<task, rev, push, kind, event, External>>

-----------------------------------------------------------------------------
(* The client of a request goes away: the transport cancels the coroutine  *)
(* at its await.  Nothing else takes the task over.                        *)
Drop(t, c) ==
  /\ drops < MaxDrops
  /\ c \in {"request", "cancel"} /\ pc[t][c] # "idle"
  /\ pc' = [pc EXCEPT ![t][c] = "idle"]
  /\ drops' = drops + 1
  /\ UNCHANGED <<up, task, rev, push, kind, event, ledger, inbox, snapshot, crashes>>

(* The process dies, or close() cancels the jobs and the transport stops. *)
Down ==
  /\ up /\ crashes < MaxCrashes
  /\ up' = FALSE /\ crashes' = crashes + 1
  /\ pc' = [t \in Tasks |-> [c \in Coroutines |-> "idle"]]
  /\ UNCHANGED <<task, rev, push, kind, event, ledger, inbox, snapshot, drops>>

\* Mutant of Recovered: a submitted task is not taken up again.
RecoveredIfWorking(t) == task[t] = "working"

Recovered(t) == task[t] \in Unfinished

(* load_all and start: every task that had not ended gets a job. *)
Boot ==
  /\ ~up /\ up' = TRUE
  /\ task' = [t \in Tasks |-> IF Recovered(t) THEN "working" ELSE task[t]]
  /\ rev' = [t \in Tasks |-> IF Recovered(t) THEN rev[t] + 1 ELSE rev[t]]
  /\ pc' = [t \in Tasks |-> [pc[t] EXCEPT !.job = IF Recovered(t) THEN "delay" ELSE @]]
  /\ UNCHANGED <<push, kind, event, ledger, inbox, snapshot, crashes, drops>>

ServerStep(t) ==
  \/ StreamGoesOn(t) \/ JobWakes(t) \/ \E c \in Coroutines : HandlerReturns(t, c) \/ Post(t, c)

SubscriberStep(t) == SubscriberWakes(t) \/ SubscriberAsked(t)

Create(t) ==
  \/ \E k \in {"send", "async"}, u \in BOOLEAN : Send(t, k, u)
  \/ \E u \in BOOLEAN : Stream(t, u)
=============================================================================

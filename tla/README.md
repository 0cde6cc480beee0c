# A formal model of S15Code

S15Code is one FastAPI process that answers a prompt by growing a *live graph*
of tasks: a planner looks at the graph after each outcome and returns a patch,
an executor runs whatever has become ready, and every decision and outcome is
journalled in SQLite so that a run survives the process. Around that core sit a
budget that every model call of a run is metered against, a scoped memory, an
A2A server and a bridge to remote agents, a trace exporter, a generated user
interface, and an evaluation harness with the proofs it makes.

This directory holds TLA+ modules of these parts, the TLC configurations that
check them on small instances, and proofs, checked by TLAPS, of what holds for
every instance. Paths below are relative to the repository's package
`s15code/` unless they begin with `proofs/`; line numbers are those of the commit
the modules were translated from.

## Contents

| Module | What it is |
| --- | --- |
| `GraphStore` | the durable half of the live graph: `core/live_graph/store.py` for one run |
| `LiveGraphExecutor` | `LiveGraphExecutor.run` of `core/live_graph/core.py` over it |
| `RunContract` | the abstract specification of a run |
| `LiveGraph` | what the live graph promises: the properties, and the refinement of `RunContract` |
| `LiveGraphProofs` | theorems about `LiveGraph`, with their proofs |
| `MCLiveGraph` | the patches planners answer with in the runs |
| `JournalViews`, `MCViews` | what is read off a run: the span tree (`telemetry/spans.py`), the client's data model (`ui/agui.py`) and the surface (`ui/surface.py`) |
| `ViewsProofs` | theorems about `JournalViews`, with their proofs |
| `RunModes` | `AgentRuntime.run` and the `DeterministicPlanner` of `runtime.py`, over the executor |
| `RunProofs` | theorems about `RunModes`, with their proofs |
| `RunBudget`, `BudgetPolicy`, `BudgetedGateway` | the ledger of a run, the policy over tiers and prices, and the seam calls go through (`economics/`) |
| `Budget`, `MCBudget` | what the budget promises; the callers, prompts and prices of its runs |
| `BudgetProofs` | theorems about `Budget`, with their proofs |
| `TaskServer` | the A2A task core, `core/a2a/server.py`, and the subscription of `core/a2a/official.py` |
| `GraphBridge` | `A2AGraphBridge` of `core/a2a/official.py`: `TaskServer` composed with `GraphStore` |
| `Remote`, `RemoteProofs` | what server and bridge promise; theorems about it |
| `MemoryStore`, `Memory`, `MemoryProofs` | `core/memory/store.py` with `vector_index.py`; what it must keep true; theorems about it |
| `SemanticChunks`, `Chunks` | the cutting loop of `core/memory/chunking.py`; what it promises (proofs in `MemoryProofs`) |
| `RubricJudge`, `CostPerTask` | the panel of `evals/judge.py`, and `proofs/p1_cost_per_task.py` over it |
| `Evaluation`, `MCEvaluation` | what that evaluation must keep true; an instance |
| `EvaluationProofs` | theorems about `Evaluation`, with their proofs |
| `EquivalenceSweep`, `CacheProof`, `MCCacheProof` | `evals/pairs.py`, and `proofs/p6_cache_savings.py` over it with its properties; an instance |
| `CacheProofs` | theorems about `CacheProof`, with their proofs |

To check: `tlc -config Views_crash.cfg MCViews`, and so on; `PROJECT.json` lists
for each run its module and `.cfg`. To prove: `tlapm RemoteProofs.tla`, likewise
for the other `*Proofs` modules. `PROJECT.json` also says which definition
models which lines, and gives for each property a plausible bug in the code (a
definition commented as its "mutant") that makes the property fail.

## Inventory

For each part: its state, its operations, what it exchanges with the others,
what is hard about it, and what makes it correct.

**Graph store** (`core/live_graph/store.py`). SQLite tables `runs`, `nodes`,
`edges`, `events`, `patches`. Operations: `start`, `resume`, `ready`,
`mark_running`, `record_outcome`, `apply_patch`, `record_external_event`,
`pending_planner_events`, reads. Each writing method is one transaction. Hard:
the process may die between any two transactions, a patch is a long list of
checks and writes, several clients use one store. Correct if: states follow the
journal, a patch is all or nothing and at most one per event, a finished run is
final. *Modelled.*

**Live graph executor** (`core/live_graph/core.py`). State: `in_flight`,
`executed`, and where the coroutine stands. Operations: `run` (start or
resume, replay of unpatched events, fill worker slots, wait for the first done,
record outcomes one by one, plan after each), cancellation of futures. Calls
the store, the planner and the skills. Hard: workers end or are cancelled at
any await, the graph may cancel a node whose result is already there, the
planner may raise, `max_completed` stops in the middle, the caller may resume a
run that is active. Correct if: no outcome is lost or repeated, what the store
calls running is being run, a call always ends and leaves nothing it could
still do. *Modelled.*

**Budget** (`economics/budget.py`, `policy.py`, `controller.py`, `tiers.py`,
`pricing.py`). State: `spent`, `reservations`, `charges`, refusals. Operations:
`allocate` by `BudgetAwarePlanner` after each planning round, `decide`,
`release` and `charge` by `BudgetedGateway.complete`, which the skills and the
planner call. Hard: a call is decided, awaited and charged in three steps, with
several in flight; slices are fixed when they are made; projections are only
upper bounds if what is sent is what was priced. Correct if: the ceilings on
money and calls hold, or are missed by a known amount. *Modelled.*
`economics/config.py` reads the thresholds, constants here.

**Runtime** (`runtime.py`, `routes.py`, `main.py`, `tools.py`, `gateway.py`).
State: the open stores, and per run the skills, planner and, if asked for, the
budget. Operations: `run`, `resume`, `remember_fact`, `index_document`. Hard:
the deterministic planner decides from the graph and one event which of eleven
shapes the run takes, in whatever order outcomes arrive, and again after a
crash; a resumed run is rebuilt from the journal alone, without its budget.
Correct if: no plan is refused, each mode's graph ends in an answer, and the
answer is made of what the run found. *Partly modelled*: `run` and its planner;
skills do I/O and text.

**Constrained planner** (`planner.py`). Asks a model for a patch, validates it,
falls back to the deterministic planner. Stateless; its answers, "any patch or
an exception", are in the executor model already.

**A2A task server** (`core/a2a/server.py`). State: `tasks` in memory and in
SQLite, `_jobs`, the ledger of push deliveries. Operations: `send`, `stream`,
`get`, `cancel`, completion in the background, `_notify` with retries, `start`
after a restart, `close`. Hard: `cancel` races a completion that is awaiting
its handler, deliveries fail and are retried, clients go away, a restart re-runs
tasks. Correct if: an ended task stays so, every task ends, a change is
delivered a bounded number of times. *Modelled.*

**A2A bridge and bindings** (`core/a2a/official.py`, `client.py`,
`grpc_binding.py`). State: remote task ids and results, in memory only.
Operations: dispatch of a waiting node, its resumption by an external event and
a patch, cancellation. Hard: two transactions for one result, results lost by a
crash, a remote answer that comes after the node was cancelled. Correct if: a
journalled completion is applied or had nothing to apply to, and the resumed
node finds its result. *Partly modelled*: the official binding; the push
configurations, which only keep what they are given, and the older bindings of
the same core are left out. `trust.py` and `schema.py` sign and validate cards,
and the stubs are generated: not modelled.

**Memory** (`core/memory/store.py`, `vector_index.py`, `models.py`,
`embeddings.py`). State: records, their full-text rows, document versions, a
vector index in memory and two files. Operations: `write` with supersession and
audit, `ingest_document`, `recall`. Hard: the embedder is a service that may
raise at any record and the model may change, the index is beside the
transaction, its files are written one after the other. Correct if: one current
version per document, supersession is a chain, scopes hold, the index agrees
with the table. *Partly modelled*: ranking, full-text search, validity
intervals and two of the five scope levels are left out.

**Semantic chunking** (`core/memory/chunking.py`). A loop over a text, with a
language model that names the second topic of a block. Hard: the model may
answer anything; headings, fences and tables at the edge of a block. Correct if
nothing is lost or repeated and the loop ends. *Partly modelled*: the
preparation of the Markdown is left out.

**Telemetry** (`telemetry/spans.py`) and **user interface** (`ui/`). Folds of
the journal: a tree of spans, AG-UI events and their deltas; a surface from the
graph. Hard: a node that is interrupted, started again or cancelled before it
started leaves rows of another shape each time. Correct if they tell the same
story, the one of the graph. *Partly modelled*: spans of calls, times, export,
catalogue, validation, approvals and routes are left out.

**Judge** (`evals/judge.py`, `config.py`) and **cost per resolved task**
(`proofs/p1_cost_per_task.py`). State: the samples of a verdict, the judge's
meter, the desk of remembered verdicts, the rows. Hard: judges fail, reply with
nonsense and disagree; an equal answer is graded once. Correct if failures never
become outcomes, calls are metered, the finding follows from the tasks. *Partly
modelled*: prompts, parsing and printing are left out.

**Equivalence sweep** (`evals/pairs.py`) and **cache savings**
(`proofs/p6_cache_savings.py`). A pure algorithm over scored pairs, and a script
that asks a live gateway whose cache it shares with earlier runs. Correct if the
report says of thresholds what is so, and round trips and namespaces do not
touch each other. *Modelled*, but for prices and printing.

**Not modelled**: `economics/config.py` (reads constants), `gateway.py` (one
HTTP call with a timeout, which every model has answer or fail),
`proofs/harness.py`, `cli.py` and the HTML client (they drive or show the rest).

## How the modules stand for the code

### The live graph

One run of one graph. `GraphStore` keeps the tables as variables: `known` (the
`runs` row), `finished`, `state`, `edges`, `journal` (the `events` table, one
element per transaction, which is the set of rows it inserted), and `patched`
(the `patches` table). Each writing method of the class is one action, since
each runs in one `with self.db` transaction: `Start`, `Resume`, `MarkRunning`,
`RecordOutcome`, `CommitPatch`. What `apply_patch` refuses is the predicate
`Accepts`, a conjunct per `raise`, and what it writes is `Rewritten`, in the
order of the four loops, then `Leftovers` for `finish`. Task ids are ranks in
the order the code sorts by, because `ready(limit)` cuts off in that order.
Skills, inputs, results and reasons are left out: nothing in the executor
depends on them. The depth-first search `_has_cycle` is stated by what it
finds.

`LiveGraphExecutor` adds, for each call of `run()` (an *invocation*), where its
coroutine stands (`pc`), its futures (`fut`), the batch that `asyncio.wait`
returned (`batch`), the planner events it still has to plan (`queue`) and the
number of outcomes it took (`executed`). `in_flight` is keyed by the asyncio
task, so where calls overlap one call can hold two futures of a node: launched,
returned to pending by the `resume` of a second call, launched again by the
next fill of the first. A future is therefore a node and the latest call that had
begun when it was launched (`Futures`, `Latest`); `LaunchesAreFresh` proves
that these names never clash. An action is what happens between two
places where something else may happen:

| Action | Code in `core/live_graph/core.py` |
| --- | --- |
| `Begin` | start or resume, read the events to replay (105-112) |
| `Launch`, `LaunchNothing` | fill the worker slots, or return, or go and wait (117-136) |
| `WorkerEnds`, `WorkerCancelled` | a future ends in `_execute`, or is cancelled at an await |
| `WaitReturns` | `asyncio.wait` with everything that is done by then (136-140) |
| `DropResult` | the result of a cancelled node is discarded (142-154) |
| `TakeOutcome` | `record_outcome`, then plan, or stop, or the next of the batch (155-168) |
| `OutcomeRefused` | `record_outcome` raises and `run()` with it |
| `PlanReturns` | the rest of `_plan`: apply the patch, cancel futures (197-202, 180-195) |
| `PlanRaises` | the planner raises or `apply_patch` refuses its patch |
| `Crash` | the process dies: the store stays, everything else is gone |

Asyncio is modelled exactly in one respect that matters: the actions at pc
"fill" and "handle" run without an await, so nothing else of the process moves
while an invocation is there (`LoopFree`); but the process may die there, since
each such action ends at a commit. A planner is a function of its snapshot that
may answer anything, so `PlanReturns` takes any patch of the constant
`Patches`. Futures that `run()` leaves behind when it raises live on
(`Orphaned`), as they do in asyncio, and end without anyone looking.

`RunContract` is what a reader of the journal may rely on: tasks are accepted,
settled or dropped once, each settled task and the start get one decision, a
closed run never changes. It knows nothing of workers, resumes or parking.
`KeepsContract` maps pending, running and waiting to "open" and states that the
executor implements it: every step is one step of the contract or none.

### The budget

`RunBudget` is the ledger, in whole units of money and percent so that
comparisons are exact; a slice, which the code keeps as a quotient, is the pair
of what was divided and by how many. `BudgetPolicy` is `decide`, with the
ladder as ranks, a prompt as what its input costs at each tier, and the
projection as in `project`. `BudgetedGateway` is `complete` in its two halves,
`Admit` (or `Refuse`) before the await of the transport and `Answer` (or
`Fail`) after it, for each caller; the callers are the nodes, each an asyncio
task of its own, and the planner, whose calls count as "unattributed".
`PlanRound` is `BudgetAwarePlanner.plan`: it replaces all slices while calls
may be in flight. A node that leaves the frontier in a round has ended, or the
patch cancelled it: then its call is lost without a charge.

What a call is charged is anything up to `WorstCost`: that a provider does not
bill more output than the `max_tokens` of the request, nor more input than the
estimate, and answers from a model priced as the tier says, is assumed. The
code's own projection (`Project`) uses the `max_tokens` of the tier, the request
may carry another: that difference is in the model (`Overriding`).

### A run: modes, planner, reply

`RunModes` puts the deterministic planner on top of the executor. A request's
mode, whether it asks to remember a fact, how many files, pages or subjects it
spreads over (`items`), which researchers come back empty (`weak`) and whether
the subjects share the slug their retries are named by (`alike`) are chosen
at the start; nodes are ranks in the order of their ids. `plan` of the code is a
cascade of `if`s that each return a patch: here each is a record of a condition
and a patch in `ComposeAnswerRules`, `ComposeResearchRules` or `CommonRules`,
and `Decide` takes the first that applies, so the order is the code's.
`AnswerReads` and `SurfaceItems` are what the two workers that make the reply
read of the graph. The executor's actions are used unchanged; `PlanAnswers` is
`PlanReturns` for a planner that is a function.

`JournalViews` adds to the executor one history variable, `added`: the list of
added ids in the payload of `graph_patched`, which `GraphStore` leaves out. The
span tree is a recursive function over the journal, a transaction at a time, in
the order the code walks rows; a moment is the place of a transaction. The data
model is the fold of the deltas, the surface is read from the state.

### A2A

`TaskServer` keeps one copy of a task, since the code changes memory and SQLite
without an await in between, and where up to four coroutines of a task stand:
its request, its background job, a cancel and a subscriber.

| Action | Code in `core/a2a/server.py` |
| --- | --- |
| `Send`, `Stream`, `StreamGoesOn` | `send` and `stream` up to their awaits (164-213) |
| `JobWakes` | `_complete_later` after its sleep (228-232) |
| `HandlerReturns` | `_complete` after its handler: the state is not looked at again (236-245) |
| `Cancel` | `cancel` of an unfinished task (215-226) |
| `Post` | one attempt of `_notify`; lost, delivered, or delivered with the answer lost (247-285) |
| `Subscribe`, `SubscriberAsked`, `SubscriberWakes` | `SubscribeToTask` (`official.py` 78-84) |
| `Drop` | the client goes away; the coroutine is cancelled at its await |
| `Down`, `Boot` | the process dies or is closed; `load_all` and `start` (118-128) |

`GraphBridge` composes it with `GraphStore` in another process. `Joined` is the
first transaction of `dispatch_waiting` after the subscription ended, and
`ResumeNode` the second; nothing of that process moves between them
(`GraphFree`) but its death. Either process may die.

### Memory

`MemoryStore` keeps the database twice, `db` (what the connection reads, open
transaction included) and `disk` (what was committed), because `write` raises
without a rollback and `ingest_document` rolls back. A record's id is its place
in the table, an embedding is the model that made it. The index exists as ids
and vectors in memory and as two files, written by `Ensure` and `FinishPersist`.
`Recall`, `Search` and `SearchFails` are the parts of `recall` between which a
crash or an exception of the embedder may fall.

### Chunking

A source is a sequence of pieces without white space, each with what precedes
it and whether it is a heading, fence or table marker; patterns of the code
become sets of places (`Headings`, `Fences`, `WordStarts`). `Rollover` is any
suffix of a block as the model's answer, found again with `rfind` (`SplitAt`);
`KeepBlock` is any other answer, a failure, or no question at all.

### Evaluation

`RubricJudge` asks its panel in turn; scores are integers on the scale, and
means and weighted sums are compared after multiplying out. `CostPerTask` runs
strategies over tasks, an attempt at a time, with the desk of verdicts in
between. `EquivalenceSweep` is operators only; `CacheProof` drives them, with
the gateway's cache modelled as the proof sees it: a lookup among entries of the
same system prompt, model and tenant, that may hold entries of earlier runs. The
gateway may go without an embedding (`Skips`, the `skipped_reason` of its
envelope), and a call may raise wherever it is made, also where the cache would
have served it, its answer stored or not (`Fails`). The model of the second rung
(`other`) may be the one that `--tier` picked.

## What the runs check

Passing runs, with the number of distinct states. Each property is commented
where it is defined.

- **crash** (205,139; `LiveGraph`, `JournalViews`): three nodes, every kind of
  patch including one that is rolled back for a cycle, up to three calls of
  `run()` one after the other, crashes and a planner that raises. Three calls
  allow a resume to crash again and be resumed; two siblings and a join allow
  every order of two results, and a cancellation to meet a result; two workers
  leave one node without a slot. Outcomes and states agree
  (`OutcomesMatchState`), a finished run is quiescent, what the store calls
  running is held by a live call (`RunningIsHeld`), a late result never ends a
  run (`LateResultNeverAborts`), nodes start after their parents
  (`StartedAfterParents`), a call comes back only when there is nothing left to
  do (`ReturnLeavesNothingToDo`), the executor implements `RunContract`
  (`KeepsContract`). And what is read off the run is so: one closed span for
  each node that ended, with its state, in the round that added it
  (`TraceTellsTheRun`); the client's stream, the surface and the trace agree
  (`ReplayShowsTheGraph`).
- **ends** (320,411): two calls, which may overlap on one run as two HTTP
  requests to resume make possible. Under fairness every call ends
  (`InvocationEnds`); what a call executed and the futures it holds are
  `max_completed` at most, two futures of one node counted as two, and a call that
  comes back holds none (`StopLeavesNothingBehind`); events are
  patched once (`OnePatchPerEvent`), by whichever call is first. With two workers
  and `max_completed` 3 a call can get to a second future of a node, and is then
  at its limit; a limit of 2 leaves no room for the second. That nodes are then
  executed twice is what the code does, and no property forbids it.
  `RunningIsHeld` and `LateResultNeverAborts` are not claimed where calls
  overlap: a resume beside an active call takes its nodes back, and one of the
  two then ends with a `GraphMutationError`.
- **modes** (457,713; `RunModes`): all eleven modes, up to two items, every set
  of weak researchers with slugs of their own or one for both, every failure of a
  worker, a crash and a resume.
  `apply_patch` never refuses the planner (`PlansAreAccepted`); a call without a
  failed node ends in a finished, completed run (`SuccessEndsFinished`: with an
  empty directory or no hits too); a distill of a `compose_research` run stands
  on one landed leaf per subject and one retry per slug, and on a weak first
  outcome only if it failed or its slug's retry went to another subject
  (`EvidenceIsEarned`); while the
  reply is made nothing it needs is open, it reads what there is, and finishing
  cuts off memory skills only (`ReplyMissesNothing`).
- **remote** (405,810; `Remote`): two tasks, one waiting node, one fault (a
  crash of either process or a lost request). An ended task stays as it ended,
  but for a request that was waiting for its handler while the task was
  cancelled (`EndedStaysEnded`); a webhook gets a change at most `push_attempts`
  times, and not again once it was acknowledged (`DeliveriesBounded`); every task ends, unless a lost request leaves it
  to the next restart (`TasksEnd`); a journalled completion is applied or found
  nothing waiting, and the resumed node finds its result, unless the graph's
  process died (`CompletionsAreApplied`).
- **memory** (807,261; `Memory`): two tenants, a project, two embedding models,
  four records, two failures of the embedder and one crash.
  `DocumentsAreReplacedWhole`, `SupersessionIsAChain`,
  `RecallIsCurrentAndInScope`, `PositionsNameTheirVectors`.
- **chunks** (208,740; `Chunks`): every source of five pieces with a budget of
  three words, every answer of the model. `SpansTileTheSource`,
  `BudgetOpensNoStructure`, `CutToTheEnd`.
- **budget_serial** (13,945; `Budget`): three callers, three tiers, two prompts,
  one call in flight: `CeilingHolds`.
- **budget_concurrent** (82,738): up to three in flight, with a total that two
  calls exhaust: `OvershootBounded`, `CallOvershootBounded`,
  `NodeCallCeilingHolds`, `BranchFindsRoom`.
- **evals** (1,524,483; `Evaluation`): two strategies, two tasks, two judges, one
  retry, replies on and beyond the scale. `OutcomesAreGraded`,
  `CallsAreMetered`, `FindingFollowsFromTasks`.
- **sweep** (726,418; `CacheProof`): two paraphrases and two near-misses of two
  families, every scoring on four levels, a round trip of one of each, either
  rung for the second model, and two calls that fail or go without an embedding.
  `WarmIsAgainstCold`, `OnlyTheSameNamespaceHits`, `SeparableMeansAThreshold`,
  `SafestIsSafe`.

Runs that find what the repository says to be untrue (`PROJECT.json`,
"findings", has the quotations):

- **budget_race**: two nodes are admitted against the same remainder and
  together exceed the ceiling. `OvershootBounded` says by how much at most; the
  ceiling on calls is passed in the same way.
- **memory_models**: `_ensure_vector_index` rebuilds when ids differ. A store
  reopened with another embedder has the same ids, so it searches vectors of the
  old model with a query of the new one.

Behaviours met while modelling which no run claims either way, listed under
"hazards" with their lines: futures left running when `run()` raises
(`core/live_graph/core.py:158`), a child of a failed node that nobody ends
(`core.py:131`), a patch that cancels and resumes one node
(`core/live_graph/store.py:157`), a slice that a second call spends again
(`economics/budget.py:213`), a request whose `max_tokens` was not the one priced
(`economics/controller.py:165`), a weak outcome that flows into the distill
because another subject of the same slug took its retry, against "One retry per
subject" and "does NOT get to flow into compose" (`runtime.py:153`, `387`; the
subjects of a prompt are not deduplicated, 124), a distill that is shown the weak original it
replaced (`runtime.py:641`), an answer that does not see the file it was asked
to read (`runtime.py:521`), a search without usable links that stalls its run
(`runtime.py:442`), a failed call counted as "not served from the cache"
(`proofs/p6_cache_savings.py:262`), and a leak reported of the cache when `--tier`
picks the rung of the second model (`446`).

### Bounds

- Live graph: `MaxInvocations`, `MaxWorkers`, `MaxCompleted` and `Nodes`; since a
  planner event is planned once and task ids are never reused nothing else
  grows. `MaxCompleted` = 3 with three nodes is the code's `None` while calls
  do not overlap. The patch
  sets (`MCLiveGraph`) hold one patch of each shape that `apply_patch` treats
  differently. `AnswerNodes` = {3} makes the join the answer.
- `RunModes`: `FanOut` = 2 gives siblings that land in either order, one weak and
  one not; the code's 3 adds no rule. Two workers have them in flight together and
  let a third task wait; four, the code's default, are within the proofs. Two
  invocations are one crash and resume.
- Remote: `MaxFaults` = 1 over `MaxCrashes`, `MaxDrops` and the graph's crashes
  together; `PushAttempts` = 2 is the least that retries; `Mixed` = FALSE has a
  behaviour use the server either through the bridge or as another client, which
  share no state but the tasks. `MaxRev` covers every change that is possible.
- Memory: `MaxRecords` = 4 holds a fact, its successor and their audit entries,
  or two versions of a document; `MaxFaults`, `MaxCrashes`, `MaxChunks` as
  stated. Six records are needed for the violation only.
- Chunks: five pieces with a budget of three words make at least two blocks; a
  fence or table may begin before, at and after each end.
- Budget: a run ends when its money or its calls are exhausted, and a free call
  is stopped by `MaxCallsPerRun`.
- Evaluation: two attempts and two judges are the least with an escalation and a
  split panel. Sweep: four levels over four pairs give every order and every tie;
  with the threshold in the middle there are two on either side of it.

`CHECK_DEADLOCK FALSE` is set where the system stops: after the last call of
`run()`, when a source is cut, when a report is made, when the bound on records
is reached, when no request is due.

### Fairness

`FairSpec` of the live graph is weak fairness of each invocation's own steps and
of each coroutine's end. The first is the asyncio loop, which runs every
callback that is ready, and a planner that answers or raises: the deterministic
one does not wait, the other waits for a gateway call with a timeout (120 s,
`gateway.py:28`). The second is that workers end: the calls they await (gateway,
pages, search, embeddings, 10 to 180 s) have timeouts and the rest is local. New
calls of `run()` and crashes are not fair: nobody must resume a run.

`ServerFairness` is the same for the coroutines of the A2A server, whose handler
is such a worker and whose posts have a client timeout, and for `Boot`: a server
that stopped is started again. Requests, crashes and lost clients are not fair.
The bridge's own steps are weakly fair as steps of its process's loop. `Cutting`
and the fairness of `CostPerTask` are single loops in one coroutine.

## What is proved

TLAPS checks these for every value of the constants: any set of nodes, any
patches, any number of calls, workers and callers, any ladder and prices, any
number of remote tasks, restarts and lost requests, any tenants, documents and
failures of the memory, any source to chunk and answers of its model, any pairs
and similarities of the sweep, any tasks, rubric, panel and prices of the
evaluation.

`LiveGraphProofs`, the store:

- `TypeCorrect`. `TypeOK` alone is not inductive: the next event or result is
  taken with `CHOOSE` from a set, so it is strengthened by `ControlOK`, which
  says that a call that is planning has an event to plan and one that walks a
  batch has a result in it.
- `StoreSteps`: every step is one of the five transactions, made where the
  executor makes it, or leaves the store alone. The invariants of the store
  below are proved of these, once, and not of the twelve actions of the
  executor.
- `FinishedIsQuiescentAlways`: `Leftovers` empties the set of open nodes, and
  nothing opens one afterwards since `Accepts` refuses a finished graph.
- `OutcomesMatchStateAlways`: inductive as it stands, given the types; the
  lemmas say what appending a transaction does to the rows of a node. It covers
  overlapping calls.
- `StartedAfterParentsAlways`, for planners that connect only into nodes they
  add in the same patch (`ConnectsNewTasks`; true of the deterministic planner
  of `runtime.py`). A planner that connects into a running node breaks the
  property, and nothing in `apply_patch` prevents it.

`LiveGraphProofs`, the calls; the last three for calls of `run()` that do not overlap
(`~Overlapping`):

- `StopLeavesNothingBehindAlways`, for overlapping calls too: while a call is
  active, the outcomes it executed and the futures it holds together are
  `max_completed` at most. A launch keeps that because `ready` is asked for the
  room that is left (`FirstFew`), an outcome because it frees the future it is
  counted for.
- `LaunchesAreFresh`, for overlapping calls too: what a launch adds no call holds
  yet, so no two coroutines are counted as one. `FreshOK` says why: of a node
  that is pending, no future has the name of the latest call, since whatever made
  it pending again began a call.
- `RunningIsHeldInSeries` and `LateResultNeverAbortsInSeries`, from `SeriesOK`:
  it relates each future of the active call to the state of its node
  (`Matches`), says that calls that are not active hold none, and that no call
  was refused an outcome. The model checker agrees that it is an invariant of
  the instance of the crash run. Where calls overlap both properties are false.
- `ReturnLeavesNothingToDoInSeries`, from `PlanningOK`: the queue of the active
  call is the planner's events without a patch, and empty while the call
  launches, waits or walks a batch. With `SeriesOK`, a call that returns early
  has nothing to plan, nothing running and nothing ready.

`LiveGraphProofs`, decisions and the contract:

- `OnePatchPerEventAlways`. `OnePatchPerEvent` speaks of the events that have a
  patch; the invariant `PatchesOK` speaks of every number, so that it says the
  next row of the journal has none yet, and that a patch comes after its event.
  `QueueOK` keeps the events a call is to plan among the planner's.
- `KeepsContractAlways`: each of the five transactions is a step of
  `RunContract` or none, and nothing else touches what the contract sees.
  `EventsOK` (an event of the planner is alone in its transaction, the start is
  no node's and happens once) and the outcomes of `OutcomesMatchState` give
  what is needed for a patch: its event is of exactly one trigger, and that
  trigger was not decided before. It covers overlapping calls.

`RunProofs`, for all modes, any outcomes and crashes, as many calls and workers
as there may be:

- The setting (`Setting`): the nodes are the planner's, calls follow one another,
  and `Patches` is every patch there is. `RunSpec` does not read `Patches`; the
  value only says which live graph the run is shown to be. Two items at most are
  part of the model (`FanOut`).
- `Story` is the invariant: which tasks a mode may come to have (`CastOK`), that
  edges go down the layers of the plan (`EdgesOK`, so no cycle can close), what
  must have been decided before a task is there (`CausesOK`), and what must be
  there once something is decided (`FilesFollowed`, `EvidenceFollowed`,
  `EndFollowed`). It speaks of what is decided (`DecidedEvents`), not of what has
  settled, since a crash may fall between an outcome and its patch.
- The steps: tasks that start, stop and settle keep the story (`GoesKeeps`); for
  the outcome of each task a lemma says what the cascade of rules answers, and
  that applying it keeps the story (`RecallDecided`, `DistillDecided`, ...). The
  planner is asked about the one event that has no patch (`OnePending`,
  `PlanIsDue`), so all others are decided when it looks at the graph.
- `RunIsALiveGraph`: a run is a behaviour of the live graph, so what
  `LiveGraphProofs` says of any planner holds of it, `KeepsContract` too.
- The subjects may share a slug or not (`alike`); the story says of the retries
  that there is one for each slug at most, so what follows does not rest on a
  retry for every subject.
- `PlansAreAcceptedAlways`, `EvidenceIsEarnedAlways` and
  `ReplyMissesNothingAlways` follow from the invariant.
- `SuccessEndsFinishedAlways`, where `max_completed` is not used (its premise;
  `AgentRuntime` never sets it): a call comes back when nothing runs and nothing
  is ready (`NothingLeft`); then everything there is has succeeded, or the first
  layer that has not would be ready (`AllSucceeded`), and everything that
  succeeded was followed up to the end of the run (`WentToTheEnd`).

`ViewsProofs`, for any nodes, as many calls, crashes and resumes as there may be,
and every planner with two habits: a patch neither parks nor resumes what it cancels
(`CancelsForGood`), and a patch that finishes the run adds nothing
(`FinishAddsNothing`). Every patch written in the repository has them, those of
`runtime.py`, `official.py`, the proofs and the tests. What a model answers to
`planner.py` need not: neither `_parse` nor `apply_patch` asks for it, and
without the premises TLC finds the trace wrong in a few steps. A node that is
cancelled and parked in one patch is waiting, with a span that is closed; one
added by the patch that ends the run is cancelled in a row that comes before its
round.

- `SpanTree` and `DataModel` are recursive functions over a journal that grows.
  The invariant has the value of each for the journal there is: `OneTree` and
  `OneModel` say that exactly one function meets the recursive equation, and a
  transaction extends it by one value (`TreesGrow`, `ModelsGrow`). So the
  induction is the one over behaviours, and no rule of induction over data is
  needed.
- `TraceTellsTheRunAlways`, overlapping calls included. `TraceTellsTheRun` says
  nothing of how the walk looks up a round or an open span; `TreeOK` does (the
  `home` of a node is the round that added it, its `open` the start of its last
  span while it is open, 0 once it has ended). Each of the five transactions is a
  `Transaction` (`StepIsTransaction`): rows that start some nodes or end some, all
  in one state, to which the graph agrees (`NodesFollow`); and such a step keeps
  the tree (`TreeStep`).
- `ReplayShowsTheGraphInSeries`, while calls follow one another, which the order
  of decisions needs: an active call knows every pending event (`PlanningOK`) and
  takes the least, so that what is decided stays below what is pending
  (`InOrder`). What a client has of results needs no such premise (`ModelOK`).

`BudgetProofs`:

- `TypeCorrect`.
- `OvershootBoundedAlways`, if no caller overrides `max_tokens`
  (`Overriding = {}`). `OvershootBounded` is not inductive, for it says nothing
  of the calls still to be charged. The invariant `Exposure` does: of the calls
  in flight, one (the last admitted) may be counted at its own projection, the
  others at `CostBound`, and the total of that and the spend is within the
  limit. Admission establishes it, since it was held against the spend of that
  moment; an answer moves a call from one side of the sum to the other.
- `CeilingHoldsInSeries`: its instance for one call in flight.
- `CallOvershootBoundedAlways` and `NodeCallCeilingAlways`, from
  `CallExposure`: calls charged and in flight together.
- `BranchFindsRoomAlways`: what makes `decide` say "branch" is what makes the
  second decision, without a slice, find a tier.

`RemoteProofs`:

- `HandlersAlone`: the inductive invariant `HandlersInv`, with the range of
  `remote_ids`. `EndedStaysEnded` is about single steps, and which step may
  change the state of a task depends on who holds its handler. `Held` says it: a
  job works on a task that has not ended and never beside the task's request,
  no other coroutine has a handler, and a server that is down has no coroutine.
  `SettledHeld` and `NotifyHeld` carry it through the notification every change
  ends with, `OneTask` from one task to all; there is a lemma for each step of
  the server and `BridgeKeeps` for those of the bridge.
- `EndedStays`: `EndedStaysEnded`, from that invariant.
- `DeliveriesBoundedAlways`, from `DeliveryInv`. Attempts are counted in the
  ledger when a post begins and receipts in the webhook's inbox, so the
  invariant relates the two for each change, and says which change a coroutine
  that posts is at: one with an attempt left, not acknowledged, and no other
  coroutine's. It needs `HandlersInv` for the numbers to be taken one at a time.
- `LedgerHasEveryChange`: a task has no more changes than the ledger of the
  model has rows (`NumberInv`: a request makes three, each restart one), so the
  bound `MaxRev` leaves no notification out.
- `CompletionsAreAppliedAlways`, from `BridgeInv`. A completion is journalled
  in one transaction and applied in the next; `JournalledOK` says what holds
  between the two (the journal's row is this node's, and the result is in
  memory, unless that process crashed), `CompletionsOK` that any other
  completion is applied or came too late, `ResumedOK` that a resumed node has
  its result. Two deliveries of one completion may overlap.

`MemoryProofs`, the store:

- `DocumentsAreReplacedWholeAlways` and `SupersessionIsAChainAlways`, from
  `StoreOK`: the tables in memory and those on disk are whole (`TablesOK`), at
  every step of a write. `RowOK` relates a row to its document's versions,
  `ChainOK` a record to its heirs, `VersionsOK` a document's versions to each
  other and to their current chunks. Each write is a lemma about tables
  (`InsertKeeps`, `IngestedKeeps`, `ReembeddedKeeps`), so that the proofs for `db` and `disk` are
  one. Records without an audit entry are counted against the failures.
- `RecallIsCurrentAndInScopeAlways` and `PositionsNameTheirVectorsAlways`, from
  `SearchOK`, which adds the index in memory and its two files. `FilesOK` is the
  heart of the second: files that do not belong together come from a crash
  between the two, and are then told by their ids, which differ from the table's.

`MemoryProofs`, chunking:

- `Tiling`, from `ChunkInv`: what the loop has cut tiles the source up to
  `pending`. A step keeps it because a block ends after it starts and within
  the budget (`BlockIsWithin`, `NominalEndFits`), the words of adjoining spans add
  up but for one cut in two (`WordsOfParts`), and the last place the answer occurs at is in
  the block and has as many words as the answer.
- `StructureKept`: the same invariant says of every kept chunk that it opens
  nothing. `TableStart` is recursive; that its function exists, and that where
  it stops no table begun in the block goes on, is shown for the least place of
  which it would be false (`ClimbUpTo`, `ClimbAt`).
- `LoopAdvances`: every step moves `pending` forward, whatever the model
  answers; the rest of `CutToTheEnd` is fairness.

`CacheProofs`:

- `WarmIsAgainstColdAlways` and `OnlyTheSameNamespaceHitsAlways`, from `CacheOK`:
  the table of the cache holds, for each pair and each case still to be asked,
  nothing in that namespace, or its own first answer, which is missing only
  where the gateway went without an embedding (`TripsOK`, `CasesOK`, `Filled`).
  `TripsApart` and `SpacesDiffer` say which namespaces differ: all, but the first
  two cases' where the second rung is the one asked (`Lone`). `VerdictFilled` says
  what is found where there is one entry, `Touched` what a call may change,
  whether it replies or fails.
- `SeparableMeansAThresholdAlways` and `SafestIsSafeAlways`: no more of the state
  than that all pairs are scored (`ScoresOK`), but a good deal about the sweep
  (`PointIs`, `BestIs`, `KneeIs`): what the maximum over a lexicographic key
  and the steepest drop pick, for every grid that goes up (`GridAssumption`)
  and every set of pairs.

`EvaluationProofs`:

- A sum over a function is a fold, and the fold a recursive function on subsets.
  `FoldUpTo` and `FoldAdds` show that such a function exists, from the library's
  well-founded orders, and the rest follows for the smallest set of which it would
  be false: an element can be taken out first (`SumTake`), a sum grows by what a
  function is extended with (`SumPut`), `SumOfTwoValues`, `SumAtLeast`.
- `OutcomesAreGradedAlways` and `CallsAreMeteredAlways`, from `EvalOK`. `LoopOK`
  says where in the loop a reply is pending, so that its call is counted once;
  `GradedOK` says of the desk what the property says of attempts, since a verdict
  may be a remembered one, and that an attempt was charged exactly when it was
  answered; `RowsOK` says which rows are there. The model checker agrees that
  `EvalOK` is an invariant of the instance of the run.
- `FindingFollowsFromTasksAlways`, from the same invariant: at the end each
  strategy has one row for each task (`OneRowForEach`), so that its rows can be
  counted as tasks (`RowsAreTasks`). `BelowIsDearer` is the arithmetic of the
  rate: where B is cheaper per call, the rate is never the one capped at 1.

Assumed in the proofs are only the named assumptions on the constants, and the
premises stated in the theorems.

Only model-checked: the liveness properties `InvocationEnds`, `TasksEnd` and
`CutToTheEnd`, which are out of this prover's reach, as are ENABLED and the
induction rules that take an operator as parameter. Where induction over data was
needed it was had from the least element of a well-founded order, as for the sums
and the start of a table above, or from the behaviour itself, as for the views of
a run. There are no RECURSIVE operators.

## What is not modelled, and the plan

Left out for good: text, prompts, parsing, layout, signatures, generated
stubs, YAML, scripts. Reports (`snapshot`, `by_tier`, `context`) change nothing.

What would come next:

1. `BudgetedRun`: the composition of the executor and the budget as
   `runtime.py` wires them, with a resume that has no budget, and
   `MeteredTransport`, whose count of calls misses those cancelled in flight.
2. The approval of a surface (`ui/hitl.py`) against a run that goes on
   meanwhile, and the reconnecting stream of `ui/agui.py`.
3. Spans of calls with their costs against the ledger of the budget.

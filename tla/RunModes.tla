------------------------------ MODULE RunModes ------------------------------
(***************************************************************************)
(* AgentRuntime.run of runtime.py: the mode a request is given, the first  *)
(* frontier, and the DeterministicPlanner that grows the graph, driven by  *)
(* the LiveGraphExecutor over its GraphStore.                              *)
(*                                                                         *)
(* What the prompt and the workers contribute is chosen at the start: the  *)
(* mode, whether the user asked to remember something, how many items are  *)
(* listed, found or named (items), which researchers come back with weak   *)
(* evidence, and whether the subjects they look up share a slug (alike).   *)
(* Node ids are ranks in the order of the ids' text.                       *)
(***************************************************************************)
EXTENDS LiveGraphExecutor

CONSTANTS
  Modes,   \* the modes to look at
  FanOut   \* bound: items a request can spread over; MAX_RESULTS is 3

VARIABLES mode, explicit, items, weak, alike

params == <<mode, explicit, items, weak, alike>>

ASSUME FanOutAssumption == FanOut \in {2}

-----------------------------------------------------------------------------
(* Node ids. *)
Answer == 1
Content == 2
Distill == 3
Fetch == {4, 5}
Index == {6, 7}
IndexFile == 8
ListDirectory == 9
ReadFile == 10
Recall == 11
Remember == 12
Reminder == 13
Retry == {14, 15}
Search == 16
Research == {17, 18}
Surface == 19
Validate == 20

RunNodes == 1..20

Min(S) == CHOOSE n \in S : \A m \in S : n <= m

(* The first k nodes of a family: fetch_1 .. fetch_k. *)
Upto(k, family) == {n \in family : n < Min(family) + k}

ResearchModes == {"compose_research", "structured_compare", "parallel_search"}

AllModes == ResearchModes \cup
  {"index_directory", "index_file", "read_file", "birthday_reminder", "fetch",
   "search_fetch", "compose_answer", "memory"}

(* _work_intent: the first useful frontier of a mode. *)
Frontier ==
  CASE mode = "index_directory" -> {ListDirectory}
    [] mode = "index_file" -> {IndexFile}
    [] mode = "read_file" -> {ReadFile}
    [] mode \in {"birthday_reminder", "memory"} -> {Recall}
    [] mode = "fetch" -> Upto(items, Fetch)
    [] mode = "search_fetch" -> {Search}
    [] mode = "compose_answer" -> {Content}
    [] mode \in ResearchModes -> Upto(items, Research)

ItemsOf(m) ==
  CASE m \in ResearchModes -> {FanOut}
    [] m = "fetch" -> 1..FanOut
    [] m \in {"index_directory", "search_fetch"} -> 0..FanOut
    [] OTHER -> {0}

-----------------------------------------------------------------------------
(* Patches of the planner. *)
Nothing == [add |-> {}, connect |-> {}, cancel |-> {}, wait |-> {}, resume |-> {},
            finish |-> FALSE]

Finish == [Nothing EXCEPT !.finish = TRUE]

Add(children, parents) ==
  [Nothing EXCEPT !.add = children, !.connect = parents \X children]

Landed(S) == S # {} /\ \A n \in S : state[n] \in Terminal

\* Mutant of AnswerPatch: an answer that is there is added again.
AnswerAgain ==
  Add({Answer}, {n \in Existing \ {Answer} : state[n] = "succeeded"})

(* answer_patch: one answer, over everything that succeeded so far. *)
AnswerPatch ==
  IF Answer \in Existing THEN Nothing
  ELSE Add({Answer}, {n \in Existing : state[n] = "succeeded"})

(* The retry whose input says corrective_for search_i.  Its id is          *)
(* research_<slug of the subject>_retry: subjects are not deduplicated and *)
(* a name without a letter a-z or a digit has the slug "item", so the      *)
(* retries of two subjects may be one id, which is whichever came first.   *)
RetryOf(n) == Min(Retry) + n - Min(Research)

(* The researchers whose subject has the slug of n's. *)
Alike(n) == IF alike THEN Research ELSE {n}

(* _weak_evidence, and the one correction a weak outcome earns, unless its *)
(* id is in the graph.                                                     *)
EarnsRetry(n) ==
  n \in Research /\ n \in weak /\ \A m \in Alike(n) : RetryOf(m) \notin Existing

\* Mutant of Leaves: the weak original still counts beside its retry.
LeavesWithOriginals == Existing \cap (Research \cup Retry)

(* _research_leaf_ids: a retry supersedes the original it corrects. *)
Leaves ==
  {n \in Existing \cap (Research \cup Retry) :
     n \in Research => RetryOf(n) \notin Existing}

(* compose_answer: content, then a surface; either may fail for good. *)
ComposeAnswerRules(n, ok) == <<
  [when |-> n = Surface, patch |-> Finish],
  [when |-> n = Content /\ ok /\ Surface \notin Existing,
   patch |-> Add({Surface}, {Content})],
  [when |-> n = Content /\ ~ok, patch |-> Finish] >>

(* compose_research: research, corrected once per slug, then a distill,    *)
(* then a surface.                                                         *)
ComposeResearchRules(n, ok) == <<
  [when |-> n = Surface, patch |-> Finish],
  [when |-> n = Distill /\ ok /\ Surface \notin Existing,
   patch |-> Add({Surface}, Leaves \cup {Distill})],
  [when |-> ok /\ EarnsRetry(n), patch |-> Add({RetryOf(n)}, {})],
  [when |-> n \in Research \cup Retry /\ Distill \notin Existing /\ Landed(Leaves),
   patch |-> Add({Distill}, Leaves)],
  [when |-> n \in Research \cup Retry, patch |-> Nothing] >>

\* Mutant of IndexedAll: the first indexed file is enough.
IndexedSome(n) == mode = "index_directory" /\ n \in Index

IndexedAll(n) ==
  mode = "index_directory" /\ n \in Index /\ Landed(Existing \cap Index)

Evidence == IF Existing \cap Research = {} THEN Existing \cap Fetch
            ELSE Existing \cap Research

EvidenceModes == {"fetch", "search_fetch", "parallel_search", "structured_compare"}

\* Mutant of Found: an empty list of files or hits is not looked for.
FoundAny(family, parent) == Add(Upto(items, family), {parent})

(* The files listed, or the pages found, become tasks; without any the     *)
(* answer explains it.                                                     *)
Found(family, parent) ==
  IF items = 0 THEN AnswerPatch ELSE Add(Upto(items, family), {parent})

(* What every other mode shares, in the order of the code. *)
CommonRules(n, ok) ==
  LET landed == n \in Fetch \cup Research /\ Landed(Existing \cap (Fetch \cup Research))
      birthday == mode = "birthday_reminder"
  IN <<
  [when |-> n = IndexFile /\ ok, patch |-> Add({Recall}, {IndexFile})],
  [when |-> birthday /\ n = Remember /\ ok, patch |-> Add({Reminder}, {Remember})],
  [when |-> birthday /\ n = Reminder, patch |-> AnswerPatch],
  [when |-> birthday /\ n = Recall, patch |-> Nothing],
  [when |-> n = ReadFile, patch |-> AnswerPatch],
  [when |-> n = ListDirectory /\ ok, patch |-> Found(Index, ListDirectory)],
  [when |-> IndexedAll(n), patch |-> AnswerPatch],
  [when |-> n = Search /\ ok, patch |-> Found(Fetch, Search)],
  [when |-> n = Recall /\ mode = "index_file" /\ Distill \notin Existing,
   patch |-> Add({Distill}, {Recall})],
  [when |-> n = Recall, patch |-> AnswerPatch],
  [when |-> n = Distill /\ mode # "structured_compare", patch |-> AnswerPatch],
  [when |-> landed /\ mode \in EvidenceModes /\ Distill \notin Existing,
   patch |-> Add({Distill}, Evidence)],
  [when |-> landed, patch |-> AnswerPatch],
  [when |-> n = Distill, patch |-> Add({Validate}, {Distill})],
  [when |-> n = Validate, patch |-> AnswerPatch],
  [when |-> ~ok /\ n # Answer /\ Landed(Existing \ {Answer}), patch |-> AnswerPatch],
  [when |-> n = Answer, patch |-> Finish] >>

(* DeterministicPlanner.plan: the first rule that applies. *)
Decide(rules) ==
  LET applies == {k \in DOMAIN rules : rules[k].when}
  IN  IF applies = {} THEN Nothing ELSE rules[Min(applies)].patch

Plan(row) ==
  LET n == row.node
      ok == row.kind = "task_succeeded"
  IN  IF row.kind = "run_started"
      THEN Add(Frontier \cup (IF explicit THEN {Remember} ELSE {}), {})
      ELSE Decide((CASE mode = "compose_answer" -> ComposeAnswerRules(n, ok)
                     [] mode = "compose_research" -> ComposeResearchRules(n, ok)
                     [] OTHER -> <<>>)
                  \o CommonRules(n, ok))

EventRow(t) == CHOOSE r \in journal[t] : r.kind \in PlannerKinds

Planned(i) == Plan(EventRow(First(queue[i])))

-----------------------------------------------------------------------------
(* The researchers that come back weak; only a first outcome is looked at. *)
WeakOutcomes == IF mode = "compose_research" THEN SUBSET Research ELSE {{}}

(* A slug names a retry only: sharing one matters where all may earn one. *)
Likeness == IF Research \subseteq weak THEN BOOLEAN ELSE {FALSE}

RunInit ==
  /\ Init
  /\ mode \in Modes
  /\ explicit \in BOOLEAN
  /\ items \in ItemsOf(mode)
  /\ weak \in WeakOutcomes
  /\ alike \in Likeness

(* One call of run() at a time, each of them a resume but the first. *)
RunStep(i) ==
  \/ Begin(i)
  \/ Launch(i) \/ LaunchNothing(i) \/ WaitReturns(i)
  \/ \E t \in Futures : DropResult(i, t) \/ TakeOutcome(i, t)
  \/ PlanAnswers(i, Planned(i))

RunNext ==
  /\ \/ \E i \in Invocations : RunStep(i) \/ \E t \in Futures : Worker(i, t)
     \/ Crash
  /\ UNCHANGED params

RunSpec == RunInit /\ [][RunNext]_<<vars, params>>

-----------------------------------------------------------------------------
(* The worker of the answer: the nodes whose results it reads as evidence. *)
(* What a file that was read says is not among it, nor is what a search or *)
(* a researcher failed with: their branch looks at hits only.              *)
AnswerReads ==
  {n \in Existing :
     \/ /\ state[n] = "succeeded"
        /\ n \in {Recall, Remember, Search, IndexFile, Distill, Validate, Reminder}
                  \cup Fetch \cup Index \cup Research \cup Retry
     \/ state[n] = "failed" /\ n \notin {Search} \cup Research \cup Retry}

(* compose_surface: one item for each node that succeeded, the corrected   *)
(* one of a subject; a distill or a content goes into the summary.         *)
SurfaceItems ==
  {n \in Existing \ {Surface, Distill, Content, Answer} :
     state[n] = "succeeded" /\ (n \in Research \cup Retry => n \in Leaves)}

-----------------------------------------------------------------------------
(* answer_state of the reply, and the status it is given. *)
AnswerState == IF Answer \in Existing THEN state[Answer] ELSE state[Surface]

Status == IF AnswerState = "succeeded" THEN "completed" ELSE "failed"

(* apply_patch never refuses what the planner answers, in any mode, through*)
(* crashes and replays: no id twice, no edge to an unknown node, no patch  *)
(* for a finished run.                                                     *)
PlansAreAccepted ==
  \A i \in Invocations :
    pc[i] = "plan" /\ Unpatched(First(queue[i])) => Accepts(Planned(i))

(* A call that comes back without any failed node has an answer for its    *)
(* user: the run is finished and the reply says "completed".  The one      *)
(* request that has not is a birthday reminder without a fact to remember. *)
SuccessEndsFinished ==
  \A i \in Invocations :
    pc[i] = "returned" /\ ~(mode = "birthday_reminder" /\ ~explicit)
      => \/ \E n \in Nodes : state[n] = "failed"
         \/ finished /\ Status = "completed"

(* "A weak outcome does NOT get to flow into compose; it earns ONE         *)
(* corrective retry" (runtime.py, _weak_evidence), as far as it is true:   *)
(* what a distill of a compose_research run is connected to is one landed  *)
(* leaf for each subject, with one retry for a slug at most, and a weak    *)
(* first outcome is among it only if it failed, which earns nothing, or if *)
(* the subject that took the retry of its slug is another one.             *)
EvidenceIsEarned ==
  mode = "compose_research" /\ Distill \in Existing =>
    LET parents == {e[1] : e \in {e \in edges : e[2] = Distill}}
    IN  /\ Landed(parents)
        /\ \A n \in Research :
             /\ (n \in parents) # (RetryOf(n) \in parents)
             /\ \A m \in Alike(n) : {RetryOf(m), RetryOf(n)} \subseteq parents => m = n
        /\ \A n \in parents \cap weak :
             state[n] = "failed" \/ \E m \in Alike(n) : RetryOf(m) \in parents

(* What the reply is made of is settled when it is made, and all of it is  *)
(* read: while the answer or the surface runs only the memory skills may   *)
(* still be open, and those are all that finishing the run may cut off;    *)
(* the answer reads whatever succeeded, but for the list of a directory and*)
(* the file of a read, and every failure but one of a search; a surface of *)
(* researched items shows those that were distilled, one for each subject. *)
ReplyMissesNothing ==
  LET work == Existing \ {Answer, Surface, Recall, Remember}
      distilled == {n \in Research \cup Retry : <<n, Distill>> \in edges}
  IN  /\ \A n \in Nodes : state[n] = "cancelled" => n \in {Recall, Remember}
      /\ state[Answer] = "running" =>
           /\ work = {} \/ Landed(work)
           /\ work \subseteq AnswerReads \cup {ListDirectory, ReadFile, Search}
                             \cup {n \in Research \cup Retry : state[n] = "failed"}
      /\ state[Surface] = "running" /\ mode = "compose_research" =>
           /\ Landed(work)
           /\ SurfaceItems \ {Remember} = distilled
           /\ \A n \in Research : (n \in distilled) # (RetryOf(n) \in distilled)

=============================================================================

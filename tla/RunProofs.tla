----------------------------- MODULE RunProofs -----------------------------
(***************************************************************************)
(* Proofs about a run in every mode: what the planner decides and when.    *)
(***************************************************************************)
EXTENDS RunModes, LiveGraphProofs

(***************************************************************************)
(* The nodes are those of the planner, calls follow one another, and the   *)
(* live graph is taken with every patch there is.  The last is no limit:   *)
(* RunSpec does not look at Patches, which only bounds the planners of the *)
(* live graph that a run is shown to be.                                   *)
(***************************************************************************)
Setting ==
  Nodes = RunNodes /\ Modes \subseteq AllModes /\ Patches = GraphPatch /\ ~Overlapping

(* The names of nodes are numbers. *)
LEMMA Names ==
  /\ Answer = 1 /\ Content = 2 /\ Distill = 3 /\ IndexFile = 8 /\ ListDirectory = 9
  /\ ReadFile = 10 /\ Recall = 11 /\ Remember = 12 /\ Search = 16 /\ Surface = 19
  /\ Validate = 20 /\ Reminder = 13
  /\ Fetch = {4, 5} /\ Index = {6, 7} /\ Retry = {14, 15} /\ Research = {17, 18}
BY DEF Answer, Content, Distill, IndexFile, ListDirectory, ReadFile, Recall, Remember,
       Search, Surface, Validate, Reminder, Fetch, Index, Retry, Research

(* Every family is two nodes, of which the first so many take part; and    *)
(* every researcher has a retry that corrects it and no other.             *)
LEMMA Families ==
  /\ \A F \in {Fetch, Index, Research} :
       /\ Upto(0, F) = {}
       /\ \E n \in F : Upto(1, F) = {n}
       /\ Upto(2, F) = F
  /\ RetryOf(17) = 14 /\ RetryOf(18) = 15
<1>1. /\ Min({4, 5}) = 4 /\ Min({6, 7}) = 6 /\ Min({17, 18}) = 17 /\ Min({14, 15}) = 14
  <2>1. ASSUME NEW a \in Nat PROVE Min({a, a + 1}) = a
    BY DEF Min
  <2> QED  BY <2>1
<1>2. RetryOf(17) = 14 /\ RetryOf(18) = 15
  BY <1>1, Names DEF RetryOf
<1>3. ASSUME NEW F, NEW a \in Nat, F = {a, a + 1}, Min(F) = a
      PROVE  Upto(0, F) = {} /\ Upto(1, F) = {a} /\ Upto(2, F) = F
  BY <1>3 DEF Upto
<1> QED  BY <1>1, <1>2, <1>3, Names

-----------------------------------------------------------------------------
(* The planner takes the first rule that applies. *)
LEMMA FirstRule ==
  ASSUME NEW rules, NEW k \in DOMAIN rules, DOMAIN rules \subseteq Nat,
         rules[k].when, \A j \in DOMAIN rules : j < k => ~rules[j].when
  PROVE  Decide(rules) = rules[k].patch
<1> DEFINE applies == {j \in DOMAIN rules : rules[j].when}
<1>1. k \in applies /\ applies \subseteq Nat
  OBVIOUS
<1>2. \A j \in applies : k <= j
  OBVIOUS
<1> HIDE DEF applies
<1>3. Min(applies) = k
  BY <1>1, <1>2 DEF Min
<1>4. applies # {}
  BY <1>1
<1> QED  BY <1>3, <1>4 DEF Decide, applies

(* Without one it does nothing. *)
LEMMA NoRule ==
  ASSUME NEW rules, \A j \in DOMAIN rules : ~rules[j].when
  PROVE  Decide(rules) = Nothing
BY DEF Decide

-----------------------------------------------------------------------------
(***************************************************************************)
(* The story of a run: which tasks there are, which of their outcomes the  *)
(* planner has decided about, and what became of each decision.            *)
(***************************************************************************)
Settled == {n \in Nodes : state[n] \in {"succeeded", "failed"}}

(* The parameters of the run never change. *)
ParamsOK ==
  /\ mode \in AllModes /\ explicit \in BOOLEAN
  /\ items \in ItemsOf(mode) /\ weak \in WeakOutcomes /\ alike \in BOOLEAN

(* The tasks a run may come to have, but for Remember. *)
Cast ==
  CASE mode = "index_directory" -> {ListDirectory, Answer} \cup Index
    [] mode = "index_file" -> {IndexFile, Recall, Distill, Answer}
    [] mode = "read_file" -> {ReadFile, Answer}
    [] mode = "birthday_reminder" -> {Recall, Reminder, Answer}
    [] mode = "memory" -> {Recall, Answer}
    [] mode = "fetch" -> {Distill, Answer} \cup Fetch
    [] mode = "search_fetch" -> {Search, Distill, Answer} \cup Fetch
    [] mode = "compose_answer" -> {Content, Surface}
    [] mode = "compose_research" -> {Distill, Surface, Answer} \cup Research \cup Retry
    [] mode = "structured_compare" -> {Distill, Validate, Answer} \cup Research
    [] mode = "parallel_search" -> {Distill, Answer} \cup Research

CastOK == Existing \subseteq Cast \cup {Remember}

(* Work goes down the layers of the plan, so no cycle can close.           *)
Layer(n) ==
  CASE n \in {Reminder, Recall} \cup Index \cup Fetch -> 1
    [] n = Distill -> 2
    [] n \in {Validate, Surface} -> 3
    [] n = Answer -> 4
    [] OTHER -> 0

EdgesOK ==
  \A e \in edges :
    /\ e[1] \in Existing /\ e[2] \in Existing /\ Layer(e[1]) < Layer(e[2])
    /\ state[e[2]] \in {"running", "succeeded", "failed"} => state[e[1]] = "succeeded"

(* Nothing is parked, and nothing is cut off but by the end of the run,    *)
(* which cuts off the memory skills at most.                               *)
CutOK ==
  \A n \in Nodes : /\ state[n] # "waiting"
                   /\ state[n] = "cancelled" => finished /\ n \in {Recall, Remember}

(* What is decided has settled; before the start is, there is no task.     *)
StartOK ==
  /\ DecidedEvents \subseteq Settled \cup {NoNode}
  /\ IF NoNode \in DecidedEvents
     THEN Frontier \subseteq Existing /\ (Remember \in Existing <=> explicit)
     ELSE DecidedEvents = {} /\ Existing = {} /\ ~finished

Evidences == Existing \cap (Fetch \cup Research \cup Retry)

(* A task is there only once what it follows is decided. *)
CausesOK ==
  /\ Recall \in Existing /\ mode = "index_file" => IndexFile \in DecidedEvents
  /\ Reminder \in Existing => Remember \in DecidedEvents
  /\ Existing \cap Index # {} => ListDirectory \in DecidedEvents
  /\ Existing \cap Fetch # {} /\ mode = "search_fetch" => Search \in DecidedEvents
  /\ Validate \in Existing => Distill \in DecidedEvents
  /\ Distill \in Existing =>
       IF mode = "index_file" THEN Recall \in DecidedEvents
       ELSE Evidences # {} /\ Evidences \subseteq DecidedEvents
  /\ \A n \in Research : RetryOf(n) \in Existing => n \in DecidedEvents /\ n \in weak
  /\ alike => Retry \cap Existing # Retry

(* The planner decided about the success of n. *)
Went(n) == n \in DecidedEvents /\ state[n] = "succeeded"

(* What is decided has been followed up: tasks over files and memory, *)
FilesFollowed ==
  /\ mode = "index_directory" =>
       /\ Went(ListDirectory) =>
            IF items = 0 THEN Answer \in Existing ELSE Upto(items, Index) \subseteq Existing
       /\ Existing \cap Index # {} /\ Existing \cap Index \subseteq DecidedEvents
            => Answer \in Existing
  /\ Went(IndexFile) => Recall \in Existing
  /\ ReadFile \in DecidedEvents => Answer \in Existing
  /\ Recall \in DecidedEvents => /\ mode = "index_file" => Distill \in Existing
                                 /\ mode = "memory" => Answer \in Existing
  /\ mode = "birthday_reminder" => /\ Went(Remember) => Reminder \in Existing
                                   /\ Reminder \in DecidedEvents => Answer \in Existing

(* tasks that find evidence and judge it, *)
EvidenceFollowed ==
  /\ Went(Search) => IF items = 0 THEN Answer \in Existing
                     ELSE Upto(items, Fetch) \subseteq Existing
  /\ \A n \in Research \cap weak :
       Went(n) => RetryOf(n) \in Existing \/ (alike /\ Retry \cap Existing # {})
  /\ Evidences # {} /\ Evidences \subseteq DecidedEvents => Distill \in Existing
  /\ Distill \in DecidedEvents =>
       IF mode = "structured_compare" THEN Validate \in Existing
       ELSE IF mode = "compose_research" /\ state[Distill] = "succeeded"
            THEN Surface \in Existing
            ELSE Answer \in Existing
  /\ Validate \in DecidedEvents => Answer \in Existing

(* and those that end the run. *)
EndFollowed ==
  /\ Went(Content) => Surface \in Existing
  /\ finished <=> \/ Answer \in DecidedEvents \/ Surface \in DecidedEvents
                  \/ Content \in DecidedEvents /\ state[Content] = "failed"

(* The answer is asked for when all the work is decided, and so is a       *)
(* surface; only a memory skill may still be under way.                    *)
AnswerOK ==
  Answer \in Existing =>
    \A n \in Existing \ {Answer} :
      n \in DecidedEvents \/ n = IF mode = "birthday_reminder" THEN Recall ELSE Remember

SurfaceOK ==
  Surface \in Existing =>
    /\ Answer \notin Existing
    /\ Existing \ {Surface, Remember} \subseteq DecidedEvents
    /\ state[IF mode = "compose_answer" THEN Content ELSE Distill] = "succeeded"

(* A distill of researched evidence is over the leaves, which stay so. *)
DistillOK ==
  mode = "compose_research" /\ Distill \in Existing =>
    \A n \in Nodes : n \in Leaves <=> <<n, Distill>> \in edges

Story ==
  /\ CastOK /\ EdgesOK /\ CutOK /\ StartOK /\ CausesOK
  /\ FilesFollowed /\ EvidenceFollowed /\ EndFollowed
  /\ AnswerOK /\ SurfaceOK /\ DistillOK

-----------------------------------------------------------------------------
(***************************************************************************)
(* The steps of the story.  Between decisions tasks start and stop, and    *)
(* settle; a decision about e may add tasks, or end the run.               *)
(***************************************************************************)
Goes ==
  /\ \A n \in Nodes :
       \/ state'[n] = state[n]
       \/ /\ state[n] \in {"pending", "running"}
          /\ state'[n] \in {"pending", "running", "succeeded", "failed"}
          /\ ~finished
  /\ \A n \in Nodes : state'[n] \in {"running", "succeeded", "failed"} =>
       \/ state[n] \in {"running", "succeeded", "failed"}
       \/ ParentsSucceeded(n)
  /\ UNCHANGED <<edges, finished, DecidedEvents, params>>

(* The planner is about to decide about the outcome of e, the only one it  *)
(* has not decided about yet.                                              *)
Due(e) ==
  /\ ~finished /\ e \notin DecidedEvents
  /\ e \in Settled \cup {NoNode} /\ Settled \subseteq DecidedEvents \cup {e}

Adds(e, children, parents) ==
  /\ state' = [n \in Nodes |-> IF n \in children THEN "pending" ELSE state[n]]
  /\ edges' = edges \cup (parents \X children)
  /\ DecidedEvents' = DecidedEvents \cup {e}
  /\ UNCHANGED <<finished, params>>

Ends(e) ==
  /\ state' = [n \in Nodes |-> IF state[n] \in Open THEN "cancelled" ELSE state[n]]
  /\ finished'
  /\ DecidedEvents' = DecidedEvents \cup {e}
  /\ UNCHANGED <<edges, params>>

-----------------------------------------------------------------------------
(* What the rules that the modes share answer for the outcome of n; late   *)
(* is the answer to a failure that leaves nothing else to wait for.        *)
LEMMA CommonDecision ==
  ASSUME NEW n, NEW ok \in BOOLEAN
  PROVE  LET p == Decide(CommonRules(n, ok))
             late == IF ~ok /\ Landed(Existing \ {Answer}) THEN AnswerPatch ELSE Nothing
             landed == Landed(Existing \cap (Fetch \cup Research))
         IN  /\ n = IndexFile => p = IF ok THEN Add({Recall}, {IndexFile}) ELSE late
             /\ n = Remember => p = IF ok /\ mode = "birthday_reminder"
                                    THEN Add({Reminder}, {Remember}) ELSE late
             /\ n = Reminder /\ mode = "birthday_reminder" => p = AnswerPatch
             /\ n = Recall => p = IF mode = "birthday_reminder" THEN Nothing
                                  ELSE IF mode = "index_file" /\ Distill \notin Existing
                                       THEN Add({Distill}, {Recall}) ELSE AnswerPatch
             /\ n = ReadFile => p = AnswerPatch
             /\ n = ListDirectory => p = IF ok THEN Found(Index, ListDirectory) ELSE late
             /\ n \in Index /\ mode = "index_directory" =>
                  p = IF Landed(Existing \cap Index) THEN AnswerPatch ELSE late
             /\ n = Search => p = IF ok THEN Found(Fetch, Search) ELSE late
             /\ n = Distill => p = IF mode = "structured_compare"
                                   THEN Add({Validate}, {Distill}) ELSE AnswerPatch
             /\ n \in Fetch \cup Research =>
                  p = IF ~landed THEN late
                      ELSE IF mode \in EvidenceModes /\ Distill \notin Existing
                           THEN Add({Distill}, Evidence) ELSE AnswerPatch
             /\ n = Validate => p = AnswerPatch
             /\ n = Answer => p = Finish
<1> DEFINE rules == CommonRules(n, ok)
           landed == n \in Fetch \cup Research /\ Landed(Existing \cap (Fetch \cup Research))
           birthday == mode = "birthday_reminder"
           when(k) == rules[k].when
           does(k, p) == rules[k].patch = p
           all == Landed(Existing \ {Answer})
<1>1. DOMAIN rules = 1..17 /\ DOMAIN rules \subseteq Nat
  BY DEF CommonRules
<1>2. /\ when(1) <=> n = IndexFile /\ ok
      /\ when(2) <=> birthday /\ n = Remember /\ ok
      /\ when(3) <=> birthday /\ n = Reminder
      /\ when(4) <=> birthday /\ n = Recall
      /\ when(5) <=> n = ReadFile
      /\ when(6) <=> n = ListDirectory /\ ok
      /\ when(7) <=> IndexedAll(n)
      /\ when(8) <=> n = Search /\ ok
      /\ when(9) <=> n = Recall /\ mode = "index_file" /\ Distill \notin Existing
      /\ when(10) <=> n = Recall
      /\ when(11) <=> n = Distill /\ mode # "structured_compare"
      /\ when(12) <=> landed /\ mode \in EvidenceModes /\ Distill \notin Existing
      /\ when(13) <=> landed
      /\ when(14) <=> n = Distill
      /\ when(15) <=> n = Validate
      /\ when(16) <=> ~ok /\ n # Answer /\ all
      /\ when(17) <=> n = Answer
  BY DEF CommonRules
<1>3. /\ does(1, Add({Recall}, {IndexFile})) /\ does(2, Add({Reminder}, {Remember}))
      /\ does(4, Nothing) /\ does(6, Found(Index, ListDirectory)) /\ does(8, Found(Fetch, Search))
      /\ does(9, Add({Distill}, {Recall})) /\ does(12, Add({Distill}, Evidence))
      /\ does(14, Add({Validate}, {Distill})) /\ does(17, Finish)
  BY DEF CommonRules
<1>4. /\ does(3, AnswerPatch) /\ does(5, AnswerPatch) /\ does(7, AnswerPatch)
      /\ does(10, AnswerPatch) /\ does(11, AnswerPatch) /\ does(13, AnswerPatch)
      /\ does(15, AnswerPatch) /\ does(16, AnswerPatch)
  BY DEF CommonRules
<1> DEFINE p == Decide(rules)
           late == IF ~ok /\ all THEN AnswerPatch ELSE Nothing
<1>5. ASSUME NEW k \in 1..17, NEW q, when(k), does(k, q), \A j \in 1..17 : j < k => ~when(j)
      PROVE  p = q
  <2> HIDE DEF rules
  <2>1. p = rules[k].patch
    BY <1>1, <1>5, FirstRule
  <2> QED  BY <1>5, <2>1
<1>6. ASSUME \A j \in 1..17 : ~when(j)
      PROVE  p = Nothing
  <2> HIDE DEF rules
  <2> QED  BY <1>1, <1>6, NoRule
<1> HIDE DEF rules, when, does, landed, all
<1>7. ASSUME \A j \in 1..15 : ~when(j), n # Answer
      PROVE  p = late
  <2>1. CASE ~ok /\ all
    <3>1. when(16)
      BY <1>2, <1>7, <2>1
    <3> QED  BY <1>4, <1>5, <1>7, <2>1, <3>1
  <2>2. CASE ok \/ ~all
    BY <1>2, <1>6, <1>7, <2>2
  <2> QED  BY <2>1, <2>2
<1>8. ASSUME n = IndexFile
      PROVE  p = IF ok THEN Add({Recall}, {IndexFile}) ELSE late
  <2>1. n \notin {Remember, Reminder, Recall, ReadFile, ListDirectory, Search, Distill, Validate,
                  Answer}
                     \cup Fetch \cup Index \cup Research
    BY <1>8, Names
  <2>2. CASE ok
    <3>1. when(1) /\ \A j \in 1..17 : j < 1 => ~when(j)
      BY <1>2, <1>8, <2>1, <2>2 DEF landed, IndexedAll
    <3> QED  BY <1>3, <1>5, <1>8, <2>2, <3>1
  <2>3. CASE ~ok
    <3>1. \A j \in 1..15 : ~when(j)
      BY <1>2, <1>8, <2>1, <2>3 DEF landed, IndexedAll
    <3>2. p = late
      BY <1>7, <2>1, <3>1
    <3> QED  BY <1>8, <2>3, <3>2
  <2> QED  BY <2>2, <2>3
<1>9. ASSUME n = Remember
      PROVE  p = IF ok /\ birthday THEN Add({Reminder}, {Remember}) ELSE late
  <2>1. n \notin {IndexFile, Reminder, Recall, ReadFile, ListDirectory, Search, Distill,
                  Validate, Answer}
                     \cup Fetch \cup Index \cup Research
    BY <1>9, Names
  <2>2. CASE ok /\ birthday
    <3>1. when(2) /\ \A j \in 1..17 : j < 2 => ~when(j)
      BY <1>2, <1>9, <2>1, <2>2 DEF landed, IndexedAll
    <3> QED  BY <1>3, <1>5, <1>9, <2>2, <3>1
  <2>3. CASE ~ok \/ ~birthday
    <3>1. \A j \in 1..15 : ~when(j)
      BY <1>2, <1>9, <2>1, <2>3 DEF landed, IndexedAll
    <3>2. p = late
      BY <1>7, <2>1, <3>1
    <3> QED  BY <1>9, <2>3, <3>2
  <2> QED  BY <2>2, <2>3
<1>10. ASSUME n = Reminder, birthday
      PROVE  p = AnswerPatch
  <2>1. n \notin {IndexFile, Remember, Recall, ReadFile, ListDirectory, Search, Distill,
                  Validate, Answer}
                     \cup Fetch \cup Index \cup Research
    BY <1>10, Names
  <2>2. CASE TRUE
    <3>1. when(3) /\ \A j \in 1..17 : j < 3 => ~when(j)
      BY <1>2, <1>10, <2>1, <2>2 DEF landed, IndexedAll
    <3> QED  BY <1>4, <1>5, <1>10, <2>2, <3>1
  <2> QED  BY <2>2
<1>11. ASSUME n = Recall
      PROVE  p = IF birthday THEN Nothing
                 ELSE IF mode = "index_file" /\ Distill \notin Existing
                      THEN Add({Distill}, {Recall}) ELSE AnswerPatch
  <2>1. n \notin {IndexFile, Remember, Reminder, ReadFile, ListDirectory, Search, Distill,
                  Validate, Answer}
                     \cup Fetch \cup Index \cup Research
    BY <1>11, Names
  <2>2. CASE birthday
    <3>1. when(4) /\ \A j \in 1..17 : j < 4 => ~when(j)
      BY <1>2, <1>11, <2>1, <2>2 DEF landed, IndexedAll
    <3> QED  BY <1>3, <1>5, <1>11, <2>2, <3>1
  <2>3. CASE ~birthday /\ mode = "index_file" /\ Distill \notin Existing
    <3>1. when(9) /\ \A j \in 1..17 : j < 9 => ~when(j)
      BY <1>2, <1>11, <2>1, <2>3 DEF landed, IndexedAll
    <3> QED  BY <1>3, <1>5, <1>11, <2>3, <3>1
  <2>4. CASE ~birthday /\ ~(mode = "index_file" /\ Distill \notin Existing)
    <3>1. when(10) /\ \A j \in 1..17 : j < 10 => ~when(j)
      BY <1>2, <1>11, <2>1, <2>4 DEF landed, IndexedAll
    <3> QED  BY <1>4, <1>5, <1>11, <2>4, <3>1
  <2> QED  BY <2>2, <2>3, <2>4
<1>12. ASSUME n = ReadFile
      PROVE  p = AnswerPatch
  <2>1. n \notin {IndexFile, Remember, Reminder, Recall, ListDirectory, Search, Distill,
                  Validate, Answer}
                     \cup Fetch \cup Index \cup Research
    BY <1>12, Names
  <2>2. CASE TRUE
    <3>1. when(5) /\ \A j \in 1..17 : j < 5 => ~when(j)
      BY <1>2, <1>12, <2>1, <2>2 DEF landed, IndexedAll
    <3> QED  BY <1>4, <1>5, <1>12, <2>2, <3>1
  <2> QED  BY <2>2
<1>13. ASSUME n = ListDirectory
      PROVE  p = IF ok THEN Found(Index, ListDirectory) ELSE late
  <2>1. n \notin {IndexFile, Remember, Reminder, Recall, ReadFile, Search, Distill, Validate,
                  Answer}
                     \cup Fetch \cup Index \cup Research
    BY <1>13, Names
  <2>2. CASE ok
    <3>1. when(6) /\ \A j \in 1..17 : j < 6 => ~when(j)
      BY <1>2, <1>13, <2>1, <2>2 DEF landed, IndexedAll
    <3> QED  BY <1>3, <1>5, <1>13, <2>2, <3>1
  <2>3. CASE ~ok
    <3>1. \A j \in 1..15 : ~when(j)
      BY <1>2, <1>13, <2>1, <2>3 DEF landed, IndexedAll
    <3>2. p = late
      BY <1>7, <2>1, <3>1
    <3> QED  BY <1>13, <2>3, <3>2
  <2> QED  BY <2>2, <2>3
<1>14. ASSUME n \in Index, mode = "index_directory"
      PROVE  p = IF Landed(Existing \cap Index) THEN AnswerPatch ELSE late
  <2>1. n \notin {IndexFile, Remember, Reminder, Recall, ReadFile, ListDirectory, Search,
                  Distill, Validate, Answer}
                     \cup Fetch \cup Research
    BY <1>14, Names
  <2>2. CASE Landed(Existing \cap Index)
    <3>1. when(7) /\ \A j \in 1..17 : j < 7 => ~when(j)
      BY <1>2, <1>14, <2>1, <2>2 DEF landed, IndexedAll
    <3> QED  BY <1>4, <1>5, <1>14, <2>2, <3>1
  <2>3. CASE ~Landed(Existing \cap Index)
    <3>1. \A j \in 1..15 : ~when(j)
      BY <1>2, <1>14, <2>1, <2>3 DEF landed, IndexedAll
    <3>2. p = late
      BY <1>7, <2>1, <3>1
    <3> QED  BY <1>14, <2>3, <3>2
  <2> QED  BY <2>2, <2>3
<1>15. ASSUME n = Search
      PROVE  p = IF ok THEN Found(Fetch, Search) ELSE late
  <2>1. n \notin {IndexFile, Remember, Reminder, Recall, ReadFile, ListDirectory, Distill,
                  Validate, Answer}
                     \cup Fetch \cup Index \cup Research
    BY <1>15, Names
  <2>2. CASE ok
    <3>1. when(8) /\ \A j \in 1..17 : j < 8 => ~when(j)
      BY <1>2, <1>15, <2>1, <2>2 DEF landed, IndexedAll
    <3> QED  BY <1>3, <1>5, <1>15, <2>2, <3>1
  <2>3. CASE ~ok
    <3>1. \A j \in 1..15 : ~when(j)
      BY <1>2, <1>15, <2>1, <2>3 DEF landed, IndexedAll
    <3>2. p = late
      BY <1>7, <2>1, <3>1
    <3> QED  BY <1>15, <2>3, <3>2
  <2> QED  BY <2>2, <2>3
<1>16. ASSUME n = Distill
      PROVE  p = IF mode = "structured_compare"
                 THEN Add({Validate}, {Distill}) ELSE AnswerPatch
  <2>1. n \notin {IndexFile, Remember, Reminder, Recall, ReadFile, ListDirectory, Search,
                  Validate, Answer}
                     \cup Fetch \cup Index \cup Research
    BY <1>16, Names
  <2>2. CASE mode # "structured_compare"
    <3>1. when(11) /\ \A j \in 1..17 : j < 11 => ~when(j)
      BY <1>2, <1>16, <2>1, <2>2 DEF landed, IndexedAll
    <3> QED  BY <1>4, <1>5, <1>16, <2>2, <3>1
  <2>3. CASE mode = "structured_compare"
    <3>1. when(14) /\ \A j \in 1..17 : j < 14 => ~when(j)
      BY <1>2, <1>16, <2>1, <2>3 DEF landed, IndexedAll
    <3> QED  BY <1>3, <1>5, <1>16, <2>3, <3>1
  <2> QED  BY <2>2, <2>3
<1>17. ASSUME n \in Fetch \cup Research
      PROVE  p = IF ~Landed(Existing \cap (Fetch \cup Research)) THEN late
                 ELSE IF mode \in EvidenceModes /\ Distill \notin Existing
                      THEN Add({Distill}, Evidence) ELSE AnswerPatch
  <2>1. n \notin {IndexFile, Remember, Reminder, Recall, ReadFile, ListDirectory, Search,
                  Distill, Validate, Answer}
                     \cup Index
    BY <1>17, Names
  <2>2. CASE landed /\ mode \in EvidenceModes /\ Distill \notin Existing
    <3>1. when(12) /\ \A j \in 1..17 : j < 12 => ~when(j)
      BY <1>2, <1>17, <2>1, <2>2 DEF landed, IndexedAll
    <3> QED  BY <1>3, <1>5, <1>17, <2>2, <3>1 DEF landed
  <2>3. CASE landed /\ ~(mode \in EvidenceModes /\ Distill \notin Existing)
    <3>1. when(13) /\ \A j \in 1..17 : j < 13 => ~when(j)
      BY <1>2, <1>17, <2>1, <2>3 DEF landed, IndexedAll
    <3> QED  BY <1>4, <1>5, <1>17, <2>3, <3>1 DEF landed
  <2>4. CASE ~landed
    <3>1. \A j \in 1..15 : ~when(j)
      BY <1>2, <1>17, <2>1, <2>4 DEF landed, IndexedAll
    <3>2. p = late
      BY <1>7, <2>1, <3>1
    <3> QED  BY <1>17, <2>4, <3>2 DEF landed
  <2> QED  BY <2>2, <2>3, <2>4
<1>18. ASSUME n = Validate
      PROVE  p = AnswerPatch
  <2>1. n \notin {IndexFile, Remember, Reminder, Recall, ReadFile, ListDirectory, Search,
                  Distill, Answer}
                     \cup Fetch \cup Index \cup Research
    BY <1>18, Names
  <2>2. CASE TRUE
    <3>1. when(15) /\ \A j \in 1..17 : j < 15 => ~when(j)
      BY <1>2, <1>18, <2>1, <2>2 DEF landed, IndexedAll
    <3> QED  BY <1>4, <1>5, <1>18, <2>2, <3>1
  <2> QED  BY <2>2
<1>19. ASSUME n = Answer
      PROVE  p = Finish
  <2>1. n \notin {IndexFile, Remember, Reminder, Recall, ReadFile, ListDirectory, Search,
                  Distill, Validate}
                     \cup Fetch \cup Index \cup Research
    BY <1>19, Names
  <2>2. CASE TRUE
    <3>1. when(17) /\ \A j \in 1..17 : j < 17 => ~when(j)
      BY <1>2, <1>19, <2>1, <2>2 DEF landed, IndexedAll
    <3> QED  BY <1>3, <1>5, <1>19, <2>2, <3>1
  <2> QED  BY <2>2
<1> QED  BY <1>8, <1>9, <1>10, <1>11, <1>12, <1>13, <1>14, <1>15, <1>16, <1>17, <1>18, <1>19
     DEF rules, all

(***************************************************************************)
(* The rules of a composing mode come before those every mode shares.      *)
(***************************************************************************)
LEMMA RulesBefore ==
  ASSUME NEW S, NEW A \in Seq(S), NEW C \in Seq(S)
  PROVE  /\ \A k \in DOMAIN A :
              A[k].when /\ (\A j \in DOMAIN A : j < k => ~A[j].when)
                => Decide(A \o C) = A[k].patch
         /\ (\A j \in DOMAIN A : ~A[j].when) => Decide(A \o C) = Decide(C)
<1> DEFINE rules == A \o C
           a == Len(A)
           c == Len(C)
<1>1. /\ DOMAIN A = 1..a /\ DOMAIN C = 1..c /\ DOMAIN rules = 1..(a + c)
      /\ a \in Nat /\ c \in Nat
      /\ \A k \in 1..a : rules[k] = A[k]
      /\ \A k \in 1..c : rules[a + k] = C[k]
      /\ \A k \in 1..(a + c) : k > a => k - a \in 1..c /\ rules[k] = C[k - a]
  OBVIOUS
<1> HIDE DEF rules, a, c
<1>2. ASSUME NEW k \in DOMAIN A, A[k].when, \A j \in DOMAIN A : j < k => ~A[j].when
      PROVE  Decide(rules) = A[k].patch
  <2>1. k \in DOMAIN rules /\ DOMAIN rules \subseteq Nat /\ rules[k] = A[k]
    BY <1>1
  <2>2. rules[k].when
    BY <1>2, <2>1
  <2>3. \A j \in DOMAIN rules : j < k => ~rules[j].when
    BY <1>1, <1>2
  <2>4. Decide(rules) = rules[k].patch
    BY <2>1, <2>2, <2>3, FirstRule
  <2> QED  BY <2>1, <2>4
<1>3. ASSUME \A j \in DOMAIN A : ~A[j].when
      PROVE  Decide(rules) = Decide(C)
  <2>1. CASE \E k \in 1..c : C[k].when
    <3> DEFINE T == {k \in 1..c : C[k].when}
    <3>1. PICK k \in T : \A j \in T : k <= j
      <4>1. T # {}
        BY <2>1
      <4>2. T \in SUBSET Nat
        OBVIOUS
      <4> HIDE DEF T
      <4> QED  BY <4>1, <4>2, FirstIsLeast
    <3>2. k \in 1..c /\ C[k].when /\ \A j \in 1..c : j < k => ~C[j].when
      BY <3>1
    <3>3. Decide(C) = C[k].patch
      BY <1>1, <3>2, FirstRule
    <3>4. a + k \in DOMAIN rules /\ rules[a + k] = C[k] /\ DOMAIN rules \subseteq Nat
      BY <1>1, <3>2
    <3>5. \A j \in DOMAIN rules : j < a + k => ~rules[j].when
      <4> SUFFICES ASSUME NEW j \in DOMAIN rules, j < a + k PROVE ~rules[j].when
        OBVIOUS
      <4>1. CASE j \in 1..a
        BY <1>1, <1>3, <4>1
      <4>2. CASE j > a
        <5>1. j - a \in 1..c /\ rules[j] = C[j - a] /\ j - a < k
          BY <1>1, <3>2, <4>2
        <5> QED  BY <3>2, <5>1
      <4> QED  BY <1>1, <4>1, <4>2
    <3>6. rules[a + k].when
      BY <3>2, <3>4
    <3>7. Decide(rules) = rules[a + k].patch
      BY <3>4, <3>5, <3>6, FirstRule
    <3> QED  BY <3>3, <3>4, <3>7
  <2>2. CASE \A k \in 1..c : ~C[k].when
    <3>1. \A j \in DOMAIN rules : ~rules[j].when
      <4> SUFFICES ASSUME NEW j \in DOMAIN rules PROVE ~rules[j].when
        OBVIOUS
      <4>1. CASE j \in 1..a
        BY <1>1, <1>3, <4>1
      <4>2. CASE j > a
        BY <1>1, <2>2, <4>2
      <4> QED  BY <1>1, <4>1, <4>2
    <3>2. Decide(rules) = Nothing
      BY <3>1, NoRule
    <3>3. Decide(C) = Nothing
      BY <1>1, <2>2, NoRule
    <3> QED  BY <3>2, <3>3
  <2> QED  BY <2>1, <2>2
<1> QED  BY <1>2, <1>3 DEF rules

(* All the rules are in one set, so that lists of them can be joined. *)
LEMMA RulesAreLists ==
  ASSUME NEW n, NEW ok \in BOOLEAN
  PROVE  \E S : /\ ComposeAnswerRules(n, ok) \in Seq(S)
                /\ ComposeResearchRules(n, ok) \in Seq(S)
                /\ CommonRules(n, ok) \in Seq(S)
<1> DEFINE A == ComposeAnswerRules(n, ok)
           B == ComposeResearchRules(n, ok)
           C == CommonRules(n, ok)
           S == {A[k] : k \in 1..3} \cup {B[k] : k \in 1..5} \cup {C[k] : k \in 1..17}
<1>1. A = [k \in 1..3 |-> A[k]]
  BY DEF ComposeAnswerRules
<1>2. B = [k \in 1..5 |-> B[k]]
  BY DEF ComposeResearchRules
<1>3. C = [k \in 1..17 |-> C[k]]
  BY DEF CommonRules
<1> HIDE DEF A, B, C
<1>4. A \in [1..3 -> S] /\ B \in [1..5 -> S] /\ C \in [1..17 -> S]
  BY <1>1, <1>2, <1>3
<1> HIDE DEF S
<1>5. ASSUME NEW m \in Nat PROVE [1..m -> S] \subseteq Seq(S)
  OBVIOUS
<1>6. A \in Seq(S) /\ B \in Seq(S) /\ C \in Seq(S)
  BY <1>4, <1>5
<1> QED  BY <1>6 DEF A, B, C

(* What is decided while content and a surface are composed. *)
LEMMA ComposeAnswerDecision ==
  ASSUME NEW n, NEW ok \in BOOLEAN
  PROVE  LET rest == Decide(CommonRules(n, ok))
             p == Decide(ComposeAnswerRules(n, ok) \o CommonRules(n, ok))
         IN  /\ n = Surface => p = Finish
             /\ n = Content /\ ok /\ Surface \notin Existing => p = Add({Surface}, {Content})
             /\ n = Content /\ ~ok => p = Finish
             /\ n \notin {Surface, Content} => p = rest
<1> DEFINE A == ComposeAnswerRules(n, ok)
           C == CommonRules(n, ok)
           when(k) == A[k].when
           does(k, q) == A[k].patch = q
           p == Decide(A \o C)
<1>1. DOMAIN A = 1..3
  BY DEF ComposeAnswerRules
<1>2. /\ when(1) <=> n = Surface
      /\ when(2) <=> n = Content /\ ok /\ Surface \notin Existing
      /\ when(3) <=> n = Content /\ ~ok
  BY DEF ComposeAnswerRules
<1>3. does(1, Finish) /\ does(2, Add({Surface}, {Content})) /\ does(3, Finish)
  BY DEF ComposeAnswerRules
<1> HIDE DEF A, C
<1>4. PICK S : A \in Seq(S) /\ C \in Seq(S)
  BY RulesAreLists DEF A, C
<1>5. ASSUME NEW k \in 1..3, when(k), \A j \in 1..3 : j < k => ~when(j), NEW q, does(k, q)
      PROVE  p = q
  BY <1>1, <1>4, <1>5, RulesBefore
<1>6. ASSUME \A j \in 1..3 : ~when(j)
      PROVE  p = Decide(C)
  BY <1>1, <1>4, <1>6, RulesBefore
<1>7. Surface # Content
  BY Names
<1> HIDE DEF when, does, p
<1>8. n = Surface => p = Finish
  <2> SUFFICES ASSUME n = Surface PROVE p = Finish
    OBVIOUS
  <2>1. when(1) /\ \A j \in 1..3 : j < 1 => ~when(j)
    BY <1>2
  <2> QED  BY <1>3, <1>5, <2>1
<1>9. n = Content /\ ok /\ Surface \notin Existing => p = Add({Surface}, {Content})
  <2> SUFFICES ASSUME n = Content, ok, Surface \notin Existing
               PROVE  p = Add({Surface}, {Content})
    OBVIOUS
  <2>1. when(2) /\ \A j \in 1..3 : j < 2 => ~when(j)
    BY <1>2, <1>7
  <2> QED  BY <1>3, <1>5, <2>1
<1>10. n = Content /\ ~ok => p = Finish
  <2> SUFFICES ASSUME n = Content, ~ok PROVE p = Finish
    OBVIOUS
  <2>1. when(3) /\ \A j \in 1..3 : j < 3 => ~when(j)
    BY <1>2, <1>7
  <2> QED  BY <1>3, <1>5, <2>1
<1>11. n \notin {Surface, Content} => p = Decide(C)
  BY <1>2, <1>6
<1> QED  BY <1>8, <1>9, <1>10, <1>11 DEF p, A, C

(* What is decided while a surface is composed from research. *)
LEMMA ComposeResearchDecision ==
  ASSUME NEW n, NEW ok \in BOOLEAN
  PROVE  LET rest == Decide(CommonRules(n, ok))
             p == Decide(ComposeResearchRules(n, ok) \o CommonRules(n, ok))
         IN  /\ n = Surface => p = Finish
             /\ n = Distill =>
                  p = IF ok /\ Surface \notin Existing
                      THEN Add({Surface}, Leaves \cup {Distill}) ELSE rest
             /\ n \in Research \cup Retry =>
                  p = IF ok /\ EarnsRetry(n) THEN Add({RetryOf(n)}, {})
                      ELSE IF Distill \notin Existing /\ Landed(Leaves)
                           THEN Add({Distill}, Leaves) ELSE Nothing
             /\ n \notin {Surface, Distill} \cup Research \cup Retry => p = rest
<1> DEFINE A == ComposeResearchRules(n, ok)
           C == CommonRules(n, ok)
           when(k) == A[k].when
           does(k, q) == A[k].patch = q
           p == Decide(A \o C)
           landed == Landed(Leaves)
           earns == EarnsRetry(n)
<1>1. DOMAIN A = 1..5
  BY DEF ComposeResearchRules
<1>2. /\ when(1) <=> n = Surface
      /\ when(2) <=> n = Distill /\ ok /\ Surface \notin Existing
      /\ when(3) <=> ok /\ earns
      /\ when(4) <=> n \in Research \cup Retry /\ Distill \notin Existing /\ landed
      /\ when(5) <=> n \in Research \cup Retry
  BY DEF ComposeResearchRules
<1>3. /\ does(1, Finish) /\ does(2, Add({Surface}, Leaves \cup {Distill}))
      /\ does(3, Add({RetryOf(n)}, {})) /\ does(4, Add({Distill}, Leaves)) /\ does(5, Nothing)
  BY DEF ComposeResearchRules
<1> HIDE DEF A, C
<1>4. PICK S : A \in Seq(S) /\ C \in Seq(S)
  BY RulesAreLists DEF A, C
<1>5. ASSUME NEW k \in 1..5, when(k), \A j \in 1..5 : j < k => ~when(j), NEW q, does(k, q)
      PROVE  p = q
  BY <1>1, <1>4, <1>5, RulesBefore
<1>6. ASSUME \A j \in 1..5 : ~when(j)
      PROVE  p = Decide(C)
  BY <1>1, <1>4, <1>6, RulesBefore
<1>7. earns => n \in Research
  BY DEF EarnsRetry
<1>8. Surface # Distill /\ Surface \notin Research \cup Retry /\ Distill \notin Research \cup Retry
  BY Names
<1> HIDE DEF when, does, p, landed, earns
<1>9. n = Surface => p = Finish
  <2> SUFFICES ASSUME n = Surface PROVE p = Finish
    OBVIOUS
  <2>1. when(1) /\ \A j \in 1..5 : j < 1 => ~when(j)
    BY <1>2
  <2> QED  BY <1>3, <1>5, <2>1
<1>10. ASSUME n = Distill
       PROVE  p = IF ok /\ Surface \notin Existing
                  THEN Add({Surface}, Leaves \cup {Distill}) ELSE Decide(C)
  <2>1. CASE ok /\ Surface \notin Existing
    <3>1. when(2) /\ \A j \in 1..5 : j < 2 => ~when(j)
      BY <1>2, <1>8, <1>10, <2>1
    <3> QED  BY <1>3, <1>5, <2>1, <3>1
  <2>2. CASE ~(ok /\ Surface \notin Existing)
    <3>1. \A j \in 1..5 : ~when(j)
      BY <1>2, <1>7, <1>8, <1>10, <2>2
    <3> QED  BY <1>6, <2>2, <3>1
  <2> QED  BY <2>1, <2>2
<1>11. ASSUME n \in Research \cup Retry
       PROVE  p = IF ok /\ earns THEN Add({RetryOf(n)}, {})
                  ELSE IF Distill \notin Existing /\ landed
                       THEN Add({Distill}, Leaves) ELSE Nothing
  <2>1. CASE ok /\ earns
    <3>1. when(3) /\ \A j \in 1..5 : j < 3 => ~when(j)
      BY <1>2, <1>8, <1>11, <2>1
    <3> QED  BY <1>3, <1>5, <2>1, <3>1
  <2>2. CASE ~(ok /\ earns) /\ Distill \notin Existing /\ landed
    <3>1. when(4) /\ \A j \in 1..5 : j < 4 => ~when(j)
      BY <1>2, <1>8, <1>11, <2>2
    <3> QED  BY <1>3, <1>5, <2>2, <3>1
  <2>3. CASE ~(ok /\ earns) /\ ~(Distill \notin Existing /\ landed)
    <3>1. when(5) /\ \A j \in 1..5 : j < 5 => ~when(j)
      BY <1>2, <1>8, <1>11, <2>3
    <3> QED  BY <1>3, <1>5, <2>3, <3>1
  <2> QED  BY <2>1, <2>2, <2>3
<1>12. ASSUME n \notin {Surface, Distill} \cup Research \cup Retry
       PROVE  p = Decide(C)
  BY <1>2, <1>6, <1>7, <1>12
<1> QED  BY <1>9, <1>10, <1>11, <1>12 DEF p, A, C, landed, earns

(* What the planner is triggered by, and answers, for the outcome of e.    *)
Kind(e) ==
  IF e = NoNode THEN "run_started"
  ELSE IF state[e] = "succeeded" THEN "task_succeeded" ELSE "task_failed"

Decision(e) == Plan(Row(Kind(e), e))

Here == StoreTypeOK /\ Nodes = RunNodes /\ ParamsOK /\ Story

(* Tasks that can be added under their parents: new, and further down.     *)
Fitting(children, parents) ==
  /\ children \subseteq (Cast \cup {Remember}) \ Existing
  /\ parents \subseteq Existing
  /\ \A p \in parents, n \in children : Layer(p) < Layer(n)

Kept(e) ==
  \/ Decision(e) = Nothing /\ (Adds(e, {}, {}) => Story')
  \/ Decision(e) = Finish /\ (Ends(e) => Story')
  \/ \E children, parents :
       /\ Decision(e) = Add(children, parents) /\ Fitting(children, parents)
       /\ Adds(e, children, parents) => Story'

-----------------------------------------------------------------------------
(* The tasks are nodes, and no task is the start. *)
LEMMA CastIsNodes ==
  ASSUME Nodes = RunNodes, ParamsOK
  PROVE  Cast \cup {Remember} \subseteq Nodes /\ NoNode \notin Nodes
<1>1. NoNode \notin Nodes
  BY DEF RunNodes, NoNode
<1>2. \A n \in {Answer, Content, Distill, IndexFile, ListDirectory, ReadFile, Recall, Remember,
                Reminder, Search, Surface, Validate} \cup Fetch \cup Index \cup Retry \cup Research :
        n \in Nodes
  BY Names DEF RunNodes
<1>3. mode \in AllModes
  BY DEF ParamsOK
<1> QED  BY <1>1, <1>2, <1>3 DEF Cast, AllModes, ResearchModes

(* While a run goes on its tasks have landed when they are decided, or     *)
(* just about to be.                                                       *)
LEMMA Landing ==
  ASSUME Here, NEW e, Due(e), NEW S \in SUBSET Existing
  PROVE  Landed(S) <=> S # {} /\ S \subseteq DecidedEvents \cup {e}
<1>1. NoNode \notin Nodes
  BY CastIsNodes DEF Here
<1>2. Existing \subseteq Nodes
  BY DEF Existing
<1>3. ASSUME NEW n \in S PROVE state[n] \in Terminal <=> n \in DecidedEvents \cup {e}
  <2>1. n \in Nodes /\ n # NoNode
    BY <1>1, <1>2
  <2>2. state[n] # "cancelled"
    BY <2>1 DEF Here, Story, CutOK, Due
  <2>3. n \in Settled <=> state[n] \in Terminal
    BY <2>1, <2>2 DEF Settled, Terminal
  <2>4. n \in DecidedEvents \cup {e} => n \in Settled
    BY <2>1 DEF Here, Story, StartOK, Due
  <2> QED  BY <2>3, <2>4 DEF Due
<1> QED  BY <1>3 DEF Landed

(* What the addition of tasks does to the graph. *)
LEMMA Added ==
  ASSUME Here, NEW e, Due(e), NEW children, NEW parents,
         Fitting(children, parents), Adds(e, children, parents)
  PROVE  /\ Existing' = Existing \cup children
         /\ \A n \in Nodes : state'[n] = IF n \in children THEN "pending" ELSE state[n]
         /\ children \cap (DecidedEvents \cup {e}) = {}
         /\ edges' = edges \cup (parents \X children)
         /\ DecidedEvents' = DecidedEvents \cup {e} /\ ~finished /\ ~finished'
         /\ mode' = mode /\ items' = items /\ weak' = weak /\ explicit' = explicit /\ alike' = alike
<1>1. children \subseteq Nodes /\ NoNode \notin Nodes /\ children \cap Existing = {}
  BY CastIsNodes DEF Here, Fitting
<1>2. \A n \in Nodes : state'[n] = IF n \in children THEN "pending" ELSE state[n]
  BY DEF Adds
<1>3. Existing' = Existing \cup children
  BY <1>1, <1>2 DEF Existing
<1>4. children \cap (DecidedEvents \cup {e}) = {}
  <2>1. DecidedEvents \cup {e} \subseteq Settled \cup {NoNode}
    BY DEF Here, Story, StartOK, Due
  <2>2. Settled \subseteq Existing
    BY DEF Settled, Existing
  <2> QED  BY <1>1, <2>1, <2>2
<1>5. ~finished /\ ~finished'
  BY DEF Due, Adds
<1> QED  BY <1>2, <1>3, <1>4, <1>5 DEF Adds, params

(* The parts of the story that any addition keeps. *)
LEMMA AddedKeeps ==
  ASSUME Here, NEW e, Due(e), NEW children, NEW parents,
         Fitting(children, parents), Adds(e, children, parents)
  PROVE  CastOK' /\ EdgesOK' /\ CutOK' /\ (e # NoNode /\ Remember \notin children => StartOK')
<1>1. /\ Existing' = Existing \cup children
      /\ \A n \in Nodes : state'[n] = IF n \in children THEN "pending" ELSE state[n]
      /\ children \cap (DecidedEvents \cup {e}) = {}
      /\ edges' = edges \cup (parents \X children)
      /\ DecidedEvents' = DecidedEvents \cup {e} /\ ~finished /\ ~finished'
      /\ mode' = mode /\ items' = items /\ weak' = weak /\ explicit' = explicit /\ alike' = alike
  BY Added
<1>2. children \subseteq Nodes /\ NoNode \notin Nodes /\ Existing \subseteq Nodes
  BY CastIsNodes DEF Here, Fitting, Existing
<1>3. CastOK'
  <2>1. Cast' = Cast
    BY <1>1 DEF Cast
  <2> QED  BY <1>1, <2>1 DEF CastOK, Here, Story, Fitting
<1>4. EdgesOK'
  <2> SUFFICES ASSUME NEW d \in edges'
               PROVE  /\ d[1] \in Existing' /\ d[2] \in Existing' /\ Layer(d[1]) < Layer(d[2])
                      /\ state'[d[2]] \in {"running", "succeeded", "failed"}
                           => state'[d[1]] = "succeeded"
    BY DEF EdgesOK, Layer
  <2>1. CASE d \in edges
    <3>1. /\ d[1] \in Existing /\ d[2] \in Existing /\ Layer(d[1]) < Layer(d[2])
          /\ state[d[2]] \in {"running", "succeeded", "failed"} => state[d[1]] = "succeeded"
      BY <2>1 DEF Here, Story, EdgesOK
    <3> HIDE DEF Layer
    <3> QED  BY <1>1, <1>2, <3>1 DEF Fitting
  <2>2. CASE d \in parents \X children
    <3>1. d[1] \in parents /\ d[2] \in children
      BY <2>2
    <3> HIDE DEF Layer
    <3>2. Layer(d[1]) < Layer(d[2]) /\ d[1] \in Existing
      BY <3>1 DEF Fitting
    <3> QED  BY <1>1, <1>2, <3>1, <3>2
  <2> QED  BY <1>1, <2>1, <2>2
<1>5. CutOK'
  BY <1>1 DEF CutOK, Here, Story
<1>6. ASSUME e # NoNode, Remember \notin children PROVE StartOK'
  <2>1. e \in Settled
    BY <1>6 DEF Due
  <2>2. NoNode \in DecidedEvents
    BY <2>1 DEF Here, Story, StartOK, Settled, Existing
  <2>3. Settled' = Settled
    BY <1>1, <1>2 DEF Settled, Fitting, Existing
  <2>4. Frontier' = Frontier
    BY <1>1 DEF Frontier, Upto
  <2>5. Frontier \subseteq Existing /\ (Remember \in Existing <=> explicit)
    BY <2>2 DEF Here, Story, StartOK
  <2> QED  BY <1>1, <1>6, <2>1, <2>2, <2>3, <2>4, <2>5 DEF StartOK, Here, Story
<1> QED  BY <1>3, <1>4, <1>5, <1>6

(* The end of the run cuts off a memory skill at most. *)
LEMMA Ending ==
  ASSUME Here, NEW e, Due(e), Ends(e),
         e \in {Answer, Surface} \/ (e = Content /\ state[e] = "failed")
  PROVE  Story'
<1>1. /\ \A n \in Nodes : state'[n] = IF state[n] \in Open THEN "cancelled" ELSE state[n]
      /\ finished' /\ DecidedEvents' = DecidedEvents \cup {e} /\ edges' = edges
      /\ mode' = mode /\ items' = items /\ weak' = weak /\ explicit' = explicit /\ alike' = alike
  BY DEF Ends, params
<1>2. /\ e # NoNode /\ NoNode \notin Nodes /\ e \in Settled /\ e \in Existing
      /\ Existing \subseteq Nodes
  BY CastIsNodes, Names DEF Here, Due, NoNode, Settled, Existing
<1>3. Existing' = Existing /\ Settled' = Settled
  BY <1>1 DEF Existing, Settled, Open
<1>4. \A n \in Nodes : (state'[n] \in {"succeeded", "failed"} \/ state[n] \in {"succeeded", "failed"})
                         => state'[n] = state[n]
  BY <1>1 DEF Open
<1>5. Existing \subseteq DecidedEvents \cup {e, Recall, Remember}
  <2>1. CASE e = Answer
    BY <1>2, <2>1, Names DEF Here, Story, AnswerOK
  <2>2. CASE e = Surface
    BY <1>2, <2>2, Names DEF Here, Story, SurfaceOK
  <2>3. CASE e = Content /\ state[e] = "failed"
    <3>1. mode = "compose_answer"
      BY <1>2, <2>3, Names DEF Here, Story, CastOK, Cast, ParamsOK, AllModes, ResearchModes
    <3>2. Surface \notin Existing
      BY <2>3, <3>1 DEF Here, Story, SurfaceOK
    <3>3. Existing \subseteq {Content, Surface, Remember}
      BY <3>1 DEF Here, Story, CastOK, Cast
    <3> QED  BY <2>3, <3>2, <3>3
  <2> QED  BY <2>1, <2>2, <2>3
<1>6. CastOK'
  <2>1. Cast' = Cast
    BY <1>1 DEF Cast
  <2> QED  BY <1>3, <2>1 DEF CastOK, Here, Story
<1>7. EdgesOK'
  <2> SUFFICES ASSUME NEW d \in edges
               PROVE  /\ d[1] \in Existing' /\ d[2] \in Existing' /\ Layer(d[1]) < Layer(d[2])
                      /\ state'[d[2]] \in {"running", "succeeded", "failed"}
                           => state'[d[1]] = "succeeded"
    BY <1>1 DEF EdgesOK, Layer
  <2>1. /\ d[1] \in Existing /\ d[2] \in Existing /\ Layer(d[1]) < Layer(d[2])
        /\ state[d[2]] \in {"running", "succeeded", "failed"} => state[d[1]] = "succeeded"
    BY DEF Here, Story, EdgesOK
  <2> HIDE DEF Layer
  <2>2. d[1] \in Nodes /\ d[2] \in Nodes
    BY <1>2, <2>1
  <2> QED  BY <1>1, <1>3, <2>1, <2>2 DEF Open
<1>8. CutOK'
  <2> SUFFICES ASSUME NEW n \in Nodes
               PROVE  state'[n] # "waiting" /\ (state'[n] = "cancelled" => n \in {Recall, Remember})
    BY <1>1 DEF CutOK
  <2>1. ~finished /\ state[n] # "waiting" /\ state[n] # "cancelled"
    BY DEF Here, Story, CutOK, Due
  <2>2. n \in DecidedEvents \cup {e} => n \in Settled
    BY <1>2 DEF Here, Story, StartOK
  <2>3. state[n] \in Open => n \in Existing /\ n \notin Settled
    BY DEF Open, Existing, Settled
  <2> QED  BY <1>1, <1>5, <2>1, <2>2, <2>3 DEF Open
<1>9. StartOK'
  <2>1. NoNode \in DecidedEvents
    BY <1>2 DEF Here, Story, StartOK
  <2>2. Frontier' = Frontier
    BY <1>1 DEF Frontier, Upto
  <2> QED  BY <1>1, <1>2, <1>3, <2>1, <2>2 DEF StartOK, Here, Story
<1>10. \A n \in DecidedEvents \cup {e} : n \in Nodes => state'[n] = state[n]
  BY <1>2, <1>4 DEF Here, Story, StartOK, Settled
<1>11. ASSUME NEW CONSTANT n \in Nodes, n # e
       PROVE  Went(n)' <=> Went(n)
  BY <1>1, <1>10, <1>11 DEF Went
<1>12. /\ \A n \in {Distill, IndexFile, ListDirectory, Recall, Remember,
                    Search} \cup Research : n \in Nodes
       /\ e \notin {Distill, IndexFile, ListDirectory, ReadFile, Recall, Remember, Search,
                    Reminder, Validate}
                     \cup Research \cup Fetch \cup Retry \cup Index
  BY Names DEF Here, RunNodes
<1>13. CausesOK'
  BY <1>1, <1>3 DEF CausesOK, Evidences, Here, Story
<1>14. FilesFollowed'
  <2>1. Upto(items, Index)' = Upto(items, Index)
    BY <1>1 DEF Upto
  <2> QED
    BY <1>1, <1>3, <1>11, <1>12, <2>1 DEF FilesFollowed, Here, Story
<1>15. EvidenceFollowed'
  <2>1. Upto(items, Fetch)' = Upto(items, Fetch) /\ Evidences' = Evidences
    BY <1>1, <1>3 DEF Upto, Evidences
  <2>2. Distill \in DecidedEvents' => Distill \in DecidedEvents /\ state'[Distill] = state[Distill]
    BY <1>1, <1>10, <1>12
  <2>3. Evidences \subseteq DecidedEvents' => Evidences \subseteq DecidedEvents
    BY <1>1, <1>12 DEF Evidences
  <2> QED
    BY <1>1, <1>3, <1>11, <1>12, <2>1, <2>2, <2>3 DEF EvidenceFollowed, Here, Story
<1>16. EndFollowed'
  <2>1. Content \in Nodes
    BY Names DEF Here, RunNodes
  <2>2. Went(Content)' => Went(Content)
    BY <1>1, <1>10, <1>11, <2>1, <1>2, Names DEF Went
  <2> QED  BY <1>1, <1>2, <1>3, <1>4, <1>10, <2>1, <2>2, Names DEF EndFollowed, Here, Story
<1>17. AnswerOK' /\ SurfaceOK'
  <2>1. \A n \in {Content,
                  Distill} : n \in Nodes /\ (state[n] = "succeeded" => state'[n] = "succeeded")
    BY <1>4, Names DEF Here, RunNodes
  <2> QED  BY <1>1, <1>3, <2>1 DEF AnswerOK, SurfaceOK, Here, Story
<1>18. DistillOK'
  BY <1>1, <1>3 DEF DistillOK, Leaves, RetryOf, Here, Story
<1> QED  BY <1>6, <1>7, <1>8, <1>9, <1>13, <1>14, <1>15, <1>16, <1>17, <1>18 DEF Story

(* What is decided about the end of a task, in the modes with no rules of  *)
(* their own and in those that compose.                                    *)
LEMMA DecisionOf ==
  ASSUME NEW e, e # NoNode
  PROVE  LET ok == state[e] = "succeeded"
         IN  /\ mode = "compose_answer" =>
                  Decision(e) = Decide(ComposeAnswerRules(e, ok) \o CommonRules(e, ok))
             /\ mode = "compose_research" =>
                  Decision(e) = Decide(ComposeResearchRules(e, ok) \o CommonRules(e, ok))
             /\ mode \notin {"compose_answer", "compose_research"} =>
                  Decision(e) = Decide(CommonRules(e, ok))
<1> DEFINE ok == state[e] = "succeeded"
           row == Row(Kind(e), e)
           A == ComposeAnswerRules(e, ok)
           B == ComposeResearchRules(e, ok)
           C == CommonRules(e, ok)
<1>1. row.node = e /\ row.kind # "run_started" /\ (row.kind = "task_succeeded") = ok
  BY DEF Row, Kind
<1>2. Decision(e) = Decide((CASE mode = "compose_answer" -> A
                              [] mode = "compose_research" -> B
                              [] OTHER -> <<>>) \o C)
  BY <1>1 DEF Decision, Plan
<1>3. ok \in BOOLEAN
  OBVIOUS
<1> HIDE DEF ok
<1>4. PICK S : C \in Seq(S)
  BY <1>3, RulesAreLists
<1> HIDE DEF A, B, C
<1>5. <<>> \o C = C
  BY <1>4
<1> QED  BY <1>2, <1>5 DEF A, B, C, ok

(* No task is added when nothing is decided. *)
LEMMA Idling ==
  ASSUME Here, NEW e, Due(e), e \notin {NoNode, Answer, Surface, Content},
         Decision(e) = Nothing,
         Adds(e, {}, {}) => FilesFollowed' /\ EvidenceFollowed'
  PROVE  Kept(e)
<1> DEFINE none == {}
<1>0. none \X none = none /\ none = {}
  OBVIOUS
<1> HIDE DEF none
<1>1. Fitting(none, none)
  BY <1>0 DEF Fitting
<1>2. SUFFICES ASSUME Adds(e, none, none) PROVE Story'
  BY <1>0 DEF Kept
<1>3. /\ Existing' = Existing
      /\ \A n \in Nodes : state'[n] = state[n]
      /\ edges' = edges
      /\ DecidedEvents' = DecidedEvents \cup {e} /\ ~finished /\ ~finished'
      /\ mode' = mode /\ items' = items /\ weak' = weak /\ explicit' = explicit /\ alike' = alike
  <2>1. edges \cup (none \X none) = edges /\ Existing \cup none = Existing
    BY <1>0
  <2>2. /\ Existing' = Existing \cup none
        /\ \A n \in Nodes : state'[n] = IF n \in none THEN "pending" ELSE state[n]
        /\ edges' = edges \cup (none \X none)
        /\ DecidedEvents' = DecidedEvents \cup {e} /\ ~finished /\ ~finished'
        /\ mode' = mode /\ items' = items /\ weak' = weak /\ explicit' = explicit /\ alike' = alike
    BY <1>1, <1>2, Added
  <2> QED  BY <1>0, <2>1, <2>2
<1>4. CastOK' /\ EdgesOK' /\ CutOK' /\ StartOK'
  BY <1>0, <1>1, <1>2, AddedKeeps
<1>5. CausesOK'
  BY <1>3 DEF CausesOK, Evidences, Here, Story
<1>6. EndFollowed'
  <2>1. Content \in Nodes
    BY Names DEF Here, RunNodes
  <2> QED  BY <1>3, <2>1 DEF EndFollowed, Went, Here, Story
<1>7. AnswerOK' /\ SurfaceOK'
  <2>1. Content \in Nodes /\ Distill \in Nodes
    BY Names DEF Here, RunNodes
  <2> QED  BY <1>3, <2>1 DEF AnswerOK, SurfaceOK, Here, Story
<1>8. DistillOK'
  BY <1>3 DEF DistillOK, Leaves, RetryOf, Here, Story
<1>9. FilesFollowed' /\ EvidenceFollowed'
  BY <1>0, <1>2
<1> QED  BY <1>4, <1>5, <1>6, <1>7, <1>8, <1>9 DEF Story

(* Work is added before there is an answer or a surface. *)
LEMMA Growing ==
  ASSUME Here, NEW e, Due(e), e \notin {NoNode, Answer, Surface, Content},
         NEW children, NEW parents,
         Decision(e) = Add(children, parents), Fitting(children, parents),
         (Existing \cup children) \cap {Answer, Surface} = {}, Remember \notin children,
         Adds(e, children, parents) => CausesOK' /\ FilesFollowed' /\ EvidenceFollowed' /\ DistillOK'
  PROVE  Kept(e)
<1>1. SUFFICES ASSUME Adds(e, children, parents) PROVE Story'
  BY DEF Kept
<1>2. /\ Existing' = Existing \cup children
      /\ \A n \in Nodes : state'[n] = IF n \in children THEN "pending" ELSE state[n]
      /\ children \cap (DecidedEvents \cup {e}) = {}
      /\ DecidedEvents' = DecidedEvents \cup {e} /\ ~finished /\ ~finished'
      /\ mode' = mode
  BY <1>1, Added
<1>3. CastOK' /\ EdgesOK' /\ CutOK' /\ StartOK'
  BY <1>1, AddedKeeps
<1>4. EndFollowed'
  <2>1. Content \in Nodes
    BY Names DEF Here, RunNodes
  <2> QED  BY <1>2, <2>1 DEF EndFollowed, Went, Here, Story
<1>5. AnswerOK' /\ SurfaceOK'
  BY <1>2 DEF AnswerOK, SurfaceOK
<1> QED  BY <1>1, <1>3, <1>4, <1>5 DEF Story

(* The answer is asked for when the work is done. *)
LEMMA Answering ==
  ASSUME Here, NEW e, Due(e), e \notin {NoNode, Answer, Surface, Content},
         Decision(e) = AnswerPatch, Answer \in Cast, Existing \cap {Answer, Surface} = {},
         Existing \subseteq DecidedEvents
           \cup {e, IF mode = "birthday_reminder" THEN Recall ELSE Remember},
         \A parents : Fitting({Answer}, parents) /\ Adds(e, {Answer}, parents)
                        => FilesFollowed' /\ EvidenceFollowed'
  PROVE  Kept(e)
<1> DEFINE parents == {n \in Existing : state[n] = "succeeded"}
<1>1. Decision(e) = Add({Answer}, parents)
  BY DEF AnswerPatch
<1>2. Fitting({Answer}, parents)
  <2>1. ASSUME NEW p \in parents PROVE Layer(p) < Layer(Answer)
    <3>1. p # Answer
      OBVIOUS
    <3>2. Layer(Answer) = 4 /\ Layer(p) \in 0..3
      BY <3>1, Names DEF Layer
    <3> HIDE DEF Layer
    <3> QED  BY <3>2
  <2> QED  BY <2>1 DEF Fitting
<1> HIDE DEF parents
<1>3. SUFFICES ASSUME Adds(e, {Answer}, parents) PROVE Story'
  BY <1>1, <1>2 DEF Kept
<1>4. /\ Existing' = Existing \cup {Answer}
      /\ \A n \in Nodes : state'[n] = IF n = Answer THEN "pending" ELSE state[n]
      /\ Answer \notin DecidedEvents \cup {e}
      /\ edges' = edges \cup (parents \X {Answer})
      /\ DecidedEvents' = DecidedEvents \cup {e} /\ ~finished /\ ~finished'
      /\ mode' = mode /\ items' = items /\ weak' = weak /\ explicit' = explicit /\ alike' = alike
  BY <1>2, <1>3, Added
<1>5. CastOK' /\ EdgesOK' /\ CutOK' /\ StartOK'
  <2>1. Remember \notin {Answer}
    BY Names
  <2> QED  BY <1>2, <1>3, <2>1, AddedKeeps
<1>6. CausesOK'
  <2>1. \A n \in Research : RetryOf(n) # Answer
    BY Names, Families
  <2>2. Evidences' = Evidences
    BY <1>4, Names DEF Evidences
  <2> QED  BY <1>4, <2>1, <2>2, Names DEF CausesOK, RetryOf, Here, Story
<1>7. EndFollowed'
  <2>1. Content \in Nodes
    BY Names DEF Here, RunNodes
  <2> QED  BY <1>4, <2>1 DEF EndFollowed, Went, Here, Story
<1>8. AnswerOK' /\ SurfaceOK'
  BY <1>4, Names DEF AnswerOK, SurfaceOK
<1>9. DistillOK'
  <2>1. Leaves' = Leaves
    <3>1. \A n \in Research : RetryOf(n) # Answer
      BY Names, Families
    <3> QED  BY <1>4, <3>1, Names DEF Leaves, RetryOf
  <2>2. Distill # Answer
    BY Names
  <2>3. \A n \in Nodes : <<n, Distill>> \in edges' <=> <<n, Distill>> \in edges
    BY <1>4, <2>2
  <2> QED  BY <1>4, <2>1, <2>2, <2>3 DEF DistillOK, Here, Story
<1>10. FilesFollowed' /\ EvidenceFollowed'
  BY <1>2, <1>3
<1> QED  BY <1>5, <1>6, <1>7, <1>8, <1>9, <1>10 DEF Story

(* The modes a task belongs to. *)
LEMMA ModeOf ==
  ASSUME Here
  PROVE  /\ ListDirectory \in Existing => mode = "index_directory"
         /\ Existing \cap Index # {} => mode = "index_directory"
         /\ IndexFile \in Existing => mode = "index_file"
         /\ ReadFile \in Existing => mode = "read_file"
         /\ Reminder \in Existing => mode = "birthday_reminder"
         /\ Recall \in Existing => mode \in {"index_file", "birthday_reminder", "memory"}
         /\ Existing \cap Fetch # {} => mode \in {"fetch", "search_fetch"}
         /\ Search \in Existing => mode = "search_fetch"
         /\ Existing \cap Research # {} => mode \in ResearchModes
         /\ Existing \cap Retry # {} => mode = "compose_research"
         /\ Distill \in Existing => mode \in {"index_file", "fetch",
                                              "search_fetch"} \cup ResearchModes
         /\ Validate \in Existing => mode = "structured_compare"
         /\ Content \in Existing => mode = "compose_answer"
         /\ Surface \in Existing => mode \in {"compose_answer", "compose_research"}
         /\ Answer \in Existing => mode # "compose_answer"
<1>1. mode \in AllModes /\ Existing \subseteq Cast \cup {Remember}
  BY DEF Here, ParamsOK, Story, CastOK
<1>2. ASSUME NEW n \in Existing
      PROVE  /\ n = ListDirectory => mode = "index_directory"
             /\ n \in Index => mode = "index_directory"
             /\ n = IndexFile => mode = "index_file"
             /\ n = ReadFile => mode = "read_file"
             /\ n = Reminder => mode = "birthday_reminder"
             /\ n = Recall => mode \in {"index_file", "birthday_reminder", "memory"}
             /\ n \in Fetch => mode \in {"fetch", "search_fetch"}
             /\ n = Search => mode = "search_fetch"
             /\ n \in Research => mode \in ResearchModes
             /\ n \in Retry => mode = "compose_research"
             /\ n = Distill => mode \in {"index_file", "fetch", "search_fetch"} \cup ResearchModes
             /\ n = Validate => mode = "structured_compare"
             /\ n = Content => mode = "compose_answer"
             /\ n = Surface => mode \in {"compose_answer", "compose_research"}
             /\ n = Answer => mode # "compose_answer"
  BY <1>1, Names DEF Cast, AllModes, ResearchModes
<1> QED  BY <1>2

(* A task that is due is there, not decided, and the start has been.       *)
LEMMA DueTask ==
  ASSUME Here, NEW e, Due(e), e # NoNode
  PROVE  /\ e \in Nodes /\ e \in Existing /\ e \notin DecidedEvents /\ ~finished
         /\ state[e] \in {"succeeded", "failed"}
         /\ NoNode \in DecidedEvents /\ Frontier \subseteq Existing
         /\ (Remember \in Existing <=> explicit)
         /\ DecidedEvents \subseteq Existing \cup {NoNode}
         /\ \A n \in DecidedEvents : n # NoNode => state[n] \in {"succeeded", "failed"}
BY DEF Here, Due, Story, StartOK, Settled, Existing

(* A decision that adds nothing is all that changes. *)
LEMMA AddedNothing ==
  ASSUME Here, NEW e, Due(e), Adds(e, {}, {})
  PROVE  /\ Existing' = Existing /\ DecidedEvents' = DecidedEvents \cup {e}
         /\ mode' = mode /\ items' = items /\ weak' = weak /\ alike' = alike
         /\ \A n \in Nodes : state'[n] = state[n]
<1> DEFINE none == {}
<1>1. none = {}
  OBVIOUS
<1>2. Fitting(none, none)
  BY DEF Fitting
<1>3. Adds(e, none, none)
  OBVIOUS
<1> HIDE DEF none
<1>4. /\ Existing' = Existing \cup none
      /\ \A n \in Nodes : state'[n] = IF n \in none THEN "pending" ELSE state[n]
      /\ none \cap (DecidedEvents \cup {e}) = {}
      /\ edges' = edges \cup (none \X none)
      /\ DecidedEvents' = DecidedEvents \cup {e} /\ ~finished /\ ~finished'
      /\ mode' = mode /\ items' = items /\ weak' = weak /\ explicit' = explicit /\ alike' = alike
  BY <1>2, <1>3, Added
<1>5. Existing \cup none = Existing /\ \A n \in Nodes : n \notin none
  BY <1>1
<1>6. \A n \in Nodes : state'[n] = state[n]
  BY <1>4, <1>5
<1> QED  BY <1>4, <1>5, <1>6

(* A task other than a memory skill is due before there is an answer or a  *)
(* surface.                                                                *)
LEMMA BeforeTheEnd ==
  ASSUME Here, NEW e, Due(e), e \notin {NoNode, Answer, Surface, Recall, Remember}
  PROVE  Existing \cap {Answer, Surface} = {}
<1>1. e \in Existing /\ e \notin DecidedEvents
  BY DueTask
<1> QED  BY <1>1, Names DEF Here, Story, AnswerOK, SurfaceOK

(* Under a failure that is decided last, the answer explains it. *)
LEMMA Late ==
  ASSUME Here, NEW e, Due(e), e \notin {NoNode, Answer, Surface, Content},
         Decision(e) = IF state[e] # "succeeded" /\ Landed(Existing \ {Answer})
                       THEN AnswerPatch ELSE Nothing,
         Adds(e, {}, {}) => FilesFollowed' /\ EvidenceFollowed',
         \A parents : Fitting({Answer}, parents) /\ Adds(e, {Answer}, parents)
                        => FilesFollowed' /\ EvidenceFollowed'
  PROVE  Kept(e)
<1>1. CASE Decision(e) = Nothing
  BY <1>1, Idling
<1>2. CASE Decision(e) = AnswerPatch /\ Landed(Existing \ {Answer}) /\ Answer \in Existing
  <2>1. Decision(e) = Nothing
    BY <1>2 DEF AnswerPatch
  <2> QED  BY <2>1, Idling
<1>3. CASE Decision(e) = AnswerPatch /\ Landed(Existing \ {Answer}) /\ Answer \notin Existing
  <2>1. Existing \subseteq DecidedEvents \cup {e} /\ Frontier \subseteq Existing /\ ~finished
        /\ \A n \in DecidedEvents : n # NoNode => state[n] \in {"succeeded", "failed"}
    BY <1>3, Landing, DueTask
  <2>2. Surface \notin Existing
    BY <2>1 DEF Here, Story, EndFollowed
  <2>3. mode # "compose_answer"
    <3> SUFFICES ASSUME mode = "compose_answer" PROVE FALSE
      OBVIOUS
    <3>1. Content \in Existing /\ Content # NoNode
      BY <2>1, Names DEF Frontier, ResearchModes, NoNode
    <3>2. Content \in DecidedEvents /\ state[Content] \in {"succeeded", "failed"}
      BY <2>1, <3>1
    <3>3. state[Content] = "succeeded" => Surface \in Existing
      BY <3>2 DEF Here, Story, EndFollowed, Went
    <3>4. state[Content] = "failed" => finished
      BY <3>2 DEF Here, Story, EndFollowed
    <3> QED  BY <2>1, <2>2, <3>2, <3>3, <3>4
  <2>4. Answer \in Cast
    BY <2>3 DEF Here, ParamsOK, AllModes, ResearchModes, Cast
  <2>5. Existing \cap {Answer, Surface} = {}
    BY <1>3, <2>2
  <2> QED  BY <1>3, <2>1, <2>4, <2>5, Answering
<1> QED  BY <1>1, <1>2, <1>3

(* What any decision that adds at most an answer leaves to be followed up: *)
(* nothing, after the failure of a task of this kind.                      *)
LEMMA FailureFollowed ==
  ASSUME Here, NEW e, Due(e), e \in {ListDirectory, IndexFile, Search, Remember},
         state[e] = "succeeded" => e = Remember /\ mode # "birthday_reminder",
         NEW children, children \subseteq {Answer}, NEW parents,
         Fitting(children, parents), Adds(e, children, parents)
  PROVE  FilesFollowed' /\ EvidenceFollowed'
<1>1. /\ Existing' = Existing \cup children
      /\ \A n \in Nodes : state'[n] = IF n \in children THEN "pending" ELSE state[n]
      /\ children \cap (DecidedEvents \cup {e}) = {}
      /\ DecidedEvents' = DecidedEvents \cup {e}
      /\ mode' = mode /\ items' = items /\ weak' = weak /\ alike' = alike
  BY Added
<1>2. /\ \A n \in {ListDirectory, IndexFile, Search, Remember, Distill} \cup Research : n \in Nodes
      /\ Answer \notin {ListDirectory, IndexFile, Search, Remember,
                        Distill} \cup Research \cup Index
  BY Names DEF Here, RunNodes
<1>3. FilesFollowed'
  <2>1. Upto(items, Index)' = Upto(items, Index) /\ Existing' \cap Index = Existing \cap Index
    BY <1>1, <1>2 DEF Upto
  <2> QED
    BY <1>1, <1>2, <2>1, Names DEF FilesFollowed, Went, Here, Story
<1>4. EvidenceFollowed'
  <2>1. Upto(items, Fetch)' = Upto(items, Fetch) /\ Evidences' = Evidences
    BY <1>1, Names DEF Upto, Evidences
  <2>2. e \notin Evidences
    BY Names DEF Evidences
  <2>3. \A n \in Research : RetryOf(n)' = RetryOf(n)
    BY DEF RetryOf
  <2> QED
    BY <1>1, <1>2, <2>1, <2>2, <2>3, Names DEF EvidenceFollowed, Went, Here, Story
<1> QED  BY <1>3, <1>4

(* The failures that nothing more than an answer can follow; and what was  *)
(* remembered, where no one waits for it.                                  *)
LEMMA FailureDecided ==
  ASSUME Here, NEW e, Due(e), e \in {ListDirectory, IndexFile, Search, Remember},
         state[e] = "succeeded" => e = Remember /\ mode # "birthday_reminder"
  PROVE  Kept(e)
<1>1. e \notin {NoNode, Answer, Surface, Content}
  BY Names DEF NoNode
<1>2. e \notin {Surface, Distill, Content} \cup Research \cup Retry
  BY Names
<1> DEFINE ok == state[e] = "succeeded"
<1>3. Decision(e) = Decide(CommonRules(e, ok))
  <2>1. /\ mode = "compose_answer" =>
             Decision(e) = Decide(ComposeAnswerRules(e, ok) \o CommonRules(e, ok))
        /\ mode = "compose_research" =>
             Decision(e) = Decide(ComposeResearchRules(e, ok) \o CommonRules(e, ok))
        /\ mode \notin {"compose_answer", "compose_research"} =>
             Decision(e) = Decide(CommonRules(e, ok))
    BY <1>1, DecisionOf
  <2>2. Decide(ComposeAnswerRules(e, ok) \o CommonRules(e, ok)) = Decide(CommonRules(e, ok))
    BY <1>2, ComposeAnswerDecision
  <2>3. Decide(ComposeResearchRules(e, ok) \o CommonRules(e, ok)) = Decide(CommonRules(e, ok))
    BY <1>2, ComposeResearchDecision
  <2> QED  BY <2>1, <2>2, <2>3
<1>4. Decision(e) = IF ~ok /\ Landed(Existing \ {Answer}) THEN AnswerPatch ELSE Nothing
  <2>1. ok \in BOOLEAN
    OBVIOUS
  <2> HIDE DEF ok
  <2>2. e \in {ListDirectory, IndexFile, Search} => ~ok
    BY Names DEF ok
  <2>3. ok => mode # "birthday_reminder"
    BY DEF ok
  <2> QED  BY <1>3, <2>1, <2>2, <2>3, CommonDecision
<1>5. Adds(e, {}, {}) => FilesFollowed' /\ EvidenceFollowed'
  <2>1. Fitting({}, {})
    BY DEF Fitting
  <2> QED  BY <2>1, FailureFollowed
<1>6. ASSUME NEW parents, Fitting({Answer}, parents), Adds(e, {Answer}, parents)
      PROVE  FilesFollowed' /\ EvidenceFollowed'
  BY <1>6, FailureFollowed
<1> QED  BY <1>1, <1>4, <1>5, <1>6, Late

(* A task of a mode without rules of its own. *)
LEMMA CommonOf ==
  ASSUME NEW e, e # NoNode, mode \notin {"compose_answer", "compose_research"}
  PROVE  Decision(e) = Decide(CommonRules(e, state[e] = "succeeded"))
BY DecisionOf

(* The files listed become tasks. *)
LEMMA ListDirectoryDecided ==
  ASSUME Here, Due(ListDirectory)
  PROVE  Kept(ListDirectory)
<1> DEFINE e == ListDirectory
<1>1. CASE state[e] # "succeeded"
  BY <1>1, FailureDecided
<1>2. CASE state[e] = "succeeded"
  <2>1. e \notin {NoNode, Answer, Surface, Content, Recall, Remember}
    BY Names DEF NoNode
  <2>2. e \in Existing /\ e \notin DecidedEvents /\ mode = "index_directory"
        /\ Existing \cap {Answer, Surface} = {} /\ e \in Nodes
    BY <2>1, DueTask, ModeOf, BeforeTheEnd
  <2>3. Existing \subseteq {e, Remember} /\ Existing \cap Index = {}
    BY <2>2, Names DEF Here, Story, CastOK, Cast, CausesOK
  <2>4. Decision(e) = Found(Index, e)
    BY <1>2, <2>1, <2>2, CommonOf, CommonDecision
  <2>5. CASE items = 0
    <3>1. Decision(e) = AnswerPatch /\ Answer \in Cast
      BY <2>2, <2>4, <2>5 DEF Found, Cast
    <3>2. ASSUME NEW parents, Fitting({Answer}, parents), Adds(e, {Answer}, parents)
          PROVE  FilesFollowed' /\ EvidenceFollowed'
      <4>1. /\ Existing' = Existing \cup {Answer} /\ DecidedEvents' = DecidedEvents \cup {e}
            /\ mode' = mode /\ items' = items /\ weak' = weak /\ alike' = alike
            /\ \A n \in Nodes : state'[n] = IF n \in {Answer} THEN "pending" ELSE state[n]
        BY <3>2, Added
      <4>2. DecidedEvents \subseteq Existing \cup {NoNode}
        BY <2>1, DueTask
      <4> QED
        BY <2>2, <2>3, <2>5, <4>1, <4>2, Names
           DEF FilesFollowed, EvidenceFollowed, Went, Evidences, NoNode
    <3> QED  BY <2>1, <2>2, <2>3, <3>1, <3>2, Answering
  <2>6. CASE items # 0
    <3> DEFINE children == Upto(items, Index)
    <3>1. Decision(e) = Add(children, {e})
      BY <2>4, <2>6 DEF Found
    <3>2. children \subseteq Index
      BY DEF Upto
    <3>3. Fitting(children, {e})
      <4>1. children \subseteq Cast
        BY <2>2, <3>2 DEF Cast
      <4>2. Layer(e) = 0
        BY Names DEF Layer
      <4>3. \A n \in children : Layer(n) = 1
        BY <3>2, Names DEF Layer
      <4> HIDE DEF Layer, children
      <4> QED  BY <2>2, <2>3, <3>2, <4>1, <4>2, <4>3 DEF Fitting
    <3>4. (Existing \cup children) \cap {Answer, Surface} = {} /\ Remember \notin children
      BY <2>2, <3>2, Names
    <3> HIDE DEF children
    <3>5. ASSUME Adds(e, children, {e})
          PROVE  CausesOK' /\ FilesFollowed' /\ EvidenceFollowed' /\ DistillOK'
      <4>1. /\ Existing' = Existing \cup children /\ DecidedEvents' = DecidedEvents \cup {e}
            /\ mode' = mode /\ items' = items /\ weak' = weak /\ alike' = alike
            /\ \A n \in Nodes : state'[n] = IF n \in children THEN "pending" ELSE state[n]
        BY <3>3, <3>5, Added
      <4>2. DecidedEvents \subseteq Existing \cup {NoNode}
        BY <2>1, DueTask
      <4>3. Upto(items, Index)' = children
        BY <4>1 DEF Upto, children
      <4>4. \A n \in Research : RetryOf(n) \in Retry /\ RetryOf(n)' = RetryOf(n)
        BY Names, Families DEF RetryOf
      <4>5. children # {}
        <5>1. items \in {1, 2}
          BY <2>2, <2>6, FanOutAssumption DEF Here, ParamsOK, ItemsOf, ResearchModes
        <5> QED  BY <5>1, Families, Names DEF children
      <4>6. CausesOK'
        BY <2>2, <2>3, <3>2, <4>1, <4>4, Names DEF CausesOK, Evidences
      <4>7. FilesFollowed'
        BY <2>2, <2>3, <2>6, <3>2, <4>1, <4>2, <4>3, <4>5, Names DEF FilesFollowed, Went, NoNode
      <4>8. EvidenceFollowed'
        BY <2>2, <2>3, <3>2, <4>1, <4>2, Names DEF EvidenceFollowed, Went, Evidences, NoNode
      <4>9. DistillOK'
        BY <2>2, <4>1 DEF DistillOK
      <4> QED  BY <4>6, <4>7, <4>8, <4>9
    <3> QED  BY <2>1, <3>1, <3>3, <3>4, <3>5, Growing
  <2> QED  BY <2>5, <2>6
<1> QED  BY <1>1, <1>2

(* The pages found become tasks. *)
LEMMA SearchDecided ==
  ASSUME Here, Due(Search)
  PROVE  Kept(Search)
<1> DEFINE e == Search
<1>1. CASE state[e] # "succeeded"
  BY <1>1, FailureDecided
<1>2. CASE state[e] = "succeeded"
  <2>1. e \notin {NoNode, Answer, Surface, Content, Recall, Remember}
    BY Names DEF NoNode
  <2>2. e \in Existing /\ e \notin DecidedEvents /\ mode = "search_fetch"
        /\ Existing \cap {Answer, Surface} = {} /\ e \in Nodes
    BY <2>1, DueTask, ModeOf, BeforeTheEnd
  <2>3. Existing \subseteq {e, Remember} /\ Existing \cap Fetch = {}
    BY <2>2, Names DEF Here, Story, CastOK, Cast, CausesOK, Evidences
  <2>4. Decision(e) = Found(Fetch, e)
    BY <1>2, <2>1, <2>2, CommonOf, CommonDecision
  <2>5. CASE items = 0
    <3>1. Decision(e) = AnswerPatch /\ Answer \in Cast
      BY <2>2, <2>4, <2>5 DEF Found, Cast
    <3>2. ASSUME NEW parents, Fitting({Answer}, parents), Adds(e, {Answer}, parents)
          PROVE  FilesFollowed' /\ EvidenceFollowed'
      <4>1. /\ Existing' = Existing \cup {Answer} /\ DecidedEvents' = DecidedEvents \cup {e}
            /\ mode' = mode /\ items' = items /\ weak' = weak /\ alike' = alike
            /\ \A n \in Nodes : state'[n] = IF n \in {Answer} THEN "pending" ELSE state[n]
        BY <3>2, Added
      <4>2. DecidedEvents \subseteq Existing \cup {NoNode}
        BY <2>1, DueTask
      <4> QED
        BY <2>2, <2>3, <2>5, <4>1, <4>2, Names
           DEF FilesFollowed, EvidenceFollowed, Went, Evidences, NoNode
    <3> QED  BY <2>1, <2>2, <2>3, <3>1, <3>2, Answering
  <2>6. CASE items # 0
    <3> DEFINE children == Upto(items, Fetch)
    <3>1. Decision(e) = Add(children, {e})
      BY <2>4, <2>6 DEF Found
    <3>2. children \subseteq Fetch
      BY DEF Upto
    <3>3. Fitting(children, {e})
      <4>1. children \subseteq Cast
        BY <2>2, <3>2 DEF Cast
      <4>2. Layer(e) = 0
        BY Names DEF Layer
      <4>3. \A n \in children : Layer(n) = 1
        BY <3>2, Names DEF Layer
      <4> HIDE DEF Layer, children
      <4> QED  BY <2>2, <2>3, <3>2, <4>1, <4>2, <4>3 DEF Fitting
    <3>4. (Existing \cup children) \cap {Answer, Surface} = {} /\ Remember \notin children
      BY <2>2, <3>2, Names
    <3> HIDE DEF children
    <3>5. ASSUME Adds(e, children, {e})
          PROVE  CausesOK' /\ FilesFollowed' /\ EvidenceFollowed' /\ DistillOK'
      <4>1. /\ Existing' = Existing \cup children /\ DecidedEvents' = DecidedEvents \cup {e}
            /\ mode' = mode /\ items' = items /\ weak' = weak /\ alike' = alike
            /\ \A n \in Nodes : state'[n] = IF n \in children THEN "pending" ELSE state[n]
        BY <3>3, <3>5, Added
      <4>2. DecidedEvents \subseteq Existing \cup {NoNode}
        BY <2>1, DueTask
      <4>3. Upto(items, Fetch)' = children
        BY <4>1 DEF Upto, children
      <4>4. \A n \in Research : RetryOf(n) \in Retry /\ RetryOf(n)' = RetryOf(n)
        BY Names, Families DEF RetryOf
      <4>5. children # {}
        <5>1. items \in {1, 2}
          BY <2>2, <2>6, FanOutAssumption DEF Here, ParamsOK, ItemsOf, ResearchModes
        <5> QED  BY <5>1, Families, Names DEF children
      <4>6. CausesOK'
        BY <2>2, <2>3, <3>2, <4>1, <4>4, Names DEF CausesOK, Evidences
      <4>7. FilesFollowed'
        BY <2>2, <2>3, <3>2, <4>1, <4>2, Names DEF FilesFollowed, Went, NoNode
      <4>8. EvidenceFollowed'
        BY <2>2, <2>3, <2>6, <3>2, <4>1, <4>2, <4>3, <4>5, Names
           DEF EvidenceFollowed, Went, Evidences, NoNode
      <4>9. DistillOK'
        BY <2>2, <4>1 DEF DistillOK
      <4> QED  BY <4>6, <4>7, <4>8, <4>9
    <3> QED  BY <2>1, <3>1, <3>3, <3>4, <3>5, Growing
  <2> QED  BY <2>5, <2>6
<1> QED  BY <1>1, <1>2

(* A file that was indexed is recalled from. *)
LEMMA IndexFileDecided ==
  ASSUME Here, Due(IndexFile)
  PROVE  Kept(IndexFile)
<1> DEFINE e == IndexFile
<1>1. CASE state[e] # "succeeded"
  BY <1>1, FailureDecided
<1>2. CASE state[e] = "succeeded"
  <2>1. e \notin {NoNode, Answer, Surface, Content, Recall, Remember}
    BY Names DEF NoNode
  <2>2. e \in Existing /\ e \notin DecidedEvents /\ mode = "index_file"
        /\ Existing \cap {Answer, Surface} = {} /\ e \in Nodes
    BY <2>1, DueTask, ModeOf, BeforeTheEnd
  <2>3. DecidedEvents \subseteq Existing \cup {NoNode}
    BY <2>1, DueTask
  <2>4. Existing \subseteq {e, Remember}
    BY <2>2, <2>3, Names DEF Here, Story, CastOK, Cast, CausesOK, NoNode
  <2>5. Decision(e) = Add({Recall}, {e})
    BY <1>2, <2>1, <2>2, CommonOf, CommonDecision
  <2>6. Fitting({Recall}, {e})
    <3>1. Layer(e) = 0 /\ Layer(Recall) = 1 /\ Recall # e /\ Recall # Remember
      BY Names DEF Layer
    <3>2. Recall \in Cast
      BY <2>2 DEF Cast
    <3> HIDE DEF Layer
    <3> QED  BY <2>2, <2>4, <3>1, <3>2 DEF Fitting
  <2>7. (Existing \cup {Recall}) \cap {Answer, Surface} = {} /\ Remember \notin {Recall}
    BY <2>2, Names
  <2>8. ASSUME Adds(e, {Recall}, {e})
        PROVE  CausesOK' /\ FilesFollowed' /\ EvidenceFollowed' /\ DistillOK'
    <3>1. /\ Existing' = Existing \cup {Recall} /\ DecidedEvents' = DecidedEvents \cup {e}
          /\ mode' = mode /\ items' = items /\ weak' = weak /\ alike' = alike
          /\ \A n \in Nodes : state'[n] = IF n \in {Recall} THEN "pending" ELSE state[n]
      BY <2>6, <2>8, Added
    <3>2. \A n \in Research : RetryOf(n) \in Retry /\ RetryOf(n)' = RetryOf(n)
      BY Names, Families DEF RetryOf
    <3>3. CausesOK'
      BY <2>2, <2>4, <3>1, <3>2, Names DEF CausesOK, Evidences
    <3>4. FilesFollowed'
      BY <2>2, <2>3, <2>4, <3>1, Names DEF FilesFollowed, Went, NoNode
    <3>5. EvidenceFollowed'
      BY <2>2, <2>3, <2>4, <3>1, Names DEF EvidenceFollowed, Went, Evidences, NoNode
    <3>6. DistillOK'
      BY <2>2, <3>1 DEF DistillOK
    <3> QED  BY <3>3, <3>4, <3>5, <3>6
  <2> QED  BY <2>1, <2>5, <2>6, <2>7, <2>8, Growing
<1> QED  BY <1>1, <1>2

(* The reminder is made from the fact that was remembered. *)
LEMMA RememberDecided ==
  ASSUME Here, Due(Remember)
  PROVE  Kept(Remember)
<1> DEFINE e == Remember
<1>1. CASE state[e] # "succeeded" \/ mode # "birthday_reminder"
  BY <1>1, FailureDecided
<1>2. CASE state[e] = "succeeded" /\ mode = "birthday_reminder"
  <2>1. e \notin {NoNode, Answer, Surface, Content, Recall}
    BY Names DEF NoNode
  <2>2. e \in Existing /\ e \notin DecidedEvents /\ e \in Nodes
        /\ DecidedEvents \subseteq Existing \cup {NoNode}
    BY <2>1, DueTask
  <2>3. Existing \subseteq {Recall, e}
    BY <1>2, <2>1, <2>2, Names DEF Here, Story, CastOK, Cast, CausesOK, AnswerOK
  <2>4. Decision(e) = Add({Reminder}, {e})
    BY <1>2, <2>1, CommonOf, CommonDecision
  <2>5. Fitting({Reminder}, {e})
    <3>1. Layer(e) = 0 /\ Layer(Reminder) = 1 /\ Reminder \notin {Recall, e}
      BY Names DEF Layer
    <3>2. Reminder \in Cast
      BY <1>2 DEF Cast
    <3> HIDE DEF Layer
    <3> QED  BY <2>2, <2>3, <3>1, <3>2 DEF Fitting
  <2>6. (Existing \cup {Reminder}) \cap {Answer, Surface} = {} /\ Remember \notin {Reminder}
    BY <2>3, Names
  <2>7. ASSUME Adds(e, {Reminder}, {e})
        PROVE  CausesOK' /\ FilesFollowed' /\ EvidenceFollowed' /\ DistillOK'
    <3>1. /\ Existing' = Existing \cup {Reminder} /\ DecidedEvents' = DecidedEvents \cup {e}
          /\ mode' = mode /\ items' = items /\ weak' = weak /\ alike' = alike
          /\ \A n \in Nodes : state'[n] = IF n \in {Reminder} THEN "pending" ELSE state[n]
      BY <2>5, <2>7, Added
    <3>2. \A n \in Research : RetryOf(n) \in Retry /\ RetryOf(n)' = RetryOf(n)
      BY Names, Families DEF RetryOf
    <3>3. CausesOK'
      BY <1>2, <2>2, <2>3, <3>1, <3>2, Names DEF CausesOK, Evidences
    <3>4. FilesFollowed'
      BY <1>2, <2>2, <2>3, <3>1, Names DEF FilesFollowed, Went, NoNode
    <3>5. EvidenceFollowed'
      BY <1>2, <2>2, <2>3, <3>1, Names DEF EvidenceFollowed, Went, Evidences, NoNode
    <3>6. DistillOK'
      BY <1>2, <3>1 DEF DistillOK
    <3> QED  BY <3>3, <3>4, <3>5, <3>6
  <2> QED  BY <2>1, <2>4, <2>5, <2>6, <2>7, Growing
<1> QED  BY <1>1, <1>2

(* A file that was read, or a reminder that was made, is what the answer   *)
(* is about.                                                               *)
LEMMA ReadFileDecided ==
  ASSUME Here, NEW e, Due(e), e \in {ReadFile, Reminder}
  PROVE  Kept(e)
<1>1. e \notin {NoNode, Answer, Surface, Content, Recall, Remember}
  BY Names DEF NoNode
<1>2. e \in Existing /\ e \notin DecidedEvents /\ e \in Nodes
      /\ Existing \cap {Answer, Surface} = {}
      /\ DecidedEvents \subseteq Existing \cup {NoNode}
  BY <1>1, DueTask, BeforeTheEnd
<1>3. mode = IF e = ReadFile THEN "read_file" ELSE "birthday_reminder"
  BY <1>2, ModeOf, Names
<1>4. Decision(e) = AnswerPatch
  <2>1. Decision(e) = Decide(CommonRules(e, state[e] = "succeeded"))
    BY <1>1, <1>3, CommonOf
  <2> QED  BY <1>3, <2>1, CommonDecision
<1>5. Answer \in Cast
  BY <1>3 DEF Cast
<1>6. Existing \subseteq DecidedEvents
           \cup {e, IF mode = "birthday_reminder" THEN Recall ELSE Remember}
  BY <1>2, <1>3, Names DEF Here, Story, CastOK, Cast, CausesOK
<1>7. ASSUME NEW parents, Fitting({Answer}, parents), Adds(e, {Answer}, parents)
      PROVE  FilesFollowed' /\ EvidenceFollowed'
  <2>1. /\ Existing' = Existing \cup {Answer} /\ DecidedEvents' = DecidedEvents \cup {e}
        /\ mode' = mode /\ items' = items /\ weak' = weak /\ alike' = alike
        /\ \A n \in Nodes : state'[n] = IF n \in {Answer} THEN "pending" ELSE state[n]
    BY <1>7, Added
  <2>2. Existing \subseteq {ReadFile, Reminder, Recall, Remember}
    BY <1>2, <1>3, Names DEF Here, Story, CastOK, Cast
  <2>3. FilesFollowed'
    <3>1. \A n \in {Remember, Recall} : n \in Nodes /\ n # Answer
      BY Names DEF Here, RunNodes
    <3> QED  BY <1>2, <1>3, <2>1, <2>2, <3>1, Names DEF FilesFollowed, Went, NoNode, Here, Story
  <2>4. EvidenceFollowed'
    BY <1>2, <1>3, <2>1, <2>2, Names DEF EvidenceFollowed, Went, Evidences, NoNode
  <2> QED  BY <2>3, <2>4
<1> QED  BY <1>1, <1>2, <1>4, <1>5, <1>6, <1>7, Answering

(* What was recalled is distilled, answers, or waits for the reminder. *)
LEMMA RecallDecided ==
  ASSUME Here, Due(Recall)
  PROVE  Kept(Recall)
<1> DEFINE e == Recall
<1>1. e \notin {NoNode, Answer, Surface, Content, Remember}
  BY Names DEF NoNode
<1>2. e \in Existing /\ e \notin DecidedEvents /\ e \in Nodes
      /\ mode \in {"index_file", "birthday_reminder", "memory"}
      /\ DecidedEvents \subseteq Existing \cup {NoNode}
  BY <1>1, DueTask, ModeOf
<1>3. Decision(e) = IF mode = "birthday_reminder" THEN Nothing
                    ELSE IF mode = "index_file" /\ Distill \notin Existing
                         THEN Add({Distill}, {e}) ELSE AnswerPatch
  <2>1. Decision(e) = Decide(CommonRules(e, state[e] = "succeeded"))
    BY <1>1, <1>2, CommonOf
  <2> QED  BY <2>1, CommonDecision
<1>4. CASE mode = "birthday_reminder"
  <2>1. ASSUME Adds(e, {}, {})
        PROVE  FilesFollowed' /\ EvidenceFollowed'
    <3>1. /\ Existing' = Existing /\ DecidedEvents' = DecidedEvents \cup {e}
          /\ mode' = mode /\ items' = items /\ weak' = weak /\ alike' = alike
          /\ \A n \in Nodes : state'[n] = state[n]
      BY <2>1, AddedNothing
    <3>2. Existing \subseteq {Recall, Reminder, Answer, Remember}
      BY <1>4 DEF Here, Story, CastOK, Cast
    <3>3. FilesFollowed'
      <4>1. Remember \in Nodes
        BY Names DEF Here, RunNodes
      <4> QED
        BY <1>2, <1>4, <3>1, <3>2, <4>1, Names DEF FilesFollowed, Went, NoNode, Here, Story
    <3>4. EvidenceFollowed'
      BY <1>2, <1>4, <3>1, <3>2, Names DEF EvidenceFollowed, Went, Evidences, NoNode
    <3> QED  BY <3>3, <3>4
  <2> QED  BY <1>1, <1>3, <1>4, <2>1, Idling
<1>5. CASE mode = "index_file"
  <2>1. Existing \subseteq {IndexFile, e, Remember}
    BY <1>2, <1>5, Names DEF Here, Story, CastOK, Cast, CausesOK, AnswerOK
  <2>2. Decision(e) = Add({Distill}, {e})
    BY <1>3, <1>5, <2>1, Names
  <2>3. Fitting({Distill}, {e})
    <3>1. Layer(e) = 1 /\ Layer(Distill) = 2 /\ Distill \notin {IndexFile, e, Remember}
      BY Names DEF Layer
    <3>2. Distill \in Cast
      BY <1>5 DEF Cast
    <3> HIDE DEF Layer
    <3> QED  BY <1>2, <2>1, <3>1, <3>2 DEF Fitting
  <2>4. (Existing \cup {Distill}) \cap {Answer, Surface} = {} /\ Remember \notin {Distill}
    BY <2>1, Names
  <2>5. ASSUME Adds(e, {Distill}, {e})
        PROVE  CausesOK' /\ FilesFollowed' /\ EvidenceFollowed' /\ DistillOK'
    <3>1. /\ Existing' = Existing \cup {Distill} /\ DecidedEvents' = DecidedEvents \cup {e}
          /\ mode' = mode /\ items' = items /\ weak' = weak /\ alike' = alike
          /\ \A n \in Nodes : state'[n] = IF n \in {Distill} THEN "pending" ELSE state[n]
      BY <2>3, <2>5, Added
    <3>2. \A n \in Research : RetryOf(n) \in Retry /\ RetryOf(n)' = RetryOf(n)
      BY Names, Families DEF RetryOf
    <3>3. CausesOK'
      BY <1>5, <2>1, <3>1, <3>2, Names DEF CausesOK, Evidences, Here, Story
    <3>4. FilesFollowed'
      BY <1>2, <1>5, <2>1, <3>1, Names DEF FilesFollowed, Went, NoNode
    <3>5. EvidenceFollowed'
      BY <1>2, <1>5, <2>1, <3>1, Names DEF EvidenceFollowed, Went, Evidences, NoNode
    <3>6. DistillOK'
      BY <1>5, <3>1 DEF DistillOK
    <3> QED  BY <3>3, <3>4, <3>5, <3>6
  <2> QED  BY <1>1, <2>2, <2>3, <2>4, <2>5, Growing
<1>6. CASE mode = "memory"
  <2>1. Existing \subseteq {e, Remember} /\ Answer \in Cast
    BY <1>2, <1>6, Names DEF Here, Story, CastOK, Cast, AnswerOK
  <2>2. Existing \cap {Answer, Surface} = {}
    BY <2>1, Names
  <2>3. ASSUME NEW parents, Fitting({Answer}, parents), Adds(e, {Answer}, parents)
        PROVE  FilesFollowed' /\ EvidenceFollowed'
    <3>1. /\ Existing' = Existing \cup {Answer} /\ DecidedEvents' = DecidedEvents \cup {e}
          /\ mode' = mode /\ items' = items /\ weak' = weak /\ alike' = alike
          /\ \A n \in Nodes : state'[n] = IF n \in {Answer} THEN "pending" ELSE state[n]
      BY <2>3, Added
    <3> QED
      BY <1>2, <1>6, <2>1, <3>1, Names DEF FilesFollowed, EvidenceFollowed, Went, Evidences, NoNode
  <2>4. Decision(e) = AnswerPatch
    BY <1>3, <1>6
  <2> QED  BY <1>1, <1>6, <2>1, <2>2, <2>3, <2>4, Answering
<1> QED  BY <1>2, <1>4, <1>5, <1>6

(* When all the files listed are indexed, or could not be, there is an     *)
(* answer.                                                                 *)
LEMMA IndexDecided ==
  ASSUME Here, NEW e \in Index, Due(e)
  PROVE  Kept(e)
<1>1. e \notin {NoNode, Answer, Surface, Content, Recall, Remember}
  BY Names DEF NoNode
<1>2. e \in Existing /\ e \notin DecidedEvents /\ e \in Nodes /\ mode = "index_directory"
      /\ Existing \cap {Answer, Surface} = {}
      /\ DecidedEvents \subseteq Existing \cup {NoNode}
  BY <1>1, DueTask, ModeOf, BeforeTheEnd
<1>3. Decision(e) = IF Landed(Existing \cap Index) THEN AnswerPatch
                    ELSE IF state[e] # "succeeded" /\ Landed(Existing \ {Answer})
                         THEN AnswerPatch ELSE Nothing
  <2>1. Decision(e) = Decide(CommonRules(e, state[e] = "succeeded"))
    BY <1>1, <1>2, CommonOf
  <2> QED  BY <1>2, <2>1, CommonDecision
<1>4. Landed(Existing \cap Index) <=> Existing \cap Index \subseteq DecidedEvents \cup {e}
  <2>1. e \in Existing \cap Index
    BY <1>2
  <2> QED  BY <2>1, Landing
<1>5. Landed(Existing \ {Answer}) => Landed(Existing \cap Index)
  BY <1>2, Names DEF Landed
<1>6. Existing \subseteq Index \cup {ListDirectory, Remember} /\ ListDirectory \in DecidedEvents
      /\ Answer \in Cast
  BY <1>2, Names DEF Here, Story, CastOK, Cast, CausesOK
<1>7. CASE Landed(Existing \cap Index)
  <2>1. Decision(e) = AnswerPatch
    BY <1>3, <1>7
  <2>2. Existing \subseteq DecidedEvents \cup {e, Remember}
    BY <1>4, <1>6, <1>7
  <2>3. ASSUME NEW parents, Fitting({Answer}, parents), Adds(e, {Answer}, parents)
        PROVE  FilesFollowed' /\ EvidenceFollowed'
    <3>1. /\ Existing' = Existing \cup {Answer} /\ DecidedEvents' = DecidedEvents \cup {e}
          /\ mode' = mode /\ items' = items /\ weak' = weak /\ alike' = alike
          /\ \A n \in Nodes : state'[n] = IF n \in {Answer} THEN "pending" ELSE state[n]
      BY <2>3, Added
    <3>2. Upto(items, Index)' = Upto(items, Index) /\ ListDirectory \in Nodes
      BY <3>1, Names DEF Upto, Here, RunNodes
    <3>3. FilesFollowed'
      BY <1>2, <1>6, <3>1, <3>2, Names DEF FilesFollowed, Went, NoNode, Here, Story
    <3>4. EvidenceFollowed'
      BY <1>2, <1>6, <3>1, Names DEF EvidenceFollowed, Went, Evidences, NoNode
    <3> QED  BY <3>3, <3>4
  <2> QED  BY <1>1, <1>2, <1>6, <2>1, <2>2, <2>3, Answering
<1>8. CASE ~Landed(Existing \cap Index)
  <2>1. Decision(e) = Nothing
    BY <1>3, <1>5, <1>8
  <2>2. ASSUME Adds(e, {}, {})
        PROVE  FilesFollowed' /\ EvidenceFollowed'
    <3>1. /\ Existing' = Existing /\ DecidedEvents' = DecidedEvents \cup {e}
          /\ mode' = mode /\ items' = items /\ weak' = weak /\ alike' = alike
          /\ \A n \in Nodes : state'[n] = state[n]
      BY <2>2, AddedNothing
    <3>2. Upto(items, Index)' = Upto(items, Index) /\ ListDirectory \in Nodes
      BY <3>1, Names DEF Upto, Here, RunNodes
    <3>3. FilesFollowed'
      BY <1>2, <1>4, <1>6, <1>8, <3>1, <3>2, Names DEF FilesFollowed, Went, NoNode, Here, Story
    <3>4. EvidenceFollowed'
      BY <1>2, <1>6, <3>1, Names DEF EvidenceFollowed, Went, Evidences, NoNode
    <3> QED  BY <3>3, <3>4
  <2> QED  BY <1>1, <2>1, <2>2, Idling
<1> QED  BY <1>7, <1>8

(* When all the pages, or all the researchers, are in, they are distilled. *)
LEMMA EvidenceDecided ==
  ASSUME Here, NEW e \in Fetch \cup Research, Due(e), mode # "compose_research"
  PROVE  Kept(e)
<1> DEFINE found == Existing \cap (Fetch \cup Research)
<1>1. e \notin {NoNode, Answer, Surface, Content, Recall, Remember}
  BY Names DEF NoNode
<1>2. e \in Existing /\ e \notin DecidedEvents /\ e \in Nodes
      /\ mode \in {"fetch", "search_fetch", "structured_compare", "parallel_search"}
      /\ Existing \cap {Answer, Surface} = {}
      /\ DecidedEvents \subseteq Existing \cup {NoNode}
  BY <1>1, DueTask, ModeOf, BeforeTheEnd DEF ResearchModes
<1>3. Evidences = found /\ Evidence = found /\ weak = {}
  <2>1. Existing \cap Retry = {}
    BY <1>2, ModeOf
  <2>2. Existing \cap Fetch = {} \/ Existing \cap Research = {}
    BY <1>2, ModeOf DEF ResearchModes
  <2>3. weak = {}
    BY <1>2 DEF Here, ParamsOK, WeakOutcomes
  <2> QED  BY <2>1, <2>2, <2>3 DEF Evidences, Evidence
<1>0. Existing \cap {IndexFile, ReadFile, Recall, Reminder} = {}
  BY <1>2, ModeOf DEF ResearchModes
<1>4. Distill \notin Existing
  BY <1>2, <1>3 DEF Here, Story, CausesOK
<1>5. Decision(e) = IF Landed(found) THEN Add({Distill}, found)
                    ELSE IF state[e] # "succeeded" /\ Landed(Existing \ {Answer})
                         THEN AnswerPatch ELSE Nothing
  <2>1. Decision(e) = Decide(CommonRules(e, state[e] = "succeeded"))
    BY <1>1, <1>2, CommonOf
  <2>2. mode \in EvidenceModes
    BY <1>2 DEF EvidenceModes
  <2> QED  BY <1>3, <1>4, <2>1, <2>2, CommonDecision
<1>6. Landed(found) <=> found \subseteq DecidedEvents \cup {e}
  <2>1. e \in found
    BY <1>2
  <2> QED  BY <2>1, Landing
<1>7. Landed(Existing \ {Answer}) => Landed(found)
  BY <1>2, Names DEF Landed
<1> HIDE DEF found
<1>8. CASE Landed(found)
  <2>1. Decision(e) = Add({Distill}, found)
    BY <1>5, <1>8
  <2>2. Fitting({Distill}, found)
    <3>1. Layer(Distill) = 2 /\ \A n \in found : Layer(n) \in {0, 1}
      BY Names DEF Layer, found
    <3>2. Distill \in Cast
      BY <1>2 DEF Cast, ResearchModes
    <3> HIDE DEF Layer
    <3> QED  BY <1>4, <3>1, <3>2 DEF Fitting, found
  <2>3. (Existing \cup {Distill}) \cap {Answer, Surface} = {} /\ Remember \notin {Distill}
    BY <1>2, Names
  <2>4. ASSUME Adds(e, {Distill}, found)
        PROVE  CausesOK' /\ FilesFollowed' /\ EvidenceFollowed' /\ DistillOK'
    <3>1. /\ Existing' = Existing \cup {Distill} /\ DecidedEvents' = DecidedEvents \cup {e}
          /\ mode' = mode /\ items' = items /\ weak' = weak /\ alike' = alike
          /\ \A n \in Nodes : state'[n] = IF n \in {Distill} THEN "pending" ELSE state[n]
      BY <2>2, <2>4, Added
    <3>2. \A n \in Research : RetryOf(n) \in Retry /\ RetryOf(n)' = RetryOf(n)
      BY Names, Families DEF RetryOf
    <3>3. Evidences' = found /\ Distill \notin found /\ e \in found
      BY <1>2, <1>3, <3>1, Names DEF Evidences, found
    <3>4. Upto(items, Fetch)' = Upto(items, Fetch) /\ Search \in Nodes /\ Remember \in Nodes
      BY <3>1, Names DEF Upto, Here, RunNodes
    <3>5. CausesOK'
      BY <1>2, <1>6, <1>8, <3>1, <3>2, <3>3, Names DEF CausesOK, Here, Story
    <3>6. FilesFollowed'
      <4>1. DecidedEvents' \cap {IndexFile, ReadFile, Recall, Reminder} = {}
        BY <1>0, <1>2, <3>1, Names DEF NoNode
      <4> QED  BY <1>2, <3>1, <4>1 DEF FilesFollowed, Went
    <3>7. EvidenceFollowed'
      <4>1. Distill \notin DecidedEvents' /\ Validate \notin DecidedEvents'
        <5>1. Validate \notin Existing
          BY <1>2, <1>4, Names DEF Here, Story, CausesOK, NoNode
        <5> QED  BY <1>1, <1>2, <1>4, <3>1, <5>1, Names DEF NoNode
      <4>2. Went(Search)' => Went(Search)
        BY <1>1, <3>1, <3>4, Names DEF Went
      <4> QED  BY <1>3, <3>1, <3>4, <4>1, <4>2, Names DEF EvidenceFollowed, Here, Story
    <3>8. DistillOK'
      BY <1>2, <3>1 DEF DistillOK
    <3> QED  BY <3>5, <3>6, <3>7, <3>8
  <2> QED  BY <1>1, <2>1, <2>2, <2>3, <2>4, Growing
<1>9. CASE ~Landed(found)
  <2>1. Decision(e) = Nothing
    BY <1>5, <1>7, <1>9
  <2>2. ASSUME Adds(e, {}, {})
        PROVE  FilesFollowed' /\ EvidenceFollowed'
    <3>1. /\ Existing' = Existing /\ DecidedEvents' = DecidedEvents \cup {e}
          /\ mode' = mode /\ items' = items /\ weak' = weak /\ alike' = alike
          /\ \A n \in Nodes : state'[n] = state[n]
      BY <2>2, AddedNothing
    <3>2. Upto(items, Fetch)' = Upto(items, Fetch) /\ Search \in Nodes /\ Remember \in Nodes
      BY <3>1, Names DEF Upto, Here, RunNodes
    <3>3. FilesFollowed'
      <4>1. DecidedEvents' \cap {IndexFile, ReadFile, Recall, Reminder} = {}
        BY <1>0, <1>2, <3>1, Names DEF NoNode
      <4> QED  BY <1>2, <3>1, <4>1 DEF FilesFollowed, Went
    <3>4. EvidenceFollowed'
      <4>1. Distill \notin DecidedEvents' /\ Validate \notin DecidedEvents'
        <5>1. Validate \notin Existing
          BY <1>2, <1>4, Names DEF Here, Story, CausesOK, NoNode
        <5> QED  BY <1>1, <1>2, <1>4, <3>1, <5>1, Names DEF NoNode
      <4>2. Went(Search)' => Went(Search)
        BY <1>1, <3>1, <3>2, Names DEF Went
      <4>3. Evidences' = found
        BY <1>3, <3>1 DEF Evidences
      <4> QED
        BY <1>3, <1>6, <1>9, <3>1, <3>2, <4>1, <4>2, <4>3, Names DEF EvidenceFollowed, Here, Story
    <3> QED  BY <3>3, <3>4
  <2> QED  BY <1>1, <2>1, <2>2, Idling
<1> QED  BY <1>8, <1>9

(* A surface is composed from the content, or from what was distilled. *)
LEMMA Surfacing ==
  ASSUME Here, NEW e \in {Content, Distill}, Due(e), state[e] = "succeeded",
         mode = IF e = Content THEN "compose_answer" ELSE "compose_research",
         NEW parents, Decision(e) = Add({Surface}, parents), parents \subseteq Existing,
         Existing \cap {Answer, Surface} = {},
         Existing \subseteq DecidedEvents \cup {e, Remember}
  PROVE  Kept(e)
<1>1. e \notin {NoNode, Answer, Surface, Recall, Remember}
  BY Names DEF NoNode
<1>2. e \in Nodes /\ e \in Existing /\ e \notin DecidedEvents
      /\ DecidedEvents \subseteq Existing \cup {NoNode}
  BY <1>1, DueTask
<1>3. Fitting({Surface}, parents)
  <2>1. Layer(Surface) = 3
    BY Names DEF Layer
  <2>2. ASSUME NEW p \in parents PROVE Layer(p) < 3
    <3>1. p \in Cast \cup {Remember} /\ p # Surface /\ p # Answer
      BY DEF Here, Story, CastOK
    <3>2. p # Validate
      BY <3>1, Names DEF Cast, ResearchModes
    <3>3. Layer(p) \in 0..2
      BY <3>1, <3>2, Names DEF Layer
    <3> HIDE DEF Layer
    <3> QED  BY <3>3
  <2>3. Surface \in Cast
    BY DEF Cast
  <2> HIDE DEF Layer
  <2> QED  BY <2>1, <2>2, <2>3 DEF Fitting
<1>4. SUFFICES ASSUME Adds(e, {Surface}, parents) PROVE Story'
  BY <1>3 DEF Kept
<1>5. /\ Existing' = Existing \cup {Surface} /\ edges' = edges \cup (parents \X {Surface})
      /\ DecidedEvents' = DecidedEvents \cup {e} /\ ~finished /\ ~finished'
      /\ mode' = mode /\ items' = items /\ weak' = weak /\ alike' = alike
      /\ \A n \in Nodes : state'[n] = IF n \in {Surface} THEN "pending" ELSE state[n]
  BY <1>3, <1>4, Added
<1>6. CastOK' /\ EdgesOK' /\ CutOK' /\ StartOK'
  <2>1. Remember \notin {Surface}
    BY Names
  <2> QED  BY <1>1, <1>3, <1>4, <2>1, AddedKeeps
<1>7. /\ \A n \in Research : RetryOf(n) \in Retry /\ RetryOf(n)' = RetryOf(n)
      /\ Existing \cap ({IndexFile, ReadFile, Recall, Reminder, Search, Validate, ListDirectory}
                          \cup Index \cup Fetch) = {}
      /\ \A n \in Research \cup {Content, Distill} : n \in Nodes
  <2>1. \A n \in Research : RetryOf(n) \in Retry /\ RetryOf(n)' = RetryOf(n)
    BY Names, Families DEF RetryOf
  <2>2. Existing \cap ({IndexFile, ReadFile, Recall, Reminder, Search, Validate, ListDirectory}
                         \cup Index \cup Fetch) = {}
    BY ModeOf DEF ResearchModes
  <2> QED  BY <2>1, <2>2, Names DEF Here, RunNodes
<1>8. CausesOK'
  BY <1>5, <1>7, Names DEF CausesOK, Evidences, Here, Story
<1>9. FilesFollowed'
  <2>1. DecidedEvents' \cap {IndexFile, ReadFile, Recall, Reminder} = {}
    BY <1>2, <1>5, <1>7, Names DEF NoNode
  <2> QED  BY <1>5, <2>1 DEF FilesFollowed, Went
<1>10. EvidenceFollowed'
  <2>1. DecidedEvents' \cap {Search, Validate} = {} /\ Surface \notin DecidedEvents
    BY <1>2, <1>5, <1>7, Names DEF NoNode
  <2>2. Evidences' = Evidences /\ e \notin Evidences
    BY <1>5, Names DEF Evidences
  <2> QED
    BY <1>2, <1>5, <1>7, <2>1, <2>2, Names DEF EvidenceFollowed, Went, Here, Story
<1>11. EndFollowed'
  BY <1>2, <1>5, <1>7, Names DEF EndFollowed, Went, Here, Story, NoNode
<1>12. AnswerOK' /\ SurfaceOK'
  BY <1>5, <1>7, Names DEF AnswerOK, SurfaceOK
<1>13. DistillOK'
  <2>1. Leaves' = Leaves
    BY <1>5, <1>7, Names DEF Leaves
  <2>2. \A n \in Nodes : <<n, Distill>> \in edges' <=> <<n, Distill>> \in edges
    BY <1>5, Names
  <2>3. Distill # Surface
    BY Names
  <2> QED  BY <1>5, <2>1, <2>2, <2>3 DEF DistillOK, Here, Story
<1> QED  BY <1>6, <1>8, <1>9, <1>10, <1>11, <1>12, <1>13 DEF Story

(* The content becomes a surface, or the run ends without one. *)
LEMMA ContentDecided ==
  ASSUME Here, Due(Content)
  PROVE  Kept(Content)
<1> DEFINE e == Content
<1>1. e \notin {NoNode, Answer, Surface, Recall, Remember}
  BY Names DEF NoNode
<1>2. e \in Existing /\ state[e] \in {"succeeded", "failed"} /\ mode = "compose_answer"
      /\ Existing \cap {Answer, Surface} = {}
  BY <1>1, DueTask, ModeOf, BeforeTheEnd
<1> DEFINE ok == state[e] = "succeeded"
<1>3. Decision(e) = Decide(ComposeAnswerRules(e, ok) \o CommonRules(e, ok)) /\ ok \in BOOLEAN
  BY <1>1, <1>2, DecisionOf
<1>4. CASE ok
  <2>1. Decision(e) = Add({Surface}, {e})
    BY <1>2, <1>3, <1>4, ComposeAnswerDecision
  <2>2. Existing \subseteq {e, Remember}
    BY <1>2, Names DEF Here, Story, CastOK, Cast
  <2> QED  BY <1>2, <1>4, <2>1, <2>2, Surfacing
<1>5. CASE ~ok
  <2>1. Decision(e) = Finish
    BY <1>3, <1>5, ComposeAnswerDecision
  <2>2. state[e] = "failed"
    BY <1>2, <1>5
  <2> QED  BY <2>1, <2>2, Ending DEF Kept
<1> QED  BY <1>4, <1>5

(* An answer, or a surface, ends the run. *)
LEMMA LastDecided ==
  ASSUME Here, NEW e \in {Answer, Surface}, Due(e)
  PROVE  Kept(e)
<1>1. e # NoNode /\ e \in Existing
  <2>1. e # NoNode
    BY Names DEF NoNode
  <2> QED  BY <2>1, DueTask
<1> DEFINE ok == state[e] = "succeeded"
<1>2. ok \in BOOLEAN
  OBVIOUS
<1>3. Decision(e) = Finish
  <2> HIDE DEF ok
  <2>1. CASE e = Surface
    <3>1. mode \in {"compose_answer", "compose_research"}
      BY <1>1, <2>1, ModeOf
    <3>2. Decide(ComposeAnswerRules(e, ok) \o CommonRules(e, ok)) = Finish
      BY <1>2, <2>1, ComposeAnswerDecision
    <3>3. Decide(ComposeResearchRules(e, ok) \o CommonRules(e, ok)) = Finish
      BY <1>2, <2>1, ComposeResearchDecision
    <3> QED  BY <1>1, <3>1, <3>2, <3>3, DecisionOf DEF ok
  <2>2. CASE e = Answer
    <3>1. mode # "compose_answer"
      BY <1>1, <2>2, ModeOf
    <3>2. Decide(CommonRules(e, ok)) = Finish
      BY <1>2, <2>2, CommonDecision
    <3>3. e \notin {Surface, Distill} \cup Research \cup Retry
      BY <2>2, Names
    <3>4. Decide(ComposeResearchRules(e, ok) \o CommonRules(e, ok)) = Finish
      BY <1>2, <3>2, <3>3, ComposeResearchDecision
    <3> QED  BY <1>1, <3>1, <3>2, <3>4, DecisionOf DEF ok
  <2> QED  BY <2>1, <2>2
<1> QED  BY <1>3, Ending DEF Kept

(* What was distilled is answered with, validated, or put on a surface. *)
LEMMA DistillDecided ==
  ASSUME Here, Due(Distill)
  PROVE  Kept(Distill)
<1> DEFINE e == Distill
           ok == state[e] = "succeeded"
<1>1. e \notin {NoNode, Answer, Surface, Content, Recall, Remember}
  BY Names DEF NoNode
<1>2. e \in Existing /\ e \notin DecidedEvents /\ e \in Nodes
      /\ mode \in {"index_file", "fetch", "search_fetch", "compose_research",
                   "structured_compare", "parallel_search"}
      /\ Existing \cap {Answer, Surface} = {}
      /\ DecidedEvents \subseteq Existing \cup {NoNode}
  BY <1>1, DueTask, ModeOf, BeforeTheEnd DEF ResearchModes
<1>3. Existing \subseteq DecidedEvents \cup {e, Remember}
  <2>1. Validate \notin Existing
    BY <1>2 DEF Here, Story, CausesOK
  <2>2. CASE mode = "index_file"
    BY <1>1, <1>2, <2>2, Names DEF Here, Story, CausesOK, CastOK, Cast, NoNode
  <2>3. CASE mode = "search_fetch"
    <3>1. Existing \subseteq {Search, e, Remember} \cup Fetch
      BY <1>2, <2>3 DEF Here, Story, CastOK, Cast
    <3>2. Evidences = Existing \cap Fetch
      BY <3>1, Names DEF Evidences
    <3> QED  BY <1>2, <2>3, <3>1, <3>2 DEF Here, Story, CausesOK
  <2>4. CASE mode \notin {"index_file", "search_fetch"}
    <3>1. Existing \subseteq {e, Remember} \cup Fetch \cup Research \cup Retry
      BY <1>2, <2>1, <2>4 DEF Here, Story, CastOK, Cast, ResearchModes
    <3> QED  BY <1>2, <2>4, <3>1 DEF Here, Story, CausesOK, Evidences
  <2> QED  BY <2>2, <2>3, <2>4
<1>4. ok \in BOOLEAN
  OBVIOUS
<1> DEFINE common == Decide(CommonRules(e, ok))
<1>5. common = IF mode = "structured_compare" THEN Add({Validate}, {e}) ELSE AnswerPatch
  BY <1>4, CommonDecision
<1>6. Decision(e) = IF mode = "compose_research" /\ ok THEN Add({Surface}, Leaves \cup {e})
                    ELSE common
  <2>1. CASE mode = "compose_research"
    <3>1. Decision(e) = Decide(ComposeResearchRules(e, ok) \o CommonRules(e, ok))
      BY <1>1, <2>1, DecisionOf
    <3>2. Decision(e) = IF ok /\ Surface \notin Existing THEN Add({Surface}, Leaves \cup {e})
                        ELSE common
      BY <1>4, <3>1, ComposeResearchDecision
    <3> QED  BY <1>2, <2>1, <3>2
  <2>2. CASE mode # "compose_research"
    BY <1>1, <1>2, <2>2, CommonOf
  <2> QED  BY <2>1, <2>2
<1> HIDE DEF common
<1>7. CASE mode = "compose_research" /\ ok
  <2>1. Leaves \cup {e} \subseteq Existing /\ e \in {Content, Distill} /\ e # Content
    BY <1>2, Names DEF Leaves
  <2>2. Decision(e) = Add({Surface}, Leaves \cup {e})
    BY <1>6, <1>7
  <2> QED  BY <1>2, <1>3, <1>7, <2>1, <2>2, Surfacing
<1>8. ASSUME mode # "compose_research" \/ ~ok, NEW children, children \in {{Answer}, {Validate}},
             mode = "structured_compare" <=> children = {Validate},
             NEW parents, Fitting(children, parents), Adds(e, children, parents)
      PROVE  FilesFollowed' /\ EvidenceFollowed'
  <2>1. /\ Existing' = Existing \cup children /\ DecidedEvents' = DecidedEvents \cup {e}
        /\ mode' = mode /\ items' = items /\ weak' = weak /\ alike' = alike
        /\ \A n \in Nodes : state'[n] = IF n \in children THEN "pending" ELSE state[n]
    BY <1>8, Added
  <2>2. Upto(items, Fetch)' = Upto(items, Fetch)
        /\ \A n \in Research : RetryOf(n) \in Retry /\ RetryOf(n)' = RetryOf(n)
    BY <2>1, Names, Families DEF Upto, RetryOf
  <2>3. \A n \in {Search, IndexFile, e} \cup Research : n \in Nodes /\ n \notin children
    BY <1>8, Names DEF Here, RunNodes
  <2>4. Evidences' = Evidences /\ Validate \notin DecidedEvents' /\ e \notin Evidences
    <3>1. Evidences' = Evidences /\ e \notin Evidences
      BY <1>8, <2>1, Names DEF Evidences
    <3>2. Validate \notin Existing
      BY <1>2 DEF Here, Story, CausesOK
    <3> QED  BY <1>2, <2>1, <3>1, <3>2, Names DEF NoNode
  <2>5. FilesFollowed'
    BY <1>2, <2>1, <2>3, Names DEF FilesFollowed, Went, Here, Story
  <2>6. EvidenceFollowed'
    <3>1. Answer # Validate
      BY Names
    <3>2. Went(Search)' => Went(Search)
      BY <2>1, <2>3, Names DEF Went
    <3>3. \A n \in Research : n \in DecidedEvents' /\ state'[n] = "succeeded" => Went(n)
      BY <2>1, <2>3, Names DEF Went
    <3>4. mode = "structured_compare" => Validate \in Existing'
      BY <1>8, <2>1
    <3>5. mode # "structured_compare" => Answer \in Existing'
      BY <1>8, <2>1
    <3>6. \A n \in Research \cap weak' :
            Went(n)' => RetryOf(n)' \in Existing' \/ (alike' /\ Retry \cap Existing' # {})
      <4>1. Existing \subseteq Existing'
        BY <2>1
      <4> QED  BY <2>1, <2>2, <3>3, <4>1 DEF EvidenceFollowed, Went, Here, Story
    <3>7. mode = "compose_research" => state'[e] # "succeeded"
      BY <1>8, <2>1, <2>3
    <3> QED
      BY <1>2, <2>1, <2>2, <2>4, <3>2, <3>4, <3>5, <3>6, <3>7 DEF EvidenceFollowed, Here, Story
  <2> QED  BY <2>5, <2>6
<1>9. CASE mode = "structured_compare"
  <2>1. Decision(e) = Add({Validate}, {e})
    BY <1>5, <1>6, <1>9
  <2>2. Validate \notin Existing
    BY <1>2 DEF Here, Story, CausesOK
  <2>3. Fitting({Validate}, {e})
    <3>1. Layer(e) = 2 /\ Layer(Validate) = 3
      BY Names DEF Layer
    <3>2. Validate \in Cast
      BY <1>9 DEF Cast, ResearchModes
    <3> HIDE DEF Layer
    <3> QED  BY <1>2, <2>2, <3>1, <3>2 DEF Fitting
  <2>4. (Existing \cup {Validate}) \cap {Answer, Surface} = {} /\ Remember \notin {Validate}
    BY <1>2, Names
  <2>5. ASSUME Adds(e, {Validate}, {e})
        PROVE  CausesOK' /\ FilesFollowed' /\ EvidenceFollowed' /\ DistillOK'
    <3>1. /\ Existing' = Existing \cup {Validate} /\ DecidedEvents' = DecidedEvents \cup {e}
          /\ mode' = mode /\ items' = items /\ weak' = weak /\ alike' = alike
          /\ \A n \in Nodes : state'[n] = IF n \in {Validate} THEN "pending" ELSE state[n]
      BY <2>3, <2>5, Added
    <3>2. \A n \in Research : RetryOf(n) \in Retry /\ RetryOf(n)' = RetryOf(n)
      BY Names, Families DEF RetryOf
    <3>3. Evidences' = Evidences
      BY <3>1, Names DEF Evidences
    <3>4. CausesOK'
      BY <1>9, <3>1, <3>2, <3>3, Names DEF CausesOK, Here, Story
    <3>5. DistillOK'
      BY <1>9, <3>1 DEF DistillOK
    <3>6. FilesFollowed' /\ EvidenceFollowed'
      BY <1>8, <1>9, <2>3, <2>5
    <3> QED  BY <3>4, <3>5, <3>6
  <2> QED  BY <1>1, <2>1, <2>3, <2>4, <2>5, Growing
<1>10. CASE mode # "structured_compare" /\ (mode # "compose_research" \/ ~ok)
  <2>1. Decision(e) = AnswerPatch
    BY <1>5, <1>6, <1>10
  <2>2. Answer \in Cast
    BY <1>2 DEF Cast, ResearchModes
  <2>3. Answer # Validate
    BY Names
  <2>4. ASSUME NEW parents, Fitting({Answer}, parents), Adds(e, {Answer}, parents)
        PROVE  FilesFollowed' /\ EvidenceFollowed'
    <3>1. {Answer} \in {{Answer}, {Validate}} /\ {Answer} # {Validate}
      BY <2>3
    <3> QED  BY <1>8, <1>10, <2>4, <3>1
  <2>5. mode # "birthday_reminder"
    BY <1>2
  <2> QED  BY <1>1, <1>2, <1>3, <2>1, <2>2, <2>4, <2>5, Answering
<1> QED  BY <1>7, <1>9, <1>10

(* What was validated is answered with. *)
LEMMA ValidateDecided ==
  ASSUME Here, Due(Validate)
  PROVE  Kept(Validate)
<1> DEFINE e == Validate
<1>1. e \notin {NoNode, Answer, Surface, Content, Recall, Remember}
  BY Names DEF NoNode
<1>2. e \in Existing /\ e \notin DecidedEvents /\ e \in Nodes
      /\ mode = "structured_compare"
      /\ Existing \cap {Answer, Surface} = {}
      /\ DecidedEvents \subseteq Existing \cup {NoNode}
  BY <1>1, DueTask, ModeOf, BeforeTheEnd
<1>3. Existing \subseteq {Distill, e, Remember} \cup Research
  BY <1>2 DEF Here, Story, CastOK, Cast, ResearchModes
<1>4. Distill \in DecidedEvents /\ Distill \in Existing
  BY <1>1, <1>2, Names DEF Here, Story, CausesOK, NoNode
<1>5. Existing \subseteq DecidedEvents \cup {e, Remember}
  BY <1>2, <1>3, <1>4 DEF Here, Story, CausesOK, Evidences
<1>6. Decision(e) = AnswerPatch /\ Answer \in Cast
  BY <1>1, <1>2, CommonOf, CommonDecision DEF Cast, ResearchModes
<1>7. ASSUME NEW parents, Fitting({Answer}, parents), Adds(e, {Answer}, parents)
      PROVE  FilesFollowed' /\ EvidenceFollowed'
  <2>1. /\ Existing' = Existing \cup {Answer} /\ DecidedEvents' = DecidedEvents \cup {e}
        /\ mode' = mode /\ items' = items /\ weak' = weak /\ alike' = alike
        /\ \A n \in Nodes : state'[n] = IF n \in {Answer} THEN "pending" ELSE state[n]
    BY <1>7, Added
  <2>2. weak = {}
    BY <1>2 DEF Here, ParamsOK, WeakOutcomes
  <2>3. DecidedEvents' \cap {IndexFile, ReadFile, Recall, Reminder, Search} = {}
    BY <1>2, <1>3, <2>1, Names DEF NoNode
  <2>4. FilesFollowed'
    BY <1>2, <2>1, <2>3 DEF FilesFollowed, Went
  <2>5. EvidenceFollowed'
    BY <1>2, <1>4, <2>1, <2>2, <2>3 DEF EvidenceFollowed, Went
  <2> QED  BY <2>4, <2>5
<1>8. mode # "birthday_reminder"
  BY <1>2
<1> QED  BY <1>1, <1>2, <1>5, <1>6, <1>7, <1>8, Answering

(* The first useful frontier, and the memory that was asked for. *)
LEMMA StartDecided ==
  ASSUME Here, Due(NoNode)
  PROVE  Kept(NoNode)
<1> DEFINE e == NoNode
           children == Frontier \cup (IF explicit THEN {Remember} ELSE {})
           none == {}
<1>1. DecidedEvents = {} /\ Existing = {} /\ ~finished
  BY DEF Here, Due, Story, StartOK
<1>2. Decision(e) = Add(children, none)
  BY DEF Decision, Plan, Kind, Row
<1>3. mode \in AllModes /\ explicit \in BOOLEAN
  BY DEF Here, ParamsOK
<1>4. /\ Frontier \subseteq Cast
      /\ Frontier \cap ({Answer, Surface, Distill, Validate, Reminder} \cup Index \cup Retry) = {}
      /\ mode = "index_file" => Recall \notin Frontier
      /\ mode = "search_fetch" => Frontier \cap Fetch = {}
      /\ Remember \notin Frontier
  <2>1. Upto(items, Fetch) \subseteq Fetch /\ Upto(items, Research) \subseteq Research
    BY DEF Upto
  <2> QED  BY <1>3, <2>1, Names DEF Frontier, Cast, AllModes, ResearchModes
<1>5. Fitting(children, none)
  BY <1>1, <1>4 DEF Fitting
<1>6. none = {}
  OBVIOUS
<1> HIDE DEF children, none
<1>7. SUFFICES ASSUME Adds(e, children, none) PROVE Story'
  BY <1>2, <1>5 DEF Kept
<1>8. /\ Existing' = Existing \cup children
      /\ \A n \in Nodes : state'[n] = IF n \in children THEN "pending" ELSE state[n]
      /\ edges' = edges \cup (none \X children)
      /\ DecidedEvents' = DecidedEvents \cup {e} /\ ~finished /\ ~finished'
      /\ mode' = mode /\ items' = items /\ weak' = weak /\ explicit' = explicit /\ alike' = alike
  BY <1>5, <1>7, Added
<1>9. Existing' = children /\ DecidedEvents' = {NoNode}
  BY <1>1, <1>8
<1>10. /\ children \cap ({Answer, Surface, Distill, Validate, Reminder} \cup Index \cup Retry) = {}
       /\ mode = "index_file" => Recall \notin children
       /\ mode = "search_fetch" => children \cap Fetch = {}
  BY <1>4, Names DEF children
<1>11. CastOK' /\ EdgesOK' /\ CutOK'
  BY <1>5, <1>7, AddedKeeps
<1>12. StartOK'
  <2>1. Frontier' = Frontier
    BY <1>8 DEF Frontier, Upto
  <2>2. Frontier \subseteq children /\ (Remember \in children <=> explicit)
    BY <1>3, <1>4 DEF children
  <2> QED  BY <1>8, <1>9, <2>1, <2>2 DEF StartOK
<1>13. CausesOK'
  <2>1. \A n \in Research : RetryOf(n)' \in Retry
    BY Names, Families DEF RetryOf
  <2>2. Retry \cap Existing' # Retry
    BY <1>9, <1>10, Names
  <2> QED  BY <1>8, <1>9, <1>10, <2>1, <2>2 DEF CausesOK
<1>14. NoNode \notin {Answer, Content, Distill, IndexFile, ListDirectory, ReadFile, Recall,
                      Remember,
                      Reminder, Search, Surface, Validate} \cup Fetch \cup Index \cup Retry \cup Research
  BY Names DEF NoNode
<1>15. FilesFollowed'
  BY <1>9, <1>10, <1>14 DEF FilesFollowed, Went
<1>16. EvidenceFollowed'
  BY <1>9, <1>14 DEF EvidenceFollowed, Went, Evidences
<1>17. EndFollowed'
  BY <1>8, <1>9, <1>14 DEF EndFollowed, Went
<1>18. AnswerOK' /\ SurfaceOK' /\ DistillOK'
  BY <1>9, <1>10 DEF AnswerOK, SurfaceOK, DistillOK
<1> QED  BY <1>11, <1>12, <1>13, <1>15, <1>16, <1>17, <1>18 DEF Story

(* A weak outcome earns one correction; when every subject has its leaf,   *)
(* the leaves are distilled.                                               *)
LEMMA ResearchDecided ==
  ASSUME Here, NEW e \in Research \cup Retry, Due(e), mode = "compose_research"
  PROVE  Kept(e)
<1> DEFINE ok == state[e] = "succeeded"
           earns == ok /\ EarnsRetry(e)
           r == RetryOf(e)
<1>1. e \notin {NoNode, Answer, Surface, Content, Recall, Remember, Distill}
  BY Names DEF NoNode
<1>2. e \in Existing /\ e \notin DecidedEvents /\ e \in Nodes /\ e \in Evidences
      /\ Existing \cap {Answer, Surface} = {}
      /\ DecidedEvents \subseteq Existing \cup {NoNode}
  BY <1>1, DueTask, BeforeTheEnd DEF Evidences
<1>3. Distill \notin Existing /\ Validate \notin Existing
  BY <1>2, ModeOf DEF Here, Story, CausesOK
<1>4. Existing \cap {IndexFile, ReadFile, Recall, Reminder, Search, ListDirectory} = {}
  BY ModeOf DEF ResearchModes
<1>5. Decision(e) = IF earns THEN Add({r}, {})
                    ELSE IF Landed(Leaves) THEN Add({Distill}, Leaves) ELSE Nothing
  <2>1. ok \in BOOLEAN
    OBVIOUS
  <2>2. Decision(e) = Decide(ComposeResearchRules(e, ok) \o CommonRules(e, ok))
    BY <1>1, DecisionOf
  <2> HIDE DEF ok
  <2> QED  BY <1>3, <2>1, <2>2, ComposeResearchDecision
<1>6. /\ \A n \in Research : RetryOf(n) \in Retry /\ RetryOf(n)' = RetryOf(n)
      /\ \A n, m \in Research : RetryOf(n) = RetryOf(m) => n = m
      /\ \A n \in Research \cup Retry : n \in Nodes /\ n \notin Retry \cap Research
  BY Names, Families DEF RetryOf, Here, RunNodes
<1>7. Leaves \subseteq Evidences /\ Leaves # {} /\ Leaves \subseteq Existing
  <2>1. Leaves \subseteq Evidences /\ Leaves \subseteq Existing
    BY DEF Leaves, Evidences
  <2>2. CASE e \in Retry \/ RetryOf(e) \notin Existing
    <3>1. e \in Leaves
      BY <1>2, <1>6, <2>2 DEF Leaves
    <3> QED  BY <2>1, <3>1
  <2>3. CASE e \in Research /\ RetryOf(e) \in Existing
    <3>1. RetryOf(e) \in Leaves
      BY <1>6, <2>3 DEF Leaves
    <3> QED  BY <2>1, <3>1
  <2> QED  BY <2>1, <2>2, <2>3
<1>8. Landed(Leaves) <=> Leaves \subseteq DecidedEvents \cup {e}
  BY <1>7, Landing
<1>9. ASSUME NEW n \in Evidences, n \notin Leaves PROVE n \in DecidedEvents
  <2>1. Existing \cap Fetch = {}
    BY ModeOf
  <2> QED  BY <1>9, <2>1 DEF Evidences, Leaves, Here, Story, CausesOK
<1> HIDE DEF r
<1>10. CASE earns
  <2>1. /\ e \in Research /\ e \in weak /\ r \notin Existing /\ r \in Retry
        /\ alike => Retry \cap Existing = {}
    <3>1. e \in Research /\ e \in weak /\ \A m \in Alike(e) : RetryOf(m) \notin Existing
      BY <1>10 DEF EarnsRetry
    <3>2. e \in Alike(e)
      BY <3>1 DEF Alike
    <3>3. alike => \A m \in Research : RetryOf(m) \notin Existing
      BY <3>1 DEF Alike
    <3>4. \A q \in Retry : \E m \in Research : q = RetryOf(m)
      BY Names, Families
    <3> QED  BY <1>6, <3>1, <3>2, <3>3, <3>4 DEF r
  <2> DEFINE none == {}
  <2>2. Decision(e) = Add({r}, none) /\ none = {}
    BY <1>5, <1>10
  <2> HIDE DEF none
  <2>3. Fitting({r}, none)
    <3>1. r \in Cast
      BY <2>1 DEF Cast
    <3> QED  BY <2>1, <2>2, <3>1 DEF Fitting
  <2>4. (Existing \cup {r}) \cap {Answer, Surface} = {} /\ Remember \notin {r}
    BY <1>2, <2>1, Names
  <2>5. ASSUME Adds(e, {r}, none)
        PROVE  CausesOK' /\ FilesFollowed' /\ EvidenceFollowed' /\ DistillOK'
    <3>1. /\ Existing' = Existing \cup {r} /\ DecidedEvents' = DecidedEvents \cup {e}
          /\ {r} \cap (DecidedEvents \cup {e}) = {}
          /\ mode' = mode /\ items' = items /\ weak' = weak /\ alike' = alike
          /\ \A n \in Nodes : state'[n] = IF n \in {r} THEN "pending" ELSE state[n]
      BY <2>3, <2>5, Added
    <3>2. Distill \notin Existing' /\ Distill \notin DecidedEvents' /\ Validate \notin DecidedEvents'
      BY <1>1, <1>2, <1>3, <2>1, <3>1, Names DEF NoNode
    <3>3. DecidedEvents' \cap {IndexFile, ReadFile, Recall, Reminder, Search} = {}
      BY <1>2, <1>4, <3>1, Names DEF NoNode
    <3>4. CausesOK'
      <4>1. \A n \in Research : RetryOf(n) \in Existing' => n \in DecidedEvents' /\ n \in weak'
        BY <1>6, <2>1, <3>1 DEF Here, Story, CausesOK, r
      <4>2. Existing' \cap ({Recall, Reminder, Validate, Distill} \cup Index \cup Fetch) = {}
        <5>1. Existing \cap (Index \cup Fetch) = {}
          BY ModeOf
        <5> QED  BY <1>3, <1>4, <2>1, <3>1, <5>1, Names
      <4>3. alike' => Retry \cap Existing' # Retry
        BY <2>1, <3>1, Names
      <4> QED  BY <1>6, <4>1, <4>2, <4>3 DEF CausesOK
    <3>5. FilesFollowed'
      BY <3>1, <3>3 DEF FilesFollowed, Went
    <3>6. EvidenceFollowed'
      <4>1. r \in Evidences' /\ r \notin DecidedEvents'
        BY <2>1, <3>1 DEF Evidences
      <4>2. \A n \in Research \cap weak : n \in DecidedEvents' /\ state'[n] = "succeeded"
              => RetryOf(n) \in Existing' \/ (alike' /\ Retry \cap Existing' # {})
        BY <1>6, <2>1, <3>1 DEF Here, Story, EvidenceFollowed, Went, r
      <4> QED  BY <1>6, <3>1, <3>2, <3>3, <4>1, <4>2 DEF EvidenceFollowed, Went
    <3>7. DistillOK'
      BY <3>2 DEF DistillOK
    <3> QED  BY <3>4, <3>5, <3>6, <3>7
  <2> QED  BY <1>1, <2>2, <2>3, <2>4, <2>5, Growing
<1>11. ~earns => \A n \in Research \cap weak :
         n \in DecidedEvents \cup {e} /\ state[n] = "succeeded"
           => RetryOf(n) \in Existing \/ (alike /\ Retry \cap Existing # {})
  <2> SUFFICES ASSUME ~earns, NEW n \in Research \cap weak,
                      n \in DecidedEvents \cup {e}, state[n] = "succeeded"
               PROVE  RetryOf(n) \in Existing \/ (alike /\ Retry \cap Existing # {})
    OBVIOUS
  <2>1. CASE n \in DecidedEvents
    BY <2>1 DEF Here, Story, EvidenceFollowed, Went
  <2>2. CASE n = e
    <3>1. PICK m \in Alike(n) : RetryOf(m) \in Existing
      BY <2>2 DEF EarnsRetry
    <3> QED  BY <1>6, <3>1 DEF Alike
  <2> QED  BY <2>1, <2>2
<1>12. CASE ~earns /\ Landed(Leaves)
  <2>1. Decision(e) = Add({Distill}, Leaves)
    BY <1>5, <1>12
  <2>2. Fitting({Distill}, Leaves)
    <3>1. Layer(Distill) = 2 /\ \A n \in Leaves : Layer(n) = 0
      BY Names DEF Layer, Leaves
    <3>2. Distill \in Cast
      BY DEF Cast
    <3> HIDE DEF Layer
    <3> QED  BY <1>3, <1>7, <3>1, <3>2 DEF Fitting
  <2>3. (Existing \cup {Distill}) \cap {Answer, Surface} = {} /\ Remember \notin {Distill}
    BY <1>2, Names
  <2>4. ASSUME Adds(e, {Distill}, Leaves)
        PROVE  CausesOK' /\ FilesFollowed' /\ EvidenceFollowed' /\ DistillOK'
    <3>1. /\ Existing' = Existing \cup {Distill} /\ DecidedEvents' = DecidedEvents \cup {e}
          /\ edges' = edges \cup (Leaves \X {Distill})
          /\ mode' = mode /\ items' = items /\ weak' = weak /\ alike' = alike
          /\ \A n \in Nodes : state'[n] = IF n \in {Distill} THEN "pending" ELSE state[n]
      BY <2>2, <2>4, Added
    <3>2. DecidedEvents' \cap {IndexFile, ReadFile, Recall, Reminder, Search, Distill,
                               Validate} = {}
      BY <1>1, <1>2, <1>3, <1>4, <3>1, Names DEF NoNode
    <3>3. Evidences' = Evidences /\ Leaves' = Leaves
      <4>1. \A n \in Research : RetryOf(n) # Distill
        BY <1>6, Names
      <4>2. Evidences' = Evidences
        BY <3>1, Names DEF Evidences
      <4>3. Leaves' = Leaves
        BY <1>6, <3>1, <4>1, Names DEF Leaves
      <4> QED  BY <4>2, <4>3
    <3>4. CausesOK'
      <4>1. Evidences \subseteq DecidedEvents \cup {e} /\ Evidences # {}
        BY <1>2, <1>8, <1>9, <1>12
      <4>2. Existing' \cap ({Recall, Reminder, Validate} \cup Index \cup Fetch) = {}
        <5>1. Existing \cap (Index \cup Fetch) = {}
          BY ModeOf
        <5> QED  BY <1>3, <1>4, <3>1, <5>1, Names
      <4>3. \A n \in Research : RetryOf(n) \in Existing' => n \in DecidedEvents' /\ n \in weak'
        <5>1. \A n \in Research : RetryOf(n) # Distill
          BY <1>6, Names
        <5> QED  BY <3>1, <5>1 DEF Here, Story, CausesOK
      <4>4. alike' => Retry \cap Existing' # Retry
        BY <3>1, Names DEF Here, Story, CausesOK
      <4> QED  BY <1>6, <3>1, <3>3, <4>1, <4>2, <4>3, <4>4 DEF CausesOK
    <3>5. FilesFollowed'
      BY <3>1, <3>2 DEF FilesFollowed, Went
    <3>6. EvidenceFollowed'
      <4>1. \A n \in Research \cap weak : n \in DecidedEvents' /\ state'[n] = "succeeded"
              => RetryOf(n) \in Existing' \/ (alike' /\ Retry \cap Existing' # {})
        BY <1>6, <1>11, <1>12, <3>1, <3>3
      <4> QED  BY <1>6, <3>1, <3>2, <4>1 DEF EvidenceFollowed, Went
    <3>7. DistillOK'
      <4>1. \A d \in edges : d[2] # Distill
        BY <1>3 DEF Here, Story, EdgesOK
      <4>2. \A n \in Nodes : n \in Leaves <=> <<n, Distill>> \in edges'
        BY <3>1, <4>1
      <4> QED  BY <3>3, <4>2 DEF DistillOK
    <3> QED  BY <3>4, <3>5, <3>6, <3>7
  <2> QED  BY <1>1, <2>1, <2>2, <2>3, <2>4, Growing
<1>13. CASE ~earns /\ ~Landed(Leaves)
  <2>1. Decision(e) = Nothing
    BY <1>5, <1>13
  <2>2. ASSUME Adds(e, {}, {})
        PROVE  FilesFollowed' /\ EvidenceFollowed'
    <3>1. /\ Existing' = Existing /\ DecidedEvents' = DecidedEvents \cup {e}
          /\ mode' = mode /\ items' = items /\ weak' = weak /\ alike' = alike
          /\ \A n \in Nodes : state'[n] = state[n]
      BY <2>2, AddedNothing
    <3>2. DecidedEvents' \cap {IndexFile, ReadFile, Recall, Reminder, Search, Distill,
                               Validate} = {}
      BY <1>1, <1>2, <1>3, <1>4, <3>1, Names DEF NoNode
    <3>3. FilesFollowed'
      BY <3>1, <3>2 DEF FilesFollowed, Went
    <3>4. EvidenceFollowed'
      <4>1. Evidences' = Evidences /\ ~(Evidences \subseteq DecidedEvents \cup {e})
        BY <1>7, <1>8, <1>13, <3>1 DEF Evidences
      <4>2. \A n \in Research \cap weak : n \in DecidedEvents' /\ state'[n] = "succeeded"
              => RetryOf(n) \in Existing' \/ (alike' /\ Retry \cap Existing' # {})
        BY <1>6, <1>11, <1>13, <3>1
      <4> QED  BY <1>6, <3>1, <3>2, <4>1, <4>2 DEF EvidenceFollowed, Went
    <3> QED  BY <3>3, <3>4
  <2> QED  BY <1>1, <2>1, <2>2, Idling
<1> QED  BY <1>10, <1>12, <1>13

(* So every decision the planner may be about to take keeps the story. *)
LEMMA EveryDecision ==
  ASSUME Here, NEW e, Due(e)
  PROVE  Kept(e)
<1>1. CASE e = NoNode
  BY <1>1, StartDecided
<1>2. CASE e # NoNode
  <2>1. e \in Cast \cup {Remember}
    BY <1>2, DueTask DEF Here, Story, CastOK
  <2>2. e \in {ListDirectory, Answer, IndexFile, Recall, Distill, ReadFile, Reminder, Search,
               Content,
               Surface, Validate, Remember} \cup Index \cup Fetch \cup Research \cup Retry
    BY <2>1 DEF Here, ParamsOK, Cast, AllModes, ResearchModes
  <2>3. e \in Retry => mode = "compose_research"
    BY <1>2, DueTask, ModeOf
  <2>4. e \in Fetch \cup Research \cup Retry => Kept(e)
    <3>1. e \in Fetch => mode # "compose_research"
      BY <1>2, DueTask, ModeOf
    <3> QED  BY <2>3, <3>1, EvidenceDecided, ResearchDecided
  <2> QED
    BY <2>2, <2>4, ListDirectoryDecided, LastDecided, IndexFileDecided, RecallDecided, DistillDecided,
       ReadFileDecided, SearchDecided, ContentDecided, ValidateDecided, RememberDecided, IndexDecided
<1> QED  BY <1>1, <1>2

(* Edges that go down the layers close no cycle. *)
LEMMA NoCycle ==
  ASSUME NEW E, \A d \in E : Layer(d[1]) < Layer(d[2])
  PROVE  ~HasCycle(E)
<1> SUFFICES ASSUME NEW S, S # {}, \A n \in S : \E m \in S : <<n, m>> \in E
             PROVE  FALSE
  BY DEF HasCycle
<1>1. ASSUME NEW n PROVE Layer(n) \in 0..4
  BY DEF Layer
<1>2. ASSUME NEW n, NEW m, <<n, m>> \in E
      PROVE  Layer(n) < Layer(m)
  <2> DEFINE d == <<n, m>>
  <2>1. d \in E /\ d[1] = n /\ d[2] = m
    BY <1>2
  <2> HIDE DEF d, Layer
  <2> QED  BY <2>1
<1> HIDE DEF Layer
<1> DEFINE T == {4 - Layer(n) : n \in S}
<1>3. T \in SUBSET Nat
  BY <1>1
<1>4. T # {}
  OBVIOUS
<1> HIDE DEF T
<1>5. PICK t \in T : \A u \in T : t <= u
  BY <1>3, <1>4, FirstIsLeast
<1>6. PICK n \in S : t = 4 - Layer(n)
  BY <1>5 DEF T
<1>7. PICK m \in S : <<n, m>> \in E
  OBVIOUS
<1>8. 4 - Layer(m) \in T
  BY DEF T
<1> QED  BY <1>1, <1>2, <1>5, <1>6, <1>7, <1>8

(* The fields of the planner's patches. *)
LEMMA PatchFields ==
  ASSUME NEW children, NEW parents
  PROVE  /\ Add(children, parents).add = children
         /\ Add(children, parents).connect = parents \X children
         /\ Add(children, parents).cancel = {} /\ Add(children, parents).wait = {}
         /\ Add(children, parents).resume = {} /\ Add(children, parents).finish = FALSE
         /\ Nothing.add = {} /\ Nothing.connect = {} /\ Nothing.cancel = {}
         /\ Nothing.wait = {} /\ Nothing.resume = {} /\ Nothing.finish = FALSE
         /\ Finish.add = {} /\ Finish.connect = {} /\ Finish.cancel = {}
         /\ Finish.wait = {} /\ Finish.resume = {} /\ Finish.finish = TRUE
BY DEF Add, Nothing, Finish

(* They are patches. *)
LEMMA PatchTypes ==
  ASSUME NEW children \in SUBSET Nodes, NEW parents \in SUBSET Nodes
  PROVE  Add(children, parents) \in GraphPatch /\ Nothing \in GraphPatch /\ Finish \in GraphPatch
BY DEF Add, Nothing, Finish, GraphPatch

(* A patch that fits is accepted, and adds what it says. *)
LEMMA FittingApplied ==
  ASSUME Here, NEW e, Due(e), NEW children, NEW parents, Fitting(children, parents)
  PROVE  LET p == Add(children, parents)
         IN  /\ p \in GraphPatch /\ Accepts(p)
             /\ \A t : CommitPatch(p, t) /\ DecidedEvents' = DecidedEvents \cup {e}
                         /\ UNCHANGED params
                       => Adds(e, children, parents)
<1> DEFINE p == Add(children, parents)
<1>1. /\ p.add = children /\ p.connect = parents \X children
      /\ p.cancel = {} /\ p.wait = {} /\ p.resume = {} /\ p.finish = FALSE
  BY DEF Add, Nothing
<1>2. children \subseteq Nodes /\ parents \subseteq Existing /\ Existing \subseteq Nodes
  BY CastIsNodes DEF Here, Fitting, Existing
<1>3. p \in GraphPatch
  BY <1>2, PatchTypes
<1> HIDE DEF p
<1>4. ~HasCycle(edges \cup p.connect)
  <2>1. ASSUME NEW d \in edges PROVE Layer(d[1]) < Layer(d[2])
    BY DEF Here, Story, EdgesOK
  <2>2. ASSUME NEW d \in p.connect PROVE Layer(d[1]) < Layer(d[2])
    <3>1. d[1] \in parents /\ d[2] \in children
      BY <1>1, <2>2
    <3> HIDE DEF Layer
    <3> QED  BY <3>1 DEF Fitting
  <2> HIDE DEF Layer
  <2> QED  BY <2>1, <2>2, NoCycle
<1>5. Accepts(p)
  <2>1. \A d \in p.connect : d[1] \in parents /\ d[2] \in children
    BY <1>1
  <2>2. parents \cap children = {}
    BY DEF Fitting
  <2> QED  BY <1>1, <1>2, <1>4, <2>1, <2>2 DEF Accepts, Due, Fitting
<1>6. ASSUME NEW t, CommitPatch(p, t), DecidedEvents' = DecidedEvents \cup {e}, UNCHANGED params
      PROVE  Adds(e, children, parents)
  <2>1. Leftovers(p) = {}
    BY <1>1 DEF Leftovers
  <2>2. \A n \in Nodes : Rewritten(p, n) = IF n \in children THEN "pending" ELSE state[n]
    BY <1>1 DEF Rewritten
  <2>3. state' = [n \in Nodes |-> IF n \in children THEN "pending" ELSE state[n]]
    BY <1>6, <2>1, <2>2 DEF CommitPatch
  <2>4. edges' = edges \cup (parents \X children) /\ finished' = finished
    BY <1>1, <1>6 DEF CommitPatch, Here, StoreTypeOK
  <2> QED  BY <1>6, <2>3, <2>4 DEF Adds
<1> QED  BY <1>3, <1>5, <1>6 DEF p

(* A patch that does nothing, or ends the run, is accepted as well. *)
LEMMA PlainApplied ==
  ASSUME Here, NEW e, Due(e), NEW p \in {Nothing, Finish}
  PROVE  /\ p \in GraphPatch /\ Accepts(p)
         /\ \A t : CommitPatch(p, t) /\ DecidedEvents' = DecidedEvents \cup {e}
                     /\ UNCHANGED params
                   => IF p = Nothing THEN Adds(e, {}, {}) ELSE Ends(e)
<1>1. /\ p.add = {} /\ p.connect = {} /\ p.cancel = {} /\ p.wait = {} /\ p.resume = {}
      /\ p.finish = (p # Nothing)
  BY PatchFields
<1>2. p \in GraphPatch
  BY PatchTypes
<1> HIDE DEF Nothing, Finish
<1>3. Accepts(p)
  <2>1. ~HasCycle(edges \cup p.connect)
    <3>1. ASSUME NEW d \in edges PROVE Layer(d[1]) < Layer(d[2])
      BY DEF Here, Story, EdgesOK
    <3>2. edges \cup p.connect = edges
      BY <1>1
    <3> HIDE DEF Layer
    <3> QED  BY <3>1, <3>2, NoCycle
  <2> QED  BY <1>1, <2>1 DEF Accepts, Due
<1>4. ASSUME NEW t, CommitPatch(p, t), DecidedEvents' = DecidedEvents \cup {e}, UNCHANGED params
      PROVE  IF p = Nothing THEN Adds(e, {}, {}) ELSE Ends(e)
  <2>1. \A n \in Nodes : Rewritten(p, n) = state[n]
    BY <1>1 DEF Rewritten
  <2>2. edges' = edges /\ finished' = (finished \/ p.finish)
    BY <1>1, <1>4 DEF CommitPatch
  <2>3. CASE p = Nothing
    <3> DEFINE none == {}
    <3>1. none = {} /\ none \X none = {}
      OBVIOUS
    <3> HIDE DEF none
    <3>2. Leftovers(p) = {}
      BY <1>1, <2>3 DEF Leftovers
    <3>3. state' = [n \in Nodes |-> IF n \in none THEN "pending" ELSE state[n]]
      BY <1>4, <2>1, <3>1, <3>2 DEF CommitPatch
    <3>4. finished' = finished /\ edges' = edges \cup (none \X none)
      BY <1>1, <2>2, <2>3, <3>1 DEF Here, StoreTypeOK
    <3>5. Adds(e, none, none)
      BY <1>4, <3>3, <3>4 DEF Adds
    <3> QED  BY <2>3, <3>5 DEF none
  <2>4. CASE p # Nothing
    <3>1. \A n \in Nodes : n \in Leftovers(p) <=> state[n] \in Open
      BY <1>1, <2>1, <2>4 DEF Leftovers
    <3>2. state' = [n \in Nodes |-> IF state[n] \in Open THEN "cancelled" ELSE state[n]]
      BY <1>4, <2>1, <3>1 DEF CommitPatch
    <3>3. finished'
      BY <1>1, <2>2, <2>4
    <3> QED  BY <1>4, <2>2, <2>4, <3>2, <3>3 DEF Ends
  <2> QED  BY <2>3, <2>4
<1> QED  BY <1>2, <1>3, <1>4

(* What the planner decides is a patch that is accepted, and that keeps    *)
(* the story when it is applied.                                           *)
LEMMA DecisionApplied ==
  ASSUME Here, NEW e, Due(e)
  PROVE  /\ Decision(e) \in GraphPatch /\ Accepts(Decision(e))
         /\ \A t : CommitPatch(Decision(e), t) /\ DecidedEvents' = DecidedEvents \cup {e}
                     /\ UNCHANGED params
                   => Story'
<1>1. CASE Decision(e) = Nothing /\ (Adds(e, {}, {}) => Story')
  BY <1>1, PlainApplied
<1>2. CASE Decision(e) = Finish /\ (Ends(e) => Story')
  <2>1. Finish # Nothing
    BY PatchFields
  <2> QED  BY <1>2, <2>1, PlainApplied
<1>3. ASSUME NEW children, NEW parents, Decision(e) = Add(children, parents),
             Fitting(children, parents), Adds(e, children, parents) => Story'
      PROVE  /\ Decision(e) \in GraphPatch /\ Accepts(Decision(e))
             /\ \A t : CommitPatch(Decision(e), t) /\ DecidedEvents' = DecidedEvents \cup {e}
                         /\ UNCHANGED params
                       => Story'
  BY <1>3, FittingApplied
<1> QED  BY <1>1, <1>2, <1>3, EveryDecision DEF Kept

-----------------------------------------------------------------------------
(***************************************************************************)
(* The steps of the calls, and the induction.                              *)
(***************************************************************************)

(* Tasks that start, stop and settle keep the story: whatever is said of a *)
(* task that settled, or was decided, stays as it is.                      *)
LEMMA GoesKeeps ==
  ASSUME Here, Goes
  PROVE  ParamsOK' /\ Story'
<1>1. /\ edges' = edges /\ finished' = finished /\ DecidedEvents' = DecidedEvents
      /\ mode' = mode /\ explicit' = explicit /\ items' = items /\ weak' = weak /\ alike' = alike
  BY DEF Goes, params
<1>2. ASSUME NEW n \in Nodes
      PROVE  /\ state'[n] = "absent" <=> state[n] = "absent"
             /\ state[n] = "succeeded" => state'[n] = "succeeded"
             /\ state[n] = "failed" => state'[n] = "failed"
             /\ state'[n] = "waiting" => state[n] = "waiting"
             /\ state'[n] = "cancelled" => state[n] = "cancelled"
  BY DEF Goes
<1>3. Existing' = Existing
  BY <1>2 DEF Existing
<1>4. Settled \subseteq Settled'
  BY <1>2 DEF Settled
<1>5. DecidedEvents \subseteq Settled \cup {NoNode} /\ NoNode \notin Nodes
  BY CastIsNodes DEF Here, Story, StartOK
<1>6. ASSUME NEW n \in DecidedEvents \cap Nodes
      PROVE  state'[n] = state[n] /\ (Went(n)' <=> Went(n))
  <2>1. state'[n] = state[n]
    BY <1>2, <1>5 DEF Settled
  <2> QED  BY <1>1, <2>1 DEF Went
<1>7. ASSUME NEW n \in Nodes PROVE Went(n)' <=> Went(n)
  BY <1>1, <1>6 DEF Went
<1>8. {Content, Distill, IndexFile, ListDirectory, Search, Remember} \cup Research \subseteq Nodes
  BY Names DEF Here, RunNodes
<1>9. Frontier' = Frontier /\ Cast' = Cast /\ WeakOutcomes' = WeakOutcomes
  BY <1>1 DEF Frontier, Upto, Cast, WeakOutcomes
<1>10. ParamsOK'
  BY <1>1, <1>9 DEF Here, ParamsOK, ItemsOf
<1>11. CastOK'
  BY <1>3, <1>9 DEF Here, Story, CastOK
<1>12. EdgesOK'
  <2> SUFFICES ASSUME NEW d \in edges
               PROVE  /\ d[1] \in Existing' /\ d[2] \in Existing' /\ Layer(d[1]) < Layer(d[2])
                      /\ state'[d[2]] \in {"running", "succeeded", "failed"}
                           => state'[d[1]] = "succeeded"
    BY <1>1 DEF EdgesOK, Layer
  <2>1. /\ d[1] \in Existing /\ d[2] \in Existing /\ Layer(d[1]) < Layer(d[2])
        /\ state[d[2]] \in {"running", "succeeded", "failed"} => state[d[1]] = "succeeded"
    BY DEF Here, Story, EdgesOK
  <2>2. state'[d[2]] \in {"running", "succeeded", "failed"} =>
          \/ state[d[2]] \in {"running", "succeeded", "failed"}
          \/ state[d[1]] = "succeeded"
    BY <2>1 DEF Goes, ParentsSucceeded, Existing
  <2> HIDE DEF Layer
  <2> QED  BY <1>2, <1>3, <2>1, <2>2 DEF Existing
<1>13. CutOK'
  BY <1>1, <1>2 DEF Here, Story, CutOK
<1>14. StartOK'
  BY <1>1, <1>3, <1>4, <1>9 DEF Here, Story, StartOK
<1>15. CausesOK'
  <2>1. Evidences' = Evidences
    BY <1>3 DEF Evidences
  <2> QED  BY <1>1, <1>3, <2>1 DEF Here, Story, CausesOK, RetryOf
<1>16. FilesFollowed'
  <2>1. /\ Went(ListDirectory)' <=> Went(ListDirectory)
        /\ Went(IndexFile)' <=> Went(IndexFile)
        /\ Went(Remember)' <=> Went(Remember)
    BY <1>7, <1>8
  <2>2. FilesFollowed
    BY DEF Here, Story
  <2> HIDE DEF Went
  <2> QED  BY <1>1, <1>3, <2>1, <2>2 DEF FilesFollowed, Upto
<1>17. EvidenceFollowed'
  <2>1. /\ Went(Search)' <=> Went(Search)
        /\ \A n \in Research : Went(n)' <=> Went(n)
    BY <1>7, <1>8
  <2>2. Evidences' = Evidences
    BY <1>3 DEF Evidences
  <2>3. Distill \in DecidedEvents => state'[Distill] = state[Distill]
    BY <1>6, <1>8
  <2>4. EvidenceFollowed
    BY DEF Here, Story
  <2> HIDE DEF Went
  <2> QED  BY <1>1, <1>3, <2>1, <2>2, <2>3, <2>4 DEF EvidenceFollowed, Upto, RetryOf
<1>18. EndFollowed'
  <2>1. Went(Content)' <=> Went(Content)
    BY <1>7, <1>8
  <2>2. Content \in DecidedEvents => state'[Content] = state[Content]
    BY <1>6, <1>8
  <2> HIDE DEF Went
  <2> QED  BY <1>1, <1>3, <2>1, <2>2 DEF Here, Story, EndFollowed
<1>19. AnswerOK' /\ DistillOK'
  <2>1. AnswerOK'
    BY <1>1, <1>3 DEF Here, Story, AnswerOK
  <2>2. Leaves' = Leaves
    BY <1>3 DEF Leaves, RetryOf
  <2>3. DistillOK'
    BY <1>1, <1>3, <2>2 DEF Here, Story, DistillOK
  <2> QED  BY <2>1, <2>3
<1>20. SurfaceOK'
  BY <1>1, <1>2, <1>3, <1>8 DEF Here, Story, SurfaceOK
<1> QED
  BY <1>10, <1>11, <1>12, <1>13, <1>14, <1>15, <1>16, <1>17, <1>18, <1>19, <1>20 DEF Story

-----------------------------------------------------------------------------
(* While a run goes on one event at most waits for the planner.            *)
OnePending == ~finished => \A t, u \in PendingPlannerEvents : t = u

(* What is known of every live graph whose calls follow one another,       *)
Sound ==
  /\ TypeOK /\ ControlOK /\ FinishedIsQuiescent /\ OutcomesMatchState
  /\ QueueOK /\ EventsOK /\ SeriesOK /\ PlanningOK /\ OnePending

(* and of one that runs in a mode.                                         *)
RunInvariant == Sound /\ ParamsOK /\ Story

(* A transaction that holds no event of the planner leaves no more to plan.*)
LEMMA NoEventPends ==
  ASSUME StoreTypeOK, OnePending, NEW rows, Commit(rows), patched \subseteq patched',
         \A r \in rows : r.kind \notin PlannerKinds, finished => finished'
  PROVE  OnePending'
<1>1. PlannerEvents' = PlannerEvents
  BY EventsAppend
<1> QED  BY <1>1 DEF OnePending, PendingPlannerEvents

(* An event is made when there is none to plan: by the first call, or by   *)
(* the active one once it has planned all the others.                      *)
LEMMA PendingStep ==
  ASSUME Sound, [Next]_vars
  PROVE  OnePending'
<1>0. StoreTypeOK /\ OnePending
  BY TypeOKSplits DEF Sound
<1>1. ASSUME UNCHANGED store
      PROVE  OnePending'
  BY <1>0, <1>1 DEF store, OnePending, PendingPlannerEvents, PlannerEvents
<1>2. CASE Start
  <2> DEFINE rows == {Row("run_started", NoNode)}
  <2>1. Commit(rows) /\ ~known /\ patched' = patched
    BY <1>2 DEF Start
  <2>2. PlannerEvents = {}
    BY <2>1 DEF Sound, EventsOK
  <2> HIDE DEF rows
  <2>3. PlannerEvents' \subseteq {Len(journal')}
    BY <1>0, <2>1, <2>2, EventsAppend
  <2> QED  BY <2>3 DEF OnePending, PendingPlannerEvents
<1>3. CASE Resume
  <2>1. \A r \in {Row("run_resumed", NoNode)} : r.kind \notin PlannerKinds
    BY DEF Row, PlannerKinds
  <2> QED  BY <1>0, <1>3, <2>1, NoEventPends DEF Resume
<1>4. ASSUME NEW tasks, MarkRunning(tasks)
      PROVE  OnePending'
  <2>1. \A r \in {Row("task_started", n) : n \in tasks} : r.kind \notin PlannerKinds
    BY DEF Row, PlannerKinds
  <2> QED  BY <1>0, <1>4, <2>1, NoEventPends DEF MarkRunning
<1>5. ASSUME NEW p, NEW t, CommitPatch(p, t)
      PROVE  OnePending'
  <2> DEFINE rows == {Row("task_cancelled", n) : n \in p.cancel \cup Leftovers(p)}
                       \cup {PatchRow(t)}
  <2>1. \A r \in rows : r.kind \notin PlannerKinds
    BY DEF Row, PatchRow, PlannerKinds
  <2>2. Commit(rows) /\ patched \subseteq patched' /\ (finished => finished')
    BY <1>5 DEF CommitPatch
  <2> HIDE DEF rows
  <2> QED  BY <1>0, <2>1, <2>2, NoEventPends
<1>6. ASSUME NEW i \in Invocations, NEW m \in Futures, TakeOutcome(i, m)
      PROVE  OnePending'
  <2>1. finished' = finished /\ patched' = patched
    BY <1>6 DEF TakeOutcome, RecordOutcome
  <2>2. ~finished => PendingPlannerEvents = {}
    BY <1>6 DEF TakeOutcome, Sound, PlanningOK, KnowsPending, Active
  <2>3. PICK rows : Commit(rows)
    BY <1>6 DEF TakeOutcome, RecordOutcome
  <2>4. PlannerEvents' \subseteq PlannerEvents \cup {Len(journal')}
    BY <1>0, <2>3, EventsAppend
  <2> QED  BY <2>1, <2>2, <2>4 DEF OnePending, PendingPlannerEvents
<1>7. ASSUME NEW i \in Invocations, Begin(i) \/ Launch(i)
      PROVE  OnePending'
  BY <1>2, <1>3, <1>4, <1>7 DEF Begin, Launch
<1>8. ASSUME NEW i \in Invocations, PlanReturns(i)
      PROVE  OnePending'
  BY <1>1, <1>5, <1>8 DEF PlanReturns, PlanAnswers
<1>9. ASSUME \/ \E i \in Invocations :
                  \/ LaunchNothing(i) \/ WaitReturns(i) \/ PlanRaises(i)
                  \/ \E m \in Futures :
                       DropResult(i, m) \/ OutcomeRefused(i, m) \/ Worker(i, m)
             \/ Crash
             \/ UNCHANGED vars
      PROVE  OnePending'
  BY <1>1, <1>9 DEF LaunchNothing, WaitReturns, DropResult, OutcomeRefused, PlanRaises,
                    Worker, WorkerEnds, WorkerCancelled, Crash, vars
<1> QED  BY <1>6, <1>7, <1>8, <1>9 DEF Next, Step, Handle

(* Whatever is sound stays so. *)
LEMMA SoundStep ==
  ASSUME Setting, Sound, [Next]_vars
  PROVE  Sound'
<1>1. TypeOK' /\ ControlOK' /\ StoreStep /\ StoreTypeOK
  BY StepType, TypeOKSplits DEF Sound
<1>2. FinishedIsQuiescent' /\ OutcomesMatchState'
  BY <1>1, FinishedStep, OutcomesStep DEF Sound
<1>3. QueueOK' /\ patched' \subseteq patched \cup PlannerEvents
  BY QueueStep, PatchedWereQueued DEF Sound
<1>4. EventsOK'
  BY <1>1, <1>3, EventsStep DEF Sound
<1>5. SeriesOK' /\ PlanningOK'
  BY <1>2, SeriesStep, PlanningStep DEF Sound, Setting
<1>6. OnePending'
  BY PendingStep
<1> QED  BY <1>1, <1>2, <1>3, <1>4, <1>5, <1>6 DEF Sound

(* The call that plans has one event to plan, and that is what is due; the *)
(* planner is asked about it.                                              *)
LEMMA PlanIsDue ==
  ASSUME RunInvariant, NEW i \in Invocations, pc[i] = "plan"
  PROVE  LET t == First(queue[i])
         IN  /\ t \in PlannerEvents \ patched
             /\ \E e \in Triggers :
                  /\ Due(e) /\ Planned(i) = Decision(e)
                  /\ RowsOf(PlannerKinds, e) = {t}
                  /\ \A n \in Triggers : t \in RowsOf(PlannerKinds, n) <=> n = e
<1> DEFINE t == First(queue[i])
<1>0. TypeOK /\ ControlOK /\ EventsOK /\ OutcomesMatchState /\ NoNode \notin Nodes
  BY NodesAssumption DEF RunInvariant, Sound, NoNode
<1>1. t \in queue[i] /\ t \in DOMAIN journal
  BY <1>0, FirstOfEvents DEF TypeOK, StoreTypeOK, ControlOK
<1>2. ~finished /\ queue[i] = PendingPlannerEvents
  BY <1>1 DEF RunInvariant, Sound, PlanningOK, KnowsPending, Active, Awaiting
<1>3. t \in PlannerEvents \ patched /\ \A u \in PendingPlannerEvents : u = t
  BY <1>1, <1>2 DEF PendingPlannerEvents, RunInvariant, Sound, OnePending
<1> HIDE DEF t
<1>4. PICK e \in Triggers :
        /\ \A n \in Triggers : t \in RowsOf(PlannerKinds, n) <=> n = e
        /\ RowsOf(PlannerKinds, e) = {t}
        /\ IF e \in Nodes THEN state[e] \in {"succeeded", "failed"} ELSE known
  BY <1>0, <1>3, EventIsOfOne
<1>5. Due(e)
  <2>1. e \notin DecidedEvents
    BY <1>3, <1>4 DEF DecidedEvents
  <2>2. e \in Settled \cup {NoNode}
    BY <1>4 DEF Triggers, Settled
  <2>3. ASSUME NEW n \in Settled PROVE n \in DecidedEvents \cup {e}
    <3>1. n \in Nodes /\ (state[n] = "succeeded" \/ state[n] = "failed")
      BY DEF Settled
    <3>2. RowsOf({"task_succeeded"}, n) # {} \/ RowsOf({"task_failed"}, n) # {}
      BY <1>0, <3>1 DEF OutcomesMatchState
    <3>3. PICK u : u \in RowsOf({"task_succeeded"}, n) \/ u \in RowsOf({"task_failed"}, n)
      BY <3>2
    <3>4. u \in RowsOf(PlannerKinds, n) /\ u \in PlannerEvents
      BY <3>3 DEF RowsOf, PlannerKinds, PlannerEvents
    <3>5. CASE u \in patched
      BY <3>1, <3>4, <3>5 DEF DecidedEvents
    <3>6. CASE u \notin patched
      BY <1>3, <1>4, <3>1, <3>4, <3>6 DEF PendingPlannerEvents, Triggers
    <3> QED  BY <3>5, <3>6
  <2> QED  BY <1>2, <2>1, <2>2, <2>3 DEF Due
<1>6. Planned(i) = Decision(e)
  <2>1. PICK r \in journal[t] : r.kind \in PlannerKinds
    BY <1>3 DEF PlannerEvents
  <2>2. journal[t] = {r}
    BY <1>1, <2>1, <1>0 DEF EventsOK
  <2>3. EventRow(t) = r
    BY <2>1, <2>2 DEF EventRow
  <2>4. r.node = e
    BY <1>4, <2>1, <2>2 DEF RowsOf
  <2>5. r.kind = Kind(e)
    <3>1. CASE e = NoNode
      BY <1>0, <1>1, <2>1, <2>4, <3>1 DEF EventsOK, PlannerKinds, OutcomeKinds, Kind
    <3>2. CASE e # NoNode
      <4>1. e \in Nodes
        BY <3>2 DEF Triggers
      <4>2. r.kind # "run_started"
        BY <1>0, <1>1, <2>4, <3>2 DEF EventsOK
      <4>3. r.kind = "task_succeeded" => state[e] = "succeeded"
        <5> SUFFICES ASSUME r.kind = "task_succeeded"
                     PROVE  t \in RowsOf({"task_succeeded"}, e)
          BY <1>0, <4>1 DEF OutcomesMatchState
        <5> QED  BY <1>1, <2>1, <2>4 DEF RowsOf
      <4>4. r.kind = "task_failed" => state[e] = "failed"
        <5> SUFFICES ASSUME r.kind = "task_failed"
                     PROVE  t \in RowsOf({"task_failed"}, e)
          BY <1>0, <4>1 DEF OutcomesMatchState
        <5> QED  BY <1>1, <2>1, <2>4 DEF RowsOf
      <4> QED  BY <2>1, <3>2, <4>2, <4>3, <4>4 DEF PlannerKinds, Kind
    <3> QED  BY <3>1, <3>2
  <2>6. ASSUME NEW row, row.kind = Kind(e), row.node = e PROVE Plan(row) = Decision(e)
    <3>1. Row(Kind(e), e).kind = Kind(e) /\ Row(Kind(e), e).node = e
      BY DEF Row
    <3> QED  BY <2>6, <3>1 DEF Plan, Decision
  <2> QED  BY <2>3, <2>4, <2>5, <2>6 DEF Planned, t
<1> QED  BY <1>3, <1>4, <1>5, <1>6 DEF t

(* The patch for the event of e decides e and nothing else. *)
LEMMA DecidedGrows ==
  ASSUME StoreTypeOK, NEW p, NEW t, CommitPatch(p, t), NEW e \in Triggers,
         RowsOf(PlannerKinds, e) = {t},
         \A n \in Triggers : t \in RowsOf(PlannerKinds, n) <=> n = e
  PROVE  DecidedEvents' = DecidedEvents \cup {e}
<1> DEFINE rows == {Row("task_cancelled", n) : n \in p.cancel \cup Leftovers(p)}
                     \cup {PatchRow(t)}
<1>1. Commit(rows) /\ patched' = patched \cup {t}
  BY DEF CommitPatch
<1>2. \A r \in rows : r.kind \notin PlannerKinds
  BY DEF Row, PatchRow, PlannerKinds
<1> HIDE DEF rows
<1>3. ASSUME NEW n \in Triggers PROVE RowsOf(PlannerKinds, n)' = RowsOf(PlannerKinds, n)
  BY <1>1, <1>2, RowsKept DEF Holds
<1>4. DecidedEvents' = {n \in Triggers : RowsOf(PlannerKinds, n) \cap (patched \cup {t}) # {}}
  BY <1>1, <1>3 DEF DecidedEvents, Triggers
<1>5. DecidedEvents = {n \in Triggers : RowsOf(PlannerKinds, n) \cap patched # {}}
  BY DEF DecidedEvents, Triggers
<1> QED  BY <1>4, <1>5

-----------------------------------------------------------------------------
(* A step of a run is a step of the live graph, whose planner answers what *)
(* it is asked.                                                            *)
LEMMA RunStepsAreSteps ==
  ASSUME Setting, RunInvariant, RunNext
  PROVE  Next
<1>1. ASSUME NEW i \in Invocations, PlanAnswers(i, Planned(i))
      PROVE  PlanReturns(i)
  <2>1. pc[i] = "plan"
    BY <1>1 DEF PlanAnswers
  <2>2. PICK e : Due(e) /\ Planned(i) = Decision(e)
    BY <2>1, PlanIsDue
  <2>3. Planned(i) \in Patches
    BY <2>2, DecisionApplied DEF Here, RunInvariant, Sound, TypeOK, Setting
  <2> QED  BY <1>1, <2>3 DEF PlanReturns
<1>2. ASSUME NEW i \in Invocations, RunStep(i)
      PROVE  Begin(i) \/ Step(i)
  BY <1>1, <1>2 DEF RunStep, Step, Handle
<1> QED  BY <1>2 DEF RunNext, Next

(* Any step but a plan lets the story go on. *)
LEMMA OtherStepsGo ==
  ASSUME Sound, UNCHANGED params,
         \/ \E i \in Invocations :
              \/ Begin(i) \/ Launch(i) \/ LaunchNothing(i) \/ WaitReturns(i)
              \/ \E t \in Futures : DropResult(i, t) \/ TakeOutcome(i, t) \/ Worker(i, t)
         \/ Crash
         \/ UNCHANGED vars
  PROVE  Goes
<1>0. StoreTypeOK /\ NoNode \notin Nodes
  BY TypeOKSplits, NodesAssumption DEF Sound, NoNode
<1>1. ASSUME UNCHANGED store
      PROVE  Goes
  <2>1. DecidedEvents' = DecidedEvents
    BY <1>1 DEF store, DecidedEvents, RowsOf
  <2> QED  BY <1>1, <2>1 DEF store, Goes
<1>2. CASE Start
  <2>1. DecidedEvents' = DecidedEvents
    BY <1>0, <1>2, DecidedKept DEF Start
  <2> QED  BY <1>2, <2>1 DEF Start, Goes
<1>3. CASE Resume
  <2>1. DecidedEvents' = DecidedEvents
    BY <1>0, <1>3, DecidedKept DEF Resume
  <2>2. \A n \in Nodes : state'[n] = IF state[n] = "running" THEN "pending" ELSE state[n]
    BY <1>3 DEF Resume, Interrupted
  <2>3. \A n \in Nodes : state[n] = "running" => ~finished
    BY DEF Sound, FinishedIsQuiescent, Open
  <2> QED  BY <1>3, <2>1, <2>2, <2>3 DEF Resume, Goes
<1>4. ASSUME NEW i \in Invocations, Launch(i)
      PROVE  Goes
  <2> DEFINE tasks == Launchable(i)
  <2>1. MarkRunning(tasks) /\ tasks # {}
    BY <1>4 DEF Launch
  <2>2. ~finished /\ tasks \subseteq Runnable
    BY <2>1 DEF Launchable, Ready
  <2> HIDE DEF tasks
  <2>3. DecidedEvents' = DecidedEvents
    BY <1>0, <2>1, DecidedKept DEF MarkRunning
  <2> QED  BY <2>1, <2>2, <2>3 DEF MarkRunning, Runnable, Goes
<1>5. ASSUME NEW i \in Invocations, NEW t \in Futures, TakeOutcome(i, t)
      PROVE  Goes
  <2>1. PICK m, success : m = t[1] /\ RecordOutcome(m, success)
    BY <1>5 DEF TakeOutcome
  <2>2. m \in Nodes
    BY <2>1 DEF Futures
  <2>3. DecidedEvents' = DecidedEvents
    BY <1>0, <2>1, DecidedKept DEF RecordOutcome
  <2>4. state[m] = "running" /\ ~finished
    BY <2>1, <2>2 DEF RecordOutcome, OutcomeAccepted, Sound, FinishedIsQuiescent, Open
  <2>5. \A n \in Nodes : state'[n] = IF n = m THEN (IF success THEN "succeeded" ELSE "failed")
                                     ELSE state[n]
    BY <1>0, <2>1 DEF RecordOutcome, StoreTypeOK
  <2> QED  BY <2>1, <2>3, <2>4, <2>5 DEF RecordOutcome, Goes
<1>6. ASSUME NEW i \in Invocations, Begin(i)
      PROVE  Goes
  BY <1>2, <1>3, <1>6 DEF Begin
<1> QED
  BY <1>1, <1>4, <1>5, <1>6 DEF LaunchNothing, WaitReturns, DropResult, Worker, WorkerEnds,
     WorkerCancelled, Crash, vars

(* And a plan takes the decision that is due. *)
LEMMA PlanKeeps ==
  ASSUME Setting, RunInvariant, UNCHANGED params,
         NEW i \in Invocations, PlanAnswers(i, Planned(i))
  PROVE  ParamsOK' /\ Story'
<1> DEFINE t == First(queue[i])
<1>0. Here
  BY DEF Here, RunInvariant, Sound, TypeOK, Setting
<1>1. pc[i] = "plan"
  BY DEF PlanAnswers
<1>2. t \in PlannerEvents \ patched
  BY <1>1, PlanIsDue
<1>3. PICK e \in Triggers :
        /\ Due(e) /\ Planned(i) = Decision(e)
        /\ RowsOf(PlannerKinds, e) = {t}
        /\ \A n \in Triggers : t \in RowsOf(PlannerKinds, n) <=> n = e
  BY <1>1, PlanIsDue
<1>4. CommitPatch(Decision(e), t)
  BY <1>2, <1>3 DEF PlanAnswers, Unpatched
<1> HIDE DEF t
<1>5. DecidedEvents' = DecidedEvents \cup {e}
  BY <1>0, <1>3, <1>4, DecidedGrows DEF Here
<1>6. Story'
  BY <1>0, <1>3, <1>4, <1>5, DecisionApplied
<1>7. ParamsOK'
  BY DEF RunInvariant, ParamsOK, params, ItemsOf, WeakOutcomes
<1> QED  BY <1>6, <1>7

(* The story holds in the beginning, before there is any task. *)
LEMMA RunBegins ==
  ASSUME Setting, RunInit
  PROVE  RunInvariant
<1>0. Init /\ TypeOK /\ ControlOK
  BY InitType DEF RunInit
<1>1. Sound
  BY <1>0 DEF Sound, Init, StoreInit, FinishedIsQuiescent, OutcomesMatchState, RowsOf, QueueOK,
              EventsOK, SeriesOK, PlanningOK, OnePending, PlannerEvents, PendingPlannerEvents,
              Active, Awaiting
<1>2. ParamsOK
  BY DEF RunInit, ParamsOK, Likeness, Setting
<1>3. /\ \A n \in Nodes : state[n] = "absent"
      /\ edges = {} /\ ~finished /\ DecidedEvents = {}
  BY <1>0 DEF Init, StoreInit, DecidedEvents
<1>4. Existing = {} /\ Evidences = {}
  BY <1>3 DEF Existing, Evidences
<1>5. CastOK /\ EdgesOK /\ CutOK /\ StartOK
  BY <1>3, <1>4 DEF CastOK, EdgesOK, CutOK, StartOK
<1>6. CausesOK /\ AnswerOK /\ SurfaceOK /\ DistillOK
  BY <1>4, Names DEF CausesOK, AnswerOK, SurfaceOK, DistillOK
<1>7. FilesFollowed /\ EvidenceFollowed /\ EndFollowed
  BY <1>3, <1>4 DEF FilesFollowed, EvidenceFollowed, EndFollowed, Went
<1> QED  BY <1>1, <1>2, <1>5, <1>6, <1>7 DEF RunInvariant, Story

(* Every step keeps it, *)
LEMMA RunInvariantStep ==
  ASSUME Setting, RunInvariant, [RunNext]_<<vars, params>>
  PROVE  RunInvariant' /\ [Next]_vars
<1>1. [Next]_vars /\ UNCHANGED params
  BY RunStepsAreSteps DEF RunNext
<1>2. Sound'
  BY <1>1, SoundStep DEF RunInvariant
<1>3. Here
  BY DEF Here, RunInvariant, Sound, TypeOK, Setting
<1>4. ParamsOK' /\ Story'
  <2>1. ASSUME NEW i \in Invocations, PlanAnswers(i, Planned(i))
        PROVE  ParamsOK' /\ Story'
    BY <1>1, <2>1, PlanKeeps
  <2>2. CASE \/ \E i \in Invocations :
                  \/ Begin(i) \/ Launch(i) \/ LaunchNothing(i) \/ WaitReturns(i)
                  \/ \E t \in Futures : DropResult(i, t) \/ TakeOutcome(i, t) \/ Worker(i, t)
             \/ Crash
             \/ UNCHANGED vars
    BY <1>1, <1>3, <2>2, OtherStepsGo, GoesKeeps DEF RunInvariant
  <2> QED  BY <2>1, <2>2 DEF RunNext, RunStep
<1> QED  BY <1>1, <1>2, <1>4 DEF RunInvariant

(* so it holds for ever.                                                   *)
LEMMA RunInvariantAlways ==
  ASSUME Setting
  PROVE  RunSpec => []RunInvariant /\ Spec
<1>1. RunInit => RunInvariant
  BY RunBegins
<1>2. RunInvariant /\ [RunNext]_<<vars, params>> => RunInvariant' /\ [Next]_vars
  BY RunInvariantStep
<1>3. RunInit => Init
  BY DEF RunInit
<1> QED  BY <1>1, <1>2, <1>3, PTL DEF RunSpec, Spec

-----------------------------------------------------------------------------
(* All the researchers of a research mode take part from the start.        *)
LEMMA ResearchersThere ==
  ASSUME Setting, RunInvariant, mode \in ResearchModes, Existing # {}
  PROVE  Research \subseteq Existing
<1>1. items = 2
  BY FanOutAssumption DEF RunInvariant, ParamsOK, ItemsOf, ResearchModes
<1>2. Frontier = Research
  BY <1>1, Families DEF Frontier, ResearchModes
<1>3. Frontier \subseteq Existing
  BY DEF RunInvariant, Story, StartOK
<1> QED  BY <1>2, <1>3

(* A retry takes the place of the outcome it corrects: of the two, one is  *)
(* a leaf; and when the evidence is distilled it has landed.               *)
LEMMA LeavesAreOne ==
  ASSUME Setting, RunInvariant, mode = "compose_research", Distill \in Existing
  PROVE  /\ \A n \in Research : (n \in Leaves) # (RetryOf(n) \in Leaves)
         /\ Leaves # {} /\ Leaves \subseteq Settled \cap DecidedEvents
         /\ Leaves \subseteq Research \cup Retry
<1>1. Research \subseteq Existing
  BY ResearchersThere DEF ResearchModes
<1>2. ASSUME NEW n \in Research PROVE RetryOf(n) \in Retry /\ RetryOf(n) \notin Research
  BY Families, Names
<1>3. ASSUME NEW n \in Research PROVE (n \in Leaves) # (RetryOf(n) \in Leaves)
  <2>1. n \in Leaves <=> RetryOf(n) \notin Existing
    BY <1>1 DEF Leaves
  <2>2. RetryOf(n) \in Leaves <=> RetryOf(n) \in Existing
    BY <1>2 DEF Leaves
  <2>3. (n \in Leaves) \in BOOLEAN /\ (RetryOf(n) \in Leaves) \in BOOLEAN
    BY DEF Leaves
  <2> QED  BY <2>1, <2>2, <2>3
<1>4. Leaves # {}
  <2>1. 17 \in Research
    BY Names
  <2> QED  BY <1>3, <2>1
<1>5. Leaves \subseteq Evidences
  BY DEF Leaves, Evidences
<1>6. Evidences \subseteq DecidedEvents
  BY DEF RunInvariant, Story, CausesOK
<1>7. Evidences \subseteq Nodes /\ NoNode \notin Nodes
  BY NodesAssumption DEF Evidences, Existing, NoNode
<1>8. DecidedEvents \subseteq Settled \cup {NoNode}
  BY DEF RunInvariant, Story, StartOK
<1> QED  BY <1>3, <1>4, <1>5, <1>6, <1>7, <1>8 DEF Leaves

(***************************************************************************)
(* A run with the deterministic planner is a behaviour of the live graph,  *)
(* whose planner may answer with anything, so it keeps the contract of a   *)
(* run.                                                                    *)
(***************************************************************************)
THEOREM RunIsALiveGraph ==
  ASSUME Setting
  PROVE  RunSpec => Spec /\ KeepsContract
BY RunInvariantAlways, KeepsContractAlways, PTL

(***************************************************************************)
(* apply_patch never refuses what the deterministic planner answers, in    *)
(* any mode, for any outcomes of the workers, and through any crashes and  *)
(* replays.                                                                *)
(***************************************************************************)
THEOREM PlansAreAcceptedAlways ==
  ASSUME Setting
  PROVE  RunSpec => []PlansAreAccepted
<1>1. RunInvariant => PlansAreAccepted
  <2> SUFFICES ASSUME RunInvariant, NEW i \in Invocations, pc[i] = "plan"
               PROVE  Accepts(Planned(i))
    BY DEF PlansAreAccepted
  <2>1. PICK e : Due(e) /\ Planned(i) = Decision(e)
    BY PlanIsDue
  <2> QED  BY <2>1, DecisionApplied DEF Here, RunInvariant, Sound, TypeOK, Setting
<1> QED  BY <1>1, RunInvariantAlways, PTL

(***************************************************************************)
(* "A weak outcome does NOT get to flow into compose; it earns ONE         *)
(* corrective retry", as far as it is true of subjects that may share a    *)
(* slug: a distill of researched evidence is over one landed leaf of each  *)
(* subject and one retry of each slug at most, and over a weak first       *)
(* outcome only if it failed or another subject took the retry.            *)
(***************************************************************************)
THEOREM EvidenceIsEarnedAlways ==
  ASSUME Setting
  PROVE  RunSpec => []EvidenceIsEarned
<1>1. RunInvariant => EvidenceIsEarned
  <2> SUFFICES ASSUME RunInvariant, mode = "compose_research", Distill \in Existing
               PROVE  LET parents == {e[1] : e \in {e \in edges : e[2] = Distill}}
                      IN  /\ Landed(parents)
                          /\ \A n \in Research :
                               /\ (n \in parents) # (RetryOf(n) \in parents)
                               /\ \A m \in Alike(n) :
                                    {RetryOf(m), RetryOf(n)} \subseteq parents => m = n
                          /\ \A n \in parents \cap weak :
                               state[n] = "failed" \/ \E m \in Alike(n) : RetryOf(m) \in parents
    BY DEF EvidenceIsEarned
  <2> DEFINE parents == {e[1] : e \in {e \in edges : e[2] = Distill}}
  <2>1. parents = Leaves
    <3>1. edges \subseteq Nodes \X Nodes
      BY DEF RunInvariant, Sound, TypeOK, StoreTypeOK
    <3>2. ASSUME NEW n \in Nodes PROVE n \in Leaves <=> <<n, Distill>> \in edges
      BY DEF RunInvariant, Story, DistillOK
    <3>3. ASSUME NEW n \in Nodes PROVE n \in parents <=> <<n, Distill>> \in edges
      <4>1. ASSUME NEW e \in edges, e[2] = Distill, e[1] = n PROVE <<n, Distill>> \in edges
        BY <3>1, <4>1
      <4>2. ASSUME <<n, Distill>> \in edges PROVE n \in parents
        <5> DEFINE d == <<n, Distill>>
        <5>1. d \in edges /\ d[1] = n /\ d[2] = Distill
          BY <4>2
        <5> HIDE DEF d
        <5> QED  BY <5>1
      <4> QED  BY <4>1, <4>2
    <3>4. parents \subseteq Nodes /\ Leaves \subseteq Nodes
      BY <3>1 DEF Leaves, Existing
    <3> HIDE DEF parents
    <3> QED  BY <3>2, <3>3, <3>4
  <2> HIDE DEF parents
  <2>2. /\ \A n \in Research : (n \in Leaves) # (RetryOf(n) \in Leaves)
        /\ Leaves # {} /\ Leaves \subseteq Settled \cap DecidedEvents
        /\ Leaves \subseteq Research \cup Retry
    BY LeavesAreOne
  <2>3. Landed(Leaves)
    BY <2>2 DEF Landed, Settled, Terminal
  <2>4. ASSUME NEW n \in Research, NEW m \in Alike(n), {RetryOf(m), RetryOf(n)} \subseteq Leaves
        PROVE  m = n
    <3>1. {RetryOf(m), RetryOf(n)} \subseteq Existing
      BY <2>4 DEF Leaves
    <3>2. CASE ~alike
      BY <2>4, <3>2 DEF Alike
    <3>3. CASE alike
      <4>1. Retry \cap Existing # Retry
        BY <3>3 DEF RunInvariant, Story, CausesOK
      <4>2. m \in Research
        BY <2>4, <3>3 DEF Alike
      <4> QED  BY <3>1, <4>1, <4>2, Names, Families
    <3> QED  BY <3>2, <3>3
  <2>5. ASSUME NEW n \in Leaves \cap weak, state[n] # "failed"
        PROVE  \E m \in Alike(n) : RetryOf(m) \in Leaves
    <3>1. n \in Research
      BY DEF RunInvariant, ParamsOK, WeakOutcomes
    <3>2. RetryOf(n) \notin Existing
      BY <3>1 DEF Leaves
    <3>3. Went(n)
      BY <2>2, <2>5 DEF Went, Settled
    <3>4. alike /\ Retry \cap Existing # {}
      BY <3>1, <3>2, <3>3 DEF RunInvariant, Story, EvidenceFollowed
    <3>5. PICK m \in Research : RetryOf(m) \in Existing
      BY <3>4, Names, Families
    <3>6. RetryOf(m) \in Leaves
      BY <3>5, Names, Families DEF Leaves
    <3> QED  BY <3>4, <3>5, <3>6 DEF Alike
  <2> QED  BY <2>1, <2>2, <2>3, <2>4, <2>5 DEF parents
<1> QED  BY <1>1, RunInvariantAlways, PTL

-----------------------------------------------------------------------------
(* While the answer runs all the work has settled, and it reads the work.  *)
LEMMA AnswerMissesNothing ==
  ASSUME Setting, RunInvariant, state[Answer] = "running"
  PROVE  LET work == Existing \ {Answer, Surface, Recall, Remember}
         IN  /\ work \subseteq Settled
             /\ work \subseteq AnswerReads \cup {ListDirectory, ReadFile, Search}
                                 \cup {n \in Research \cup Retry : state[n] = "failed"}
<1> DEFINE work == Existing \ {Answer, Surface, Recall, Remember}
<1>1. Answer \in Existing
  BY Names DEF Setting, RunNodes, Existing
<1>2. work \subseteq DecidedEvents
  BY <1>1 DEF RunInvariant, Story, AnswerOK
<1>3. work \subseteq Settled
  <2>1. NoNode \notin work
    BY NodesAssumption DEF Existing, NoNode
  <2> QED  BY <1>2, <2>1 DEF RunInvariant, Story, StartOK
<1>4. ASSUME NEW n \in work
      PROVE  n \in {ListDirectory, IndexFile, Distill, ReadFile, Reminder, Search, Validate}
                     \cup Index \cup Fetch \cup Research \cup Retry
  <2>1. n \in Cast /\ Answer \in Cast
    BY <1>1, Names DEF RunInvariant, Story, CastOK
  <2>2. mode \in AllModes /\ mode # "compose_answer"
    BY <2>1, Names DEF RunInvariant, ParamsOK, Cast
  <2> QED  BY <2>1, <2>2 DEF Cast, AllModes, ResearchModes
<1>5. ASSUME NEW n \in work
      PROVE  n \in AnswerReads \cup {ListDirectory, ReadFile, Search}
                     \cup {m \in Research \cup Retry : state[m] = "failed"}
  <2>1. n \in Existing /\ state[n] \in {"succeeded", "failed"}
    BY <1>3 DEF Settled
  <2> QED  BY <1>4, <2>1 DEF AnswerReads
<1> QED  BY <1>3, <1>5

(* While a surface of researched items runs all the work has settled, and  *)
(* it shows the items that were distilled.                                 *)
LEMMA SurfaceMissesNothing ==
  ASSUME Setting, RunInvariant, state[Surface] = "running", mode = "compose_research"
  PROVE  LET work == Existing \ {Answer, Surface, Recall, Remember}
             distilled == {n \in Research \cup Retry : <<n, Distill>> \in edges}
         IN  /\ work \subseteq Settled /\ Distill \in work
             /\ SurfaceItems \ {Remember} = distilled
             /\ \A n \in Research : (n \in distilled) # (RetryOf(n) \in distilled)
<1> DEFINE work == Existing \ {Answer, Surface, Recall, Remember}
           distilled == {n \in Research \cup Retry : <<n, Distill>> \in edges}
<1>1. Surface \in Existing /\ Distill \in Nodes /\ Research \cup Retry \subseteq Nodes
  BY Names DEF Setting, RunNodes, Existing
<1>2. work \subseteq DecidedEvents /\ state[Distill] = "succeeded"
  BY <1>1 DEF RunInvariant, Story, SurfaceOK
<1>3. work \subseteq Settled
  <2>1. NoNode \notin work
    BY NodesAssumption DEF Existing, NoNode
  <2> QED  BY <1>2, <2>1 DEF RunInvariant, Story, StartOK
<1>4. Distill \in Existing /\ Distill \in work
  BY <1>1, <1>2, Names DEF Existing
<1>5. /\ \A n \in Research : (n \in Leaves) # (RetryOf(n) \in Leaves)
      /\ Leaves \subseteq Research \cup Retry
  BY <1>4, LeavesAreOne
<1>6. \A n \in Research \cup Retry : n \in Leaves <=> <<n, Distill>> \in edges
  BY <1>1, <1>4 DEF RunInvariant, Story, DistillOK
<1>7. distilled = Leaves
  BY <1>5, <1>6
<1>8. ASSUME NEW n \in Leaves PROVE state[n] = "succeeded"
  <2> DEFINE d == <<n, Distill>>
  <2>1. d \in edges /\ d[1] = n /\ d[2] = Distill
    BY <1>5, <1>6
  <2> HIDE DEF d
  <2> QED  BY <1>2, <2>1 DEF RunInvariant, Story, EdgesOK
<1>9. \A n \in Leaves : n \in Existing /\ n \notin {Surface, Distill, Content, Answer, Remember}
  BY <1>5, Names DEF Leaves
<1>10. ASSUME NEW n \in Existing, n \notin {Surface, Distill, Content, Answer, Remember}
       PROVE  n \in Research \cup Retry
  BY <1>10 DEF RunInvariant, Story, CastOK, Cast
<1>11. SurfaceItems \ {Remember} = Leaves
  BY <1>8, <1>9, <1>10 DEF SurfaceItems
<1> HIDE DEF distilled
<1>12. /\ work \subseteq Settled /\ Distill \in work
       /\ SurfaceItems \ {Remember} = distilled
       /\ \A n \in Research : (n \in distilled) # (RetryOf(n) \in distilled)
  BY <1>3, <1>4, <1>5, <1>7, <1>11
<1> QED  BY <1>12 DEF distilled

(***************************************************************************)
(* What a reply is made of is settled when it is made, and read: nothing   *)
(* but a memory skill is still open beside the answer or the surface, or   *)
(* cut off by the end of the run, and what was distilled is what is shown. *)
(***************************************************************************)
THEOREM ReplyMissesNothingAlways ==
  ASSUME Setting
  PROVE  RunSpec => []ReplyMissesNothing
<1>1. RunInvariant => ReplyMissesNothing
  <2> SUFFICES ASSUME RunInvariant PROVE ReplyMissesNothing
    OBVIOUS
  <2>1. \A n \in Nodes : state[n] = "cancelled" => n \in {Recall, Remember}
    BY DEF RunInvariant, Story, CutOK
  <2>2. ASSUME NEW S, S \subseteq Settled PROVE S = {} \/ Landed(S)
    BY <2>2 DEF Landed, Settled, Terminal
  <2> QED  BY <2>1, <2>2, AnswerMissesNothing, SurfaceMissesNothing DEF ReplyMissesNothing
<1> QED  BY <1>1, RunInvariantAlways, PTL

-----------------------------------------------------------------------------
(***************************************************************************)
(* A call that comes back.  It executed no more outcomes than there are,   *)
(* the start of a known run is in the journal, and a call that came back   *)
(* from a run without a failure has finished it.                           *)
(***************************************************************************)
Failure == \E n \in Nodes : state[n] = "failed"

Unanswerable == mode = "birthday_reminder" /\ ~explicit

ComesBack ==
  /\ \A i \in Invocations : executed[i] <= Cardinality(Settled)
  /\ known => RowsOf({"run_started"}, NoNode) # {}
  /\ ~Unanswerable => \A i \in Invocations : pc[i] = "returned" => Failure \/ finished

(* The nodes are twenty. *)
LEMMA NodesAreFinite ==
  ASSUME Setting
  PROVE  IsFiniteSet(Nodes) /\ \A S \in SUBSET Nodes : IsFiniteSet(S)
<1>1. IsFiniteSet(Nodes)
  <2>1. \A a, b \in Int : IsFiniteSet(a..b)
    BY FS_Interval
  <2>2. 1 \in Int /\ 20 \in Int
    OBVIOUS
  <2>3. IsFiniteSet(1..20)
    BY <2>1, <2>2, Zenon
  <2> QED  BY <2>3 DEF Setting, RunNodes
<1> QED  BY <1>1, FS_Subset

(* A run of one mode has not all of them. *)
NotAll == Cardinality(Settled) < Cardinality(Nodes)

(* What has settled stays so, an outcome adds to it, and a failure is one  *)
(* for good.                                                               *)
LEMMA SettledStep ==
  ASSUME Sound, StoreStep
  PROVE  /\ Settled \subseteq Settled'
         /\ Failure => Failure'
         /\ finished => finished'
         /\ \A n \in Nodes, success \in BOOLEAN :
              RecordOutcome(n, success) => n \notin Settled /\ n \in Settled'
<1>0. StoreTypeOK
  BY TypeOKSplits DEF Sound
<1>1. ASSUME NEW n \in Nodes, NEW success \in BOOLEAN, RecordOutcome(n, success)
      PROVE  /\ Settled \subseteq Settled' /\ (Failure => Failure')
             /\ n \notin Settled /\ n \in Settled' /\ finished' = finished
  <2>1. \A m \in Nodes : state'[m] = IF m = n THEN (IF success THEN "succeeded" ELSE "failed")
                                     ELSE state[m]
    BY <1>0, <1>1 DEF RecordOutcome, StoreTypeOK
  <2>2. state[n] = "running" /\ finished' = finished
    BY <1>1 DEF RecordOutcome, OutcomeAccepted
  <2> QED  BY <2>1, <2>2 DEF Settled, Failure
<1>2. CASE \/ UNCHANGED store
           \/ Start
           \/ Resume
           \/ \E tasks \in SUBSET Runnable : MarkRunning(tasks)
           \/ \E p \in Patches, t \in DOMAIN journal \ patched : CommitPatch(p, t)
  <2>1. \A n \in Nodes : \A s \in {"succeeded", "failed"} : state'[n] = s <=> state[n] = s
    <3>1. {"task_failed"} \in SUBSET OutcomeKinds
      BY DEF OutcomeKinds
    <3> QED  BY <1>0, <1>2, <3>1, OutcomesKept
  <2>2. finished => finished'
    BY <1>2 DEF store, Start, Resume, MarkRunning, CommitPatch
  <2>3. Settled' = Settled /\ (Failure' <=> Failure)
    BY <2>1 DEF Settled, Failure
  <2>4. ASSUME NEW n \in Nodes, NEW success \in BOOLEAN, RecordOutcome(n, success)
        PROVE  n \notin Settled /\ n \in Settled'
    BY <1>1, <2>4
  <2> QED  BY <2>2, <2>3, <2>4
<1> QED  BY <1>1, <1>2 DEF StoreStep

(* A run that ends without a failure has completed its answer. *)
LEMMA FinishedWell ==
  ASSUME Setting, RunInvariant, finished, ~Failure
  PROVE  Status = "completed"
<1>1. \/ Answer \in DecidedEvents \/ Surface \in DecidedEvents
      \/ Content \in DecidedEvents /\ state[Content] = "failed"
  BY DEF RunInvariant, Story, EndFollowed
<1>2. {Answer, Surface, Content} \subseteq Nodes /\ NoNode \notin Nodes
  BY NodesAssumption, Names DEF Setting, RunNodes, NoNode
<1>3. DecidedEvents \subseteq Settled \cup {NoNode}
  BY DEF RunInvariant, Story, StartOK
<1>4. ASSUME NEW n \in Nodes, n \in DecidedEvents PROVE state[n] = "succeeded" /\ n \in Existing
  BY <1>2, <1>3, <1>4 DEF Settled, Failure, Existing
<1>5. Surface \in Existing => Answer \notin Existing
  BY DEF RunInvariant, Story, SurfaceOK
<1> QED  BY <1>1, <1>2, <1>4, <1>5 DEF Failure, Status, AnswerState

(* Where no task is running and none can, all there is has succeeded,      *)
(* unless something failed: the first layer that has not could be started. *)
LEMMA AllSucceeded ==
  ASSUME Setting, RunInvariant, ~finished, ~Failure,
         \A n \in Nodes : state[n] # "running", Runnable = {}
  PROVE  \A n \in Existing : state[n] = "succeeded"
<1> DEFINE left == {n \in Existing : state[n] # "succeeded"}
           T == {Layer(n) : n \in left}
<1> SUFFICES ASSUME left # {} PROVE FALSE
  OBVIOUS
<1>1. ASSUME NEW n PROVE Layer(n) \in 0..4
  BY DEF Layer
<1> HIDE DEF Layer
<1>2. T \in SUBSET Nat
  BY <1>1
<1>3. T # {}
  OBVIOUS
<1>4. ASSUME NEW n \in left PROVE n \in Nodes /\ state[n] = "pending"
  <2>1. n \in Nodes /\ state[n] \notin {"absent", "succeeded", "failed", "running", "waiting",
                                        "cancelled"}
    BY DEF Existing, Failure, RunInvariant, Story, CutOK
  <2>2. state[n] \in {"absent"} \cup NodeState
    BY <2>1 DEF RunInvariant, Sound, TypeOK, StoreTypeOK
  <2> QED  BY <2>1, <2>2 DEF NodeState, Open, Terminal
<1> HIDE DEF T
<1>5. PICK t \in T : \A u \in T : t <= u
  BY <1>2, <1>3, FirstIsLeast
<1>6. PICK n \in left : t = Layer(n)
  BY <1>5 DEF T
<1>7. ASSUME NEW e \in edges, e[2] = n PROVE state[e[1]] = "succeeded"
  <2>1. e[1] \in Existing /\ Layer(e[1]) < Layer(n)
    BY <1>7 DEF RunInvariant, Story, EdgesOK
  <2>2. e[1] \in left => Layer(e[1]) \in T
    BY DEF T
  <2>3. e[1] \notin left
    BY <1>1, <1>5, <1>6, <2>1, <2>2
  <2> QED  BY <2>1, <2>3
<1>8. n \in Runnable
  BY <1>4, <1>7 DEF Runnable, ParentsSucceeded
<1> QED  BY <1>8

(* Then, if all of it is decided too, the run has come to its end: every   *)
(* decision was followed up, down to the answer or the surface.            *)
LEMMA WentToTheEnd ==
  ASSUME Setting, RunInvariant, NoNode \in DecidedEvents, ~Unanswerable,
         \A n \in Existing : Went(n)
  PROVE  finished
<1>1. Frontier \subseteq Existing /\ (explicit => Remember \in Existing)
  BY DEF RunInvariant, Story, StartOK
<1>2. \A n \in Existing : n \in DecidedEvents /\ state[n] = "succeeded"
  BY DEF Went
<1>3. FilesFollowed /\ EvidenceFollowed /\ EndFollowed /\ ParamsOK
  BY DEF RunInvariant, Story
<1>4. Answer \in Existing \/ Surface \in Existing => finished
  BY <1>2, <1>3 DEF EndFollowed
<1>5. ASSUME NEW F \in {Fetch, Index, Research}, items \in {1, 2} PROVE Upto(items, F) # {}
  <2>1. Upto(1, F) # {}
    BY Families
  <2>2. Upto(2, F) # {}
    BY Families
  <2> QED  BY <1>5, <2>1, <2>2
<1>6. Existing \cap (Fetch \cup Research) # {} => Distill \in Existing
  <2>1. Evidences \subseteq DecidedEvents
    BY <1>2 DEF Evidences
  <2> QED  BY <1>3, <2>1 DEF EvidenceFollowed, Evidences
<1>7. Distill \in Existing => finished
  <2>1. Distill \in Existing /\ mode = "structured_compare" => Validate \in Existing
    BY <1>2, <1>3 DEF EvidenceFollowed
  <2>2. Validate \in Existing => Answer \in Existing
    BY <1>2, <1>3 DEF EvidenceFollowed
  <2>3. Distill \in Existing /\ mode # "structured_compare"
          => Answer \in Existing \/ Surface \in Existing
    BY <1>2, <1>3 DEF EvidenceFollowed
  <2> QED  BY <1>4, <2>1, <2>2, <2>3
<1>8. CASE mode = "index_directory"
  <2>1. ListDirectory \in Existing /\ items \in {0, 1, 2}
    BY <1>1, <1>3, <1>8, FanOutAssumption DEF Frontier, ParamsOK, ItemsOf, ResearchModes
  <2>2. IF items = 0 THEN Answer \in Existing ELSE Upto(items, Index) \subseteq Existing
    BY <1>3, <1>8, <2>1 DEF FilesFollowed
  <2>3. items # 0 => Existing \cap Index # {}
    BY <1>5, <2>1, <2>2 DEF Upto
  <2>4. Existing \cap Index \subseteq DecidedEvents
    BY <1>2
  <2> QED  BY <1>3, <1>4, <1>8, <2>2, <2>3, <2>4 DEF FilesFollowed
<1>9. CASE mode = "index_file"
  <2>1. IndexFile \in Existing
    BY <1>1, <1>9 DEF Frontier, ResearchModes
  <2>2. Recall \in Existing
    BY <1>3, <2>1 DEF FilesFollowed
  <2>3. Distill \in Existing
    BY <1>2, <1>3, <1>9, <2>2 DEF FilesFollowed
  <2> QED  BY <1>7, <2>3
<1>10. CASE mode = "read_file"
  <2>1. ReadFile \in Existing
    BY <1>1, <1>10 DEF Frontier, ResearchModes
  <2> QED  BY <1>2, <1>3, <1>4, <2>1 DEF FilesFollowed
<1>11. CASE mode = "birthday_reminder"
  <2>1. Remember \in Existing
    BY <1>1, <1>11 DEF Unanswerable
  <2>2. Reminder \in Existing
    BY <1>3, <1>11, <2>1 DEF FilesFollowed
  <2> QED  BY <1>2, <1>3, <1>4, <1>11, <2>2 DEF FilesFollowed
<1>12. CASE mode = "memory"
  <2>1. Recall \in Existing
    BY <1>1, <1>12 DEF Frontier, ResearchModes
  <2> QED  BY <1>2, <1>3, <1>4, <1>12, <2>1 DEF FilesFollowed
<1>13. CASE mode = "fetch"
  <2>1. items \in {1, 2} /\ Upto(items, Fetch) \subseteq Existing
    BY <1>1, <1>3, <1>13, FanOutAssumption DEF Frontier, ParamsOK, ItemsOf, ResearchModes
  <2>2. Existing \cap Fetch # {}
    BY <1>5, <2>1 DEF Upto
  <2> QED  BY <1>6, <1>7, <2>2
<1>14. CASE mode = "search_fetch"
  <2>1. Search \in Existing /\ items \in {0, 1, 2}
    BY <1>1, <1>3, <1>14, FanOutAssumption DEF Frontier, ParamsOK, ItemsOf, ResearchModes
  <2>2. IF items = 0 THEN Answer \in Existing ELSE Upto(items, Fetch) \subseteq Existing
    BY <1>3, <2>1 DEF EvidenceFollowed
  <2>3. items # 0 => Existing \cap Fetch # {}
    BY <1>5, <2>1, <2>2 DEF Upto
  <2> QED  BY <1>4, <1>6, <1>7, <2>2, <2>3
<1>15. CASE mode = "compose_answer"
  <2>1. Content \in Existing
    BY <1>1, <1>15 DEF Frontier, ResearchModes
  <2> QED  BY <1>3, <1>4, <2>1 DEF EndFollowed
<1>16. CASE mode \in ResearchModes
  <2>1. Frontier = Upto(items, Research) /\ items \in {1, 2}
    BY <1>3, <1>16, FanOutAssumption DEF Frontier, ParamsOK, ItemsOf, ResearchModes
  <2>2. Existing \cap Research # {}
    BY <1>1, <1>5, <2>1 DEF Upto
  <2> QED  BY <1>6, <1>7, <2>2
<1> QED
  BY <1>3, <1>8, <1>9, <1>10, <1>11, <1>12, <1>13, <1>14, <1>15, <1>16 DEF ParamsOK, AllModes

(* A call that finds nothing to do while the run goes on has met a failure.*)
LEMMA NothingLeftToDo ==
  ASSUME Setting, RunInvariant, ComesBack, ~Unanswerable, known,
         PendingPlannerEvents = {}, \A n \in Nodes : state[n] # "running", Runnable = {}
  PROVE  Failure \/ finished
<1> SUFFICES ASSUME ~Failure, ~finished
             PROVE  finished
  OBVIOUS
<1>1. NoNode \in DecidedEvents
  <2>1. PICK u : u \in RowsOf({"run_started"}, NoNode)
    BY DEF ComesBack
  <2>2. u \in RowsOf(PlannerKinds, NoNode) /\ u \in PlannerEvents
    BY <2>1 DEF RowsOf, PlannerKinds, PlannerEvents
  <2>3. u \in patched
    BY <2>2 DEF PendingPlannerEvents
  <2> QED  BY <2>2, <2>3 DEF DecidedEvents
<1>2. ASSUME NEW n \in Existing PROVE Went(n)
  <2>1. state[n] = "succeeded" /\ n \in Nodes
    BY AllSucceeded DEF Existing
  <2>2. RowsOf({"task_succeeded"}, n) # {}
    BY <2>1 DEF RunInvariant, Sound, OutcomesMatchState
  <2>3. PICK u : u \in RowsOf({"task_succeeded"}, n)
    BY <2>2
  <2>4. u \in RowsOf(PlannerKinds, n) /\ u \in PlannerEvents
    BY <2>3 DEF RowsOf, PlannerKinds, PlannerEvents
  <2>5. u \in patched
    BY <2>4 DEF PendingPlannerEvents
  <2> QED  BY <2>1, <2>4, <2>5 DEF Went, DecidedEvents
<1> QED  BY <1>1, <1>2, WentToTheEnd

(* No run has a task of every id there is. *)
LEMMA NeverAll ==
  ASSUME Setting, RunInvariant
  PROVE  NotAll
<1>1. Settled \subseteq Existing /\ Settled \subseteq Nodes
  BY DEF Settled, Existing
<1>2. Settled # Nodes
  <2>1. {Content, ListDirectory} \subseteq Nodes
    BY Names DEF Setting, RunNodes
  <2>2. {Content, ListDirectory} \cap {Remember} = {}
    BY Names
  <2>3. Content \notin Cast \/ ListDirectory \notin Cast
    <3>1. CASE mode = "index_directory"
      BY <3>1, Names DEF Cast, ResearchModes
    <3>2. CASE mode # "index_directory"
      <4>1. ListDirectory \notin {Answer, Content, Distill, IndexFile, ReadFile, Recall, Reminder,
                                 Search, Surface, Validate} \cup Fetch \cup Research \cup Retry
        BY Names
      <4>2. mode \in AllModes \ {"index_directory"}
        BY <3>2 DEF RunInvariant, ParamsOK
      <4> QED  BY <4>1, <4>2 DEF Cast, AllModes, ResearchModes
    <3> QED  BY <3>1, <3>2
  <2>4. Existing \subseteq Cast \cup {Remember}
    BY DEF RunInvariant, Story, CastOK
  <2> HIDE DEF Cast
  <2> QED  BY <1>1, <2>1, <2>2, <2>3, <2>4
<1>3. IsFiniteSet(Nodes)
  BY NodesAreFinite
<1>4. Cardinality(Settled) <= Cardinality(Nodes) /\ Cardinality(Settled) # Cardinality(Nodes)
  BY <1>1, <1>2, <1>3, FS_Subset
<1>5. Cardinality(Settled) \in Nat /\ Cardinality(Nodes) \in Nat
  BY <1>1, <1>3, FS_Subset, FS_CardinalityType
<1> QED  BY <1>4, <1>5 DEF NotAll

(* Only an outcome that is taken counts as executed. *)
LEMMA ExecutedStep ==
  ASSUME Setting, Sound, [Next]_vars, NEW i \in Invocations,
         \A j \in Invocations : executed[j] <= Cardinality(Settled)
  PROVE  executed'[i] <= Cardinality(Settled')
<1>0. StoreStep /\ TypeOK
  BY StepType DEF Sound
<1>1. Settled \subseteq Settled' /\ Settled' \subseteq Nodes
  BY <1>0, SettledStep DEF Settled
<1>2. /\ IsFiniteSet(Settled) /\ IsFiniteSet(Settled')
      /\ Cardinality(Settled) \in Nat /\ Cardinality(Settled') \in Nat
      /\ Cardinality(Settled) <= Cardinality(Settled')
  BY <1>1, NodesAreFinite, FS_Subset, FS_CardinalityType
<1>3. CASE executed' = executed
  BY <1>0, <1>2, <1>3 DEF TypeOK
<1>4. ASSUME NEW j \in Invocations, NEW t \in Futures, TakeOutcome(j, t)
      PROVE  executed'[i] <= Cardinality(Settled')
  <2> DEFINE n == t[1]
             success == fut[j][t] = "ok"
  <2>1. n \in Nodes /\ success \in BOOLEAN /\ RecordOutcome(n, success)
    BY <1>4 DEF TakeOutcome, Futures
  <2> HIDE DEF n, success
  <2>2. n \notin Settled /\ n \in Settled'
    BY <1>0, <2>1, SettledStep
  <2>3. Settled' # Settled
    BY <2>2
  <2>4. Cardinality(Settled) < Cardinality(Settled')
    BY <1>1, <1>2, <2>3, FS_Subset
  <2>5. executed'[i] <= executed[i] + 1
    BY <1>0, <1>4 DEF TypeOK, TakeOutcome
  <2>6. executed[i] \in Nat /\ executed'[i] \in Int
    BY <1>0, <1>4 DEF TypeOK, TakeOutcome
  <2> QED  BY <1>2, <2>4, <2>5, <2>6
<1>5. executed' = executed \/ \E j \in Invocations, t \in Futures : TakeOutcome(j, t)
  BY DEF Next, Step, Handle, Begin, Launch, LaunchNothing, WaitReturns, DropResult, OutcomeRefused, Raise,
         PlanReturns, PlanAnswers, PlanRaises, Worker, WorkerEnds, WorkerCancelled, Crash,
         vars, volatile
<1> QED  BY <1>3, <1>4, <1>5

(* A known run was started, in the journal. *)
LEMMA StartedStep ==
  ASSUME Sound, StoreStep, known => RowsOf({"run_started"}, NoNode) # {}
  PROVE  known' => RowsOf({"run_started"}, NoNode)' # {}
<1>0. StoreTypeOK
  BY TypeOKSplits DEF Sound
<1>1. CASE UNCHANGED store
  BY <1>1 DEF store, RowsOf
<1>2. CASE Start
  <2>1. Commit({Row("run_started", NoNode)})
    BY <1>2 DEF Start
  <2>2. Holds({Row("run_started", NoNode)}, {"run_started"}, NoNode)
    BY DEF Holds, Row
  <2> QED  BY <1>0, <2>1, <2>2, RowsAppend
<1>3. ASSUME NEW rows, Commit(rows), known' = known
      PROVE  known' => RowsOf({"run_started"}, NoNode)' # {}
  BY <1>0, <1>3, RowsAppend
<1> QED
  BY <1>1, <1>2, <1>3 DEF StoreStep, Resume, MarkRunning, RecordOutcome, CommitPatch

(* So a call that comes back from a run without a failure has finished it. *)
LEMMA ComesBackStep ==
  ASSUME Setting, MaxCompleted >= Cardinality(Nodes),
         RunInvariant, RunInvariant', NotAll', ComesBack, [Next]_vars, UNCHANGED params
  PROVE  ComesBack'
<1>0. StoreStep /\ TypeOK /\ Sound
  BY StepType DEF RunInvariant, Sound
<1>1. \A i \in Invocations : executed'[i] <= Cardinality(Settled')
  BY <1>0, ExecutedStep DEF ComesBack
<1>2. known' => RowsOf({"run_started"}, NoNode)' # {}
  BY <1>0, StartedStep DEF ComesBack
<1>3. ASSUME ~Unanswerable, NEW i \in Invocations, pc'[i] = "returned"
      PROVE  Failure' \/ finished'
  <2>1. (Failure => Failure') /\ (finished => finished')
    BY <1>0, SettledStep
  <2>2. CASE pc[i] = "returned"
    BY <1>3, <2>1, <2>2 DEF ComesBack
  <2>3. CASE pc[i] # "returned"
    <3>1. Cardinality(Nodes) \in Nat /\ Cardinality(Settled') \in Nat /\ Cardinality(Settled) \in Nat
      BY NodesAreFinite, FS_CardinalityType DEF Settled
    <3>2. Cardinality(Settled') < Cardinality(Nodes)
      BY DEF NotAll
    <3>3. executed'[i] \in Nat
      BY DEF RunInvariant, Sound, TypeOK
    <3>4. executed'[i] < MaxCompleted
      BY <1>1, <3>1, <3>2, <3>3, BoundsAssumption
    <3>5. LaunchNothing(i) /\ Held(i) = {}
      BY <1>0, <1>3, <2>3, <3>3, <3>4, WhereItReturns, BoundsAssumption
    <3>6. executed' = executed /\ pc[i] = "fill"
      BY <3>5 DEF LaunchNothing
    <3>7. \/ finished
          \/ /\ PendingPlannerEvents = {}
             /\ \A n \in Nodes : state[n] # "running"
             /\ Runnable = {}
      BY <1>0, <3>4, <3>5, <3>6, NothingLeft DEF Sound
    <3>8. known
      BY <1>0, <3>6 DEF Sound, SeriesOK
    <3>9. Failure \/ finished
      BY <1>3, <3>7, <3>8, NothingLeftToDo
    <3> QED  BY <2>1, <3>9
  <2> QED  BY <2>2, <2>3
<1>4. Unanswerable' <=> Unanswerable
  BY DEF Unanswerable, params
<1> QED  BY <1>1, <1>2, <1>3, <1>4 DEF ComesBack

(***************************************************************************)
(* A call of run() without max_completed that comes back while nothing     *)
(* failed leaves a finished run whose reply says "completed", but for a    *)
(* birthday reminder without a fact to remember.                           *)
(***************************************************************************)
THEOREM SuccessEndsFinishedAlways ==
  ASSUME Setting, MaxCompleted >= Cardinality(Nodes)
  PROVE  RunSpec => []SuccessEndsFinished
<1>1. RunInit => ComesBack
  <2> SUFFICES ASSUME RunInit PROVE ComesBack
    OBVIOUS
  <2>1. Cardinality(Settled) \in Nat
    BY NodesAreFinite, FS_CardinalityType DEF Settled
  <2> QED  BY <2>1 DEF RunInit, Init, StoreInit, ComesBack
<1>2. RunInvariant => NotAll
  BY NeverAll
<1>3. RunInvariant /\ RunInvariant' /\ NotAll' /\ ComesBack /\ [RunNext]_<<vars, params>> => ComesBack'
  <2>1. [RunNext]_<<vars, params>> => UNCHANGED params
    BY DEF RunNext
  <2> QED  BY <2>1, RunInvariantStep, ComesBackStep
<1>4. RunInvariant /\ ComesBack => SuccessEndsFinished
  <2> SUFFICES ASSUME RunInvariant, ComesBack PROVE SuccessEndsFinished
    OBVIOUS
  <2> QED  BY FinishedWell DEF ComesBack, SuccessEndsFinished, Unanswerable, Failure
<1> QED  BY <1>1, <1>2, <1>3, <1>4, RunInvariantAlways, PTL DEF RunSpec

=============================================================================

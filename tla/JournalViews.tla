---------------------------- MODULE JournalViews ----------------------------
(***************************************************************************)
(* What is shown of a run while it goes on, crashes and is resumed: the    *)
(* tree of spans of telemetry/spans.py and the data model that ui/agui.py  *)
(* streams to a client, both folds over the journal and nothing else, and  *)
(* the surface of ui/surface.py, built from the graph.  All three are      *)
(* operators here.  A moment is the place of a transaction; calls of a     *)
(* model, which have clocks of their own, names and attributes are left    *)
(* out.                                                                    *)
(***************************************************************************)
EXTENDS LiveGraph, SequencesExt

CONSTANT AnswerNodes \* the nodes that are named, or have a skill, of an answer

ASSUME AnswerAssumption == AnswerNodes \subseteq Nodes

VARIABLE added \* the "add" of each transaction's graph_patched row, {} without

(* The executor with the payload that GraphStore leaves out. *)
ViewedInit == Init /\ added = <<>>

ViewedNext ==
  /\ Next
  /\ added' = IF journal' = journal THEN added
              ELSE Append(added, {n \in Nodes : state[n] = "absent" /\ state'[n] # "absent"})

ViewedSpec == ViewedInit /\ [][ViewedNext]_<<vars, added>>

OfKind(rows, kinds) == {r \in rows : r.kind \in kinds}

-----------------------------------------------------------------------------
(* The tree of spans. *)

\* Mutant of TerminalKinds: a cancellation leaves the span open.
OutcomeKindsOnly == {"task_succeeded", "task_failed"}

TerminalKinds == {"task_succeeded", "task_failed", "task_cancelled"}

EndState(kind) ==
  CASE kind = "task_succeeded" -> "succeeded"
    [] kind = "task_failed" -> "failed"
    [] kind = "task_cancelled" -> "cancelled"

(* rounds are the agent loops by their starts; home is the round that added*)
(* a node, open the start of its open span, 0 for none.                    *)
NoTree == [rounds |-> <<>>, spans |-> {},
           home |-> [n \in Nodes |-> 0], open |-> [n \in Nodes |-> 0]]

(* current_loop: some span needs a round before any patch was journalled. *)
FirstRound(tree, i, touched) ==
  IF tree.rounds = <<>> /\ touched # {} THEN <<i>> ELSE tree.rounds

(* The rows of transaction i, the one of the patch last, which added new.  *)
Extended(tree, i, rows, new) ==
  LET started == {r.node : r \in OfKind(rows, {"task_started"})}
      ended   == OfKind(rows, TerminalKinds)
      over    == {r.node : r \in ended}
      rounds  == FirstRound(tree, i, started \cup over)
      round(n) == IF tree.home[n] # 0 THEN tree.home[n] ELSE Len(rounds)
      span(n) == [node |-> n, round |-> round(n), from |-> i, to |-> 0, state |-> ""]
      closes(s) == s.node \in over /\ s.from = tree.open[s.node]
      fate(n) == EndState((CHOOSE r \in ended : r.node = n).kind)
      end(s)  == [node |-> s.node, round |-> s.round, from |-> s.from, to |-> i,
                  state |-> fate(s.node)]
      unopened == {n \in over : tree.open[n] = 0}
      planned == OfKind(rows, {"graph_patched"}) # {}
      later   == IF planned THEN Append(rounds, i) ELSE rounds
  IN  [rounds |-> later,
       home   |-> [n \in Nodes |-> IF planned /\ n \in new THEN Len(later)
                                   ELSE tree.home[n]],
       open   |-> [n \in Nodes |-> IF n \in started THEN i
                                   ELSE IF n \in over THEN 0 ELSE tree.open[n]],
       spans  |-> {IF closes(s) THEN end(s) ELSE s : s \in tree.spans}
                  \cup {span(n) : n \in started} \cup {end(span(n)) : n \in unopened}]

(* build_span_tree *)
SpanTree ==
  LET tree[i \in 0..Len(journal)] ==
        IF i = 0 THEN NoTree ELSE Extended(tree[i - 1], i, journal[i], added[i])
  IN  tree[Len(journal)]

(* The spans tell what became of each node: it has a closed span exactly   *)
(* when it ended, one, the last to start, with the state it ended in; each *)
(* earlier one is an attempt that a crash interrupted, and a node that     *)
(* runs has its span open.  Every span is in the round whose patch added   *)
(* the node, and there is a round for each patch.                          *)
TraceTellsTheRun ==
  LET tree == SpanTree
  IN  /\ Len(tree.rounds) = Cardinality(patched)
      /\ \A n \in Nodes :
           LET mine   == {s \in tree.spans : s.node = n}
               closed == {s \in mine : s.to # 0}
               last   == {s \in mine : \A t \in mine : t.from <= s.from}
           IN  /\ state[n] \in Terminal <=> closed # {}
               /\ \A s \in closed : last = {s} /\ s.state = state[n]
               /\ state[n] = "running" => last # {} /\ closed = {}
               /\ \A s \in mine :
                    /\ n \in added[tree.rounds[s.round]]
                    /\ tree.rounds[s.round] < s.from

-----------------------------------------------------------------------------
(* The data model of a client. *)

EmptyState == [results |-> {}, patches |-> <<>>]

\* Mutant of ResultsIn: every step that finished has a result.
ResultsOfAnyOutcome(rows) ==
  {r.node : r \in OfKind(rows, {"task_succeeded", "task_failed"})}

ResultsIn(rows) == {r.node : r \in OfKind(rows, {"task_succeeded"})}

(* apply_state_delta, of the events of one transaction. *)
Folded(model, rows) ==
  LET planned == OfKind(rows, {"graph_patched"})
  IN  [results |-> model.results \cup ResultsIn(rows),
       patches |-> IF planned = {} THEN model.patches
                   ELSE Append(model.patches, (CHOOSE r \in planned : TRUE).trigger)]

(* run_data_model *)
DataModel ==
  LET model[i \in 0..Len(journal)] ==
        IF i = 0 THEN EmptyState ELSE Folded(model[i - 1], journal[i])
  IN  model[Len(journal)]

-----------------------------------------------------------------------------
(* The surface of a run, which ui/surface.py builds from the snapshot of   *)
(* the graph and not from the journal.                                     *)
Tone(s) ==
  CASE s = "succeeded" -> "good"
    [] s = "failed" -> "bad"
    [] s \in {"cancelled", "waiting"} -> "warn"
    [] OTHER -> "neutral"

(* _find_answer *)
AnswersFound == {n \in AnswerNodes : state[n] = "succeeded"}

(* build_run_surface: a row for each node, the answer, and a notice of what*)
(* failed.                                                                 *)
RunSurface ==
  [tone   |-> [n \in Existing |-> Tone(state[n])],
   answer |-> AnswersFound,
   notice |-> {n \in Existing : state[n] = "failed"}]

(* The three views of a run tell one story through crashes and replays     *)
(* (calls of run() that do not overlap).  The results of a client that     *)
(* followed the stream are those of the rows of the surface that are good, *)
(* and of no others, the answer's among them; the notice of the surface    *)
(* names the nodes with a failed span in the trace; and the client has one *)
(* patch for each event that was decided, in the order of the events.      *)
ReplayShowsTheGraph ==
  LET model == DataModel
      surface == RunSurface
  IN  /\ model.results = {n \in DOMAIN surface.tone : surface.tone[n] = "good"}
      /\ surface.answer = model.results \cap AnswerNodes
      /\ surface.notice = {s.node : s \in {s \in SpanTree.spans : s.state = "failed"}}
      /\ ToSet(model.patches) = patched
      /\ \A k \in 1..(Len(model.patches) - 1) : model.patches[k] < model.patches[k + 1]
=============================================================================

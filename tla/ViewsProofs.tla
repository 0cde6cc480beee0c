----------------------------- MODULE ViewsProofs -----------------------------
(***************************************************************************)
(* Proofs about the views of a run: for every planner that does not cancel *)
(* and park a task in one patch, nor add one in the patch that finishes,   *)
(* and any number of calls, crashes and resumes.                           *)
(***************************************************************************)
EXTENDS JournalViews, LiveGraphProofs

(* What a patch cancels it neither parks nor resumes, and the patch that   *)
(* finishes a run adds no task.  The patches written in the code and its   *)
(* tests are of this kind; neither apply_patch nor planner.py, which lets  *)
(* a model write them, asks for it.                                        *)
CancelsForGood == \A p \in Patches : p.cancel \cap (p.wait \cup p.resume) = {}
FinishAddsNothing == \A p \in Patches : p.finish => p.add = {}

(* What a step adds to the graph. *)
NewNodes == {n \in Nodes : state[n] = "absent" /\ state'[n] # "absent"}

(* There is a payload for each transaction. *)
AddedOK == added \in Seq(SUBSET Nodes) /\ Len(added) = Len(journal)

(* A step with the payload: a transaction with rows, or nothing. *)
Writes(rows, new) ==
  Commit(rows) /\ added' = Append(added, new)

(* The views change nothing of the executor. *)
LEMMA ViewedIsSpec == ViewedSpec => Spec
<1>1. ViewedInit => Init
  BY DEF ViewedInit
<1>2. [ViewedNext]_<<vars, added>> => [Next]_vars
  BY DEF ViewedNext
<1> QED  BY <1>1, <1>2, PTL DEF ViewedSpec, Spec

(* A transaction makes the journal longer. *)
LEMMA CommitIsSeen ==
  ASSUME StoreTypeOK, NEW rows, Commit(rows)
  PROVE  journal' # journal
<1>1. Len(journal) \in Nat /\ Len(journal') = Len(journal) + 1
  BY CommitAppends
<1> QED  BY <1>1

(* Its payload goes with it. *)
LEMMA PayloadOfCommit ==
  ASSUME StoreTypeOK, [ViewedNext]_<<vars, added>>, NEW rows, Commit(rows)
  PROVE  Writes(rows, NewNodes)
<1>1. journal' # journal
  BY CommitIsSeen
<1>2. ViewedNext
  BY <1>1 DEF vars, store
<1> QED  BY <1>1, <1>2 DEF ViewedNext, Writes, NewNodes

(* A step that leaves the store alone leaves the payload alone. *)
LEMMA PayloadOfNothing ==
  ASSUME [ViewedNext]_<<vars, added>>, UNCHANGED store
  PROVE  added' = added
BY DEF ViewedNext, store

(* What a transaction leaves of the payload of earlier ones. *)
LEMMA WritesAppends ==
  ASSUME StoreTypeOK, AddedOK, NEW rows, NEW new \in SUBSET Nodes, Writes(rows, new)
  PROVE  /\ AddedOK'
         /\ Len(journal) \in Nat /\ Len(journal') = Len(journal) + 1
         /\ DOMAIN journal = 1..Len(journal)
         /\ DOMAIN journal' = 1..Len(journal')
         /\ \A i \in 1..Len(journal) : journal'[i] = journal[i] /\ added'[i] = added[i]
         /\ journal'[Len(journal')] = rows /\ added'[Len(journal')] = new
<1> DEFINE L == Len(journal)
<1>1. /\ Len(journal') = L + 1 /\ L \in Nat /\ DOMAIN journal = 1..L
      /\ DOMAIN journal' = DOMAIN journal \cup {Len(journal')}
      /\ \A i \in DOMAIN journal : journal'[i] = journal[i]
      /\ journal'[Len(journal')] = rows
  BY CommitAppends DEF Writes
<1>2. added \in Seq(SUBSET Nodes) /\ Len(added) = L /\ added' = Append(added, new)
  BY DEF AddedOK, Writes
<1>3. /\ added' \in Seq(SUBSET Nodes) /\ Len(added') = L + 1
      /\ \A i \in 1..L : added'[i] = added[i]
      /\ added'[L + 1] = new
  BY <1>2
<1>4. DOMAIN journal' = 1..Len(journal')
  BY <1>1
<1> QED  BY <1>1, <1>3, <1>4 DEF AddedOK

-----------------------------------------------------------------------------
(***************************************************************************)
(* The folds.  A tree for each prefix of the journal, and the model of a   *)
(* client for each: there is exactly one such function, and a transaction  *)
(* makes it longer by one.                                                 *)
(***************************************************************************)
AreTrees(f) ==
  f = [i \in 0..Len(journal) |-> IF i = 0 THEN NoTree
                                 ELSE Extended(f[i - 1], i, journal[i], added[i])]

AreModels(f) ==
  f = [i \in 0..Len(journal) |-> IF i = 0 THEN EmptyState
                                 ELSE Folded(f[i - 1], journal[i])]

OneTree  == \E f : \A g : AreTrees(g) <=> g = f
OneModel == \E f : \A g : AreModels(g) <=> g = f

LEMMA SpanTreeIs ==
  ASSUME NEW f, \A g : AreTrees(g) <=> g = f
  PROVE  SpanTree = f[Len(journal)]
<1>1. (CHOOSE g : AreTrees(g)) = f
  OBVIOUS
<1> QED  BY <1>1 DEF SpanTree, AreTrees

LEMMA DataModelIs ==
  ASSUME NEW f, \A g : AreModels(g) <=> g = f
  PROVE  DataModel = f[Len(journal)]
<1>1. (CHOOSE g : AreModels(g)) = f
  OBVIOUS
<1> QED  BY <1>1 DEF DataModel, AreModels

(* The trees of a longer journal. *)
LEMMA TreesGrow ==
  ASSUME StoreTypeOK, AddedOK, OneTree, NEW rows, NEW new \in SUBSET Nodes, Writes(rows, new)
  PROVE  /\ OneTree'
         /\ SpanTree' = Extended(SpanTree, Len(journal'), rows, new)
<1> DEFINE L == Len(journal)
<1>1. /\ L \in Nat /\ Len(journal') = L + 1
      /\ \A i \in 1..L : journal'[i] = journal[i] /\ added'[i] = added[i]
      /\ journal'[L + 1] = rows /\ added'[L + 1] = new
  BY WritesAppends
<1>2. PICK f : \A g : AreTrees(g) <=> g = f
  BY DEF OneTree
<1>3. f = [i \in 0..L |-> IF i = 0 THEN NoTree
                          ELSE Extended(f[i - 1], i, journal[i], added[i])]
  BY <1>2 DEF AreTrees
<1>4. PICK h : h = [i \in 0..(L + 1) |-> IF i = L + 1 THEN Extended(f[L], i, rows, new)
                                         ELSE f[i]]
  OBVIOUS
<1>5. ASSUME NEW g, AreTrees(g)' PROVE g = h
  <2>1. g = [i \in 0..(L + 1) |-> IF i = 0 THEN NoTree
                                  ELSE Extended(g[i - 1], i, journal'[i], added'[i])]
    BY <1>1, <1>5 DEF AreTrees
  <2> DEFINE r == [i \in 0..L |-> g[i]]
  <2>2. ASSUME NEW i \in 0..L
        PROVE  g[i] = IF i = 0 THEN NoTree
                      ELSE Extended(r[i - 1], i, journal[i], added[i])
    <3>1. g[i] = IF i = 0 THEN NoTree ELSE Extended(g[i - 1], i, journal'[i], added'[i])
      BY <1>1, <2>1
    <3>2. i # 0 => i \in 1..L /\ i - 1 \in 0..L /\ r[i - 1] = g[i - 1]
      BY <1>1
    <3> HIDE DEF r
    <3> QED  BY <1>1, <3>1, <3>2
  <2>3. r = [i \in 0..L |-> IF i = 0 THEN NoTree
                            ELSE Extended(r[i - 1], i, journal[i], added[i])]
    BY <2>2
  <2>4. r = f
    <3> HIDE DEF r
    <3> QED  BY <1>2, <2>3 DEF AreTrees
  <2>5. \A i \in 0..L : g[i] = f[i]
    BY <2>4
  <2>6. g[L + 1] = Extended(f[L], L + 1, rows, new)
    <3>1. L + 1 \in 0..(L + 1) /\ L + 1 # 0 /\ (L + 1) - 1 = L /\ L \in 0..L
      BY <1>1
    <3>2. g[L + 1] = Extended(g[L], L + 1, journal'[L + 1], added'[L + 1])
      BY <2>1, <3>1
    <3> QED  BY <1>1, <2>5, <3>1, <3>2
  <2>7. \A i \in 0..(L + 1) : g[i] = h[i]
    <3>1. \A i \in 0..(L + 1) : i = L + 1 \/ i \in 0..L
      BY <1>1
    <3> QED  BY <1>1, <1>4, <2>5, <2>6, <3>1
  <2>8. g = [i \in 0..(L + 1) |-> g[i]] /\ h = [i \in 0..(L + 1) |-> h[i]]
    BY <1>4, <2>1
  <2> QED  BY <2>7, <2>8
<1>6. AreTrees(h)'
  <2>1. ASSUME NEW i \in 0..(L + 1)
        PROVE  h[i] = IF i = 0 THEN NoTree
                      ELSE Extended(h[i - 1], i, journal'[i], added'[i])
    <3>1. CASE i = L + 1
      <4>1. h[i] = Extended(f[L], L + 1, rows, new) /\ h[i - 1] = f[L]
        BY <1>1, <1>4, <3>1
      <4> QED  BY <1>1, <3>1, <4>1
    <3>2. CASE i \in 0..L
      <4>1. h[i] = f[i] /\ (i # 0 => i \in 1..L /\ h[i - 1] = f[i - 1])
        BY <1>1, <1>4, <3>2
      <4>2. f[i] = IF i = 0 THEN NoTree ELSE Extended(f[i - 1], i, journal[i], added[i])
        BY <1>3, <3>2
      <4> QED  BY <1>1, <4>1, <4>2
    <3>3. i = L + 1 \/ i \in 0..L
      BY <1>1
    <3> QED  BY <3>1, <3>2, <3>3
  <2>2. h = [i \in 0..(L + 1) |-> IF i = 0 THEN NoTree
                                  ELSE Extended(h[i - 1], i, journal'[i], added'[i])]
    BY <1>4, <2>1
  <2> QED  BY <1>1, <2>2 DEF AreTrees
<1>7. \A g : AreTrees(g)' <=> g = h
  BY <1>5, <1>6
<1>8. OneTree'
  <2> QED  BY <1>7 DEF OneTree
<1>9. SpanTree = f[L]
  BY <1>2, SpanTreeIs
<1>10. SpanTree' = h[L + 1]
  <2> DEFINE G == CHOOSE g : AreTrees(g)'
  <2>1. G = h
    <3> QED  BY <1>7
  <2>2. SpanTree' = G[Len(journal')]
    BY DEF SpanTree, AreTrees
  <2> QED  BY <1>1, <2>1, <2>2
<1>11. h[L + 1] = Extended(f[L], L + 1, rows, new)
  BY <1>1, <1>4
<1> QED  BY <1>1, <1>8, <1>9, <1>10, <1>11

(* The models of a longer journal. *)
LEMMA ModelsGrow ==
  ASSUME StoreTypeOK, AddedOK, OneModel, NEW rows, NEW new \in SUBSET Nodes, Writes(rows, new)
  PROVE  /\ OneModel'
         /\ DataModel' = Folded(DataModel, rows)
<1> DEFINE L == Len(journal)
<1>1. /\ L \in Nat /\ Len(journal') = L + 1
      /\ \A i \in 1..L : journal'[i] = journal[i] /\ added'[i] = added[i]
      /\ journal'[L + 1] = rows /\ added'[L + 1] = new
  BY WritesAppends
<1>2. PICK f : \A g : AreModels(g) <=> g = f
  BY DEF OneModel
<1>3. f = [i \in 0..L |-> IF i = 0 THEN EmptyState
                          ELSE Folded(f[i - 1], journal[i])]
  BY <1>2 DEF AreModels
<1>4. PICK h : h = [i \in 0..(L + 1) |-> IF i = L + 1 THEN Folded(f[L], rows)
                                         ELSE f[i]]
  OBVIOUS
<1>5. ASSUME NEW g, AreModels(g)' PROVE g = h
  <2>1. g = [i \in 0..(L + 1) |-> IF i = 0 THEN EmptyState
                                  ELSE Folded(g[i - 1], journal'[i])]
    BY <1>1, <1>5 DEF AreModels
  <2> DEFINE r == [i \in 0..L |-> g[i]]
  <2>2. ASSUME NEW i \in 0..L
        PROVE  g[i] = IF i = 0 THEN EmptyState
                      ELSE Folded(r[i - 1], journal[i])
    <3>1. g[i] = IF i = 0 THEN EmptyState ELSE Folded(g[i - 1], journal'[i])
      BY <1>1, <2>1
    <3>2. i # 0 => i \in 1..L /\ i - 1 \in 0..L /\ r[i - 1] = g[i - 1]
      BY <1>1
    <3> HIDE DEF r
    <3> QED  BY <1>1, <3>1, <3>2
  <2>3. r = [i \in 0..L |-> IF i = 0 THEN EmptyState
                            ELSE Folded(r[i - 1], journal[i])]
    BY <2>2
  <2>4. r = f
    <3> HIDE DEF r
    <3> QED  BY <1>2, <2>3 DEF AreModels
  <2>5. \A i \in 0..L : g[i] = f[i]
    BY <2>4
  <2>6. g[L + 1] = Folded(f[L], rows)
    <3>1. L + 1 \in 0..(L + 1) /\ L + 1 # 0 /\ (L + 1) - 1 = L /\ L \in 0..L
      BY <1>1
    <3>2. g[L + 1] = Folded(g[L], journal'[L + 1])
      BY <2>1, <3>1
    <3> QED  BY <1>1, <2>5, <3>1, <3>2
  <2>7. \A i \in 0..(L + 1) : g[i] = h[i]
    <3>1. \A i \in 0..(L + 1) : i = L + 1 \/ i \in 0..L
      BY <1>1
    <3> QED  BY <1>1, <1>4, <2>5, <2>6, <3>1
  <2>8. g = [i \in 0..(L + 1) |-> g[i]] /\ h = [i \in 0..(L + 1) |-> h[i]]
    BY <1>4, <2>1
  <2> QED  BY <2>7, <2>8
<1>6. AreModels(h)'
  <2>1. ASSUME NEW i \in 0..(L + 1)
        PROVE  h[i] = IF i = 0 THEN EmptyState
                      ELSE Folded(h[i - 1], journal'[i])
    <3>1. CASE i = L + 1
      <4>1. h[i] = Folded(f[L], rows) /\ h[i - 1] = f[L]
        BY <1>1, <1>4, <3>1
      <4> QED  BY <1>1, <3>1, <4>1
    <3>2. CASE i \in 0..L
      <4>1. h[i] = f[i] /\ (i # 0 => i \in 1..L /\ h[i - 1] = f[i - 1])
        BY <1>1, <1>4, <3>2
      <4>2. f[i] = IF i = 0 THEN EmptyState ELSE Folded(f[i - 1], journal[i])
        BY <1>3, <3>2
      <4> QED  BY <1>1, <4>1, <4>2
    <3>3. i = L + 1 \/ i \in 0..L
      BY <1>1
    <3> QED  BY <3>1, <3>2, <3>3
  <2>2. h = [i \in 0..(L + 1) |-> IF i = 0 THEN EmptyState
                                  ELSE Folded(h[i - 1], journal'[i])]
    BY <1>4, <2>1
  <2> QED  BY <1>1, <2>2 DEF AreModels
<1>7. \A g : AreModels(g)' <=> g = h
  BY <1>5, <1>6
<1>8. OneModel'
  <2> QED  BY <1>7 DEF OneModel
<1>9. DataModel = f[L]
  BY <1>2, DataModelIs
<1>10. DataModel' = h[L + 1]
  <2> DEFINE G == CHOOSE g : AreModels(g)'
  <2>1. G = h
    <3> QED  BY <1>7
  <2>2. DataModel' = G[Len(journal')]
    BY DEF DataModel, AreModels
  <2> QED  BY <1>1, <2>1, <2>2
<1>11. h[L + 1] = Folded(f[L], rows)
  BY <1>1, <1>4
<1> QED  BY <1>1, <1>8, <1>9, <1>10, <1>11

-----------------------------------------------------------------------------
(***************************************************************************)
(* What a transaction does to the tree.  Its rows start some nodes or end  *)
(* some, all of them in the same state.                                    *)
(***************************************************************************)
StartedIn(rows) == {r.node : r \in OfKind(rows, {"task_started"})}
OverIn(rows)    == {r.node : r \in OfKind(rows, TerminalKinds)}
PatchIn(rows)   == OfKind(rows, {"graph_patched"}) # {}

SpanStates == {"", "succeeded", "failed", "cancelled"}
SpanRecords == [node : Nodes, round : Nat, from : Nat, to : Nat, state : SpanStates]
Spans == {s \in SpanRecords : s.to = 0 => s.state = ""}

SpansOf(tree, n) == {s \in tree.spans : s.node = n}

NewSpan(tree, n, from, to, end) ==
  [node |-> n, round |-> tree.home[n], from |-> from, to |-> to, state |-> end]

OpenSpan(tree, n, i) == NewSpan(tree, n, i, 0, "")

Closed(s, i, end) ==
  [node |-> s.node, round |-> s.round, from |-> s.from, to |-> i, state |-> end]

(* Nothing starts or ends before there is a round, and then in the round   *)
(* that added it.                                                          *)
HomesKnown(tree, rows) ==
  \A n \in StartedIn(rows) \cup OverIn(rows) :
    n \in Nodes /\ tree.home[n] # 0 /\ tree.rounds # <<>>

EndsWith(rows, end) == \A r \in OfKind(rows, TerminalKinds) : EndState(r.kind) = end

(* The spans then: those that are closed, those that are opened, and those *)
(* of nodes that end without having started.                               *)
SpansAfter(tree, i, rows, end) ==
  {IF s.node \in OverIn(rows) /\ s.from = tree.open[s.node]
   THEN Closed(s, i, end) ELSE s : s \in tree.spans}
  \cup {NewSpan(tree, n, i, 0, "") : n \in StartedIn(rows)}
  \cup {NewSpan(tree, n, i, i, end) : n \in {m \in OverIn(rows) : tree.open[m] = 0}}

LEMMA ExtendedParts ==
  ASSUME NEW tree, NEW i, NEW rows, NEW new, HomesKnown(tree, rows)
  PROVE  LET next  == Extended(tree, i, rows, new)
             later == IF PatchIn(rows) THEN Append(tree.rounds, i) ELSE tree.rounds
         IN  /\ next.rounds = later
             /\ next.home = [n \in Nodes |-> IF PatchIn(rows) /\ n \in new THEN Len(later)
                                             ELSE tree.home[n]]
             /\ next.open = [n \in Nodes |-> IF n \in StartedIn(rows) THEN i
                                             ELSE IF n \in OverIn(rows) THEN 0
                                             ELSE tree.open[n]]
<1>1. FirstRound(tree, i, StartedIn(rows) \cup OverIn(rows)) = tree.rounds
  BY DEF FirstRound, HomesKnown
<1> QED  BY <1>1 DEF Extended, PatchIn, StartedIn, OverIn

LEMMA ExtendedSpans ==
  ASSUME NEW tree, NEW i, NEW rows, NEW new, HomesKnown(tree, rows),
         NEW end, EndsWith(rows, end)
  PROVE  Extended(tree, i, rows, new).spans = SpansAfter(tree, i, rows, end)
<1> DEFINE ended == OfKind(rows, TerminalKinds)
           rounds == FirstRound(tree, i, StartedIn(rows) \cup OverIn(rows))
           round(n) == IF tree.home[n] # 0 THEN tree.home[n] ELSE Len(rounds)
           span(n) == [node |-> n, round |-> round(n), from |-> i, to |-> 0, state |-> ""]
           fate(n) == EndState((CHOOSE r \in ended : r.node = n).kind)
           endOf(s) == [node |-> s.node, round |-> s.round, from |-> s.from, to |-> i,
                        state |-> fate(s.node)]
           closes(s) == s.node \in OverIn(rows) /\ s.from = tree.open[s.node]
           unopened == {m \in OverIn(rows) : tree.open[m] = 0}
<1>1. Extended(tree, i, rows, new).spans =
        {IF closes(s) THEN endOf(s) ELSE s : s \in tree.spans}
        \cup {span(n) : n \in StartedIn(rows)} \cup {endOf(span(n)) : n \in unopened}
  BY DEF Extended, StartedIn, OverIn
<1>2. ASSUME NEW n \in StartedIn(rows) \cup OverIn(rows)
      PROVE  span(n) = NewSpan(tree, n, i, 0, "")
  BY DEF HomesKnown, NewSpan
<1>3. ASSUME NEW s, s.node \in OverIn(rows)
      PROVE  endOf(s) = Closed(s, i, end)
  <2>1. \E r \in ended : r.node = s.node
    BY <1>3 DEF OverIn
  <2>2. (CHOOSE r \in ended : r.node = s.node) \in ended
    BY <2>1
  <2>3. EndState((CHOOSE r \in ended : r.node = s.node).kind) = end
    BY <2>2 DEF EndsWith
  <2> QED  BY <2>3 DEF Closed
<1>4. ASSUME NEW n \in unopened
      PROVE  endOf(span(n)) = NewSpan(tree, n, i, i, end)
  <2>1. span(n) = NewSpan(tree, n, i, 0, "") /\ span(n).node = n
    BY <1>2
  <2>2. endOf(span(n)) = Closed(span(n), i, end)
    BY <1>3, <2>1
  <2> QED  BY <2>1, <2>2 DEF Closed, NewSpan
<1> HIDE DEF span, endOf
<1>5. {span(n) : n \in StartedIn(rows)} = {NewSpan(tree, n, i, 0, "") : n \in StartedIn(rows)}
  BY <1>2
<1>6. {endOf(span(n)) : n \in unopened}
        = {NewSpan(tree, n, i, i, end) : n \in unopened}
  BY <1>4
<1>7. {IF closes(s) THEN endOf(s) ELSE s : s \in tree.spans}
        = {IF closes(s) THEN Closed(s, i, end) ELSE s : s \in tree.spans}
  <2>1. ASSUME NEW s \in tree.spans
        PROVE  (IF closes(s) THEN endOf(s) ELSE s) = (IF closes(s) THEN Closed(s, i, end) ELSE s)
    BY <1>3
  <2> QED  BY <2>1
<1> QED  BY <1>1, <1>5, <1>6, <1>7 DEF SpansAfter

(* The types of a tree over a journal of that length. *)
TreeTypeOK(tree, length) ==
  /\ tree.rounds \in Seq(1..length)
  /\ tree.spans \subseteq Spans
  /\ tree.home \in [Nodes -> Nat]
  /\ tree.open \in [Nodes -> Nat]

(* next is the tree after transaction i, with these rows, which added new; *)
(* ends is the state of the nodes it ends, was and is are the payloads.    *)
TreeGoesOn(tree, next, i, rows, new, end, was, is) ==
  /\ i \in Nat \ {0} /\ TreeTypeOK(tree, i - 1)
  /\ next = Extended(tree, i, rows, new)
  /\ HomesKnown(tree, rows) /\ EndsWith(rows, end) /\ end \in Terminal
  /\ StartedIn(rows) \cap OverIn(rows) = {}
  /\ \A k \in 1..(i - 1) : is[k] = was[k]
  /\ is[i] = new

(* Which is what its spans are. *)
LEMMA GoesOnSpans ==
  ASSUME NEW tree, NEW next, NEW i, NEW rows, NEW new, NEW end, NEW was, NEW is,
         TreeGoesOn(tree, next, i, rows, new, end, was, is)
  PROVE  next.spans = SpansAfter(tree, i, rows, end)
<1>1. next = Extended(tree, i, rows, new) /\ HomesKnown(tree, rows) /\ EndsWith(rows, end)
  BY DEF TreeGoesOn
<1> QED  BY <1>1, ExtendedSpans

(* The spans of a node the transaction says nothing of. *)
LEMMA SpansQuiet ==
  ASSUME NEW tree, NEW next, NEW i, NEW rows, NEW new, NEW end, NEW was, NEW is,
         TreeGoesOn(tree, next, i, rows, new, end, was, is),
         NEW n \in Nodes, n \notin StartedIn(rows), n \notin OverIn(rows)
  PROVE  SpansOf(next, n) = SpansOf(tree, n)
<1> DEFINE new1 == {NewSpan(tree, m, i, 0, "") : m \in StartedIn(rows)}
           new2 == {NewSpan(tree, m, i, i, end) :
                      m \in {k \in OverIn(rows) : tree.open[k] = 0}}
           closes(s) == s.node \in OverIn(rows) /\ s.from = tree.open[s.node]
           image(s) == IF closes(s) THEN Closed(s, i, end) ELSE s
<1>1. next.spans = {image(s) : s \in tree.spans} \cup new1 \cup new2
  <2>1. next.spans = SpansAfter(tree, i, rows, end)
    BY GoesOnSpans
  <2> QED  BY <2>1 DEF SpansAfter
<1>2. \A s \in new1 \cup new2 : s.node # n
  <2>1. \A m : NewSpan(tree, m, i, i, end).node = m /\ NewSpan(tree, m, i, 0, "").node = m
    BY DEF NewSpan
  <2> QED  BY <2>1
<1>3. ASSUME NEW s \in tree.spans
      PROVE  image(s).node = s.node /\ (s.node = n => image(s) = s)
  <2>1. s \in Spans
    BY DEF TreeGoesOn, TreeTypeOK
  <2> QED  BY <2>1 DEF Closed, Spans, SpanRecords
<1> HIDE DEF new1, new2, image
<1> QED  BY <1>1, <1>2, <1>3 DEF SpansOf

(* The spans of a node that starts. *)
LEMMA SpansStarted ==
  ASSUME NEW tree, NEW next, NEW i, NEW rows, NEW new, NEW end, NEW was, NEW is,
         TreeGoesOn(tree, next, i, rows, new, end, was, is),
         NEW n \in Nodes, n \in StartedIn(rows)
  PROVE  SpansOf(next, n) = SpansOf(tree, n) \cup {OpenSpan(tree, n, i)}
<1> DEFINE new1 == {NewSpan(tree, m, i, 0, "") : m \in StartedIn(rows)}
           new2 == {NewSpan(tree, m, i, i, end) :
                      m \in {k \in OverIn(rows) : tree.open[k] = 0}}
           closes(s) == s.node \in OverIn(rows) /\ s.from = tree.open[s.node]
           image(s) == IF closes(s) THEN Closed(s, i, end) ELSE s
<1>1. next.spans = {image(s) : s \in tree.spans} \cup new1 \cup new2
  <2>1. next.spans = SpansAfter(tree, i, rows, end)
    BY GoesOnSpans
  <2> QED  BY <2>1 DEF SpansAfter
<1>2. n \notin OverIn(rows)
  BY DEF TreeGoesOn
<1>3. /\ \A s \in new2 : s.node # n
      /\ NewSpan(tree, n, i, 0, "") \in new1
      /\ \A s \in new1 : s.node = n <=> s = NewSpan(tree, n, i, 0, "")
  <2>1. \A m : NewSpan(tree, m, i, i, end).node = m /\ NewSpan(tree, m, i, 0, "").node = m
    BY DEF NewSpan
  <2> QED  BY <1>2, <2>1
<1>4. ASSUME NEW s \in tree.spans
      PROVE  image(s).node = s.node /\ (s.node = n => image(s) = s)
  <2>1. s \in Spans
    BY DEF TreeGoesOn, TreeTypeOK
  <2> QED  BY <1>2, <2>1 DEF Closed, Spans, SpanRecords
<1> HIDE DEF new1, new2, image
<1>5. {s \in new1 : s.node = n} = {NewSpan(tree, n, i, 0, "")} /\ {s \in new2 : s.node = n} = {}
  BY <1>3
<1>6. {s \in {image(s) : s \in tree.spans} : s.node = n} = SpansOf(tree, n)
  BY <1>4 DEF SpansOf
<1>7. SpansOf(next, n) = {s \in {image(s) : s \in tree.spans} : s.node = n}
                           \cup {s \in new1 : s.node = n} \cup {s \in new2 : s.node = n}
  BY <1>1 DEF SpansOf
<1> QED  BY <1>5, <1>6, <1>7 DEF OpenSpan

(* The spans of a node that ends: the open one is closed, and there is one *)
(* for a node that had none.                                               *)
LEMMA SpansOver ==
  ASSUME NEW tree, NEW next, NEW i, NEW rows, NEW new, NEW end, NEW was, NEW is,
         TreeGoesOn(tree, next, i, rows, new, end, was, is),
         NEW n \in Nodes, n \in OverIn(rows)
  PROVE  SpansOf(next, n) =
           {IF s.from = tree.open[n] THEN Closed(s, i, end) ELSE s : s \in SpansOf(tree, n)}
           \cup (IF tree.open[n] = 0 THEN {NewSpan(tree, n, i, i, end)} ELSE {})
<1> DEFINE new1 == {NewSpan(tree, m, i, 0, "") : m \in StartedIn(rows)}
           new2 == {NewSpan(tree, m, i, i, end) :
                      m \in {k \in OverIn(rows) : tree.open[k] = 0}}
           closes(s) == s.node \in OverIn(rows) /\ s.from = tree.open[s.node]
           image(s) == IF closes(s) THEN Closed(s, i, end) ELSE s
           mine(s) == IF s.from = tree.open[n] THEN Closed(s, i, end) ELSE s
           fresh == IF tree.open[n] = 0 THEN {NewSpan(tree, n, i, i, end)} ELSE {}
<1>1. next.spans = {image(s) : s \in tree.spans} \cup new1 \cup new2
  <2>1. next.spans = SpansAfter(tree, i, rows, end)
    BY GoesOnSpans
  <2> QED  BY <2>1 DEF SpansAfter
<1>2. n \notin StartedIn(rows)
  BY DEF TreeGoesOn
<1>3. /\ \A s \in new1 : s.node # n
      /\ {s \in new2 : s.node = n} = fresh
  <2>1. \A m : NewSpan(tree, m, i, i, end).node = m /\ NewSpan(tree, m, i, 0, "").node = m
    BY DEF NewSpan
  <2>2. \A s \in new1 : s.node # n
    BY <1>2, <2>1
  <2>3. ASSUME NEW s \in new2, s.node = n PROVE s \in fresh
    <3>1. PICK m \in {k \in OverIn(rows) : tree.open[k] = 0} : s = NewSpan(tree, m, i, i, end)
      OBVIOUS
    <3>2. m = n
      BY <2>1, <2>3, <3>1
    <3> QED  BY <3>1, <3>2
  <2>4. ASSUME NEW s \in fresh PROVE s \in new2 /\ s.node = n
    <3>1. tree.open[n] = 0 /\ s = NewSpan(tree, n, i, i, end)
      OBVIOUS
    <3> QED  BY <2>1, <3>1
  <2> HIDE DEF new1, new2, fresh
  <2> QED  BY <2>2, <2>3, <2>4
<1>4. ASSUME NEW s \in tree.spans
      PROVE  image(s).node = s.node /\ (s.node = n => image(s) = mine(s))
  <2>1. s \in Spans
    BY DEF TreeGoesOn, TreeTypeOK
  <2> QED  BY <2>1 DEF Closed, Spans, SpanRecords
<1> HIDE DEF new1, new2, image, mine, fresh
<1>5. SpansOf(next, n) = {mine(s) : s \in SpansOf(tree, n)} \cup fresh
  BY <1>1, <1>3, <1>4 DEF SpansOf
<1> QED  BY <1>5 DEF mine, fresh

(* The tree keeps its type. *)
LEMMA TreeType ==
  ASSUME NEW tree, NEW next, NEW i, NEW rows, NEW new, NEW end, NEW was, NEW is,
         TreeGoesOn(tree, next, i, rows, new, end, was, is)
  PROVE  TreeTypeOK(next, i)
<1>1. /\ i \in Nat \ {0} /\ TreeTypeOK(tree, i - 1)
      /\ HomesKnown(tree, rows) /\ end \in Terminal
  BY DEF TreeGoesOn
<1>2. tree.rounds \in Seq(1..i)
  <2>1. tree.rounds \in [1..Len(tree.rounds) -> 1..(i - 1)] /\ Len(tree.rounds) \in Nat
    BY <1>1 DEF TreeTypeOK
  <2>2. 1..(i - 1) \subseteq 1..i
    BY <1>1
  <2> QED  BY <1>1, <2>1, <2>2 DEF TreeTypeOK
<1>3. Append(tree.rounds, i) \in Seq(1..i)
  <2>1. i \in 1..i
    BY <1>1
  <2> QED  BY <1>2, <2>1
<1> DEFINE later == IF PatchIn(rows) THEN Append(tree.rounds, i) ELSE tree.rounds
<1>p. /\ next.rounds = later
      /\ next.home = [n \in Nodes |-> IF PatchIn(rows) /\ n \in new THEN Len(later)
                                      ELSE tree.home[n]]
      /\ next.open = [n \in Nodes |-> IF n \in StartedIn(rows) THEN i
                                      ELSE IF n \in OverIn(rows) THEN 0
                                      ELSE tree.open[n]]
  <2>1. next = Extended(tree, i, rows, new)
    BY DEF TreeGoesOn
  <2> QED  BY <1>1, <2>1, ExtendedParts
<1>4. next.rounds \in Seq(1..i)
  BY <1>2, <1>3, <1>p
<1>5. next.home \in [Nodes -> Nat]
  <2>1. Len(tree.rounds) \in Nat /\ Len(Append(tree.rounds, i)) \in Nat
    BY <1>2, <1>3
  <2> QED  BY <1>1, <1>p, <2>1 DEF TreeTypeOK
<1>6. next.open \in [Nodes -> Nat]
  BY <1>1, <1>p DEF TreeTypeOK
<1>7. ASSUME NEW n \in StartedIn(rows) \cup OverIn(rows)
      PROVE  NewSpan(tree, n, i, 0, "") \in Spans /\ NewSpan(tree, n, i, i, end) \in Spans
  BY <1>1 DEF HomesKnown, TreeTypeOK, NewSpan, Spans, SpanRecords, SpanStates, Terminal
<1>8. ASSUME NEW s \in Spans PROVE Closed(s, i, end) \in Spans
  BY <1>1 DEF Closed, Spans, SpanRecords, SpanStates, Terminal
<1>9. next.spans \subseteq Spans
  <2>1. tree.spans \subseteq Spans
    BY <1>1 DEF TreeTypeOK
  <2> HIDE DEF Spans
  <2>2. next.spans =
           {IF s.node \in OverIn(rows) /\ s.from = tree.open[s.node]
            THEN Closed(s, i, end) ELSE s : s \in tree.spans}
           \cup {NewSpan(tree, n, i, 0, "") : n \in StartedIn(rows)}
           \cup {NewSpan(tree, n, i, i, end) :
                   n \in {m \in OverIn(rows) : tree.open[m] = 0}}
    <3>1. next.spans = SpansAfter(tree, i, rows, end)
      BY GoesOnSpans
    <3> QED  BY <3>1 DEF SpansAfter
  <2> QED  BY <1>7, <1>8, <2>1, <2>2
<1> QED  BY <1>4, <1>5, <1>6, <1>9 DEF TreeTypeOK

-----------------------------------------------------------------------------
(***************************************************************************)
(* What the tree tells of a node n that is in state st, over a journal of  *)
(* that length with payload adds: TraceTellsTheRun, strengthened by what   *)
(* home and open mean.  A node that is there has the round that added it.  *)
(* Its spans start one after the other, after their round.  While it is    *)
(* open none of them is closed and open is the start of the last one; when *)
(* it has ended only the last one is.                                      *)
(***************************************************************************)
Born(tree, n, st, adds) ==
  IF st = "absent" THEN tree.home[n] = 0 /\ tree.open[n] = 0 /\ SpansOf(tree, n) = {}
  ELSE tree.home[n] \in DOMAIN tree.rounds /\ n \in adds[tree.rounds[tree.home[n]]]

Placed(tree, n, length) ==
  /\ \A s \in SpansOf(tree, n) :
       s.round = tree.home[n] /\ tree.rounds[tree.home[n]] < s.from /\ s.from <= length
  /\ \A s, t \in SpansOf(tree, n) : s.from = t.from => s = t

Opened(tree, n) ==
  /\ tree.open[n] = 0 <=> SpansOf(tree, n) = {}
  /\ tree.open[n] # 0 => \E s \in SpansOf(tree, n) : s.from = tree.open[n]
  /\ \A s \in SpansOf(tree, n) : s.to = 0 /\ s.from <= tree.open[n]

Over(tree, n, st) ==
  /\ tree.open[n] = 0
  /\ \E s \in SpansOf(tree, n) :
       /\ s.to # 0 /\ s.state = st
       /\ \A t \in SpansOf(tree, n) : t.from <= s.from /\ (t # s => t.to = 0)

Told(tree, n, st, length, adds) ==
  /\ Born(tree, n, st, adds)
  /\ Placed(tree, n, length)
  /\ st \in Open => Opened(tree, n)
  /\ st = "running" => SpansOf(tree, n) # {}
  /\ st \in Terminal => Over(tree, n, st)

(* The parts of the next tree. *)
LEMMA GoesOnParts ==
  ASSUME NEW tree, NEW next, NEW i, NEW rows, NEW new, NEW end, NEW was, NEW is,
         TreeGoesOn(tree, next, i, rows, new, end, was, is)
  PROVE  /\ PatchIn(rows) => next.rounds = Append(tree.rounds, i)
         /\ ~PatchIn(rows) => next.rounds = tree.rounds
         /\ \A n \in Nodes :
              /\ PatchIn(rows) /\ n \in new => next.home[n] = Len(next.rounds)
              /\ ~PatchIn(rows) \/ n \notin new => next.home[n] = tree.home[n]
              /\ next.open[n] = IF n \in StartedIn(rows) THEN i
                                ELSE IF n \in OverIn(rows) THEN 0 ELSE tree.open[n]
<1>1. next = Extended(tree, i, rows, new) /\ HomesKnown(tree, rows)
  BY DEF TreeGoesOn
<1> DEFINE later == IF PatchIn(rows) THEN Append(tree.rounds, i) ELSE tree.rounds
<1>2. /\ next.rounds = later
      /\ next.home = [n \in Nodes |-> IF PatchIn(rows) /\ n \in new THEN Len(later)
                                      ELSE tree.home[n]]
      /\ next.open = [n \in Nodes |-> IF n \in StartedIn(rows) THEN i
                                      ELSE IF n \in OverIn(rows) THEN 0
                                      ELSE tree.open[n]]
  BY <1>1, ExtendedParts
<1> QED  BY <1>2

(* The rounds there are stay where they are, with what they added. *)
LEMMA RoundsKept ==
  ASSUME NEW tree, NEW next, NEW i, NEW rows, NEW new, NEW end, NEW was, NEW is,
         TreeGoesOn(tree, next, i, rows, new, end, was, is),
         NEW k \in DOMAIN tree.rounds
  PROVE  /\ k \in DOMAIN next.rounds /\ next.rounds[k] = tree.rounds[k]
         /\ next.rounds[k] \in 1..(i - 1) /\ k \in Nat \ {0}
         /\ is[next.rounds[k]] = was[next.rounds[k]]
<1>1. i \in Nat /\ tree.rounds \in Seq(1..(i - 1)) /\ \A j \in 1..(i - 1) : is[j] = was[j]
  BY DEF TreeGoesOn, TreeTypeOK
<1>2. next.rounds = Append(tree.rounds, i) \/ next.rounds = tree.rounds
  BY GoesOnParts
<1>3. tree.rounds[k] \in 1..(i - 1) /\ k \in Nat \ {0} /\ DOMAIN tree.rounds = 1..Len(tree.rounds)
      /\ Len(tree.rounds) \in Nat
  BY <1>1
<1>4. k \in DOMAIN next.rounds /\ next.rounds[k] = tree.rounds[k]
  BY <1>1, <1>2, <1>3
<1> QED  BY <1>1, <1>3, <1>4

(* So a node that was there, and is not added again, keeps its birth. *)
LEMMA BornKept ==
  ASSUME NEW tree, NEW next, NEW i, NEW rows, NEW new, NEW end, NEW was, NEW is,
         TreeGoesOn(tree, next, i, rows, new, end, was, is),
         NEW n \in Nodes, n \notin new, NEW st, st # "absent", Born(tree, n, st, was),
         NEW st2, st2 # "absent"
  PROVE  /\ Born(next, n, st2, is)
         /\ next.home[n] = tree.home[n] /\ tree.home[n] \in Nat
         /\ next.rounds[next.home[n]] = tree.rounds[tree.home[n]]
         /\ tree.rounds[tree.home[n]] \in 1..(i - 1)
<1>1. next.home[n] = tree.home[n]
  BY GoesOnParts
<1>2. tree.home[n] \in DOMAIN tree.rounds /\ n \in was[tree.rounds[tree.home[n]]]
  BY DEF Born
<1> QED  BY <1>1, <1>2, RoundsKept DEF Born

(* A transaction that says nothing of a node leaves its story alone, also  *)
(* when the node is parked, resumed or taken back after a crash.           *)
LEMMA ToldQuiet ==
  ASSUME NEW tree, NEW next, NEW i, NEW rows, NEW new, NEW end, NEW was, NEW is,
         TreeGoesOn(tree, next, i, rows, new, end, was, is),
         NEW n \in Nodes, n \notin StartedIn(rows), n \notin OverIn(rows), n \notin new,
         NEW st, Told(tree, n, st, i - 1, was),
         NEW st2, st2 = st \/ (st \in Open /\ st2 \in {"pending", "waiting"})
  PROVE  Told(next, n, st2, i, is)
<1>1. SpansOf(next, n) = SpansOf(tree, n)
  BY SpansQuiet
<1>2. next.open[n] = tree.open[n] /\ next.home[n] = tree.home[n]
  BY GoesOnParts
<1>3. CASE st = "absent"
  BY <1>1, <1>2, <1>3 DEF Told, Born, Placed, Open, Terminal
<1>4. CASE st # "absent"
  <2>1. st2 # "absent"
    BY <1>4
  <2>2. Born(next, n, st2, is) /\ next.rounds[next.home[n]] = tree.rounds[tree.home[n]]
    BY <1>4, <2>1, BornKept DEF Told
  <2>3. Placed(next, n, i)
    <3>1. \A s \in SpansOf(tree, n) : s.from \in Nat
      BY DEF TreeGoesOn, TreeTypeOK, Spans, SpanRecords, SpansOf
    <3>2. i \in Nat
      BY DEF TreeGoesOn
    <3> QED  BY <1>1, <1>2, <2>2, <3>1, <3>2 DEF Told, Placed
  <2>4. st2 \in Open => Opened(next, n)
    BY <1>1, <1>2 DEF Told, Opened, Open
  <2>5. st2 \in Terminal => Over(next, n, st2)
    BY <1>1, <1>2 DEF Told, Over, Terminal
  <2>6. st2 = "running" => SpansOf(next, n) # {}
    BY <1>1 DEF Told
  <2> QED  BY <2>2, <2>3, <2>4, <2>5, <2>6 DEF Told
<1> QED  BY <1>3, <1>4

(* A patch gives the nodes it adds their round. *)
LEMMA ToldAdded ==
  ASSUME NEW tree, NEW next, NEW i, NEW rows, NEW new, NEW end, NEW was, NEW is,
         TreeGoesOn(tree, next, i, rows, new, end, was, is), PatchIn(rows),
         NEW n \in Nodes, n \notin StartedIn(rows), n \notin OverIn(rows), n \in new,
         Told(tree, n, "absent", i - 1, was), NEW st2 \in {"pending", "waiting"}
  PROVE  Told(next, n, st2, i, is)
<1>1. SpansOf(next, n) = {} /\ next.open[n] = 0
  BY SpansQuiet, GoesOnParts DEF Told, Born
<1>2. next.rounds = Append(tree.rounds, i) /\ next.home[n] = Len(next.rounds)
  BY GoesOnParts
<1>3. tree.rounds \in Seq(1..(i - 1)) /\ is[i] = new
  BY DEF TreeGoesOn, TreeTypeOK
<1>4. next.home[n] \in DOMAIN next.rounds /\ next.rounds[next.home[n]] = i
  BY <1>2, <1>3
<1>5. Born(next, n, st2, is)
  BY <1>3, <1>4 DEF Born
<1> QED  BY <1>1, <1>5 DEF Told, Placed, Opened, Open, Terminal

(* A node that starts has one more span, the last one. *)
LEMMA ToldStarted ==
  ASSUME NEW tree, NEW next, NEW i, NEW rows, NEW new, NEW end, NEW was, NEW is,
         TreeGoesOn(tree, next, i, rows, new, end, was, is),
         NEW n \in Nodes, n \in StartedIn(rows), n \notin new,
         NEW st \in Open, Told(tree, n, st, i - 1, was)
  PROVE  Told(next, n, "running", i, is)
<1> DEFINE span == OpenSpan(tree, n, i)
<1>0. i \in Nat \ {0} /\ tree.spans \subseteq Spans
  BY DEF TreeGoesOn, TreeTypeOK
<1>1. SpansOf(next, n) = SpansOf(tree, n) \cup {span}
  BY SpansStarted
<1>2. next.open[n] = i
  BY GoesOnParts
<1>3. /\ Born(next, n, "running", is)
      /\ next.home[n] = tree.home[n]
      /\ next.rounds[next.home[n]] = tree.rounds[tree.home[n]]
      /\ tree.rounds[tree.home[n]] \in 1..(i - 1)
  BY BornKept DEF Told, Open
<1>4. span.from = i /\ span.to = 0 /\ span.round = tree.home[n]
  BY DEF NewSpan, OpenSpan
<1>5. ASSUME NEW s \in SpansOf(tree, n)
      PROVE  /\ s.from \in Nat /\ s.from <= i - 1 /\ s.to = 0
             /\ s.round = tree.home[n] /\ tree.rounds[tree.home[n]] < s.from
  <2>1. s.from \in Nat
    BY <1>0 DEF Spans, SpanRecords, SpansOf
  <2> QED  BY <2>1 DEF Told, Placed, Opened
<1> HIDE DEF span
<1>6. Placed(next, n, i)
  <2>1. ASSUME NEW s \in SpansOf(next, n)
        PROVE  s.round = next.home[n] /\ next.rounds[next.home[n]] < s.from /\ s.from <= i
    <3>1. CASE s = span
      BY <1>0, <1>3, <1>4, <3>1
    <3>2. CASE s \in SpansOf(tree, n)
      BY <1>0, <1>3, <1>5, <3>2
    <3> QED  BY <1>1, <3>1, <3>2
  <2>2. \A s, t \in SpansOf(next, n) : s.from = t.from => s = t
    <3>1. \A s, t \in SpansOf(tree, n) : s.from = t.from => s = t
      BY DEF Told, Placed
    <3>2. \A s \in SpansOf(tree, n) : s.from # span.from
      BY <1>0, <1>4, <1>5
    <3> QED  BY <1>1, <3>1, <3>2
  <2> QED  BY <2>1, <2>2 DEF Placed
<1>7. Opened(next, n)
  <2>1. \A s \in SpansOf(next, n) : s.to = 0 /\ s.from <= i
    BY <1>0, <1>1, <1>4, <1>5
  <2> QED  BY <1>0, <1>1, <1>2, <1>4, <2>1 DEF Opened
<1>8. SpansOf(next, n) # {}
  BY <1>1
<1> QED  BY <1>3, <1>6, <1>7, <1>8 DEF Told, Terminal

(* A node that ends closes the last of its spans, or one that was never    *)
(* opened.                                                                 *)
LEMMA ToldOver ==
  ASSUME NEW tree, NEW next, NEW i, NEW rows, NEW new, NEW end, NEW was, NEW is,
         TreeGoesOn(tree, next, i, rows, new, end, was, is),
         NEW n \in Nodes, n \in OverIn(rows), n \notin new,
         NEW st \in Open, Told(tree, n, st, i - 1, was)
  PROVE  Told(next, n, end, i, is)
<1> DEFINE mine == SpansOf(tree, n)
           image(s) == IF s.from = tree.open[n] THEN Closed(s, i, end) ELSE s
           span == NewSpan(tree, n, i, i, end)
<1>0. /\ i \in Nat \ {0} /\ tree.spans \subseteq Spans /\ end \in Terminal
      /\ n \notin StartedIn(rows) /\ tree.open[n] \in Nat
  BY DEF TreeGoesOn, TreeTypeOK
<1>1. SpansOf(next, n) = {image(s) : s \in mine}
                           \cup (IF tree.open[n] = 0 THEN {span} ELSE {})
  BY SpansOver
<1>2. next.open[n] = 0
  BY <1>0, GoesOnParts
<1>3. /\ Born(next, n, end, is)
      /\ next.home[n] = tree.home[n]
      /\ next.rounds[next.home[n]] = tree.rounds[tree.home[n]]
      /\ tree.rounds[tree.home[n]] \in 1..(i - 1)
  BY <1>0, BornKept DEF Told, Open, Terminal
<1>4. ASSUME NEW s \in mine
      PROVE  /\ s \in Spans /\ s.from \in Nat /\ s.from <= i - 1 /\ s.to = 0
             /\ s.round = tree.home[n] /\ tree.rounds[tree.home[n]] < s.from
             /\ s.from <= tree.open[n]
  <2>1. s \in Spans /\ s.from \in Nat
    BY <1>0 DEF Spans, SpanRecords, SpansOf
  <2> QED  BY <2>1 DEF Told, Placed, Opened
<1>5. \A s, t \in mine : s.from = t.from => s = t
  BY DEF Told, Placed
<1>6. ASSUME NEW s \in mine
      PROVE  /\ image(s).from = s.from /\ image(s).round = s.round
             /\ s.from # tree.open[n] => image(s) = s
             /\ s.from = tree.open[n] => image(s).to = i /\ image(s).state = end
  BY DEF Closed
<1>8. CASE mine = {}
  <2>1. SpansOf(next, n) = {span}
    <3>1. tree.open[n] = 0
      BY <1>8 DEF Told, Opened
    <3>2. {image(s) : s \in mine} = {}
      BY <1>8
    <3> HIDE DEF image, mine
    <3> QED  BY <1>1, <3>1, <3>2
  <2>2. span.from = i /\ span.to = i /\ span.state = end /\ span.round = tree.home[n]
    BY DEF NewSpan
  <2> HIDE DEF span
  <2>3. Placed(next, n, i)
    BY <1>0, <1>3, <2>1, <2>2 DEF Placed
  <2>4. Over(next, n, end)
    BY <1>0, <1>2, <2>1, <2>2 DEF Over
  <2> QED  BY <1>0, <1>3, <2>3, <2>4 DEF Told, Open, Terminal
<1>9. CASE mine # {}
  <2>1. PICK last \in mine : last.from = tree.open[n]
    BY <1>9 DEF Told, Opened
  <2>2. tree.open[n] # 0
    BY <1>9 DEF Told, Opened
  <2>3. SpansOf(next, n) = {image(s) : s \in mine}
    BY <1>1, <2>2
  <2> HIDE DEF image, mine
  <2>4. Placed(next, n, i)
    <3>1. ASSUME NEW s \in mine
          PROVE  /\ image(s).round = next.home[n] /\ next.rounds[next.home[n]] < image(s).from
                 /\ image(s).from <= i
      BY <1>0, <1>3, <1>4, <1>6
    <3>2. ASSUME NEW s \in mine, NEW t \in mine, image(s).from = image(t).from
          PROVE  image(s) = image(t)
      BY <1>5, <1>6, <3>2
    <3> QED  BY <2>3, <3>1, <3>2 DEF Placed
  <2>5. Over(next, n, end)
    <3>1. image(last).to # 0 /\ image(last).state = end
      BY <1>0, <1>6, <2>1
    <3>2. ASSUME NEW t \in mine
          PROVE  image(t).from <= image(last).from /\ (image(t) # image(last) => image(t).to = 0)
      <4>1. t.from <= last.from
        BY <1>4, <2>1
      <4>2. t # last => t.from # tree.open[n]
        BY <1>5, <2>1
      <4>3. t # last => image(t) = t /\ t.to = 0
        BY <1>4, <1>6, <4>2
      <4> QED  BY <1>6, <4>1, <4>3
    <3> QED  BY <1>2, <2>3, <3>1, <3>2 DEF Over
  <2> QED  BY <1>0, <1>3, <2>4, <2>5 DEF Told, Open, Terminal
<1> QED  BY <1>8, <1>9

-----------------------------------------------------------------------------
(***************************************************************************)
(* The tree of the journal there is tells the story of every node.         *)
(***************************************************************************)
TreeOK(tree) ==
  /\ TreeTypeOK(tree, Len(journal))
  /\ Len(tree.rounds) = Cardinality(patched)
  /\ \A n \in Nodes : Told(tree, n, state[n], Len(journal), added)

(* What a transaction must do to the nodes, for the tree to keep up.       *)
NodesFollow(rows, end) ==
  /\ \A n \in StartedIn(rows) : n \in Nodes /\ state[n] \in Open /\ state'[n] = "running"
  /\ \A n \in OverIn(rows) : n \in Nodes /\ state[n] \in Open /\ state'[n] = end
  /\ \A n \in Nodes : n \notin StartedIn(rows) \cup OverIn(rows) =>
       IF state[n] = "absent" /\ state'[n] # "absent"
       THEN PatchIn(rows) /\ state'[n] \in {"pending", "waiting"}
       ELSE state'[n] = state[n]
            \/ (state[n] \in Open /\ state'[n] \in {"pending", "waiting"})

(* A transaction whose nodes follow keeps the tree. *)
LEMMA TreeStep ==
  ASSUME StoreTypeOK, AddedOK, NEW tree, TreeOK(tree),
         NEW rows, NEW end \in Terminal, EndsWith(rows, end),
         StartedIn(rows) \cap OverIn(rows) = {},
         Writes(rows, NewNodes), NodesFollow(rows, end),
         PatchIn(rows) => Cardinality(patched') = Cardinality(patched) + 1,
         ~PatchIn(rows) => patched' = patched,
         NEW next, next = Extended(tree, Len(journal'), rows, NewNodes)
  PROVE  TreeOK(next)'
<1> SUFFICES ASSUME NEW i, i = Len(journal'), NEW new, new = NewNodes,
                    NEW was, was = added, NEW is, is = added'
             PROVE  /\ TreeTypeOK(next, i)
                    /\ Len(next.rounds) = Cardinality(patched')
                    /\ \A n \in Nodes : Told(next, n, state'[n], i, is)
  BY DEF TreeOK
<1>1. TreeGoesOn(tree, next, i, rows, new, end, was, is)
  <2>1. /\ Len(journal) \in Nat /\ i = Len(journal) + 1
        /\ \A k \in 1..Len(journal) : added'[k] = added[k]
        /\ added'[i] = new
    <3>1. NewNodes \in SUBSET Nodes
      BY DEF NewNodes
    <3> QED  BY <3>1, WritesAppends
  <2>2. i \in Nat \ {0} /\ i - 1 = Len(journal)
    BY <2>1
  <2>3. HomesKnown(tree, rows)
    <3> SUFFICES ASSUME NEW n \in StartedIn(rows) \cup OverIn(rows)
                 PROVE  n \in Nodes /\ tree.home[n] # 0 /\ tree.rounds # <<>>
      BY DEF HomesKnown
    <3>1. n \in Nodes /\ state[n] # "absent"
      BY DEF NodesFollow, Open
    <3>2. tree.home[n] \in DOMAIN tree.rounds
      BY <3>1 DEF TreeOK, Told, Born
    <3>3. tree.rounds \in Seq(1..Len(journal))
      BY DEF TreeOK, TreeTypeOK
    <3> QED  BY <3>1, <3>2, <3>3
  <2>4. TreeTypeOK(tree, i - 1)
    BY <2>2 DEF TreeOK
  <2> QED  BY <2>1, <2>2, <2>3, <2>4 DEF TreeGoesOn
<1>2. TreeTypeOK(next, i)
  BY <1>1, TreeType
<1>3. Len(next.rounds) = Cardinality(patched')
  <2>1. tree.rounds \in Seq(1..Len(journal)) /\ Len(tree.rounds) = Cardinality(patched)
    BY DEF TreeOK, TreeTypeOK
  <2>2. CASE PatchIn(rows)
    <3>1. next.rounds = Append(tree.rounds, i)
      BY <1>1, <2>2, GoesOnParts
    <3>2. Len(next.rounds) = Len(tree.rounds) + 1
      BY <2>1, <3>1
    <3> QED  BY <2>1, <2>2, <3>2
  <2>3. CASE ~PatchIn(rows)
    BY <1>1, <2>1, <2>3, GoesOnParts
  <2> QED  BY <2>2, <2>3
<1>4. ASSUME NEW n \in Nodes PROVE Told(next, n, state'[n], i, is)
  <2>1. i - 1 = Len(journal)
    <3>1. Len(journal) \in Nat /\ i = Len(journal) + 1
      BY CommitAppends DEF Writes
    <3> QED  BY <3>1
  <2>2. Told(tree, n, state[n], i - 1, was)
    BY <2>1 DEF TreeOK
  <2>3. n \in new <=> state[n] = "absent" /\ state'[n] # "absent"
    BY DEF NewNodes
  <2>4. CASE n \in StartedIn(rows)
    <3>1. state[n] \in Open /\ state'[n] = "running" /\ n \notin new
      BY <2>3, <2>4 DEF NodesFollow, Open
    <3> QED  BY <1>1, <2>2, <2>4, <3>1, ToldStarted
  <2>5. CASE n \in OverIn(rows)
    <3>1. state[n] \in Open /\ state'[n] = end /\ n \notin new
      BY <2>3, <2>5 DEF NodesFollow, Open
    <3> QED  BY <1>1, <2>2, <2>5, <3>1, ToldOver
  <2>6. CASE n \notin StartedIn(rows) /\ n \notin OverIn(rows) /\ n \in new
    <3>1. state[n] = "absent" /\ PatchIn(rows) /\ state'[n] \in {"pending", "waiting"}
      BY <2>3, <2>6 DEF NodesFollow
    <3>2. Told(tree, n, "absent", i - 1, was)
      BY <2>2, <3>1
    <3> QED  BY <1>1, <2>6, <3>1, <3>2, ToldAdded
  <2>7. CASE n \notin StartedIn(rows) /\ n \notin OverIn(rows) /\ n \notin new
    <3>1. state'[n] = state[n] \/ (state[n] \in Open /\ state'[n] \in {"pending", "waiting"})
      BY <2>3, <2>7 DEF NodesFollow
    <3> QED  BY <1>1, <2>2, <2>7, <3>1, ToldQuiet
  <2> QED  BY <2>4, <2>5, <2>6, <2>7
<1> QED  BY <1>2, <1>3, <1>4

(* What a transaction with rows is to the tree: who it ends it ends alike, *)
(* the nodes follow, and a patch is one more.                              *)
Transaction(rows, end) ==
  /\ Commit(rows) /\ end \in Terminal /\ EndsWith(rows, end)
  /\ StartedIn(rows) \cap OverIn(rows) = {}
  /\ NodesFollow(rows, end)
  /\ PatchIn(rows) => Cardinality(patched') = Cardinality(patched) + 1
  /\ ~PatchIn(rows) => patched' = patched

Decisions(rows) == OfKind(rows, {"graph_patched"})

(* A row of a patch names the event that the step decides.                 *)
Decides(rows) ==
  PatchIn(rows) => \E t \in DOMAIN journal \ patched :
                     patched' = patched \cup {t} /\ \A r \in Decisions(rows) : r.trigger = t

(* Rows of kinds that start and end nothing. *)
LEMMA RowsOfNobody ==
  ASSUME NEW kind \in {"run_started", "run_resumed"},
         NEW rows, rows = {Row(kind, NoNode)}
  PROVE  StartedIn(rows) = {} /\ OverIn(rows) = {} /\ ~PatchIn(rows)
         /\ EndsWith(rows, "failed")
BY DEF StartedIn, OverIn, PatchIn, EndsWith, OfKind, Row, TerminalKinds

(* The rows of a launch. *)
LEMMA RowsOfLaunch ==
  ASSUME NEW tasks, NEW rows, rows = {Row("task_started", n) : n \in tasks}
  PROVE  StartedIn(rows) = tasks /\ OverIn(rows) = {} /\ ~PatchIn(rows)
         /\ EndsWith(rows, "failed")
<1>1. /\ \A n : Row("task_started", n).kind = "task_started"
      /\ \A n : Row("task_started", n).node = n
  BY DEF Row
<1>2. \A r \in rows : r.kind = "task_started"
  BY <1>1
<1>3. OfKind(rows, {"task_started"}) = rows /\ OfKind(rows, TerminalKinds) = {}
      /\ OfKind(rows, {"graph_patched"}) = {}
  BY <1>2 DEF OfKind, TerminalKinds
<1>4. {r.node : r \in rows} = tasks
  <2>1. \A r \in rows : r.node \in tasks
    BY <1>1
  <2>2. \A n \in tasks : Row("task_started", n) \in rows
    OBVIOUS
  <2>3. ASSUME NEW n \in tasks PROVE n \in {r.node : r \in rows}
    BY <1>1, <2>2
  <2> QED  BY <2>1, <2>3
<1> QED  BY <1>3, <1>4 DEF StartedIn, OverIn, PatchIn, EndsWith

(* The row of an outcome. *)
LEMMA RowsOfOutcome ==
  ASSUME NEW n, NEW success \in BOOLEAN, NEW rows,
         rows = {Row(IF success THEN "task_succeeded" ELSE "task_failed", n)}
  PROVE  StartedIn(rows) = {} /\ OverIn(rows) = {n} /\ ~PatchIn(rows)
         /\ EndsWith(rows, IF success THEN "succeeded" ELSE "failed")
<1>1. PICK kind \in {"task_succeeded", "task_failed"} :
        rows = {Row(kind, n)} /\ kind = IF success THEN "task_succeeded" ELSE "task_failed"
  OBVIOUS
<1>2. Row(kind, n).kind = kind /\ Row(kind, n).node = n
  BY DEF Row
<1>3. \A r \in rows : r.kind = kind /\ r.node = n
  BY <1>1, <1>2
<1>4. OfKind(rows, {"task_started"}) = {} /\ OfKind(rows, TerminalKinds) = rows
      /\ OfKind(rows, {"graph_patched"}) = {}
  BY <1>3 DEF OfKind, TerminalKinds
<1>5. EndState(kind) = IF success THEN "succeeded" ELSE "failed"
  BY <1>1 DEF EndState
<1>6. {r.node : r \in rows} = {n}
  BY <1>1, <1>2
<1> QED  BY <1>3, <1>4, <1>5, <1>6 DEF StartedIn, OverIn, PatchIn, EndsWith

(* The rows of a patch. *)
LEMMA RowsOfPatch ==
  ASSUME NEW dropped, NEW t, NEW rows,
         rows = {Row("task_cancelled", n) : n \in dropped} \cup {PatchRow(t)}
  PROVE  StartedIn(rows) = {} /\ OverIn(rows) = dropped /\ PatchIn(rows)
         /\ EndsWith(rows, "cancelled")
<1>1. ASSUME NEW r \in rows
      PROVE  r = PatchRow(t) \/ \E n \in dropped : r = Row("task_cancelled", n)
  OBVIOUS
<1>2. /\ \A n : Row("task_cancelled", n).kind = "task_cancelled"
      /\ \A n : Row("task_cancelled", n).node = n
      /\ PatchRow(t).kind = "graph_patched"
  BY DEF Row, PatchRow
<1>3. PatchRow(t) \in rows /\ \A n \in dropped : Row("task_cancelled", n) \in rows
  OBVIOUS
<1>4. StartedIn(rows) = {}
  BY <1>1, <1>2 DEF StartedIn, OfKind
<1>5. OverIn(rows) = dropped
  <2>1. \A r \in rows : r.kind \in TerminalKinds =>
          \E n \in dropped : r = Row("task_cancelled", n)
    BY <1>1, <1>2 DEF TerminalKinds
  <2>2. \A r \in OfKind(rows, TerminalKinds) : r.node \in dropped
    BY <1>2, <2>1 DEF OfKind
  <2>3. \A n \in dropped : Row("task_cancelled", n) \in OfKind(rows, TerminalKinds)
    BY <1>2, <1>3 DEF OfKind, TerminalKinds
  <2>4. ASSUME NEW n \in dropped PROVE n \in OverIn(rows)
    BY <1>2, <2>3 DEF OverIn
  <2> QED  BY <2>2, <2>4 DEF OverIn
<1>6. PatchIn(rows)
  BY <1>2, <1>3 DEF PatchIn, OfKind
<1>7. EndsWith(rows, "cancelled")
  <2>1. EndState("task_cancelled") = "cancelled"
    BY DEF EndState
  <2>2. \A r \in OfKind(rows, TerminalKinds) : r.kind = "task_cancelled"
    BY <1>1, <1>2 DEF OfKind, TerminalKinds
  <2> QED  BY <2>1, <2>2 DEF EndsWith
<1> QED  BY <1>4, <1>5, <1>6, <1>7

(* Its decision is named. *)
LEMMA TriggerOfPatch ==
  ASSUME NEW dropped, NEW t, NEW rows,
         rows = {Row("task_cancelled", n) : n \in dropped} \cup {PatchRow(t)}
  PROVE  \A r \in Decisions(rows) : r.trigger = t
<1>1. /\ \A n : Row("task_cancelled", n).kind = "task_cancelled"
      /\ PatchRow(t).trigger = t
  BY DEF Row, PatchRow
<1>2. ASSUME NEW r \in Decisions(rows) PROVE r = PatchRow(t)
  <2>1. r \in rows /\ r.kind = "graph_patched"
    BY DEF Decisions, OfKind
  <2>2. r = PatchRow(t) \/ \E n \in dropped : r = Row("task_cancelled", n)
    BY <2>1
  <2> QED  BY <1>1, <2>1, <2>2
<1> QED  BY <1>1, <1>2

(* A commit of a patch is one more in the table. *)
LEMMA OneMorePatch ==
  ASSUME StoreTypeOK, NEW t \in DOMAIN journal \ patched, patched' = patched \cup {t}
  PROVE  Cardinality(patched') = Cardinality(patched) + 1
<1>1. patched \subseteq 1..Len(journal) /\ Len(journal) \in Nat
  BY DEF StoreTypeOK
<1>2. IsFiniteSet(1..Len(journal))
  <2>1. \A a, b \in Int : IsFiniteSet(a..b)
    BY FS_Interval
  <2> QED  BY <1>1, <2>1
<1>3. IsFiniteSet(patched)
  BY <1>1, <1>2, FS_Subset
<1> QED  BY <1>3, FS_AddElement

(* What a patch makes of a node.  A node it cancels was open and is now    *)
(* cancelled, the others are parked, resumed, added or as they were.       *)
LEMMA PatchFollows ==
  ASSUME CancelsForGood, FinishAddsNothing, StoreTypeOK,
         NEW p \in Patches, NEW t \in DOMAIN journal \ patched, CommitPatch(p, t),
         NEW rows, rows = {Row("task_cancelled", n) : n \in p.cancel \cup Leftovers(p)}
                            \cup {PatchRow(t)}
  PROVE  NodesFollow(rows, "cancelled")
<1> DEFINE dropped == p.cancel \cup Leftovers(p)
<1>0. StartedIn(rows) = {} /\ OverIn(rows) = dropped /\ PatchIn(rows)
  BY RowsOfPatch
<1>1. /\ p.add \subseteq Nodes /\ p.cancel \subseteq Nodes /\ p.wait \subseteq Nodes
      /\ p.resume \subseteq Nodes /\ p.finish \in BOOLEAN
  BY PatchesAssumption DEF GraphPatch
<1>2. /\ p.add \cap Existing = {} /\ p.cancel \cap (p.wait \cup p.resume) = {}
      /\ p.finish => p.add = {}
      /\ p.cancel \cup p.wait \cup p.resume \subseteq Existing \cup p.add
      /\ \A n \in p.cancel : state[n] \in Open
      /\ \A n \in p.wait \cap Existing : state[n] = "pending"
      /\ \A n \in p.resume \cap Existing : state[n] = "waiting"
  BY DEF CommitPatch, Accepts, CancelsForGood, FinishAddsNothing
<1>3. \A n \in Nodes : state'[n] = IF n \in Leftovers(p) THEN "cancelled" ELSE Rewritten(p, n)
  BY DEF CommitPatch
<1>4. ASSUME NEW n \in p.cancel
      PROVE  n \in Nodes /\ state[n] \in Open /\ state'[n] = "cancelled"
  <2>1. Rewritten(p, n) = "cancelled"
    BY <1>2 DEF Rewritten
  <2> QED  BY <1>1, <1>2, <1>3, <2>1
<1>5. ASSUME NEW n \in Leftovers(p)
      PROVE  n \in Nodes /\ state[n] \in Open /\ state'[n] = "cancelled"
  <2>1. n \in Nodes /\ p.finish /\ Rewritten(p, n) \in Open
    BY DEF Leftovers
  <2>2. p.add = {}
    BY <1>2, <2>1
  <2>3. state[n] \in Open
    BY <1>2, <2>1, <2>2 DEF Rewritten, Open
  <2> QED  BY <1>3, <1>5, <2>1, <2>3
<1>6. ASSUME NEW n \in Nodes, n \notin dropped
      PROVE  IF state[n] = "absent" /\ state'[n] # "absent"
             THEN state'[n] \in {"pending", "waiting"}
             ELSE state'[n] = state[n]
                  \/ (state[n] \in Open /\ state'[n] \in {"pending", "waiting"})
  <2>1. state'[n] = Rewritten(p, n) /\ n \notin p.cancel
    BY <1>3, <1>6
  <2>2. n \in Existing <=> state[n] # "absent"
    BY DEF Existing
  <2>3. CASE n \in p.resume \/ n \in p.wait
    <3>1. state'[n] \in {"pending", "waiting"}
      BY <2>1, <2>3 DEF Rewritten
    <3>2. n \in Existing => state[n] \in Open
      BY <1>2, <2>3 DEF Open
    <3> QED  BY <2>2, <3>1, <3>2
  <2>4. CASE n \notin p.resume /\ n \notin p.wait
    <3>1. state'[n] = IF n \in p.add THEN "pending" ELSE state[n]
      BY <2>1, <2>4 DEF Rewritten
    <3>2. n \in p.add => state[n] = "absent"
      BY <1>2, <2>2
    <3> QED  BY <3>1, <3>2
  <2> QED  BY <2>3, <2>4
<1> QED  BY <1>0, <1>4, <1>5, <1>6 DEF NodesFollow

(* Every transaction of the store is one the tree keeps up with. *)
LEMMA StepIsTransaction ==
  ASSUME CancelsForGood, FinishAddsNothing, StoreTypeOK, StoreStep
  PROVE  UNCHANGED store \/ \E rows, end : Transaction(rows, end) /\ Decides(rows)
<1>1. CASE Start
  <2>1. PICK rows : rows = {Row("run_started", NoNode)}
    OBVIOUS
  <2>2. StartedIn(rows) = {} /\ OverIn(rows) = {} /\ ~PatchIn(rows) /\ EndsWith(rows, "failed")
    BY <2>1, RowsOfNobody
  <2>3. NodesFollow(rows, "failed")
    BY <1>1, <2>2 DEF NodesFollow, Start
  <2>4. Transaction(rows, "failed")
    BY <1>1, <2>1, <2>2, <2>3 DEF Transaction, Start, Terminal
  <2> QED  BY <2>2, <2>4 DEF Decides
<1>2. CASE Resume
  <2>1. PICK rows : rows = {Row("run_resumed", NoNode)}
    OBVIOUS
  <2>2. StartedIn(rows) = {} /\ OverIn(rows) = {} /\ ~PatchIn(rows) /\ EndsWith(rows, "failed")
    BY <2>1, RowsOfNobody
  <2>3. NodesFollow(rows, "failed")
    BY <1>2, <2>2 DEF NodesFollow, Resume, Interrupted, Open
  <2>4. Transaction(rows, "failed")
    BY <1>2, <2>1, <2>2, <2>3 DEF Transaction, Resume, Terminal
  <2> QED  BY <2>2, <2>4 DEF Decides
<1>3. ASSUME NEW tasks \in SUBSET Runnable, MarkRunning(tasks)
      PROVE  \E rows, end : Transaction(rows, end) /\ Decides(rows)
  <2>1. PICK rows : rows = {Row("task_started", n) : n \in tasks}
    OBVIOUS
  <2>2. StartedIn(rows) = tasks /\ OverIn(rows) = {} /\ ~PatchIn(rows)
        /\ EndsWith(rows, "failed")
    BY <2>1, RowsOfLaunch
  <2>3. \A n \in tasks : n \in Nodes /\ state[n] = "pending"
    BY DEF Runnable
  <2>4. \A n \in Nodes : state'[n] = IF n \in tasks /\ state[n] = "pending" THEN "running"
                                     ELSE state[n]
    BY <1>3 DEF MarkRunning
  <2>5. NodesFollow(rows, "failed")
    BY <2>2, <2>3, <2>4 DEF NodesFollow, Open
  <2>6. Transaction(rows, "failed")
    BY <1>3, <2>1, <2>2, <2>5 DEF Transaction, MarkRunning, Terminal
  <2> QED  BY <2>2, <2>6 DEF Decides
<1>4. ASSUME NEW n \in Nodes, NEW success \in BOOLEAN, RecordOutcome(n, success)
      PROVE  \E rows, end : Transaction(rows, end) /\ Decides(rows)
  <2>1. PICK rows : rows = {Row(IF success THEN "task_succeeded" ELSE "task_failed", n)}
    OBVIOUS
  <2>2. PICK end : end = IF success THEN "succeeded" ELSE "failed"
    OBVIOUS
  <2>3. StartedIn(rows) = {} /\ OverIn(rows) = {n} /\ ~PatchIn(rows) /\ EndsWith(rows, end)
    BY <2>1, <2>2, RowsOfOutcome
  <2>4. \A m \in Nodes : state'[m] = IF m = n THEN end ELSE state[m]
    BY <1>4, <2>2 DEF RecordOutcome, StoreTypeOK
  <2>5. state[n] = "running" /\ end \in Terminal
    BY <1>4, <2>2 DEF RecordOutcome, OutcomeAccepted, Terminal
  <2>6. NodesFollow(rows, end)
    BY <2>3, <2>4, <2>5 DEF NodesFollow, Open
  <2>7. Transaction(rows, end)
    BY <1>4, <2>1, <2>3, <2>5, <2>6 DEF Transaction, RecordOutcome
  <2> QED  BY <2>3, <2>7 DEF Decides
<1>5. ASSUME NEW p \in Patches, NEW t \in DOMAIN journal \ patched, CommitPatch(p, t)
      PROVE  \E rows, end : Transaction(rows, end) /\ Decides(rows)
  <2>1. PICK rows : rows = {Row("task_cancelled", n) : n \in p.cancel \cup Leftovers(p)}
                             \cup {PatchRow(t)}
    OBVIOUS
  <2>2. StartedIn(rows) = {} /\ PatchIn(rows) /\ EndsWith(rows, "cancelled")
    BY <2>1, RowsOfPatch
  <2>3. NodesFollow(rows, "cancelled")
    BY <1>5, <2>1, PatchFollows
  <2>4. Cardinality(patched') = Cardinality(patched) + 1
    BY <1>5, OneMorePatch DEF CommitPatch
  <2>5. Commit(rows)
    BY <1>5, <2>1 DEF CommitPatch
  <2>6. Transaction(rows, "cancelled")
    BY <2>2, <2>3, <2>4, <2>5 DEF Transaction, Terminal
  <2>7. patched' = patched \cup {t} /\ \A r \in Decisions(rows) : r.trigger = t
    <3>1. patched' = patched \cup {t}
      BY <1>5 DEF CommitPatch
    <3>2. \A r \in Decisions(rows) : r.trigger = t
      BY <2>1, TriggerOfPatch
    <3> QED  BY <3>1, <3>2
  <2>8. Decides(rows)
    BY <2>7 DEF Decides
  <2> QED  BY <2>6, <2>8
<1> QED  BY <1>1, <1>2, <1>3, <1>4, <1>5 DEF StoreStep

-----------------------------------------------------------------------------
(* The payload, the folds and the tree, together an inductive invariant.   *)
TreeInvariant == AddedOK /\ OneTree /\ TreeOK(SpanTree)

(* A step that writes nothing. *)
LEMMA TreeUnchanged ==
  ASSUME TreeInvariant, UNCHANGED <<store, added>>
  PROVE  TreeInvariant'
<1>0. journal' = journal /\ added' = added
  BY DEF store
<1>1. AddedOK' /\ OneTree'
  <2>1. \A g : AreTrees(g)' <=> AreTrees(g)
    BY <1>0 DEF AreTrees
  <2>2. OneTree'
    BY <2>1 DEF TreeInvariant, OneTree
  <2> QED  BY <1>0, <2>2 DEF TreeInvariant, AddedOK
<1>2. SpanTree' = SpanTree
  BY DEF SpanTree, store
<1>3. ASSUME NEW tree, tree = SpanTree PROVE TreeOK(tree)'
  BY <1>3 DEF TreeInvariant, TreeOK, store
<1> QED  BY <1>1, <1>2, <1>3 DEF TreeInvariant

(* Every step keeps the tree. *)
LEMMA TreeInvariantStep ==
  ASSUME CancelsForGood, FinishAddsNothing, StoreTypeOK, TreeInvariant,
         [StoreStep]_store, [ViewedNext]_<<vars, added>>
  PROVE  TreeInvariant'
<1>1. CASE UNCHANGED store
  BY <1>1, PayloadOfNothing, TreeUnchanged
<1>2. ASSUME NEW rows, NEW end, Transaction(rows, end)
      PROVE  TreeInvariant'
  <2>1. Commit(rows) /\ Writes(rows, NewNodes)
    BY <1>2, PayloadOfCommit DEF Transaction
  <2>2. NewNodes \in SUBSET Nodes
    BY DEF NewNodes
  <2>3. AddedOK' /\ OneTree'
        /\ SpanTree' = Extended(SpanTree, Len(journal'), rows, NewNodes)
    BY <2>1, <2>2, WritesAppends, TreesGrow DEF TreeInvariant
  <2>4. ASSUME NEW tree, tree = SpanTree, NEW next,
               next = Extended(tree, Len(journal'), rows, NewNodes)
        PROVE  TreeOK(next)'
    BY <1>2, <2>1, <2>4, TreeStep DEF TreeInvariant, Transaction
  <2>5. ASSUME NEW next, next = SpanTree' PROVE TreeOK(next)'
    BY <2>3, <2>4, <2>5
  <2> QED  BY <2>3, <2>5 DEF TreeInvariant
<1> QED  BY <1>1, <1>2, StepIsTransaction

(* The empty journal has the tree of nothing. *)
LEMMA TreeInvariantInit ==
  ASSUME ViewedInit
  PROVE  TreeInvariant
<1>1. journal = <<>> /\ added = <<>> /\ patched = {} /\ state = [n \in Nodes |-> "absent"]
  BY DEF ViewedInit, Init, StoreInit
<1>2. AddedOK /\ Len(journal) = 0
  BY <1>1 DEF AddedOK
<1>3. PICK f : f = [i \in 0..0 |-> NoTree]
  OBVIOUS
<1>4. \A g : AreTrees(g) <=> g = f
  <2>1. \A g : AreTrees(g) <=> g = [i \in 0..0 |-> IF i = 0 THEN NoTree
                                     ELSE Extended(g[i - 1], i, journal[i], added[i])]
    BY <1>2 DEF AreTrees
  <2>2. \A g : [i \in 0..0 |-> IF i = 0 THEN NoTree
                               ELSE Extended(g[i - 1], i, journal[i], added[i])] = f
    BY <1>3
  <2> QED  BY <2>1, <2>2
<1>5. OneTree
  BY <1>4 DEF OneTree
<1>6. SpanTree = NoTree
  BY <1>2, <1>3, <1>4, SpanTreeIs
<1>7. TreeOK(NoTree)
  <2>1. TreeTypeOK(NoTree, 0)
    BY DEF TreeTypeOK, NoTree
  <2>2. Len(NoTree.rounds) = Cardinality(patched)
    BY <1>1, FS_EmptySet DEF NoTree
  <2>3. ASSUME NEW n \in Nodes PROVE Told(NoTree, n, "absent", 0, added)
    <3>1. SpansOf(NoTree, n) = {} /\ NoTree.home[n] = 0 /\ NoTree.open[n] = 0
      BY DEF SpansOf, NoTree
    <3> QED  BY <3>1 DEF Told, Born, Placed, Open, Terminal
  <2> QED  BY <1>1, <1>2, <2>1, <2>2, <2>3 DEF TreeOK
<1> QED  BY <1>2, <1>5, <1>6, <1>7 DEF TreeInvariant

(* What the invariant is for. *)
LEMMA TreeTells ==
  ASSUME StoreTypeOK, TreeInvariant
  PROVE  TraceTellsTheRun
<1> SUFFICES ASSUME NEW tree, tree = SpanTree
             PROVE  /\ Len(tree.rounds) = Cardinality(patched)
                    /\ \A n \in Nodes :
                         LET mine   == {s \in tree.spans : s.node = n}
                             closed == {s \in mine : s.to # 0}
                             last   == {s \in mine : \A t \in mine : t.from <= s.from}
                         IN  /\ state[n] \in Terminal <=> closed # {}
                             /\ \A s \in closed : last = {s} /\ s.state = state[n]
                             /\ state[n] = "running" => last # {} /\ closed = {}
                             /\ \A s \in mine :
                                  /\ n \in added[tree.rounds[s.round]]
                                  /\ tree.rounds[s.round] < s.from
  BY DEF TraceTellsTheRun
<1>1. TreeOK(tree)
  BY DEF TreeInvariant
<1> SUFFICES ASSUME NEW n \in Nodes
             PROVE  LET mine   == SpansOf(tree, n)
                        closed == {s \in mine : s.to # 0}
                        last   == {s \in mine : \A t \in mine : t.from <= s.from}
                    IN  /\ state[n] \in Terminal <=> closed # {}
                        /\ \A s \in closed : last = {s} /\ s.state = state[n]
                        /\ state[n] = "running" => last # {} /\ closed = {}
                        /\ \A s \in mine :
                             /\ n \in added[tree.rounds[s.round]]
                             /\ tree.rounds[s.round] < s.from
  BY <1>1 DEF TreeOK, SpansOf
<1> DEFINE mine   == SpansOf(tree, n)
           closed == {s \in mine : s.to # 0}
           last   == {s \in mine : \A t \in mine : t.from <= s.from}
<1>2. Told(tree, n, state[n], Len(journal), added)
  BY <1>1 DEF TreeOK
<1>3. ASSUME NEW s \in mine PROVE s.from \in Nat
  BY <1>1 DEF TreeOK, TreeTypeOK, Spans, SpanRecords, SpansOf
<1>4. \A s, t \in mine : s.from = t.from => s = t
  BY <1>2 DEF Told, Placed
<1>5. \A s \in mine : n \in added[tree.rounds[s.round]] /\ tree.rounds[s.round] < s.from
  BY <1>2 DEF Told, Placed, Born
<1>6. ASSUME NEW s \in mine, \A t \in mine : t.from <= s.from
      PROVE  last = {s}
  <2>1. ASSUME NEW u \in last PROVE u = s
    <3>1. u \in mine /\ u.from <= s.from /\ s.from <= u.from
      BY <1>6
    <3>2. u.from = s.from
      BY <1>3, <3>1
    <3> QED  BY <1>4, <3>1, <3>2
  <2> QED  BY <1>6, <2>1
<1>7. CASE state[n] = "absent"
  BY <1>2, <1>7 DEF Told, Born, Terminal
<1>8. CASE state[n] \in Open
  <2>1. /\ tree.open[n] = 0 <=> mine = {}
        /\ tree.open[n] # 0 => \E s \in mine : s.from = tree.open[n]
        /\ \A s \in mine : s.to = 0 /\ s.from <= tree.open[n]
        /\ state[n] = "running" => mine # {}
    BY <1>2, <1>8 DEF Told, Opened
  <2>2. closed = {}
    BY <2>1
  <2>3. state[n] = "running" => last # {}
    BY <2>1
  <2> QED  BY <1>5, <1>8, <2>2, <2>3 DEF Open, Terminal
<1>9. CASE state[n] \in Terminal
  <2>1. PICK s \in mine : /\ s.to # 0 /\ s.state = state[n]
                          /\ \A t \in mine : t.from <= s.from /\ (t # s => t.to = 0)
    BY <1>2, <1>9 DEF Told, Over
  <2>2. closed = {s}
    BY <2>1
  <2>3. last = {s}
    BY <1>6, <2>1
  <2>4. \A u \in closed : last = {u} /\ u.state = state[n]
    BY <2>1, <2>2, <2>3
  <2>5. closed # {} /\ state[n] # "running"
    BY <1>9, <2>2 DEF Terminal
  <2> QED  BY <1>5, <1>9, <2>4, <2>5
<1>10. state[n] \in {"absent"} \cup Open \cup Terminal
  BY DEF StoreTypeOK, NodeState
<1> QED  BY <1>7, <1>8, <1>9, <1>10

(***************************************************************************)
(* Whatever the planner decides, however the calls of run() interleave,    *)
(* and through every crash: the trace has a round for each decision, and   *)
(* each node has, after the interrupted ones, the span that tells how it   *)
(* ended, and is in the round that added it.                               *)
(***************************************************************************)
THEOREM TraceTellsTheRunAlways ==
  ASSUME CancelsForGood, FinishAddsNothing
  PROVE  ViewedSpec => []TraceTellsTheRun
<1>1. ViewedInit => TreeInvariant
  BY TreeInvariantInit
<1>2. ASSUME TypeOK, TreeInvariant, [StoreStep]_store, [ViewedNext]_<<vars, added>>
      PROVE  TreeInvariant'
  BY <1>2, TypeOKSplits, TreeInvariantStep
<1>3. TypeOK /\ TreeInvariant => TraceTellsTheRun
  BY TypeOKSplits, TreeTells
<1>4. ViewedSpec => []TypeOK
  BY ViewedIsSpec, TypeCorrect, PTL
<1>5. ViewedSpec => [][StoreStep]_store
  BY ViewedIsSpec, StoreSteps, PTL
<1>6. TypeOK /\ [StoreStep]_store /\ TreeInvariant /\ [ViewedNext]_<<vars, added>>
        => TreeInvariant'
  BY <1>2
<1> QED  BY <1>1, <1>3, <1>4, <1>5, <1>6, PTL DEF ViewedSpec

-----------------------------------------------------------------------------
(***************************************************************************)
(* The data model of a client.                                             *)
(***************************************************************************)
Succeeded == {n \in Nodes : state[n] = "succeeded"}
Ascending(q) == \A k \in 1..(Len(q) - 1) : q[k] < q[k + 1]

(* It has a result for each node that succeeded and an entry for each      *)
(* event that was decided.                                                 *)
ModelOK(model) ==
  /\ model.results = Succeeded
  /\ model.patches \in Seq(Nat) /\ ToSet(model.patches) = patched

(* The nodes that succeed in a transaction are those with a result in it.  *)
LEMMA ResultsFollow ==
  ASSUME NEW rows, NEW end \in Terminal, EndsWith(rows, end), NodesFollow(rows, end),
         StartedIn(rows) \cap OverIn(rows) = {}
  PROVE  Succeeded' = Succeeded \cup ResultsIn(rows)
<1>1. \A kind \in TerminalKinds : EndState(kind) = "succeeded" <=> kind = "task_succeeded"
  BY DEF EndState, TerminalKinds
<1>2. ResultsIn(rows) = IF end = "succeeded" THEN OverIn(rows) ELSE {}
  <2>1. \A r \in OfKind(rows, TerminalKinds) :
          r.kind \in TerminalKinds /\ EndState(r.kind) = end
    BY DEF EndsWith, OfKind
  <2>2. \A r \in OfKind(rows, TerminalKinds) :
          end = "succeeded" <=> r.kind = "task_succeeded"
    BY <1>1, <2>1
  <2>3. OfKind(rows, {"task_succeeded"}) = {r \in OfKind(rows, TerminalKinds) :
                                              r.kind = "task_succeeded"}
    BY DEF OfKind, TerminalKinds
  <2>4. OfKind(rows, {"task_succeeded"}) = IF end = "succeeded"
                                           THEN OfKind(rows, TerminalKinds) ELSE {}
    BY <2>2, <2>3
  <2> QED  BY <2>4 DEF ResultsIn, OverIn
<1>3. ASSUME NEW n \in Nodes
      PROVE  state'[n] = "succeeded" <=> state[n] = "succeeded" \/ n \in ResultsIn(rows)
  <2>1. CASE n \in StartedIn(rows)
    BY <1>2, <2>1 DEF NodesFollow, Open
  <2>2. CASE n \in OverIn(rows)
    BY <1>2, <2>2 DEF NodesFollow, Open
  <2>3. CASE n \notin StartedIn(rows) \cup OverIn(rows)
    BY <1>2, <2>3 DEF NodesFollow, Open
  <2> QED  BY <2>1, <2>2, <2>3
<1>4. ResultsIn(rows) \subseteq Nodes
  BY <1>2 DEF NodesFollow
<1> QED  BY <1>3, <1>4 DEF Succeeded

(* A transaction whose decision is named keeps the model; events that are  *)
(* decided in order are listed in order.                                   *)
LEMMA ModelStep ==
  ASSUME StoreTypeOK, NEW rows, NEW end, Transaction(rows, end), Decides(rows),
         NEW model, ModelOK(model), NEW next, next = Folded(model, rows)
  PROVE  /\ ModelOK(next)'
         /\ Ascending(model.patches)
              /\ (\A t \in patched' \ patched : \A u \in patched : u < t)
            => Ascending(next.patches)
<1>1. /\ next.results = model.results \cup ResultsIn(rows)
      /\ next.patches = IF Decisions(rows) = {} THEN model.patches
                        ELSE Append(model.patches,
                                    (CHOOSE r \in Decisions(rows) : TRUE).trigger)
  BY DEF Folded, Decisions
<1>2. next.results = Succeeded'
  BY <1>1, ResultsFollow DEF Transaction, ModelOK
<1>3. CASE ~PatchIn(rows)
  <2>1. next.patches = model.patches /\ patched' = patched
    BY <1>1, <1>3 DEF PatchIn, Decisions, Transaction
  <2> QED  BY <1>2, <2>1 DEF ModelOK
<1>4. CASE PatchIn(rows)
  <2>1. PICK t \in DOMAIN journal \ patched :
          patched' = patched \cup {t} /\ \A r \in Decisions(rows) : r.trigger = t
    BY <1>4 DEF Decides
  <2>2. PICK q : q = model.patches
    OBVIOUS
  <2>3. next.patches = Append(q, t)
    BY <1>1, <1>4, <2>1, <2>2 DEF PatchIn, Decisions
  <2>4. t \in Nat /\ q \in Seq(Nat) /\ ToSet(q) = patched
    BY <2>2 DEF StoreTypeOK, ModelOK
  <2>5. /\ Append(q, t) \in Seq(Nat) /\ Len(Append(q, t)) = Len(q) + 1 /\ Len(q) \in Nat
        /\ \A k \in 1..Len(q) : Append(q, t)[k] = q[k]
        /\ Append(q, t)[Len(q) + 1] = t
    BY <2>4
  <2>6. ToSet(Append(q, t)) = ToSet(q) \cup {t}
    BY <2>4, <2>5 DEF ToSet
  <2>7. ModelOK(next)'
    BY <1>2, <2>1, <2>3, <2>4, <2>5, <2>6 DEF ModelOK
  <2>8. ASSUME Ascending(q), \A u \in patched : u < t
        PROVE  Ascending(Append(q, t))
    <3>1. \A k \in 1..Len(q) : q[k] < t
      BY <2>4, <2>8 DEF ToSet
    <3>2. ASSUME NEW k \in 1..(Len(Append(q, t)) - 1)
          PROVE  Append(q, t)[k] < Append(q, t)[k + 1]
      <4>1. k \in 1..Len(q) /\ (k = Len(q) \/ (k \in 1..(Len(q) - 1) /\ k + 1 \in 1..Len(q)))
        BY <2>5
      <4>2. CASE k = Len(q)
        BY <2>5, <3>1, <4>1, <4>2
      <4>3. CASE k \in 1..(Len(q) - 1) /\ k + 1 \in 1..Len(q)
        BY <2>5, <2>8, <4>1, <4>3 DEF Ascending
      <4> QED  BY <4>1, <4>2, <4>3
    <3> QED  BY <3>2 DEF Ascending
  <2>9. t \in patched' \ patched
    BY <2>1
  <2> QED  BY <2>2, <2>3, <2>7, <2>8, <2>9
<1> QED  BY <1>3, <1>4

-----------------------------------------------------------------------------
(***************************************************************************)
(* Events are decided in their order while calls of run() follow one       *)
(* another: a replay takes the least first, and an event that is recorded  *)
(* later is greater.                                                       *)
(***************************************************************************)
InOrder == \A u \in patched, v \in PendingPlannerEvents : u < v

DecidesNext == \A t \in patched' \ patched : \A u \in patched : u < t

(* A step that decides nothing records an event after all the others.      *)
LEMMA OrderWhenNothingDecided ==
  ASSUME StoreTypeOK, InOrder, [StoreStep]_store, patched' = patched
  PROVE  InOrder' /\ DecidesNext
<1>1. CASE UNCHANGED store
  BY <1>1 DEF InOrder, DecidesNext, PendingPlannerEvents, PlannerEvents, store
<1>2. ASSUME NEW rows, Commit(rows)
      PROVE  InOrder' /\ DecidesNext
  <2>1. PlannerEvents' \subseteq PlannerEvents \cup {Len(journal')}
    BY <1>2, EventsAppend
  <2>2. Len(journal) \in Nat /\ Len(journal') = Len(journal) + 1
    BY <1>2, CommitAppends
  <2>3. \A u \in patched : u \in 1..Len(journal)
    BY DEF StoreTypeOK
  <2>4. \A u \in patched : u < Len(journal')
    BY <2>2, <2>3
  <2>5. PendingPlannerEvents' \subseteq PendingPlannerEvents \cup {Len(journal')}
    BY <2>1 DEF PendingPlannerEvents
  <2> QED  BY <2>4, <2>5 DEF InOrder, DecidesNext
<1> QED
  BY <1>1, <1>2 DEF StoreStep, Start, Resume, MarkRunning, RecordOutcome, CommitPatch

(* The planner answers for the least of the events that are pending.       *)
LEMMA OrderWhenDecided ==
  ASSUME TypeOK, ControlOK, PlanningOK, InOrder, NEW i \in Invocations, PlanReturns(i)
  PROVE  InOrder' /\ DecidesNext
<1> DEFINE t == First(queue[i])
<1>1. pc[i] = "plan" /\ pc[i] \in Active
  BY DEF PlanReturns, PlanAnswers, Active, Awaiting
<1>2. /\ queue[i] # {} /\ queue[i] \subseteq DOMAIN journal
      /\ DOMAIN journal = 1..Len(journal) /\ Len(journal) \in Nat
  BY <1>1 DEF ControlOK, TypeOK, StoreTypeOK
<1>3. queue[i] \in SUBSET Nat
  BY <1>2, SMT
<1>4. t \in queue[i] /\ \A v \in queue[i] : t <= v
  BY <1>2, <1>3, FirstIsLeast DEF First
<1>5. queue[i] = PendingPlannerEvents
  BY <1>1, <1>4 DEF PlanningOK, KnowsPending
<1>6. PICK p \in Patches : CommitPatch(p, t)
  BY <1>4, <1>5 DEF PlanReturns, PlanAnswers, Unpatched, PendingPlannerEvents
<1>7. PlannerEvents' = PlannerEvents /\ patched' = patched \cup {t}
  <2> DEFINE rows == {Row("task_cancelled", n) : n \in p.cancel \cup Leftovers(p)}
                       \cup {PatchRow(t)}
  <2>1. Commit(rows) /\ patched' = patched \cup {t}
    BY <1>6 DEF CommitPatch
  <2>2. ~\E r \in rows : r.kind \in PlannerKinds
    BY DEF Row, PatchRow, PlannerKinds
  <2> HIDE DEF rows
  <2> QED  BY <2>1, <2>2, EventsAppend, TypeOKSplits
<1> HIDE DEF t
<1>8. PendingPlannerEvents' = PendingPlannerEvents \ {t}
  BY <1>7 DEF PendingPlannerEvents
<1>9. \A v \in PendingPlannerEvents \ {t} : t < v
  BY <1>3, <1>4, <1>5
<1>10. \A u \in patched : u < t
  BY <1>4, <1>5 DEF InOrder
<1>11. InOrder'
  BY <1>7, <1>8, <1>9 DEF InOrder
<1>12. DecidesNext
  BY <1>7, <1>10 DEF DecidesNext
<1> QED  BY <1>11, <1>12

LEMMA OrderStep ==
  ASSUME TypeOK, ControlOK, PlanningOK, InOrder, [StoreStep]_store, [Next]_vars
  PROVE  InOrder' /\ DecidesNext
<1>1. ASSUME NEW i \in Invocations,
             \/ Begin(i) \/ Launch(i) \/ LaunchNothing(i) \/ WaitReturns(i) \/ PlanRaises(i)
             \/ \E t \in Futures :
                  DropResult(i, t) \/ TakeOutcome(i, t) \/ OutcomeRefused(i, t) \/ Worker(i, t)
      PROVE  patched' = patched
  BY <1>1 DEF Begin, Start, Resume, Launch, MarkRunning, LaunchNothing, WaitReturns,
              DropResult, TakeOutcome, RecordOutcome, OutcomeRefused, PlanRaises,
              Worker, WorkerEnds, WorkerCancelled, store
<1>2. CASE Crash \/ UNCHANGED vars
  <2>1. patched' = patched
    BY <1>2 DEF Crash, vars, store
  <2> QED  BY <2>1, OrderWhenNothingDecided, TypeOKSplits
<1>3. ASSUME patched' = patched PROVE InOrder' /\ DecidesNext
  BY <1>3, OrderWhenNothingDecided, TypeOKSplits
<1>4. ASSUME NEW i \in Invocations, PlanReturns(i) PROVE InOrder' /\ DecidesNext
  BY <1>4, OrderWhenDecided
<1> QED  BY <1>1, <1>2, <1>3, <1>4 DEF Next, Step, Handle

-----------------------------------------------------------------------------
(* The one model there is has what there is, in the order it was decided.  *)
ModelInvariant ==
  OneModel /\ ModelOK(DataModel) /\ Ascending(DataModel.patches)

(* A step that writes nothing. *)
LEMMA ModelUnchanged ==
  ASSUME ModelInvariant, UNCHANGED store
  PROVE  ModelInvariant'
<1>0. journal' = journal /\ state' = state /\ patched' = patched
  BY DEF store
<1>1. OneModel'
  <2>1. \A g : AreModels(g)' <=> AreModels(g)
    BY <1>0 DEF AreModels
  <2> QED  BY <2>1 DEF ModelInvariant, OneModel
<1>2. DataModel' = DataModel
  BY <1>0 DEF DataModel
<1>3. ASSUME NEW model, model = DataModel PROVE ModelOK(model)'
  BY <1>0, <1>3 DEF ModelInvariant, ModelOK, Succeeded
<1>4. ASSUME NEW next, next = DataModel'
      PROVE  ModelOK(next)' /\ Ascending(next.patches)
  BY <1>2, <1>3, <1>4 DEF ModelInvariant
<1> QED  BY <1>1, <1>4 DEF ModelInvariant

LEMMA ModelInvariantStep ==
  ASSUME CancelsForGood, FinishAddsNothing, StoreTypeOK, AddedOK, ModelInvariant,
         [StoreStep]_store, [ViewedNext]_<<vars, added>>, DecidesNext
  PROVE  ModelInvariant'
<1>1. CASE UNCHANGED store
  BY <1>1, ModelUnchanged
<1>2. ASSUME NEW rows, NEW end, Transaction(rows, end), Decides(rows)
      PROVE  ModelInvariant'
  <2>1. Commit(rows) /\ Writes(rows, NewNodes)
    BY <1>2, PayloadOfCommit DEF Transaction
  <2>2. NewNodes \in SUBSET Nodes
    BY DEF NewNodes
  <2>3. OneModel' /\ DataModel' = Folded(DataModel, rows)
    BY <2>1, <2>2, ModelsGrow DEF ModelInvariant
  <2>4. ASSUME NEW model, model = DataModel, NEW next, next = Folded(model, rows)
        PROVE  ModelOK(next)' /\ Ascending(next.patches)
    BY <1>2, <2>4, ModelStep DEF ModelInvariant, DecidesNext
  <2>5. ASSUME NEW next, next = DataModel'
        PROVE  ModelOK(next)' /\ Ascending(next.patches)
    BY <2>3, <2>4, <2>5
  <2> QED  BY <2>3, <2>5 DEF ModelInvariant
<1> QED  BY <1>1, <1>2, StepIsTransaction

(* The empty journal has the model of nothing. *)
LEMMA ModelInvariantInit ==
  ASSUME ViewedInit
  PROVE  ModelInvariant
<1>1. journal = <<>> /\ patched = {} /\ state = [n \in Nodes |-> "absent"]
  BY DEF ViewedInit, Init, StoreInit
<1>2. Len(journal) = 0
  BY <1>1
<1>3. PICK f : f = [i \in 0..0 |-> EmptyState]
  OBVIOUS
<1>4. \A g : AreModels(g) <=> g = f
  <2>1. \A g : AreModels(g) <=> g = [i \in 0..0 |-> IF i = 0 THEN EmptyState
                                      ELSE Folded(g[i - 1], journal[i])]
    BY <1>2 DEF AreModels
  <2>2. \A g : [i \in 0..0 |-> IF i = 0 THEN EmptyState
                               ELSE Folded(g[i - 1], journal[i])] = f
    BY <1>3
  <2> QED  BY <2>1, <2>2
<1>5. OneModel
  BY <1>4 DEF OneModel
<1>6. DataModel = EmptyState
  BY <1>2, <1>3, <1>4, DataModelIs
<1>7. ModelOK(EmptyState) /\ Ascending(EmptyState.patches)
  <2>1. EmptyState.results = {} /\ EmptyState.patches = <<>>
    BY DEF EmptyState
  <2>2. <<>> \in Seq(Nat) /\ ToSet(<<>>) = {} /\ Len(<<>>) = 0
    BY DEF ToSet
  <2>3. Succeeded = {}
    BY <1>1 DEF Succeeded
  <2> QED  BY <1>1, <2>1, <2>2, <2>3 DEF ModelOK, Ascending
<1> QED  BY <1>5, <1>6, <1>7 DEF ModelInvariant

(* What the two invariants are for. *)
LEMMA ViewsAgree ==
  ASSUME StoreTypeOK, TreeInvariant, ModelInvariant
  PROVE  ReplayShowsTheGraph
<1> SUFFICES ASSUME NEW model, model = DataModel,
                    NEW surface, surface = RunSurface
             PROVE  /\ model.results = {n \in DOMAIN surface.tone : surface.tone[n] = "good"}
                    /\ surface.answer = model.results \cap AnswerNodes
                    /\ surface.notice = {s.node : s \in {s \in SpanTree.spans : s.state = "failed"}}
                    /\ ToSet(model.patches) = patched
                    /\ \A k \in 1..(Len(model.patches) - 1) :
                         model.patches[k] < model.patches[k + 1]
  BY DEF ReplayShowsTheGraph
<1>1. ModelOK(model) /\ Ascending(model.patches)
  BY DEF ModelInvariant
<1>2. /\ surface.tone = [n \in Existing |-> Tone(state[n])]
      /\ surface.answer = AnswersFound
      /\ surface.notice = {n \in Existing : state[n] = "failed"}
  BY DEF RunSurface
<1>3. model.results = {n \in DOMAIN surface.tone : surface.tone[n] = "good"}
  <2>1. \A n \in Nodes : state[n] \in {"absent"} \cup NodeState
    BY DEF StoreTypeOK
  <2>2. \A n \in Existing : Tone(state[n]) = "good" <=> state[n] = "succeeded"
    BY <2>1 DEF Tone, Existing, NodeState, Open, Terminal
  <2>3. {n \in Existing : state[n] = "succeeded"} = Succeeded
    BY DEF Existing, Succeeded
  <2> QED  BY <1>1, <1>2, <2>2, <2>3 DEF ModelOK
<1>4. surface.answer = model.results \cap AnswerNodes
  BY <1>1, <1>2, AnswerAssumption DEF ModelOK, Succeeded, AnswersFound
<1>5. surface.notice = {s.node : s \in {s \in SpanTree.spans : s.state = "failed"}}
  <2>1. PICK tree : tree = SpanTree
    OBVIOUS
  <2>2. TreeOK(tree) /\ TraceTellsTheRun
    BY <2>1, TreeTells DEF TreeInvariant
  <2>3. ASSUME NEW s \in tree.spans, s.state = "failed"
        PROVE  s.node \in Existing /\ state[s.node] = "failed"
    <3>1. s \in Spans
      BY <2>2 DEF TreeOK, TreeTypeOK
    <3>2. s.to # 0
      BY <2>3, <3>1 DEF Spans
    <3>3. s.node \in Nodes
      BY <3>1 DEF Spans, SpanRecords
    <3>4. state[s.node] = "failed"
      BY <2>1, <2>2, <2>3, <3>2, <3>3 DEF TraceTellsTheRun
    <3> QED  BY <3>3, <3>4 DEF Existing
  <2>4. ASSUME NEW n \in Existing, state[n] = "failed"
        PROVE  \E s \in tree.spans : s.state = "failed" /\ s.node = n
    <3>1. n \in Nodes
      BY DEF Existing
    <3>2. PICK s \in tree.spans : s.node = n /\ s.to # 0 /\ s.state = state[n]
      BY <2>1, <2>2, <2>4, <3>1 DEF TraceTellsTheRun, Terminal
    <3> QED  BY <2>4, <3>2
  <2> QED  BY <1>2, <2>1, <2>3, <2>4
<1> QED  BY <1>1, <1>3, <1>4, <1>5 DEF ModelOK, Ascending

(***************************************************************************)
(* While calls of run() follow one another, through every crash and every  *)
(* replay: what a client has folded out of the stream, what the surface    *)
(* shows of the graph and what the trace tells of it are the same, and the *)
(* client has the decisions in the order of their events.                  *)
(***************************************************************************)
THEOREM ReplayShowsTheGraphInSeries ==
  ASSUME ~Overlapping, CancelsForGood, FinishAddsNothing
  PROVE  ViewedSpec => []ReplayShowsTheGraph
<1>1. ViewedInit => Init /\ TreeInvariant /\ ModelInvariant
  BY TreeInvariantInit, ModelInvariantInit DEF ViewedInit
<1>2. Init => PlanningOK /\ InOrder
  BY DEF Init, StoreInit, PlanningOK, Active, Awaiting, InOrder
<1>3. [ViewedNext]_<<vars, added>> => [Next]_vars
  BY DEF ViewedNext
<1>4. TypeOK /\ ControlOK /\ SeriesOK /\ PlanningOK /\ [Next]_vars => PlanningOK'
  BY PlanningStep
<1>5. TypeOK /\ ControlOK /\ PlanningOK /\ InOrder /\ [StoreStep]_store /\ [Next]_vars
        => InOrder' /\ DecidesNext
  BY OrderStep
<1>6. TypeOK /\ TreeInvariant /\ [StoreStep]_store /\ [ViewedNext]_<<vars, added>>
        => TreeInvariant'
  BY TypeOKSplits, TreeInvariantStep
<1>7. TypeOK /\ TreeInvariant /\ ModelInvariant /\ [StoreStep]_store
        /\ [ViewedNext]_<<vars, added>> /\ DecidesNext
        => ModelInvariant'
  BY TypeOKSplits, ModelInvariantStep DEF TreeInvariant
<1>8. TypeOK /\ TreeInvariant /\ ModelInvariant => ReplayShowsTheGraph
  BY TypeOKSplits, ViewsAgree
<1>9. ViewedSpec => [](TypeOK /\ ControlOK) /\ []SeriesOK /\ [][StoreStep]_store
  BY ViewedIsSpec, TypeCorrect, SeriesInvariant, StoreSteps, PTL
<1> QED
  BY <1>1, <1>2, <1>3, <1>4, <1>5, <1>6, <1>7, <1>8, <1>9, PTL DEF ViewedSpec

=============================================================================

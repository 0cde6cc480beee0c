---------------------------- MODULE RubricJudge ----------------------------
(***************************************************************************)
(* RubricJudge of evals/judge.py over RubricConfig of evals/config.py: a   *)
(* panel of judges is asked one after the other to score an answer, each   *)
(* over a transport that may fail and be tried again, and may reply with   *)
(* something that is no verdict.  Scores are integers on the configured    *)
(* scale and bars are percentages, so means and weighted sums are compared *)
(* after multiplying out.  Prompts, notes, tokens and money are left out.  *)
(***************************************************************************)
EXTENDS Integers, Sequences, FiniteSets, FiniteSetsExt

CONSTANTS
  Criteria,            \* names of the criteria
  Weight,              \* their weights
  NeedsExpectation,    \* those with requires_expectation
  ScaleMax,            \* scale_max
  Threshold,           \* threshold, in percent
  MinCriterion,        \* min_criterion, in percent
  TieBreak,            \* "score" or "unresolved"
  Panel,               \* the models of the panel, in order
  Retries,             \* retries
  Replies              \* score vectors a judge may reply with

(* What RubricConfig refuses to be without. *)
ValidRubric ==
  /\ Weight \in [Criteria -> Nat] /\ NeedsExpectation \subseteq Criteria
  /\ NeedsExpectation # Criteria /\ ScaleMax \in Nat \ {0}
  /\ Threshold \in 0..100 /\ MinCriterion \in 0..100
  /\ TieBreak \in {"score", "unresolved"} /\ Len(Panel) > 0 /\ Retries \in Nat

ASSUME RubricAssumption == ValidRubric /\ Replies \subseteq [Criteria -> Int]

VARIABLES
  samples,  \* the samples of the verdict under way
  failed,   \* transport failures of the sample under way
  meter     \* calls and failures of the judge

judgeVars == <<samples, failed, meter>>

(* applicable *)
Applicable(expectation) == IF expectation THEN Criteria ELSE Criteria \ NeedsExpectation

(* weights, before they are divided by their sum. *)
Share(c, criteria) == IF \A d \in criteria : Weight[d] = 0 THEN 1 ELSE Weight[c]

Clamp(score) == IF score < 0 THEN 0 ELSE IF score > ScaleMax THEN ScaleMax ELSE score

(* Sums over samples, of one criterion and weighted over all. *)
Total(c, rows) == MapThenSumSet(LAMBDA i : Clamp(rows[i].scores[c]), DOMAIN rows)
Weighted(criteria, rows) ==
  MapThenSumSet(LAMBDA c : Share(c, criteria) * Total(c, rows), criteria)

(* resolved, of the mean of some samples: no criterion below the floor,    *)
(* and the weighted mean at the threshold.                                 *)
Clears(criteria, rows) ==
  /\ \A c \in criteria :
       100 * Total(c, rows) >= MinCriterion * ScaleMax * Cardinality(DOMAIN rows)
  /\ 100 * Weighted(criteria, rows) >=
       Threshold * ScaleMax * Cardinality(DOMAIN rows)
         * MapThenSumSet(LAMBDA c : Share(c, criteria), criteria)

NoScores == [c \in Criteria |-> 0]

(* The samples with ok, by place. *)
Usable == [i \in {j \in DOMAIN samples : samples[j].ok} |-> samples[i]]

\* Mutant of Decided: a panel without a usable sample has not resolved it.
DecidedAnyway(criteria) ==
  LET for == {i \in DOMAIN Usable : Clears(criteria, [j \in {i} |-> Usable[j]])}
      against == DOMAIN Usable \ for
  IN  IF Cardinality(for) > Cardinality(against) THEN "resolved" ELSE "unresolved"

(* The panel's verdict: none without a usable sample, else the majority,   *)
(* and the tie-break when it is split.                                     *)
Decided(criteria) ==
  LET for == {i \in DOMAIN Usable : Clears(criteria, [j \in {i} |-> Usable[j]])}
      against == DOMAIN Usable \ for
  IN  CASE DOMAIN Usable = {} -> "judge_failed"
        [] Cardinality(for) > Cardinality(against) -> "resolved"
        [] Cardinality(against) > Cardinality(for) -> "unresolved"
        [] OTHER -> IF TieBreak = "score" /\ Clears(criteria, Usable)
                    THEN "resolved" ELSE "unresolved"

(* judge_calls *)
Called == Cardinality({i \in DOMAIN samples : samples[i].called})

JudgeInit ==
  /\ samples = <<>> /\ failed = 0
  /\ meter = [calls |-> 0, failures |-> 0]

PanelDone == Len(samples) = Len(Panel)

Sampled(called, ok, scores) ==
  samples' = Append(samples, [called |-> called, ok |-> ok, scores |-> scores])

(* transport.chat raised: tried again, or the sample is written off. *)
ChatFails ==
  /\ ~PanelDone
  /\ IF failed < Retries
     THEN failed' = failed + 1 /\ UNCHANGED <<samples, meter>>
     ELSE /\ failed' = 0 /\ Sampled(FALSE, FALSE, NoScores)
          /\ meter' = [meter EXCEPT !.failures = @ + 1]

\* Mutant of Unparseable: the call is charged only when it could be read.
UnparseableForFree ==
  /\ ~PanelDone
  /\ failed' = 0 /\ Sampled(TRUE, FALSE, NoScores)
  /\ meter' = [meter EXCEPT !.failures = @ + 1]

(* parse_scores raised JudgeUnparseable. *)
Unparseable ==
  /\ ~PanelDone
  /\ failed' = 0 /\ Sampled(TRUE, FALSE, NoScores)
  /\ meter' = [meter EXCEPT !.calls = @ + 1, !.failures = @ + 1]

Scored(s) ==
  /\ ~PanelDone
  /\ failed' = 0 /\ Sampled(TRUE, TRUE, s)
  /\ meter' = [meter EXCEPT !.calls = @ + 1]

JudgeNext == ChatFails \/ Unparseable \/ \E s \in Replies : Scored(s)
=============================================================================

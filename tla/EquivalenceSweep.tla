-------------------------- MODULE EquivalenceSweep --------------------------
(***************************************************************************)
(* evals/pairs.py: what a similarity threshold does to a set of labelled   *)
(* pairs.  A scored set is a function from pairs to scores; scores and     *)
(* thresholds are integers on one scale, the rounding of floats is left    *)
(* out, and rates over one set are compared by their counts.               *)
(***************************************************************************)
EXTENDS Integers, Sequences, FiniteSets, FiniteSetsExt

CONSTANTS Pairs,     \* the pairs, numbered in the order of the file
          Positive,  \* those labelled "same"
          Families,  \* families of negative pairs
          FamilyOf   \* the family of a negative pair

(* The pairs are the lines of a file; load_pairs refuses a set without     *)
(* both labels.                                                            *)
ASSUME PairsAssumption ==
  /\ IsFiniteSet(Pairs)
  /\ Positive \subseteq Pairs /\ Positive # {} /\ Pairs \ Positive # {}
  /\ FamilyOf \in [Pairs \ Positive -> Families]

(* thresholds: the grid, from low up to high and never past it. *)
Thresholds(low, high, step) ==
  [k \in 1..((high - low) \div step + 1) |-> low + (k - 1) * step]

(* Operating: the confusion matrix of one threshold. *)
Operating(scored, t) ==
  LET hit == {p \in DOMAIN scored : scored[p] >= t}
      missed == DOMAIN scored \ hit
  IN  [threshold |-> t,
       tp |-> Cardinality(hit \cap Positive), fn |-> Cardinality(missed \cap Positive),
       fp |-> Cardinality(hit \ Positive),    tn |-> Cardinality(missed \ Positive)]

(* sweep *)
Sweep(scored, grid) == [k \in DOMAIN grid |-> Operating(scored, grid[k])]

(* by_family, as run() uses it: the positives and one family of negatives. *)
OfFamily(scored, family) ==
  [p \in {q \in DOMAIN scored : q \in Positive \/ FamilyOf[q] = family} |-> scored[p]]

Scores(scored, kind) == {scored[p] : p \in kind}

\* Mutant of Separable: a tie of the two is taken as separable.
SeparableOrEqual(scored) ==
  LET worst   == Min(Scores(scored, Positive))
      dearest == Max(Scores(scored, Pairs \ Positive))
  IN  [separable |-> worst >= dearest, lowest |-> worst, highest |-> dearest]

(* separable *)
Separable(scored) ==
  LET worst   == Min(Scores(scored, Positive))
      dearest == Max(Scores(scored, Pairs \ Positive))
  IN  [separable |-> worst > dearest, lowest |-> worst, highest |-> dearest]

(* steepest_fpr_drop: the first place of the furthest fall. *)
Knee(points) ==
  LET drop(k) == points[k].fp - points[k + 1].fp
      steps   == 1..(Len(points) - 1)
  IN  Min({k \in steps : \A j \in steps : drop(j) <= drop(k)}) + 1

\* Mutant of Best: the clean thresholds are not preferred.
BestOfAll(points) ==
  CHOOSE k \in DOMAIN points : \A j \in DOMAIN points :
    \/ points[j].tp < points[k].tp
    \/ points[j].tp = points[k].tp /\ points[j].fp > points[k].fp
    \/ points[j].tp = points[k].tp /\ points[j].fp = points[k].fp /\ j <= k

(* best_operating: the greatest (tpr, -fpr, threshold), among the points   *)
(* without a false positive if there are any.                              *)
Best(points) ==
  LET clean == {k \in DOMAIN points : points[k].fp = 0}
      pool  == IF clean # {} THEN clean ELSE DOMAIN points
  IN  CHOOSE k \in pool : \A j \in pool :
        \/ points[j].tp < points[k].tp
        \/ points[j].tp = points[k].tp /\ points[j].fp > points[k].fp
        \/ points[j].tp = points[k].tp /\ points[j].fp = points[k].fp /\ j <= k
=============================================================================

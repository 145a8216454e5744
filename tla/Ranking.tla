------------------------------- MODULE Ranking -------------------------------
(***************************************************************************)
(* The order in which rendering/rank.py puts the papers that have a        *)
(* canonical critique: gates first, then the total score as it is shown,   *)
(* the weighted mean of the scores rounded to six places, then the id.     *)
(* The rounding decides: papers whose means differ by less than a place    *)
(* may tie, and then the id may put the lower mean first.                  *)
(*                                                                         *)
(* Weights are integers or floats; the arithmetic is that of rationals, so *)
(* they are numbers of a common unit.  What binary floating point adds to  *)
(* that, the direction in which a mean midway between two places goes, is  *)
(* left open (TiesUp); its error elsewhere, far below a place, is left out.*)
(***************************************************************************)
EXTENDS Integers, FiniteSets, FiniteSetsExt

CONSTANTS
  Papers,    \* paper_ids; numbers, because ids are compared
  Criteria,  \* criterion_ids of the objective profile
  Weight,    \* Weight[c] : the weight of criterion c, in a unit common to all
  Gates,     \* the criteria that are gates
  Scores,    \* the scores a critic gives
  Places,    \* how many steps of the rounding make 1; 10^6 in the code
  TiesUp     \* the weighted sums whose mean is rounded up if it is midway

ASSUME PaperAssumption == Papers \subseteq Nat /\ IsFiniteSet(Papers)

ASSUME ProfileAssumption ==
  /\ IsFiniteSet(Criteria)
  /\ Weight \in [Criteria -> Nat]
  /\ Gates \subseteq Criteria
  /\ Scores \subseteq Nat

ASSUME RoundingAssumption == Places \in Nat \ {0}

Assessments == [Criteria -> Scores]

WeightedSum(s) == MapThenSumSet(LAMBDA c : Weight[c] * s[c], Criteria)

TotalWeight == WeightedSum([c \in Criteria |-> 1])

\* The mean of a weighted sum, in steps of the rounding, rounded to the nearest.
RoundedMean(sum) ==
  LET steps == (Places * sum) \div TotalWeight
      rest == (Places * sum) % TotalWeight
  IN  IF 2 * rest > TotalWeight \/ (2 * rest = TotalWeight /\ sum \in TiesUp)
      THEN steps + 1 ELSE steps

\* total_score; zero when all weights are.
TotalScore(s) == IF TotalWeight = 0 THEN 0 ELSE RoundedMean(WeightedSum(s))

Passes(s) == \A c \in Gates : s[c] > 0

\* Mutant: the gate does not decide, only the total.
BeforeByTotal(p, s, q, t) ==
  TotalScore(s) > TotalScore(t) \/ (TotalScore(s) = TotalScore(t) /\ p < q)

\* Mutant: the order is that of the means before they are rounded.
BeforeUnrounded(p, s, q, t) ==
  \/ Passes(s) /\ ~Passes(t)
  \/ /\ Passes(s) = Passes(t)
     /\ WeightedSum(s) > WeightedSum(t) \/ (WeightedSum(s) = WeightedSum(t) /\ p < q)

\* The sort key: p with scores s comes before q with scores t.
Before(p, s, q, t) ==
  \/ Passes(s) /\ ~Passes(t)
  \/ /\ Passes(s) = Passes(t)
     /\ TotalScore(s) > TotalScore(t) \/ (TotalScore(s) = TotalScore(t) /\ p < q)

\* The rank of p among ranked papers with scores[q] each.
RankAmong(ranked, scores, p) ==
  1 + Cardinality({q \in ranked : Before(q, scores[q], p, scores[p])})
=============================================================================

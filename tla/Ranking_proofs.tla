---------------------------- MODULE Ranking_proofs ----------------------------
(***************************************************************************)
(* That the sort key of rank.py orders the ranked papers, and that the     *)
(* ranks it gives are 1, 2, ... without gaps, for any papers and profile.  *)
(* The weighted sum of a paper is a fold over the criteria: what holds of  *)
(* it is proved by looking at the smallest set of criteria for which it    *)
(* fails.                                                                  *)
(***************************************************************************)
EXTENDS Ranking, FiniteSetTheorems, WellFoundedInduction, TLAPS

-----------------------------------------------------------------------------
(***************************************************************************)
(* The weighted sum                                                        *)
(***************************************************************************)

\* A set of numbers that is not empty has a least element.
LEMMA Least ==
  ASSUME NEW T \in SUBSET Nat, T # {}
  PROVE  \E n \in T : \A k \in T : n <= k
<1>1. IsWellFoundedOn(OpToRel(<, Nat), Nat)
  BY NatLessThanWellFounded
<1>2. PICK n \in T : \A k \in T : <<k, n>> \notin OpToRel(<, Nat)
  BY <1>1, WFMin
<1>3. \A k \in T : ~ (k < n)
  BY <1>2 DEF OpToRel
<1> QED
  BY <1>3

\* The criterion that is added last, and the sum of the criteria C with it.
Last(C) == CHOOSE c \in C : TRUE

Adds(sum, s, C) == IF C = {} THEN 0 ELSE Weight[Last(C)] * s[Last(C)] + sum[C \ {Last(C)}]

\* The sums over all sets of criteria.
SumOf(s) == CHOOSE sum : sum = [C \in SUBSET Criteria |-> Adds(sum, s, C)]

LEMMA WeightedIsSum ==
  ASSUME NEW s
  PROVE  WeightedSum(s) = SumOf(s)[Criteria]
BY DEF WeightedSum, MapThenSumSet, MapThenFoldSet, SumOf, Adds, Last

\* The sets of at most n criteria, and the sums over them.
Small(n) == {C \in SUBSET Criteria : Cardinality(C) <= n}

Sums(s, n) == {sum \in [Small(n) -> Nat] : \A C \in Small(n) : sum[C] = Adds(sum, s, C)}

LEMMA Subsets ==
  ASSUME NEW C \in SUBSET Criteria
  PROVE  /\ IsFiniteSet(C) /\ Cardinality(C) \in Nat
         /\ C \in Small(Cardinality(Criteria))
         /\ C # {} => /\ Last(C) \in C /\ Last(C) \in Criteria
                      /\ C \ {Last(C)} \in SUBSET Criteria
                      /\ Cardinality(C) > 0
                      /\ Cardinality(C \ {Last(C)}) = Cardinality(C) - 1
<1>1. IsFiniteSet(C) /\ Cardinality(C) <= Cardinality(Criteria)
  BY ProfileAssumption, FS_Subset
<1>2. Cardinality(C) \in Nat
  BY <1>1, FS_CardinalityType
<1>3. ASSUME C # {}
      PROVE  Last(C) \in C /\ Cardinality(C) > 0
             /\ Cardinality(C \ {Last(C)}) = Cardinality(C) - 1
  <2>1. Last(C) \in C
    BY <1>3 DEF Last
  <2>2. Cardinality(C) # 0
    BY <1>1, <1>3, FS_EmptySet
  <2>3. Cardinality(C \ {Last(C)}) = Cardinality(C) - 1
    BY <1>1, <2>1, FS_RemoveElement
  <2> QED
    BY <1>2, <2>1, <2>2, <2>3
<1> QED
  BY <1>1, <1>2, <1>3 DEF Small

\* The summand of a criterion is a number.
LEMMA Weighted ==
  ASSUME NEW s \in [Criteria -> Nat], NEW c \in Criteria
  PROVE  /\ Weight[c] \in Nat /\ s[c] \in Nat
         /\ Weight[c] * s[c] \in Nat
<1>1. Weight[c] \in Nat /\ s[c] \in Nat
  BY ProfileAssumption
<1>2. \A i, j \in Nat : i * j \in Nat
  OBVIOUS
<1> QED
  BY <1>1, <1>2

LEMMA MoreSums ==
  ASSUME NEW s \in [Criteria -> Nat], NEW n \in Nat, n > 0, NEW sum \in Sums(s, n - 1)
  PROVE  [C \in Small(n) |-> Adds(sum, s, C)] \in Sums(s, n)
<1> DEFINE more == [C \in Small(n) |-> Adds(sum, s, C)]
<1>1. sum \in [Small(n - 1) -> Nat] /\ \A C \in Small(n - 1) : sum[C] = Adds(sum, s, C)
  BY DEF Sums
<1>2. ASSUME NEW C \in Small(n), C # {}
      PROVE  /\ C \ {Last(C)} \in Small(n - 1) /\ C \ {Last(C)} \in Small(n)
             /\ Weight[Last(C)] * s[Last(C)] \in Nat
  <2>1. C \in SUBSET Criteria /\ Cardinality(C) <= n
    BY DEF Small
  <2>2. /\ C \ {Last(C)} \in SUBSET Criteria /\ Last(C) \in Criteria /\ Cardinality(C) \in Nat
        /\ Cardinality(C \ {Last(C)}) = Cardinality(C) - 1
    BY <1>2, <2>1, Subsets
  <2> QED
    BY <2>1, <2>2, Weighted DEF Small
<1>3. ASSUME NEW C \in Small(n)
      PROVE  more[C] \in Nat /\ more[C] = Adds(more, s, C)
  <2>1. CASE C = {}
    BY <2>1 DEF Adds
  <2>2. CASE C # {}
    <3> DEFINE D == C \ {Last(C)}
    <3>1. D \in Small(n - 1) /\ D \in Small(n) /\ Weight[Last(C)] * s[Last(C)] \in Nat
      BY <1>2, <2>2
    <3>2. sum[D] \in Nat /\ more[D] = sum[D]
      BY <1>1, <3>1
    <3>3. more[C] = Weight[Last(C)] * s[Last(C)] + sum[D]
      BY <2>2 DEF Adds
    <3>4. Adds(more, s, C) = Weight[Last(C)] * s[Last(C)] + more[D]
      BY <2>2 DEF Adds
    <3> HIDE DEF more, D
    <3> QED
      BY <3>1, <3>2, <3>3, <3>4
  <2> QED
    BY <2>1, <2>2
<1>4. more \in [Small(n) -> Nat]
  BY <1>3
<1> HIDE DEF more
<1>5. more \in Sums(s, n)
  BY <1>3, <1>4 DEF Sums
<1> QED
  BY <1>5 DEF more

LEMMA SumsExist ==
  ASSUME NEW s \in [Criteria -> Nat], NEW n \in Nat
  PROVE  Sums(s, n) # {}
<1> DEFINE Missing == {k \in Nat : Sums(s, k) = {}}
<1>1. SUFFICES ASSUME Missing # {} PROVE FALSE
  OBVIOUS
<1>2. PICK m \in Missing : \A k \in Missing : m <= k
  BY <1>1, Least
<1>3. CASE m = 0
  <2>1. \A C \in Small(0) : C = {}
    <3> SUFFICES ASSUME NEW C \in Small(0) PROVE C = {}
      OBVIOUS
    <3>1. C \in SUBSET Criteria /\ Cardinality(C) <= 0
      BY DEF Small
    <3>2. IsFiniteSet(C) /\ Cardinality(C) \in Nat
      BY <3>1, Subsets
    <3> QED
      BY <3>1, <3>2, FS_EmptySet
  <2>2. [C \in Small(0) |-> 0] \in Sums(s, 0)
    BY <2>1 DEF Sums, Adds
  <2> QED
    BY <1>2, <1>3, <2>2
<1>4. CASE m # 0
  <2>1. m \in Nat /\ m > 0 /\ m - 1 \in Nat /\ Sums(s, m) = {}
    BY <1>2, <1>4
  <2>2. m - 1 \notin Missing
    BY <1>2, <2>1
  <2>3. PICK sum \in Sums(s, m - 1) : TRUE
    BY <2>1, <2>2
  <2> QED
    BY <2>1, <2>3, MoreSums
<1> QED
  BY <1>3, <1>4

\* The sums obey their recursion.
LEMMA SumStep ==
  ASSUME NEW s \in [Criteria -> Nat]
  PROVE  \A C \in SUBSET Criteria : SumOf(s)[C] = Adds(SumOf(s), s, C)
<1> DEFINE n == Cardinality(Criteria)
<1>1. n \in Nat
  BY ProfileAssumption, FS_CardinalityType
<1>2. Small(n) = SUBSET Criteria
  BY Subsets DEF Small
<1>3. PICK sum \in Sums(s, n) : TRUE
  BY <1>1, SumsExist
<1>4. sum = [C \in SUBSET Criteria |-> Adds(sum, s, C)]
  BY <1>2, <1>3 DEF Sums
<1>5. SumOf(s) = [C \in SUBSET Criteria |-> Adds(SumOf(s), s, C)]
  BY <1>4 DEF SumOf
<1> QED
  BY <1>5

\* A total is a number, and what is better on every criterion is not worse in total.
LEMMA SumsCompare ==
  ASSUME NEW s \in [Criteria -> Nat], NEW t \in [Criteria -> Nat], \A c \in Criteria : s[c] >= t[c],
         NEW C \in SUBSET Criteria
  PROVE  SumOf(s)[C] \in Nat /\ SumOf(t)[C] \in Nat /\ SumOf(s)[C] >= SumOf(t)[C]
<1> DEFINE Good(D) == SumOf(s)[D] \in Nat /\ SumOf(t)[D] \in Nat /\ SumOf(s)[D] >= SumOf(t)[D]
           Sizes == {n \in Nat : \E D \in SUBSET Criteria : Cardinality(D) = n /\ ~ Good(D)}
<1>1. SUFFICES ASSUME ~ Good(C) PROVE FALSE
  OBVIOUS
<1>2. Cardinality(C) \in Sizes
  BY <1>1, Subsets
<1>3. PICK n \in Sizes : \A k \in Sizes : n <= k
  BY <1>2, Least
<1>4. PICK D \in SUBSET Criteria : Cardinality(D) = n /\ ~ Good(D)
  BY <1>3
<1>5. SumOf(s)[D] = Adds(SumOf(s), s, D) /\ SumOf(t)[D] = Adds(SumOf(t), t, D)
  BY SumStep
<1>6. CASE D = {}
  BY <1>4, <1>5, <1>6 DEF Adds
<1>7. CASE D # {}
  <2> DEFINE E == D \ {Last(D)}
             w == Weight[Last(D)]
  <2>1. /\ E \in SUBSET Criteria /\ Last(D) \in Criteria /\ Cardinality(D) \in Nat
        /\ Cardinality(E) = Cardinality(D) - 1
    BY <1>7, Subsets
  <2>2. Cardinality(E) \in Nat
    BY <2>1, Subsets
  <2>3. Cardinality(E) \notin Sizes
    <3> HIDE DEF Sizes, E
    <3>1. n \in Nat /\ ~ (n <= Cardinality(E))
      BY <1>4, <2>1, <2>2
    <3> QED
      BY <1>3, <3>1
  <2>4. Good(E)
    BY <2>1, <2>2, <2>3
  <2>5. w \in Nat /\ s[Last(D)] \in Nat /\ t[Last(D)] \in Nat /\ s[Last(D)] >= t[Last(D)]
    BY <2>1, Weighted
  <2>6. w * s[Last(D)] \in Nat /\ w * t[Last(D)] \in Nat
    BY <2>1, Weighted
  <2>7. \A i, j, k \in Nat : j >= k => i * j >= i * k
    OBVIOUS
  <2>8. w * s[Last(D)] >= w * t[Last(D)]
    BY <2>5, <2>7
  <2>9. /\ SumOf(s)[D] = w * s[Last(D)] + SumOf(s)[E]
        /\ SumOf(t)[D] = w * t[Last(D)] + SumOf(t)[E]
    BY <1>5, <1>7 DEF Adds
  <2> HIDE DEF E, w
  <2> QED
    BY <1>4, <2>4, <2>6, <2>8, <2>9
<1> QED
  BY <1>6, <1>7

LEMMA SumType ==
  ASSUME NEW s \in [Criteria -> Nat]
  PROVE  WeightedSum(s) \in Nat
<1>1. \A c \in Criteria : s[c] \in Nat
  BY Weighted
<1>2. SumOf(s)[Criteria] \in Nat
  BY <1>1, SumsCompare
<1> QED
  BY <1>2, WeightedIsSum

-----------------------------------------------------------------------------
(***************************************************************************)
(* The rounded mean                                                        *)
(***************************************************************************)

LEMMA Divided ==
  ASSUME NEW n \in Nat, NEW w \in Nat \ {0}
  PROVE  /\ n \div w \in Nat /\ n % w \in Nat /\ n % w < w
         /\ n = w * (n \div w) + (n % w)
OBVIOUS

\* The steps and the rest of a weighted sum, and what they become.
Steps(sum) == (Places * sum) \div TotalWeight
Rest(sum) == (Places * sum) % TotalWeight
RoundsUp(sum) ==
  2 * Rest(sum) > TotalWeight \/ (2 * Rest(sum) = TotalWeight /\ sum \in TiesUp)

LEMMA RoundedBySteps ==
  ASSUME NEW sum
  PROVE  RoundedMean(sum) = IF RoundsUp(sum) THEN Steps(sum) + 1 ELSE Steps(sum)
BY DEF RoundedMean, RoundsUp, Steps, Rest

LEMMA StepsType ==
  ASSUME NEW sum \in Nat, TotalWeight \in Nat \ {0}
  PROVE  /\ Steps(sum) \in Nat /\ Rest(sum) \in Nat /\ Rest(sum) < TotalWeight
         /\ Places * sum = TotalWeight * Steps(sum) + Rest(sum)
         /\ RoundedMean(sum) \in Nat
<1>1. Places * sum \in Nat
  BY RoundingAssumption
<1>2. /\ Steps(sum) \in Nat /\ Rest(sum) \in Nat /\ Rest(sum) < TotalWeight
      /\ Places * sum = TotalWeight * Steps(sum) + Rest(sum)
  BY <1>1, Divided DEF Steps, Rest
<1> QED
  BY <1>2, RoundedBySteps

\* With quotients that are as many steps apart, the rests decide.
LEMMA Apart ==
  ASSUME NEW w \in Nat \ {0}, NEW q \in Nat, NEW r \in Nat, r < w, NEW d \in Nat,
         NEW u \in Nat, NEW v \in Nat, v < w, w * q + r >= w * u + v + d * w
  PROVE  q >= u + d /\ (q = u + d => r >= v)
<1>1. q >= u + d
  <2>1. SUFFICES ASSUME q + 1 <= u + d PROVE FALSE
    OBVIOUS
  <2>2. \A i, j \in Nat : i <= j => w * i <= w * j
    OBVIOUS
  <2>3. w * (q + 1) <= w * (u + d)
    BY <2>1, <2>2
  <2>4. w * (q + 1) = w * q + w /\ w * (u + d) = w * u + d * w
    OBVIOUS
  <2>5. w * q \in Nat /\ w * u \in Nat /\ d * w \in Nat
    OBVIOUS
  <2> QED
    BY <2>3, <2>4, <2>5
<1>2. ASSUME q = u + d PROVE r >= v
  <2>1. w * q = w * u + d * w
    BY <1>2
  <2>2. w * q \in Nat /\ w * u \in Nat /\ d * w \in Nat
    OBVIOUS
  <2> QED
    BY <2>1, <2>2
<1> QED
  BY <1>1, <1>2

\* Rounding keeps the order, though not its strictness.
LEMMA RoundingKeepsOrder ==
  ASSUME NEW m \in Nat, NEW n \in Nat, m >= n, TotalWeight \in Nat \ {0}
  PROVE  RoundedMean(m) >= RoundedMean(n)
<1> DEFINE w == TotalWeight
<1>1. Places * m >= Places * n
  BY RoundingAssumption
<1>2. /\ Steps(m) \in Nat /\ Rest(m) \in Nat /\ Rest(m) < w /\ Places * m = w * Steps(m) + Rest(m)
      /\ Steps(n) \in Nat /\ Rest(n) \in Nat /\ Rest(n) < w /\ Places * n = w * Steps(n) + Rest(n)
  BY StepsType
<1>3. w * Steps(m) + Rest(m) >= w * Steps(n) + Rest(n) + 0 * w
  BY <1>1, <1>2
<1>4. Steps(m) >= Steps(n) /\ (Steps(m) = Steps(n) => Rest(m) >= Rest(n))
  <2>1. Steps(m) >= Steps(n) + 0 /\ (Steps(m) = Steps(n) + 0 => Rest(m) >= Rest(n))
    BY <1>2, <1>3, Apart
  <2> QED
    BY <1>2, <2>1
<1>5. CASE Steps(m) > Steps(n)
  BY <1>2, <1>5, RoundedBySteps
<1>6. CASE Steps(m) = Steps(n) /\ Rest(m) > Rest(n)
  <2>1. RoundsUp(n) => RoundsUp(m)
    BY <1>2, <1>6 DEF RoundsUp
  <2> QED
    BY <1>2, <1>6, <2>1, RoundedBySteps
<1>7. CASE Steps(m) = Steps(n) /\ Rest(m) = Rest(n)
  <2>1. Places * m = Places * n
    BY <1>2, <1>7
  <2>2. \A i \in Nat \ {0}, j, k \in Nat : i * j = i * k => j = k
    OBVIOUS
  <2>3. m = n
    BY <2>1, <2>2, RoundingAssumption
  <2> QED
    BY <1>2, <2>3, RoundedBySteps
<1> QED
  BY <1>2, <1>4, <1>5, <1>6, <1>7

\* A mean that is more than a step ahead stays ahead.
LEMMA RoundingKeepsSteps ==
  ASSUME NEW m \in Nat, NEW n \in Nat, TotalWeight \in Nat \ {0},
         Places * m > Places * n + TotalWeight
  PROVE  RoundedMean(m) > RoundedMean(n)
<1> DEFINE w == TotalWeight
<1>1. /\ Steps(m) \in Nat /\ Rest(m) \in Nat /\ Rest(m) < w /\ Places * m = w * Steps(m) + Rest(m)
      /\ Steps(n) \in Nat /\ Rest(n) \in Nat /\ Rest(n) < w /\ Places * n = w * Steps(n) + Rest(n)
  BY StepsType
<1>2. w * Steps(m) + Rest(m) >= w * Steps(n) + Rest(n) + 1 * w
  BY <1>1
<1>3. Steps(m) >= Steps(n) + 1 /\ (Steps(m) = Steps(n) + 1 => Rest(m) >= Rest(n))
  BY <1>1, <1>2, Apart
<1>4. CASE Steps(m) > Steps(n) + 1
  BY <1>1, <1>4, RoundedBySteps
<1>5. CASE Steps(m) = Steps(n) + 1
  <2>1. w * Steps(m) = w * Steps(n) + w
    BY <1>1, <1>5
  <2>2. w * Steps(m) \in Nat /\ w * Steps(n) \in Nat
    BY <1>1
  <2>3. Rest(m) > Rest(n)
    BY <1>1, <2>1, <2>2
  <2>4. RoundsUp(n) => RoundsUp(m)
    BY <1>1, <2>3 DEF RoundsUp
  <2> QED
    BY <1>1, <1>5, <2>4, RoundedBySteps
<1> QED
  BY <1>1, <1>3, <1>4, <1>5

LEMMA Assessed ==
  ASSUME NEW s \in Assessments
  PROVE  s \in [Criteria -> Nat]
BY ProfileAssumption DEF Assessments

LEMMA TotalWeightType == TotalWeight \in Nat
BY SumType DEF TotalWeight

LEMMA TotalType ==
  ASSUME NEW s \in Assessments
  PROVE  TotalScore(s) \in Nat
BY Assessed, SumType, TotalWeightType, StepsType DEF TotalScore

\* The sort key, with the comparison of the gates as an equivalence.
LEMMA KeyByCases ==
  ASSUME NEW p, NEW s, NEW q, NEW t
  PROVE  Before(p, s, q, t) <=>
           \/ Passes(s) /\ ~ Passes(t)
           \/ /\ Passes(s) <=> Passes(t)
              /\ TotalScore(s) > TotalScore(t) \/ (TotalScore(s) = TotalScore(t) /\ p < q)
BY DEF Before, Passes

\* A paper that no criterion scores lower than another has no lower total score and
\* passes its gates if the other does.  It comes before the other unless their total
\* scores, as rounded, are equal, and then the ids decide; it does come before it if its
\* id is smaller, or if its mean is ahead by more than a step of the rounding.
THEOREM DominantScores ==
  ASSUME NEW s \in Assessments, NEW t \in Assessments, \A c \in Criteria : s[c] >= t[c],
         NEW p \in Papers, NEW q \in Papers
  PROVE  /\ Before(q, t, p, s) => TotalScore(s) = TotalScore(t) /\ Passes(s) = Passes(t) /\ q < p
         /\ p < q => Before(p, s, q, t)
         /\ TotalWeight # 0 /\ Places * WeightedSum(s) > Places * WeightedSum(t) + TotalWeight
              => Before(p, s, q, t)
<1>1. s \in [Criteria -> Nat] /\ t \in [Criteria -> Nat] /\ TotalWeight \in Nat
  BY Assessed, TotalWeightType
<1>2. WeightedSum(s) \in Nat /\ WeightedSum(t) \in Nat /\ WeightedSum(s) >= WeightedSum(t)
  BY <1>1, SumsCompare, WeightedIsSum
<1>3. TotalScore(s) \in Nat /\ TotalScore(t) \in Nat
  BY TotalType
<1>4. TotalScore(s) >= TotalScore(t)
  BY <1>1, <1>2, RoundingKeepsOrder DEF TotalScore
<1>5. Passes(t) => Passes(s)
  <2> SUFFICES ASSUME Passes(t), NEW c \in Gates PROVE s[c] > 0
    BY DEF Passes
  <2>1. c \in Criteria
    BY ProfileAssumption
  <2>2. s[c] \in Nat /\ t[c] \in Nat /\ s[c] >= t[c] /\ t[c] > 0
    BY <1>1, <2>1 DEF Passes
  <2> QED
    BY <2>2
<1>6. p \in Nat /\ q \in Nat
  BY PaperAssumption
<1>7. ASSUME Before(q, t, p, s)
      PROVE  TotalScore(s) = TotalScore(t) /\ Passes(s) = Passes(t) /\ q < p
  <2>1. Passes(s) \in BOOLEAN /\ Passes(t) \in BOOLEAN
    BY DEF Passes
  <2>2. Passes(s) = Passes(t)
    BY <1>5, <1>7, <2>1 DEF Before
  <2>3. TotalScore(t) > TotalScore(s) \/ (TotalScore(t) = TotalScore(s) /\ q < p)
    BY <1>5, <1>7, KeyByCases
  <2> QED
    BY <1>3, <1>4, <2>2, <2>3
<1>8. ASSUME TotalScore(s) > TotalScore(t) \/ (TotalScore(s) = TotalScore(t) /\ p < q)
      PROVE  Before(p, s, q, t)
  BY <1>5, <1>8, KeyByCases
<1>9. ASSUME TotalWeight # 0, Places * WeightedSum(s) > Places * WeightedSum(t) + TotalWeight
      PROVE  TotalScore(s) > TotalScore(t)
  BY <1>1, <1>2, <1>9, RoundingKeepsSteps DEF TotalScore
<1> QED
  BY <1>3, <1>4, <1>7, <1>8, <1>9

-----------------------------------------------------------------------------
(***************************************************************************)
(* The order                                                               *)
(***************************************************************************)

\* The papers of a ranking, with the scores they are ranked by.
Ranked(ranked, scores) == ranked \subseteq Papers /\ \A p \in ranked : scores[p] \in Assessments

First(scores, p, q) == Before(p, scores[p], q, scores[q])

LEMMA SortKey ==
  ASSUME NEW ranked, NEW scores, Ranked(ranked, scores)
  PROVE  /\ \A p \in ranked : ~ First(scores, p, p)
         /\ \A p, q \in ranked : p # q => First(scores, p, q) \/ First(scores, q, p)
         /\ \A p, q, r \in ranked :
              First(scores, p, q) /\ First(scores, q, r) => First(scores, p, r)
<1>1. \A p \in ranked : p \in Nat /\ TotalScore(scores[p]) \in Nat
  BY PaperAssumption, TotalType DEF Ranked
<1>2. ASSUME NEW p \in ranked PROVE ~ First(scores, p, p)
  BY <1>1 DEF First, Before
<1>3. ASSUME NEW p \in ranked, NEW q \in ranked, p # q
      PROVE  First(scores, p, q) \/ First(scores, q, p)
  <2>1. \/ TotalScore(scores[p]) > TotalScore(scores[q]) \/ TotalScore(scores[q]) > TotalScore(scores[p])
        \/ TotalScore(scores[p]) = TotalScore(scores[q]) /\ (p < q \/ q < p)
    BY <1>1, <1>3
  <2> QED
    BY <2>1, KeyByCases DEF First
<1>4. ASSUME NEW p \in ranked, NEW q \in ranked, NEW r \in ranked,
             First(scores, p, q), First(scores, q, r)
      PROVE  First(scores, p, r)
  <2> DEFINE Ahead(a, b) == \/ TotalScore(scores[a]) > TotalScore(scores[b])
                            \/ TotalScore(scores[a]) = TotalScore(scores[b]) /\ a < b
  <2>1. Ahead(p, q) /\ Ahead(q, r) => Ahead(p, r)
    BY <1>1
  <2>2. \A a, b \in ranked :
          First(scores, a, b) <=>
            \/ Passes(scores[a]) /\ ~ Passes(scores[b])
            \/ (Passes(scores[a]) <=> Passes(scores[b])) /\ Ahead(a, b)
    BY KeyByCases DEF First
  <2> HIDE DEF Ahead
  <2> QED
    BY <1>4, <2>1, <2>2
<1> QED
  BY <1>2, <1>3, <1>4

-----------------------------------------------------------------------------
(***************************************************************************)
(* The ranks                                                               *)
(***************************************************************************)

\* The papers that come before p.
Ahead(ranked, scores, p) == {q \in ranked : First(scores, q, p)}

LEMMA RankIsPlace ==
  ASSUME NEW ranked, NEW scores, Ranked(ranked, scores), NEW p \in ranked
  PROVE  /\ RankAmong(ranked, scores, p) = 1 + Cardinality(Ahead(ranked, scores, p))
         /\ IsFiniteSet(Ahead(ranked, scores, p))
         /\ RankAmong(ranked, scores, p) \in 1..Cardinality(ranked)
<1> DEFINE ahead == Ahead(ranked, scores, p)
<1>1. IsFiniteSet(ranked) /\ Cardinality(ranked) \in Nat
  <2>1. ranked \in SUBSET Papers
    BY DEF Ranked
  <2> QED
    BY <2>1, PaperAssumption, FS_Subset, FS_CardinalityType
<1>2. ahead \in SUBSET (ranked \ {p})
  BY SortKey DEF Ahead
<1>3. IsFiniteSet(ranked \ {p}) /\ Cardinality(ranked \ {p}) = Cardinality(ranked) - 1
  BY <1>1, FS_RemoveElement
<1>4. IsFiniteSet(ahead) /\ Cardinality(ahead) <= Cardinality(ranked) - 1
  BY <1>2, <1>3, FS_Subset
<1>5. Cardinality(ahead) \in Nat
  BY <1>4, FS_CardinalityType
<1>6. RankAmong(ranked, scores, p) = 1 + Cardinality(ahead)
  BY DEF RankAmong, Ahead, First
<1> HIDE DEF ahead
<1>7. 1 + Cardinality(ahead) \in 1..Cardinality(ranked)
  BY <1>1, <1>4, <1>5
<1> QED
  BY <1>4, <1>6, <1>7 DEF ahead

LEMMA RankGrows ==
  ASSUME NEW ranked, NEW scores, Ranked(ranked, scores),
         NEW p \in ranked, NEW q \in ranked, First(scores, p, q)
  PROVE  RankAmong(ranked, scores, p) < RankAmong(ranked, scores, q)
<1> DEFINE A == Ahead(ranked, scores, p)
           B == Ahead(ranked, scores, q)
<1>1. p \notin A /\ A \union {p} \subseteq B
  BY SortKey DEF Ahead
<1>2. IsFiniteSet(A) /\ IsFiniteSet(B)
  BY RankIsPlace
<1> HIDE DEF A, B
<1>3. Cardinality(A \union {p}) = Cardinality(A) + 1
  BY <1>1, <1>2, FS_AddElement
<1>4. Cardinality(A \union {p}) <= Cardinality(B)
  BY <1>1, <1>2, FS_Subset
<1>5. Cardinality(A) \in Nat /\ Cardinality(B) \in Nat
  BY <1>2, FS_CardinalityType
<1>6. /\ RankAmong(ranked, scores, p) = 1 + Cardinality(A)
      /\ RankAmong(ranked, scores, q) = 1 + Cardinality(B)
  BY RankIsPlace DEF A, B
<1> QED
  BY <1>3, <1>4, <1>5, <1>6

\* The ranks are 1, 2, ... as many as there are papers, in the order of the sort key.
THEOREM RanksFollowKey ==
  ASSUME NEW ranked, NEW scores, Ranked(ranked, scores)
  PROVE  /\ {RankAmong(ranked, scores, p) : p \in ranked} = 1..Cardinality(ranked)
         /\ \A p, q \in ranked :
              RankAmong(ranked, scores, p) < RankAmong(ranked, scores, q) <=> First(scores, p, q)
<1> DEFINE rank == [p \in ranked |-> RankAmong(ranked, scores, p)]
           n == Cardinality(ranked)
<1>1. IsFiniteSet(ranked) /\ n \in Nat
  <2>1. ranked \in SUBSET Papers
    BY DEF Ranked
  <2> QED
    BY <2>1, PaperAssumption, FS_Subset, FS_CardinalityType
<1>2. rank \in [ranked -> 1..n]
  BY RankIsPlace
<1>3. \A p \in ranked : RankAmong(ranked, scores, p) \in Nat
  BY <1>1, RankIsPlace
<1>4. \A p, q \in ranked :
        RankAmong(ranked, scores, p) < RankAmong(ranked, scores, q) <=> First(scores, p, q)
  <2> TAKE p, q \in ranked
  <2>1. First(scores, p, q) => RankAmong(ranked, scores, p) < RankAmong(ranked, scores, q)
    BY RankGrows
  <2>2. First(scores, q, p) => RankAmong(ranked, scores, q) < RankAmong(ranked, scores, p)
    BY RankGrows
  <2>3. p # q => First(scores, p, q) \/ First(scores, q, p)
    BY SortKey
  <2> QED
    BY <1>3, <2>1, <2>2, <2>3
<1>5. \A p, q \in ranked : rank[p] = rank[q] => p = q
  <2> SUFFICES ASSUME NEW p \in ranked, NEW q \in ranked, p # q PROVE rank[p] # rank[q]
    OBVIOUS
  <2>1. First(scores, p, q) \/ First(scores, q, p)
    BY SortKey
  <2> QED
    BY <1>3, <1>4, <2>1
<1>6. rank \in Injection(ranked, 1..n)
  <2> HIDE DEF rank, n
  <2> QED
    BY <1>2, <1>5 DEF Injection, IsInjective
<1>7. IsFiniteSet(1..n) /\ Cardinality(1..n) = n
  <2> HIDE DEF n
  <2> QED
    BY <1>1, FS_Interval
<1>8. rank \in Surjection(ranked, 1..n)
  <2> HIDE DEF rank
  <2> QED
    BY <1>6, <1>7, FS_Injection
<1>9. \A k \in 1..n : \E p \in ranked : rank[p] = k
  <2> HIDE DEF rank, n
  <2> QED
    BY <1>8 DEF Surjection
<1>10. {RankAmong(ranked, scores, p) : p \in ranked} = 1..n
  BY <1>2, <1>9
<1> QED
  BY <1>4, <1>10
===============================================================================

---------------------------- MODULE ScoreMetrics ----------------------------
(***************************************************************************)
(* The measures by which models are compared, as the code computes them,   *)
(* over sequences of scored rows.  A row has a score p, in units of        *)
(* 1/ScoreMax, and a label y.  Fractions are pairs <<over, under>>.        *)
(***************************************************************************)
EXTENDS Integers, Sequences, FiniteSets, SequencesExt, FiniteSetsExt

CONSTANT ScoreMax

ASSUME ScoreAssumption == ScoreMax \in Nat \ {0}

PositiveRows(s) == {i \in DOMAIN s : s[i].y}
NegativeRows(s) == DOMAIN s \ PositiveRows(s)

\* The rows in order, where pairs holds each row with those that follow it:
\* a row has as many before it as its place says.
Sorted(s, pairs) ==
  [k \in DOMAIN s |-> CHOOSE i \in DOMAIN s : Cardinality({j \in DOMAIN s : <<j, i>> \in pairs}) = k - 1]

RowPairs(s) == (DOMAIN s) \X (DOMAIN s)

\* Rows in the order of a stable sort by score.
Ascending(s) ==
  Sorted(s, {x \in RowPairs(s) : s[x[1]].p < s[x[2]].p \/ (s[x[1]].p = s[x[2]].p /\ x[1] < x[2])})
Descending(s) ==
  Sorted(s, {x \in RowPairs(s) : s[x[1]].p > s[x[2]].p \/ (s[x[1]].p = s[x[2]].p /\ x[1] < x[2])})

Below(s, i) == {j \in DOMAIN s : s[j].p < s[i].p}
TiedWith(s, i) == {j \in DOMAIN s : s[j].p = s[i].p}

\* Tied rows share the average of their ranks.
TwiceRankOfFirst(s, i) == 2 * Cardinality(Below(s, i)) + 2
TwiceRank(s, i) == 2 * Cardinality(Below(s, i)) + Cardinality(TiedWith(s, i)) + 1

RocAuc(s) ==
  LET p == Cardinality(PositiveRows(s))
      n == Cardinality(NegativeRows(s))
  IN IF p = 0 \/ n = 0 THEN <<1, 2>>
     ELSE <<SumFunction([i \in PositiveRows(s) |-> TwiceRank(s, i)]) - p * (p + 1), 2 * p * n>>

\* The backtest rounds scores to bins of width 2 and counts by bin.
BinOf(row) == (row.p + 1) \div 2

ApproximateAuc(s) ==
  LET InBin(rows, b) == {i \in rows : BinOf(s[i]) = b}
      Lower(b) == {i \in NegativeRows(s) : BinOf(s[i]) < b}
      Concordance(b) == Cardinality(InBin(PositiveRows(s), b))
                          * (2 * Cardinality(Lower(b)) + Cardinality(InBin(NegativeRows(s), b)))
  IN <<SumFunction([b \in 0..ScoreMax |-> Concordance(b)]),
       2 * Cardinality(PositiveRows(s)) * Cardinality(NegativeRows(s))>>

Unit == 60  \* a multiple of the first ranks; for others, precisions are rounded

\* The sum over positives of the precision at their rank, in 1/Unit.
PrecisionSum(s, order) ==
  SumFunction([k \in {r \in DOMAIN order : s[order[r]].y} |->
                 (Unit * Cardinality({j \in 1..k : s[order[j]].y})) \div k])

AveragePrecision(s) ==
  IF PositiveRows(s) = {} THEN <<0, 1>>
  ELSE <<PrecisionSum(s, Descending(s)), Unit * Cardinality(PositiveRows(s))>>

TopCount(n, percent) ==
  LET k == (n * percent + 99) \div 100 IN Min({Max({k, 1}), n})

TopRows(s, percent) == {Descending(s)[k] : k \in 1..TopCount(Len(s), percent)}

PrecisionAtK(s, percent) ==
  <<Cardinality(TopRows(s, percent) \cap PositiveRows(s)), TopCount(Len(s), percent)>>

\* Rows at least half sure are taken as predicted.
Predicted(s) == {i \in DOMAIN s : 2 * s[i].p >= ScoreMax}
Hits(s) == Cardinality(Predicted(s) \cap PositiveRows(s))
Precision(s) == IF Predicted(s) = {} THEN <<0, 1>> ELSE <<Hits(s), Cardinality(Predicted(s))>>
Recall(s) == IF PositiveRows(s) = {} THEN <<0, 1>> ELSE <<Hits(s), Cardinality(PositiveRows(s))>>
F1(s) ==
  LET p == Precision(s)
      r == Recall(s)
  IN IF p[1] + r[1] = 0 THEN <<0, 1>>
     ELSE <<2 * p[1] * r[1], p[1] * r[2] + r[1] * p[2]>>

Abs(n) == IF n < 0 THEN -n ELSE n
Outcome(row) == IF row.y THEN ScoreMax ELSE 0
Gap(s, rows) == Abs(SumFunction([i \in rows |-> s[i].p - Outcome(s[i])]))

\* Ten bins of equal width, the last one closed: Len(s) times the error.
CalibrationBin(row) == Min({(10 * row.p) \div ScoreMax, 9})
CalibrationError(s) ==
  SumFunction([b \in 0..9 |-> Gap(s, {i \in DOMAIN s : CalibrationBin(s[i]) = b})])

\* Len(s) times the Brier score, in 1/ScoreMax^2.
Square(n) == n * n
Brier(s) == SumFunction([i \in DOMAIN s |-> Square(s[i].p - Outcome(s[i]))])

-----------------------------------------------------------------------------
(* Isotonic calibration: blocks of rows in the order of scores, merged     *)
(* while their means decrease.                                             *)

MeanAbove(b, c) == b.sum * c.count > c.sum * b.count

Blocks == Seq([x : Int, sum : Int, count : Int])

PoolAdjacent[blocks \in Blocks] ==
  LET n == Len(blocks) IN
  IF n > 1 /\ MeanAbove(blocks[n - 1], blocks[n])
  THEN PoolAdjacent[Append(SubSeq(blocks, 1, n - 2),
         [x |-> blocks[n].x,
          sum |-> blocks[n - 1].sum + blocks[n].sum,
          count |-> blocks[n - 1].count + blocks[n].count])]
  ELSE blocks

FitIsotonic(s) ==
  FoldLeft(LAMBDA blocks, i :
             PoolAdjacent[Append(blocks, [x |-> s[i].p, sum |-> IF s[i].y THEN 1 ELSE 0, count |-> 1])],
           <<>>, Ascending(s))

\* The first block that reaches the score, else the last.
ApplyIsotonic(score, blocks) ==
  LET reached == {k \in DOMAIN blocks : score <= blocks[k].x}
  IN blocks[IF reached = {} THEN Len(blocks) ELSE Min(reached)]

-----------------------------------------------------------------------------
(* Reference definitions.                                                  *)

(* The pairs of a positive and a negative row that are ordered rightly,    *)
(* ties counting one half: twice their number.                             *)
TwiceConcordant(s) ==
  LET pairs == PositiveRows(s) \X NegativeRows(s)
  IN 2 * Cardinality({x \in pairs : s[x[1]].p > s[x[2]].p})
       + Cardinality({x \in pairs : s[x[1]].p = s[x[2]].p})

Distinct(s) == \A i, j \in DOMAIN s : s[i].p = s[j].p => i = j

(* Average ranks give the share of concordant pairs; binning moves it by   *)
(* at most half the pairs that share a bin with different scores           *)
(* (model_experiments.rs, human_model.rs: roc_auc; backtest.rs:            *)
(* ApproximateAuc).                                                        *)
AucRight(s) ==
  PositiveRows(s) # {} /\ NegativeRows(s) # {} =>
    /\ RocAuc(s)[1] = TwiceConcordant(s)
    /\ RocAuc(s)[2] = ApproximateAuc(s)[2]
    /\ Abs(ApproximateAuc(s)[1] - RocAuc(s)[1])
         <= Cardinality({x \in PositiveRows(s) \X NegativeRows(s) :
                           BinOf(s[x[1]]) = BinOf(s[x[2]]) /\ s[x[1]].p # s[x[2]].p})

\* An order by score that has tied rows of one label first.
LabelledOrder(s, first) ==
  Sorted(s, {x \in RowPairs(s) :
               \/ s[x[1]].p > s[x[2]].p
               \/ s[x[1]].p = s[x[2]].p /\ s[x[1]].y = first /\ s[x[2]].y # first
               \/ s[x[1]].p = s[x[2]].p /\ s[x[1]].y = s[x[2]].y /\ x[1] < x[2]})

(* Average precision depends on the order of tied rows, between that with  *)
(* the positive ones last and that with them first, and is 1 only if no    *)
(* negative comes before a positive; the top rows hold no row scored lower *)
(* than one left out; F1 is that of the counts                             *)
(* (average_precision, precision_recall_lift_at_k, precision_recall_f1).   *)
RankingRight(s) ==
  LET top(percent) == TopRows(s, percent)
  IN s # <<>> =>
       /\ PrecisionSum(s, LabelledOrder(s, FALSE)) <= PrecisionSum(s, Descending(s))
       /\ PrecisionSum(s, Descending(s)) <= PrecisionSum(s, LabelledOrder(s, TRUE))
       /\ PositiveRows(s) # {} =>
            (AveragePrecision(s)[1] = AveragePrecision(s)[2]
               <=> \A k \in 1..Cardinality(PositiveRows(s)) : s[Descending(s)[k]].y)
       /\ \A percent \in {5, 50} :
            /\ \A i \in top(percent), j \in DOMAIN s \ top(percent) : s[i].p >= s[j].p
            /\ 100 * Cardinality(top(percent)) >= percent * Len(s)
            /\ PrecisionAtK(s, percent)[1] <= Cardinality(PositiveRows(s))
       /\ F1(s)[1] * (Cardinality(Predicted(s)) + Cardinality(PositiveRows(s))) = 2 * Hits(s) * F1(s)[2]

(* The calibration error lies between the gap of the means and the mean    *)
(* gap, and its square is at most the Brier score                          *)
(* (expected_calibration_error, brier_score).                              *)
CalibrationRight(s) ==
  /\ Gap(s, DOMAIN s) <= CalibrationError(s)
  /\ CalibrationError(s) <= SumFunction([i \in DOMAIN s |-> Gap(s, {i})])
  /\ Square(CalibrationError(s)) <= Len(s) * Brier(s)

(* The calibrated scores never decrease with the score and keep the number *)
(* of positives; for distinct scores they are the least-squares monotone   *)
(* fit, by its max-min formula (fit_isotonic, apply_isotonic).             *)
IsotonicRight(s) ==
  LET blocks == FitIsotonic(s)
      row == Ascending(s)
      Mean(a, b) == [sum |-> Cardinality({k \in a..b : s[row[k]].y}), count |-> b - a + 1]
      Value(k) == ApplyIsotonic(s[row[k]].p, blocks)
  IN s # <<>> =>
       /\ \A k \in 1..(Len(s) - 1) : ~MeanAbove(Value(k), Value(k + 1))
       /\ SumFunction([k \in DOMAIN blocks |-> blocks[k].sum]) = Cardinality(PositiveRows(s))
       /\ Distinct(s) =>
            \A k \in DOMAIN s :
              /\ \E a \in 1..k : \A b \in k..Len(s) : ~MeanAbove(Value(k), Mean(a, b))
              /\ \A a \in 1..k : \E b \in k..Len(s) : ~MeanAbove(Mean(a, b), Value(k))

=============================================================================

--------------------------- MODULE ModelFamilies ----------------------------
(***************************************************************************)
(* Model families: the market regime classifier (models/regime.py),        *)
(* rule-gated models (models/rule_gated.py), the boosted stumps            *)
(* (models/gbm_scorer.py) and the ranker made of them (models/ranker.py).  *)
(* The model behind a rule is an input; a return and a volatility are      *)
(* integers, and the numbers of a learner exact fractions.                 *)
(***************************************************************************)
EXTENDS Integers, Sequences, FiniteSets, SequencesExt

CONSTANT None

-----------------------------------------------------------------------------
(* The regimes by their codes, 0 the calmest.                              *)
RegimeNames == <<"BULL_LOW", "BULL_HIGH_VOL", "SIDEWAYS_L", "SIDEWAYS_H", "BEAR", "STRESS">>

\* round() of n / 10: ties go to the even neighbour.
RoundTenth(n) ==
  LET q == n \div 10
  IN  IF n % 10 > 5 \/ (n % 10 = 5 /\ q % 2 = 1) THEN q + 1 ELSE q

(* _quantile, of tenths.                                                   *)
Quantile(xs, tenths) ==
  LET s == SortSeq(xs, <)
  IN  s[1 + RoundTenth((Len(s) - 1) * tenths)]

\* Mutant of Thresholds: the cut-points of the return are swapped.
Thresholds_Swapped(rows) ==
  LET rets == [k \in DOMAIN rows |-> rows[k].ret]
      vols == [k \in DOMAIN rows |-> rows[k].vol]
  IN  [up |-> Quantile(rets, 4), down |-> Quantile(rets, 6), high |-> Quantile(vols, 7),
       low |-> Quantile(vols, 3), stress |-> Quantile(rets, 1)]

Thresholds(rows) ==
  LET rets == [k \in DOMAIN rows |-> rows[k].ret]
      vols == [k \in DOMAIN rows |-> rows[k].vol]
  IN  [up |-> Quantile(rets, 6), down |-> Quantile(rets, 4), high |-> Quantile(vols, 7),
       low |-> Quantile(vols, 3), stress |-> Quantile(rets, 1)]

(* RegimeTrainer.fit: of the rows with both features; None if there is no  *)
(* such row (it raises).                                                   *)
RegimeFit(rows) ==
  LET complete == SelectSeq(rows, LAMBDA r : r.ret # None /\ r.vol # None)
  IN  IF complete = <<>> THEN None ELSE Thresholds(complete)

(* TrainedRegimeClassifier._classify.                                      *)
Classify(t, ret, vol) ==
  CASE vol > t.high /\ ret < t.stress           -> "STRESS"
    [] vol > t.high /\ ret >= t.stress          -> IF ret > 0 THEN "BULL_HIGH_VOL" ELSE "BEAR"
    [] vol <= t.high /\ ret > t.up              -> "BULL_LOW"
    [] vol <= t.high /\ ret <= t.up             ->
         IF ret < t.down THEN "BEAR" ELSE IF vol < t.low THEN "SIDEWAYS_L" ELSE "SIDEWAYS_H"

(* predict_one: the code is the score.                                     *)
Code(regime) == CHOOSE k \in DOMAIN RegimeNames : RegimeNames[k] = regime

-----------------------------------------------------------------------------
(* ma_trend_long_rule and drawdown_short_rule.                             *)

TrendLong(f) ==
  /\ f.ma5 # None /\ f.ma20 # None
  /\ f.vol = None \/ f.vol <= 10    \* percent
  /\ f.ma5 > f.ma20

BrokenDown(f) == f.ret # None /\ f.ret < -3

VetoScore == 0

(* RuleGatedModel.predict_one.                                             *)
GatedScore(rule, inner, f) == IF rule[f] THEN inner[f] ELSE VetoScore

(* RuleGatedTrainer.fit hands on the eligible rows.                        *)
GatedRows(rule, rows) == SelectSeq(rows, LAMBDA f : rule[f])

-----------------------------------------------------------------------------
(* Boosted stumps, of complete rows [label, x], x the features of the row. *)
(* All numbers of a model are integers over one denominator, `den`, which  *)
(* grows from round to round; the logistic at the end keeps their order.   *)

(* Indices of the rows by the f-th feature, ties in their order. *)
SortedBy(rows, f) ==
  SortSeq([i \in DOMAIN rows |-> i],
          LAMBDA i, j : \/ rows[i].x[f] < rows[j].x[f]
                        \/ rows[i].x[f] = rows[j].x[f] /\ i < j)

(* The split after the first k of `order`.  `cut` is twice its threshold;  *)
(* the values of the leaves, their means, are over den * unit, and the gain*)
(* over den^2 * unit.                                                      *)
Split(rows, residual, f, order, k) ==
  LET n == Len(rows)
      left == MapThenSumSet(LAMBDA m : residual[order[m]], 1..k)
      right == MapThenSumSet(LAMBDA m : residual[order[m]], k + 1..n)
  IN  [feature |-> f, cut |-> rows[order[k]].x[f] + rows[order[k + 1]].x[f],
       left |-> left * (n - k), right |-> right * k, unit |-> k * (n - k),
       gain |-> left * left * (n - k) + right * right * k]

\* Mutant of Splits: equal values may be split.
Splits_Ties(rows, residual) ==
  UNION {LET order == SortedBy(rows, f)
         IN  {Split(rows, residual, f, order, k) : k \in 1..Len(rows) - 1} :
           f \in DOMAIN rows[1].x}

Splits(rows, residual) ==
  UNION {LET order == SortedBy(rows, f)
         IN  {Split(rows, residual, f, order, k) :
                k \in {m \in 1..Len(rows) - 1 : rows[order[m]].x[f] # rows[order[m + 1]].x[f]}} :
           f \in DOMAIN rows[1].x}

(* _best_stump: the first split with the largest gain, or None.            *)
BestStump(splits) ==
  IF splits = {} THEN None
  ELSE CHOOSE s \in splits : \A o \in splits :
         \/ o.gain * s.unit < s.gain * o.unit
         \/ /\ o.gain * s.unit = s.gain * o.unit
            /\ s.feature < o.feature \/ (s.feature = o.feature /\ s.cut <= o.cut)

Leaf(stump, x) == IF 2 * x[stump.feature] <= stump.cut THEN stump.left ELSE stump.right

\* Mutant of Boosted: the residuals lose the whole stump, the model gains a part.
Boosted_Unshrunk(m, rows, stump, rate) ==
  LET up == stump.unit * rate[2]
      shrunk == [stump EXCEPT !.left = @ * rate[1], !.right = @ * rate[1]]
  IN  [base |-> m.base * up, den |-> m.den * up,
       residual |-> [i \in DOMAIN rows |-> m.residual[i] * up - Leaf(stump, rows[i].x) * rate[2]],
       stumps |-> Append([k \in DOMAIN m.stumps |->
                            [m.stumps[k] EXCEPT !.left = @ * up, !.right = @ * up]], shrunk),
       improved |-> \E i \in DOMAIN rows : Leaf(shrunk, rows[i].x) # 0]

(* A round: the stump, times the learning rate (a fraction), goes from the *)
(* residuals to the model.                                                 *)
Boosted(m, rows, stump, rate) ==
  LET up == stump.unit * rate[2]
      shrunk == [stump EXCEPT !.left = @ * rate[1], !.right = @ * rate[1]]
  IN  [base |-> m.base * up, den |-> m.den * up,
       residual |-> [i \in DOMAIN rows |-> m.residual[i] * up - Leaf(shrunk, rows[i].x)],
       stumps |-> Append([k \in DOMAIN m.stumps |->
                            [m.stumps[k] EXCEPT !.left = @ * up, !.right = @ * up]], shrunk),
       improved |-> \E i \in DOMAIN rows : Leaf(shrunk, rows[i].x) # 0]

(* GBMTrainer.fit after 0, 1, ... rounds (of four rows at least): it stops *)
(* when there is no split, and after a round that changed nothing.         *)
Boosting(rows, rounds, rate) ==
  LET total == MapThenSumSet(LAMBDA i : rows[i].label, DOMAIN rows)
      start == [base |-> total, den |-> Len(rows), stumps |-> <<>>, improved |-> TRUE,
                residual |-> [i \in DOMAIN rows |-> Len(rows) * rows[i].label - total]]
      Round(m, stump) == IF ~m.improved \/ stump = None THEN m ELSE Boosted(m, rows, stump, rate)
      after[k \in 0..rounds] ==
        IF k = 0 THEN start ELSE LET m == after[k - 1] IN Round(m, BestStump(Splits(rows, m.residual)))
  IN  after

(* _score_stump_sequence without its base, over m.den. *)
StumpSum(m, x) == MapThenSumSet(LAMBDA k : Leaf(m.stumps[k], x), DOMAIN m.stumps)

-----------------------------------------------------------------------------
(* Rankers.                                                                *)

(* _make_pairwise_rows: a contrast per pair of a group whose labels differ,*)
(* the better row first.                                                   *)
PairwiseRows(group) ==
  LET Contrast(hi, lo) == [label |-> hi.label - lo.label,
                           x |-> [f \in DOMAIN hi.x |-> hi.x[f] - lo.x[f]]]
      Partners(i) == SelectSeq([j \in DOMAIN group |-> j],
                               LAMBDA j : i < j /\ group[i].label # group[j].label)
      With(i, j) == IF group[i].label > group[j].label THEN Contrast(group[i], group[j])
                                                       ELSE Contrast(group[j], group[i])
  IN  FlattenSeq([i \in DOMAIN group |->
                    LET js == Partners(i) IN [k \in DOMAIN js |-> With(i, js[k])]])

(* RankerTrainer.fit: a learner of the rows and a second of the contrasts, *)
(* in half as many rounds; the stumps of both are added up.                *)
RankerScore(pointwise, pairwise, x) ==
  (pointwise.base + StumpSum(pointwise, x)) * pairwise.den
    + StumpSum(pairwise, x) * pointwise.den

(* rank_group: a stable sort of the rows by score, best first.             *)
RankGroup(score) ==
  SortSeq([k \in DOMAIN score |-> k],
          LAMBDA i, j : score[i] > score[j] \/ (score[i] = score[j] /\ i < j))
=============================================================================

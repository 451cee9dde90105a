----------------------------- MODULE MCResearch -----------------------------
(***************************************************************************)
(* The research side in one run: the shadow tracker, factor governance,    *)
(* and the pure algorithms over all small inputs.  They share no state, so *)
(* a behaviour takes only one of them (`focus`) and the others stay at     *)
(* rest.                                                                   *)
(***************************************************************************)
EXTENDS ShadowTracking, FactorGovernance, TLC

Schema == INSTANCE ParameterSchema WITH Nothing <- None
Families == INSTANCE ModelFamilies

CONSTANTS v1, v2

VARIABLES
  focus,   \* which part runs
  job      \* the input of the algorithm under check, or <<>>

vars == <<shadowVars, factorVars, focus, job>>

MCDays == <<1, 2, 3, 5, 6, 8>>
MCMoves == {-1, 1}

Symmetry == Permutations({v1, v2})

Init ==
  /\ ShadowInit /\ FactorInit
  /\ focus \in {"shadow", "factors", "algorithms"}
  /\ job = <<>>

Pairs(n) == [1..n -> (1..3) \X (0..1)]

Whole(n) == [type |-> "integer", n |-> n]
Float(n) == [type |-> "number", n |-> n]
Bool(n) == [type |-> "boolean", n |-> n]
Text(n) == [type |-> "string", n |-> n]

\* What a caller may propose per key; None: not at all.
Proposals ==
  [window : {None, Whole(1), Whole(4), Bool(1), Float(1)}, weight : {None, Float(0), Whole(1), Bool(1), Text(1)},
   mode : {None, Text(1), Text(2), Text(9)}, leverage : {None, Whole(1)}]

Given(proposal) == [key \in {k \in DOMAIN proposal : proposal[k] # None} |-> proposal[key]]

MCSchema ==
  LET Spec4(type, required, least, most, choices) ==
        [type |-> type, required |-> required, minimum |-> least, maximum |-> most, choices |-> choices]
  IN  [window |-> Spec4("integer", TRUE, 1, 3, None), weight |-> Spec4("number", FALSE, 0, 1, None),
       mode |-> Spec4("string", FALSE, None, None, {Text(1), Text(2)})]

\* None is neither a set of parameters nor one of choices.
ASSUME NoneAssumption ==
  (\A proposal \in Proposals : Given(proposal) # None) /\ {Text(1), Text(2)} # None

RegimeRows == [ret : {-2, -1, 1, 2}, vol : 0..1] \cup {[ret |-> None, vol |-> 1]}

\* A group to rank: four rows by their first feature.
RankGroups ==
  {[i \in 1..4 |-> [label |-> label[i], x |-> <<first[i], second[i]>>]] :
     label \in [1..4 -> {0, 1, 3}],
     first \in {s \in [1..4 -> 0..2] : \A i \in 2..4 : s[i - 1] <= s[i]},
     second \in {<<0, 0, 0, 0>>, <<0, 1, 1, 0>>, <<1, 0, 2, 1>>}}

(* The rows of one group with labels that rise with their only feature, and*)
(* a trained ranker that puts the last but one before the last, against    *)
(* ranker.py:84, "at inference gives a monotone scalar that respects the   *)
(* pairwise ordering".                                                     *)
ASSUME RankerCanMisorder ==
  LET feature == <<0, 1, 3, 5>>
      label == <<0, 4, 5, 6>>
      group == [i \in 1..4 |-> [label |-> label[i], x |-> <<feature[i]>>]]
      pointwise == Families!Boosting(group, 4, <<1, 1>>)[4]
      pairwise == Families!Boosting(Families!PairwiseRows(group), 2, <<1, 1>>)[2]
  IN  Families!RankGroup([i \in 1..4 |-> Families!RankerScore(pointwise, pairwise, group[i].x)])
        # <<4, 3, 2, 1>>

GateFeatures == [ma5 : {1, 2, None}, ma20 : {1, None}, vol : {5, 11, None}, ret : {-4, 0, None}]

Ascending(n) == {s \in [1..n -> 1..3] : \A i \in 2..n : s[i - 1] <= s[i]}

Choose ==
  \/ \E n \in 1..3, returns \in [1..4 -> -3..2] : job' = <<"returns", SubSeq(returns, 1, n + 1)>>
  \/ \E n \in 1..4 : \E pairs \in Pairs(n) : job' = <<"pairs", pairs>>
  \/ \E train \in 1..3, valid \in 1..2, test \in 1..2, step \in 1..2,
        horizon \in 1..3, embargo \in 0..1 :
       job' = <<"split", [train |-> train, valid |-> valid, test |-> test, step |-> step],
                horizon, embargo>>
  \/ \E predicted, label \in [3..6 -> {-1, 1}], horizon \in 1..3,
        baseline \in [{"ic", "net_return"} -> {-1, 0, Missing}] :
       job' = <<"evaluate", predicted, label, horizon, baseline>>
  \/ \E n, k \in 1..3 : \E a \in Ascending(n), b \in Ascending(k) : job' = <<"drift", a, b>>
  \/ \E old, new \in Proposals : job' = <<"params", Given(old), Given(new)>>
  \/ \E n \in 1..4 : \E rows \in [1..n -> RegimeRows] : job' = <<"regime", rows>>
  \/ \E group \in RankGroups, rate \in {<<1, 1>>, <<1, 2>>} : job' = <<"rank", group, rate>>
  \/ \E f, g \in GateFeatures, scores \in [1..2 -> -1..1] : job' = <<"gated", f, g, scores>>

Next ==
  \/ /\ focus = "shadow" /\ ShadowNext
     /\ UNCHANGED <<factorVars, focus, job>>
  \/ /\ focus = "factors" /\ FactorNext
     /\ UNCHANGED <<shadowVars, focus, job>>
  \/ /\ focus = "algorithms" /\ job = <<>> /\ Choose
     /\ UNCHANGED <<shadowVars, factorVars, focus>>

Spec == Init /\ [][Next]_vars

DistinctScores(pairs) == \A i, j \in DOMAIN pairs : pairs[i][1] = pairs[j][1] => i = j

IsJob(kind) == job # <<>> /\ job[1] = kind

(* The running-peak drawdown is the worst product over any consecutive     *)
(* stretch of returns, so the order newest-first of the track record and   *)
(* oldest-first of the evaluator give the same number.                     *)
FallIsWorstStretch(returns) ==
  LET n == Len(returns)
      fall == MaxDrawdown(EquityCurve(returns))
      Stretch(i, j) == <<Growth(SubSeq(returns, i, j))[j - i + 1], Rest(n)[j - i + 1]>>
  IN  /\ SameRatio(fall, MaxDrawdown(EquityCurve(Reverse(returns))))
      /\ \A i, j \in 1..n : i <= j => ~Below(Stretch(i, j), fall)
      /\ \/ SameRatio(fall, <<1, 1>>)
         \/ \E i, j \in 1..n : i <= j /\ SameRatio(fall, Stretch(i, j))

(* So it is with the returns of the run.                                   *)
DrawdownIsWorstStretch == IsJob("returns") => FallIsWorstStretch(job[2])

(* The pooling loop computes the least-squares monotone fit of the labels; *)
(* a trained calibrator, whose loop also drops knots, never falls, and at  *)
(* each knot it has kept it holds the fit.                                 *)
CalibrationIsIsotonicFit ==
  IsJob("pairs") =>
    LET pairs == job[2]
        fitted == Calibrated(pairs)
        knots == TrainCalibrator(pairs)
    IN  /\ \A i \in DOMAIN pairs : SameRatio(fitted[i], IsotonicFit(pairs, i))
        /\ \A k \in 2..Len(knots) : ~Below(Mean(knots[k]), Mean(knots[k - 1]))
        /\ DistinctScores(pairs) =>
             \A k \in DOMAIN knots : \E i \in DOMAIN pairs :
               /\ ByScore(pairs)[i][1] = knots[k].x
               /\ SameRatio(Mean(knots[k]), IsotonicFit(pairs, i))

(* isotonic.py: "fits the best monotone step function mapping raw_score -> *)
(* empirical_positive_rate": on the data it was trained on, the calibrator *)
(* answers with the fit.                                                   *)
CalibratorReturnsFit ==
  IsJob("pairs") /\ DistinctScores(job[2]) =>
    \A i \in DOMAIN job[2] :
      SameRatio(Lookup(TrainCalibrator(job[2]), ByScore(job[2])[i][1]),
                IsotonicFit(job[2], i))

(* A regime classifier has ordered cut-points, so that no class is hidden  *)
(* by another, and at any volatility a lower return never gives a calmer   *)
(* regime; it is trained on the complete rows alone.                       *)
RegimeFollowsReturn ==
  IsJob("regime") =>
    LET t == Families!RegimeFit(job[2])
        complete == {k \in DOMAIN job[2] : job[2][k].ret # None}
        CodeAt(ret, vol) == Families!Code(Families!Classify(t, ret, vol))
    IN  /\ t = None <=> complete = {}
        /\ t # None =>
             /\ t.stress <= t.down /\ t.down <= t.up /\ t.low <= t.high
             /\ \A vol \in 0..2, ret \in -3..2 : CodeAt(ret, vol) >= CodeAt(ret + 1, vol)

(* The rounds of a boosted model on the rows it learns from: the stump of  *)
(* a round holds the means of the two parts its threshold really makes, and*)
(* no other cut of any feature fits better; what is left over of a label is*)
(* exactly what the model does not answer, and it never grows.             *)
RoundsFit(rows, rate, rounds) ==
  LET after == Families!Boosting(rows, rounds, rate)
      all == DOMAIN rows
      Over(f, cut) == {i \in all : 2 * rows[i].x[f] > cut}
      Cuts(f) == {c \in -4..4 : Over(f, c) \notin {{}, all}}
      Left(m, S) == MapThenSumSet(LAMBDA i : m.residual[i], S)
      Gain(m, S) == Left(m, S) * Left(m, S) * Cardinality(all \ S)
                      + Left(m, all \ S) * Left(m, all \ S) * Cardinality(S)
      Size(S) == Cardinality(S) * Cardinality(all \ S)
      Error(m, up) == MapThenSumSet(LAMBDA i : m.residual[i] * up * m.residual[i] * up, all)
      Best(m, s) ==
        LET over == Over(s.feature, s.cut) IN
        /\ s.right * Cardinality(over) = Left(m, over) * s.unit
        /\ s.left * Cardinality(all \ over) = Left(m, all \ over) * s.unit
        /\ \A f \in DOMAIN rows[1].x : \A c \in Cuts(f) :
             Gain(m, Over(f, c)) * Size(over) <= Gain(m, over) * Size(Over(f, c))
  IN  /\ \A k \in 0..rounds, i \in all :
           after[k].residual[i] = after[k].den * rows[i].label - after[k].base
                                    - Families!StumpSum(after[k], rows[i].x)
      /\ \A k \in 1..rounds :
           LET s == Families!BestStump(Families!Splits(rows, after[k - 1].residual))
           IN  IF s = None THEN \A f \in DOMAIN rows[1].x : Cuts(f) = {}
               ELSE /\ Best(after[k - 1], s)
                    /\ Error(after[k], 1) <= Error(after[k - 1], after[k].den \div after[k - 1].den)

(* A ranker learns the labels of a group and the contrasts of its pairs,   *)
(* one of every pair with different labels, the better row first; if the   *)
(* labels rise with the only feature that varies, what it learns of the    *)
(* labels keeps them in order.  (The sum of both need not.)                *)
BoostingFits ==
  IsJob("rank") =>
    LET group == job[2]
        contrasts == Families!PairwiseRows(group)
        pairs == {p \in (1..4) \X (1..4) : group[p[1]].label > group[p[2]].label}
        model == Families!Boosting(group, 2, job[3])[2]
        score == [i \in 1..4 |-> Families!StumpSum(model, group[i].x)]
    IN  /\ RoundsFit(group, job[3], 2)
        /\ Len(contrasts) >= 4 => RoundsFit(contrasts, job[3], 1)
        /\ Len(contrasts) = Cardinality(pairs) /\ \A k \in DOMAIN contrasts : contrasts[k].label > 0
        /\ (\A i \in 1..4 : group[i].x[2] = 0) /\ (\A i \in 2..4 : group[i - 1].label <= group[i].label)
             => \A i \in 2..4 : score[i - 1] <= score[i]

Gated(f) == <<Families!TrendLong(f), Families!BrokenDown(f)>>

\* Of the two rows of the job, those the k-th rule lets through.
EligibleRows(k) == {i \in 1..2 : Gated(job[i + 1])[k]}

\* The rows of the job, the best first by the model behind the k-th rule.
PickOrder(k) ==
  LET rule == [f \in {job[2], job[3]} |-> Gated(f)[k]]
      inner == [f \in {job[2], job[3]} |-> IF f = job[2] THEN job[4][1] ELSE job[4][2]]
  IN  Families!RankGroup([i \in 1..2 |-> Families!GatedScore(rule, inner, job[i + 1])])

(* A row that the rule vetoes, and so one with a missing feature, is none  *)
(* of the training rows; and as long as the model behind the rule gives    *)
(* positive scores only (a logistic one does), no vetoed name is picked    *)
(* before an eligible one.                                                 *)
VetoHolds ==
  IsJob("gated") =>
    \A k \in 1..2 :
      LET rows == <<job[2], job[3]>>
          kept == Families!GatedRows([f \in Range(rows) |-> Gated(f)[k]], rows)
      IN  /\ \A j \in DOMAIN kept : IF k = 1 THEN kept[j].ma20 # None /\ kept[j].vol # 11
                                    ELSE kept[j].ret = -4
          /\ (\A i \in 1..2 : job[4][i] > 0) /\ EligibleRows(k) # {}
               => PickOrder(k)[1] \in EligibleRows(k)

(* rule_gated.py:8, "Non-eligible names get a neutral / negative score, so *)
(* a top-K selection never picks a name the rule vetoed", whatever model is*)
(* behind the rule ("the GBM is any Model").                               *)
VetoedIsNeverPicked ==
  IsJob("gated") =>
    \A k \in 1..2 : EligibleRows(k) # {} => PickOrder(k)[1] \in EligibleRows(k)

(* The models answer by what they learned from.                            *)
ModelsAreMonotone ==
  CalibrationIsIsotonicFit /\ RegimeFollowsReturn /\ BoostingFits /\ VetoHolds

(* Parameters the whitelist lets through are declared, complete and in     *)
(* their ranges, and an integer is no boolean; the diff of two sets turns  *)
(* the one into the other, and is empty only for sets that JSON, and so    *)
(* the content hash, tells apart at most by the type of a number.          *)
ChangesAreExplained ==
  IsJob("params") =>
    LET old == job[2]
        new == job[3]
        diff == Schema!ChangeDiff(old, new)
        Line(key) == {d \in diff : d.key = key}
        after == (DOMAIN old \cup {d.key : d \in diff}) \ {d.key : d \in {e \in diff : e.sign = "-"}}
    IN  /\ Schema!Accepts(new, MCSchema) =>
             /\ DOMAIN new \subseteq DOMAIN MCSchema
             /\ "window" \in DOMAIN new /\ new.window \in {Whole(n) : n \in 1..3}
             /\ "weight" \in DOMAIN new => new.weight.type # "string" /\ new.weight.n \in 0..1
             /\ "mode" \in DOMAIN new => new.mode \in {Text(1), Text(2)}
        /\ after = DOMAIN new
        /\ \A key \in DOMAIN new : IF Line(key) = {} THEN new[key].n = old[key].n
                                   ELSE \A d \in Line(key) : d.to = new[key]
        /\ Schema!SameContentHash(old, new) => diff = {}
        /\ (diff = {} /\ \A key \in DOMAIN new : new[key].type = old[key].type)
             => Schema!SameContentHash(old, new)

\* A prediction of walk_forward and the rows behind it.
LooksBack(days, p, size, horizon) ==
  LET test == WindowBounds(p.window, size.train, size.test).test
      first == p.row.at - horizon + 1
  IN  \A t \in p.trained :
        /\ t.day < test.first /\ t.day < p.row.day
        /\ first >= 1 /\ In(days[first], test) => t.at + horizon <= p.row.at

(* No label of a kept training row, whatever the horizon, ends inside the  *)
(* validation window or after it, and no row is dropped for less (horizons *)
(* counted in days, as purge_and_embargo does).  walk_forward predicts a   *)
(* row with a model of earlier rows, none of them in the test window; once *)
(* as many bars of that window as the horizon are behind, no label of      *)
(* theirs ends after the row (before that some do: see OutOfSample).  A row*)
(* is predicted once, unless the windows overlap by choice.                *)
TrainingDoesNotSeeTest ==
  IsJob("split") =>
    LET size == job[2]
        horizon == job[3]
        walk == OOSPredictions(MCDays, {1, 3, 5, 6}, horizon, size, 1, 8) IN
    /\ \A split \in Splits(size, 1, 9) :
         LET kept == PurgeAndEmbargo(1..9, split.train, split.valid, horizon, job[4]) IN
         /\ \A d \in kept.train : \A e \in d..d + horizon : e < split.valid.first
         /\ \A d \in 1..9 : In(d, split.train) /\ d \notin kept.train =>
              \E e \in d..d + horizon : In(e, split.valid) \/ e > split.valid.last
         /\ kept.train \cap kept.valid = {} /\ split.test.last <= 9
    /\ \A p \in walk : LooksBack(MCDays, p, size, horizon)
    /\ size.step >= size.test => \A p, q \in walk : p.row = q.row => p = q

(* walkforward.py:3, "for each test window, train on the preceding train   *)
(* window, predict the test window, and collect out-of-sample predictions":*)
(* no training label ends after the day of the row that is predicted.      *)
OutOfSample ==
  IsJob("split") =>
    \A p \in OOSPredictions(MCDays, {1, 3, 5, 6}, job[3], job[2], 1, 8) :
      \A t \in p.trained : t.labelled => MCDays[t.at + job[3]] <= p.row.day

(* A strategy whose evaluation ran no fold at all (too few rows, a horizon *)
(* of one) scores 0 on both gate metrics, and so does not pass the gate    *)
(* against baselines that earn nothing or better.                          *)
GateNeedsFolds ==
  IsJob("evaluate") =>
    LET baselines == [b \in {"hold"} |-> job[5]]
        folds == Folds(MCDays, 2, job[4], job[4], {"f", "g"},
                       {[id |-> f, state |-> "ACTIVE", from |-> 1] : f \in {"f", "g"}}, {})
        metrics == GateMetrics(folds, job[2], job[3], 0) IN
    GatePasses(metrics, baselines, {"ic", "net_return"})
      /\ (\E key \in {"ic", "net_return"} : job[5][key] \notin {-1, Missing}) => folds # {}

(* The one-pass KS distance is never below the supremum it stands for, and *)
(* is equal to it when no sample repeats a value; a histogram loses none   *)
(* of the values.                                                          *)
DistanceIsSupremum(a, b) ==
  /\ KSWalk(a, b) >= KSSupremum(a, b)
  /\ IsInjective(a) /\ IsInjective(b) => KSWalk(a, b) = KSSupremum(a, b)

BinsAddUp(values, edges) ==
  LET counts == Histogram(values, edges)
      total[k \in 0..Len(edges) - 1] == IF k = 0 THEN 0 ELSE total[k - 1] + counts[k]
  IN  total[Len(edges) - 1] = Len(values)

(* So it is with the samples of the run.                                   *)
DriftIsNotMissed ==
  IsJob("drift") => DistanceIsSupremum(job[2], job[3]) /\ BinsAddUp(job[2], <<1, 2, 3>>)

(* The statistics that verdicts are taken on are the ones they stand for.  *)
StatisticsAreSound == DrawdownIsWorstStretch /\ DriftIsNotMissed
=============================================================================

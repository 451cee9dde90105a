------------------------- MODULE EvaluationMetrics --------------------------
(***************************************************************************)
(* The statistics decisions are taken on: rank correlation, drawdown,      *)
(* isotonic calibration and the baseline gate (packages/evaluation,        *)
(* models/isotonic.py) and the drift statistics (drift/metrics.py).        *)
(*                                                                         *)
(* Floats are modelled by exact integers and fractions: a return is an     *)
(* integer number of tenths, a mean is a block [sum, weight], a ratio is a *)
(* pair <<numerator, denominator>> compared by cross-multiplication.       *)
(***************************************************************************)
EXTENDS Integers, Sequences, FiniteSets, SequencesExt, FiniteSetsExt

-----------------------------------------------------------------------------
(* Spearman rank correlation.                                              *)

(* Twice the average rank: ties share the mean of the ranks they span.     *)
RankTwice(xs) ==
  [i \in DOMAIN xs |-> 2 * Cardinality({j \in DOMAIN xs : xs[j] < xs[i]})
                         + Cardinality({j \in DOMAIN xs : xs[j] = xs[i]}) + 1]

Centred(xs) == [i \in DOMAIN xs |-> RankTwice(xs)[i] - (Cardinality(DOMAIN xs) + 1)]

Dot(a, b) == MapThenSumSet(LAMBDA i : a[i] * b[i], DOMAIN a)

(* information_coefficient(xs, ys) < percent/100, for percent > 0.  Fewer  *)
(* than two pairs, or no variance, count as a coefficient of 0.            *)
ICBelow(xs, ys, percent) ==
  LET x == Centred(xs)
      y == Centred(ys)
      cov == Dot(x, y)
  IN  cov <= 0 \/ 10000 * cov * cov < percent * percent * Dot(x, x) * Dot(y, y)

-----------------------------------------------------------------------------
(* Drawdown.                                                               *)

Tenths == 10

Growth(returns) ==
  LET product[k \in 0..Len(returns)] ==
        IF k = 0 THEN 1 ELSE product[k - 1] * (Tenths + returns[k])
  IN  product

\* The growth of as many days without a return.
Rest(n) ==
  LET power[k \in 0..n] == IF k = 0 THEN 1 ELSE power[k - 1] * Tenths
  IN  power

(* The equity curve 1, 1(1+r1), 1(1+r1)(1+r2), ... scaled to integers.     *)
EquityCurve(returns) ==
  LET n == Len(returns)
  IN  [k \in 1..n + 1 |-> Growth(returns)[k - 1] * Rest(n)[n + 1 - k]]

SameRatio(a, b) == a[1] * b[2] = b[1] * a[2]
Below(a, b)     == a[1] * b[2] < b[1] * a[2]

\* Mutant of MaxDrawdown: the fall is measured from the start, not the peak.
MaxDrawdown_FromStart(equity) ==
  LET Step(worst, v) == IF Below(<<v, equity[1]>>, worst) THEN <<v, equity[1]>> ELSE worst
  IN  FoldLeft(Step, <<1, 1>>, equity)

(* One turn of max_drawdown's loop.                                        *)
Fall(acc, v) ==
  LET peak == IF v > acc.peak THEN v ELSE acc.peak
  IN  [peak  |-> peak,
       worst |-> IF Below(<<v, peak>>, acc.worst) THEN <<v, peak>> ELSE acc.worst]

(* max_drawdown: the lowest value / running peak met along the curve.      *)
MaxDrawdown(equity) ==
  LET walk[k \in 0..Len(equity)] ==
        IF k = 0 THEN [peak |-> 0, worst |-> <<1, 1>>] ELSE Fall(walk[k - 1], equity[k])
  IN  walk[Len(equity)].worst

-----------------------------------------------------------------------------
(* Pool adjacent violators.  A block is [x, sum, weight]: the raw score it *)
(* answers for, and its mean as a fraction.                                *)

Mean(block) == <<block.sum, block.weight>>

Pool(a, b) == [x |-> b.x, sum |-> a.sum + b.sum, weight |-> a.weight + b.weight]

\* Mutant of PoolStep: after a merge the scan goes on, the block before is not looked at again.
PoolStep_NoStepBack(st) ==
  IF st.i >= Len(st.blocks) THEN st
  ELSE LET a == st.blocks[st.i]
           b == st.blocks[st.i + 1]
       IN  IF Below(Mean(b), Mean(a))
             THEN [st EXCEPT !.blocks = ReplaceAt(RemoveAt(@, st.i + 1), st.i, Pool(a, b))]
             ELSE [st EXCEPT !.i = @ + 1]

(* One turn of the loop: merge a block with a smaller successor and step   *)
(* back, or move on.                                                       *)
PoolStep(st) ==
  IF st.i >= Len(st.blocks) THEN st
  ELSE LET a == st.blocks[st.i]
           b == st.blocks[st.i + 1]
       IN  IF Below(Mean(b), Mean(a))
             THEN [blocks |-> ReplaceAt(RemoveAt(st.blocks, st.i + 1), st.i, Pool(a, b)),
                   i      |-> Max({1, st.i - 1})]
             ELSE [st EXCEPT !.i = @ + 1]

(* Each merge undoes at most one move, so 3n turns end the loop.           *)
PoolAdjacent(blocks) ==
  FoldLeft(LAMBDA st, turn : PoolStep(st), [blocks |-> blocks, i |-> 1],
           [turn \in 1..3 * Len(blocks) |-> turn]).blocks

(* Pairs <<score, label>> ordered by score, equal scores as they came.     *)
ByScore(pairs) ==
  LET order == SetToSortSeq(DOMAIN pairs, LAMBDA i, j :
                 pairs[i][1] < pairs[j][1] \/ (pairs[i][1] = pairs[j][1] /\ i < j))
  IN  [k \in DOMAIN order |-> pairs[order[k]]]

Single(pair) == [x |-> pair[1], sum |-> pair[2], weight |-> 1]

(* isotonic_calibrate: every pair gets the mean of its block.              *)
Calibrated(pairs) ==
  LET blocks == PoolAdjacent([k \in DOMAIN pairs |-> Single(ByScore(pairs)[k])])
  IN  FlattenSeq([b \in DOMAIN blocks |-> [k \in 1..blocks[b].weight |-> Mean(blocks[b])]])

(* IsotonicTrainer.fit: equal scores are averaged first, then pooled; the  *)
(* merged block keeps the score of its right end as its knot.              *)
TrainCalibrator(pairs) ==
  LET At(x) == {k \in DOMAIN pairs : pairs[k][1] = x}
      scores == SetToSortSeq({pairs[k][1] : k \in DOMAIN pairs}, <)
  IN  PoolAdjacent([s \in DOMAIN scores |->
        [x |-> scores[s], weight |-> Cardinality(At(scores[s])),
         sum |-> MapThenSumSet(LAMBDA k : pairs[k][2], At(scores[s]))]])

(* IsotonicCalibrator.map: the last knot at or below the raw score, or the *)
(* first one.                                                              *)
Lookup(knots, raw) ==
  LET reached == {k \in DOMAIN knots : knots[k].x <= raw}
  IN  Mean(knots[IF reached = {} THEN 1 ELSE Max(reached)])

(* The least-squares monotone fit, by its min-max formula.                 *)
IsotonicFit(pairs, i) ==
  LET s == ByScore(pairs)
      Stretch(j, k) == <<MapThenSumSet(LAMBDA q : s[q][2], j..k), k - j + 1>>
      Least(S)    == CHOOSE a \in S : \A b \in S : ~Below(b, a)
      Greatest(S) == CHOOSE a \in S : \A b \in S : ~Below(a, b)
  IN  Greatest({Least({Stretch(j, k) : k \in i..Len(s)}) : j \in 1..i})

-----------------------------------------------------------------------------
(* promotion.beats_all_baselines.  An absent metric is minus infinity, so  *)
(* one absent on both sides is a loss.                                     *)
Missing == -1000

\* Mutant of Losses: a tie is no loss.
Losses_TiePasses(candidate, baselines, keys) ==
  {bk \in (DOMAIN baselines) \X keys : candidate[bk[2]] < baselines[bk[1]][bk[2]]}

Losses(candidate, baselines, keys) ==
  {bk \in (DOMAIN baselines) \X keys : candidate[bk[2]] <= baselines[bk[1]][bk[2]]}

GatePasses(candidate, baselines, keys) == Losses(candidate, baselines, keys) = {}

-----------------------------------------------------------------------------
(* drift/metrics.py.                                                       *)

DriftLevels == <<"ok", "watch", "alert", "halt">>

(* Every *_level function: how many of its three limits are reached.       *)
LevelOf(value, limits) == 1 + Cardinality({k \in DOMAIN limits : value >= limits[k]})

(* The share of values in each right-open bin; what lies in no bin, below  *)
(* as well as above, is counted in the last.                               *)
Histogram(values, edges) ==
  LET bins == 1..Len(edges) - 1
      In(k) == {i \in DOMAIN values : edges[k] <= values[i] /\ values[i] < edges[k + 1]}
      lost == DOMAIN values \ UNION {In(k) : k \in bins}
  IN  [k \in bins |-> Cardinality(In(k)) + IF k = Len(edges) - 1 THEN Cardinality(lost) ELSE 0]

\* Mutant of KSWalk: the distance is not updated when both samples advance.
KSWalk_SkipsTies(a, b) ==
  LET Step(st, turn) ==
        IF st.i >= Len(a) \/ st.j >= Len(b) THEN st
        ELSE LET i == st.i + IF a[st.i + 1] <= b[st.j + 1] THEN 1 ELSE 0
                 j == st.j + IF b[st.j + 1] <= a[st.i + 1] THEN 1 ELSE 0
                 gap == i * Len(b) - j * Len(a)
             IN  [i |-> i, j |-> j,
                  d |-> IF i > st.i /\ j > st.j THEN st.d ELSE Max({st.d, gap, -gap})]
  IN  FoldLeft(Step, [i |-> 0, j |-> 0, d |-> 0], a \o b).d

(* One turn of ks_stat's loop over both sorted samples.  The distance is   *)
(* kept scaled by Len(a) * Len(b).                                         *)
Advance(a, b, st) ==
  IF st.i >= Len(a) \/ st.j >= Len(b) THEN st
  ELSE LET i == st.i + IF a[st.i + 1] <= b[st.j + 1] THEN 1 ELSE 0
           j == st.j + IF b[st.j + 1] <= a[st.i + 1] THEN 1 ELSE 0
           gap == i * Len(b) - j * Len(a)
       IN  [i |-> i, j |-> j, d |-> Max({st.d, gap, -gap})]

(* ks_stat: every turn advances, so as many turns as there are values.     *)
KSWalk(a, b) ==
  LET walk[turn \in 0..Len(a) + Len(b)] ==
        IF turn = 0 THEN [i |-> 0, j |-> 0, d |-> 0] ELSE Advance(a, b, walk[turn - 1])
  IN  walk[Len(a) + Len(b)].d

(* sup |F_A - F_B|, scaled alike.                                          *)
KSSupremum(a, b) ==
  LET AtMost(s, v) == Cardinality({i \in DOMAIN s : s[i] <= v})
      Gap(v) == AtMost(a, v) * Len(b) - AtMost(b, v) * Len(a)
  IN  Max(UNION {{Gap(v), -Gap(v)} : v \in Range(a) \cup Range(b)})

(* DriftReport.worst_level over the levels of its parts (1..4). *)
WorstLevel(levels) == Max({1} \cup levels)

(* ic_trend_level: the mean of the last `window` coefficients (in units of *)
(* which `deterioration` is -2) against 0, the limit, and twice the limit. *)
ICTrendLevel(ics, window, deterioration) ==
  IF Len(ics) < window THEN 1
  ELSE LET total == MapThenSumSet(LAMBDA k : ics[k], Len(ics) - window + 1..Len(ics))
       IN  1 + Cardinality({limit \in {0, deterioration, 2 * deterioration} :
                              total < limit * window})
=============================================================================

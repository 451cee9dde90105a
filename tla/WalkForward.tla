---------------------------- MODULE WalkForward -----------------------------
(***************************************************************************)
(* Who is trained on what and tested on what: the date splits of           *)
(* datasets/splits.py, the rolling windows of training/walkforward.py and  *)
(* the nested folds of strategy_governance/evaluator.py.                   *)
(*                                                                         *)
(* A day is an integer; a window is a record [first, last] of two days,    *)
(* both inside.  Training itself is left out: what a model predicts is an  *)
(* input.                                                                  *)
(***************************************************************************)
EXTENDS EvaluationMetrics

Window(first, length) == [first |-> first, last |-> first + length - 1]
In(day, w) == w.first <= day /\ day <= w.last

-----------------------------------------------------------------------------
(* datasets/splits.py                                                      *)

\* Mutant of PurgeAndEmbargo: a label that ends on the first validation day is kept.
PurgeAndEmbargo_OffByOne(rows, train, valid, horizon, embargo) ==
  [train |-> {d \in rows : In(d, train) /\ d + horizon <= valid.first},
   valid |-> {d \in rows : ~In(d, train) /\ In(d, valid) /\ d >= valid.first + embargo}]

(* purge_and_embargo: a training row goes when its label reaches the       *)
(* validation window, counted in days although a label counts bars.  The   *)
(* embargo takes rows from the start of the validation window (the module's*)
(* own words have it that it takes rows with labels in the test window).   *)
PurgeAndEmbargo(rows, train, valid, horizon, embargo) ==
  [train |-> {d \in rows : In(d, train) /\ d + horizon < valid.first},
   valid |-> {d \in rows : ~In(d, train) /\ In(d, valid) /\ d >= valid.first + embargo}]

(* WalkForwardSplitter.splits: `size` is the splitter's train, valid, test *)
(* and step days (step > 0, or the loop does not end).                     *)
Splits(size, first, last) ==
  LET At(k) == LET start == first + k * size.step
               IN  [train |-> Window(start, size.train),
                    valid |-> Window(start + size.train, size.valid),
                    test  |-> Window(start + size.train + size.valid, size.test)]
  IN  {At(k) : k \in {j \in 0..last - first + 1 : At(j).test.last <= last}}

-----------------------------------------------------------------------------
(* datasets/builder.py and labels/forward_return.py over the sorted days   *)
(* of one instrument: a row per day in the window; its label looks         *)
(* `horizon` bars ahead, and is None when there are not that many.         *)
Rows(days, window, horizon) ==
  {[at |-> i, day |-> days[i], labelled |-> i + horizon <= Len(days)] :
     i \in {j \in DOMAIN days : In(days[j], window)}}

\* Mutant of WindowBounds: the training window ends on the first test day.
WindowBounds_Touching(anchor, trainDays, testDays) ==
  LET test == Window(anchor - testDays + 1, testDays)
  IN  [test |-> test, train |-> Window(test.first - trainDays + 1, trainDays)]

(* _window_bounds: the windows that end at `anchor`. *)
WindowBounds(anchor, trainDays, testDays) ==
  LET test == Window(anchor - testDays + 1, testDays)
  IN  [test |-> test, train |-> Window(test.first - trainDays, trainDays)]

(* walk_forward: for every anchor, what the model trained on the window    *)
(* before the test window predicts.  A window without training rows is     *)
(* skipped, and so is a test row without label or with a feature missing   *)
(* (its day is not in `usable`).                                           *)
OOSPredictions(days, usable, horizon, size, start, end) ==
  LET anchors == {a \in start + size.train + size.test - 1..end :
                    (a - start - size.train - size.test + 1) % size.step = 0}
      Of(a) == LET w == WindowBounds(a, size.train, size.test)
                   trained == Rows(days, w.train, horizon)
               IN  {[row |-> r, window |-> a, trained |-> trained] :
                      r \in {t \in Rows(days, w.test, horizon) :
                               trained # {} /\ t.labelled /\ t.day \in usable}}
  IN  UNION {Of(a) : a \in anchors}

-----------------------------------------------------------------------------
(* strategy_governance/evaluator.py over n dataset rows, ordered by day.   *)

(* policy.filter_available_factors *)
AvailableAt(factors, asOf) ==
  {f \in factors : f.state = "ACTIVE" /\ f.from <= asOf}

(* The training-set sizes the loop visits: from trainMin on, every step    *)
(* rows, while a whole test window follows.  A test window of one row      *)
(* ends the loop.                                                          *)
FoldSizes(n, trainMin, horizon, step) ==
  {T \in trainMin..n : horizon >= 2 /\ T + horizon <= n /\ (T - trainMin) % step = 0}

\* Mutant of FoldFeatures: availability is taken at the end of the test window.
FoldFeatures_AtTestEnd(days, T, horizon, features, factors) ==
  features \cap {f.id : f \in AvailableAt(factors, days[T + horizon])}

(* The features a fold may train on: some active version of the factor was *)
(* available on the last training day.                                     *)
FoldFeatures(days, T, horizon, features, factors) ==
  features \cap {f.id : f \in AvailableAt(factors, days[T])}

(* The folds that run: two usable features at least, and a training that   *)
(* does not raise (T is not in `failed`).                                  *)
Folds(days, trainMin, horizon, step, features, factors, failed) ==
  {[train |-> 1..T, test |-> T + 1..T + horizon, end |-> days[T],
    features |-> FoldFeatures(days, T, horizon, features, factors)] :
     T \in {S \in FoldSizes(Len(days), trainMin, horizon, step) \ failed :
              Cardinality(FoldFeatures(days, S, horizon, features, factors)) >= 2}}

(* What a fold earns, times its number of rows: with the sign of the mean  *)
(* prediction, the sum of the labels, a missing label counting as 0, less  *)
(* the cost of a trade.                                                    *)
FoldReturn(fold, predicted, label, cost) ==
  LET Total(f) == MapThenSumSet(LAMBDA r : f[r], fold.test)
      up == Total(predicted)
      direction == IF up > 0 THEN 1 ELSE IF up < 0 THEN -1 ELSE 0
  IN  direction * Total(label) - cost * Cardinality(fold.test)

Sign(n) == IF n > 0 THEN 1 ELSE IF n < 0 THEN -1 ELSE 0

ProductOver(S, f(_)) == MapThenFoldSet(LAMBDA a, b : a * b, 1, f, LAMBDA T : CHOOSE x \in T : TRUE, S)

(* The two metrics the baseline gate reads, by their sign: the pooled rank *)
(* correlation of all fold predictions, and the compounded return of the   *)
(* folds.  Without folds both are 0.                                       *)
GateMetrics(folds, predicted, label, cost) ==
  LET rows == UNION {{fold} \X fold.test : fold \in folds}
      Pooled(f) == Centred([r \in rows |-> f[r[2]]])
      grown == ProductOver(folds, LAMBDA a : Tenths * Cardinality(a.test)
                                             + FoldReturn(a, predicted, label, cost))
      start == ProductOver(folds, LAMBDA a : Tenths * Cardinality(a.test))
  IN  [ic |-> Sign(Dot(Pooled(predicted), Pooled(label))), net_return |-> Sign(grown - start)]
=============================================================================

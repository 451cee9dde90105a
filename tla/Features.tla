------------------------------ MODULE Features ------------------------------
(***************************************************************************)
(* The feature library (packages/features) and the forward-return label.   *)
(*                                                                         *)
(* Bars are records [date, available, low, high, close, volume] of small   *)
(* integers; a value is a fraction <<n, d>>, or Missing for None.  The     *)
(* windows of 5, 14, 20, 60 and 252 days are the parameter n.  Roots and   *)
(* logarithms are left out: a volatility is its variance, a skewness its   *)
(* sign, the logarithm of a market value the market value.                 *)
(***************************************************************************)
EXTENDS Integers, Sequences, FiniteSetsExt

Missing == <<>>

Ratio(n, d) == IF d = 0 THEN Missing ELSE <<n, d>>

Back(bars, k) == bars[Len(bars) + 1 - k]             \* bars[-k]
Recent(bars, n) == SubSeq(bars, Max({1, Len(bars) + 1 - n}), Len(bars))

Total(f(_), S) == MapThenSumSet(f, S)
Change(bars, i) == bars[i].close - bars[i - 1].close

Largest(values) == Max(values)
Abs(x) == IF x < 0 THEN -x ELSE x

-----------------------------------------------------------------------------
(* basics.py.                                                              *)

Ret(bars, n) ==
  IF Len(bars) < n + 1 THEN Missing
  ELSE Ratio(Back(bars, 1).close - Back(bars, n + 1).close, Back(bars, n + 1).close)

\* The returns of a window over one denominator, by the index of their bar.
Denominator(bars, K) == FoldSet(LAMBDA i, d : d * bars[i - 1].close, 1, K)
Return(bars, K, i) == Change(bars, i) * (Denominator(bars, K) \div bars[i - 1].close)

\* The bars after the first that have a return.
WithBase(w) == {i \in 2..Len(w) : w[i - 1].close # 0}

Square(x) == x * x
Cube(x) == x * x * x
Sign(x) == IF x > 0 THEN 1 ELSE IF x < 0 THEN -1 ELSE 0

(* The sample variance of the returns that have a base.                    *)
Vol(bars, n) ==
  LET Variance(w, K, m) ==
        <<m * Total(LAMBDA i : Square(Return(w, K, i)), K) - Square(Total(LAMBDA i : Return(w, K, i), K)),
          m * (m - 1) * Square(Denominator(w, K))>>
      Of(w, K) == IF Cardinality(K) < 2 THEN Missing ELSE Variance(w, K, Cardinality(K))
  IN  IF Len(bars) < n + 1 THEN Missing ELSE Of(Recent(bars, n + 1), WithBase(Recent(bars, n + 1)))

(* The return up to `skip` days ago.                                       *)
Momentum(bars, n, skip) ==
  IF Len(bars) < n + 1 THEN Missing
  ELSE Ratio(Back(bars, skip + 1).close - Back(bars, n + 1).close, Back(bars, n + 1).close)

DollarVolume(bars, n) ==
  LET w == Recent(bars, n)
  IN  IF Len(bars) < n THEN Missing
      ELSE <<Total(LAMBDA i : w[i].close * w[i].volume, DOMAIN w), n>>

-----------------------------------------------------------------------------
(* technical.py.  rsi and atr count from the start of the window they are  *)
(* given, the others from its end.                                         *)

Rsi(bars, n) ==
  LET gain == Total(LAMBDA i : Largest({Change(bars, i), 0}), 2..n + 1)
      loss == Total(LAMBDA i : Largest({-Change(bars, i), 0}), 2..n + 1)
  IN  IF Len(bars) < n + 1 THEN Missing
      ELSE IF loss = 0 THEN <<100, 1>> ELSE <<100 * gain, gain + loss>>

\* Mutant of Atr: the true range is not put in terms of the price.
Atr_Absolute(bars, n) ==
  IF Len(bars) < n + 1 THEN Missing
  ELSE <<Total(LAMBDA i : bars[i].high - bars[i].low, 2..n + 1), n>>

Atr(bars, n) ==
  LET TrueRange(i) == Largest({bars[i].high - bars[i].low, Abs(bars[i].high - bars[i - 1].close),
                               Abs(bars[i].low - bars[i - 1].close)})
  IN  IF Len(bars) < n + 1 THEN Missing
      ELSE Ratio(Total(TrueRange, 2..n + 1), n * Back(bars, 1).close)

VolumeRank(bars) ==
  IF Len(bars) < 2 THEN Missing
  ELSE <<Cardinality({i \in DOMAIN bars : bars[i].volume < Back(bars, 1).volume}), Len(bars) - 1>>

MaDeviation(bars, n) ==
  LET w == Recent(bars, n)
      sum == Total(LAMBDA i : w[i].close, DOMAIN w)
  IN  IF Len(bars) < n THEN Missing ELSE Ratio(n * Back(w, 1).close - sum, sum)

\* Without a turnover of its own a bar's is volume times close.
TurnoverRatio(bars, n) ==
  LET w == Recent(bars, n + 1)
      Turnover(i) == w[i].volume * w[i].close
  IN  IF Len(bars) < n + 1 THEN Missing ELSE Ratio(n * Turnover(n + 1), Total(Turnover, 1..n))

(* The largest fall from the highest close so far.                         *)
MaxDrawdown(bars, n) ==
  LET w == Recent(bars, n)
      Peak(j) == Largest({w[i].close : i \in 1..j})
      falls == {<<Peak(j) - w[j].close, Peak(j)>> : j \in {j \in DOMAIN w : Peak(j) > 0}}
  IN  IF Len(bars) < 2 THEN Missing
      ELSE IF falls = {} THEN <<0, 1>>
      ELSE CHOOSE f \in falls : \A g \in falls : f[1] * g[2] >= g[1] * f[2]

(* The sign of the third moment; returns without a base count as 0.        *)
Skew(bars, n) ==
  LET Third(w, K, sum) ==
        Total(LAMBDA i : Cube(n * (IF i \in K THEN Return(w, K, i) ELSE 0) - sum), 2..n + 1)
      Of(w, K) == <<Sign(Third(w, K, Total(LAMBDA i : Return(w, K, i), K))), 1>>
  IN  IF Len(bars) < n + 1 \/ n < 2 THEN Missing
      ELSE Of(Recent(bars, n + 1), WithBase(Recent(bars, n + 1)))

HighFraction(bars) ==
  IF Len(bars) < 2 THEN Missing
  ELSE Ratio(Back(bars, 1).close, Largest({bars[i].high : i \in DOMAIN bars}))

WilliamsR(bars, n) ==
  LET w == Recent(bars, n + 1)
      highest == Largest({w[i].high : i \in DOMAIN w})
      lowest == Min({w[i].low : i \in DOMAIN w})
  IN  IF Len(bars) < n + 1 THEN Missing
      ELSE IF highest = lowest THEN <<-50, 1>>
      ELSE <<-100 * (highest - Back(w, 1).close), highest - lowest>>

-----------------------------------------------------------------------------
(* fundamental_features.py, of the last close and the facts known: a       *)
(* function from the names of the known facts to integers.                 *)

Per(facts, name) == name \in DOMAIN facts /\ facts[name] > 0

PriceTo(facts, name, close) == IF Per(facts, name) THEN <<close, facts[name]>> ELSE Missing

YieldOf(facts, name, close) ==
  IF name \in DOMAIN facts THEN Ratio(facts[name], close) ELSE Missing

MarketCap(facts, close) ==
  IF Per(facts, "shares") /\ close > 0 THEN <<close * facts["shares"], 1>> ELSE Missing

\* In percent if the provider has it, else from income and book value.
Roe(facts) ==
  IF "roe" \in DOMAIN facts THEN <<facts["roe"], 100>>
  ELSE IF {"income", "book"} \subseteq DOMAIN facts /\ Per(facts, "shares")
    THEN Ratio(facts["income"], facts["book"] * facts["shares"]) ELSE Missing

CashflowYield(facts, close) ==
  IF "cashflow" \in DOMAIN facts /\ Per(facts, "shares")
    THEN Ratio(facts["cashflow"], facts["shares"] * close) ELSE Missing

DebtToEquity(facts) ==
  IF {"debt", "book", "shares"} \subseteq DOMAIN facts
    THEN Ratio(facts["debt"], facts["book"] * facts["shares"]) ELSE Missing

CashToDebt(facts) ==
  IF {"cash", "debt"} \subseteq DOMAIN facts THEN Ratio(facts["cash"], facts["debt"]) ELSE Missing

ExpenseRatio(facts) == IF "expense" \in DOMAIN facts THEN <<facts["expense"], 1>> ELSE Missing

-----------------------------------------------------------------------------
(* The registry and FeatureSet.                                            *)

OfFacts == {"pe", "pb", "earnings_yield", "dividend_yield", "market_cap", "roe", "cashflow_yield",
            "debt_to_equity", "cash_to_debt", "expense_ratio"}

OfBars == {"ret", "vol", "mom", "dollar_vol", "rsi", "atr", "vol_rank", "ma_dev", "turnover",
           "drawdown", "skew", "high", "willr"}

\* lookback_days, for windows of n days.
Lookback(name, n) ==
  CASE name \in OfFacts -> 1
    [] name = "dollar_vol" -> n
    [] OTHER -> n + 1

Valuation(name, facts, close) ==
  CASE name = "pe" -> PriceTo(facts, "eps", close)
    [] name = "pb" -> PriceTo(facts, "book", close)
    [] name = "earnings_yield" -> YieldOf(facts, "eps", close)
    [] name = "dividend_yield" -> YieldOf(facts, "dividend", close)
    [] name = "market_cap" -> MarketCap(facts, close)
    [] name = "roe" -> Roe(facts)
    [] name = "cashflow_yield" -> CashflowYield(facts, close)
    [] name = "debt_to_equity" -> DebtToEquity(facts)
    [] name = "cash_to_debt" -> CashToDebt(facts)
    [] name = "expense_ratio" -> ExpenseRatio(facts)

Technical(name, bars, n) ==
  CASE name = "ret" -> Ret(bars, n)
    [] name = "vol" -> Vol(bars, n)
    [] name = "mom" -> Momentum(bars, n, 1)
    [] name = "dollar_vol" -> DollarVolume(bars, n)
    [] name = "rsi" -> Rsi(bars, n)
    [] name = "atr" -> Atr(bars, n)
    [] name = "vol_rank" -> VolumeRank(bars)
    [] name = "ma_dev" -> MaDeviation(bars, n + 1)
    [] name = "turnover" -> TurnoverRatio(bars, n)
    [] name = "drawdown" -> MaxDrawdown(bars, n + 1)
    [] name = "skew" -> Skew(bars, n)
    [] name = "high" -> HighFraction(bars)
    [] name = "willr" -> WilliamsR(bars, n)

\* Mutant of Visible: the caller is trusted to have left later bars out.
Visible_All(bars, asOf) == DOMAIN bars

\* The positions of the visible bars.
Visible(bars, asOf) == {k \in DOMAIN bars : bars[k].available <= asOf}

(* sorted, as a sequence: n - 1 come before the n-th.                      *)
Sorted(S, before) ==
  [n \in 1..Cardinality(S) |-> CHOOSE k \in S : Cardinality({j \in S : <<j, k>> \in before}) = n - 1]

ByDate(bars) ==
  {p \in (DOMAIN bars) \X (DOMAIN bars) :
     \/ bars[p[1]].date < bars[p[2]].date
     \/ bars[p[1]].date = bars[p[2]].date /\ p[1] < p[2]}

NoBars == [raised |-> "FeatureMissingError"]

ValueOf(name, n, visible, known, facts) ==
  IF name \in OfBars THEN Technical(name, Recent(visible, Lookback(name, n)), n)
  ELSE IF known THEN Valuation(name, facts, Back(visible, 1).close) ELSE Missing

(* FeatureSet.compute: what is visible, by date, each feature on the last  *)
(* bars of its lookback; no context of facts makes theirs Missing, no bar  *)
(* at all raises.                                                          *)
Computed(names, n, bars, asOf, known, facts) ==
  LET Of(visible) == IF visible = <<>> THEN NoBars
                     ELSE [name \in names |-> ValueOf(name, n, visible, known, facts)]
      order == Sorted(Visible(bars, asOf), ByDate(bars))
  IN  Of([k \in DOMAIN order |-> bars[order[k]]])

(* forward_return. *)
ForwardReturn(bars, t, horizon) ==
  IF t + horizon > Len(bars) THEN Missing
  ELSE Ratio(bars[t + horizon].close - bars[t].close, bars[t].close)

ForwardReturnBinary(bars, t, horizon) ==
  LET r == ForwardReturn(bars, t, horizon)
  IN  IF r = Missing THEN Missing ELSE IF r[1] * r[2] > 0 THEN <<1, 1>> ELSE <<0, 1>>
=============================================================================

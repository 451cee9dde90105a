-------------------------- MODULE PortfolioBuilder --------------------------
(***************************************************************************)
(* Portfolio weights from scores (packages/portfolio/builder.py) and what  *)
(* they are worth in another currency (packages/fx/converter.py).          *)
(*                                                                         *)
(* Scores are integers, limits integers in percent.  A target is [weight,  *)
(* unit]: weight[i] / unit percent of the equity in instrument i, the rest *)
(* in cash.  Exchange rates and returns are fractions <<n, d>>.            *)
(***************************************************************************)
EXTENDS Integers, Sequences, FiniteSetsExt

Magnitude(x) == IF x < 0 THEN -x ELSE x

Total(f) == SumFunction([i \in DOMAIN f |-> Magnitude(f[i])])

AllCash == [weight |-> <<>>, unit |-> 1]

Gross(target) == Total(target.weight)

(* The instruments that are kept: those above min_score when long-only,    *)
(* the top_k best of them (equal scores in the order they came).           *)
Selected(scores, cfg) ==
  LET pool == {i \in DOMAIN scores : ~cfg.longOnly \/ scores[i] > cfg.minScore}
      Before(i, j) == scores[i] > scores[j] \/ (scores[i] = scores[j] /\ i < j)
  IN  {i \in pool : Cardinality({j \in pool : Before(j, i)}) < cfg.topK}

Available(cfg) == Max({cfg.grossCap - cfg.cashSleeve, 0})

\* Mutant of Clipped: a short position is not cut.
Clipped_OneSided(raw, total, cfg) ==
  LET cap == cfg.maxName * total
  IN  [i \in DOMAIN raw |->
         IF cfg.longOnly THEN Max({Min({raw[i], cap}), 0}) ELSE Min({raw[i], cap})]

(* The weights, times `total`, cut to max_name_weight.                     *)
Clipped(raw, total, cfg) ==
  LET cap == cfg.maxName * total
  IN  [i \in DOMAIN raw |->
         Max({Min({raw[i], cap}), IF cfg.longOnly THEN 0 ELSE -cap})]

(* Scores in proportion, clipped per name, scaled down to what is          *)
(* available.                                                              *)
Target(used, total, cfg) ==
  LET raw == [i \in DOMAIN used |-> used[i] * Available(cfg)]
      clipped == Clipped(raw, total, cfg)
      gross == Total(clipped)
      room == Available(cfg) * total
  IN  IF gross = 0 THEN AllCash
      ELSE IF gross > room
        THEN [weight |-> [i \in DOMAIN used |-> clipped[i] * room], unit |-> total * gross]
        ELSE [weight |-> clipped, unit |-> total]

Used(scores, cfg) ==
  [i \in Selected(scores, cfg) |-> IF cfg.longOnly THEN Max({scores[i], 0}) ELSE scores[i]]

(* build_portfolio. *)
BuildPortfolio(scores, cfg) ==
  LET used == Used(scores, cfg)
  IN  IF used = <<>> \/ Total(used) = 0 THEN AllCash ELSE Target(used, Total(used), cfg)

(* build_portfolio_from_scores: a total of 0 counts as 1.                  *)
BuildPortfolioFromScores(scores, cfg) ==
  LET used == Used(scores, cfg)
  IN  IF used = <<>> THEN AllCash
      ELSE Target(used, IF Total(used) = 0 THEN 1 ELSE Total(used), cfg)

-----------------------------------------------------------------------------
(* Currencies.  `rates` is the fx_rate table: rows [base, quote, day, rate]. *)

NoRate == <<0, 0>>

(* SqlFxRepository.get_as_of: the latest rate of the pair until a day.     *)
GetAsOf(rates, base, quote, day) ==
  LET rows == {r \in rates : r.base = base /\ r.quote = quote /\ r.day <= day}
  IN  IF rows = {} THEN NoRate
      ELSE (CHOOSE r \in rows : \A q \in rows : q.day <= r.day).rate

\* Mutant of RateOf: the inverse pair is used as it stands.
RateOf_NotInverted(rates, from, to, day) ==
  LET direct == GetAsOf(rates, from, to, day)
  IN  IF direct # NoRate THEN direct ELSE GetAsOf(rates, to, from, day)

(* FxConverter._lookup: the pair, or the inverse of the inverse pair even  *)
(* when that one is newer.                                                 *)
RateOf(rates, from, to, day) ==
  LET direct == GetAsOf(rates, from, to, day)
      inverse == GetAsOf(rates, to, from, day)
  IN  IF direct # NoRate THEN direct
      ELSE IF inverse # NoRate /\ inverse[1] # 0 THEN <<inverse[2], inverse[1]>> ELSE NoRate

(* convert: an amount <<n, d>> in another currency, or NoRate.             *)
Convert(rates, amount, from, to, day) ==
  LET rate == RateOf(rates, from, to, day)
  IN  IF from = to THEN amount
      ELSE IF rate = NoRate THEN NoRate ELSE <<amount[1] * rate[1], amount[2] * rate[2]>>

(* fx_return: (r1 - r0) / r0 of local -> base over [start, end].           *)
FxReturn(rates, local, base, start, end) ==
  LET r0 == RateOf(rates, local, base, start)
      r1 == RateOf(rates, local, base, end)
  IN  IF local = base THEN <<0, 1>>
      ELSE IF r0 = NoRate \/ r1 = NoRate \/ r0[1] = 0 THEN NoRate
      ELSE <<r1[1] * r0[2] - r0[1] * r1[2], r1[2] * r0[1]>>

(* base_currency_returns, of one instrument: a missing rate adds nothing.  *)
BaseReturn(rates, return, local, base, end, horizon) ==
  LET fx == FxReturn(rates, local, base, end - horizon, end)
  IN  IF fx = NoRate THEN return
      ELSE <<return[1] * fx[2] + fx[1] * return[2], return[2] * fx[2]>>

(* attribute_exposures: every weight with its value in its own currency (a *)
(* missing rate leaves the base value) and the part under currency risk.   *)
Exposures(target, ccyOf, base, rates, day) ==
  [i \in DOMAIN target.weight |->
     LET ccy == IF i \in DOMAIN ccyOf THEN ccyOf[i] ELSE base
         worth == <<target.weight[i], target.unit>>
         local == Convert(rates, worth, base, ccy, day)
     IN  [ccy |-> ccy, base |-> worth,
          local |-> IF local = NoRate THEN worth ELSE local,
          fx |-> IF ccy = base THEN <<0, target.unit>> ELSE worth]]

(* currency_exposure, of one currency (over the target's unit).            *)
CurrencyExposure(exposures, ccy) ==
  SumFunction([i \in {j \in DOMAIN exposures : exposures[j].ccy = ccy} |-> exposures[i].base[1]])
=============================================================================

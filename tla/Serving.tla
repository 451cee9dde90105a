------------------------------ MODULE Serving -------------------------------
(***************************************************************************)
(* What an agent or an HTTP client is told: InferenceService and its batch *)
(* form (packages/inference), the tools of quant-read-mcp over the tables  *)
(* (db_backends.py), and the routers of the API.                           *)
(*                                                                         *)
(* A world is what the tools are wired to:                                 *)
(*   production  market -> the record in PRODUCTION there, or Nothing:     *)
(*               [hash, artifact], artifact one of "missing", "foreign"    *)
(*               (no Model) and "model"                                    *)
(*   hash        the hash of the service's feature set, which is ret_1d    *)
(*   bars        market_bar: rows [instrument, date, available, close]     *)
(*   rates       fx_rate, or Nothing without an FxConverter                *)
(*   master      instruments: instrument -> [currency, local, english],    *)
(*               the words of its two names                                *)
(*   exposures   portfolio -> [gross, name, ccy] in percent, or Nothing    *)
(* An instrument is the record of the parts of its canonical id and what a *)
(* symbol tells: [id, market, venue, asset, symbol, growth].  A model's    *)
(* score is any increasing function of its feature; here it is the feature.*)
(* Moments are days, prices cents.                                         *)
(***************************************************************************)
EXTENDS Integers, Sequences, FiniteSets, SequencesExt

CONSTANT Nothing

F == INSTANCE Features
R == INSTANCE RiskPolicy
P == INSTANCE PortfolioBuilder

Err(code) == [err |-> code]

(* The tools that only look something up in a backend.                     *)
LookedUp(backend, key) ==
  IF backend = Nothing THEN Err("DATA_NOT_READY")
  ELSE IF key \notin DOMAIN backend THEN Err("UNKNOWN_INSTRUMENT") ELSE [ok |-> backend[key]]

-----------------------------------------------------------------------------
(* Inference.                                                              *)

(* bar_lookup, from 1970 on; with asOf = Nothing whatever its availability.*)
BarLookup(w, i, last, asOf) ==
  SetToSeq({b \in w.bars : /\ b.instrument = i /\ b.date <= last
                           /\ asOf # Nothing => b.available <= asOf})

NoForecast(reason) == [kind |-> "no_forecast", reason |-> reason]

(* The score, split for an instrument in another currency: the return of   *)
(* the currency over the horizon, or nothing if a rate is missing.         *)
Forecast(score, fx) ==
  [kind |-> "forecast", score |-> score, fx |-> fx,
   base |-> IF fx = P!NoRate THEN score
            ELSE <<score[1] * fx[2] + fx[1] * score[2], score[2] * fx[2]>>]

CurrencyReturn(w, i, asOf, horizon) ==
  IF w.rates = Nothing \/ i \notin DOMAIN w.master \/ w.master[i].currency = "CNY" THEN P!NoRate
  ELSE P!FxReturn(w.rates, w.master[i].currency, "CNY", asOf - horizon, asOf)

Raised == [kind |-> "raised"]

(* score: the reasons in the order they are looked for.  Of no visible bar *)
(* FeatureSet.compute raises, and nothing catches it.                      *)
Score(w, i, bars, asOf) ==
  LET model == w.production[i.market]
      Of(features) ==
        IF features = F!NoBars THEN Raised
        ELSE IF features["ret"] = F!Missing THEN NoForecast("missing_feature")
        ELSE Forecast(features["ret"], CurrencyReturn(w, i, asOf, 1))
  IN  IF model = Nothing THEN NoForecast("no_production_model")
      ELSE IF model.hash # w.hash THEN NoForecast("feature_hash_mismatch")
      ELSE IF model.artifact # "model" THEN NoForecast("no_artifact")
      ELSE Of(F!Computed({"ret"}, 1, bars, asOf, FALSE, <<>>))

ForecastRun(w, i, asOf) == Score(w, i, BarLookup(w, i, asOf, asOf), asOf)

(* The results of one kind, in the order of the instruments.               *)
Those(ids, results, kind) ==
  LET Listed(order) == [n \in DOMAIN order |-> [id |-> ids[order[n]], result |-> results[order[n]]]]
      Of(K) == Listed(F!Sorted(K, {p \in K \X K : p[1] < p[2]}))
  IN  Of({k \in DOMAIN ids : results[k].kind = kind})

(* ForecastService.run, behind POST /v1/forecast/run.                      *)
RunBatch(w, ids, asOf) ==
  LET Of(results) ==
        IF \E k \in DOMAIN ids : results[k] = Raised THEN Raised
        ELSE [kind |-> "batch", forecasts |-> Those(ids, results, "forecast"),
              noForecasts |-> Those(ids, results, "no_forecast")]
  IN  Of([k \in DOMAIN ids |-> ForecastRun(w, ids[k], asOf)])

\* Mutant of Better: the lowest score first.
Better_Worst(p, q) == p.result.score[1] * q.result.score[2] < q.result.score[1] * p.result.score[2]

Better(p, q) == p.result.score[1] * q.result.score[2] > q.result.score[1] * p.result.score[2]

(* Forecasts by score, equal ones in the order they came.                  *)
Ranked(f) ==
  LET order == F!Sorted(DOMAIN f, {p \in (DOMAIN f) \X (DOMAIN f) :
                 \/ Better(f[p[1]], f[p[2]])
                 \/ ~Better(f[p[2]], f[p[1]]) /\ p[1] < p[2]})
  IN  [k \in DOMAIN f |-> f[order[k]].id]

Screened(batch, top) ==
  IF batch = Raised THEN Raised
  ELSE [kind |-> "screen",
        top |-> SubSeq(Ranked(batch.forecasts), 1,
                       IF top < Len(batch.forecasts) THEN top ELSE Len(batch.forecasts)),
        skipped |-> batch.noForecasts]

(* screen_run. *)
ScreenRun(w, ids, asOf, top) == Screened(RunBatch(w, ids, asOf), top)

ModelGetProduction(w, market) ==
  IF market \notin DOMAIN w.production THEN Err("UNKNOWN_INSTRUMENT")
  ELSE IF w.production[market] = Nothing THEN Err("MODEL_NOT_AVAILABLE")
  ELSE [ok |-> w.production[market]]

(* instrument_admission_check: of all bars up to today.                    *)
Admission(w, i, today, minHistory) ==
  LET bars == BarLookup(w, i, today, Nothing)
  IN  IF i = Nothing THEN "UNSUPPORTED_INSTRUMENT"
      ELSE IF Len(bars) < minHistory THEN "INSUFFICIENT_HISTORY"
      ELSE IF w.production[i.market] = Nothing THEN "NO_APPLICABLE_MODEL" ELSE "ADMITTED"

-----------------------------------------------------------------------------
(* Instruments.                                                            *)

(* instrument_resolver: by symbol, else by canonical id, else by a name    *)
(* that contains the query.  The hint does not narrow a canonical id, nor  *)
(* a local name: AND binds tighter than OR.                                *)
InstrumentResolver(w, query, hint) ==
  LET Hinted(i) == hint = Nothing \/ i.market = hint
      bySymbol == {i \in DOMAIN w.master : i.symbol = query /\ Hinted(i)}
      byId == {i \in DOMAIN w.master : i.id = query}
      byName == {i \in DOMAIN w.master : \/ query \in w.master[i].local
                                         \/ query \in w.master[i].english /\ Hinted(i)}
  IN  IF bySymbol # {} THEN bySymbol ELSE IF byId # {} THEN byId ELSE byName

(* The profiles of funds and of equities.                                  *)
Profile(w, i, assets) ==
  IF i.asset \notin assets THEN Err("UNSUPPORTED_ASSET") ELSE LookedUp(w.master, i)

-----------------------------------------------------------------------------
(* Risk and portfolio tools.                                               *)

(* _build_ctx: what the caller says, with these defaults for the rest.     *)
BuildCtx(i, trade, claims) ==
  LET Claimed(name, default) == IF name \in DOMAIN claims THEN claims[name] ELSE default
  IN  [market |-> i.market, venue |-> i.venue, asset |-> i.asset, st |-> FALSE,
       growth |-> i.growth, permitted |-> Claimed("permitted", FALSE), side |-> trade.side,
       allowShort |-> FALSE, open |-> TRUE, halted |-> FALSE, delisted |-> FALSE,
       prevClose |-> Claimed("prevClose", R!Unknown), price |-> trade.price,
       volume |-> Claimed("volume", R!Unknown), quantity |-> trade.quantity,
       name |-> Claimed("name", 0), nameLimit |-> Claimed("nameLimit", 20),
       gross |-> Claimed("gross", 0), grossLimit |-> Claimed("grossLimit", 100),
       ccy |-> Claimed("ccy", 0), ccyLimit |-> Claimed("ccyLimit", 40),
       shock |-> Claimed("shock", 0), shockLimit |-> Claimed("shockLimit", 3000),
       killSwitch |-> FALSE, duplicate |-> FALSE, lot |-> 1, tick |-> 1]

With(claims, name, value) ==
  [n \in DOMAIN claims \cup {name} |-> IF n = name THEN value ELSE claims[n]]

Share(shares, key) == IF key \in DOMAIN shares THEN shares[key] ELSE 0

\* Mutant of Authoritative: what the caller claims stays.
Authoritative_Claimed(w, i, portfolio, claims) == claims

(* With a portfolio the backend knows, its exposures replace the claimed   *)
(* ones; the currency's only if the instrument is registered.              *)
Authoritative(w, i, portfolio, claims) ==
  IF portfolio = Nothing \/ w.exposures = Nothing THEN claims
  ELSE IF portfolio \notin DOMAIN w.exposures THEN claims
  ELSE LET exposure == w.exposures[portfolio]
           named == With(With(claims, "gross", exposure.gross), "name", Share(exposure.name, i))
       IN  IF i \in DOMAIN w.master
             THEN With(named, "ccy", Share(exposure.ccy, w.master[i].currency)) ELSE named

(* risk_evaluate_proposal: no build_ctx, so a failed limit is not trimmed, *)
(* and the proposed weight is in none of the exposures that are checked.   *)
EvaluateProposal(w, i, trade, weight, portfolio, claims) ==
  LET ctx == BuildCtx(i, trade, Authoritative(w, i, portfolio, claims))
  IN  R!Propose(ctx, weight, FALSE, R!NoBuilder)

(* risk_run_scenario. *)
RunScenario(i, trade, shock, claims) ==
  R!FinalVerdict(R!Trace(BuildCtx(i, trade, With(claims, "shock", shock))))

(* What the MCP server answers with: a registry of its own without any     *)
(* model, no exchange rates and no portfolios, and of a trade no more than *)
(* its tools have parameters for, which is no permission.                  *)
ServerWorld(w) ==
  [w EXCEPT !.production = [m \in DOMAIN w.production |-> Nothing],
            !.rates = Nothing, !.exposures = Nothing]

ServerEvaluateProposal(w, i, trade, weight) ==
  EvaluateProposal(ServerWorld(w), i, trade, weight, Nothing, <<>>)

ServerRunScenario(i, trade, shock) == RunScenario(i, trade, shock, <<>>)

(* portfolio_create_proposal: long-only, a tenth per name by default, and  *)
(* the other defaults of PortfolioConfig.                                  *)
CreateProposal(scores, maxName) ==
  P!BuildPortfolioFromScores(scores,
    [maxName |-> IF maxName = Nothing THEN 10 ELSE maxName, grossCap |-> 100, cashSleeve |-> 0,
     longOnly |-> TRUE, topK |-> Cardinality(DOMAIN scores), minScore |-> 0])

\* Hundredths of a percent, compounded with truncation.
Annualized(period, target) ==
  LET grown[k \in 0..12] == IF k = 0 THEN 10000 ELSE (grown[k - 1] * (100 + target)) \div 100
  IN  IF period = "monthly" THEN grown[12] - 10000 ELSE 100 * target

(* return_target_evaluate, of a target in percent.                         *)
ReturnTarget(period, target) ==
  IF period \notin {"monthly", "annual"} THEN "UNSUPPORTED_HORIZON"
  ELSE IF Annualized(period, target) > 10000 THEN "TARGET_NOT_FEASIBLE"
  ELSE IF Annualized(period, target) > 3000 THEN "RESEARCH_ONLY" ELSE "FEASIBLE"
=============================================================================

---------------------------- MODULE MCIngestion ----------------------------
(***************************************************************************)
(* The way of the data in one run: bars come in (Ingestion), the stores    *)
(* answer as of a moment (ReferenceData), and features, forecasts and the  *)
(* tools' answers are made of what they say (Features, Serving; all small  *)
(* inputs).  A behaviour is about one of these, its `focus`.               *)
(***************************************************************************)
EXTENDS Ingestion, ReferenceData

CONSTANT Nothing

Library == INSTANCE Features
Tools == INSTANCE Serving

VARIABLES
  focus,    \* "ingest", "store", "features" or "serve"
  job       \* the input of a library or tool call, or <<>>

Symmetry ==
  Permutations(Callers) \cup Permutations(Stores)

-----------------------------------------------------------------------------
(* Inputs.                                                                 *)

\* close, high, low, volume; the last one has a price of 0.
Shapes == {<<1, 1, 1, 1>>, <<2, 2, 1, 1>>, <<1, 2, 1, 2>>, <<2, 3, 2, 2>>, <<0, 1, 0, 1>>}

KnownFacts == {<<>>, [n \in {"eps", "shares", "debt", "roe"} |-> 2],
               [n \in {"book", "shares", "income", "cash", "cashflow", "dividend", "debt"} |-> 1]}

Apple == [id |-> "US.AAPL", market |-> "US", venue |-> "NASDAQ", asset |-> "EQUITY", symbol |-> "AAPL", growth |-> FALSE]
Moutai == [id |-> "CN.600519", market |-> "CN", venue |-> "SSE", asset |-> "EQUITY", symbol |-> "600519", growth |-> FALSE]
Fund == [id |-> "CN.019172", market |-> "CN", venue |-> "CN_FUND", asset |-> "FUND", symbol |-> "019172", growth |-> FALSE]
Instruments == {Apple, Moutai, Fund}

Master(registered) ==
  [i \in registered |-> [currency |-> IF i = Apple THEN "USD" ELSE "CNY",
                         local |-> IF i = Apple THEN {} ELSE {"fund"},
                         english |-> IF i = Moutai THEN {"liquor"} ELSE {"tech"}]]

\* Nothing is none of the values it stands in for.
ASSUME NothingAssumption ==
  Nothing \notin Int /\ Nothing # "p1" /\ \A registered \in SUBSET Instruments : Nothing # Master(registered)

\* No bar or one on each day; a bar may come on its day or on day 3.
BarsOf(i, days, closes) ==
  {UNION {IF choice[d] = <<>> THEN {}
          ELSE {[instrument |-> i, date |-> d, available |-> choice[d][1], close |-> choice[d][2]]}
          : d \in days}
   : choice \in {c \in [days -> {<<>>} \cup ((1..3) \X closes)] :
                   \A d \in days : c[d] = <<>> \/ c[d][1] \in {d, 3}}}

Productions == {Nothing} \cup [hash : {"h1", "h2"}, artifact : {"foreign", "model"}]

RatesOfDays(days) ==
  {[base |-> "USD", quote |-> "CNY", day |-> d, rate |-> <<d + 1, 1>>] : d \in days}

Claims == [permitted : BOOLEAN, name : {0, 30}, gross : {0, 120}, ccy : {0, 50}]

Exposures == {Nothing} \cup
  {[p \in {"p1"} |-> [gross |-> gross, name |-> [i \in {Moutai} |-> name],
                      ccy |-> [c \in {"CNY"} |-> ccy]]]
   : gross \in {50, 120}, name \in {5, 30}, ccy \in {10, 50}}

ChooseFeatures ==
  \E n \in 2..4, reversed \in BOOLEAN, facts \in KnownFacts :
    \E shapes \in [1..n -> Shapes], late \in {l \in SUBSET (1..n) : Cardinality(l) <= 2} :
      /\ n = 4 => late \subseteq {1, 4} /\ shapes[1] # <<2, 3, 2, 2>> /\ facts = <<>>
      /\ job' = <<"features", shapes, late, reversed, facts>>

World(production, abroad, rates, bars) ==
  [production |-> [m \in {"CN", "US"} |-> IF m = "CN" \/ abroad THEN production ELSE Nothing],
   hash |-> "h1", rates |-> rates, bars |-> bars, master |-> Master({Moutai, Apple})]

ChooseForecasts ==
  \E mine \in BarsOf(Moutai, {1, 2}, {1, 2, 4}), theirs \in BarsOf(Apple, {1, 2}, {1, 2}),
     fund \in BarsOf(Fund, {2}, {1}), asOf \in {2, 3}, production \in Productions,
     abroad \in BOOLEAN, rates \in {Nothing, {}, RatesOfDays({1, 3})} :
    /\ production = Nothing \/ production.hash # "h1" \/ production.artifact # "model" \/ ~abroad
         => rates = Nothing /\ fund = {}
    /\ job' = <<"forecasts", World(production, abroad, rates, mine \cup theirs \cup fund), asOf>>

ChooseEvaluation ==
  \E i \in {Moutai, Apple}, side \in {-1, 1}, claims \in Claims, exposures \in Exposures,
     registered \in {{}, {Moutai, Apple}}, portfolio \in {"p1", "p2", Nothing}, price \in {95, 110} :
    job' = <<"evaluate", [master |-> Master(registered), exposures |-> exposures], i,
            [side |-> side, price |-> price, quantity |-> 1],
            claims, portfolio>>

ChooseCall ==
  \/ ChooseForecasts
  \/ ChooseEvaluation
  \/ \E scores \in [1..3 -> -1..3], maxName \in {Nothing, 40} : job' = <<"scores", scores, maxName>>
  \/ \E target \in 0..12 : job' = <<"target", target>>
  \/ \E registered \in SUBSET Instruments, hint \in {Nothing, "US", "CN"},
        query \in {"US.AAPL", "CN.600519", "AAPL", "600519", "tech", "liquor", "fund"} :
       job' = <<"resolve", [master |-> Master(registered)], query, hint>>

MCInit ==
  /\ focus \in {"ingest", "store", "features", "serve"} /\ job = <<>>
  /\ Init /\ ReferenceInit
  /\ focus # "ingest" => /\ \E s \in Stores : storeOf = [c \in Callers |-> s]
                         /\ hasSink = [c \in Callers |-> TRUE]
  /\ \E c \in Callers : hasSink[c]
  /\ focus # "store" => kind = "bar"

MCNext ==
  \/ focus = "ingest" /\ Next /\ UNCHANGED <<refVars, focus, job>>
  \/ focus = "store" /\ ReferenceNext /\ UNCHANGED <<vars, focus, job>>
  \/ focus = "features" /\ job = <<>> /\ ChooseFeatures /\ UNCHANGED <<vars, refVars, focus>>
  \/ focus = "serve" /\ job = <<>> /\ ChooseCall /\ UNCHANGED <<vars, refVars, focus>>

MCSpec == MCInit /\ [][MCNext]_<<vars, refVars, focus, job>>

IsJob(name) == job # <<>> /\ job[1] = name

-----------------------------------------------------------------------------
(* Properties.                                                             *)

Same(a, b) == IF a = <<>> \/ b = <<>> THEN a = b ELSE a[1] * b[2] = b[1] * a[2]

(* a <= v <= b, where there is a value. *)
Between(a, v, b) == v # <<>> => a * v[2] <= v[1] /\ v[1] <= b * v[2]

(* Features are made of nothing but the bars visible as of the moment, in  *)
(* whatever order bars and late bars come; they keep their value when all  *)
(* prices double (a split), their ranges, and are all there once there are *)
(* enough bars with prices; and the return a model is fed in h days is the *)
(* label it is trained on today.                                           *)
FeaturesSeeThePast ==
  IsJob("features") =>
    LET n == Len(job[2])
        names == Library!OfBars \cup Library!OfFacts
        Bar(k, scale) ==
          [date |-> k, available |-> IF k \in job[3] THEN 9 ELSE k, close |-> scale * job[2][k][1],
           high |-> scale * job[2][k][2], low |-> scale * job[2][k][3], volume |-> job[2][k][4]]
        Given(scale) == [k \in 1..n |-> Bar(IF job[4] THEN n + 1 - k ELSE k, scale)]
        inTime == SelectSeq([k \in 1..n |-> Bar(k, 1)], LAMBDA bar : bar.available <= 5)
        \* The values of all bars, of all at double prices, and of the visible ones.
        Holds(value, seen, size) ==
          LET v == value[1] IN
          /\ v = value[3]
          /\ seen = <<>> <=> v = Library!NoBars
          /\ seen # <<>> =>
               /\ \A name \in Library!OfBars \ {"dollar_vol"} : Same(v[name], value[2][name])
               /\ Between(0, v["rsi"], 100) /\ Between(-100, v["willr"], 0)
               /\ Between(0, v["vol_rank"], 1) /\ Between(0, v["drawdown"], 1) /\ Between(0, v["high"], 1)
               /\ size > 2 /\ (\A k \in 1..size : seen[k].close > 0) =>
                    \A name \in Library!OfBars : v[name] # <<>>
               /\ size > 2 => Same(v["ret"], Library!ForwardReturn(seen, size - 2, 2))
    IN  Holds([k \in 1..3 |-> Library!Computed(names, 2, IF k = 3 THEN inTime ELSE Given(k), 5, TRUE, job[5])],
              inTime, Len(inTime))

(* The two best of a screen: no one it leaves out has a better score.      *)
RanksWell(ids, each, top) ==
  LET scored == {k \in DOMAIN ids : each[k].kind = "forecast"}
      Of(id) == each[CHOOSE k \in DOMAIN ids : ids[k] = id].score
  IN  /\ Len(top) = Min({2, Cardinality(scored)})
      /\ \A k \in DOMAIN top, j \in scored :
           LET a == Of(top[k])
               b == each[j].score
           IN  a[1] * b[2] < b[1] * a[2] => \E l \in 1..k - 1 : top[l] = ids[j]

(* A screen and a batch say what the answers one by one say.               *)
ScreenAgrees(ids, each, batch) ==
  LET screen == Tools!Screened(batch, 2) IN
  /\ screen = Tools!Raised <=> \E k \in DOMAIN ids : each[k] = Tools!Raised
  /\ screen # Tools!Raised =>
       /\ {<<r.id, r.result>> : r \in ToSet(batch.forecasts) \cup ToSet(batch.noForecasts)}
            = {<<ids[k], each[k]>> : k \in DOMAIN ids}
       /\ RanksWell(ids, each, screen.top)
       /\ \A k \in DOMAIN screen.skipped : screen.skipped[k].result.kind = "no_forecast"

Admits(admission, today) ==
  /\ admission = "NO_APPLICABLE_MODEL" => today = Tools!NoForecast("no_production_model")
  /\ admission = "ADMITTED" /\ today.kind = "no_forecast" =>
       today.reason \in {"feature_hash_mismatch", "no_artifact"}

\* The answers one by one; without what comes later; on day 3.
OneByOne(w, ids, asOf) ==
  LET past == [w EXCEPT !.bars = {b \in w.bars : b.available <= asOf}]
  IN  [k \in DOMAIN ids |->
         [v \in 1..3 |-> Tools!ForecastRun(IF v = 2 THEN past ELSE w, ids[k], IF v = 3 THEN 3 ELSE asOf)]]

Agree(w, ids, answers, each, batch) ==
  /\ \A k \in DOMAIN ids : each[k] = answers[k][2]
  /\ ScreenAgrees(ids, each, batch)
  /\ "err" \in DOMAIN Tools!ModelGetProduction(w, "CN")
       <=> \A k \in DOMAIN ids : ids[k].market = "CN" => each[k] = Tools!NoForecast("no_production_model")
  /\ \A k \in DOMAIN ids :
       /\ each[k].kind = "forecast" /\ each[k].fx = <<0, 0>> => each[k].base = each[k].score
       /\ Admits(Tools!Admission(w, ids[k], 3, 2), answers[k][3])

(* Asked one by one, in a screen or in a batch, every instrument gets the  *)
(* same answer: ranked by score, or skipped for the same reason; one that  *)
(* has a model but no bar makes all of them fail.  Bars that come later    *)
(* change nothing; without a rate the base return is the local one; and    *)
(* what is admitted today has a forecast unless its model cannot be used.  *)
ForecastsAgree ==
  IsJob("forecasts") =>
    LET w == job[2]
        ids == IF \E b \in w.bars : b.instrument = Fund THEN <<Fund, Moutai, Apple>> ELSE <<Moutai, Apple>>
        Consistent(answers) ==
          Agree(w, ids, answers, [k \in DOMAIN ids |-> answers[k][1]], Tools!RunBatch(w, ids, job[3]))
    IN  Consistent(OneByOne(w, ids, job[3]))

\* The place of a verdict among those of an order.
RankOf(order, verdict) == CHOOSE k \in 1..3 : order[k] = verdict

NothingClaimed(claims) == [claims EXCEPT !.name = 0, !.gross = 0, !.ccy = 0]

Decided(w, i, trade, claims, portfolio) ==
  LET Answer(said) == Tools!EvaluateProposal(w, i, trade, 4, portfolio, said)
      known == w.exposures # Nothing /\ portfolio = "p1"
      e == w.exposures["p1"]
      registered == i \in DOMAIN w.master
      traded == Tools!R!IsTradeable(Answer(claims))
      Shocked(shock) == RankOf(<<"accept", "review", "reject">>, Tools!RunScenario(i, trade, shock, claims))
  IN  /\ known /\ registered => Answer(claims) = Answer(NothingClaimed(claims))
      /\ traded => claims.permitted
      /\ traded /\ known => /\ e.gross <= 100
                            /\ i = Moutai => e.name[i] <= 20 /\ (registered => e.ccy["CNY"] <= 40)
      /\ Shocked(0) <= Shocked(4000)

KeepsNames(scores, maxName) ==
  LET target == Tools!CreateProposal(scores, maxName)
  IN  \A i \in DOMAIN target.weight :
        /\ scores[i] > 0
        /\ target.weight[i] <= (IF maxName = Nothing THEN 10 ELSE maxName) * target.unit

(* What the backend knows of a portfolio decides, not what the caller      *)
(* claims of it: a breached limit is never traded, a claim changes nothing.*)
(* Nothing is traded without permission; a larger shock is never judged    *)
(* better; and a proposal keeps its names within the limit.                *)
EvaluationsAgree ==
  /\ IsJob("evaluate") => Decided(job[2], job[3], job[4], job[5], job[6])
  /\ IsJob("scores") => KeepsNames(job[2], job[3])

Feasible(target) ==
  LET Of(period, t) ==
        RankOf(<<"FEASIBLE", "RESEARCH_ONLY", "TARGET_NOT_FEASIBLE">>, Tools!ReturnTarget(period, t))
  IN  /\ Of("annual", target) <= Of("monthly", target)
      /\ Of("monthly", target) <= Of("monthly", target + 1)

Resolved(w, query, hint) ==
  LET Profiles(i) == {assets \in {{"FUND", "ETF"}, {"EQUITY"}} : "ok" \in DOMAIN Tools!Profile(w, i, assets)}
  IN  \A i \in Tools!InstrumentResolver(w, query, hint) :
        /\ Cardinality(Profiles(i)) = 1
        /\ hint \in {Nothing, i.market} \/ query = i.id \/ query \in w.master[i].local

(* A larger target is never more feasible, nor a monthly one than the same *)
(* one a year; what a query resolves to is registered, has exactly one     *)
(* profile, and is of the market it was asked in unless a canonical id or  *)
(* a local name was asked for.                                             *)
AnswersAreConsistent ==
  /\ IsJob("target") => Feasible(job[2])
  /\ IsJob("resolve") => Resolved(job[2], job[3], job[4])

(* As it is wired the MCP server is fail-closed: it has no forecast and    *)
(* lets no trade through, whatever the tables hold.                        *)
ServerFailsClosed ==
  /\ IsJob("forecasts") =>
       \A i \in {Moutai, Apple, Fund} :
         Tools!ForecastRun(Tools!ServerWorld(job[2]), i, job[3]) = Tools!NoForecast("no_production_model")
  /\ IsJob("evaluate") =>
       /\ ~Tools!R!IsTradeable(Tools!ServerEvaluateProposal(job[2], job[3], job[4], 4))
       /\ Tools!ServerRunScenario(job[3], job[4], 0) = "reject"

(* What agents and clients are told.                                       *)
ToolsAgree == EvaluationsAgree /\ AnswersAreConsistent /\ ServerFailsClosed /\ ForecastsAgree
=============================================================================

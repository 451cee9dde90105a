--------------------------- MODULE MCPaperTrading ---------------------------
(***************************************************************************)
(* The trading side in one run: the paper-trading loop, and the algorithms *)
(* of risk, portfolio, execution, backtest, price adjustment and exchange  *)
(* rates over all small inputs.  A behaviour either trades or takes one    *)
(* input as its `job`.                                                     *)
(***************************************************************************)
EXTENDS PaperTrading, RiskPolicy, PortfolioBuilder, SequencesExt, TLC

Execution == INSTANCE Execution
Adjustment == INSTANCE PriceAdjustment

CONSTANTS i1, i2, i3, None

Accounts == INSTANCE LedgerAccounts WITH Nothing <- None

MCInstruments == {i1, i2, i3}
MCUS == {i1, i2}
Symmetry == Permutations(MCUS)

VARIABLES
  trading,  \* the loop runs, rather than one algorithm
  job       \* the algorithm's input, or <<>>

-----------------------------------------------------------------------------
(* Inputs.                                                                 *)

Flaws == {"permission", "halted", "kill", "limit", "tick", "shock", "lot", "thin"}

Context(flaws, side, market, limit) ==
  [market |-> market, venue |-> "SSE", asset |-> "EQUITY", st |-> TRUE, growth |-> FALSE,
   permitted |-> "permission" \notin flaws, side |-> side, allowShort |-> "kill" \in flaws,
   open |-> TRUE, halted |-> "halted" \in flaws, delisted |-> FALSE,
   prevClose |-> 100, price |-> IF "limit" \in flaws THEN 100 + 5 * side ELSE 100,
   volume |-> IF "thin" \in flaws THEN 200 ELSE Unknown, quantity |-> 0,
   name |-> 0, nameLimit |-> limit, gross |-> 0, grossLimit |-> 100,
   ccy |-> 10, ccyLimit |-> 40, shock |-> IF "shock" \in flaws THEN 50 ELSE 0, shockLimit |-> 40,
   killSwitch |-> "kill" \in flaws, duplicate |-> FALSE,
   lot |-> IF "lot" \in flaws THEN 3 ELSE 1, tick |-> IF "tick" \in flaws THEN 3 ELSE 1]

\* The context of a trade of a smaller weight, as a caller of propose builds it.
AtWeight(ctx, held, weight) ==
  [ctx EXCEPT !.name = held + weight, !.gross = 30 + held + weight, !.quantity = weight]

Limits == [maxName : {30, 60}, grossCap : {100}, cashSleeve : {0, 20, 120},
           longOnly : BOOLEAN, topK : {2, 3}, minScore : {-1, 0}]

BarDays == <<1, 2, 4, 5>>

Actions == {<<"SPLIT", <<2, 1>>>>, <<"DIVIDEND", <<1, 1>>>>, <<"SPINOFF", <<1, 1>>>>,
            <<"SPINOFF", <<3, 1>>>>, <<"RIGHTS", <<3, 4>>>>, <<"MERGER", <<0, 1>>>>}

Rates == [base : {"USD"}, quote : {"CNY"}, day : {1, 3}, rate : {<<7, 1>>, <<6, 1>>}]
           \cup [base : {"CNY"}, quote : {"USD"}, day : {2}, rate : {<<1, 8>>}]

Costs == {[unit |-> 1, slip |-> 0, commission |-> 0], [unit |-> 20, slip |-> 1, commission |-> 1]}

\* What is done to the books: a deposit, or an order for an instrument.
BookOps ==
  {<<"deposit", 3>>}
    \cup ({"order"} \X {"us", "cn"} \X {-1, 1} \X (1..2) \X {None, 2}
             \X {[low |-> 1, high |-> 2, close |-> 1], [low |-> 3, high |-> 4, close |-> 3]})

Choose ==
  \/ \E n \in 1..3 : \E operations \in [1..n -> BookOps] : job' = <<"books", operations>>
  \/ \E flaws \in SUBSET Flaws, side \in {-1, 1}, market \in {"CN", "US"}, limit \in {0, 40},
        held \in {0, 20}, weight \in {-1, 64, 128}, safe, built \in BOOLEAN :
       job' = <<"risk", Context(flaws, side, market, limit), held, weight, safe, built>>
  \/ \E scores \in [1..3 -> -2..3], cfg \in Limits : job' = <<"portfolio", scores, cfg>>
  \/ \E closes \in [1..4 -> {2, 3}], n \in 0..2 :
       \E actions \in [1..n -> Actions \X (2..5)] : job' = <<"adjust", closes, actions>>
  \/ \E rates \in SUBSET Rates, day \in 1..3 :
       /\ \A p, q \in rates : p.base = q.base /\ p.day = q.day => p = q
       /\ job' = <<"fx", rates, day>>
  \/ \E opens \in [1..3 -> {9, 10, 11}], day \in 0..4, halted \in SUBSET {2, 4},
        gone \in {2, 4, 9}, last \in {-1, 1}, quantity \in 1..2 :
       job' = <<"order", opens, day, halted, gone, last, quantity>>
  \/ \E n \in 2..4, costs \in Costs, shorts \in BOOLEAN, table \in [1..2 -> {-1, 0, 1}] :
       \E prices \in [1..n -> (1..2) \X (1..2)] : job' = <<"backtest", prices, costs, shorts, table>>

MCInit ==
  /\ Init /\ trading \in BOOLEAN /\ job = <<>>
  /\ ~trading => close = [i \in Instruments |-> 1]

MCNext ==
  \/ trading /\ Next /\ UNCHANGED <<trading, job>>
  \/ ~trading /\ job = <<>> /\ Choose /\ UNCHANGED <<vars, trading>>

MCSpec == MCInit /\ [][MCNext]_<<vars, trading, job>>

IsJob(kind) == job # <<>> /\ job[1] = kind

-----------------------------------------------------------------------------
(* Properties.                                                             *)

(* A proposal is never traded past a failed hard layer or in safe mode;    *)
(* one that was trimmed passes the whole engine at its new weight, and     *)
(* when smaller weights are never worse (no lots), no weight larger by a   *)
(* 64th of the proposal would have passed.                                 *)
RiskIsRespected ==
  IsJob("risk") =>
    LET weight == job[4]
        Build(w) == AtWeight(job[2], job[3], w)
        ctx == Build(weight)
        build == IF job[6] THEN [w \in 0..weight |-> Build(w)] ELSE NoBuilder
        answer == Propose(ctx, weight, job[5], build)
        trace == Trace(ctx)
        hard == {"permission", "regulatory", "market_state", "price_limit_and_liquidity",
                 "operational", "execution_feasibility"}
    IN  weight >= 0 =>
          /\ answer.weight <= weight
          /\ IsTradeable(answer) =>
               /\ ~job[5]
               /\ \A k \in DOMAIN trace : trace[k].verdict = "reject" => trace[k].layer \notin hard
               /\ FinalVerdict(trace) = "reject" => Passes(Build(answer.weight))
          /\ job[6] /\ ~job[5] /\ job[2].lot = 1 /\ FinalVerdict(trace) = "reject" =>
               \A w \in 1..weight : Passes(Build(w)) => w < answer.weight + weight \div 64

(* Both portfolio builders agree, keep every name and the whole within     *)
(* their limits, give a better score no smaller weight and leave no better *)
(* score out; the currencies add up to the whole.                          *)
PortfolioIsFunded ==
  IsJob("portfolio") =>
    LET scores == job[2]
        cfg == job[3]
        target == BuildPortfolio(scores, cfg)
        kept == DOMAIN target.weight
        ccyOf == [i \in {1, 2} |-> IF i = 1 THEN "USD" ELSE "CNY"]
        exposures == Exposures(target, ccyOf, "CNY", {}, 1)
    IN  /\ target = BuildPortfolioFromScores(scores, cfg)
        /\ \A i \in kept : /\ Magnitude(target.weight[i]) <= cfg.maxName * target.unit
                           /\ cfg.longOnly => target.weight[i] >= 0
        /\ Gross(target) <= Available(cfg) * target.unit
        /\ \A i, j \in kept : scores[i] > scores[j] => target.weight[i] >= target.weight[j]
        /\ \A i \in kept, j \in 1..3 \ kept : scores[j] <= scores[i]
        /\ CurrencyExposure(exposures, "USD") + CurrencyExposure(exposures, "CNY")
             = SumFunction(target.weight)

(* What may be traded: proposals within the risk limits, portfolios within *)
(* theirs.                                                                 *)
ProposalsRespectLimits == RiskIsRespected /\ PortfolioIsFunded

Equal(a, b) == a[1] * b[2] = b[1] * a[2]

(* Adjusted for corporate actions backward or forward, two prices have the *)
(* same ratio: the raw one times the factors of the ex-dates in between    *)
(* (those on which there is a bar), and the anchor bar keeps its price.    *)
RatiosAreKept(bars, actions) ==
  LET last == Len(bars)
      backward == Adjustment!Adjusted(bars, actions, "BACKWARD")
      forward == Adjustment!Adjusted(bars, actions, "FORWARD")
      Ratio(prices, k) == <<prices[k][1] * prices[k + 1][2], prices[k][2] * prices[k + 1][1]>>
      Expected(k) == LET f == Adjustment!FactorAt(bars, actions, bars[k + 1].day)
                     IN  <<bars[k].close * f[1], bars[k + 1].close * f[2]>>
  IN  /\ \A k \in 1..last - 1 : /\ Equal(Ratio(backward, k), Expected(k))
                              /\ Equal(Ratio(forward, k), Expected(k))
      /\ Equal(backward[last], <<bars[last].close, 1>>)
      /\ (\A k \in DOMAIN actions : actions[k].day # bars[1].day) =>
           Equal(forward[1], <<bars[1].close, 1>>)

(* So it is for every history and every actions of the run.                *)
AdjustmentsAgree ==
  IsJob("adjust") =>
    RatiosAreKept([k \in 1..4 |-> [day |-> BarDays[k], close |-> job[2][k]]],
                  [k \in DOMAIN job[3] |-> [kind |-> job[3][k][1][1], ratio |-> job[3][k][1][2],
                                            day |-> job[3][k][2]]])

(* A conversion there and back returns the amount unless both directions   *)
(* of the pair have rates of their own, and so does the currency's return; *)
(* no rate of a later day is used, and a missing one adds nothing.         *)
ConversionsAgree(rates, day) ==
  LET known == {r \in rates : r.day <= day}
      there == Convert(rates, <<5, 1>>, "USD", "CNY", day)
      oneWay == \A p, q \in rates : p.base = q.base
      out == FxReturn(rates, "USD", "CNY", 1, day)
      back == FxReturn(rates, "CNY", "USD", 1, day)
  IN  /\ there = NoRate <=> known = {}
      /\ there = Convert(known, <<5, 1>>, "USD", "CNY", day)
      /\ known # {} /\ oneWay => Equal(Convert(rates, there, "CNY", "USD", day), <<5, 1>>)
      /\ oneWay /\ out # NoRate => Equal(<<(out[1] + out[2]) * (back[1] + back[2]), 1>>,
                                         <<out[2] * back[2], 1>>)
      /\ out = NoRate => BaseReturn(rates, <<1, 10>>, "USD", "CNY", day, day - 1) = <<1, 10>>

(* So it is for all the rates of the run.                                  *)
RatesAgree == IsJob("fx") => ConversionsAgree(job[2], job[3])

-----------------------------------------------------------------------------
(* The books of a job: what `todo`, a list of BookOps, makes of them.      *)

Brokerage == [slip |-> 1, fee |-> 1, minNotional |-> 2]

MarketCcy == [i \in {"us", "cn"} |-> IF i = "us" THEN "USD" ELSE "CNY"]

Ordered(todo) == {k \in DOMAIN todo : todo[k][1] = "order"}

OrderOf(todo, k) == [id |-> k, instrument |-> todo[k][2], side |-> todo[k][3],
                     quantity |-> todo[k][4], limit |-> todo[k][5]]

FillOf(todo, k) == Accounts!FillOrder(OrderOf(todo, k), todo[k][6], Brokerage)

FilledOrders(todo) == {k \in Ordered(todo) : FillOf(todo, k) # None}

BookStep(todo, book, k) ==
  IF k \in FilledOrders(todo)
    THEN Accounts!BookFill(book, FillOf(todo, k), MarketCcy[FillOf(todo, k).instrument])
  ELSE IF k \in Ordered(todo) THEN book
  ELSE Accounts!BookDeposit(book, "USD", todo[k][2])

\* The books after each step.
BooksOf(todo) ==
  LET book[n \in 0..Len(todo)] ==
        IF n = 0 THEN Accounts!EmptyBook ELSE BookStep(todo, book[n - 1], n)
  IN  book

Oversales(todo) ==
  {k \in FilledOrders(todo) : Accounts!Oversold(BooksOf(todo)[k - 1], FillOf(todo, k))}

Sum(a, b) == <<a[1] * b[2] + b[1] * a[2], a[2] * b[2]>>

\* What the k-th step earns by selling an instrument for more than its average cost.
Earning(todo, i, k) ==
  LET fill == FillOf(todo, k)
      cost == Accounts!Holding(BooksOf(todo)[k - 1], i).cost
  IN  IF k \in FilledOrders(todo) /\ fill.side < 0 /\ fill.instrument = i
        THEN <<fill.quantity * (fill.price * cost[2] - cost[1]), cost[2]>> ELSE <<0, 1>>

Earned(todo, i) ==
  LET total[n \in 0..Len(todo)] == IF n = 0 THEN <<0, 1>> ELSE Sum(total[n - 1], Earning(todo, i, n))
  IN  total[Len(todo)]

\* What the k-th step adds to the value in a currency, at the mark.
ValueAdded(todo, mark, ccy, k) ==
  LET fill == FillOf(todo, k)
  IN  IF k \in FilledOrders(todo)
        THEN IF MarketCcy[fill.instrument] # ccy THEN 0
             ELSE fill.side * fill.quantity * (mark - fill.price) - fill.fee
      ELSE IF k \notin Ordered(todo) /\ ccy = "USD" THEN todo[k][2] ELSE 0

(* Whatever is deposited and filled, the accounts of a currency cancel     *)
(* out.  Unless a sell was refused, the position account and the average   *)
(* cost differ by what the sells earned, and the portfolio is worth its    *)
(* deposits and what its fills gained at the mark, less commissions.  The  *)
(* reconciliation has a row per order that tells whether it was filled,    *)
(* and a market order is never filled at the close or better.              *)
BooksAreBalanced(todo) ==
  LET final == BooksOf(todo)[Len(todo)]
      mark == 2
      In(ccy) == {a \in DOMAIN final.balance : a[2] = ccy}
      orders == Ordered(todo)
      bars == [i \in {todo[k][2] : k \in orders} |-> todo[CHOOSE k \in orders : todo[k][2] = i][6]]
      placed == [k \in orders |-> OrderOf(todo, k)]
      rows == Accounts!Reconcile(placed, Accounts!FillBatch(placed, bars, Brokerage), bars)
  IN  /\ \A ccy \in Currency : SumFunction([a \in In(ccy) |-> final.balance[a]]) = 0
      /\ Oversales(todo) = {} =>
           /\ \A i \in {"us", "cn"} :
                LET held == Accounts!Holding(final, i)
                    account == Accounts!BalanceOf(final, <<"position", MarketCcy[i], i>>)
                IN  Equal(Sum(<<account, 1>>, Earned(todo, i)),
                          <<held.quantity * held.cost[1], held.cost[2]>>)
           /\ \A ccy \in Currency :
                Accounts!Value(final, [i \in {"us", "cn"} |-> mark], MarketCcy)[ccy]
                  = SumFunction([k \in DOMAIN todo |-> ValueAdded(todo, mark, ccy, k)])
      /\ \A k \in orders :
           /\ rows[k].filled <=> Accounts!FillOrder(placed[k], bars[todo[k][2]], Brokerage) # None
           /\ rows[k].filled /\ placed[k].limit = None => rows[k].slippage[1] > 0

(* So it is with the books of the run.                                     *)
BooksBalance == IsJob("books") => BooksAreBalanced(job[2])

(* Value is neither made nor lost by adjusting prices, converting          *)
(* currencies and keeping the books.                                       *)
ValueIsConserved == AdjustmentsAgree /\ RatesAgree /\ BooksBalance

(* No execution model fills an order on or before its decision date, past  *)
(* an earlier bar it could have used or once delisted, and neither the     *)
(* Chinese nor the American one on a halted day (the fund model takes no   *)
(* notice of halts); a Chinese share is not bought at its upper limit or   *)
(* sold at its lower one; buying and selling at one bar loses; a fund order*)
(* after the cutoff is never priced earlier, and a longer holding never    *)
(* costs more.                                                             *)
OrdersFillAfterDecision ==
  IsJob("order") =>
    LET opens == job[2]
        day == job[3]
        bars == [k \in 1..3 |-> [day |-> BarDays[k], open |-> opens[k], close |-> 10]]
        order(side) == [day |-> day, side |-> side, quantity |-> job[7]]
        cn(side) == Execution!ExecuteCn(order(side), bars, job[4], job[5], 10)
        us(side) == Execution!ExecuteUs(order(side), bars, job[4], job[5], FALSE)
        fund(side, hour) == Execution!ExecuteFund(order(side), bars, job[5], hour, job[6])
        Skipped(from, to) == \E k \in 1..3 : from < BarDays[k] /\ BarDays[k] < to
        OpenOn(d) == bars[CHOOSE k \in 1..3 : BarDays[k] = d].open
    IN  /\ \A side \in {"BUY", "SELL"} : \A fill \in {cn(side), us(side), fund(side, 10)} :
             fill.filled => fill.day > day /\ ~Skipped(day, fill.day) /\ fill.day < job[5]
        /\ \A side \in {"BUY", "SELL"} : \A fill \in {cn(side), us(side)} :
             fill.filled => fill.day \notin job[4]
        /\ cn("BUY").filled => OpenOn(cn("BUY").day) < 11
        /\ cn("SELL").filled => OpenOn(cn("SELL").day) > 9
        /\ cn("BUY").filled /\ cn("SELL").filled => cn("BUY").cash + cn("SELL").cash < 0
        /\ us("BUY").filled => us("BUY").cash + us("SELL").cash < 0
        /\ \A side \in {"BUY", "SELL"} :
             fund(side, 10).filled /\ fund(side, 16).filled => fund(side, 10).day <= fund(side, 16).day
        /\ \A held \in 0..7 : Execution!RedemptionFee(held + 1) <= Execution!RedemptionFee(held)

(* A backtest says of any bar the same whatever comes later; without costs *)
(* and short sales its equity is the product of what prices did while the  *)
(* position was held; with costs and constant prices it never grows.       *)
HonestBacktest(cfg, bars, signalOf) ==
  LET n == Len(bars)
      long(k) == k > 1 /\ signalOf[SubSeq(bars, 1, k - 1)] = 1
      Day(k) == <<(IF long(k - 1) THEN bars[k].open ELSE 1) * (IF long(k) THEN bars[k].close ELSE 1),
                  (IF long(k - 1) THEN bars[k - 1].close ELSE 1) * (IF long(k) THEN bars[k].open ELSE 1)>>
      curve == Execution!Backtest(cfg, bars, signalOf).curve
  IN  /\ \A k \in 2..n : Execution!Backtest(cfg, SubSeq(bars, 1, k), signalOf).curve = SubSeq(curve, 1, k - 1)
      /\ cfg.slip = 0 /\ cfg.commission = 0 /\ ~cfg.shorts =>
           \A k \in 2..n : LET before == IF k = 2 THEN <<1, 1>> ELSE curve[k - 2]
                           IN  Equal(curve[k - 1], <<before[1] * Day(k)[1], before[2] * Day(k)[2]>>)
      /\ (\A k \in 1..n : bars[k].open = 1 /\ bars[k].close = 1) =>
           \A k \in DOMAIN curve : curve[k][1] <= curve[k][2]

(* A backtest of the run is honest, with and without costs and short sales. *)
BacktestIsHonest ==
  IsJob("backtest") =>
    LET n == Len(job[2])
        bars == [k \in 1..n |-> [day |-> k, open |-> job[2][k][1], close |-> job[2][k][2]]]
        costs == [unit |-> job[3].unit, slip |-> job[3].slip, commission |-> job[3].commission,
                  shorts |-> job[4]]
    IN  HonestBacktest(costs, bars,
                       [window \in {SubSeq(bars, 1, k) : k \in 1..n} |-> job[5][Last(window).close]])

(* Nothing trades on what its decision could not know.                     *)
FillsFollowDecisions == OrdersFillAfterDecision /\ BacktestIsHonest
=============================================================================

--------------------------- MODULE LedgerAccounts ---------------------------
(***************************************************************************)
(* What PaperTrading leaves out of the books: the double-entry accounts,   *)
(* the average cost and the valuation of a Portfolio                       *)
(* (ledger_paper/ledger.py), and of SimulatedBroker the limit orders, the  *)
(* batch and the reconciliation (ledger_paper/simulator.py).               *)
(*                                                                         *)
(* An account is <<"cash", ccy>>, <<"pnl", ccy>>, <<"fees", ccy>> or       *)
(* <<"position", ccy, instrument>>.  A book is a record: the balances of   *)
(* the accounts used so far, and the positions, instrument ->              *)
(* [quantity, cost] with the average cost a fraction.  Slippage and        *)
(* commission are fixed amounts; the rounding of prices to the cent and of *)
(* the average cost to 28 digits is left out.                              *)
(***************************************************************************)
EXTENDS Integers, FiniteSetsExt, Functions

CONSTANT Nothing

EmptyBook == [balance |-> <<>>, position |-> <<>>]

-----------------------------------------------------------------------------
(* Portfolio.                                                              *)

BalanceOf(book, account) == IF account \in DOMAIN book.balance THEN book.balance[account] ELSE 0

(* _post: legs are a function from accounts to their change.  An entry     *)
(* whose legs do not cancel out raises before it is posted.                *)
Post(book, legs) ==
  IF SumFunction(legs) # 0 THEN book
  ELSE [book EXCEPT !.balance =
          [a \in DOMAIN book.balance \cup DOMAIN legs |->
             BalanceOf(book, a) + IF a \in DOMAIN legs THEN legs[a] ELSE 0]]

BookDeposit(book, ccy, amount) ==
  Post(book, [a \in {<<"cash", ccy>>, <<"pnl", ccy>>} |-> IF a[1] = "cash" THEN amount ELSE -amount])

(* The legs of a fill.  No profit or loss is posted for a sell: what it    *)
(* earns stays in the position account.                                    *)
FillLegs(fill, ccy) ==
  LET notional == fill.side * fill.quantity * fill.price
  IN  [a \in {<<"cash", ccy>>, <<"position", ccy, fill.instrument>>, <<"fees", ccy>>} |->
         CASE a[1] = "cash"     -> -notional - fill.fee
           [] a[1] = "position" -> notional
           [] OTHER             -> fill.fee]

\* Mutant of AverageCost: the cost of the latest buy.
AverageCost_Latest(held, fill) == <<fill.price, 1>>

AverageCost(held, fill) ==
  <<held.quantity * held.cost[1] + fill.quantity * fill.price * held.cost[2],
    held.cost[2] * (held.quantity + fill.quantity)>>

Holding(book, i) ==
  IF i \in DOMAIN book.position THEN book.position[i] ELSE [quantity |-> 0, cost |-> <<0, 1>>]

(* _update_position raises for a sell of more than is held.                *)
Oversold(book, fill) == fill.side < 0 /\ fill.quantity > Holding(book, fill.instrument).quantity

UpdatePosition(book, fill) ==
  LET held == Holding(book, fill.instrument)
      now == [quantity |-> held.quantity + fill.side * fill.quantity,
              cost |-> IF fill.side > 0 THEN AverageCost(held, fill) ELSE held.cost]
  IN  IF Oversold(book, fill) THEN book
      ELSE [book EXCEPT !.position = [i \in DOMAIN @ \cup {fill.instrument} |->
                                        IF i = fill.instrument THEN now ELSE @[i]]]

BookFill(book, fill, ccy) == UpdatePosition(Post(book, FillLegs(fill, ccy)), fill)

(* value: cash and positions by currency, the currency of a position taken *)
(* from its market.  Nothing (it raises) if a position has no mark.        *)
Value(book, marks, marketCcy) ==
  LET held == {i \in DOMAIN book.position : book.position[i].quantity # 0}
      In(ccy) == {i \in held : marketCcy[i] = ccy}
      Worth(ccy) == BalanceOf(book, <<"cash", ccy>>)
                      + SumFunction([i \in In(ccy) |-> book.position[i].quantity * marks[i]])
  IN  IF held \subseteq DOMAIN marks THEN [ccy \in {"CNY", "USD"} |-> Worth(ccy)] ELSE Nothing

-----------------------------------------------------------------------------
(* SimulatedBroker: an order is [id, instrument, side, quantity, limit], a *)
(* market order if its limit is Nothing; cfg is [slip, fee, minNotional].  *)

(* A buy is reached when the low is at or below its limit, wherever the    *)
(* high is, and fills at the limit.                                        *)
Reached(order, bar) ==
  \/ order.limit = Nothing
  \/ order.side > 0 /\ bar.low <= order.limit
  \/ order.side < 0 /\ bar.high >= order.limit

FillOrder(order, bar, cfg) ==
  LET price == IF order.limit = Nothing THEN bar.close + order.side * cfg.slip ELSE order.limit
  IN  IF order.quantity <= 0 \/ ~Reached(order, bar) \/ price * order.quantity < cfg.minNotional
        THEN Nothing
        ELSE [id |-> order.id, instrument |-> order.instrument, side |-> order.side,
              quantity |-> order.quantity, price |-> price, fee |-> cfg.fee]

(* fill_batch: an order without a bar is passed over.  Orders and fills    *)
(* are functions from their places in the list, a fill at its order's.     *)
FillBatch(orders, bars, cfg) ==
  LET Answer(o) == IF o.instrument \in DOMAIN bars THEN FillOrder(o, bars[o.instrument], cfg)
                   ELSE Nothing
  IN  [k \in {j \in DOMAIN orders : Answer(orders[j]) # Nothing} |-> Answer(orders[k])]

\* Mutant of Adverse: the side of the order is forgotten.
Adverse_Unsigned(price, side, bench) == <<price - bench, bench>>

Adverse(price, side, bench) == <<(price - bench) * side, bench>>

(* reconcile_forecast_vs_fills: a row per order, with the adverse slippage *)
(* of its fill against the close as a fraction.                            *)
Reconcile(orders, fills, bars) ==
  LET FillsOf(o) == {k \in DOMAIN fills : fills[k].id = o.id}
      Bench(o) == IF o.instrument \in DOMAIN bars THEN bars[o.instrument].close ELSE 0
      Row(o) == IF FillsOf(o) = {} THEN [id |-> o.id, filled |-> FALSE, slippage |-> Nothing]
                ELSE LET f == fills[Max(FillsOf(o))]
                     IN  [id |-> o.id, filled |-> TRUE,
                          slippage |-> IF Bench(o) = 0 THEN Nothing
                                       ELSE Adverse(f.price, o.side, Bench(o))]
  IN  [k \in DOMAIN orders |-> Row(orders[k])]
=============================================================================

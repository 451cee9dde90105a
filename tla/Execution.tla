----------------------------- MODULE Execution ------------------------------
(***************************************************************************)
(* When and at what price an order fills (packages/backtest/execution.py)  *)
(* and the daily backtest that trades on a signal (backtest/engine.py).    *)
(*                                                                         *)
(* A bar is [day, open, close]; prices are small integers, rates (slippage *)
(* and fees) integers out of Basis, cash is scaled by Basis * Basis.       *)
(***************************************************************************)
EXTENDS Integers, Sequences, FiniteSets, SequencesExt, FiniteSetsExt

Basis == 100

\* cost rates of the three markets, out of Basis
CnSlip == 2
CnCommission == 1
CnStamp == 3
UsEdge == 2
FundSubscription == 4
RedemptionSchedule == <<<<2, 6>>, <<4, 3>>, <<6, 1>>>>
MinHoldingDays == 1
CutoffHour == 15

NoFill(reason) == [filled |-> FALSE, reason |-> reason]

Filled(bar, quantity, cash) ==
  [filled |-> TRUE, day |-> bar.day, quantity |-> quantity, cash |-> cash]

After(bars, day) == {k \in DOMAIN bars : bars[k].day > day}

First(bars, S) == bars[CHOOSE k \in S : \A j \in S : bars[k].day <= bars[j].day]

\* Mutant of NextBar: the bar of the decision itself may fill it.
NextBar_SameDay(bars, day) ==
  LET S == {k \in DOMAIN bars : bars[k].day >= day}
  IN  IF S = {} THEN {} ELSE {First(bars, S)}

(* The earliest bar strictly after a day, as a set of at most one.         *)
NextBar(bars, day) ==
  IF After(bars, day) = {} THEN {} ELSE {First(bars, After(bars, day))}

(* The bars that are not after the decision; the last one of the list is   *)
(* taken for the previous close, whatever its date.                        *)
PriorBars(bars, day) == {k \in DOMAIN bars : bars[k].day <= day}

Gone(bar, delistedFrom) == bar.day >= delistedFrom

(* What a fill at `open` with rates slip and fees moves in cash.           *)
CashDelta(side, open, quantity, slip, fees) ==
  LET price == open * (IF side = "BUY" THEN Basis + slip ELSE Basis - slip)
  IN  IF side = "BUY" THEN -(price * quantity * (Basis + fees))
                      ELSE price * quantity * (Basis - fees)

(* CnExecutionModel.execute; `band` is the limit in percent.               *)
ExecuteCn(order, bars, halted, delistedFrom, band) ==
  LET next == NextBar(bars, order.day)
      prior == PriorBars(bars, order.day)
      fees == CnCommission + (IF order.side = "SELL" THEN CnStamp ELSE 0)
      Outcome(bar) ==
        LET locked(limit) == 100 * bar.open - limit * bars[Max(prior)].close IN
        CASE Gone(bar, delistedFrom) -> NoFill("DELISTED")
          [] ~Gone(bar, delistedFrom) /\ bar.day \in halted -> NoFill("HALTED")
          [] ~Gone(bar, delistedFrom) /\ bar.day \notin halted ->
               IF order.side = "BUY" /\ locked(100 + band) >= 0 THEN NoFill("UP_LIMIT_LOCK")
               ELSE IF order.side = "SELL" /\ locked(100 - band) <= 0 THEN NoFill("DOWN_LIMIT_LOCK")
               ELSE Filled(bar, order.quantity,
                           CashDelta(order.side, bar.open, order.quantity, CnSlip, fees))
  IN  IF next = {} THEN NoFill("NO_NEXT_BAR")
      ELSE IF prior = {} THEN NoFill("NO_PRIOR_CLOSE")
      ELSE Outcome(CHOOSE bar \in next : TRUE)

(* UsExecutionModel.execute; a quantity counts half shares.                *)
ExecuteUs(order, bars, halted, delistedFrom, fractional) ==
  LET next == NextBar(bars, order.day)
      quantity == IF fractional THEN order.quantity ELSE 2 * (order.quantity \div 2)
      Outcome(bar) ==
        CASE Gone(bar, delistedFrom) -> NoFill("DELISTED")
          [] ~Gone(bar, delistedFrom) /\ bar.day \in halted -> NoFill("TRADING_HALT")
          [] ~Gone(bar, delistedFrom) /\ bar.day \notin halted ->
               IF quantity <= 0 THEN NoFill("ZERO_QTY")
               ELSE Filled(bar, quantity,
                           CashDelta(order.side, bar.open, quantity, UsEdge, 0))
  IN  IF next = {} THEN NoFill("NO_NEXT_BAR") ELSE Outcome(CHOOSE bar \in next : TRUE)

(* The redemption fee: the first bucket the holding period is below.       *)
RedemptionFee(held) ==
  LET buckets == {k \in DOMAIN RedemptionSchedule : held < RedemptionSchedule[k][1]}
  IN  IF buckets = {} THEN 0 ELSE RedemptionSchedule[Min(buckets)][2]

NeverBought == -1

(* FundExecutionModel.execute: priced at the NAV (the close) of the next   *)
(* bar, one calendar day later after the cutoff.  It accepts halted_dates  *)
(* as the other models do, and reads them nowhere (though the module's doc *)
(* has it that a halted order is returned as a NoFill).                    *)
ExecuteFund(order, bars, delistedFrom, hour, lastBuy) ==
  LET next == NextBar(bars, IF hour >= CutoffHour THEN order.day + 1 ELSE order.day)
      Outcome(bar) ==
        LET held == bar.day - (IF lastBuy = NeverBought THEN bar.day ELSE lastBuy)
            gross == bar.close * order.quantity * Basis IN
        IF Gone(bar, delistedFrom) THEN NoFill("LIQUIDATED")
        ELSE IF order.side = "BUY"
          THEN Filled(bar, order.quantity, -(gross * (Basis + FundSubscription)))
        ELSE IF lastBuy # NeverBought /\ held < MinHoldingDays THEN NoFill("MIN_HOLDING_VIOLATION")
        ELSE Filled(bar, order.quantity, gross * (Basis - RedemptionFee(held)))
  IN  IF next = {} THEN NoFill("NO_NAV_YET") ELSE Outcome(CHOOSE bar \in next : TRUE)

-----------------------------------------------------------------------------
(* run_daily_signal_backtest.  Equity is a fraction <<n, d>> of the        *)
(* initial cash; cfg is [unit, slip, commission, shorts], slip and         *)
(* commission out of `unit`, and the whole equity is put in (max_pos 1).   *)

Sign(x) == IF x > 0 THEN 1 ELSE IF x < 0 THEN -1 ELSE 0

FillPrice(cfg, open, signal, position) == open * (cfg.unit + cfg.slip * Sign(signal - position))

(* 1 + net return of closing `position` entered at `entry`.                *)
Closed(cfg, position, entry, price) ==
  <<entry * cfg.unit + (price - entry) * position * cfg.unit
      - 2 * (cfg.commission + cfg.slip) * entry,
    entry * cfg.unit>>

\* Mutant of Trade: a signal that may not be followed leaves the position as it is.
Trade_KeepsPosition(cfg, st, signal, bar) ==
  LET price == FillPrice(cfg, bar.open, signal, st.position)
      closed == Closed(cfg, st.position, st.entry, price)
  IN  IF signal = st.position \/ (signal < 0 /\ ~cfg.shorts) THEN st
      ELSE [position |-> signal,
            entry    |-> IF signal = 0 THEN 0 ELSE price,
            equity   |-> IF st.position = 0 THEN st.equity
                         ELSE <<st.equity[1] * closed[1], st.equity[2] * closed[2]>>,
            trades   |-> st.trades + (IF st.position = 0 THEN 0 ELSE 1),
            curve    |-> st.curve]

(* A signal other than the position closes it at the bar's open, and opens *)
(* the new one where short sales are allowed or it is not one.             *)
Trade(cfg, st, signal, bar) ==
  LET price == FillPrice(cfg, bar.open, signal, st.position)
      closed == Closed(cfg, st.position, st.entry, price)
      position == IF cfg.shorts \/ signal >= 0 THEN signal ELSE 0
  IN  IF signal = st.position THEN st
      ELSE [position |-> position,
            entry    |-> IF position = 0 THEN 0 ELSE price,
            equity   |-> IF st.position = 0 THEN st.equity
                         ELSE <<st.equity[1] * closed[1], st.equity[2] * closed[2]>>,
            trades   |-> st.trades + (IF st.position = 0 THEN 0 ELSE 1),
            curve    |-> st.curve]

(* The equity with the open position at the bar's close.                   *)
Marked(cfg, st, bar) ==
  IF st.position = 0 THEN st.equity
  ELSE <<st.equity[1] * (st.entry + (bar.close * cfg.unit - st.entry) * st.position),
         st.equity[2] * st.entry>>

(* Before the first trade.                                                 *)
Unopened == [position |-> 0, entry |-> 0, equity |-> <<1, 1>>, trades |-> 0, curve |-> <<>>]

(* What the signal of the first i bars does at the next one.               *)
BacktestDay(cfg, bars, signalOf, st, i) ==
  LET traded == Trade(cfg, st, signalOf[SubSeq(bars, 1, i)], bars[i + 1])
  IN  [traded EXCEPT !.curve = Append(@, Marked(cfg, traded, bars[i + 1]))]

(* The whole backtest over bars sorted by day; of one bar there is none.   *)
Backtest(cfg, bars, signalOf) ==
  LET after[i \in 0..Len(bars) - 1] ==
        IF i = 0 THEN Unopened ELSE BacktestDay(cfg, bars, signalOf, after[i - 1], i)
  IN  IF Len(bars) < 2 THEN Unopened ELSE after[Len(bars) - 1]
=============================================================================

---------------------------- MODULE PaperTrading ----------------------------
(***************************************************************************)
(* The paper-trading loop: PaperTradingEngine (packages/broker/engine.py)  *)
(* sizes its orders once per cycle and places them one by one with the     *)
(* SimulatedBroker, whose fills are posted to a Portfolio                  *)
(* (packages/ledger_paper/ledger.py).  Other callers deposit cash and      *)
(* apply fills of their own between cycles.                                *)
(*                                                                         *)
(* Money and shares are integers (of the smallest unit); slippage and      *)
(* commission are free within their bounds, a score is its signal.         *)
(***************************************************************************)
EXTENDS Integers, FiniteSets

CONSTANTS
  Instruments,
  US,           \* the instruments of the US market; the others are Chinese
  Prices,       \* closing prices
  Deposits,     \* amounts
  Weight,       \* max_weight is 1 / Weight
  MaxSlip,      \* adverse slippage of a market order
  MaxFee,       \* commission of a fill
  MaxOps,       \* bound: deposits, direct fills and cycles
  MaxQuantity   \* bound: shares of a direct fill

ASSUME SizesAssumption ==
  /\ US \subseteq Instruments /\ IsFiniteSet(Instruments)
  /\ Prices \subseteq Nat \ {0} /\ Deposits \subseteq Nat \ {0}
  /\ Weight \in Nat \ {0}
  /\ {MaxSlip, MaxFee, MaxOps, MaxQuantity} \subseteq Nat

Currency == {"USD", "CNY"}

\* SimulatedBrokerAdapter.place_order picks the currency by market.
CurrencyOf(i) == IF i \in US THEN "USD" ELSE "CNY"

VARIABLES
  cash,      \* balances of the CASH accounts
  qty,       \* _positions: shares held; none and a position of 0 act alike
  pending,   \* orders of the running cycle yet to be filled, sells negative
  close,     \* the cycle's latest bars
  running,   \* a cycle is running
  net,       \* history: shares bought less shares sold, as journalled
  refused,   \* history: instruments of a sell that raised after it was posted
  sizing,    \* history: the running cycle's base currency, buys and tolerance
  ops

ledger == <<cash, qty, net, refused>>
cycle == <<pending, close, running, sizing>>
vars == <<ledger, cycle, ops>>

NoOrders == [i \in Instruments |-> 0]
NoSizing == [base |-> "USD", buys |-> {}, tolerance |-> 0]

Init ==
  /\ cash = [c \in Currency |-> 0]
  /\ qty = NoOrders /\ net = NoOrders /\ pending = NoOrders
  /\ close \in [Instruments -> Prices]
  /\ running = FALSE /\ refused = {} /\ sizing = NoSizing /\ ops = 0

Operate == ~running /\ ops < MaxOps /\ ops' = ops + 1

(* Portfolio.deposit.                                                      *)
Deposit(c, amount) ==
  /\ Operate
  /\ cash' = [cash EXCEPT ![c] = @ + amount]
  /\ UNCHANGED <<qty, net, refused, cycle>>

(* _update_position raises for a sell of more than is held.                *)
Held(i, shares) == qty[i] + shares >= 0

\* Mutant of NewQuantity: a second buy replaces the position.
NewQuantity_Replaces(i, shares) == IF shares > 0 THEN shares ELSE qty[i] + shares

NewQuantity(i, shares) == qty[i] + shares

(* Portfolio.apply_fill of a signed number of shares: the entry is posted  *)
(* first, and stays when the position cannot be updated.                   *)
ApplyFill(i, shares, price, fee) ==
  /\ cash' = [cash EXCEPT ![CurrencyOf(i)] = @ - shares * price - fee]
  /\ net' = [net EXCEPT ![i] = @ + shares]
  /\ IF Held(i, shares)
     THEN qty' = [qty EXCEPT ![i] = NewQuantity(i, shares)] /\ UNCHANGED refused
     ELSE refused' = refused \cup {i} /\ UNCHANGED qty

(* A fill from outside the engine. *)
DirectFill(i, shares, price, fee) ==
  /\ Operate
  /\ ApplyFill(i, shares, price, fee)
  /\ UNCHANGED cycle

-----------------------------------------------------------------------------
(* PaperTradingEngine.run_cycle.                                           *)

\* Mutant of HalfEven: rounded up.
HalfEven_Up(n, d) == (n + d - 1) \div d

(* Decimal.quantize: round to the nearest, ties to even.                   *)
HalfEven(n, d) ==
  LET q == n \div d
      r == n % d
  IN  IF 2 * r > d \/ (2 * r = d /\ q % 2 = 1) THEN q + 1 ELSE q

\* Mutant of SellSize: a sell is sized like a buy.
SellSize_ByCash(i, available, price) == HalfEven(available, Weight * price)

SellSize(i, available, price) == qty[i]

(* The signals are sized with one look at the base currency's cash and at  *)
(* the positions; an order of no shares is dropped.                        *)
Orders(signal, available, bars) ==
  [i \in Instruments |->
     LET bought == HalfEven(available, Weight * bars[i])
         sold == SellSize(i, available, bars[i])
     IN CASE signal[i] = 1 /\ bought > 0 -> bought
          [] signal[i] = -1 /\ sold > 0  -> -sold
          [] OTHER -> 0]

StartCycle(signal, base, bars) ==
  /\ Operate
  /\ pending' = Orders(signal, cash[base], bars)
  /\ close' = bars
  /\ running' = TRUE
  /\ sizing' = [base |-> base, buys |-> {i \in Instruments : pending'[i] > 0},
                tolerance |-> IF cash[base] < 0 THEN -2 * cash[base] ELSE 0]
  /\ UNCHANGED ledger

(* SimulatedBroker.fill_order of a market order, then apply_fill.          *)
(* tolerance adds up twice what a buy may cost beyond its budget: half a   *)
(* share of rounding, slippage and commission.                             *)
Fill(i, slip, fee) ==
  LET shares == pending[i]
      price == IF shares > 0 THEN close[i] + slip ELSE close[i] - slip
      notional == price * (IF shares > 0 THEN shares ELSE -shares)
  IN /\ running /\ shares # 0
     /\ price > 0 /\ fee <= notional
     /\ ApplyFill(i, shares, price, fee)
     /\ pending' = IF Held(i, shares) THEN [pending EXCEPT ![i] = 0] ELSE NoOrders
     /\ running' = Held(i, shares)    \* a LedgerError ends the cycle
     /\ sizing' = [sizing EXCEPT !.tolerance =
                     IF shares > 0 THEN @ + close[i] + 2 * (slip * shares + fee) ELSE @]
     /\ UNCHANGED <<close, ops>>

(* Below min_notional the broker returns no fill.                          *)
NoFill(i) ==
  /\ running /\ pending[i] # 0
  /\ pending' = [pending EXCEPT ![i] = 0]
  /\ UNCHANGED <<ledger, close, running, sizing, ops>>

EndCycle ==
  /\ running /\ pending = NoOrders
  /\ running' = FALSE /\ sizing' = NoSizing
  /\ UNCHANGED <<ledger, pending, close, ops>>

Next ==
  \/ \E c \in Currency, amount \in Deposits : Deposit(c, amount)
  \/ \E i \in Instruments, n \in 1..MaxQuantity, price \in Prices, fee \in 0..MaxFee :
       DirectFill(i, n, price, fee) \/ DirectFill(i, -n, price, fee)
  \/ \E signal \in [Instruments -> {-1, 0, 1}], base \in Currency,
        bars \in [Instruments -> Prices] : StartCycle(signal, base, bars)
  \/ \E i \in Instruments, slip \in 0..MaxSlip, fee \in 0..MaxFee : Fill(i, slip, fee)
  \/ \E i \in Instruments : NoFill(i)
  \/ EndCycle

Spec == Init /\ [][Next]_vars

-----------------------------------------------------------------------------
(* Properties.                                                             *)

(* Balances, positions and the cycle's orders keep their shape: a position *)
(* is never short, and there are orders only while a cycle runs.           *)
TypeOK ==
  /\ cash \in [Currency -> Int] /\ net \in [Instruments -> Int]
  /\ qty \in [Instruments -> Nat]
  /\ pending \in [Instruments -> Int] /\ close \in [Instruments -> Prices]
  /\ running \in BOOLEAN /\ (~running => pending = NoOrders)
  /\ refused \subseteq Instruments
  /\ sizing \in [base : Currency, buys : SUBSET Instruments, tolerance : Nat]
  /\ ops \in 0..MaxOps

(* The journal explains the positions, "All state changes go through       *)
(* _post", for as long as no sell of the instrument has been refused: a    *)
(* refused one is in the journal and in the cash, not in the position.     *)
JournalExplainsPositions ==
  \A i \in Instruments : IF i \in refused THEN net[i] < qty[i] ELSE net[i] = qty[i]

(* The engine sizes its sells before it places any order, yet a sell is    *)
(* still covered when its turn comes, so a cycle is never cut short.       *)
SellsStayCovered == \A i \in Instruments : running => Held(i, pending[i])

(* A cycle that buys at most as many instruments as max_weight has room    *)
(* for, all in its base currency, overdraws the cash by no more than the   *)
(* rounding, the slippage and the commission of its buys.  (With more buys *)
(* it may: the budget is not divided by their number.)                     *)
OverdraftBounded ==
  (/\ running /\ Cardinality(sizing.buys) <= Weight
   /\ \A i \in sizing.buys : CurrencyOf(i) = sizing.base)
    => 2 * cash[sizing.base] >= - sizing.tolerance

=============================================================================

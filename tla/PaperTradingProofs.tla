------------------------- MODULE PaperTradingProofs -------------------------
(***************************************************************************)
(* Proofs about PaperTrading, for any instruments, prices and bounds; and  *)
(* about the books of LedgerAccounts, for any deposits and orders.         *)
(* IInv needs no more than the three properties together: a cycle's sells  *)
(* stay covered because each instrument has one order, and nothing but its *)
(* own fill touches its position while the cycle runs.                     *)
(*                                                                         *)
(* The overdraft needs to know why there is money for the next buy:        *)
(* FundsInv has a budget, a witness that no step changes, which each buy   *)
(* left costs at most (Weight times, doubled, but for the half share of    *)
(* rounding), and which the account still holds once for each of them.     *)
(*                                                                         *)
(* The books are kept entry by entry: each posting cancels out, each buy   *)
(* adds to account and average cost alike, each sell leaves in the account *)
(* what it earned. By the first entry after which one of these fails, all  *)
(* hold after all.                                                         *)
(***************************************************************************)
EXTENDS TradingProofs

IInv == TypeOK /\ JournalExplainsPositions /\ SellsStayCovered

LEMMA InitInv == Init => IInv
<1> SUFFICES ASSUME Init PROVE IInv
  OBVIOUS
<1>1. TypeOK
  <2>1. /\ cash \in [Currency -> Int] /\ net \in [Instruments -> Int]
        /\ qty \in [Instruments -> Nat] /\ pending \in [Instruments -> Int]
    BY DEF Init, NoOrders
  <2>2. sizing \in [base : Currency, buys : SUBSET Instruments, tolerance : Nat]
    <3>1. "USD" \in Currency /\ {} \in SUBSET Instruments /\ 0 \in Nat
      BY DEF Currency
    <3>2. QED
      BY <3>1 DEF Init, NoSizing
  <2>3. ops \in 0..MaxOps
    BY SizesAssumption DEF Init
  <2>4. /\ running \in BOOLEAN /\ (~running => pending = NoOrders)
        /\ close \in [Instruments -> Prices] /\ refused \subseteq Instruments
    BY DEF Init
  <2>5. QED
    BY <2>1, <2>2, <2>3, <2>4 DEF TypeOK
<1>2. JournalExplainsPositions /\ SellsStayCovered
  BY DEF Init, NoOrders, JournalExplainsPositions, SellsStayCovered
<1>3. QED
  BY <1>1, <1>2 DEF IInv

(* Rounding yields an integer. *)
LEMMA HalfEvenInt ==
  ASSUME NEW n \in Int, NEW d \in Nat \ {0}
  PROVE  HalfEven(n, d) \in Int
<1>1. n \div d \in Int
  OBVIOUS
<1>2. QED
  BY <1>1 DEF HalfEven

(* What a fill makes of the books: the journal moves with the position, or *)
(* the instrument is among those refused.                                  *)
LEMMA FillKeepsBooks ==
  ASSUME IInv, NEW i \in Instruments, NEW shares \in Int, NEW price \in Int, NEW fee \in Int,
         ApplyFill(i, shares, price, fee)
  PROVE  /\ cash' \in [Currency -> Int] /\ net' \in [Instruments -> Int]
         /\ qty' \in [Instruments -> Nat] /\ refused' \subseteq Instruments
         /\ \A j \in Instruments \ {i} : qty'[j] = qty[j]
         /\ JournalExplainsPositions'
<1>1. /\ qty \in [Instruments -> Nat] /\ net \in [Instruments -> Int]
      /\ cash \in [Currency -> Int] /\ refused \subseteq Instruments
  BY DEF IInv, TypeOK
<1>2. cash' \in [Currency -> Int]
  <2> DEFINE paid == cash[CurrencyOf(i)] - shares * price - fee
  <2>1. CurrencyOf(i) \in Currency
    BY DEF CurrencyOf, Currency
  <2>2. paid \in Int
    <3>1. shares * price \in Int /\ cash[CurrencyOf(i)] \in Int
      BY <1>1, <2>1
    <3>2. QED
      BY <3>1
  <2>3. cash' = [cash EXCEPT ![CurrencyOf(i)] = paid]
    BY DEF ApplyFill
  <2> HIDE DEF paid
  <2>4. QED
    BY <1>1, <2>2, <2>3
<1>3. net' = [net EXCEPT ![i] = @ + shares] /\ net' \in [Instruments -> Int]
  BY <1>1 DEF ApplyFill
<1>4. CASE Held(i, shares)
  <2>1. qty' = [qty EXCEPT ![i] = qty[i] + shares] /\ refused' = refused /\ qty[i] + shares \in Nat
    BY <1>1, <1>4 DEF ApplyFill, Held, NewQuantity
  <2>2. JournalExplainsPositions'
    BY <1>1, <1>3, <2>1 DEF IInv, JournalExplainsPositions
  <2>3. QED
    BY <1>1, <1>2, <1>3, <2>1, <2>2
<1>5. CASE ~Held(i, shares)
  <2>1. qty' = qty /\ refused' = refused \cup {i} /\ qty[i] + shares < 0 /\ qty[i] >= 0
    BY <1>1, <1>5 DEF ApplyFill, Held
  <2>2. net[i] <= qty[i]
    BY <1>1 DEF IInv, JournalExplainsPositions
  <2>3. JournalExplainsPositions'
    BY <1>1, <1>3, <2>1, <2>2 DEF IInv, JournalExplainsPositions
  <2>4. QED
    BY <1>1, <1>2, <1>3, <2>1, <2>3
<1>6. QED
  BY <1>4, <1>5

LEMMA InvDeposit ==
  ASSUME IInv, NEW c \in Currency, NEW amount \in Deposits, Deposit(c, amount)
  PROVE  IInv'
<1>1. cash' \in [Currency -> Int] /\ ops' \in 0..MaxOps
  BY SizesAssumption DEF Deposit, Operate, IInv, TypeOK
<1>2. QED
  BY <1>1 DEF Deposit, cycle, IInv, TypeOK, JournalExplainsPositions, SellsStayCovered, Held

LEMMA InvDirectFill ==
  ASSUME IInv, NEW i \in Instruments, NEW shares \in Int, NEW price \in Prices,
         NEW fee \in 0..MaxFee, DirectFill(i, shares, price, fee)
  PROVE  IInv'
<1>1. /\ ApplyFill(i, shares, price, fee) /\ price \in Int /\ fee \in Int
      /\ UNCHANGED <<pending, close, running, sizing>> /\ ~running
  BY SizesAssumption DEF DirectFill, Operate, cycle
<1>2. ops' \in 0..MaxOps
  BY SizesAssumption DEF DirectFill, Operate, IInv, TypeOK
<1>3. QED
  BY <1>1, <1>2, FillKeepsBooks DEF IInv, TypeOK, SellsStayCovered

LEMMA InvStartCycle ==
  ASSUME IInv, NEW signal \in [Instruments -> {-1, 0, 1}], NEW base \in Currency,
         NEW bars \in [Instruments -> Prices], StartCycle(signal, base, bars)
  PROVE  IInv'
<1>1. cash[base] \in Int /\ qty \in [Instruments -> Nat]
  BY DEF IInv, TypeOK
<1>2. ASSUME NEW i \in Instruments
      PROVE  /\ Orders(signal, cash[base], bars)[i] \in Int
             /\ qty[i] + Orders(signal, cash[base], bars)[i] >= 0
  <2> DEFINE bought == HalfEven(cash[base], Weight * bars[i])
  <2>1. Weight * bars[i] \in Nat \ {0}
    <3>1. bars[i] \in Nat \ {0}
      BY SizesAssumption
    <3>2. QED
      BY <3>1, SizesAssumption
  <2>2. bought \in Int
    BY <1>1, <2>1, HalfEvenInt
  <2>3. Orders(signal, cash[base], bars)[i] \in
          {0} \cup (IF bought > 0 THEN {bought} ELSE {}) \cup {-qty[i]}
    BY <1>1 DEF Orders, SellSize
  <2> HIDE DEF bought
  <2>4. qty[i] \in Nat
    BY <1>1
  <2>5. QED
    BY <2>2, <2>3, <2>4
<1>3. pending' = Orders(signal, cash[base], bars) /\ pending' \in [Instruments -> Int]
  BY <1>2 DEF StartCycle, Orders
<1>4. sizing' \in [base : Currency, buys : SUBSET Instruments, tolerance : Nat]
  <2>1. (IF cash[base] < 0 THEN -2 * cash[base] ELSE 0) \in Nat
    BY <1>1
  <2>2. {i \in Instruments : pending'[i] > 0} \in SUBSET Instruments
    OBVIOUS
  <2>3. QED
    BY <2>1, <2>2 DEF StartCycle
<1>5. ops' \in 0..MaxOps /\ running' = TRUE /\ close' = bars
  BY SizesAssumption DEF StartCycle, Operate, IInv, TypeOK
<1>6. UNCHANGED <<cash, qty, net, refused>>
  BY DEF StartCycle, ledger
<1>7. TypeOK'
  BY <1>3, <1>4, <1>5, <1>6 DEF IInv, TypeOK
<1>8. SellsStayCovered'
  BY <1>2, <1>3, <1>6 DEF SellsStayCovered, Held
<1>9. QED
  BY <1>6, <1>7, <1>8 DEF IInv, JournalExplainsPositions

LEMMA InvFill ==
  ASSUME IInv, NEW i \in Instruments, NEW slip \in 0..MaxSlip, NEW fee \in 0..MaxFee,
         Fill(i, slip, fee)
  PROVE  IInv'
<1> DEFINE price == IF pending[i] > 0 THEN close[i] + slip ELSE close[i] - slip
<1>1. pending[i] \in Int /\ close[i] \in Nat /\ price \in Int /\ slip \in Nat /\ fee \in Nat
  <2>1. pending \in [Instruments -> Int] /\ close \in [Instruments -> Prices]
    BY DEF IInv, TypeOK
  <2>2. pending[i] \in Int /\ close[i] \in Nat
    BY <2>1, SizesAssumption
  <2>3. slip \in Nat /\ fee \in Nat
    BY SizesAssumption
  <2>4. QED
    BY <2>2, <2>3
<1>2. ApplyFill(i, pending[i], price, fee) /\ running
  BY DEF Fill
<1>3. Held(i, pending[i])
  BY <1>2 DEF IInv, SellsStayCovered
<1>4. pending' = [pending EXCEPT ![i] = 0] /\ running' = TRUE /\ UNCHANGED <<close, ops>>
  BY <1>3 DEF Fill
<1>5. sizing' \in [base : Currency, buys : SUBSET Instruments, tolerance : Nat]
  <2> DEFINE now == sizing.tolerance
             more == IF pending[i] > 0 THEN now + close[i] + 2 * (slip * pending[i] + fee)
                     ELSE now
  <2>1. sizing \in [base : Currency, buys : SUBSET Instruments, tolerance : Nat]
    BY DEF IInv, TypeOK
  <2>2. more \in Nat
    <3>1. now \in Nat
      BY <2>1
    <3>2. CASE pending[i] > 0
      <4>1. slip * pending[i] \in Nat
        BY <1>1, <3>2
      <4>2. QED
        BY <1>1, <3>1, <4>1
    <3>3. QED
      BY <1>1, <3>1, <3>2
  <2>3. sizing' = [sizing EXCEPT !.tolerance = more]
    BY DEF Fill
  <2> HIDE DEF more
  <2>4. QED
    BY <2>1, <2>2, <2>3
<1> HIDE DEF price
<1>6. TypeOK'
  BY <1>1, <1>2, <1>4, <1>5, FillKeepsBooks DEF IInv, TypeOK
<1>7. SellsStayCovered'
  <2>1. SUFFICES ASSUME NEW j \in Instruments PROVE qty'[j] + pending'[j] >= 0
    BY DEF SellsStayCovered, Held
  <2>2. CASE j = i
    BY <1>4, <1>6, <2>2 DEF IInv, TypeOK
  <2>3. CASE j # i
    BY <1>1, <1>2, <1>4, <2>3, FillKeepsBooks DEF IInv, TypeOK, SellsStayCovered, Held
  <2>4. QED
    BY <2>2, <2>3
<1>8. QED
  BY <1>1, <1>2, <1>6, <1>7, FillKeepsBooks DEF IInv

LEMMA InvNoFill ==
  ASSUME IInv, NEW i \in Instruments, NoFill(i)
  PROVE  IInv'
<1>1. /\ running /\ pending' = [pending EXCEPT ![i] = 0]
      /\ UNCHANGED <<cash, qty, net, refused, close, running, sizing, ops>>
  BY DEF NoFill, ledger
<1>2. QED
  BY <1>1 DEF IInv, TypeOK, JournalExplainsPositions, SellsStayCovered, Held

LEMMA InvEndCycle ==
  ASSUME IInv, EndCycle
  PROVE  IInv'
BY DEF EndCycle, ledger, IInv, TypeOK, JournalExplainsPositions, SellsStayCovered, NoSizing, Currency

LEMMA NextInv == IInv /\ [Next]_vars => IInv'
<1>1. ASSUME IInv, Next PROVE IInv'
  <2>1. ASSUME NEW i \in Instruments, NEW n \in 1..MaxQuantity, NEW price \in Prices,
               NEW fee \in 0..MaxFee,
               DirectFill(i, n, price, fee) \/ DirectFill(i, -n, price, fee)
        PROVE  IInv'
    <3>1. n \in Int /\ -n \in Int
      BY SizesAssumption
    <3>2. QED
      BY <1>1, <2>1, <3>1, InvDirectFill
  <2>2. QED
    BY <1>1, <2>1, InvDeposit, InvStartCycle, InvFill, InvNoFill, InvEndCycle DEF Next
<1>2. ASSUME IInv, UNCHANGED vars PROVE IInv'
  BY <1>2 DEF vars, ledger, cycle, IInv, TypeOK, JournalExplainsPositions, SellsStayCovered, Held
<1>3. QED
  BY <1>1, <1>2

LEMMA InvHolds == Spec => []IInv
BY InitInv, NextInv, PTL DEF Spec

(* Balances, positions and orders keep their shape; no position is short. *)
THEOREM TypeCorrect == Spec => []TypeOK
<1>1. IInv => TypeOK
  BY DEF IInv
<1>2. QED
  BY <1>1, InvHolds, PTL

(* The journal explains every position no sell was refused of. *)
THEOREM JournalExplains == Spec => []JournalExplainsPositions
<1>1. IInv => JournalExplainsPositions
  BY DEF IInv
<1>2. QED
  BY <1>1, InvHolds, PTL

(* A cycle's sells are covered when their turn comes. *)
THEOREM SellsCovered == Spec => []SellsStayCovered
<1>1. IInv => SellsStayCovered
  BY DEF IInv
<1>2. QED
  BY <1>1, InvHolds, PTL

-----------------------------------------------------------------------------
(* The overdraft.                                                          *)

(* Division with remainder. *)
LEMMA Division ==
  ASSUME NEW n \in Int, NEW d \in Nat \ {0}
  PROVE  /\ n \div d \in Int /\ n % d \in 0..d - 1
         /\ n = d * (n \div d) + (n % d)
OBVIOUS

(* Half-even rounding is off by at most one half, and never lifts a        *)
(* negative number above 0.                                                *)
LEMMA HalfEvenBound ==
  ASSUME NEW n \in Int, NEW d \in Nat \ {0}
  PROVE  /\ 2 * (HalfEven(n, d) * d) <= 2 * n + d
         /\ n < 0 => HalfEven(n, d) <= 0
<1> DEFINE q == n \div d
           r == n % d
<1>1. q \in Int /\ r \in Int /\ 0 <= r /\ r < d /\ n = d * q + r
  BY Division
<1>2. HalfEven(n, d) = q \/ (HalfEven(n, d) = q + 1 /\ 2 * r >= d)
  <2>1. HalfEven(n, d) = IF 2 * r > d \/ (2 * r = d /\ q % 2 = 1) THEN q + 1 ELSE q
    BY DEF HalfEven
  <2> HIDE DEF q, r
  <2>2. QED
    BY <2>1, <1>1
<1> HIDE DEF q, r
<1>3. d * q \in Int /\ (q + 1) * d = d * q + d /\ q * d = d * q
  BY <1>1
<1>4. n < 0 => q <= -1
  <2>1. SUFFICES ASSUME n < 0, q >= 0 PROVE FALSE
    BY <1>1
  <2>2. d * q >= 0
    BY <1>1, <2>1
  <2>3. QED
    BY <1>1, <1>3, <2>1, <2>2
<1>5. QED
  BY <1>1, <1>2, <1>3, <1>4

\* The buys the running cycle has not come to.
Left == {i \in Instruments : pending[i] > 0}

\* At most Weight buys, all paid from one account.
Solo == Cardinality(sizing.buys) <= Weight /\ \A i \in sizing.buys : CurrencyOf(i) = sizing.base

\* Twice the price of an order, less the half share it may be rounded up by.
Price2(i) == (2 * pending[i] - 1) * close[i]

\* A budget, fixed when the cycle starts, that pays for each buy left and is there as often as
\* there are buys left.
Covers(budget) ==
  /\ \A i \in Left : Weight * Price2(i) <= budget
  /\ Left \subseteq sizing.buys
  /\ Solo => Weight * (2 * cash[sizing.base] + sizing.tolerance) >= budget * Cardinality(Left)

\* While a cycle runs there is such a budget.
FundsInv == running => \E budget \in Nat : Covers(budget)

(* There are finitely many buys left. *)
LEMMA LeftFinite == IsFiniteSet(Left) /\ Cardinality(Left) \in Nat
<1>1. IsFiniteSet(Left)
  BY SizesAssumption, FS_Subset DEF Left
<1>2. QED
  BY <1>1, FS_CardinalityType

(* Money for every buy left is more than an overdraft. *)
LEMMA OverdraftFollows == IInv /\ FundsInv => OverdraftBounded
<1> SUFFICES ASSUME IInv, FundsInv, running, Solo
             PROVE  2 * cash[sizing.base] >= - sizing.tolerance
  BY DEF OverdraftBounded, Solo
<1>1. PICK budget \in Nat : Covers(budget)
  BY DEF FundsInv
<1> DEFINE funds == 2 * cash[sizing.base] + sizing.tolerance
           held == cash[sizing.base]
           more == sizing.tolerance
<1>2. held \in Int /\ more \in Nat /\ Weight \in Nat \ {0}
  BY SizesAssumption DEF IInv, TypeOK
<1>3. Weight * funds >= budget * Cardinality(Left)
  BY <1>1 DEF Covers
<1>4. budget * Cardinality(Left) >= 0
  <2> DEFINE count == Cardinality(Left)
  <2>1. count \in Nat
    BY LeftFinite
  <2> HIDE DEF count
  <2>2. budget * count >= 0
    BY <2>1
  <2>3. QED
    BY <2>2 DEF count
<1>5. funds \in Int
  BY <1>2
<1>6. Weight * funds >= 0
  <2> DEFINE least == budget * Cardinality(Left)
  <2>1. least \in Int
    BY LeftFinite
  <2> HIDE DEF least, funds
  <2>2. QED
    BY <1>2, <1>3, <1>4, <1>5, <2>1 DEF least
<1>7. funds >= 0
  <2> HIDE DEF funds
  <2>1. SUFFICES ASSUME funds <= -1 PROVE FALSE
    BY <1>5
  <2>2. Weight * funds <= -Weight
    BY <1>2, <1>5, <2>1
  <2>3. QED
    BY <1>2, <1>6, <2>2, <1>5
<1>8. QED
  BY <1>2, <1>7

(* A cycle sizes every buy at a Weight-th of the cash, rounded to whole    *)
(* shares.                                                                 *)
LEMMA FundsStart ==
  ASSUME IInv, NEW signal \in [Instruments -> {-1, 0, 1}], NEW base \in Currency,
         NEW bars \in [Instruments -> Prices], StartCycle(signal, base, bars)
  PROVE  FundsInv'
<1>0. PICK available \in Int : available = cash[base]
  BY DEF IInv, TypeOK
<1>1. PICK budget \in Nat : budget = IF available < 0 THEN 0 ELSE 2 * available
  OBVIOUS
<1>9. Weight \in Nat \ {0}
  BY SizesAssumption
<1>2. ASSUME NEW i \in Left'
      PROVE  available >= 0 /\ Weight * Price2(i)' <= budget
  <2> DEFINE d == Weight * bars[i]
  <2>1. bars[i] \in Nat \ {0} /\ d \in Nat \ {0}
    <3>1. i \in Instruments /\ bars[i] \in Nat \ {0}
      BY SizesAssumption DEF Left
    <3>2. QED
      BY <3>1, <1>9
  <2>2. pending'[i] = HalfEven(available, d) /\ pending'[i] > 0 /\ pending'[i] \in Int
    <3>1. pending'[i] > 0 /\ i \in Instruments /\ qty[i] \in Nat
      BY DEF Left, IInv, TypeOK
    <3>2. pending' = Orders(signal, available, bars)
      BY <1>0 DEF StartCycle
    <3>3. SellSize(i, available, bars[i]) \in Nat
      BY <3>1 DEF SellSize
    <3>4. HalfEven(available, d) \in Int
      BY <1>1, <2>1, HalfEvenInt
    <3>5. pending'[i] = HalfEven(available, d)
      BY <3>1, <3>2, <3>3 DEF Orders
    <3>6. QED
      BY <3>1, <3>4, <3>5
  <2> DEFINE q == pending'[i]
  <2> HIDE DEF d
  <2>3. available >= 0 /\ 2 * (q * d) <= 2 * available + d
    <3>1. /\ 2 * (HalfEven(available, d) * d) <= 2 * available + d
          /\ available < 0 => HalfEven(available, d) <= 0
      BY <2>1, HalfEvenBound
    <3>2. QED
      BY <3>1, <2>2
  <2>4. close'[i] = bars[i]
    BY DEF StartCycle
  <2>5. Weight * ((2 * q - 1) * bars[i]) = 2 * (q * d) - d
    BY <1>9, <2>1, <2>2 DEF d
  <2>6. q * d \in Int
    BY <2>1, <2>2
  <2>7. QED
    <3>1. Price2(i)' = (2 * q - 1) * bars[i]
      BY <2>4 DEF Price2
    <3>2. 2 * (q * d) - d <= 2 * available
      BY <1>1, <2>1, <2>3, <2>6
    <3>3. budget = 2 * available
      BY <1>1, <2>3
    <3>4. QED
      BY <2>3, <2>5, <3>1, <3>2, <3>3
<1>3. Left' = sizing'.buys /\ sizing'.base = base
  BY DEF StartCycle, Left
<1>4. sizing'.tolerance = IF available < 0 THEN -2 * available ELSE 0
  BY <1>0 DEF StartCycle
<1>5. cash'[base] = available
  BY <1>0 DEF StartCycle, ledger
<1>6. Solo' => Weight * (2 * available + sizing'.tolerance) >= budget * Cardinality(Left)'
  <2> SUFFICES ASSUME Solo' PROVE Weight * (2 * available + sizing'.tolerance) >= budget * Cardinality(Left')
    OBVIOUS
  <2> DEFINE count == Cardinality(Left')
  <2>1. count \in Nat /\ count <= Weight
    <3>1. IsFiniteSet(Left')
      BY SizesAssumption, FS_Subset DEF Left
    <3>2. QED
      BY <1>3, <3>1, FS_CardinalityType DEF Solo
  <2>2. 2 * available + sizing'.tolerance = budget
    BY <1>1, <1>4
  <2> HIDE DEF count
  <2>3. Weight * budget >= budget * count
    BY <1>9, <2>1
  <2>4. QED
    BY <2>2, <2>3 DEF count
<1>7. Covers(budget)'
  BY <1>2, <1>3, <1>5, <1>6 DEF Covers
<1>8. QED
  BY <1>1, <1>7 DEF FundsInv

(* A buy costs no more than its share and the slippage and fee that the    *)
(* tolerance takes on; a sell brings money in.                             *)
LEMMA FundsFill ==
  ASSUME IInv, FundsInv, NEW i \in Instruments, NEW slip \in 0..MaxSlip, NEW fee \in 0..MaxFee,
         Fill(i, slip, fee)
  PROVE  FundsInv'
<1> DEFINE q == pending[i]
           p == close[i]
           price == IF q > 0 THEN p + slip ELSE p - slip
           funds == 2 * cash[sizing.base] + sizing.tolerance
<1>1. /\ q \in Int /\ p \in Nat /\ slip \in Nat /\ fee \in Nat /\ Weight \in Nat \ {0}
      /\ sizing.tolerance \in Nat /\ sizing.base \in Currency /\ cash \in [Currency -> Int]
      /\ pending \in [Instruments -> Int]
  <2>1. pending \in [Instruments -> Int] /\ close \in [Instruments -> Prices]
    BY DEF IInv, TypeOK
  <2>2. sizing.tolerance \in Nat /\ sizing.base \in Currency /\ cash \in [Currency -> Int]
    BY DEF IInv, TypeOK
  <2>3. Weight \in Nat \ {0} /\ slip \in Nat /\ fee \in Nat
    BY SizesAssumption
  <2>4. close[i] \in Nat /\ pending[i] \in Int
    BY <2>1, SizesAssumption
  <2>5. QED
    BY <2>1, <2>2, <2>3, <2>4
<1>2. running /\ q # 0 /\ price > 0 /\ fee <= price * (IF q > 0 THEN q ELSE -q)
  BY DEF Fill
<1>3. PICK budget \in Nat : Covers(budget)
  BY <1>2 DEF FundsInv
<1>4. /\ pending' = [pending EXCEPT ![i] = 0] /\ close' = close
      /\ sizing' = [sizing EXCEPT !.tolerance = IF q > 0 THEN @ + p + 2 * (slip * q + fee) ELSE @]
      /\ cash' = [cash EXCEPT ![CurrencyOf(i)] = @ - q * price - fee]
  <2>1. Held(i, q)
    BY <1>2 DEF IInv, SellsStayCovered
  <2>2. QED
    BY <2>1 DEF Fill, ApplyFill
<1>5. /\ sizing'.base = sizing.base /\ sizing'.buys = sizing.buys
      /\ sizing'.tolerance = IF q > 0 THEN sizing.tolerance + p + 2 * (slip * q + fee) ELSE sizing.tolerance
  BY <1>4 DEF IInv, TypeOK
<1>6. Left' = Left \ {i} /\ (\A j \in Left' : Price2(j)' = Price2(j)) /\ (Solo' <=> Solo)
  BY <1>1, <1>4, <1>5 DEF Left, Price2, Solo
<1>7. CurrencyOf(i) \in Currency
  BY DEF CurrencyOf, Currency
<1> HIDE DEF q, p, price
<1>8. ASSUME Solo
      PROVE  Weight * (2 * cash'[sizing.base] + sizing'.tolerance) >= budget * Cardinality(Left')
  <2> DEFINE count == Cardinality(Left)
             later == 2 * cash'[sizing.base] + sizing'.tolerance
  <2>1. Weight * funds >= budget * count /\ count \in Nat /\ funds \in Int
    BY <1>1, <1>3, <1>8, LeftFinite DEF Covers
  <2>2. CASE q > 0
    <3>1. i \in Left /\ CurrencyOf(i) = sizing.base
      BY <1>3, <1>8, <2>2 DEF Left, Covers, Solo, q
    <3>2. Cardinality(Left') = count - 1
      BY <1>6, <3>1, LeftFinite, FS_RemoveElement
    <3> DEFINE cost == (2 * q - 1) * p
    <3>3. later = funds - cost /\ cost \in Int
      <4>1. cash'[sizing.base] = cash[sizing.base] - q * (p + slip) - fee
        BY <1>1, <1>2, <1>4, <1>7, <2>2, <3>1 DEF price
      <4>2. q * (p + slip) = q * p + slip * q /\ q * p \in Int /\ slip * q \in Int
        BY <1>1
      <4>3. cost = 2 * (q * p) - p
        BY <1>1
      <4>4. cash[sizing.base] \in Int
        BY <1>1
      <4> HIDE DEF cost
      <4>5. QED
        BY <1>1, <1>5, <2>2, <4>1, <4>2, <4>3, <4>4
    <3>4. Weight * cost <= budget
      BY <1>3, <3>1 DEF Covers, Price2, q, p
    <3> HIDE DEF cost, later, funds, count
    <3>5. Weight * later = Weight * funds - Weight * cost
      BY <1>1, <2>1, <3>3
    <3>6. budget * (count - 1) = budget * count - budget
      BY <2>1
    <3>7. Weight * funds \in Int /\ Weight * cost \in Int /\ budget * count \in Int
      BY <1>1, <2>1, <3>3
    <3>8. Weight * later >= budget * (count - 1)
      BY <2>1, <3>4, <3>5, <3>6, <3>7
    <3>9. QED
      BY <3>2, <3>8 DEF later
  <2>3. CASE q < 0
    <3>1. Left' = Left
      BY <1>6, <1>1, <2>3 DEF Left, q
    <3>2. cash'[sizing.base] >= cash[sizing.base] /\ cash'[sizing.base] \in Int
      <4>1. cash'[CurrencyOf(i)] = cash[CurrencyOf(i)] - q * price - fee
        BY <1>1, <1>4, <1>7
      <4>2. price \in Int /\ q * price \in Int /\ price * (-q) = -(q * price)
        BY <1>1 DEF price
      <4>3. cash'[CurrencyOf(i)] >= cash[CurrencyOf(i)] /\ cash'[CurrencyOf(i)] \in Int
        BY <1>1, <1>2, <1>7, <2>3, <4>1, <4>2
      <4>4. QED
        BY <1>1, <1>4, <1>7, <4>3
    <3>3. later \in Int /\ later >= funds
      BY <1>1, <1>5, <2>3, <3>2
    <3> HIDE DEF later, funds, count
    <3>4. Weight * later >= Weight * funds
      BY <1>1, <2>1, <3>3
    <3>5. Weight * funds \in Int /\ Weight * later \in Int /\ budget * count \in Int
      BY <1>1, <2>1, <3>3
    <3>6. Weight * later >= budget * count
      BY <2>1, <3>4, <3>5
    <3>7. QED
      BY <3>1, <3>6 DEF later, count
  <2>4. QED
    BY <1>1, <1>2, <2>2, <2>3
<1>9. Covers(budget)'
  BY <1>3, <1>5, <1>6, <1>8 DEF Covers
<1>10. QED
  BY <1>9 DEF FundsInv

(* An order that is dropped leaves more for the others. *)
LEMMA FundsNoFill ==
  ASSUME IInv, FundsInv, NEW i \in Instruments, NoFill(i)
  PROVE  FundsInv'
<1>1. PICK budget \in Nat : Covers(budget)
  BY DEF FundsInv, NoFill
<1>2. Left' = Left \ {i} /\ (\A j \in Left' : Price2(j)' = Price2(j)) /\ (Solo' <=> Solo)
  BY DEF NoFill, ledger, IInv, TypeOK, Left, Price2, Solo
<1>3. sizing' = sizing /\ cash' = cash
  BY DEF NoFill, ledger
<1>4. budget * Cardinality(Left') <= budget * Cardinality(Left)
  <2> DEFINE m == Cardinality(Left')
             n == Cardinality(Left)
  <2>1. m \in Nat /\ n \in Nat /\ m <= n
    BY <1>2, LeftFinite, FS_Subset, FS_CardinalityType
  <2> HIDE DEF m, n
  <2>2. budget * m <= budget * n
    BY <2>1
  <2>3. QED
    BY <2>2 DEF m, n
<1>5. Solo => Weight * (2 * cash[sizing.base] + sizing.tolerance) >= budget * Cardinality(Left')
  <2> DEFINE most == budget * Cardinality(Left)
             least == budget * Cardinality(Left')
             funds == Weight * (2 * cash[sizing.base] + sizing.tolerance)
  <2>1. most \in Int
    BY LeftFinite
  <2>2. least \in Int
    <3>1. Cardinality(Left') \in Nat
      BY <1>2, LeftFinite, FS_RemoveElement, FS_CardinalityType
    <3>2. QED
      BY <3>1
  <2>3. funds \in Int
    BY SizesAssumption DEF IInv, TypeOK
  <2>4. Solo => funds >= most
    BY <1>1 DEF Covers
  <2> HIDE DEF most, least, funds
  <2>5. Solo => funds >= least
    BY <1>4, <2>1, <2>2, <2>3, <2>4 DEF most, least
  <2>6. QED
    BY <2>5 DEF funds, least
<1>6. Covers(budget)'
  BY <1>1, <1>2, <1>3, <1>5 DEF Covers
<1>7. QED
  BY <1>6 DEF FundsInv

(* FundsInv holds in every reachable state. *)
LEMMA FundsHolds == Spec => [](IInv /\ FundsInv)
<1>1. Init => FundsInv
  BY DEF Init, FundsInv
<1>2. IInv /\ FundsInv /\ [Next]_vars => FundsInv'
  <2>1. ASSUME IInv, FundsInv, Next PROVE FundsInv'
    <3>1. ASSUME NEW c \in Currency, NEW amount \in Deposits, Deposit(c, amount) PROVE FundsInv'
      BY <3>1 DEF Deposit, Operate, cycle, FundsInv
    <3>2. ASSUME NEW i \in Instruments, NEW n, NEW price, NEW fee, DirectFill(i, n, price, fee)
          PROVE  FundsInv'
      BY <3>2 DEF DirectFill, Operate, cycle, FundsInv
    <3>3. EndCycle => FundsInv'
      BY DEF EndCycle, FundsInv
    <3>4. QED
      BY <2>1, <3>1, <3>2, <3>3, FundsStart, FundsFill, FundsNoFill DEF Next
  <2>2. ASSUME FundsInv, UNCHANGED vars PROVE FundsInv'
    BY <2>2 DEF vars, ledger, cycle, FundsInv, Covers, Left, Price2, Solo
  <2>3. QED
    BY <2>1, <2>2
<1>3. QED
  BY <1>1, <1>2, InitInv, NextInv, PTL DEF Spec

(* A cycle that buys at most Weight instruments in one currency overdraws  *)
(* the account by no more than the rounding, slippage and fees of its own  *)
(* buys, for any instruments, prices and fees (portfolio sizing in         *)
(* packages/broker/engine.py).                                               *)
THEOREM OverdraftIsBounded == Spec => []OverdraftBounded
BY FundsHolds, OverdraftFollows, PTL

-----------------------------------------------------------------------------
(* The accounts.                                                           *)
Cash(c) == <<"cash", c>>
Pnl(c) == <<"pnl", c>>
Fees(c) == <<"fees", c>>
Shares(i) == <<"position", MarketCcy[i], i>>

(* Two currencies, and a market in each.                                   *)
Currencies == {"USD", "CNY"}
Markets == {"us", "cn"}
Local(c) == IF c = "USD" THEN "us" ELSE "cn"

(* All accounts the books of a job can have.                               *)
Ledger == {Cash(c) : c \in Currencies} \cup {Pnl(c) : c \in Currencies}
            \cup {Fees(c) : c \in Currencies} \cup {Shares(i) : i \in Markets}

(* What is held of an instrument, at an average cost.                      *)
Positions == [quantity : Int, cost : Int \X Int]

(* The books are balances of those accounts and positions in those         *)
(* instruments.                                                            *)
WellKept(b) ==
  /\ b = [balance |-> b.balance, position |-> b.position]
  /\ b.balance \in [DOMAIN b.balance -> Int] /\ DOMAIN b.balance \subseteq Ledger
  /\ b.position \in [DOMAIN b.position -> Positions] /\ DOMAIN b.position \subseteq Markets

(* The markets and the currencies go with one another.                     *)
LEMMA MarketsOf ==
  /\ MarketCcy["us"] = "USD" /\ MarketCcy["cn"] = "CNY" /\ Local("USD") = "us" /\ Local("CNY") = "cn"
  /\ \A i \in Markets : MarketCcy[i] \in Currencies /\ Local(MarketCcy[i]) = i
  /\ \A c \in Currencies : Local(c) \in Markets /\ MarketCcy[Local(c)] = c
BY DEF MarketCcy, Markets, Currencies, Local

(* No two accounts are the same.                                           *)
LEMMA AccountsDiffer ==
  ASSUME NEW c, NEW d, NEW i, NEW j
  PROVE  /\ Cash(c) = Cash(d) <=> c = d
         /\ Pnl(c) = Pnl(d) <=> c = d
         /\ Fees(c) = Fees(d) <=> c = d
         /\ i # j => Shares(i) # Shares(j)
         /\ Cash(c) # Pnl(d) /\ Cash(c) # Fees(d) /\ Cash(c) # Shares(i)
         /\ Pnl(c) # Fees(d) /\ Pnl(c) # Shares(i) /\ Fees(c) # Shares(i)
         /\ Cash(c)[1] = "cash" /\ Pnl(c)[1] = "pnl" /\ Fees(c)[1] = "fees" /\ Shares(i)[1] = "position"
         /\ Cash(c)[2] = c /\ Pnl(c)[2] = c /\ Fees(c)[2] = c /\ Shares(i)[2] = MarketCcy[i]
<1>1. /\ Cash(c)[1] = "cash" /\ Pnl(c)[1] = "pnl" /\ Fees(c)[1] = "fees" /\ Shares(i)[1] = "position"
      /\ Cash(d)[1] = "cash" /\ Pnl(d)[1] = "pnl" /\ Fees(d)[1] = "fees" /\ Shares(j)[1] = "position"
  BY DEF Cash, Pnl, Fees, Shares
<1>2. Cash(c)[2] = c /\ Pnl(c)[2] = c /\ Fees(c)[2] = c /\ Shares(i)[2] = MarketCcy[i]
  BY DEF Cash, Pnl, Fees, Shares
<1>3. Cash(d)[2] = d /\ Pnl(d)[2] = d /\ Fees(d)[2] = d /\ Shares(i)[3] = i /\ Shares(j)[3] = j
  BY DEF Cash, Pnl, Fees, Shares
<1>4. i # j => Shares(i) # Shares(j)
  BY <1>3
<1>5. Cash(c) # Pnl(d) /\ Cash(c) # Fees(d) /\ Cash(c) # Shares(i)
  BY <1>1
<1>6. Pnl(c) # Fees(d) /\ Pnl(c) # Shares(i) /\ Fees(c) # Shares(i)
  BY <1>1
<1>7. (Cash(c) = Cash(d) <=> c = d) /\ (Pnl(c) = Pnl(d) <=> c = d) /\ (Fees(c) = Fees(d) <=> c = d)
  BY <1>2, <1>3
<1>8. QED
  BY <1>1, <1>2, <1>4, <1>5, <1>6, <1>7

(* What an element adds to a sum.                                          *)
Part(f, S, x) == IF x \in S THEN f[x] ELSE 0

(* The values in a finite set are integers.                                *)
Summable(f, S) == IsFiniteSet(S) /\ \A i \in S : f[i] \in Int

(* The sum with an element taken out.                                      *)
Separated(f, S, x, rest) ==
  /\ SumOver(f, S) = Part(f, S, x) + SumOver(f, rest)
  /\ Part(f, S, x) \in Int /\ SumOver(f, rest) \in Int

(* Any element may be taken out of a sum, and one that is not in it.       *)
LEMMA SumWithout ==
  ASSUME NEW f, NEW S, Summable(f, S), NEW x, NEW rest, rest = S \ {x}
  PROVE  Separated(f, S, x, rest) /\ Summable(f, rest)
<1>1. IsFiniteSet(rest) /\ \A i \in rest : f[i] \in Int
  BY FS_Subset DEF Summable
<1>2. SumOver(f, rest) \in Int
  BY <1>1, SumIsInt
<1>3. CASE x \in S
  <2>1. SumOver(f, S) = f[x] + SumOver(f, rest)
    BY <1>3, SumStep DEF Summable
  <2>2. QED
    BY <1>1, <1>2, <1>3, <2>1 DEF Part, Separated, Summable
<1>4. CASE x \notin S
  <2>1. SumOver(f, S) = SumOver(f, rest)
    <3>1. rest = S
      BY <1>4
    <3>2. QED
      BY <3>1
  <2>2. Part(f, S, x) = 0
    BY <1>4 DEF Part
  <2>3. QED
    BY <1>1, <1>2, <2>1, <2>2 DEF Separated, Summable
<1>5. QED
  BY <1>3, <1>4

(* A sum over no more than four elements.                                  *)
LEMMA SumOfFour ==
  ASSUME NEW f, NEW w, NEW x, NEW y, NEW z, w # x, w # y, w # z, x # y, x # z, y # z,
         NEW S \in SUBSET {w, x, y, z}, \A i \in S : f[i] \in Int
  PROVE  /\ SumOver(f, S) = Part(f, S, w) + Part(f, S, x) + Part(f, S, y) + Part(f, S, z)
         /\ Part(f, S, w) \in Int /\ Part(f, S, x) \in Int /\ Part(f, S, y) \in Int /\ Part(f, S, z) \in Int
<1>1. IsFiniteSet(S)
  <2>1. IsFiniteSet({w, x, y, z})
    <3>1. IsFiniteSet({w}) /\ IsFiniteSet({x}) /\ IsFiniteSet({y}) /\ IsFiniteSet({z})
      BY FS_Singleton
    <3>2. IsFiniteSet({w} \cup {x}) /\ IsFiniteSet({y} \cup {z})
      BY <3>1, FS_Union
    <3>3. IsFiniteSet(({w} \cup {x}) \cup ({y} \cup {z}))
      BY <3>2, FS_Union
    <3>4. {w, x, y, z} = ({w} \cup {x}) \cup ({y} \cup {z})
      OBVIOUS
    <3>5. QED
      BY <3>3, <3>4
  <2>2. QED
    BY <2>1, FS_Subset
<1>2. PICK A, B, C, D : A = S \ {w} /\ B = A \ {x} /\ C = B \ {y} /\ D = C \ {z}
  OBVIOUS
<1>3. Summable(f, S)
  BY <1>1 DEF Summable
<1>4. Separated(f, S, w, A) /\ Summable(f, A)
  BY <1>2, <1>3, SumWithout, Zenon
<1>5. Separated(f, A, x, B) /\ Summable(f, B)
  BY <1>2, <1>4, SumWithout, Zenon
<1>6. Separated(f, B, y, C) /\ Summable(f, C)
  BY <1>2, <1>5, SumWithout, Zenon
<1>7. Separated(f, C, z, D)
  BY <1>2, <1>6, SumWithout, Zenon
<1>8. SumOver(f, D) = 0
  <2>1. D = {}
    BY <1>2
  <2>2. QED
    BY <2>1, SumOfNone
<1>9. Part(f, A, x) = Part(f, S, x) /\ Part(f, B, y) = Part(f, S, y) /\ Part(f, C, z) = Part(f, S, z)
  BY <1>2 DEF Part
<1>10. QED
  BY <1>4, <1>5, <1>6, <1>7, <1>8, <1>9 DEF Separated

(* A posting: legs of accounts of the ledger.                              *)
Legs(legs) == legs \in [DOMAIN legs -> Int] /\ DOMAIN legs \subseteq Ledger

(* Two instances of the same sum.                                          *)
LEMMA LegsAreSummed == ASSUME NEW f PROVE Accounts!SumFunction(f) = SumFunction(f)
BY DEF Accounts!SumFunction, Accounts!SumFunctionOnSet, Accounts!FoldFunctionOnSet, Accounts!MapThenFoldSet,
       SumFunction, SumFunctionOnSet, FoldFunctionOnSet, MapThenFoldSet

(* A posting whose legs cancel out adds each of them to its account.       *)
LEMMA PostBooks ==
  ASSUME NEW b, WellKept(b), NEW legs, Legs(legs), SumFunction(legs) = 0,
         NEW after, after = Accounts!Post(b, legs)
  PROVE  /\ WellKept(after) /\ after.position = b.position
         /\ \A a : Accounts!BalanceOf(after, a) = Accounts!BalanceOf(b, a) + (IF a \in DOMAIN legs THEN legs[a] ELSE 0)
         /\ \A a : Accounts!BalanceOf(after, a) \in Int /\ Accounts!BalanceOf(b, a) \in Int
<1>1. PICK accounts : accounts = DOMAIN b.balance \cup DOMAIN legs
  OBVIOUS
<1>2. PICK changed : changed = [a \in accounts |->
                         Accounts!BalanceOf(b, a) + IF a \in DOMAIN legs THEN legs[a] ELSE 0]
  OBVIOUS
<1>3. after = [b EXCEPT !.balance = changed]
  BY <1>1, <1>2, LegsAreSummed DEF Accounts!Post
<1>4. after = [balance |-> changed, position |-> b.position]
  BY <1>3 DEF WellKept
<1>5. \A a : Accounts!BalanceOf(b, a) \in Int
  BY DEF Accounts!BalanceOf, WellKept
<1>6. \A a : (IF a \in DOMAIN legs THEN legs[a] ELSE 0) \in Int
  BY DEF Legs
<1>7. ASSUME NEW a \in accounts
      PROVE  changed[a] = Accounts!BalanceOf(b, a) + (IF a \in DOMAIN legs THEN legs[a] ELSE 0) /\ changed[a] \in Int
  BY <1>2, <1>5, <1>6
<1>8. DOMAIN changed = accounts /\ changed \in [accounts -> Int]
  BY <1>2, <1>7
<1>9. WellKept(after)
  <2>1. accounts \subseteq Ledger
    BY <1>1 DEF WellKept, Legs
  <2>2. after.balance = changed /\ after.position = b.position
    BY <1>4
  <2>3. QED
    BY <1>4, <1>8, <2>1, <2>2 DEF WellKept
<1>10. ASSUME NEW a
       PROVE  Accounts!BalanceOf(after, a) = Accounts!BalanceOf(b, a) + (IF a \in DOMAIN legs THEN legs[a] ELSE 0)
  <2>1. Accounts!BalanceOf(after, a) = IF a \in accounts THEN changed[a] ELSE 0
    BY <1>4, <1>8 DEF Accounts!BalanceOf
  <2>2. CASE a \in accounts
    BY <1>7, <2>1, <2>2
  <2>3. CASE a \notin accounts
    BY <1>1, <2>1, <2>3 DEF Accounts!BalanceOf
  <2>4. QED
    BY <2>2, <2>3
<1>11. \A a : Accounts!BalanceOf(after, a) \in Int
  BY <1>5, <1>6, <1>10
<1>12. QED
  BY <1>4, <1>5, <1>9, <1>10, <1>11

(* The sum of a function is one over its domain.                           *)
LEMMA SumsAreOver == ASSUME NEW f, f = [a \in DOMAIN f |-> f[a]] PROVE SumFunction(f) = SumOver(f, DOMAIN f)
BY DEF SumOver

(* The sum of a currency's accounts.                                       *)
CcyBalance(b, c) ==
  Accounts!BalanceOf(b, Cash(c)) + Accounts!BalanceOf(b, Pnl(c)) + Accounts!BalanceOf(b, Fees(c))
    + Accounts!BalanceOf(b, Shares(Local(c)))

(* What a step does to the accounts: cash in one currency, shares in its   *)
(* market, and no currency's sum changes.                                  *)
Transacted(b, after, c, paid, moved) ==
  /\ WellKept(after)
  /\ \A d \in Currencies : /\ CcyBalance(after, d) = CcyBalance(b, d)
                           /\ Accounts!BalanceOf(after, Cash(d))
                                = Accounts!BalanceOf(b, Cash(d)) + (IF d = c THEN paid ELSE 0)
                           /\ Accounts!BalanceOf(b, Cash(d)) \in Int
  /\ \A j \in Markets : /\ Accounts!BalanceOf(after, Shares(j))
                             = Accounts!BalanceOf(b, Shares(j)) + (IF MarketCcy[j] = c THEN moved ELSE 0)
                        /\ Accounts!BalanceOf(b, Shares(j)) \in Int

(* A deposit.                                                              *)
LEMMA DepositBooks ==
  ASSUME NEW b, WellKept(b), NEW amount \in Int, NEW after, after = Accounts!BookDeposit(b, "USD", amount)
  PROVE  Transacted(b, after, "USD", amount, 0) /\ after.position = b.position
<1>1. PICK p, q : p = Cash("USD") /\ q = Pnl("USD")
  OBVIOUS
<1>2. PICK legs : legs = [a \in {p, q} |-> IF a[1] = "cash" THEN amount ELSE -amount]
  OBVIOUS
<1>3. p # q /\ p[1] = "cash" /\ q[1] = "pnl"
  BY <1>1, AccountsDiffer
<1>4. DOMAIN legs = {p, q} /\ legs[p] = amount /\ legs[q] = -amount
  BY <1>2, <1>3
<1>5. Legs(legs)
  <2>1. {p, q} \subseteq Ledger
    BY <1>1 DEF Ledger, Currencies
  <2>2. legs = [a \in {p, q} |-> legs[a]] /\ \A a \in {p, q} : legs[a] \in Int
    BY <1>2, <1>4
  <2>3. QED
    BY <1>4, <2>1, <2>2 DEF Legs
<1>6. SumFunction(legs) = 0
  <2>1. SumFunction(legs) = SumOver(legs, {p, q})
    <3>1. legs = [a \in DOMAIN legs |-> legs[a]]
      BY <1>2
    <3>2. QED
      BY <1>4, <3>1, SumsAreOver
  <2>2. PICK y, z : y = Fees("USD") /\ z = Shares("us")
    OBVIOUS
  <2>3. p # y /\ p # z /\ q # y /\ q # z /\ y # z
    BY <1>1, <2>2, AccountsDiffer
  <2>4. {p, q} \in SUBSET {p, q, y, z} /\ \A i \in {p, q} : legs[i] \in Int
    BY <1>4
  <2>5. SumOver(legs, {p, q}) = Part(legs, {p, q}, p) + Part(legs, {p, q}, q) + Part(legs, {p, q}, y) + Part(legs, {p, q}, z)
    BY <1>3, <2>3, <2>4, SumOfFour
  <2>6. /\ Part(legs, {p, q}, p) = amount /\ Part(legs, {p, q}, q) = -amount
        /\ Part(legs, {p, q}, y) = 0 /\ Part(legs, {p, q}, z) = 0
    BY <1>4, <2>3 DEF Part
  <2>7. QED
    BY <2>1, <2>5, <2>6
<1>7. after = Accounts!Post(b, legs)
  BY <1>1, <1>2 DEF Accounts!BookDeposit, Cash, Pnl
<1>8. /\ WellKept(after) /\ after.position = b.position
      /\ \A a : Accounts!BalanceOf(after, a) = Accounts!BalanceOf(b, a) + (IF a \in {p, q} THEN legs[a] ELSE 0)
      /\ \A a : Accounts!BalanceOf(after, a) \in Int /\ Accounts!BalanceOf(b, a) \in Int
  BY <1>4, <1>5, <1>6, <1>7, PostBooks
<1>9. ASSUME NEW d \in Currencies
      PROVE  /\ CcyBalance(after, d) = CcyBalance(b, d)
             /\ Accounts!BalanceOf(after, Cash(d)) = Accounts!BalanceOf(b, Cash(d)) + (IF d = "USD" THEN amount ELSE 0)
  <2>1. Fees(d) \notin {p, q} /\ Shares(Local(d)) \notin {p, q} /\ Cash(d) # q /\ Pnl(d) # p
    BY <1>1, AccountsDiffer
  <2>2. (Cash(d) = p <=> d = "USD") /\ (Pnl(d) = q <=> d = "USD")
    BY <1>1, AccountsDiffer
  <2>3. Accounts!BalanceOf(after, Cash(d)) = Accounts!BalanceOf(b, Cash(d)) + (IF d = "USD" THEN amount ELSE 0)
    BY <1>4, <1>8, <2>1, <2>2
  <2>4. Accounts!BalanceOf(after, Pnl(d)) = Accounts!BalanceOf(b, Pnl(d)) + (IF d = "USD" THEN -amount ELSE 0)
    BY <1>4, <1>8, <2>1, <2>2
  <2>5. /\ Accounts!BalanceOf(after, Fees(d)) = Accounts!BalanceOf(b, Fees(d))
        /\ Accounts!BalanceOf(after, Shares(Local(d))) = Accounts!BalanceOf(b, Shares(Local(d)))
    BY <1>8, <2>1
  <2>6. QED
    BY <1>8, <2>3, <2>4, <2>5 DEF CcyBalance
<1>10. ASSUME NEW j \in Markets
       PROVE  Accounts!BalanceOf(after, Shares(j)) = Accounts!BalanceOf(b, Shares(j))
  <2>1. Shares(j) \notin {p, q}
    BY <1>1, AccountsDiffer
  <2>2. QED
    BY <1>8, <2>1
<1>11. QED
  BY <1>8, <1>9, <1>10 DEF Transacted

(* A fill of an order of the books.                                        *)
IsFill(fill) ==
  /\ fill.instrument \in Markets /\ fill.side \in {-1, 1} /\ fill.quantity \in Nat \ {0}
  /\ fill.price \in Int /\ fill.fee \in Int

(* The posting of one: cash for shares, less the commission.               *)
LEMMA PostFill ==
  ASSUME NEW b, WellKept(b), NEW fill, IsFill(fill), NEW i, i = fill.instrument, NEW c, c = MarketCcy[i],
         NEW n, n = fill.side * fill.quantity * fill.price,
         NEW after, after = Accounts!Post(b, Accounts!FillLegs(fill, c))
  PROVE  Transacted(b, after, c, -n - fill.fee, n) /\ after.position = b.position
<1>1. PICK fee \in Int : fee = fill.fee
  BY DEF IsFill
<1>2. n \in Int
  <2>1. PICK side \in Int, quantity \in Int, price \in Int : side = fill.side /\ quantity = fill.quantity /\ price = fill.price
    BY DEF IsFill
  <2>2. QED
    BY <2>1
<1>3. c \in Currencies /\ i \in Markets /\ Local(c) = i
  BY MarketsOf DEF IsFill
<1>4. PICK p, q, r : p = Cash(c) /\ q = Shares(i) /\ r = Fees(c)
  OBVIOUS
<1>5. PICK legs : legs = [a \in {p, q, r} |-> CASE a[1] = "cash"     -> -n - fee
                                               [] a[1] = "position" -> n
                                               [] OTHER             -> fee]
  OBVIOUS
<1>6. p # q /\ p # r /\ q # r /\ p[1] = "cash" /\ q[1] = "position" /\ r[1] = "fees"
  BY <1>4, AccountsDiffer
<1>7. DOMAIN legs = {p, q, r} /\ legs[p] = -n - fee /\ legs[q] = n /\ legs[r] = fee
  BY <1>5, <1>6
<1>8. Legs(legs)
  <2>1. {p, q, r} \subseteq Ledger
    BY <1>3, <1>4 DEF Ledger
  <2>2. \A a \in {p, q, r} : legs[a] \in Int
    BY <1>1, <1>2, <1>7
  <2>3. legs = [a \in {p, q, r} |-> legs[a]]
    BY <1>5
  <2>4. QED
    BY <1>7, <2>1, <2>2, <2>3 DEF Legs
<1>9. SumFunction(legs) = 0
  <2>1. SumFunction(legs) = SumOver(legs, {p, q, r})
    <3>1. legs = [a \in DOMAIN legs |-> legs[a]]
      BY <1>5
    <3>2. QED
      BY <1>7, <3>1, SumsAreOver
  <2>2. PICK z : z = Pnl(c)
    OBVIOUS
  <2>3. p # z /\ q # z /\ r # z
    BY <1>4, <2>2, AccountsDiffer
  <2>4. {p, q, r} \in SUBSET {p, q, r, z} /\ \A a \in {p, q, r} : legs[a] \in Int
    BY <1>1, <1>2, <1>7
  <2>5. SumOver(legs, {p, q, r}) = Part(legs, {p, q, r}, p) + Part(legs, {p, q, r}, q) + Part(legs, {p, q, r}, r) + Part(legs, {p, q, r}, z)
    BY <1>6, <2>3, <2>4, SumOfFour
  <2>6. /\ Part(legs, {p, q, r}, p) = -n - fee /\ Part(legs, {p, q, r}, q) = n
        /\ Part(legs, {p, q, r}, r) = fee /\ Part(legs, {p, q, r}, z) = 0
    BY <1>7, <2>3 DEF Part
  <2>7. QED
    BY <1>1, <1>2, <2>1, <2>5, <2>6
<1>10. legs = Accounts!FillLegs(fill, c)
  BY <1>1, <1>4, <1>5 DEF Accounts!FillLegs, Cash, Shares, Fees
<1>11. /\ WellKept(after) /\ after.position = b.position
       /\ \A a : Accounts!BalanceOf(after, a) = Accounts!BalanceOf(b, a) + (IF a \in {p, q, r} THEN legs[a] ELSE 0)
       /\ \A a : Accounts!BalanceOf(after, a) \in Int /\ Accounts!BalanceOf(b, a) \in Int
  BY <1>7, <1>8, <1>9, <1>10, PostBooks
<1>12. ASSUME NEW j \in Markets
       PROVE  Accounts!BalanceOf(after, Shares(j)) = Accounts!BalanceOf(b, Shares(j)) + (IF MarketCcy[j] = c THEN n ELSE 0)
  <2>1. Shares(j) # p /\ Shares(j) # r /\ (Shares(j) = q <=> j = i)
    BY <1>4, AccountsDiffer
  <2>2. MarketCcy[j] = c <=> j = i
    BY <1>3, MarketsOf
  <2>3. QED
    BY <1>7, <1>11, <2>1, <2>2
<1>13. ASSUME NEW d \in Currencies
       PROVE  /\ CcyBalance(after, d) = CcyBalance(b, d)
              /\ Accounts!BalanceOf(after, Cash(d)) = Accounts!BalanceOf(b, Cash(d)) + (IF d = c THEN -n - fee ELSE 0)
  <2>1. /\ Cash(d) # q /\ Cash(d) # r /\ Fees(d) # p /\ Fees(d) # q /\ Pnl(d) \notin {p, q, r}
        /\ (Cash(d) = p <=> d = c) /\ (Fees(d) = r <=> d = c)
    BY <1>4, AccountsDiffer
  <2>2. Accounts!BalanceOf(after, Cash(d)) = Accounts!BalanceOf(b, Cash(d)) + (IF d = c THEN -n - fee ELSE 0)
    BY <1>7, <1>11, <2>1
  <2>3. Accounts!BalanceOf(after, Fees(d)) = Accounts!BalanceOf(b, Fees(d)) + (IF d = c THEN fee ELSE 0)
    BY <1>7, <1>11, <2>1
  <2>4. Accounts!BalanceOf(after, Pnl(d)) = Accounts!BalanceOf(b, Pnl(d))
    BY <1>11, <2>1
  <2>5. Accounts!BalanceOf(after, Shares(Local(d))) = Accounts!BalanceOf(b, Shares(Local(d))) + (IF d = c THEN n ELSE 0)
    BY <1>12, MarketsOf
  <2>6. PICK w, x, y, z \in Int : /\ w = Accounts!BalanceOf(b, Cash(d)) /\ x = Accounts!BalanceOf(b, Pnl(d))
                                  /\ y = Accounts!BalanceOf(b, Fees(d)) /\ z = Accounts!BalanceOf(b, Shares(Local(d)))
    BY <1>11
  <2>7. CcyBalance(after, d) = CcyBalance(b, d)
    <3>1. CASE d = c
      <4>1. CcyBalance(after, d) = (w + (-n - fee)) + x + (y + fee) + (z + n)
        BY <2>2, <2>3, <2>4, <2>5, <2>6, <3>1 DEF CcyBalance
      <4>2. CcyBalance(b, d) = w + x + y + z
        BY <2>6 DEF CcyBalance
      <4>3. QED
        BY <1>1, <1>2, <4>1, <4>2
    <3>2. CASE d # c
      <4>1. CcyBalance(after, d) = (w + 0) + x + (y + 0) + (z + 0)
        BY <2>2, <2>3, <2>4, <2>5, <2>6, <3>2 DEF CcyBalance
      <4>2. CcyBalance(b, d) = w + x + y + z
        BY <2>6 DEF CcyBalance
      <4>3. QED
        BY <4>1, <4>2
    <3>3. QED
      BY <3>1, <3>2
  <2>8. QED
    BY <2>2, <2>7
<1>14. QED
  BY <1>1, <1>11, <1>12, <1>13 DEF Transacted

(* What a fill does to the positions.                                      *)
PositionMoves(b, after, fill) ==
  LET i == fill.instrument
      held == Accounts!Holding(b, i)
  IN  /\ \A j \in Markets : j # i => Accounts!Holding(after, j) = Accounts!Holding(b, j)
      /\ Accounts!Oversold(b, fill) => Accounts!Holding(after, i) = held
      /\ ~Accounts!Oversold(b, fill) =>
           /\ Accounts!Holding(after, i).quantity = held.quantity + fill.side * fill.quantity
           /\ Accounts!Holding(after, i).cost = IF fill.side > 0 THEN Accounts!AverageCost(held, fill) ELSE held.cost

(* A holding has a quantity and a cost.                                    *)
LEMMA HoldingTyped ==
  ASSUME NEW b, WellKept(b), NEW i
  PROVE  /\ Accounts!Holding(b, i) \in Positions
         /\ Accounts!Holding(b, i).quantity \in Int /\ Accounts!Holding(b, i).cost \in Int \X Int
<1>1. Accounts!Holding(b, i) \in Positions
  BY DEF Accounts!Holding, WellKept, Positions
<1>2. QED
  BY <1>1 DEF Positions

(* An average cost is a fraction.                                          *)
LEMMA AverageTyped ==
  ASSUME NEW held \in Positions, NEW fill, IsFill(fill)
  PROVE  Accounts!AverageCost(held, fill) \in Int \X Int
<1>1. PICK q, x, y \in Int : q = held.quantity /\ held.cost = <<x, y>>
  BY DEF Positions
<1>2. PICK bought, price \in Int : bought = fill.quantity /\ price = fill.price
  BY DEF IsFill
<1>3. PICK u, v \in Int : u = q * x + bought * price * y /\ v = y * (q + bought)
  BY <1>1, <1>2
<1>4. Accounts!AverageCost(held, fill) = <<u, v>>
  BY <1>1, <1>2, <1>3 DEF Accounts!AverageCost
<1>5. QED
  BY <1>3, <1>4

(* UpdatePosition does that, and leaves the accounts alone.                *)
LEMMA UpdateHolds ==
  ASSUME NEW b, WellKept(b), NEW fill, IsFill(fill), NEW after, after = Accounts!UpdatePosition(b, fill)
  PROVE  WellKept(after) /\ after.balance = b.balance /\ PositionMoves(b, after, fill)
<1>1. PICK i, held : i = fill.instrument /\ held = Accounts!Holding(b, i)
  OBVIOUS
<1>2. CASE Accounts!Oversold(b, fill)
  <2>1. after = b
    BY <1>2 DEF Accounts!UpdatePosition
  <2>2. QED
    BY <1>2, <2>1 DEF PositionMoves
<1>3. CASE ~Accounts!Oversold(b, fill)
  <2>1. PICK now : now = [quantity |-> held.quantity + fill.side * fill.quantity,
                          cost |-> IF fill.side > 0 THEN Accounts!AverageCost(held, fill) ELSE held.cost]
    OBVIOUS
  <2>2. PICK moved : moved = [j \in DOMAIN b.position \cup {i} |-> IF j = i THEN now ELSE b.position[j]]
    OBVIOUS
  <2>3. after = [b EXCEPT !.position = moved]
    BY <1>1, <1>3, <2>1, <2>2 DEF Accounts!UpdatePosition
  <2>4. after = [balance |-> b.balance, position |-> moved]
    BY <2>3 DEF WellKept
  <2>5. now \in Positions
    <3>1. held \in Positions /\ held.quantity \in Int /\ held.cost \in Int \X Int
      BY <1>1, HoldingTyped
    <3>2. Accounts!AverageCost(held, fill) \in Int \X Int
      BY <3>1, AverageTyped
    <3>3. held.quantity + fill.side * fill.quantity \in Int
      BY <3>1 DEF IsFill
    <3>4. QED
      BY <2>1, <3>1, <3>2, <3>3 DEF Positions
  <2>6. DOMAIN moved = DOMAIN b.position \cup {i} /\ moved[i] = now
        /\ \A j \in DOMAIN b.position : j # i => moved[j] = b.position[j]
    BY <2>2
  <2>7. WellKept(after)
    <3>1. \A j \in DOMAIN moved : moved[j] \in Positions
      BY <2>5, <2>6 DEF WellKept
    <3>2. moved = [j \in DOMAIN moved |-> moved[j]]
      BY <2>2
    <3>3. DOMAIN moved \subseteq Markets
      BY <1>1, <2>6 DEF WellKept, IsFill
    <3>4. after.balance = b.balance /\ after.position = moved
      BY <2>4
    <3>5. QED
      BY <2>4, <3>1, <3>2, <3>3, <3>4 DEF WellKept
  <2>8. Accounts!Holding(after, i) = now
    BY <2>4, <2>6 DEF Accounts!Holding
  <2>9. ASSUME NEW j \in Markets, j # i PROVE Accounts!Holding(after, j) = Accounts!Holding(b, j)
    BY <2>4, <2>6, <2>9 DEF Accounts!Holding
  <2>10. after.balance = b.balance
    BY <2>4
  <2>11. now.quantity = held.quantity + fill.side * fill.quantity
         /\ now.cost = IF fill.side > 0 THEN Accounts!AverageCost(held, fill) ELSE held.cost
    BY <2>1
  <2>12. QED
    BY <1>1, <1>3, <2>7, <2>8, <2>9, <2>10, <2>11 DEF PositionMoves
<1>4. QED
  BY <1>2, <1>3

(* A fill does both.                                                       *)
LEMMA FillBooks ==
  ASSUME NEW b, WellKept(b), NEW fill, IsFill(fill), NEW c, c = MarketCcy[fill.instrument],
         NEW n, n = fill.side * fill.quantity * fill.price,
         NEW after, after = Accounts!BookFill(b, fill, c)
  PROVE  Transacted(b, after, c, -n - fill.fee, n) /\ PositionMoves(b, after, fill)
<1>1. PICK posted : posted = Accounts!Post(b, Accounts!FillLegs(fill, c))
  OBVIOUS
<1>2. Transacted(b, posted, c, -n - fill.fee, n) /\ posted.position = b.position
  BY <1>1, PostFill
<1>3. after = Accounts!UpdatePosition(posted, fill)
  BY <1>1 DEF Accounts!BookFill
<1>4. WellKept(posted)
  BY <1>2 DEF Transacted
<1>5. WellKept(after) /\ after.balance = posted.balance /\ PositionMoves(posted, after, fill)
  BY <1>3, <1>4, UpdateHolds
<1>6. \A a : Accounts!BalanceOf(after, a) = Accounts!BalanceOf(posted, a)
  BY <1>5 DEF Accounts!BalanceOf
<1>7. \A d : CcyBalance(after, d) = CcyBalance(posted, d)
  BY <1>6 DEF CcyBalance
<1>8. Transacted(b, after, c, -n - fill.fee, n)
  BY <1>2, <1>5, <1>6, <1>7 DEF Transacted
<1>9. \A j : Accounts!Holding(posted, j) = Accounts!Holding(b, j)
  BY <1>2 DEF Accounts!Holding
<1>10. Accounts!Oversold(posted, fill) <=> Accounts!Oversold(b, fill)
  BY <1>9 DEF Accounts!Oversold
<1>11. PositionMoves(b, after, fill)
  BY <1>5, <1>9, <1>10 DEF PositionMoves
<1>12. QED
  BY <1>8, <1>11

(* The entries of a list put to the books.                                 *)
IsDeposit(entry) == entry[1] = "deposit" /\ entry[2] \in Int

IsOrder(entry) ==
  /\ entry[1] = "order" /\ entry[2] \in Markets /\ entry[3] \in {-1, 1} /\ entry[4] \in Nat
  /\ entry[5] = None \/ entry[5] \in Int
  /\ entry[6] \in [low : Int, high : Int, close : Nat \ {0}]

(* Such lists: of any length, deposits of any amount and orders of any     *)
(* quantity, limit and bar.                                                *)
IsTodo(todo) ==
  /\ Len(todo) \in Nat /\ DOMAIN todo = 1..Len(todo)
  /\ \A k \in 1..Len(todo) : IsDeposit(todo[k]) \/ IsOrder(todo[k])

(* A filled order has a fill, and a market order is filled at the close    *)
(* and the slippage.                                                       *)
LEMMA FillTyped ==
  ASSUME NEW todo, IsTodo(todo), NEW k \in FilledOrders(todo), NEW fill, fill = FillOf(todo, k)
  PROVE  /\ IsFill(fill) /\ IsOrder(todo[k]) /\ k \in 1..Len(todo)
         /\ fill.id = k /\ fill.instrument = todo[k][2] /\ fill.side = todo[k][3]
         /\ todo[k][5] = None => fill.price = todo[k][6].close + fill.side
<1>1. k \in 1..Len(todo) /\ todo[k][1] = "order" /\ fill # None
  BY DEF FilledOrders, Ordered, IsTodo
<1>2. IsOrder(todo[k])
  BY <1>1 DEF IsTodo, IsDeposit
<1>3. PICK order : order = OrderOf(todo, k)
  OBVIOUS
<1>4. /\ order.id = k /\ order.instrument = todo[k][2] /\ order.side = todo[k][3]
      /\ order.quantity = todo[k][4] /\ order.limit = todo[k][5]
  BY <1>3 DEF OrderOf
<1>5. PICK price : price = IF order.limit = None THEN todo[k][6].close + order.side * Brokerage.slip ELSE order.limit
  OBVIOUS
<1>6. order.quantity \in Nat /\ order.side \in {-1, 1} /\ Brokerage.slip = 1 /\ Brokerage.fee = 1
  BY <1>2, <1>4 DEF IsOrder, Brokerage
<1>7. todo[k][6].close \in Int
  BY <1>2 DEF IsOrder
<1>8. price \in Int /\ (order.limit = None => price = todo[k][6].close + order.side)
  <2>1. order.side * 1 = order.side /\ order.side \in Int
    BY <1>6
  <2>2. order.limit # None => order.limit \in Int
    BY <1>2, <1>4 DEF IsOrder
  <2>3. QED
    BY <1>5, <1>6, <1>7, <2>1, <2>2
<1>9. /\ ~ (order.quantity <= 0)
      /\ fill = [id |-> order.id, instrument |-> order.instrument, side |-> order.side,
                 quantity |-> order.quantity, price |-> price, fee |-> Brokerage.fee]
  BY <1>1, <1>3, <1>5 DEF FillOf, Accounts!FillOrder
<1>10. IsFill(fill)
  BY <1>2, <1>4, <1>6, <1>8, <1>9 DEF IsFill, IsOrder
<1>11. QED
  BY <1>1, <1>2, <1>4, <1>8, <1>9, <1>10

-----------------------------------------------------------------------------
(* Books start empty.                                                      *)
LEMMA EmptyIsKept ==
  /\ WellKept(Accounts!EmptyBook)
  /\ \A a : Accounts!BalanceOf(Accounts!EmptyBook, a) = 0
  /\ \A c : CcyBalance(Accounts!EmptyBook, c) = 0
  /\ \A i : Accounts!Holding(Accounts!EmptyBook, i) = [quantity |-> 0, cost |-> <<0, 1>>]
<1>1. DOMAIN Accounts!EmptyBook.balance = {} /\ DOMAIN Accounts!EmptyBook.position = {}
  BY DEF Accounts!EmptyBook
<1>2. WellKept(Accounts!EmptyBook)
  BY DEF WellKept, Accounts!EmptyBook
<1>3. \A a : Accounts!BalanceOf(Accounts!EmptyBook, a) = 0
  BY <1>1 DEF Accounts!BalanceOf
<1>4. \A c : CcyBalance(Accounts!EmptyBook, c) = 0
  BY <1>3 DEF CcyBalance
<1>5. \A i : Accounts!Holding(Accounts!EmptyBook, i) = [quantity |-> 0, cost |-> <<0, 1>>]
  BY <1>1 DEF Accounts!Holding
<1>6. QED
  BY <1>2, <1>3, <1>4, <1>5

(* The recursive function of the books, and the one of the earnings.       *)
BookWalk(todo, f) ==
  f = [n \in 0..Len(todo) |-> IF n = 0 THEN Accounts!EmptyBook ELSE BookStep(todo, f[n - 1], n)]

EarningWalk(todo, i, f) ==
  f = [n \in 0..Len(todo) |-> IF n = 0 THEN <<0, 1>> ELSE Sum(f[n - 1], Earning(todo, i, n))]

(* BooksOf and Earned are chosen so.                                       *)
LEMMA WalksOfBooks ==
  ASSUME NEW todo
  PROVE  /\ BooksOf(todo) = CHOOSE f : BookWalk(todo, f)
         /\ \A i : Earned(todo, i) = (CHOOSE f : EarningWalk(todo, i, f))[Len(todo)]
BY DEF BooksOf, Earned, BookWalk, EarningWalk

(* There are such books, each made of the ones before by a step.           *)
LEMMA BooksExist ==
  ASSUME NEW todo, Len(todo) \in Nat, NEW book, book = BooksOf(todo)
  PROVE  /\ book[0] = Accounts!EmptyBook
         /\ \A k \in 1..Len(todo) : book[k] = BookStep(todo, book[k - 1], k)
<1>1. PICK n \in Nat : n = Len(todo)
  OBVIOUS
<1> DEFINE Walk(f, m) == f = [k \in 0..m |-> IF k = 0 THEN Accounts!EmptyBook ELSE BookStep(todo, f[k - 1], k)]
           Good(m) == \E f : Walk(f, m)
           Bad == {m \in 0..n : ~Good(m)}
<1>2. Good(0)
  <2>1. PICK f : f = [k \in 0..0 |-> Accounts!EmptyBook]
    OBVIOUS
  <2>2. Walk(f, 0)
    BY <2>1
  <2>3. QED
    BY <2>2
<1>3. ASSUME NEW m \in Nat, Good(m) PROVE Good(m + 1)
  <2>1. PICK f : Walk(f, m)
    BY <1>3
  <2>2. PICK g : g = [k \in 0..m + 1 |-> IF k = m + 1 THEN BookStep(todo, f[m], m + 1) ELSE f[k]]
    OBVIOUS
  <2>3. ASSUME NEW k \in 0..m + 1
        PROVE  g[k] = IF k = 0 THEN Accounts!EmptyBook ELSE BookStep(todo, g[k - 1], k)
    <3>1. CASE k = m + 1
      <4>1. k - 1 = m /\ m \in 0..m + 1 /\ m # m + 1 /\ k # 0
        BY <3>1
      <4>2. g[k] = BookStep(todo, f[m], m + 1) /\ g[m] = f[m]
        BY <2>2, <3>1, <4>1
      <4>3. QED
        BY <3>1, <4>1, <4>2
    <3>2. CASE k # m + 1
      <4>1. k \in 0..m /\ (k # 0 => k - 1 \in 0..m + 1 /\ k - 1 # m + 1)
        BY <3>2
      <4>2. f[k] = IF k = 0 THEN Accounts!EmptyBook ELSE BookStep(todo, f[k - 1], k)
        BY <2>1, <4>1
      <4>3. g[k] = f[k] /\ (k # 0 => g[k - 1] = f[k - 1])
        BY <2>2, <3>2, <4>1
      <4>4. QED
        BY <4>2, <4>3
    <3>3. QED
      BY <3>1, <3>2
  <2>4. g = [k \in 0..m + 1 |-> g[k]]
    BY <2>2
  <2>5. Walk(g, m + 1)
    BY <2>3, <2>4
  <2>6. QED
    BY <2>5
<1> HIDE DEF Good
<1>4. Bad = {}
  <2>1. SUFFICES ASSUME Bad # {} PROVE FALSE
    OBVIOUS
  <2>2. PICK m \in Bad : \A e \in Bad : m <= e
    <3>1. Bad \subseteq Nat
      OBVIOUS
    <3>2. QED
      BY <2>1, <3>1, LeastExists
  <2>3. m \in Nat /\ m # 0 /\ m \in 0..n /\ ~Good(m)
    BY <1>2, <2>2
  <2>4. m - 1 \in Nat /\ m - 1 \in 0..n /\ m - 1 \notin Bad /\ (m - 1) + 1 = m
    BY <2>2, <2>3
  <2>5. Good(m - 1)
    BY <2>4
  <2>6. QED
    BY <1>3, <2>3, <2>4, <2>5
<1>5. PICK f : BookWalk(todo, f)
  BY <1>1, <1>4 DEF Good, BookWalk
<1>6. BookWalk(todo, book)
  BY <1>5, WalksOfBooks, Zenon
<1>7. 0 \in 0..n /\ \A k \in 1..n : k \in 0..n /\ k # 0
  BY <1>1
<1>8. QED
  BY <1>1, <1>6, <1>7 DEF BookWalk

(* There are such earnings.                                                *)
LEMMA EarningsExist ==
  ASSUME NEW todo, Len(todo) \in Nat, NEW i
  PROVE  \E f : /\ Earned(todo, i) = f[Len(todo)] /\ f[0] = <<0, 1>>
                /\ \A k \in 1..Len(todo) : f[k] = Sum(f[k - 1], Earning(todo, i, k))
<1>1. PICK n \in Nat : n = Len(todo)
  OBVIOUS
<1> DEFINE Walk(f, m) == f = [k \in 0..m |-> IF k = 0 THEN <<0, 1>> ELSE Sum(f[k - 1], Earning(todo, i, k))]
           Good(m) == \E f : Walk(f, m)
           Bad == {m \in 0..n : ~Good(m)}
<1>2. Good(0)
  <2>1. PICK f : f = [k \in 0..0 |-> <<0, 1>>]
    OBVIOUS
  <2>2. Walk(f, 0)
    BY <2>1
  <2>3. QED
    BY <2>2
<1>3. ASSUME NEW m \in Nat, Good(m) PROVE Good(m + 1)
  <2>1. PICK f : Walk(f, m)
    BY <1>3
  <2>2. PICK g : g = [k \in 0..m + 1 |-> IF k = m + 1 THEN Sum(f[m], Earning(todo, i, m + 1)) ELSE f[k]]
    OBVIOUS
  <2>3. ASSUME NEW k \in 0..m + 1
        PROVE  g[k] = IF k = 0 THEN <<0, 1>> ELSE Sum(g[k - 1], Earning(todo, i, k))
    <3>1. CASE k = m + 1
      <4>1. k - 1 = m /\ m \in 0..m + 1 /\ m # m + 1 /\ k # 0
        BY <3>1
      <4>2. g[k] = Sum(f[m], Earning(todo, i, m + 1)) /\ g[m] = f[m]
        BY <2>2, <3>1, <4>1
      <4>3. QED
        BY <3>1, <4>1, <4>2
    <3>2. CASE k # m + 1
      <4>1. k \in 0..m /\ (k # 0 => k - 1 \in 0..m + 1 /\ k - 1 # m + 1)
        BY <3>2
      <4>2. f[k] = IF k = 0 THEN <<0, 1>> ELSE Sum(f[k - 1], Earning(todo, i, k))
        BY <2>1, <4>1
      <4>3. g[k] = f[k] /\ (k # 0 => g[k - 1] = f[k - 1])
        BY <2>2, <3>2, <4>1
      <4>4. QED
        BY <4>2, <4>3
    <3>3. QED
      BY <3>1, <3>2
  <2>4. g = [k \in 0..m + 1 |-> g[k]]
    BY <2>2
  <2>5. Walk(g, m + 1)
    BY <2>3, <2>4
  <2>6. QED
    BY <2>5
<1> HIDE DEF Good
<1>4. Bad = {}
  <2>1. SUFFICES ASSUME Bad # {} PROVE FALSE
    OBVIOUS
  <2>2. PICK m \in Bad : \A e \in Bad : m <= e
    <3>1. Bad \subseteq Nat
      OBVIOUS
    <3>2. QED
      BY <2>1, <3>1, LeastExists
  <2>3. m \in Nat /\ m # 0 /\ m \in 0..n /\ ~Good(m)
    BY <1>2, <2>2
  <2>4. m - 1 \in Nat /\ m - 1 \in 0..n /\ m - 1 \notin Bad /\ (m - 1) + 1 = m
    BY <2>2, <2>3
  <2>5. Good(m - 1)
    BY <2>4
  <2>6. QED
    BY <1>3, <2>3, <2>4, <2>5
<1>5. PICK f : EarningWalk(todo, i, f)
  BY <1>1, <1>4 DEF Good, EarningWalk
<1>6. PICK g : g = CHOOSE h : EarningWalk(todo, i, h)
  OBVIOUS
<1>7. EarningWalk(todo, i, g)
  BY <1>5, <1>6, Zenon
<1>8. Earned(todo, i) = g[Len(todo)]
  BY <1>6, WalksOfBooks, Zenon
<1>9. 0 \in 0..n /\ \A k \in 1..n : k \in 0..n /\ k # 0
  BY <1>1
<1>10. g[0] = <<0, 1>> /\ \A k \in 1..Len(todo) : g[k] = Sum(g[k - 1], Earning(todo, i, k))
  BY <1>1, <1>7, <1>9 DEF EarningWalk
<1>11. QED
  BY <1>8, <1>10

(* A step keeps the books, and the sum of every currency.                  *)
LEMMA StepKeeps ==
  ASSUME NEW todo, IsTodo(todo), NEW k \in 1..Len(todo), NEW b, WellKept(b), NEW after, after = BookStep(todo, b, k)
  PROVE  WellKept(after) /\ \A c \in Currencies : CcyBalance(after, c) = CcyBalance(b, c)
<1>1. CASE k \in FilledOrders(todo)
  <2>1. PICK fill, c : fill = FillOf(todo, k) /\ c = MarketCcy[fill.instrument]
    OBVIOUS
  <2>2. after = Accounts!BookFill(b, fill, c)
    BY <1>1, <2>1 DEF BookStep
  <2>3. IsFill(fill)
    BY <1>1, <2>1, FillTyped, Zenon
  <2>4. PICK n : n = fill.side * fill.quantity * fill.price
    OBVIOUS
  <2>5. Transacted(b, after, c, -n - fill.fee, n)
    BY <2>1, <2>2, <2>3, <2>4, FillBooks
  <2>6. QED
    BY <2>5 DEF Transacted
<1>2. CASE k \notin FilledOrders(todo) /\ k \in Ordered(todo)
  <2>1. after = b
    BY <1>2 DEF BookStep
  <2>2. QED
    BY <2>1
<1>3. CASE k \notin Ordered(todo)
  <2>1. k \notin FilledOrders(todo)
    BY <1>3 DEF FilledOrders
  <2>2. PICK amount : amount = todo[k][2]
    OBVIOUS
  <2>3. after = Accounts!BookDeposit(b, "USD", amount)
    BY <1>3, <2>1, <2>2 DEF BookStep
  <2>4. amount \in Int
    BY <1>3, <2>2 DEF Ordered, IsTodo, IsOrder, IsDeposit
  <2>5. Transacted(b, after, "USD", amount, 0)
    BY <2>3, <2>4, DepositBooks
  <2>6. QED
    BY <2>5 DEF Transacted
<1>4. QED
  BY <1>1, <1>2, <1>3

(* So all the books are kept, and every sum is 0.                          *)
LEMMA AllKept ==
  ASSUME NEW todo, IsTodo(todo), NEW book, book = BooksOf(todo)
  PROVE  \A n \in 0..Len(todo) : WellKept(book[n]) /\ \A c \in Currencies : CcyBalance(book[n], c) = 0
<1> DEFINE Kept(n) == WellKept(book[n]) /\ \A c \in Currencies : CcyBalance(book[n], c) = 0
           Bad == {n \in 0..Len(todo) : ~Kept(n)}
<1>1. Len(todo) \in Nat
  BY DEF IsTodo
<1>2. /\ book[0] = Accounts!EmptyBook
      /\ \A k \in 1..Len(todo) : book[k] = BookStep(todo, book[k - 1], k)
  BY <1>1, BooksExist
<1>3. Kept(0)
  BY <1>2, EmptyIsKept
<1>4. ASSUME NEW k \in 1..Len(todo), Kept(k - 1) PROVE Kept(k)
  <2>1. PICK b, after : b = book[k - 1] /\ after = book[k]
    OBVIOUS
  <2>2. after = BookStep(todo, b, k) /\ WellKept(b) /\ \A c \in Currencies : CcyBalance(b, c) = 0
    BY <1>2, <1>4, <2>1
  <2>3. WellKept(after) /\ \A c \in Currencies : CcyBalance(after, c) = CcyBalance(b, c)
    BY <2>2, StepKeeps
  <2>4. QED
    BY <2>1, <2>2, <2>3
<1> HIDE DEF Kept
<1>5. Bad = {}
  <2>1. SUFFICES ASSUME Bad # {} PROVE FALSE
    OBVIOUS
  <2>2. PICK m \in Bad : \A e \in Bad : m <= e
    <3>1. Bad \subseteq Nat
      BY <1>1
    <3>2. QED
      BY <2>1, <3>1, LeastExists
  <2>3. m \in 0..Len(todo) /\ ~Kept(m) /\ m # 0
    BY <1>3, <2>2
  <2>4. m \in 1..Len(todo) /\ m - 1 \in 0..Len(todo) /\ m - 1 < m
    BY <1>1, <2>3
  <2>5. Kept(m - 1)
    BY <2>2, <2>4
  <2>6. QED
    BY <1>4, <2>3, <2>4, <2>5
<1>6. QED
  BY <1>5 DEF Kept

-----------------------------------------------------------------------------
(* The accounts of a currency are those four.                              *)
LEMMA AccountsCancel ==
  ASSUME NEW b, WellKept(b), NEW c \in Currencies, CcyBalance(b, c) = 0,
         NEW S, S = {a \in DOMAIN b.balance : a[2] = c}
  PROVE  SumFunction([a \in S |-> b.balance[a]]) = 0
<1>1. PICK w, x, y, z : w = Cash(c) /\ x = Pnl(c) /\ y = Fees(c) /\ z = Shares(Local(c))
  OBVIOUS
<1>2. MarketCcy[Local(c)] = c
  BY MarketsOf
<1>3. w # x /\ w # y /\ w # z /\ x # y /\ x # z /\ y # z
  BY <1>1, AccountsDiffer
<1>4. w[2] = c /\ x[2] = c /\ y[2] = c /\ z[2] = c
  BY <1>1, <1>2, AccountsDiffer
<1>5. ASSUME NEW a \in S PROVE a \in {w, x, y, z}
  <2>1. a \in Ledger /\ a[2] = c
    BY DEF WellKept
  <2>2. CASE \E d \in Currencies : a = Cash(d)
    BY <1>1, <2>1, <2>2, AccountsDiffer
  <2>3. CASE \E d \in Currencies : a = Pnl(d)
    BY <1>1, <2>1, <2>3, AccountsDiffer
  <2>4. CASE \E d \in Currencies : a = Fees(d)
    BY <1>1, <2>1, <2>4, AccountsDiffer
  <2>5. CASE \E j \in Markets : a = Shares(j)
    <3>1. PICK j \in Markets : a = Shares(j)
      BY <2>5
    <3>2. MarketCcy[j] = c
      BY <2>1, <3>1, AccountsDiffer
    <3>3. j = Local(c)
      BY <3>2, MarketsOf
    <3>4. QED
      BY <1>1, <3>1, <3>3
  <2>6. QED
    BY <2>1, <2>2, <2>3, <2>4, <2>5 DEF Ledger
<1>6. S \in SUBSET {w, x, y, z}
  BY <1>5
<1>7. \A a \in S : b.balance[a] \in Int
  BY DEF WellKept
<1>8. PICK f : f = b.balance
  OBVIOUS
<1>9. SumOver(f, S) = Part(f, S, w) + Part(f, S, x) + Part(f, S, y) + Part(f, S, z)
  BY <1>3, <1>6, <1>7, <1>8, SumOfFour
<1>10. /\ Part(f, S, w) = Accounts!BalanceOf(b, w) /\ Part(f, S, x) = Accounts!BalanceOf(b, x)
       /\ Part(f, S, y) = Accounts!BalanceOf(b, y) /\ Part(f, S, z) = Accounts!BalanceOf(b, z)
  BY <1>4, <1>8 DEF Part, Accounts!BalanceOf
<1>11. CcyBalance(b, c) = Accounts!BalanceOf(b, w) + Accounts!BalanceOf(b, x) + Accounts!BalanceOf(b, y) + Accounts!BalanceOf(b, z)
  BY <1>1 DEF CcyBalance
<1>12. SumOver(f, S) = 0
  BY <1>9, <1>10, <1>11
<1>13. QED
  BY <1>8, <1>12 DEF SumOver

(* The position account and the average cost differ by what was earned.    *)
CostAgrees(account, earned, quantity, cost) ==
  Equal(Sum(<<account, 1>>, earned), <<quantity * cost[1], cost[2]>>)

(* As a statement on integers.                                             *)
CostBalances(P, e1, e2, q, c1, c2) == (P * e2 + e1) * c2 = (q * c1) * e2

(* It says the same.                                                       *)
LEMMA CostIn ==
  ASSUME NEW P \in Int, NEW e1 \in Int, NEW e2 \in Int, NEW q \in Int, NEW c1 \in Int, NEW c2 \in Int
  PROVE  CostAgrees(P, <<e1, e2>>, q, <<c1, c2>>) <=> CostBalances(P, e1, e2, q, c1, c2)
<1>1. Sum(<<P, 1>>, <<e1, e2>>) = <<P * e2 + e1, e2>>
  <2>1. P * e2 + e1 * 1 = P * e2 + e1 /\ 1 * e2 = e2
    OBVIOUS
  <2>2. QED
    BY <2>1 DEF Sum
<1>2. PICK x, y \in Int : x = P * e2 + e1 /\ y = q * c1
  OBVIOUS
<1>3. PICK a, b, c : a = <<x, e2>> /\ b = <<y, c2>> /\ c = <<c1, c2>>
  OBVIOUS
<1>4. a[1] = x /\ a[2] = e2 /\ b[1] = y /\ b[2] = c2 /\ c[1] = c1 /\ c[2] = c2
  BY <1>3
<1>5. CostAgrees(P, <<e1, e2>>, q, <<c1, c2>>) <=> Equal(a, b)
  BY <1>1, <1>2, <1>3, <1>4 DEF CostAgrees
<1>6. Equal(a, b) <=> x * c2 = y * e2
  BY <1>4 DEF Equal
<1>7. QED
  BY <1>2, <1>5, <1>6 DEF CostBalances

(* Earning nothing.                                                        *)
LEMMA NothingEarned ==
  ASSUME NEW e \in Int \X Int
  PROVE  Sum(e, <<0, 1>>) = e
<1>1. PICK x, y \in Int : e = <<x, y>>
  OBVIOUS
<1>2. x * 1 + 0 * y = x /\ y * 1 = y
  OBVIOUS
<1>3. QED
  BY <1>1, <1>2 DEF Sum

(* A buy adds to account and cost alike.                                   *)
LEMMA BuyAgrees ==
  ASSUME NEW P \in Int, NEW e \in Int \X Int, NEW held \in Positions, NEW fill, IsFill(fill), fill.side = 1,
         CostAgrees(P, e, held.quantity, held.cost)
  PROVE  CostAgrees(P + fill.side * fill.quantity * fill.price, Sum(e, <<0, 1>>),
                    held.quantity + fill.side * fill.quantity, Accounts!AverageCost(held, fill))
<1>1. PICK e1, e2 \in Int : e = <<e1, e2>>
  OBVIOUS
<1>2. PICK q, c1, c2 \in Int : q = held.quantity /\ held.cost = <<c1, c2>>
  BY DEF Positions
<1>3. PICK m, p \in Int : m = fill.quantity /\ p = fill.price
  BY DEF IsFill
<1>4. (P * e2 + e1) * c2 = (q * c1) * e2
  <2>1. CostAgrees(P, <<e1, e2>>, q, <<c1, c2>>)
    BY <1>1, <1>2
  <2>2. P \in Int /\ e1 \in Int /\ e2 \in Int /\ q \in Int /\ c1 \in Int /\ c2 \in Int
    OBVIOUS
  <2>3. CostBalances(P, e1, e2, q, c1, c2)
    BY <2>1, <2>2, CostIn, Zenon
  <2>4. QED
    BY <2>3 DEF CostBalances
<1>5. PICK n \in Int : n = m * p
  BY <1>3
<1>6. fill.side * fill.quantity * fill.price = n /\ fill.side * fill.quantity = m
  BY <1>3, <1>5
<1>7. PICK u, v \in Int : u = q * c1 + n * c2 /\ v = c2 * (q + m)
  BY <1>2, <1>3, <1>5
<1>8. Accounts!AverageCost(held, fill) = <<u, v>>
  BY <1>2, <1>3, <1>5, <1>7 DEF Accounts!AverageCost
<1>9. ((P + n) * e2 + e1) * v = ((q + m) * u) * e2
  <2>1. PICK A \in Int, B \in Int, s \in Int : A = P * e2 + e1 /\ B = q * c1 /\ s = q + m
    BY <1>1, <1>2, <1>3
  <2>2. (P + n) * e2 + e1 = A + n * e2
    BY <1>1, <1>5, <2>1
  <2>3. A * c2 = B * e2
    BY <1>4, <2>1
  <2>4. u = B + n * c2 /\ v = c2 * s
    BY <1>7, <2>1
  <2>5. (A + n * e2) * (c2 * s) = (A * c2) * s + ((n * e2) * c2) * s
    BY <1>1, <1>2, <1>5, <2>1
  <2>6. (s * (B + n * c2)) * e2 = (B * e2) * s + ((n * e2) * c2) * s
    BY <1>1, <1>2, <1>5, <2>1
  <2>7. QED
    BY <2>1, <2>2, <2>3, <2>4, <2>5, <2>6
<1>10. CostAgrees(P + n, <<e1, e2>>, q + m, <<u, v>>)
  <2>1. P + n \in Int /\ q + m \in Int
    BY <1>2, <1>3, <1>5
  <2>2. e1 \in Int /\ e2 \in Int /\ u \in Int /\ v \in Int
    OBVIOUS
  <2>3. CostBalances(P + n, e1, e2, q + m, u, v)
    BY <1>9 DEF CostBalances
  <2>4. PICK account \in Int, quantity \in Int : account = P + n /\ quantity = q + m
    BY <2>1
  <2>5. account \in Int /\ quantity \in Int /\ CostBalances(account, e1, e2, quantity, u, v)
    BY <2>3, <2>4
  <2>6. CostAgrees(account, <<e1, e2>>, quantity, <<u, v>>)
    BY <2>2, <2>5, CostIn, Zenon
  <2>7. QED
    BY <2>4, <2>6
<1>11. Sum(e, <<0, 1>>) = <<e1, e2>>
  BY <1>1, NothingEarned
<1>12. QED
  BY <1>2, <1>6, <1>8, <1>10, <1>11

(* What a sell leaves in the account, beyond the cost of what is left, it  *)
(* earned.                                                                 *)
LEMMA SellAgrees ==
  ASSUME NEW P \in Int, NEW e \in Int \X Int, NEW held \in Positions, NEW fill, IsFill(fill), fill.side = -1,
         CostAgrees(P, e, held.quantity, held.cost)
  PROVE  CostAgrees(P + fill.side * fill.quantity * fill.price,
                    Sum(e, <<fill.quantity * (fill.price * held.cost[2] - held.cost[1]), held.cost[2]>>),
                    held.quantity + fill.side * fill.quantity, held.cost)
<1>1. PICK e1, e2 \in Int : e = <<e1, e2>>
  OBVIOUS
<1>2. PICK q, c1, c2 \in Int : q = held.quantity /\ held.cost = <<c1, c2>>
  BY DEF Positions
<1>3. PICK m, p \in Int : m = fill.quantity /\ p = fill.price
  BY DEF IsFill
<1>4. (P * e2 + e1) * c2 = (q * c1) * e2
  <2>1. CostAgrees(P, <<e1, e2>>, q, <<c1, c2>>)
    BY <1>1, <1>2
  <2>2. P \in Int /\ e1 \in Int /\ e2 \in Int /\ q \in Int /\ c1 \in Int /\ c2 \in Int
    OBVIOUS
  <2>3. CostBalances(P, e1, e2, q, c1, c2)
    BY <2>1, <2>2, CostIn, Zenon
  <2>4. QED
    BY <2>3 DEF CostBalances
<1>5. PICK n \in Int : n = m * p
  BY <1>3
<1>6. fill.side * fill.quantity * fill.price = -n /\ fill.side * fill.quantity = -m
  <2>1. fill.side * fill.quantity = -m
    BY <1>3
  <2>2. (-m) * p = -(m * p)
    BY <1>3
  <2>3. QED
    BY <1>3, <1>5, <2>1, <2>2
<1>7. PICK g \in Int : g = m * (p * c2 - c1)
  BY <1>2, <1>3
<1>8. g = n * c2 - m * c1
  <2>1. PICK t \in Int : t = p * c2
    BY <1>2, <1>3
  <2>2. m * (t - c1) = m * t - m * c1
    BY <1>2, <1>3, <2>1
  <2>3. m * (p * c2) = (m * p) * c2
    BY <1>2, <1>3
  <2>4. m * t = n * c2
    BY <1>5, <2>1, <2>3
  <2>5. g = m * (t - c1)
    BY <1>7, <2>1
  <2>6. QED
    BY <2>2, <2>4, <2>5
<1>9. PICK u, v \in Int : u = e1 * c2 + g * e2 /\ v = e2 * c2
  BY <1>1, <1>2, <1>7
<1>10. Sum(e, <<fill.quantity * (fill.price * held.cost[2] - held.cost[1]), held.cost[2]>>) = <<u, v>>
  BY <1>1, <1>2, <1>3, <1>7, <1>9 DEF Sum
<1>11. ((P - n) * v + u) * c2 = ((q - m) * c1) * v
  <2>1. PICK A \in Int, B \in Int, D \in Int : A = P * e2 + e1 /\ B = q * c1 /\ D = m * c1
    BY <1>1, <1>2, <1>3
  <2>2. (P - n) * v + u = B * e2 - D * e2
    <3>1. (P - n) * v = ((P * e2) * c2) - ((n * c2) * e2)
      BY <1>1, <1>2, <1>5, <1>9
    <3>2. g * e2 = (n * c2) * e2 - D * e2
      <4>1. PICK t \in Int : t = n * c2
        BY <1>2, <1>5
      <4>2. g = t - D
        BY <1>8, <2>1, <4>1
      <4>3. (t - D) * e2 = t * e2 - D * e2
        BY <1>1, <2>1, <4>1
      <4>4. QED
        BY <4>1, <4>2, <4>3
    <3>3. A * c2 = (P * e2) * c2 + e1 * c2
      BY <1>1, <1>2, <2>1
    <3>4. A * c2 = B * e2
      BY <1>4, <2>1
    <3>5. PICK x1, x2, x3, x4, x5 \in Int : /\ x1 = (P * e2) * c2 /\ x2 = (n * c2) * e2 /\ x3 = D * e2
                                           /\ x4 = e1 * c2 /\ x5 = B * e2
      <4>1. P * e2 \in Int /\ n * c2 \in Int
        BY <1>1, <1>2, <1>5
      <4>2. (P * e2) * c2 \in Int /\ (n * c2) * e2 \in Int
        BY <1>1, <1>2, <4>1
      <4>3. D * e2 \in Int /\ e1 * c2 \in Int /\ B * e2 \in Int
        BY <1>1, <1>2, <2>1
      <4>4. QED
        BY <4>2, <4>3
    <3>6. PICK y1, y2, y3 : y1 = (P - n) * v /\ y2 = g * e2 /\ y3 = A * c2
      OBVIOUS
    <3>7. y1 = x1 - x2 /\ y2 = x2 - x3 /\ y3 = x1 + x4 /\ y3 = x5 /\ u = x4 + y2
      BY <1>9, <3>1, <3>2, <3>3, <3>4, <3>5, <3>6
    <3>8. y1 + u = x5 - x3
      BY <3>5, <3>7
    <3>9. QED
      BY <3>5, <3>6, <3>8
  <2>3. (q - m) * c1 = B - D
    <3>1. (q - m) * c1 = q * c1 - m * c1
      BY <1>2, <1>3
    <3>2. QED
      BY <2>1, <3>1
  <2>4. (B * e2 - D * e2) * c2 = (B - D) * (e2 * c2)
    BY <1>1, <1>2, <2>1
  <2>5. QED
    BY <1>9, <2>2, <2>3, <2>4
<1>12. CostAgrees(P - n, <<u, v>>, q - m, <<c1, c2>>)
  <2>1. P - n \in Int /\ q - m \in Int
    BY <1>2, <1>3, <1>5
  <2>2. u \in Int /\ v \in Int /\ c1 \in Int /\ c2 \in Int
    OBVIOUS
  <2>3. CostBalances(P - n, u, v, q - m, c1, c2)
    BY <1>11 DEF CostBalances
  <2>4. PICK account \in Int, quantity \in Int : account = P - n /\ quantity = q - m
    BY <2>1
  <2>5. account \in Int /\ quantity \in Int /\ CostBalances(account, u, v, quantity, c1, c2)
    BY <2>3, <2>4
  <2>6. CostAgrees(account, <<u, v>>, quantity, <<c1, c2>>)
    BY <2>2, <2>5, CostIn, Zenon
  <2>7. QED
    BY <2>4, <2>6
<1>13. P + fill.side * fill.quantity * fill.price = P - n /\ held.quantity + fill.side * fill.quantity = q - m
  BY <1>2, <1>3, <1>5, <1>6
<1>14. QED
  BY <1>2, <1>10, <1>12, <1>13

-----------------------------------------------------------------------------
(* The k-th step fills an order for an instrument ...                      *)
FillsOne(todo, b, after, i, k) ==
  LET fill == FillOf(todo, k)
      n == fill.side * fill.quantity * fill.price
  IN  /\ k \in FilledOrders(todo) /\ fill.instrument = i
      /\ Accounts!BalanceOf(after, Shares(i)) = Accounts!BalanceOf(b, Shares(i)) + n
      /\ Accounts!BalanceOf(after, Cash(MarketCcy[i])) = Accounts!BalanceOf(b, Cash(MarketCcy[i])) + (-n - fill.fee)
      /\ PositionMoves(b, after, fill)

(* ... or leaves what is held of it as it is.                              *)
LeavesIt(todo, b, after, i, k) ==
  /\ ~ (k \in FilledOrders(todo) /\ FillOf(todo, k).instrument = i)
  /\ Accounts!BalanceOf(after, Shares(i)) = Accounts!BalanceOf(b, Shares(i))
  /\ Accounts!Holding(after, i) = Accounts!Holding(b, i)
  /\ \A mark : /\ ValueAdded(todo, mark, MarketCcy[i], k) \in Int
               /\ Accounts!BalanceOf(after, Cash(MarketCcy[i]))
                    = Accounts!BalanceOf(b, Cash(MarketCcy[i])) + ValueAdded(todo, mark, MarketCcy[i], k)

(* It does one or the other.                                               *)
LEMMA StepEither ==
  ASSUME NEW todo, IsTodo(todo), NEW k \in 1..Len(todo), NEW b, WellKept(b), NEW after, after = BookStep(todo, b, k),
         NEW i \in Markets
  PROVE  FillsOne(todo, b, after, i, k) \/ LeavesIt(todo, b, after, i, k)
<1>1. PICK c : c = MarketCcy[i]
  OBVIOUS
<1>2. c \in Currencies /\ Local(c) = i
  BY <1>1, MarketsOf
<1>3. Accounts!BalanceOf(b, Cash(c)) \in Int /\ Accounts!BalanceOf(b, Shares(i)) \in Int
  BY DEF Accounts!BalanceOf, WellKept
<1>4. CASE k \in FilledOrders(todo)
  <2>1. PICK fill, d, j : fill = FillOf(todo, k) /\ j = fill.instrument /\ d = MarketCcy[j]
    OBVIOUS
  <2>2. after = Accounts!BookFill(b, fill, d)
    BY <1>4, <2>1 DEF BookStep
  <2>3. IsFill(fill)
    BY <1>4, <2>1, FillTyped, Zenon
  <2>4. PICK n : n = fill.side * fill.quantity * fill.price
    OBVIOUS
  <2>5. Transacted(b, after, d, -n - fill.fee, n) /\ PositionMoves(b, after, fill)
    BY <2>1, <2>2, <2>3, <2>4, FillBooks
  <2>6. j \in Markets /\ Local(d) = j
    BY <2>1, <2>3, MarketsOf DEF IsFill
  <2>7. /\ Accounts!BalanceOf(after, Cash(c)) = Accounts!BalanceOf(b, Cash(c)) + (IF c = d THEN -n - fill.fee ELSE 0)
        /\ Accounts!BalanceOf(after, Shares(i)) = Accounts!BalanceOf(b, Shares(i)) + (IF c = d THEN n ELSE 0)
    BY <1>1, <1>2, <2>5 DEF Transacted
  <2>8. CASE j = i
    <3>1. c = d
      BY <1>1, <2>1, <2>8
    <3>2. FillsOne(todo, b, after, i, k)
      BY <1>1, <1>4, <2>1, <2>4, <2>5, <2>7, <2>8, <3>1 DEF FillsOne
    <3>3. QED
      BY <3>2
  <2>9. CASE j # i
    <3>1. c # d
      BY <1>2, <2>6, <2>9
    <3>2. \A mark : ValueAdded(todo, mark, c, k) = 0
      BY <1>4, <2>1, <3>1 DEF ValueAdded
    <3>3. Accounts!Holding(after, i) = Accounts!Holding(b, i)
      BY <2>1, <2>5, <2>9 DEF PositionMoves
    <3>4. /\ Accounts!BalanceOf(after, Cash(c)) = Accounts!BalanceOf(b, Cash(c)) + 0
          /\ Accounts!BalanceOf(after, Shares(i)) = Accounts!BalanceOf(b, Shares(i)) + 0
      BY <2>7, <3>1
    <3>5. LeavesIt(todo, b, after, i, k)
      BY <1>1, <1>3, <2>1, <2>9, <3>2, <3>3, <3>4 DEF LeavesIt
    <3>6. QED
      BY <3>5
  <2>10. QED
    BY <2>8, <2>9
<1>5. CASE k \notin FilledOrders(todo) /\ k \in Ordered(todo)
  <2>1. after = b
    BY <1>5 DEF BookStep
  <2>2. \A mark : ValueAdded(todo, mark, c, k) = 0
    BY <1>5 DEF ValueAdded
  <2>3. LeavesIt(todo, b, after, i, k)
    BY <1>1, <1>3, <1>5, <2>1, <2>2 DEF LeavesIt
  <2>4. QED
    BY <2>3
<1>6. CASE k \notin Ordered(todo)
  <2>1. k \notin FilledOrders(todo)
    BY <1>6 DEF FilledOrders
  <2>2. PICK amount : amount = todo[k][2]
    OBVIOUS
  <2>3. after = Accounts!BookDeposit(b, "USD", amount)
    BY <1>6, <2>1, <2>2 DEF BookStep
  <2>4. amount \in Int
    BY <1>6, <2>2 DEF Ordered, IsTodo, IsOrder, IsDeposit
  <2>5. Transacted(b, after, "USD", amount, 0) /\ after.position = b.position
    BY <2>3, <2>4, DepositBooks
  <2>6. \A mark : ValueAdded(todo, mark, c, k) = IF c = "USD" THEN amount ELSE 0
    BY <1>6, <2>1, <2>2 DEF ValueAdded
  <2>7. Accounts!BalanceOf(after, Cash(c)) = Accounts!BalanceOf(b, Cash(c)) + (IF c = "USD" THEN amount ELSE 0)
    BY <1>2, <2>5 DEF Transacted
  <2>8. Accounts!BalanceOf(after, Shares(i)) = Accounts!BalanceOf(b, Shares(i))
    <3>1. Accounts!BalanceOf(after, Shares(i)) = Accounts!BalanceOf(b, Shares(i)) + (IF MarketCcy[i] = "USD" THEN 0 ELSE 0)
      BY <2>5 DEF Transacted
    <3>2. QED
      BY <1>3, <3>1
  <2>9. Accounts!Holding(after, i) = Accounts!Holding(b, i)
    BY <2>5 DEF Accounts!Holding
  <2>10. LeavesIt(todo, b, after, i, k)
    BY <1>1, <2>1, <2>4, <2>6, <2>7, <2>8, <2>9 DEF LeavesIt
  <2>11. QED
    BY <2>10
<1>7. QED
  BY <1>4, <1>5, <1>6

(* What a step earns, by its fill and the cost before it.                  *)
LEMMA EarningOf ==
  ASSUME NEW todo, NEW i, NEW k, NEW fill, fill = FillOf(todo, k),
         NEW cost, cost = Accounts!Holding(BooksOf(todo)[k - 1], i).cost
  PROVE  Earning(todo, i, k) = IF k \in FilledOrders(todo) /\ fill.side < 0 /\ fill.instrument = i
                               THEN <<fill.quantity * (fill.price * cost[2] - cost[1]), cost[2]>> ELSE <<0, 1>>
BY DEF Earning

(* A sum of fractions is one.                                              *)
LEMMA SumTyped ==
  ASSUME NEW e \in Int \X Int, NEW d \in Int \X Int
  PROVE  Sum(e, d) \in Int \X Int
<1>1. PICK x, y, z, w \in Int : e = <<x, y>> /\ d = <<z, w>>
  OBVIOUS
<1>2. PICK u, v \in Int : u = x * w + z * y /\ v = y * w
  BY <1>1
<1>3. Sum(e, d) = <<u, v>>
  BY <1>1, <1>2 DEF Sum
<1>4. QED
  BY <1>2, <1>3

(* The cost of an instrument agrees with its account in the books.         *)
CostsAgree(b, i, e) ==
  /\ e \in Int \X Int
  /\ CostAgrees(Accounts!BalanceOf(b, Shares(i)), e, Accounts!Holding(b, i).quantity, Accounts!Holding(b, i).cost)

(* A step keeps it so, if no sell was refused.                             *)
LEMMA CostStep ==
  ASSUME NEW todo, IsTodo(todo), Oversales(todo) = {}, NEW k \in 1..Len(todo), NEW i \in Markets,
         NEW b, b = BooksOf(todo)[k - 1], WellKept(b), NEW after, after = BookStep(todo, b, k),
         NEW e, CostsAgree(b, i, e)
  PROVE  CostsAgree(after, i, Sum(e, Earning(todo, i, k)))
<1>1. PICK fill, held : fill = FillOf(todo, k) /\ held = Accounts!Holding(b, i)
  OBVIOUS
<1>2. held \in Positions /\ held.cost \in Int \X Int /\ held.quantity \in Int
  BY <1>1, HoldingTyped
<1>3. PICK P : P = Accounts!BalanceOf(b, Shares(i))
  OBVIOUS
<1>4. P \in Int
  BY <1>3 DEF Accounts!BalanceOf, WellKept
<1>5. e \in Int \X Int /\ CostAgrees(P, e, held.quantity, held.cost)
  BY <1>1, <1>3 DEF CostsAgree
<1>6. Earning(todo, i, k) = IF k \in FilledOrders(todo) /\ fill.side < 0 /\ fill.instrument = i
                            THEN <<fill.quantity * (fill.price * held.cost[2] - held.cost[1]), held.cost[2]>> ELSE <<0, 1>>
  BY <1>1, EarningOf
<1>7. CASE LeavesIt(todo, b, after, i, k)
  <2>1. Earning(todo, i, k) = <<0, 1>>
    BY <1>1, <1>6, <1>7 DEF LeavesIt
  <2>2. Sum(e, Earning(todo, i, k)) = e
    BY <1>5, <2>1, NothingEarned
  <2>3. Accounts!Holding(after, i) = held /\ Accounts!BalanceOf(after, Shares(i)) = P
    BY <1>1, <1>3, <1>7 DEF LeavesIt
  <2>4. QED
    BY <1>5, <2>2, <2>3 DEF CostsAgree
<1>8. CASE FillsOne(todo, b, after, i, k)
  <2>1. k \in FilledOrders(todo) /\ fill.instrument = i
    BY <1>1, <1>8 DEF FillsOne
  <2>2. IsFill(fill)
    BY <1>1, <2>1, FillTyped, Zenon
  <2>3. ~Accounts!Oversold(b, fill)
    BY <1>1, <2>1 DEF Oversales
  <2>4. PICK n, now : n = fill.side * fill.quantity * fill.price /\ now = Accounts!Holding(after, i)
    OBVIOUS
  <2>5. Accounts!BalanceOf(after, Shares(i)) = P + n
    BY <1>1, <1>3, <1>8, <2>4 DEF FillsOne
  <2>6. /\ now.quantity = held.quantity + fill.side * fill.quantity
        /\ now.cost = IF fill.side > 0 THEN Accounts!AverageCost(held, fill) ELSE held.cost
    BY <1>1, <1>8, <2>1, <2>3, <2>4 DEF FillsOne, PositionMoves
  <2>7. CASE fill.side = 1
    <3>1. now.cost = Accounts!AverageCost(held, fill) /\ Earning(todo, i, k) = <<0, 1>>
      BY <1>6, <2>6, <2>7
    <3>2. CostAgrees(P + n, Sum(e, <<0, 1>>), held.quantity + fill.side * fill.quantity, Accounts!AverageCost(held, fill))
      BY <1>2, <1>4, <1>5, <2>2, <2>4, <2>7, BuyAgrees
    <3>3. Sum(e, <<0, 1>>) = e
      BY <1>5, NothingEarned
    <3>4. QED
      BY <1>5, <2>4, <2>5, <2>6, <3>1, <3>2, <3>3 DEF CostsAgree
  <2>8. CASE fill.side = -1
    <3>1. PICK earning : earning = <<fill.quantity * (fill.price * held.cost[2] - held.cost[1]), held.cost[2]>>
      OBVIOUS
    <3>2. now.cost = held.cost /\ Earning(todo, i, k) = earning
      <4>1. fill.side < 0 /\ ~ (fill.side > 0)
        BY <2>8
      <4>2. QED
        BY <1>6, <2>1, <2>6, <3>1, <4>1
    <3>3. CostAgrees(P + n, Sum(e, earning), held.quantity + fill.side * fill.quantity, held.cost)
      BY <1>2, <1>4, <1>5, <2>2, <2>4, <2>8, <3>1, SellAgrees
    <3>4. earning \in Int \X Int
      <4>1. PICK c1, c2 \in Int : held.cost = <<c1, c2>>
        BY <1>2
      <4>2. PICK m, p \in Int : m = fill.quantity /\ p = fill.price
        BY <2>2 DEF IsFill
      <4>3. PICK g \in Int : g = m * (p * c2 - c1)
        BY <4>1, <4>2
      <4>4. earning = <<g, c2>>
        BY <3>1, <4>1, <4>2, <4>3
      <4>5. QED
        BY <4>1, <4>3, <4>4
    <3>5. Sum(e, earning) \in Int \X Int
      BY <1>5, <3>4, SumTyped
    <3>6. QED
      BY <2>4, <2>5, <2>6, <3>2, <3>3, <3>5 DEF CostsAgree
  <2>9. QED
    BY <2>2, <2>7, <2>8 DEF IsFill
<1>9. QED
  BY <1>7, <1>8, StepEither

(* So it is after every step, by the first after which it is not.          *)
LEMMA CostsAlwaysAgree ==
  ASSUME NEW todo, IsTodo(todo), Oversales(todo) = {}, NEW i \in Markets,
         NEW final, final = BooksOf(todo)[Len(todo)]
  PROVE  CostsAgree(final, i, Earned(todo, i))
<1>1. PICK book : book = BooksOf(todo)
  OBVIOUS
<1>2. Len(todo) \in Nat
  BY DEF IsTodo
<1>3. PICK f : /\ Earned(todo, i) = f[Len(todo)] /\ f[0] = <<0, 1>>
               /\ \A k \in 1..Len(todo) : f[k] = Sum(f[k - 1], Earning(todo, i, k))
  BY <1>2, EarningsExist
<1>4. /\ book[0] = Accounts!EmptyBook
      /\ \A k \in 1..Len(todo) : book[k] = BookStep(todo, book[k - 1], k)
  BY <1>1, <1>2, BooksExist
<1>5. \A n \in 0..Len(todo) : WellKept(book[n])
  BY <1>1, AllKept
<1> DEFINE Agree(n) == CostsAgree(book[n], i, f[n])
           Bad == {n \in 0..Len(todo) : ~Agree(n)}
<1>6. Agree(0)
  <2>1. (0 * 1 + 0) * 1 = (0 * 0) * 1
    OBVIOUS
  <2>2. CostAgrees(0, <<0, 1>>, 0, <<0, 1>>)
    BY <2>1, CostIn DEF CostBalances
  <2>3. /\ Accounts!BalanceOf(book[0], Shares(i)) = 0
        /\ Accounts!Holding(book[0], i).quantity = 0 /\ Accounts!Holding(book[0], i).cost = <<0, 1>>
    BY <1>4, EmptyIsKept
  <2>4. f[0] \in Int \X Int
    BY <1>3
  <2>5. QED
    BY <1>3, <2>2, <2>3, <2>4 DEF CostsAgree
<1>7. ASSUME NEW k \in 1..Len(todo), Agree(k - 1) PROVE Agree(k)
  <2>1. PICK b, after, e : b = book[k - 1] /\ after = book[k] /\ e = f[k - 1]
    OBVIOUS
  <2>2. k - 1 \in 0..Len(todo)
    BY <1>2
  <2>3. after = BookStep(todo, b, k) /\ WellKept(b) /\ b = BooksOf(todo)[k - 1] /\ CostsAgree(b, i, e)
    BY <1>1, <1>4, <1>5, <1>7, <2>1, <2>2
  <2>4. CostsAgree(after, i, Sum(e, Earning(todo, i, k)))
    BY <2>3, CostStep
  <2>5. QED
    BY <1>3, <2>1, <2>4
<1> HIDE DEF Agree
<1>8. Bad = {}
  <2>1. SUFFICES ASSUME Bad # {} PROVE FALSE
    OBVIOUS
  <2>2. PICK m \in Bad : \A e \in Bad : m <= e
    <3>1. Bad \subseteq Nat
      BY <1>2
    <3>2. QED
      BY <2>1, <3>1, LeastExists
  <2>3. m \in 0..Len(todo) /\ ~Agree(m) /\ m # 0
    BY <1>6, <2>2
  <2>4. m \in 1..Len(todo) /\ m - 1 \in 0..Len(todo) /\ m - 1 < m
    BY <1>2, <2>3
  <2>5. Agree(m - 1)
    BY <2>2, <2>4
  <2>6. QED
    BY <1>7, <2>3, <2>4, <2>5
<1>9. Agree(Len(todo))
  BY <1>2, <1>8
<1>10. QED
  BY <1>1, <1>3, <1>9 DEF Agree

-----------------------------------------------------------------------------
(* What the books of one currency are worth at a mark.                     *)
Worth(b, i, mark) ==
  Accounts!BalanceOf(b, Cash(MarketCcy[i])) + Accounts!Holding(b, i).quantity * mark

(* Products distribute over the sums and differences met below.            *)
LEMMA TakeOut ==
  ASSUME NEW a \in Int, NEW b \in Int, NEW c \in Int
  PROVE  a * (b - c) = a * b - a * c
  OBVIOUS

LEMMA PutIn ==
  ASSUME NEW a \in Int, NEW b \in Int, NEW c \in Int
  PROVE  (a + b) * c = a * c + b * c
  OBVIOUS

(* A step changes it by what it adds.                                      *)
LEMMA WorthStep ==
  ASSUME NEW todo, IsTodo(todo), Oversales(todo) = {}, NEW k \in 1..Len(todo), NEW i \in Markets, NEW mark \in Int,
         NEW b, b = BooksOf(todo)[k - 1], WellKept(b), NEW after, after = BookStep(todo, b, k),
         NEW added, added = ValueAdded(todo, mark, MarketCcy[i], k)
  PROVE  Worth(after, i, mark) = Worth(b, i, mark) + added /\ added \in Int /\ Worth(b, i, mark) \in Int
<1>1. PICK fill, held, c : fill = FillOf(todo, k) /\ held = Accounts!Holding(b, i) /\ c = MarketCcy[i]
  OBVIOUS
<1>2. PICK q \in Int : q = held.quantity
  BY <1>1, HoldingTyped
<1>3. PICK paid \in Int : paid = Accounts!BalanceOf(b, Cash(c))
  BY DEF Accounts!BalanceOf, WellKept
<1>4. PICK worth \in Int : worth = q * mark
  BY <1>2
<1>5. Worth(b, i, mark) = paid + worth
  BY <1>1, <1>2, <1>3, <1>4 DEF Worth
<1>6. CASE LeavesIt(todo, b, after, i, k)
  <2>1. /\ added \in Int /\ Accounts!BalanceOf(after, Cash(c)) = paid + added
        /\ Accounts!Holding(after, i).quantity = q
    BY <1>1, <1>2, <1>3, <1>6 DEF LeavesIt
  <2>2. Worth(after, i, mark) = (paid + added) + worth
    BY <1>1, <1>4, <2>1 DEF Worth
  <2>3. QED
    BY <1>5, <2>1, <2>2
<1>7. CASE FillsOne(todo, b, after, i, k)
  <2>1. k \in FilledOrders(todo) /\ fill.instrument = i
    BY <1>1, <1>7 DEF FillsOne
  <2>2. IsFill(fill)
    BY <1>1, <2>1, FillTyped, Zenon
  <2>3. ~Accounts!Oversold(b, fill)
    BY <1>1, <2>1 DEF Oversales
  <2>4. PICK m \in Int, p \in Int, fee \in Int : m = fill.side * fill.quantity /\ p = fill.price /\ fee = fill.fee
    BY <2>2 DEF IsFill
  <2>5. PICK n \in Int : n = m * p
    BY <2>4
  <2>6. Accounts!BalanceOf(after, Cash(c)) = paid + (-n - fee)
    BY <1>1, <1>3, <1>7, <2>4, <2>5 DEF FillsOne
  <2>7. Accounts!Holding(after, i).quantity = q + m
    BY <1>1, <1>2, <1>7, <2>1, <2>3, <2>4 DEF FillsOne, PositionMoves
  <2>8. added = m * (mark - p) - fee
    BY <1>1, <2>1, <2>4 DEF ValueAdded
  <2>9. PICK rise \in Int : rise = m * mark
    BY <2>4
  <2>10. m * (mark - p) = rise - n
    <3>1. m * (mark - p) = m * mark - m * p
      BY ONLY m \in Int, p \in Int, mark \in Int, TakeOut
    <3>2. QED
      BY ONLY <2>5, <2>9, <3>1
  <2>11. (q + m) * mark = worth + rise
    <3>1. (q + m) * mark = q * mark + m * mark
      BY ONLY m \in Int, q \in Int, mark \in Int, PutIn
    <3>2. QED
      BY ONLY <1>4, <2>9, <3>1
  <2>12. Worth(after, i, mark) = (paid + (-n - fee)) + (worth + rise)
    BY <1>1, <2>6, <2>7, <2>11 DEF Worth
  <2>13. QED
    BY <1>5, <2>8, <2>10, <2>12
<1>8. QED
  BY <1>6, <1>7, StepEither

(* After all steps it is the sum of what they added.                       *)
LEMMA WorthIsAdded ==
  ASSUME NEW todo, IsTodo(todo), Oversales(todo) = {}, NEW i \in Markets, NEW mark \in Int,
         NEW final, final = BooksOf(todo)[Len(todo)],
         NEW c, c = MarketCcy[i]
  PROVE  Worth(final, i, mark) = SumFunction([k \in DOMAIN todo |-> ValueAdded(todo, mark, c, k)])
<1>1. PICK book : book = BooksOf(todo)
  OBVIOUS
<1>2. Len(todo) \in Nat /\ DOMAIN todo = 1..Len(todo)
  BY DEF IsTodo
<1>3. PICK added : added = [k \in DOMAIN todo |-> ValueAdded(todo, mark, c, k)]
  OBVIOUS
<1>4. /\ book[0] = Accounts!EmptyBook
      /\ \A k \in 1..Len(todo) : book[k] = BookStep(todo, book[k - 1], k)
  BY <1>1, <1>2, BooksExist
<1>5. \A n \in 0..Len(todo) : WellKept(book[n])
  BY <1>1, AllKept
<1>6. ASSUME NEW k \in 1..Len(todo)
      PROVE  /\ Worth(book[k], i, mark) = Worth(book[k - 1], i, mark) + added[k]
             /\ added[k] \in Int /\ Worth(book[k - 1], i, mark) \in Int
  <2>1. PICK b, after, gain : b = book[k - 1] /\ after = book[k] /\ gain = ValueAdded(todo, mark, c, k)
    OBVIOUS
  <2>2. k - 1 \in 0..Len(todo)
    BY <1>2
  <2>3. after = BookStep(todo, b, k) /\ WellKept(b) /\ b = BooksOf(todo)[k - 1]
    BY <1>1, <1>4, <1>5, <2>1, <2>2
  <2>4. Worth(after, i, mark) = Worth(b, i, mark) + gain /\ gain \in Int /\ Worth(b, i, mark) \in Int
    BY <2>1, <2>3, WorthStep
  <2>5. added[k] = gain
    BY <1>2, <1>3, <2>1
  <2>6. QED
    BY <2>1, <2>4, <2>5
<1> DEFINE Agree(n) == Worth(book[n], i, mark) = SumOver(added, 1..n)
           Bad == {n \in 0..Len(todo) : ~Agree(n)}
<1>7. Agree(0)
  <2>1. Accounts!BalanceOf(book[0], Cash(c)) = 0 /\ Accounts!Holding(book[0], i).quantity = 0
    BY <1>4, EmptyIsKept
  <2>2. 0 * mark = 0
    OBVIOUS
  <2>3. Worth(book[0], i, mark) = 0
    BY <2>1, <2>2 DEF Worth
  <2>4. 1..0 = {}
    OBVIOUS
  <2>5. QED
    BY <2>3, <2>4, SumOfNone
<1>8. ASSUME NEW k \in 1..Len(todo), Agree(k - 1) PROVE Agree(k)
  <2>1. PICK S : S = 1..k
    OBVIOUS
  <2>2. k \in S /\ S \ {k} = 1..k - 1 /\ IsFiniteSet(S) /\ S \subseteq 1..Len(todo)
    <3>1. k \in Nat /\ k >= 1
      BY <1>2
    <3>2. IsFiniteSet(1..k)
      BY <3>1, FS_Interval
    <3>3. QED
      BY <1>2, <2>1, <3>1, <3>2
  <2>3. \A j \in S : added[j] \in Int
    BY <1>6, <2>2
  <2>4. SumOver(added, S) = added[k] + SumOver(added, S \ {k})
    BY <2>2, <2>3, SumStep
  <2>5. PICK rest : rest = Worth(book[k - 1], i, mark)
    OBVIOUS
  <2>6. SumOver(added, 1..k - 1) = rest /\ rest \in Int /\ added[k] \in Int /\ Worth(book[k], i, mark) = rest + added[k]
    BY <1>6, <1>8, <2>5
  <2>7. SumOver(added, S) = added[k] + rest
    BY <2>2, <2>4, <2>6
  <2>8. QED
    BY <2>1, <2>6, <2>7
<1> HIDE DEF Agree
<1>9. Bad = {}
  <2>1. SUFFICES ASSUME Bad # {} PROVE FALSE
    OBVIOUS
  <2>2. PICK m \in Bad : \A e \in Bad : m <= e
    <3>1. Bad \subseteq Nat
      BY <1>2
    <3>2. QED
      BY <2>1, <3>1, LeastExists
  <2>3. m \in 0..Len(todo) /\ ~Agree(m) /\ m # 0
    BY <1>7, <2>2
  <2>4. m \in 1..Len(todo) /\ m - 1 \in 0..Len(todo) /\ m - 1 < m
    BY <1>2, <2>3
  <2>5. Agree(m - 1)
    BY <2>2, <2>4
  <2>6. QED
    BY <1>8, <2>3, <2>4, <2>5
<1>10. Agree(Len(todo))
  BY <1>2, <1>9
<1>11. SumOver(added, DOMAIN todo) = SumFunction(added)
  BY <1>3 DEF SumOver
<1>12. QED
  BY <1>1, <1>2, <1>3, <1>10, <1>11 DEF Agree

(* It is what value answers.                                               *)
LEMMA ValueIsWorth ==
  ASSUME NEW b, WellKept(b), NEW mark \in Int, NEW marks, marks = [i \in {"us", "cn"} |-> mark],
         NEW c \in Currencies
  PROVE  Accounts!Value(b, marks, MarketCcy)[c] = Worth(b, Local(c), mark)
<1>1. PICK held, within : /\ held = {i \in DOMAIN b.position : b.position[i].quantity # 0}
                          /\ within = {i \in held : MarketCcy[i] = c}
  OBVIOUS
<1>2. DOMAIN marks = Markets /\ \A i \in Markets : marks[i] = mark
  BY DEF Markets
<1>3. held \subseteq DOMAIN marks
  BY <1>1, <1>2 DEF WellKept
<1>4. PICK worth : worth = [i \in within |-> b.position[i].quantity * marks[i]]
  OBVIOUS
<1>5. Accounts!Value(b, marks, MarketCcy)[c] = Accounts!BalanceOf(b, <<"cash", c>>) + Accounts!SumFunction(worth)
  BY <1>1, <1>3, <1>4 DEF Accounts!Value, Currencies
<1>6. Accounts!SumFunction(worth) = SumFunction(worth)
  BY LegsAreSummed
<1>7. PICK i : i = Local(c)
  OBVIOUS
<1>8. i \in Markets /\ MarketCcy[i] = c /\ within \subseteq {i}
  BY <1>1, <1>3, <1>2, <1>7, MarketsOf
<1>9. PICK q \in Int : q = Accounts!Holding(b, i).quantity
  BY HoldingTyped
<1>10. SumFunction(worth) = q * mark
  <2>1. worth = [j \in DOMAIN worth |-> worth[j]] /\ DOMAIN worth = within
    BY <1>4
  <2>2. SumFunction(worth) = SumOver(worth, within)
    BY <2>1, SumsAreOver
  <2>3. CASE i \in within
    <3>1. within = {i}
      BY <1>8, <2>3
    <3>2. b.position[i].quantity = q
      BY <1>1, <1>9, <2>3 DEF Accounts!Holding
    <3>3. worth[i] = q * mark
      BY <1>2, <1>4, <1>8, <2>3, <3>2
    <3>4. q * mark \in Int
      BY <1>9
    <3>5. IsFiniteSet({i}) /\ {i} \ {i} = {}
      BY FS_Singleton
    <3>6. SumOver(worth, {i}) = worth[i] + SumOver(worth, {i} \ {i})
      BY <3>3, <3>4, <3>5, SumStep
    <3>7. SumOver(worth, {i} \ {i}) = 0
      BY <3>5, SumOfNone
    <3>8. QED
      BY <2>2, <3>1, <3>3, <3>4, <3>6, <3>7
  <2>4. CASE i \notin within
    <3>1. within = {}
      BY <1>8, <2>4
    <3>2. q = 0
      <4>1. CASE i \in DOMAIN b.position
        BY <1>1, <1>8, <1>9, <2>4, <4>1 DEF Accounts!Holding
      <4>2. CASE i \notin DOMAIN b.position
        BY <1>9, <4>2 DEF Accounts!Holding
      <4>3. QED
        BY <4>1, <4>2
    <3>3. SumOver(worth, within) = 0
      BY <3>1, SumOfNone
    <3>4. 0 * mark = 0
      OBVIOUS
    <3>5. QED
      BY <2>2, <3>2, <3>3, <3>4
  <2>5. QED
    BY <2>3, <2>4
<1>11. QED
  BY <1>5, <1>6, <1>7, <1>8, <1>9, <1>10 DEF Worth, Cash

(* A fill goes with its order.                                             *)
LEMMA AnswerTyped ==
  ASSUME NEW order, NEW bar, NEW fill, fill = Accounts!FillOrder(order, bar, Brokerage), fill # None
  PROVE  /\ fill.id = order.id /\ fill.side = order.side
         /\ order.limit = None => fill.price = bar.close + order.side * 1
<1>1. PICK price : price = IF order.limit = None THEN bar.close + order.side * Brokerage.slip ELSE order.limit
  OBVIOUS
<1>2. fill = [id |-> order.id, instrument |-> order.instrument, side |-> order.side,
              quantity |-> order.quantity, price |-> price, fee |-> Brokerage.fee]
  BY <1>1 DEF Accounts!FillOrder
<1>3. Brokerage.slip = 1
  BY DEF Brokerage
<1>4. QED
  BY <1>1, <1>2, <1>3

(* The reconciliation has a row per order of the books.                    *)
RowsTell(todo) ==
  LET orders == Ordered(todo)
      bars == [i \in {todo[k][2] : k \in orders} |-> todo[CHOOSE k \in orders : todo[k][2] = i][6]]
      placed == [k \in orders |-> OrderOf(todo, k)]
      rows == Accounts!Reconcile(placed, Accounts!FillBatch(placed, bars, Brokerage), bars)
  IN  \A k \in orders :
        /\ rows[k].filled <=> Accounts!FillOrder(placed[k], bars[todo[k][2]], Brokerage) # None
        /\ rows[k].filled /\ placed[k].limit = None => rows[k].slippage[1] > 0

(* What the row of an order says, by its fills.                            *)
RowSays(row, mine, fills, o, bars) ==
  /\ mine = {} => row.filled = FALSE
  /\ mine # {} => /\ row.filled = TRUE
                  /\ row.slippage = Accounts!Adverse(fills[Accounts!Max(mine)].price, o.side, bars[o.instrument].close)

(* Those are the ones with its id.                                         *)
FillsOf(fills, o) == {j \in DOMAIN fills : fills[j].id = o.id}

(* Every order has such a row.                                             *)
LEMMA RowOf ==
  ASSUME NEW placed, NEW fills, NEW bars, NEW k \in DOMAIN placed,
         placed[k].instrument \in DOMAIN bars, bars[placed[k].instrument].close # 0
  PROVE  RowSays(Accounts!Reconcile(placed, fills, bars)[k], FillsOf(fills, placed[k]), fills, placed[k], bars)
BY DEF Accounts!Reconcile, RowSays, FillsOf

(* Each fill has the id of its own order, so the rows tell.                *)
LEMMA RowsAlwaysTell ==
  ASSUME NEW todo, IsTodo(todo)
  PROVE  RowsTell(todo)
<1>1. PICK orders : orders = Ordered(todo)
  OBVIOUS
<1>2. PICK bars : bars = [i \in {todo[k][2] : k \in orders} |-> todo[CHOOSE k \in orders : todo[k][2] = i][6]]
  OBVIOUS
<1>3. PICK placed : placed = [k \in orders |-> OrderOf(todo, k)]
  OBVIOUS
<1>4. PICK fills : fills = Accounts!FillBatch(placed, bars, Brokerage)
  OBVIOUS
<1>5. PICK rows : rows = Accounts!Reconcile(placed, fills, bars)
  OBVIOUS
<1>6. ASSUME NEW k \in orders PROVE IsOrder(todo[k]) /\ k \in Nat
  BY <1>1 DEF Ordered, IsTodo, IsDeposit
<1>7. ASSUME NEW k \in orders
      PROVE  /\ todo[k][2] \in DOMAIN bars
             /\ bars[todo[k][2]].close \in Nat \ {0}
  <2>1. PICK i : i = todo[k][2]
    OBVIOUS
  <2>2. PICK j : j = CHOOSE l \in orders : todo[l][2] = i
    OBVIOUS
  <2>3. j \in orders /\ todo[j][2] = i
    BY <2>1, <2>2
  <2>4. i \in DOMAIN bars /\ bars[i] = todo[j][6]
    BY <1>2, <2>1, <2>2
  <2>5. todo[j][6].close \in Nat \ {0}
    BY <1>6, <2>3 DEF IsOrder
  <2>6. QED
    BY <2>1, <2>4, <2>5
<1>8. ASSUME NEW k \in orders
      PROVE  /\ placed[k].id = k /\ placed[k].instrument = todo[k][2] /\ placed[k].side = todo[k][3]
             /\ placed[k].side \in {-1, 1}
  BY <1>3, <1>6 DEF OrderOf, IsOrder
<1>9. PICK answer : answer = [k \in orders |-> Accounts!FillOrder(placed[k], bars[todo[k][2]], Brokerage)]
  OBVIOUS
<1>10. /\ DOMAIN fills = {k \in orders : answer[k] # None}
       /\ \A k \in DOMAIN fills : fills[k] = answer[k]
  <2>1. DOMAIN placed = orders
    BY <1>3
  <2>2. PICK reply : reply = [k \in orders |-> IF placed[k].instrument \in DOMAIN bars
                                             THEN Accounts!FillOrder(placed[k], bars[placed[k].instrument], Brokerage) ELSE None]
    OBVIOUS
  <2>3. fills = [k \in {j \in orders : reply[j] # None} |-> reply[k]]
    BY <1>4, <2>1, <2>2 DEF Accounts!FillBatch
  <2>4. \A k \in orders : reply[k] = answer[k]
    BY <1>7, <1>8, <1>9, <2>2
  <2>5. QED
    BY <2>3, <2>4
<1>11. ASSUME NEW k \in DOMAIN fills PROVE k \in orders /\ fills[k].id = k
  <2>1. k \in orders /\ answer[k] # None /\ fills[k] = answer[k]
    BY <1>10
  <2>2. PICK fill, order, bar : fill = answer[k] /\ order = placed[k] /\ bar = bars[todo[k][2]]
    OBVIOUS
  <2>3. fill = Accounts!FillOrder(order, bar, Brokerage) /\ fill # None
    BY <1>9, <2>1, <2>2
  <2>4. fill.id = order.id
    BY <2>3, AnswerTyped
  <2>5. QED
    BY <1>8, <2>1, <2>2, <2>4
<1>12. ASSUME NEW k \in orders
       PROVE  /\ rows[k].filled <=> answer[k] # None
              /\ rows[k].filled /\ placed[k].limit = None => rows[k].slippage[1] > 0
  <2>1. PICK o, mine, row : o = placed[k] /\ mine = {j \in DOMAIN fills : fills[j].id = o.id} /\ row = rows[k]
    OBVIOUS
  <2>2. PICK bar : bar = bars[todo[k][2]]
    OBVIOUS
  <2>3. o.instrument = todo[k][2] /\ o.instrument \in DOMAIN bars /\ bar.close \in Nat \ {0} /\ bars[o.instrument].close # 0
    BY <1>7, <1>8, <2>1, <2>2
  <2>4. k \in DOMAIN placed
    BY <1>3
  <2>5. /\ mine = {} => row.filled = FALSE
        /\ mine # {} => /\ row.filled = TRUE
                        /\ row.slippage = Accounts!Adverse(fills[Accounts!Max(mine)].price, o.side, bars[o.instrument].close)
    <3>1. placed[k].instrument \in DOMAIN bars /\ bars[placed[k].instrument].close # 0
      BY <2>1, <2>3
    <3>2. RowSays(Accounts!Reconcile(placed, fills, bars)[k], FillsOf(fills, placed[k]), fills, placed[k], bars)
      BY <2>4, <3>1, RowOf, Zenon
    <3>3. mine = FillsOf(fills, placed[k])
      BY <2>1 DEF FillsOf
    <3>4. RowSays(row, mine, fills, o, bars)
      BY <1>5, <2>1, <3>2, <3>3, Zenon
    <3>5. QED
      BY <3>4 DEF RowSays
  <2>6. mine = IF answer[k] # None THEN {k} ELSE {}
    <3>1. o.id = k
      BY <1>8, <2>1
    <3>2. \A j \in DOMAIN fills : fills[j].id = o.id <=> j = k
      BY <1>11, <3>1
    <3>3. k \in DOMAIN fills <=> answer[k] # None
      BY <1>10
    <3>4. QED
      BY <2>1, <3>2, <3>3
  <2>7. row.filled <=> answer[k] # None
    BY <2>5, <2>6
  <2>8. ASSUME row.filled, o.limit = None PROVE row.slippage[1] > 0
    <3>1. answer[k] # None /\ mine = {k}
      BY <2>6, <2>7, <2>8
    <3>2. Accounts!Max(mine) = k
      <4>1. k \in Nat
        BY <1>6
      <4>2. \A x : x \in mine <=> x = k
        BY <3>1
      <4>3. QED
        BY <4>1, <4>2 DEF Accounts!Max
    <3>3. PICK fill : fill = answer[k] /\ fill = fills[k]
      BY <1>10, <3>1
    <3>4. fill = Accounts!FillOrder(o, bar, Brokerage)
      BY <1>9, <2>1, <2>2, <3>3
    <3>5. fill.price = bar.close + o.side * 1
      BY <2>8, <3>1, <3>3, <3>4, AnswerTyped
    <3>6. row.slippage = Accounts!Adverse(fill.price, o.side, bar.close)
      BY <2>2, <2>3, <2>5, <3>1, <3>2, <3>3
    <3>7. row.slippage[1] = (fill.price - bar.close) * o.side
      BY <3>6 DEF Accounts!Adverse
    <3>8. o.side \in {-1, 1}
      BY <1>8, <2>1
    <3>9. QED
      BY <2>3, <3>5, <3>7, <3>8
  <2>9. QED
    BY <2>1, <2>7, <2>8
<1>13. \A k \in orders : answer[k] = Accounts!FillOrder(placed[k], bars[todo[k][2]], Brokerage)
  BY <1>9
<1>14. \A k \in orders :
         /\ rows[k].filled <=> Accounts!FillOrder(placed[k], bars[todo[k][2]], Brokerage) # None
         /\ rows[k].filled /\ placed[k].limit = None => rows[k].slippage[1] > 0
  BY <1>12, <1>13
<1>15. bars = [i \in {todo[k][2] : k \in Ordered(todo)} |-> todo[CHOOSE k \in Ordered(todo) : todo[k][2] = i][6]]
  BY <1>1, <1>2
<1>16. placed = [k \in Ordered(todo) |-> OrderOf(todo, k)]
  BY <1>1, <1>3
<1>17. rows = Accounts!Reconcile(placed, Accounts!FillBatch(placed, bars, Brokerage), bars)
  BY <1>4, <1>5
<1>18. \A k \in Ordered(todo) :
         /\ rows[k].filled <=> Accounts!FillOrder(placed[k], bars[todo[k][2]], Brokerage) # None
         /\ rows[k].filled /\ placed[k].limit = None => rows[k].slippage[1] > 0
  BY <1>1, <1>14
<1>19. QED
  BY <1>15, <1>16, <1>17, <1>18 DEF RowsTell

(* For any deposits and orders of the two markets, any limits and bars:    *)
(* the accounts of a currency cancel out; unless a sell was refused,       *)
(* position account and average cost differ by what was earned, and the    *)
(* portfolio is worth what its steps added; every order has its row, and   *)
(* no market order is filled at the close or better                        *)
(* (ledger_paper/ledger.py, simulator.py).                                 *)
THEOREM BooksBalanced ==
  ASSUME NEW todo, IsTodo(todo)
  PROVE  BooksAreBalanced(todo)
<1>1. PICK final : final = BooksOf(todo)[Len(todo)]
  OBVIOUS
<1>2. Len(todo) \in Nat /\ Len(todo) \in 0..Len(todo)
  BY DEF IsTodo
<1>3. WellKept(final) /\ \A c \in Currencies : CcyBalance(final, c) = 0
  BY <1>1, <1>2, AllKept
<1>4. ASSUME NEW c \in Currency
      PROVE  SumFunction([a \in {a \in DOMAIN final.balance : a[2] = c} |-> final.balance[a]]) = 0
  <2>1. c \in Currencies
    BY DEF Currency, Currencies
  <2>2. PICK S : S = {a \in DOMAIN final.balance : a[2] = c}
    OBVIOUS
  <2>3. SumFunction([a \in S |-> final.balance[a]]) = 0
    BY <1>3, <2>1, <2>2, AccountsCancel
  <2>4. QED
    BY <2>2, <2>3
<1>5. ASSUME Oversales(todo) = {}, NEW i \in {"us", "cn"}
      PROVE  LET held == Accounts!Holding(final, i)
                 account == Accounts!BalanceOf(final, <<"position", MarketCcy[i], i>>)
             IN  Equal(Sum(<<account, 1>>, Earned(todo, i)), <<held.quantity * held.cost[1], held.cost[2]>>)
  <2>1. i \in Markets
    BY DEF Markets
  <2>2. CostsAgree(final, i, Earned(todo, i))
    BY <1>1, <1>5, <2>1, CostsAlwaysAgree
  <2>3. QED
    BY <2>2 DEF CostsAgree, CostAgrees, Shares
<1>6. ASSUME Oversales(todo) = {}, NEW c \in Currency
      PROVE  Accounts!Value(final, [i \in {"us", "cn"} |-> 2], MarketCcy)[c]
               = SumFunction([k \in DOMAIN todo |-> ValueAdded(todo, 2, c, k)])
  <2>1. c \in Currencies
    BY DEF Currency, Currencies
  <2>2. PICK i, marks : i = Local(c) /\ marks = [j \in {"us", "cn"} |-> 2]
    OBVIOUS
  <2>3. i \in Markets /\ MarketCcy[i] = c
    BY <2>1, <2>2, MarketsOf
  <2>4. PICK mark \in Int : mark = 2
    OBVIOUS
  <2>5. marks = [j \in {"us", "cn"} |-> mark]
    BY <2>2, <2>4
  <2>6. Accounts!Value(final, marks, MarketCcy)[c] = Worth(final, i, mark)
    BY <1>3, <2>1, <2>2, <2>5, ValueIsWorth
  <2>7. Worth(final, i, mark) = SumFunction([k \in DOMAIN todo |-> ValueAdded(todo, mark, c, k)])
    BY <1>1, <1>6, <2>3, WorthIsAdded
  <2>8. QED
    BY <2>2, <2>4, <2>6, <2>7
<1>7. RowsTell(todo)
  BY RowsAlwaysTell
<1>8. QED
  BY <1>1, <1>4, <1>5, <1>6, <1>7, Zenon DEF BooksAreBalanced, RowsTell

-----------------------------------------------------------------------------
(* The corporate actions of a job.                                         *)
DatedActions == UNION {[1..n -> Actions \X (2..5)] : n \in 0..2}

(* The adjustments of the runs.                                            *)
AdjustJob == IsJob("adjust") => job[2] \in [1..4 -> {2, 3}] /\ job[3] \in DatedActions

(* They have closes and actions.                                           *)
LEMMA AdjustJobs == MCSpec => []AdjustJob
<1>1. MCInit => AdjustJob
  BY DEF MCInit, AdjustJob, IsJob
<1>2. AdjustJob /\ [MCNext]_<<vars, trading, job>> => AdjustJob'
  <2>1. ASSUME Choose PROVE AdjustJob'
    <3>1. SUFFICES ASSUME job'[1] = "adjust" PROVE AdjustJob'
      BY DEF AdjustJob, IsJob
    <3>2. \E closes \in [1..4 -> {2, 3}], n \in 0..2 :
          \E actions \in [1..n -> Actions \X (2..5)] : job' = <<"adjust", closes, actions>>
      <4>1. CASE \E n \in 1..3 : \E operations \in [1..n -> BookOps] : job' = <<"books", operations>>
        BY <3>1, <4>1
      <4>2. CASE \E flaws \in SUBSET Flaws, side \in {-1, 1}, market \in {"CN", "US"}, limit \in {0, 40},
                    held \in {0, 20}, weight \in {-1, 64, 128}, safe, built \in BOOLEAN :
                   job' = <<"risk", Context(flaws, side, market, limit), held, weight, safe, built>>
        BY <3>1, <4>2
      <4>3. CASE \E scores \in [1..3 -> -2..3], cfg \in Limits : job' = <<"portfolio", scores, cfg>>
        BY <3>1, <4>3
      <4>4. CASE \E rates \in SUBSET Rates, day \in 1..3 :
                   /\ \A p, q \in rates : p.base = q.base /\ p.day = q.day => p = q
                   /\ job' = <<"fx", rates, day>>
        BY <3>1, <4>4
      <4>5. CASE \E opens \in [1..3 -> {9, 10, 11}], day \in 0..4, halted \in SUBSET {2, 4},
                    gone \in {2, 4, 9}, last \in {-1, 1}, quantity \in 1..2 :
                   job' = <<"order", opens, day, halted, gone, last, quantity>>
        BY <3>1, <4>5
      <4>6. CASE \E n \in 2..4, costs \in Costs, shorts \in BOOLEAN, table \in [1..2 -> {-1, 0, 1}] :
                   \E prices \in [1..n -> (1..2) \X (1..2)] : job' = <<"backtest", prices, costs, shorts, table>>
        BY <3>1, <4>6
      <4>7. QED
        BY <2>1, <4>1, <4>2, <4>3, <4>4, <4>5, <4>6, Zenon DEF Choose
    <3>3. PICK closes \in [1..4 -> {2, 3}], n \in 0..2 :
            \E actions \in [1..n -> Actions \X (2..5)] : job' = <<"adjust", closes, actions>>
      BY <3>2, Zenon
    <3>4. PICK actions \in [1..n -> Actions \X (2..5)] : job' = <<"adjust", closes, actions>>
      BY <3>3
    <3>5. actions \in DatedActions
      BY <3>4 DEF DatedActions
    <3>6. job'[2] = closes /\ job'[3] = actions
      BY <3>4
    <3>7. QED
      BY <3>5, <3>6 DEF AdjustJob
  <2>2. ASSUME AdjustJob, UNCHANGED job PROVE AdjustJob'
    BY <2>2 DEF AdjustJob, IsJob
  <2>3. QED
    BY <2>1, <2>2 DEF MCNext, vars
<1>3. QED
  BY <1>1, <1>2, PTL DEF MCSpec

(* The conversions of the runs.                                            *)
RateJob == IsJob("fx") => job[2] \in SUBSET Rates /\ job[3] \in 1..3

(* They have rates and a day.                                              *)
LEMMA RateJobs == MCSpec => []RateJob
<1>1. MCInit => RateJob
  BY DEF MCInit, RateJob, IsJob
<1>2. RateJob /\ [MCNext]_<<vars, trading, job>> => RateJob'
  <2>1. ASSUME Choose PROVE RateJob'
    <3>1. SUFFICES ASSUME job'[1] = "fx" PROVE RateJob'
      BY DEF RateJob, IsJob
    <3>2. \E rates \in SUBSET Rates, day \in 1..3 :
          /\ \A p, q \in rates : p.base = q.base /\ p.day = q.day => p = q
          /\ job' = <<"fx", rates, day>>
      <4>1. CASE \E n \in 1..3 : \E operations \in [1..n -> BookOps] : job' = <<"books", operations>>
        BY <3>1, <4>1
      <4>2. CASE \E flaws \in SUBSET Flaws, side \in {-1, 1}, market \in {"CN", "US"}, limit \in {0, 40},
                    held \in {0, 20}, weight \in {-1, 64, 128}, safe, built \in BOOLEAN :
                   job' = <<"risk", Context(flaws, side, market, limit), held, weight, safe, built>>
        BY <3>1, <4>2
      <4>3. CASE \E scores \in [1..3 -> -2..3], cfg \in Limits : job' = <<"portfolio", scores, cfg>>
        BY <3>1, <4>3
      <4>4. CASE \E closes \in [1..4 -> {2, 3}], n \in 0..2 :
                   \E actions \in [1..n -> Actions \X (2..5)] : job' = <<"adjust", closes, actions>>
        BY <3>1, <4>4
      <4>5. CASE \E opens \in [1..3 -> {9, 10, 11}], day \in 0..4, halted \in SUBSET {2, 4},
                    gone \in {2, 4, 9}, last \in {-1, 1}, quantity \in 1..2 :
                   job' = <<"order", opens, day, halted, gone, last, quantity>>
        BY <3>1, <4>5
      <4>6. CASE \E n \in 2..4, costs \in Costs, shorts \in BOOLEAN, table \in [1..2 -> {-1, 0, 1}] :
                   \E prices \in [1..n -> (1..2) \X (1..2)] : job' = <<"backtest", prices, costs, shorts, table>>
        BY <3>1, <4>6
      <4>7. QED
        BY <2>1, <4>1, <4>2, <4>3, <4>4, <4>5, <4>6, Zenon DEF Choose
    <3>3. PICK rates \in SUBSET Rates, day \in 1..3 : job' = <<"fx", rates, day>>
      BY <3>2, Zenon
    <3>4. job'[2] = rates /\ job'[3] = day
      BY <3>3
    <3>5. QED
      BY <3>4 DEF RateJob
  <2>2. ASSUME RateJob, UNCHANGED job PROVE RateJob'
    BY <2>2 DEF RateJob, IsJob
  <2>3. QED
    BY <2>1, <2>2 DEF MCNext, vars
<1>3. QED
  BY <1>1, <1>2, PTL DEF MCSpec

(* The lists of the runs.                                                  *)
Todos == UNION {[1..n -> BookOps] : n \in 1..3}

(* The books of the runs.                                                  *)
BooksJob == IsJob("books") => job[2] \in Todos

(* They have such a list.                                                  *)
LEMMA BooksJobs == MCSpec => []BooksJob
<1>1. MCInit => BooksJob
  BY DEF MCInit, BooksJob, IsJob
<1>2. BooksJob /\ [MCNext]_<<vars, trading, job>> => BooksJob'
  <2>1. ASSUME Choose PROVE BooksJob'
    <3>1. SUFFICES ASSUME job'[1] = "books" PROVE BooksJob'
      BY DEF BooksJob, IsJob
    <3>2. \E n \in 1..3 : \E operations \in [1..n -> BookOps] : job' = <<"books", operations>>
      <4>1. CASE \E flaws \in SUBSET Flaws, side \in {-1, 1}, market \in {"CN", "US"}, limit \in {0, 40},
                    held \in {0, 20}, weight \in {-1, 64, 128}, safe, built \in BOOLEAN :
                   job' = <<"risk", Context(flaws, side, market, limit), held, weight, safe, built>>
        BY <3>1, <4>1
      <4>2. CASE \E scores \in [1..3 -> -2..3], cfg \in Limits : job' = <<"portfolio", scores, cfg>>
        BY <3>1, <4>2
      <4>3. CASE \E closes \in [1..4 -> {2, 3}], n \in 0..2 :
                   \E actions \in [1..n -> Actions \X (2..5)] : job' = <<"adjust", closes, actions>>
        BY <3>1, <4>3
      <4>4. CASE \E rates \in SUBSET Rates, day \in 1..3 :
                   /\ \A p, q \in rates : p.base = q.base /\ p.day = q.day => p = q
                   /\ job' = <<"fx", rates, day>>
        BY <3>1, <4>4
      <4>5. CASE \E opens \in [1..3 -> {9, 10, 11}], day \in 0..4, halted \in SUBSET {2, 4},
                    gone \in {2, 4, 9}, last \in {-1, 1}, quantity \in 1..2 :
                   job' = <<"order", opens, day, halted, gone, last, quantity>>
        BY <3>1, <4>5
      <4>6. CASE \E n \in 2..4, costs \in Costs, shorts \in BOOLEAN, table \in [1..2 -> {-1, 0, 1}] :
                   \E prices \in [1..n -> (1..2) \X (1..2)] : job' = <<"backtest", prices, costs, shorts, table>>
        BY <3>1, <4>6
      <4>7. QED
        BY <2>1, <4>1, <4>2, <4>3, <4>4, <4>5, <4>6, Zenon DEF Choose
    <3>3. PICK n \in 1..3 : \E operations \in [1..n -> BookOps] : job' = <<"books", operations>>
      BY <3>2, Zenon
    <3>4. PICK operations \in [1..n -> BookOps] : job' = <<"books", operations>>
      BY <3>3
    <3>5. operations \in Todos
      BY <3>4 DEF Todos
    <3>6. job'[2] = operations
      BY <3>4
    <3>7. QED
      BY <3>5, <3>6 DEF BooksJob
  <2>2. ASSUME BooksJob, UNCHANGED job PROVE BooksJob'
    BY <2>2 DEF BooksJob, IsJob
  <2>3. QED
    BY <2>1, <2>2 DEF MCNext, vars
<1>3. QED
  BY <1>1, <1>2, PTL DEF MCSpec

(* What the runs do to the books are deposits and orders.                  *)
LEMMA OpsAreEntries ==
  ASSUME NEW entry \in BookOps
  PROVE  IsDeposit(entry) \/ IsOrder(entry)
<1>1. CASE entry = <<"deposit", 3>>
  BY <1>1 DEF IsDeposit
<1>2. CASE entry \in {"order"} \X {"us", "cn"} \X {-1, 1} \X (1..2) \X {None, 2}
                       \X {[low |-> 1, high |-> 2, close |-> 1], [low |-> 3, high |-> 4, close |-> 3]}
  <2>1. PICK i \in {"us", "cn"}, side \in {-1, 1}, quantity \in 1..2, limit \in {None, 2},
             bar \in {[low |-> 1, high |-> 2, close |-> 1], [low |-> 3, high |-> 4, close |-> 3]} :
               entry = <<"order", i, side, quantity, limit, bar>>
    BY <1>2
  <2>2. bar \in [low : Int, high : Int, close : Nat \ {0}]
    OBVIOUS
  <2>3. limit = None \/ limit \in Int
    OBVIOUS
  <2>4. entry[1] = "order" /\ entry[2] = i /\ entry[3] = side /\ entry[4] = quantity /\ entry[5] = limit /\ entry[6] = bar
    BY <2>1
  <2>5. i \in Markets /\ quantity \in Nat
    BY DEF Markets
  <2>6. QED
    BY <2>2, <2>3, <2>4, <2>5 DEF IsOrder
<1>3. QED
  BY <1>1, <1>2 DEF BookOps

(* So they are lists the theorem is about.                                 *)
LEMMA TodosAreBooked ==
  ASSUME NEW todo \in Todos
  PROVE  IsTodo(todo)
<1>1. PICK n \in 1..3 : todo \in [1..n -> BookOps]
  BY DEF Todos
<1>2. Len(todo) = n /\ n \in Nat /\ DOMAIN todo = 1..n
  BY <1>1
<1>3. \A k \in 1..n : IsDeposit(todo[k]) \/ IsOrder(todo[k])
  BY <1>1, OpsAreEntries
<1>4. QED
  BY <1>2, <1>3 DEF IsTodo

(* So are the rates of the runs, and there are five of them.               *)
LEMMA RatesAreQuotations ==
  ASSUME NEW rates \in SUBSET Rates
  PROVE  rates \in SUBSET Quotations /\ IsFiniteSet(rates)
<1>1. PICK a, b, c, d, e : /\ a = [base |-> "USD", quote |-> "CNY", day |-> 1, rate |-> <<7, 1>>]
                           /\ b = [base |-> "USD", quote |-> "CNY", day |-> 1, rate |-> <<6, 1>>]
                           /\ c = [base |-> "USD", quote |-> "CNY", day |-> 3, rate |-> <<7, 1>>]
                           /\ d = [base |-> "USD", quote |-> "CNY", day |-> 3, rate |-> <<6, 1>>]
                           /\ e = [base |-> "CNY", quote |-> "USD", day |-> 2, rate |-> <<1, 8>>]
  OBVIOUS
<1>2. Rates \subseteq {a, b, c, d, e}
  <2>1. SUFFICES ASSUME NEW r \in Rates PROVE r \in {a, b, c, d, e}
    OBVIOUS
  <2>2. CASE r \in [base : {"USD"}, quote : {"CNY"}, day : {1, 3}, rate : {<<7, 1>>, <<6, 1>>}]
    <3>1. /\ r = [base |-> r.base, quote |-> r.quote, day |-> r.day, rate |-> r.rate]
          /\ r.base = "USD" /\ r.quote = "CNY" /\ r.day \in {1, 3} /\ r.rate \in {<<7, 1>>, <<6, 1>>}
      BY <2>2
    <3>2. QED
      BY <1>1, <3>1
  <2>3. CASE r \in [base : {"CNY"}, quote : {"USD"}, day : {2}, rate : {<<1, 8>>}]
    BY <1>1, <2>3
  <2>4. QED
    BY <2>1, <2>2, <2>3 DEF Rates
<1>3. IsFiniteSet({a, b, c, d, e})
  <2>1. IsFiniteSet({a}) /\ IsFiniteSet({b}) /\ IsFiniteSet({c}) /\ IsFiniteSet({d}) /\ IsFiniteSet({e})
    BY FS_Singleton
  <2>2. IsFiniteSet({a} \cup {b}) /\ IsFiniteSet({c} \cup {d})
    BY <2>1, FS_Union
  <2>3. IsFiniteSet(({a} \cup {b}) \cup ({c} \cup {d}))
    BY <2>2, FS_Union
  <2>4. IsFiniteSet((({a} \cup {b}) \cup ({c} \cup {d})) \cup {e})
    BY <2>1, <2>3, FS_Union
  <2>5. (({a} \cup {b}) \cup ({c} \cup {d})) \cup {e} = {a, b, c, d, e}
    OBVIOUS
  <2>6. QED
    BY <2>4, <2>5
<1>4. IsFiniteSet(rates)
  <2>1. rates \subseteq {a, b, c, d, e}
    BY <1>2
  <2>2. QED
    BY <1>3, <2>1, FS_Subset
<1>5. \A r \in {a, b, c, d, e} : r \in Quotations
  BY <1>1 DEF Quotations, Positive
<1>6. QED
  BY <1>2, <1>4, <1>5

(* The bars of a job.                                                      *)
JobBars(closes) == [k \in 1..4 |-> [day |-> BarDays[k], close |-> closes[k]]]

(* Its corporate actions.                                                  *)
JobActions(dated) == [k \in DOMAIN dated |-> [kind |-> dated[k][1][1], ratio |-> dated[k][1][2], day |-> dated[k][2]]]

(* They are a history and actions the theorem is about.                    *)
LEMMA JobsAreAdjustable ==
  ASSUME NEW closes \in [1..4 -> {2, 3}], NEW dated \in DatedActions
  PROVE  History(JobBars(closes)) /\ JobActions(dated) \in Seq(CorporateActions)
<1>1. PICK bars : bars = JobBars(closes)
  OBVIOUS
<1>2. ASSUME NEW k \in 1..4 PROVE [day |-> BarDays[k], close |-> closes[k]] \in Closes
  <2>1. BarDays[k] \in Int
    BY DEF BarDays
  <2>2. closes[k] \in Int
    OBVIOUS
  <2>3. QED
    BY <2>1, <2>2 DEF Closes
<1>3. bars \in [1..4 -> Closes]
  BY <1>1, <1>2 DEF JobBars
<1>4. bars \in Seq(Closes) /\ Len(bars) = 4
  <2>1. PICK n \in Nat : n = 4
    OBVIOUS
  <2>2. bars \in [1..n -> Closes]
    BY <1>3, <2>1
  <2>3. bars \in Seq(Closes)
    <3>1. bars \in UNION {[1..m -> Closes] : m \in Nat}
      BY <2>1, <2>2
    <3>2. QED
      BY <3>1, SeqDef
  <2>4. DOMAIN bars = 1..4
    BY <1>3
  <2>5. QED
    BY <2>3, <2>4
<1>5. PICK n \in 0..2 : dated \in [1..n -> Actions \X (2..5)]
  BY DEF DatedActions
<1>6. PICK actions : actions = JobActions(dated)
  OBVIOUS
<1>7. ASSUME NEW k \in 1..n
      PROVE  [kind |-> dated[k][1][1], ratio |-> dated[k][1][2], day |-> dated[k][2]] \in CorporateActions
  <2>1. PICK action \in Actions, day \in 2..5 : dated[k] = <<action, day>>
    BY <1>5
  <2>2. action[1] \in {"SPLIT", "MERGER", "RIGHTS", "DIVIDEND", "SPINOFF"} /\ action[2] \in Int \X Int
    BY DEF Actions
  <2>3. day \in Int
    OBVIOUS
  <2>4. dated[k][1] = action /\ dated[k][2] = day
    BY <2>1
  <2>5. QED
    BY <2>2, <2>3, <2>4 DEF CorporateActions
<1>8. actions \in [1..n -> CorporateActions]
  BY <1>5, <1>6, <1>7 DEF JobActions
<1>9. actions \in Seq(CorporateActions)
  <2>1. n \in Nat
    BY <1>5
  <2>2. QED
    BY <1>8, <2>1, SeqDef, Zenon
<1>10. QED
  BY <1>1, <1>4, <1>6, <1>9 DEF History

(* In every state of the run value is neither made nor lost by adjusting   *)
(* prices, converting currencies and keeping the books: ValueIsConserved   *)
(* from the three theorems.                                                *)
THEOREM ValueAlwaysConserved == MCSpec => []ValueIsConserved
<1>1. AdjustJob => AdjustmentsAgree
  <2>1. SUFFICES ASSUME AdjustJob, IsJob("adjust") PROVE AdjustmentsAgree
    BY DEF AdjustmentsAgree
  <2>2. PICK closes, dated : closes = job[2] /\ dated = job[3]
    OBVIOUS
  <2>3. closes \in [1..4 -> {2, 3}] /\ dated \in DatedActions
    BY <2>1, <2>2 DEF AdjustJob
  <2>4. History(JobBars(closes)) /\ JobActions(dated) \in Seq(CorporateActions)
    BY <2>3, JobsAreAdjustable
  <2>5. RatiosAreKept(JobBars(closes), JobActions(dated))
    BY <2>4, AdjustmentKeepsRatios
  <2>6. RatiosAreKept(JobBars(job[2]), JobActions(job[3]))
    BY <2>2, <2>5
  <2>7. QED
    BY <2>6, Zenon DEF AdjustmentsAgree, JobBars, JobActions
<1>2. RateJob => RatesAgree
  <2>1. SUFFICES ASSUME RateJob, IsJob("fx") PROVE RatesAgree
    BY DEF RatesAgree
  <2>2. PICK rates, day : rates = job[2] /\ day = job[3]
    OBVIOUS
  <2>3. rates \in SUBSET Rates /\ day \in Int
    BY <2>1, <2>2 DEF RateJob
  <2>4. ConversionsAgree(rates, day)
    <3>1. rates \in SUBSET Quotations /\ IsFiniteSet(rates)
      BY <2>3, RatesAreQuotations
    <3>2. QED
      BY <2>3, <3>1, ConversionsAlwaysAgree
  <2>5. QED
    BY <2>2, <2>4 DEF RatesAgree
<1>3. BooksJob => BooksBalance
  <2>1. SUFFICES ASSUME BooksJob, IsJob("books") PROVE BooksBalance
    BY DEF BooksBalance
  <2>2. PICK todo : todo = job[2]
    OBVIOUS
  <2>3. todo \in Todos
    BY <2>1, <2>2 DEF BooksJob
  <2>4. BooksAreBalanced(todo)
    BY <2>3, TodosAreBooked, BooksBalanced
  <2>5. QED
    BY <2>2, <2>4 DEF BooksBalance
<1>4. QED
  BY <1>1, <1>2, <1>3, AdjustJobs, RateJobs, BooksJobs, PTL DEF ValueIsConserved
=============================================================================

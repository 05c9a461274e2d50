--------------------------- MODULE BacktestProofs ---------------------------
(***************************************************************************)
(* Theorems about backtests for any strategies, symbols, series, events    *)
(* and signals, and any number of backtests that come, go and reload the   *)
(* bars at the same time.                                                  *)
(*                                                                         *)
(* A step of one worker leaves what is another's alone (OthersStay), but   *)
(* for the loaded bars and the filter.  So each invariant is shown of the  *)
(* context that takes the step; first of all that a context that cannot be *)
(* found yet is new.                                                       *)
(*                                                                         *)
(* The books: what was bought since the last change of day is held; cash,  *)
(* loan and positions move by the same fill; a backtest that was alone and *)
(* pays in full owes the shares it is short of.                            *)
(*                                                                         *)
(* The clock: as long as the quotes of a backtest are of one day, a change *)
(* of day that it sees is one of its clock, so that T+1 is that of the     *)
(* clock and events come in time.  A backtest that was alone has all its   *)
(* bars, and takes them in the order of their times.                       *)
(***************************************************************************)
EXTENDS Backtest, SumFacts, SequenceTheorems, FiniteSetTheorems, TLAPS

Held(a) ==
  \A s \in Symbols : a.today[s] > 0 => a.quantity[s] >= a.today[s]

-----------------------------------------------------------------------------
(* Sets of numbers, and days. *)

\* A set of numbers has a first one.
LEMMA FirstOfSet ==
  ASSUME NEW S \in SUBSET Nat, S # {}
  PROVE  First(S) \in S /\ \A r \in S : First(S) <= r
BY FirstNumber DEF First

\* One of finitely many things comes last.
LEMMA LastOfAll ==
  ASSUME NEW S, IsFiniteSet(S), S # {}, NEW f, \A s \in S : f[s] \in Nat
  PROVE  \E m \in S : \A t \in S : f[t] <= f[m]
<1> DEFINE Bounded == {T \in SUBSET S : T = {} \/ \E m \in T : \A t \in T : f[t] <= f[m]}
<1>1. ASSUME NEW T \in SUBSET S, \A U \in SUBSET T : U # T => U \in Bounded
      PROVE  T \in Bounded
  <2>1. CASE T = {}
    BY <2>1
  <2>2. CASE T # {}
    <3>1. PICK x \in T : TRUE  BY <2>2
    <3>2. T \ {x} \in Bounded  BY <1>1
    <3>3. CASE T \ {x} = {}
      <4>1. \A t \in T : f[t] <= f[x]  BY <3>3
      <4> QED  BY <4>1
    <3>4. CASE T \ {x} # {}
      <4>1. PICK m \in T \ {x} : \A t \in T \ {x} : f[t] <= f[m]  BY <3>2, <3>4
      <4>2. (\A t \in T : f[t] <= f[m]) \/ (\A t \in T : f[t] <= f[x])  BY <4>1
      <4> QED  BY <4>1, <4>2
    <3> QED  BY <3>3, <3>4
  <2> QED  BY <2>1, <2>2
<1> HIDE DEF Bounded
<1>2. S \in Bounded
  BY <1>1, SmallerSetsFirst
<1> QED  BY <1>2 DEF Bounded

\* The symbol that comes last in a set.
LEMMA LastOfSet ==
  ASSUME NEW S \in SUBSET Symbols, S # {}
  PROVE  LET last == CHOOSE s \in S : \A r \in S : r <= s IN
         last \in S /\ \A r \in S : r <= last
<1> DEFINE f == [s \in S |-> s]
<1>1. IsFiniteSet(S) /\ \A s \in S : f[s] \in Nat /\ f[s] = s
  BY AccountAssumption, FS_Subset
<1> HIDE DEF f
<1>2. \E m \in S : \A t \in S : f[t] <= f[m]
  BY <1>1, LastOfAll
<1>3. \E m \in S : \A t \in S : t <= m
  BY <1>1, <1>2
<1> QED  BY <1>3

LEMMA DaysAreNumbers == \A time \in Nat : Day(time) \in Nat
<1>1. \A m \in Nat, n \in Nat \ {0} : m \div n \in Nat  OBVIOUS
<1> QED  BY <1>1, BacktestAssumption DEF Day


LEMMA DaysInOrder == \A m, n \in Nat : m <= n => Day(m) <= Day(n)
<1> SUFFICES ASSUME NEW m \in Nat, NEW n \in Nat, m <= n PROVE Day(m) <= Day(n)
  OBVIOUS
<1> DEFINE d == DayLength
           p == m \div d
           q == n \div d
<1>1. d \in Nat \ {0}  BY BacktestAssumption
<1> HIDE DEF d
<1>2. /\ p \in Nat /\ q \in Nat
      /\ m = d * p + (m % d) /\ m % d \in 0..(d - 1)
      /\ n = d * q + (n % d) /\ n % d \in 0..(d - 1)
  BY <1>1
<1> HIDE DEF p, q
<1>3. ASSUME p > q PROVE FALSE
  <2>1. PICK k \in Nat : p = q + 1 + k
    <3>1. p - q - 1 \in Nat /\ p = q + 1 + (p - q - 1)  BY <1>2, <1>3
    <3> QED  BY <3>1
  <2>2. d * p = d * q + d + d * k  BY <1>1, <1>2, <2>1
  <2>3. d * k \in Nat /\ d * q \in Nat  BY <1>1, <1>2
  <2> QED  BY <1>1, <1>2, <2>2, <2>3
<1>4. p <= q  BY <1>2, <1>3
<1> QED  BY <1>4 DEF Day, p, q, d


LEMMA BarsAreNumbers ==
  ASSUME NEW s \in Symbols, NEW i \in Nat \ {0}, i <= Len(Series[s])
  PROVE  /\ i \in DOMAIN Series[s] /\ Series[s][i] \in Nat /\ Series[s][i] > 0
         /\ Day(Series[s][i]) \in Nat \ {0}
<1>1. Series[s] \in Seq(Nat) /\ i \in 1..Len(Series[s]) /\ DOMAIN Series[s] = 1..Len(Series[s])
  BY BacktestAssumption
<1>2. Series[s][i] \in Nat /\ Series[s][i] >= DayLength
  BY <1>1, ElementOfSeq, BacktestAssumption
<1>3. DayLength \in Nat \ {0} /\ Day(DayLength) = 1
  <2>1. \A d \in Nat \ {0} : d \div d = 1  OBVIOUS
  <2> QED  BY <2>1, BacktestAssumption DEF Day
<1>4. 1 <= Day(Series[s][i]) /\ Day(Series[s][i]) \in Nat
  BY <1>2, <1>3, DaysInOrder, DaysAreNumbers
<1>5. Series[s][i] > 0
  BY <1>2, <1>3
<1> HIDE DEF Day
<1>6. Day(Series[s][i]) \in Nat \ {0}
  BY <1>4
<1> QED  BY <1>1, <1>2, <1>5, <1>6

-----------------------------------------------------------------------------
(* One account. *)

LEMMA MakeAccount ==
  ASSUME NEW cash \in Int, NEW loan \in Nat, NEW quantity \in [Symbols -> Int],
         NEW today \in [Symbols -> Nat], NEW borrowed \in [Symbols -> Nat]
  PROVE  [cash |-> cash, loan |-> loan, quantity |-> quantity, today |-> today,
          borrowed |-> borrowed] \in Account
  BY DEF Account

\* A fill leaves an account an account.
LEMMA FillTypes ==
  ASSUME NEW a \in Account, NEW s \in Symbols, NEW filled \in Int, NEW credit,
         NEW ratio \in 0..Unit
  PROVE  AfterFill(a, s, filled, credit, ratio) \in Account
<1> DEFINE after == AfterFill(a, s, filled, credit, ratio)
<1>1. Price[s] \in Nat /\ Unit \in Nat /\ Commission \in Nat /\ StampTax \in Nat
  BY AccountAssumption
<1>2. CASE filled = 0
  BY <1>2 DEF AfterFill
<1>3. CASE filled # 0
  <2>1. Magnitude(filled) \in Nat
    BY DEF Magnitude
  <2>2. Lent(filled, s, credit, ratio) \in Nat
    <3>1. Magnitude(filled) * Price[s] \in Nat /\ Unit - ratio \in Nat
      BY <1>1, <2>1
    <3> QED  BY <3>1 DEF Lent
  <2>3. CashOut(filled, s, credit, ratio) \in Int
    BY <1>1 DEF CashOut
  <2>4. Fees(filled, s) \in Int
    BY <1>1, <2>1 DEF Fees
  <2>5. Owed(a.borrowed[s], credit, Magnitude(filled)) \in Nat
    BY <2>1 DEF Owed, Most, Account
  <2>6. BoughtLong(a.quantity[s], filled) \in Int
        /\ (filled > 0 => BoughtLong(a.quantity[s], filled) \in Nat)
    BY DEF BoughtLong, Most, Account
  <2>7. a.today[s] + (IF filled > 0 THEN BoughtLong(a.quantity[s], filled) ELSE 0) \in Nat
    BY <2>6 DEF Account
  <2>8. /\ [a.quantity EXCEPT ![s] = @ + filled] \in [Symbols -> Int]
        /\ [a.today EXCEPT ![s] =
              @ + (IF filled > 0 THEN BoughtLong(a.quantity[s], filled) ELSE 0)]
              \in [Symbols -> Nat]
        /\ [a.borrowed EXCEPT ![s] = Owed(@, credit, Magnitude(filled))] \in [Symbols -> Nat]
        /\ a.cash - CashOut(filled, s, credit, ratio) - Fees(filled, s) \in Int
        /\ a.loan + Lent(filled, s, credit, ratio) \in Nat
    BY <2>2, <2>3, <2>4, <2>5, <2>7 DEF Account
  <2>9. after = [cash |-> a.cash - CashOut(filled, s, credit, ratio) - Fees(filled, s),
                 loan |-> a.loan + Lent(filled, s, credit, ratio),
                 quantity |-> [a.quantity EXCEPT ![s] = @ + filled],
                 today |-> [a.today EXCEPT ![s] =
                   @ + (IF filled > 0 THEN BoughtLong(a.quantity[s], filled) ELSE 0)],
                 borrowed |-> [a.borrowed EXCEPT ![s] = Owed(@, credit, Magnitude(filled))]]
    BY <1>3 DEF AfterFill, Account
  <2> QED  BY <2>8, <2>9 DEF Account
<1> QED  BY <1>2, <1>3

\* What a fill does to positions and to shares owed.
LEMMA FillMoves ==
  ASSUME NEW a \in Account, NEW s \in Symbols, NEW filled \in Int, NEW credit, NEW ratio
  PROVE  LET after == AfterFill(a, s, filled, credit, ratio) IN
         /\ \A r \in Symbols \ {s} : /\ after.quantity[r] = a.quantity[r]
                                     /\ after.today[r] = a.today[r]
                                     /\ after.borrowed[r] = a.borrowed[r]
         /\ after.quantity[s] = a.quantity[s] + filled
         /\ after.today[s] = a.today[s] +
              (IF filled > 0 THEN BoughtLong(a.quantity[s], filled) ELSE 0)
         /\ filled = 0 => after.borrowed[s] = a.borrowed[s]
         /\ filled # 0 => after.borrowed[s] = Owed(a.borrowed[s], credit, Magnitude(filled))
  BY DEF AfterFill, Account

LEMMA FillAddsToday ==
  ASSUME NEW a \in Account, NEW s \in Symbols, NEW filled \in Int, NEW credit, NEW ratio
  PROVE  /\ \A r \in Symbols \ {s} : AfterFill(a, s, filled, credit, ratio).today[r] = a.today[r]
         /\ AfterFill(a, s, filled, credit, ratio).today[s] = a.today[s] +
              (IF filled > 0 THEN BoughtLong(a.quantity[s], filled) ELSE 0)
BY FillMoves

\* What may not be sold today covers a purchase, and a sale leaves it alone.
LEMMA PurchaseKeepsToday ==
  ASSUME NEW q \in Int, NEW t \in Nat, NEW n \in Nat \ {0}, t > 0 => q >= t
  PROVE  t + BoughtLong(q, n) > 0 => q + n >= t + BoughtLong(q, n)
<1>1. CASE q >= 0
  BY <1>1 DEF BoughtLong
<1>2. CASE q < 0
  BY <1>2 DEF BoughtLong, Most
<1> QED  BY <1>1, <1>2

LEMMA SaleKeepsToday ==
  ASSUME NEW q \in Int, NEW t \in Nat, NEW n \in Nat \ {0},
         NEW allowShort \in BOOLEAN, t > 0 => q >= t
  PROVE  /\ Sold(q, t, n, allowShort) \in Nat
         /\ t > 0 => q - Sold(q, t, n, allowShort) >= t
<1>1. CASE q <= 0
  BY <1>1 DEF Sold
<1>2. CASE q > 0
  BY <1>2 DEF Sold, Most, Least
<1> QED  BY <1>1, <1>2

\* No order is filled by more than may be sold.
LEMMA FillKeepsHeld ==
  ASSUME NEW a \in Account, Held(a), NEW s \in Symbols, NEW side, NEW n \in Nat \ {0},
         NEW allowShort \in BOOLEAN, NEW credit, NEW ratio
  PROVE  LET filled == Filled(a, s, side, n, allowShort) IN
         filled \in Int /\ Held(AfterFill(a, s, filled, credit, ratio))
<1> DEFINE filled == Filled(a, s, side, n, allowShort)
           after == AfterFill(a, s, filled, credit, ratio)
<1>1. a.quantity[s] \in Int /\ a.today[s] \in Nat
  BY DEF Account
<1>2. a.today[s] > 0 => a.quantity[s] >= a.today[s]
  BY DEF Held
<1>3. filled \in Int
  BY <1>1 DEF Filled, Sold, Most, Least
<1>4. /\ \A r \in Symbols \ {s} : after.quantity[r] = a.quantity[r] /\ after.today[r] = a.today[r]
      /\ after.quantity[s] = a.quantity[s] + filled
      /\ after.today[s] = a.today[s] + (IF filled > 0 THEN BoughtLong(a.quantity[s], filled) ELSE 0)
  BY <1>3, FillMoves
<1>5. after.today[s] > 0 => after.quantity[s] >= after.today[s]
  <2> DEFINE q == a.quantity[s]
             t == a.today[s]
  <2>1. CASE side = "buy"
    <3>1. filled = n
      BY <2>1 DEF Filled
    <3>2. after.quantity[s] = q + n /\ after.today[s] = t + BoughtLong(q, n)
      BY <3>1, <1>4
    <3> QED  BY <3>2, <1>1, <1>2, PurchaseKeepsToday
  <2>2. CASE side # "buy"
    <3> DEFINE sold == Sold(q, t, n, allowShort)
    <3>1. filled = -sold
      BY <2>2 DEF Filled
    <3>2. sold \in Nat /\ (t > 0 => q - sold >= t)
      BY <1>1, <1>2, SaleKeepsToday
    <3> HIDE DEF sold
    <3>3. after.quantity[s] = q - sold /\ after.today[s] = t
      BY <3>1, <3>2, <1>1, <1>4
    <3> QED  BY <3>2, <3>3
  <2> QED  BY <2>1, <2>2
<1> QED  BY <1>3, <1>4, <1>5 DEF Held

\* Events add to what is held and to nothing else.
LEMMA EventMoves ==
  ASSUME NEW a \in Account, NEW s \in Symbols,
         NEW event \in [day : Nat \ {0}, bonus : Nat, cash : Nat]
  PROVE  LET after == AfterEvent(a, s, event) IN
         /\ after \in Account
         /\ after.today = a.today /\ after.borrowed = a.borrowed
         /\ \A r \in Symbols \ {s} : after.quantity[r] = a.quantity[r]
         /\ after.quantity[s] >= a.quantity[s]
         /\ a.quantity[s] <= 0 => after.quantity[s] = a.quantity[s]
<1>1. a.quantity[s] \in Int /\ event.bonus \in Nat /\ event.cash \in Nat /\ Unit \in Nat
  BY AccountAssumption DEF Account
<1>2. Bonus(a.quantity[s], event) \in Nat
  <2>1. CASE a.quantity[s] > 0
    <3>1. a.quantity[s] * event.bonus \in Nat
      BY <1>1, <2>1
    <3> QED  BY <3>1, <2>1, <1>1 DEF Bonus
  <2> QED  BY <1>1, <2>1 DEF Bonus
<1>3. CashDividend(a.quantity[s], event) \in Int
  <2>1. a.quantity[s] * event.cash * Unit \in Int
    BY <1>1
  <2> QED  BY <2>1 DEF CashDividend
<1>4. a.quantity[s] <= 0 => Bonus(a.quantity[s], event) = 0
  BY DEF Bonus
<1> DEFINE after == AfterEvent(a, s, event)
           bonus == Bonus(a.quantity[s], event)
           cash == CashDividend(a.quantity[s], event)
<1>5. after = [a EXCEPT !.quantity = [a.quantity EXCEPT ![s] = @ + bonus], !.cash = @ + cash]
  BY DEF AfterEvent, Account
<1> HIDE DEF after, bonus, cash
<1>6. /\ after.today = a.today /\ after.borrowed = a.borrowed
      /\ after.quantity = [a.quantity EXCEPT ![s] = @ + bonus]
  BY <1>5 DEF Account
<1>7. after \in Account
  <2>1. [a.quantity EXCEPT ![s] = @ + bonus] \in [Symbols -> Int] /\ a.cash + cash \in Int
    BY <1>2, <1>3 DEF Account, bonus, cash
  <2> QED  BY <1>5, <2>1 DEF Account
<1>8. /\ \A r \in Symbols \ {s} : after.quantity[r] = a.quantity[r]
      /\ after.quantity[s] = a.quantity[s] + bonus
  BY <1>6 DEF Account
<1> QED  BY <1>1, <1>2, <1>4, <1>6, <1>7, <1>8 DEF after, bonus

\* A new day.
LEMMA DayMoves ==
  ASSUME NEW a \in Account
  PROVE  /\ NextDay(a) \in Account /\ Held(NextDay(a))
         /\ NextDay(a).quantity = a.quantity /\ NextDay(a).borrowed = a.borrowed
         /\ \A s \in Symbols : NextDay(a).today[s] = 0
  BY DEF NextDay, Account, Held

-----------------------------------------------------------------------------

\* What an account is worth.
Net(a) == a.cash + Value(a.quantity) - a.loan

\* Positions have a value, and it changes with the position of one symbol.
LEMMA ValueChanges ==
  ASSUME NEW q \in [Symbols -> Int]
  PROVE  /\ Value(q) \in Int
         /\ \A s \in Symbols, n \in Int :
              Value([q EXCEPT ![s] = @ + n]) = Value(q) + n * Price[s] * Unit
<1>1. Unit \in Nat /\ \A s \in Symbols : Price[s] \in Nat
  BY AccountAssumption
<1> DEFINE worth == [s \in Symbols |-> q[s] * Price[s] * Unit]
<1>2. worth \in [Symbols -> Int] /\ IsFiniteSet(Symbols)
  BY <1>1, AccountAssumption
<1>3. Value(q) = SumFunction(worth)
  BY DEF Value
<1>4. SumFunction(worth) \in Int
  <2> HIDE DEF worth
  <2>1. DOMAIN worth = Symbols /\ Numeric(worth, Symbols)
    BY <1>2 DEF Numeric
  <2> QED  BY <2>1, SumOfPart DEF SumFunction
<1>5. ASSUME NEW s \in Symbols, NEW n \in Int
      PROVE  Value([q EXCEPT ![s] = @ + n]) = Value(q) + n * Price[s] * Unit
  <2> DEFINE moved == (q[s] + n) * Price[s] * Unit
  <2>1. /\ worth[s] \in Int /\ moved \in Int /\ n * Price[s] * Unit \in Int
        /\ moved - worth[s] = n * Price[s] * Unit
    BY <1>1
  <2>2. [r \in Symbols |-> [q EXCEPT ![s] = @ + n][r] * Price[r] * Unit]
          = [worth EXCEPT ![s] = moved]
    OBVIOUS
  <2>3. Value([q EXCEPT ![s] = @ + n]) = SumFunction([worth EXCEPT ![s] = moved])
    BY <2>2 DEF Value
  <2> HIDE DEF worth, moved
  <2>4. SumFunction([worth EXCEPT ![s] = moved]) = SumFunction(worth) + (moved - worth[s])
    BY <1>2, <2>1, SumUpdate
  <2> QED  BY <1>3, <2>1, <2>3, <2>4
<1> QED  BY <1>3, <1>4, <1>5

\* The margin that is paid and the rest that is lent are the whole.
LEMMA MarginAndLoan ==
  \A amount, whole, part \in Int : amount * part + amount * (whole - part) = amount * whole
OBVIOUS

\* A fill costs its fees and nothing else.  (Only a purchase is financed.)
LEMMA FillCostsFees ==
  ASSUME NEW a \in Account, NEW s \in Symbols, NEW filled \in Int, NEW credit,
         NEW ratio \in 0..Unit, credit = "MarginBuy" => filled >= 0
  PROVE  /\ Fees(filled, s) \in Nat
         /\ Net(AfterFill(a, s, filled, credit, ratio)) = Net(a) - Fees(filled, s)
<1> DEFINE after == AfterFill(a, s, filled, credit, ratio)
           out == CashOut(filled, s, credit, ratio)
           lent == Lent(filled, s, credit, ratio)
           fees == Fees(filled, s)
<1>1. /\ Price[s] \in Nat /\ Unit \in Nat /\ Commission \in Nat /\ StampTax \in Nat
      /\ ratio \in Int
      /\ a.quantity \in [Symbols -> Int] /\ a.cash \in Int /\ a.loan \in Int
  BY AccountAssumption DEF Account
<1>2. fees \in Nat
  <2>1. Magnitude(filled) * Price[s] \in Nat
    BY <1>1 DEF Magnitude
  <2> QED  BY <1>1, <2>1 DEF Fees
<1>3. CASE filled = 0
  <2>1. fees = 0
    <3>1. Magnitude(0) * Price[s] = 0  BY <1>1 DEF Magnitude
    <3> QED  BY <1>1, <1>3, <3>1 DEF Fees
  <2>2. after = a  BY <1>3 DEF AfterFill
  <2>3. Net(a) \in Int  BY <1>1, ValueChanges DEF Net
  <2> HIDE DEF after, fees
  <2> QED  BY <1>2, <2>1, <2>2, <2>3 DEF after, fees
<1>4. CASE filled # 0
  <2>1. out \in Int /\ lent \in Int /\ out + lent = filled * Price[s] * Unit
    <3> DEFINE amount == filled * Price[s]
    <3>1. amount \in Int  BY <1>1
    <3>2. CASE credit = "MarginBuy"
      <4>1. filled > 0 /\ Magnitude(filled) = filled
        BY <1>4, <3>2 DEF Magnitude
      <4>2. out = amount * ratio /\ lent = amount * (Unit - ratio)
        BY <3>2, <4>1 DEF CashOut, Lent
      <4> HIDE DEF amount, out, lent
      <4>3. amount * ratio \in Int /\ amount * (Unit - ratio) \in Int
        BY <1>1, <3>1
      <4> QED  BY <1>1, <3>1, <4>2, <4>3, MarginAndLoan DEF amount
    <3>3. CASE credit # "MarginBuy"
      <4>1. out = amount * Unit /\ lent = 0
        BY <3>3 DEF CashOut, Lent
      <4>2. amount * Unit \in Int  BY <1>1, <3>1
      <4> QED  BY <4>1, <4>2
    <3> QED  BY <3>2, <3>3
  <2>2. /\ after.cash = a.cash - out - fees
        /\ after.loan = a.loan + lent
        /\ after.quantity = [a.quantity EXCEPT ![s] = @ + filled]
    BY <1>4 DEF AfterFill, Account
  <2>3. Value(after.quantity) = Value(a.quantity) + filled * Price[s] * Unit
        /\ Value(a.quantity) \in Int
    BY <1>1, <2>2, ValueChanges
  <2>4. filled * Price[s] * Unit \in Int  BY <1>1
  <2> HIDE DEF after, out, lent, fees
  <2>5. Net(after) = Net(a) - fees
    BY <1>1, <1>2, <2>1, <2>2, <2>3, <2>4 DEF Net
  <2> QED  BY <1>2, <2>5 DEF after, fees
<1> QED  BY <1>3, <1>4

\* An event hands out what is counted as received.
LEMMA EventPays ==
  ASSUME NEW a \in Account, NEW s \in Symbols,
         NEW event \in [day : Nat \ {0}, bonus : Nat, cash : Nat]
  PROVE  LET q == a.quantity[s]
             paid == Bonus(q, event) * Price[s] * Unit + CashDividend(q, event)
         IN  paid \in Nat /\ Net(AfterEvent(a, s, event)) = Net(a) + paid
<1> DEFINE q == a.quantity[s]
           bonus == Bonus(q, event)
           cash == CashDividend(q, event)
           after == AfterEvent(a, s, event)
<1>1. /\ Price[s] \in Nat /\ Unit \in Nat
      /\ event.bonus \in Nat /\ event.cash \in Nat
      /\ a.quantity \in [Symbols -> Int] /\ a.cash \in Int /\ a.loan \in Int /\ q \in Int
  BY AccountAssumption DEF Account
<1>2. bonus \in Nat /\ cash \in Nat
  <2>1. CASE q > 0
    <3>1. q * event.bonus \in Nat /\ q * event.cash \in Nat  BY <1>1, <2>1
    <3>2. q * event.cash * Unit \in Nat  BY <1>1, <3>1
    <3>3. \A n \in Nat : n \div 10 \in Nat  OBVIOUS
    <3>4. bonus = (q * event.bonus) \div 10 /\ cash = (q * event.cash * Unit) \div 10
      BY <1>1, <2>1 DEF Bonus, CashDividend
    <3> QED  BY <3>1, <3>2, <3>3, <3>4
  <2> QED  BY <1>1, <2>1 DEF Bonus, CashDividend
<1>3. /\ after.cash = a.cash + cash /\ after.loan = a.loan
      /\ after.quantity = [a.quantity EXCEPT ![s] = @ + bonus]
  BY DEF AfterEvent, Account
<1>4. /\ Value(after.quantity) = Value(a.quantity) + bonus * Price[s] * Unit
      /\ Value(a.quantity) \in Int
  BY <1>1, <1>2, <1>3, ValueChanges
<1>5. bonus * Price[s] * Unit \in Nat  BY <1>1, <1>2
<1> HIDE DEF bonus, cash, after
<1>6. Net(after) = Net(a) + (bonus * Price[s] * Unit + cash)
  BY <1>1, <1>2, <1>3, <1>4, <1>5 DEF Net
<1> QED  BY <1>2, <1>5, <1>6 DEF bonus, cash, after

\* A new day moves no money.
LEMMA DayCostsNothing ==
  ASSUME NEW a \in Account
  PROVE  Net(NextDay(a)) = Net(a)
BY DEF Net, NextDay, Account

-----------------------------------------------------------------------------
-----------------------------------------------------------------------------
(* The steps. *)

\* stepForward returns and there are more bars.
Resume(c) ==
  /\ phase[c] = "step" /\ Pending(c) = {} /\ Waiting(c) = {} /\ more[c]
  /\ phase' = [phase EXCEPT ![c] = "graph"]
  /\ UNCHANGED <<market, books, runs, queue, signals, disturbed>>

Leave(c) == c \in Alive /\ End(c)

SomeSignal(c) ==
  \E s \in Symbols, side \in {"buy", "sell"}, volume \in Quantities[c] :
    Signal(c, s, side, volume)

Step(c) ==
  \/ Create(c) \/ Leave(c) \/ Resume(c) \/ Advance(c) \/ ApplyEvent(c) \/ Match(c)
  \/ SomeSignal(c)

LEMMA NextIsStep == [Next]_vars => (\E c \in Contexts : Step(c)) \/ UNCHANGED vars
<1> SUFFICES ASSUME [Next]_vars PROVE (\E c \in Contexts : Step(c)) \/ UNCHANGED vars
  OBVIOUS
<1>1. ASSUME NEW c \in Contexts, Exhaust(c) \/ Return(c) \/ Abandon(c) PROVE Step(c)
  <2>1. CASE Exhaust(c) \/ Abandon(c)
    BY <2>1 DEF Exhaust, Abandon, Alive, Leave, Step
  <2>2. CASE Return(c)
    BY <2>2 DEF Return, Alive, Leave, Resume, Step
  <2> QED  BY <1>1, <2>1, <2>2
<1> QED  BY <1>1 DEF Next, Work, Over, Step, SomeSignal

\* What is of one context.
Mine(c) ==
  <<phase[c], common[c], index[c], shown[c], lastDay[c], more[c], queue[c], account[c],
    nextEvent[c], signals[c], clock[c], bought[c], opening[c], charged[c], received[c]>>

LEMMA OthersStay ==
  ASSUME TypeOK, NEW c \in Contexts, Step(c), NEW d \in Contexts \ {c}
  PROVE  /\ Mine(d)' = Mine(d)
         /\ d \in apart' <=> d \in apart
         /\ d \in disturbed => d \in disturbed'
<1> USE DEF TypeOK, Mine
<1>1. CASE Create(c)
  <2>1. CASE Decide(c)
    BY <2>1 DEF Decide, market, books
  <2>2. CASE SetFilter(c) \/ Clear(c) \/ Load(c) \/ FindStart(c) \/ SetIndices(c)
    BY <2>2 DEF SetFilter, Clear, Load, FindStart, SetIndices, books
  <2>3. CASE Register(c)
    BY <2>3 DEF Register, market
  <2> QED  BY <1>1, <2>1, <2>2, <2>3 DEF Create
<1>2. CASE Leave(c)
  BY <1>2 DEF Leave, End
<1>3. CASE Resume(c)
  BY <1>3 DEF Resume, market, books
<1>4. CASE Advance(c)
  BY <1>4 DEF Advance
<1>5. CASE ApplyEvent(c)
  BY <1>5 DEF ApplyEvent, market
<1>6. CASE Match(c)
  BY <1>6 DEF Match, market
<1>7. CASE SomeSignal(c)
  BY <1>7 DEF SomeSignal, Signal, market, books
<1> QED  BY <1>1, <1>2, <1>3, <1>4, <1>5, <1>6, <1>7 DEF Step

\* A context that is made cannot be found before, and only its cash and what it
\* began with may change.
LEMMA CreateMoves ==
  ASSUME TypeOK, NEW c \in Contexts, Create(c)
  PROVE  /\ UNCHANGED <<shown, lastDay, more, clock, apart, queue, nextEvent, charged,
                        received, bought, signals>>
         /\ c \notin Alive /\ phase'[c] \in Phases \ {"none", "step"}
         /\ account' = [account EXCEPT ![c].cash = account'[c].cash]
         /\ account'[c].cash \in Int
<1> USE DEF TypeOK, Alive, Phases
<1>1. account[c] \in Account /\ account[c].cash \in Int
      /\ account = [account EXCEPT ![c].cash = account[c].cash]
  BY DEF Account
<1>2. CASE Decide(c)
  BY <1>1, <1>2 DEF Decide, market, books
<1>3. CASE SetFilter(c) \/ Clear(c) \/ Load(c) \/ FindStart(c) \/ SetIndices(c)
  BY <1>1, <1>3 DEF SetFilter, Clear, Load, FindStart, SetIndices, books
<1>4. CASE Register(c)
  <2>1. Capital * Unit \in Int
    BY AccountAssumption, BacktestAssumption
  <2>2. CASE c \in registered
    BY <1>1, <1>4, <2>2 DEF Register, market
  <2>3. CASE c \notin registered
    <3>1. account' = [account EXCEPT ![c].cash = Capital * Unit]
      BY <1>4, <2>3 DEF Register
    <3>2. account'[c].cash = Capital * Unit
      BY <3>1, <1>1 DEF Account
    <3> QED  BY <1>4, <2>1, <3>1, <3>2 DEF Register, market
  <2> QED  BY <2>2, <2>3
<1> QED  BY <1>2, <1>3, <1>4 DEF Create

\* A context that goes.
LEMMA LeaveMoves ==
  ASSUME TypeOK, NEW c \in Contexts, Leave(c)
  PROVE  /\ c \in Alive /\ phase'[c] = "none"
         /\ account'[c] = Opened(account[c].cash) /\ opening'[c] = account[c].cash
         /\ \A s \in Symbols : /\ queue'[c][s] = << >> /\ shown'[c][s] = 0
                               /\ nextEvent'[c][s] = 1 /\ bought'[c][s] = 0
         /\ charged'[c] = 0 /\ received'[c] = 0 /\ clock'[c] = 0 /\ lastDay'[c] = 0
         /\ c \notin apart' /\ disturbed' = disturbed
  BY DEF Leave, End, TypeOK

\* A step of the life of a context.
LEMMA LifeMoves ==
  ASSUME TypeOK, NEW c \in Contexts,
         Resume(c) \/ Advance(c) \/ ApplyEvent(c) \/ Match(c) \/ SomeSignal(c)
  PROVE  /\ c \in Alive /\ phase'[c] \in {"graph", "step"} /\ opening' = opening
         /\ disturbed' = disturbed
<1> USE DEF TypeOK, Alive
<1>1. CASE Resume(c)  BY <1>1 DEF Resume, books
<1>2. CASE Advance(c)  BY <1>2 DEF Advance
<1>3. CASE ApplyEvent(c)  BY <1>3 DEF ApplyEvent
<1>4. CASE Match(c)  BY <1>4 DEF Match
<1>5. CASE SomeSignal(c)  BY <1>5 DEF SomeSignal, Signal, books
<1> QED  BY <1>1, <1>2, <1>3, <1>4, <1>5


\* The event that is applied.
LEMMA PendingIsEvent ==
  ASSUME TypeOK, NEW c \in Contexts, ApplyEvent(c)
  PROVE  LET s == First(Pending(c)) IN
         /\ s \in Symbols /\ s \in Pending(c)
         /\ nextEvent[c][s] \in 1..Len(Events[s])
         /\ Events[s][nextEvent[c][s]] \in [day : Nat \ {0}, bonus : Nat, cash : Nat]
<1> DEFINE s == First(Pending(c))
<1>1. Pending(c) \in SUBSET Nat /\ Pending(c) # {}
  BY AccountAssumption DEF ApplyEvent, Pending
<1>2. s \in Pending(c)
  BY <1>1, FirstOfSet
<1>3. s \in Symbols /\ nextEvent[c][s] <= Len(Events[s])
  BY <1>2 DEF Pending
<1> HIDE DEF s
<1>4. Events[s] \in Seq([day : Nat \ {0}, bonus : Nat, cash : Nat])
  BY <1>3, BacktestAssumption
<1>5. nextEvent[c][s] \in 1..Len(Events[s])
  BY <1>3, <1>4 DEF TypeOK
<1>6. Events[s][nextEvent[c][s]] \in [day : Nat \ {0}, bonus : Nat, cash : Nat]
  BY <1>4, <1>5, ElementOfSeq
<1> QED  BY <1>2, <1>3, <1>5, <1>6 DEF s

\* An event is applied to one symbol, and only the books move.
LEMMA EventStep ==
  ASSUME TypeOK, NEW c \in Contexts, ApplyEvent(c)
  PROVE  /\ UNCHANGED <<market, registered, reserved, opening, charged, bought, phase,
                        runs, queue, signals, disturbed>>
         /\ phase[c] = "step" /\ Pending(c) # {}
         /\ nextEvent' \in [Contexts -> [Symbols -> Nat \ {0}]]
         /\ \E s \in Symbols, event \in [day : Nat \ {0}, bonus : Nat, cash : Nat] :
              LET after == AfterEvent(account[c], s, event)
                  q == account[c].quantity[s]
              IN  /\ after \in Account
                  /\ account' = [account EXCEPT ![c] = after]
                  /\ received' = [received EXCEPT ![c] =
                       @ + (Bonus(q, event) * Price[s] * Unit + CashDividend(q, event))]
<1> DEFINE s == First(Pending(c))
           event == Events[s][nextEvent[c][s]]
           q == account[c].quantity[s]
           bonus == Bonus(q, event) * Price[s] * Unit
           cash == CashDividend(q, event)
<1>1. s \in Symbols /\ event \in [day : Nat \ {0}, bonus : Nat, cash : Nat]
  BY PendingIsEvent
<1>2. /\ account' = [account EXCEPT ![c] = AfterEvent(account[c], s, event)]
      /\ nextEvent' = [nextEvent EXCEPT ![c][s] = @ + 1]
      /\ received' = [received EXCEPT ![c] = @ + bonus + cash]
      /\ phase[c] = "step" /\ Pending(c) # {}
      /\ UNCHANGED <<market, registered, reserved, opening, charged, bought, phase,
                     runs, queue, signals, disturbed>>
  BY DEF ApplyEvent
<1> HIDE DEF s, event
<1>3. AfterEvent(account[c], s, event) \in Account /\ account[c] \in Account
  BY <1>1, EventMoves DEF TypeOK
<1>4. nextEvent' \in [Contexts -> [Symbols -> Nat \ {0}]]
  <2>1. nextEvent \in [Contexts -> [Symbols -> Nat \ {0}]]
    BY DEF TypeOK
  <2>2. nextEvent[c][s] + 1 \in Nat \ {0}
    BY <1>1, <2>1
  <2> QED  BY <1>1, <1>2, <2>1, <2>2
<1>5. bonus \in Int /\ cash \in Int /\ received[c] \in Nat
  <2>1. q \in Int /\ event.bonus \in Nat /\ event.cash \in Nat /\ Unit \in Nat /\ Price[s] \in Nat
    BY <1>1, <1>3, AccountAssumption DEF Account
  <2>2. q * event.bonus \in Int /\ q * event.cash * Unit \in Int
    BY <2>1
  <2>3. \A n \in Int : n \div 10 \in Int
    OBVIOUS
  <2>4. Bonus(q, event) \in Int /\ cash \in Int
    BY <2>2, <2>3 DEF Bonus, CashDividend
  <2>5. bonus \in Int
    BY <2>1, <2>4
  <2> QED  BY <2>4, <2>5 DEF TypeOK
<1> HIDE DEF bonus, cash
<1>6. received' = [received EXCEPT ![c] = @ + (bonus + cash)]
  <2>1. received[c] + bonus + cash = received[c] + (bonus + cash)
    BY <1>5
  <2> QED  BY <1>2, <2>1
<1> QED  BY <1>1, <1>2, <1>3, <1>4, <1>6 DEF bonus, cash

\* The order that is matched, and how it is filled.
LEMMA MatchMoves ==
  ASSUME TypeOK, NEW c \in Contexts, Match(c)
  PROVE  LET s == First(Waiting(c))
             order == Head(queue[c][s])
             credit == Credit(c, s, order)
             filled == Filled(account[c], s, order.side, order.volume, credit = "ShortSell")
         IN
         /\ UNCHANGED <<market, registered, reserved, opening, nextEvent, received,
                        phase, runs, signals, disturbed>>
         /\ phase[c] = "step" /\ Pending(c) = {}
         /\ s \in Symbols /\ queue[c][s] # << >> /\ order \in Order
         /\ filled \in Int
         /\ queue' = [queue EXCEPT ![c][s] = Tail(@)]
         /\ queue' \in [Contexts -> [Symbols -> Seq(Order)]]
         /\ account' = [account EXCEPT ![c] =
                          AfterFill(account[c], s, filled, credit, MarginRatio[c])]
         /\ account' \in [Contexts -> Account]
         /\ Fees(filled, s) \in Nat
         /\ charged' = [charged EXCEPT ![c] = @ + Fees(filled, s)]
<1> DEFINE s == First(Waiting(c))
           order == Head(queue[c][s])
           credit == Credit(c, s, order)
           filled == Filled(account[c], s, order.side, order.volume, credit = "ShortSell")
<1>1. Waiting(c) \in SUBSET Nat /\ Waiting(c) # {} /\ Waiting(c) \subseteq Symbols
  BY AccountAssumption, BacktestAssumption DEF Match, Waiting, Quoted
<1>2. s \in Waiting(c) /\ s \in Symbols
  BY <1>1, FirstOfSet
<1>3. queue[c][s] # << >> /\ queue[c][s] \in Seq(Order)
  BY <1>2 DEF Waiting, TypeOK
<1>4. order \in Order /\ Tail(queue[c][s]) \in Seq(Order)
  BY <1>3, HeadTailProperties
<1>5. /\ UNCHANGED <<market, registered, reserved, opening, nextEvent, received,
                     phase, runs, signals, disturbed>>
      /\ phase[c] = "step" /\ Pending(c) = {}
      /\ queue' = [queue EXCEPT ![c][s] = Tail(@)]
      /\ account' = [account EXCEPT ![c] =
                       AfterFill(account[c], s, filled, credit, MarginRatio[c])]
      /\ charged' = [charged EXCEPT ![c] = @ + Fees(filled, s)]
  BY DEF Match
<1> HIDE DEF s, order
<1>6. account[c] \in Account /\ MarginRatio[c] \in 0..Unit
  BY BacktestAssumption DEF TypeOK
<1>7. /\ account[c].quantity[s] \in Int /\ account[c].today[s] \in Nat
      /\ order.volume \in Nat \ {0} /\ order.side \in {"buy", "sell"}
      /\ order.credit \in {"None", "MarginBuy", "ShortSell", "ShortCover"}
  BY <1>2, <1>4, <1>6 DEF Account, Order
<1>8. filled \in Int
  BY <1>7 DEF Filled, Sold, Most, Least
<1>9. account' \in [Contexts -> Account]
  <2> HIDE DEF credit, filled
  <2>1. AfterFill(account[c], s, filled, credit, MarginRatio[c]) \in Account
    BY <1>2, <1>6, <1>8, FillTypes
  <2> QED  BY <1>5, <2>1 DEF TypeOK
<1>10. Fees(filled, s) \in Nat
  <2> HIDE DEF filled
  <2>1. Magnitude(filled) \in Nat /\ Price[s] \in Nat
    BY <1>2, <1>8, AccountAssumption DEF Magnitude
  <2>2. Magnitude(filled) * Price[s] \in Nat
    BY <2>1
  <2>3. \A m, n \in Nat : m * n \in Nat
    OBVIOUS
  <2>4. /\ Magnitude(filled) * Price[s] * Commission \in Nat
        /\ Magnitude(filled) * Price[s] * StampTax \in Nat
    BY <2>2, <2>3, AccountAssumption
  <2> QED  BY <2>4 DEF Fees
<1>11. queue' \in [Contexts -> [Symbols -> Seq(Order)]]
  BY <1>2, <1>4, <1>5 DEF TypeOK
<1> QED  BY <1>2, <1>3, <1>4, <1>5, <1>8, <1>9, <1>10, <1>11 DEF s, order

\* A match adds to what was bought on the day of the clock what it adds to what
\* may not be sold today.
LEMMA BoughtIsToday ==
  ASSUME TypeOK, NEW c \in Contexts, Match(c)
  PROVE  /\ bought' \in [Contexts -> [Symbols -> Nat]]
         /\ \A r \in Symbols :
              bought'[c][r] - bought[c][r] = account'[c].today[r] - account[c].today[r]
<1> DEFINE s == First(Waiting(c))
           order == Head(queue[c][s])
           credit == Credit(c, s, order)
           filled == Filled(account[c], s, order.side, order.volume, credit = "ShortSell")
           after == AfterFill(account[c], s, filled, credit, MarginRatio[c])
           long == IF filled > 0 THEN BoughtLong(account[c].quantity[s], filled) ELSE 0
<1>1. s \in Symbols /\ filled \in Int /\ account' = [account EXCEPT ![c] = after]
  BY MatchMoves
<1>2. bought' = [bought EXCEPT ![c][s] = @ + long]
  BY DEF Match
<1>3. account[c] \in Account /\ bought[c] \in [Symbols -> Nat]
  BY DEF TypeOK
<1> HIDE DEF s, order, credit, filled
<1>4. /\ \A r \in Symbols \ {s} : after.today[r] = account[c].today[r]
      /\ after.today[s] = account[c].today[s] + long
  <2> DEFINE a == account[c]
             ratio == MarginRatio[c]
  <2>1. a \in Account
    BY <1>3
  <2> HIDE DEF a, ratio
  <2>2. /\ \A r \in Symbols \ {s} : AfterFill(a, s, filled, credit, ratio).today[r] = a.today[r]
        /\ AfterFill(a, s, filled, credit, ratio).today[s] = a.today[s] +
             (IF filled > 0 THEN BoughtLong(a.quantity[s], filled) ELSE 0)
    BY <1>1, <2>1, FillAddsToday
  <2> QED  BY <2>2 DEF a, ratio
<1>5. long \in Nat
  BY <1>1, <1>3 DEF BoughtLong, Most, Account
<1> HIDE DEF long, after
<1>6. bought' \in [Contexts -> [Symbols -> Nat]] /\ account'[c] = after
  <2>1. bought \in [Contexts -> [Symbols -> Nat]] /\ account \in [Contexts -> Account]
    BY DEF TypeOK
  <2>2. bought[c][s] + long \in Nat
    BY <1>1, <1>5, <2>1
  <2> QED  BY <1>1, <1>2, <2>1, <2>2
<1>7. ASSUME NEW r \in Symbols
      PROVE  bought'[c][r] - bought[c][r] = account'[c].today[r] - account[c].today[r]
  <2>1. bought[c][r] \in Nat /\ account[c].today[r] \in Nat
    BY <1>3 DEF Account
  <2>2. CASE r = s
    <3>1. bought'[c][s] = bought[c][s] + long
      BY <1>1, <1>2 DEF TypeOK
    <3> QED  BY <1>4, <1>5, <1>6, <2>1, <2>2, <3>1
  <2>3. CASE r # s
    <3>1. bought'[c][r] = bought[c][r]
      BY <1>1, <1>2, <2>3 DEF TypeOK
    <3> QED  BY <1>4, <1>6, <2>1, <2>3, <3>1
  <2> QED  BY <2>2, <2>3
<1> QED  BY <1>6, <1>7

\* The order that is given.
LEMMA SignalMoves ==
  ASSUME TypeOK, NEW c \in Contexts, SomeSignal(c)
  PROVE  /\ UNCHANGED <<market, books, phase, runs, disturbed>>
         /\ phase[c] = "graph"
         /\ signals' \in [Contexts -> Nat]
         /\ \E s \in Symbols, d \in Alive, order \in Order :
              /\ s \in Quoted(c)
              /\ order.credit = OrderType(c, order.side, account[d].quantity[s])
              /\ queue' = [queue EXCEPT ![c][s] = Append(@, order)]
              /\ queue' \in [Contexts -> [Symbols -> Seq(Order)]]
<1>1. PICK s \in Symbols, side \in {"buy", "sell"}, volume \in Quantities[c] :
        Signal(c, s, side, volume)
  BY DEF SomeSignal
<1>2. volume \in Nat \ {0}
  BY BacktestAssumption
<1>3. PICK d \in Alive : queue' = [queue EXCEPT ![c][s] =
        Append(@, [side |-> side, volume |-> volume,
                   credit |-> OrderType(c, side, account[d].quantity[s])])]
  BY <1>1 DEF Signal
<1>4. account[d].quantity[s] \in Int
  BY DEF TypeOK, Account, Alive
<1> DEFINE order == [side |-> side, volume |-> volume,
                     credit |-> OrderType(c, side, account[d].quantity[s])]
<1>5. order \in Order
  BY <1>2, <1>4 DEF Order, OrderType
<1>6. order.credit = OrderType(c, order.side, account[d].quantity[s])
  OBVIOUS
<1>7. queue' = [queue EXCEPT ![c][s] = Append(@, order)]
  BY <1>3
<1> HIDE DEF order
<1>8. queue' \in [Contexts -> [Symbols -> Seq(Order)]]
  <2>1. queue \in [Contexts -> [Symbols -> Seq(Order)]]
    BY DEF TypeOK
  <2>2. Append(queue[c][s], order) \in Seq(Order)
    BY <1>5, <2>1
  <2> QED  BY <1>7, <2>1, <2>2
<1>9. /\ UNCHANGED <<market, books, phase, runs, disturbed>>
      /\ phase[c] = "graph" /\ s \in Quoted(c) /\ signals' = [signals EXCEPT ![c] = @ + 1]
  BY <1>1 DEF Signal
<1>10. signals' \in [Contexts -> Nat]
  BY <1>9 DEF TypeOK
<1> QED  BY <1>5, <1>6, <1>7, <1>8, <1>9, <1>10

-----------------------------------------------------------------------------
(* Types. *)

\* Quotes are of bars.
ShownAreBars == \A c \in Contexts, s \in Symbols : shown[c][s] <= Len(Series[s])

TypesInv == TypeOK /\ ShownAreBars

\* The symbols of a backtest that have bars.
LEMMA PresentHaveBars ==
  ASSUME TypeOK, NEW c \in Contexts, NEW s \in Present(c)
  PROVE  /\ s \in Symbols /\ s \in Universe[c] /\ s \in loaded
         /\ Series[s] \in Seq(Nat) /\ Len(Series[s]) \in Nat \ {0} /\ Series[s][1] \in Nat
<1>1. s \in Universe[c] /\ s \in loaded /\ s \in Symbols
  BY BacktestAssumption DEF Present
<1>2. Series[s] \in Seq(Nat) /\ Series[s] # << >>
  BY <1>1, BacktestAssumption DEF TypeOK
<1>3. Len(Series[s]) \in Nat \ {0}
  BY <1>2, EmptySeq
<1> QED  BY <1>1, <1>2, <1>3, ElementOfSeq

LEMMA CommonStartIsTime ==
  ASSUME TypeOK, NEW c \in Contexts
  PROVE  CommonStart(c) \in Nat
<1> DEFINE P == Present(c)
           f == [s \in P |-> Series[s][1]]
           start == {Series[s][1] : s \in P}
<1>1. CASE P = {}
  BY <1>1 DEF CommonStart
<1>2. CASE P # {}
  <2>1. IsFiniteSet(P)
    BY AccountAssumption, BacktestAssumption, FS_Subset DEF Present
  <2>2. \A s \in P : f[s] \in Nat /\ f[s] = Series[s][1]
    BY PresentHaveBars
  <2> HIDE DEF P, f
  <2>3. PICK m \in P : \A t \in P : f[t] <= f[m]
    BY <1>2, <2>1, <2>2, LastOfAll
  <2>4. /\ Series[m][1] \in start /\ \A u \in start : u <= Series[m][1]
        /\ \A u \in start : u \in Nat
    BY <2>2, <2>3
  <2>5. CommonStart(c) = CHOOSE t \in start : \A u \in start : u <= t
    BY <2>4 DEF CommonStart, P
  <2> HIDE DEF start
  <2> QED  BY <2>4, <2>5
<1> QED  BY <1>1, <1>2

LEMMA StartIndexIsOne ==
  ASSUME TypeOK, NEW c \in Contexts, NEW s \in Symbols
  PROVE  StartIndex(c, s) \in Nat \ {0}
<1> DEFINE late == {i \in DOMAIN Series[s] : Series[s][i] >= common[c]}
<1>1. late \in SUBSET Nat /\ 0 \notin late
  BY BacktestAssumption
<1>2. StartIndex(c, s) = IF late = {} THEN 1 ELSE First(late)
  BY DEF StartIndex
<1> HIDE DEF late
<1>3. late # {} => First(late) \in late
  BY <1>1, FirstOfSet
<1>4. late # {} => First(late) \in Nat \ {0}
  BY <1>1, <1>3
<1> HIDE DEF First
<1> QED  BY <1>2, <1>4

\* The bars and days that a step of the clock is about.
LEMMA AdvanceMoves ==
  ASSUME TypesInv, NEW c \in Contexts, Advance(c)
  PROVE  /\ phase[c] = "graph" /\ phase' = [phase EXCEPT ![c] = "step"]
         /\ \A s \in Present(c) : index[c][s] <= Len(Series[s])
         /\ Due(c) # {} => First(Due(c)) \in Due(c)
         /\ clock'[c] = IF Due(c) = {} THEN clock[c]
                        ELSE Series[First(Due(c))][index[c][First(Due(c))]]
         /\ \A s \in Symbols :
              /\ shown'[c][s] = IF s \in Present(c) THEN index[c][s] ELSE shown[c][s]
              /\ index'[c][s] = IF s \in Due(c) THEN index[c][s] + 1 ELSE index[c][s]
         /\ TypesInv'
<1> USE DEF TypesInv
<1>1. /\ index[c] \in [Symbols -> Nat \ {0}] /\ Universe[c] \subseteq Symbols
      /\ Present(c) \subseteq Symbols /\ Due(c) \subseteq Present(c)
  BY BacktestAssumption DEF TypeOK, Present, Due
<1>2. \A s \in Present(c) : index[c][s] <= Len(Series[s])
  <2>1. \A s \in Present(c) : ~(index[c][s] > Len(Series[s]))
    BY DEF Advance, Exhausted
  <2> QED  BY <1>1, <2>1, PresentHaveBars
<1>3. Due(c) # {} => First(Due(c)) \in Due(c)
  BY <1>1, AccountAssumption, FirstOfSet
<1>4. /\ phase[c] = "graph" /\ phase' = [phase EXCEPT ![c] = "step"]
      /\ shown' = [shown EXCEPT ![c] = [s \in Symbols |->
                    IF s \in Present(c) THEN index[c][s] ELSE shown[c][s]]]
      /\ index' = [index EXCEPT ![c] = [s \in Symbols |->
                    IF s \in Due(c) THEN index[c][s] + 1 ELSE index[c][s]]]
      /\ clock' = [clock EXCEPT ![c] = IF Due(c) = {} THEN clock[c]
                    ELSE Series[First(Due(c))][index[c][First(Due(c))]]]
      /\ lastDay' = [lastDay EXCEPT ![c] =
           IF Quoted(c)' = {} THEN lastDay[c]
           ELSE [s \in Quoted(c)' |-> Day(Series[s][shown'[c][s]])]
                  [CHOOSE s \in Quoted(c)' : \A r \in Quoted(c)' : r <= s]]
      /\ more' = [more EXCEPT ![c] = Due(c) # {}]
      /\ bought' = IF Day(clock'[c]) = Day(clock[c]) THEN bought
                   ELSE [bought EXCEPT ![c] = [s \in Symbols |-> 0]]
      /\ \/ account' = [account EXCEPT ![c] = NextDay(account[c])]
         \/ account' = [account EXCEPT ![c] = account[c]]
      /\ apart' \in {apart, apart \cup {c}}
      /\ UNCHANGED <<loaded, filter, common, queue, registered, reserved, nextEvent,
                     signals, opening, charged, received, runs, disturbed>>
  BY DEF Advance, TimeShown
<1>5. \A s \in Symbols :
        /\ shown'[c][s] = IF s \in Present(c) THEN index[c][s] ELSE shown[c][s]
        /\ index'[c][s] = IF s \in Due(c) THEN index[c][s] + 1 ELSE index[c][s]
  BY <1>4 DEF TypeOK
<1>6. /\ shown' \in [Contexts -> [Symbols -> Nat]]
      /\ index' \in [Contexts -> [Symbols -> Nat \ {0}]]
  <2>1. shown \in [Contexts -> [Symbols -> Nat]] /\ index \in [Contexts -> [Symbols -> Nat \ {0}]]
    BY DEF TypeOK
  <2>2. [s \in Symbols |-> IF s \in Present(c) THEN index[c][s] ELSE shown[c][s]] \in [Symbols -> Nat]
    BY <1>1, <2>1
  <2>3. [s \in Symbols |-> IF s \in Due(c) THEN index[c][s] + 1 ELSE index[c][s]]
          \in [Symbols -> Nat \ {0}]
    BY <1>1, <2>1
  <2> QED  BY <1>4, <2>1, <2>2, <2>3
<1>7. ShownAreBars'
  <2> SUFFICES ASSUME NEW d \in Contexts, NEW s \in Symbols PROVE shown'[d][s] <= Len(Series[s])
    BY DEF ShownAreBars
  <2>1. d # c => shown'[d][s] = shown[d][s]
    BY <1>4 DEF TypeOK
  <2> QED  BY <1>2, <1>5, <2>1 DEF ShownAreBars
<1>8. clock' \in [Contexts -> Nat]
  <2>1. Due(c) # {} => Series[First(Due(c))][index[c][First(Due(c))]] \in Nat
    BY <1>1, <1>2, <1>3, BarsAreNumbers
  <2> QED  BY <1>4, <2>1 DEF TypeOK
<1>9. lastDay' \in [Contexts -> Nat]
  <2> DEFINE last == CHOOSE s \in Quoted(c)' : \A r \in Quoted(c)' : r <= s
  <2>1. ASSUME Quoted(c)' # {}
        PROVE  [s \in Quoted(c)' |-> Day(Series[s][shown'[c][s]])][last] \in Nat
    <3>1. Quoted(c)' \in SUBSET Symbols
      BY <1>1 DEF Quoted
    <3>2. last \in Quoted(c)'
      BY <2>1, <3>1, LastOfSet
    <3> HIDE DEF last
    <3>3. last \in Symbols /\ shown'[c][last] \in Nat \ {0} /\ shown'[c][last] <= Len(Series[last])
      BY <1>6, <1>7, <3>1, <3>2 DEF Quoted, ShownAreBars
    <3>4. Series[last][shown'[c][last]] \in Nat
      BY <3>3, BarsAreNumbers
    <3> QED  BY <3>2, <3>4, DaysAreNumbers
  <2> HIDE DEF last
  <2>2. lastDay'[c] \in Nat /\ \A d \in Contexts \ {c} : lastDay'[d] = lastDay[d]
    BY <1>4, <2>1 DEF TypeOK, last
  <2> QED  BY <1>4, <2>2 DEF TypeOK
<1>10. account' \in [Contexts -> Account]
  <2>1. account[c] \in Account /\ NextDay(account[c]) \in Account
    BY DayMoves DEF TypeOK
  <2> QED  BY <1>4, <2>1 DEF TypeOK
<1>11. /\ more' \in [Contexts -> BOOLEAN] /\ bought' \in [Contexts -> [Symbols -> Nat]]
       /\ apart' \subseteq Contexts /\ phase' \in [Contexts -> Phases]
  BY <1>4 DEF TypeOK, Phases
<1>12. TypeOK'
  BY <1>4, <1>6, <1>8, <1>9, <1>10, <1>11 DEF TypeOK
<1>13. clock'[c] = IF Due(c) = {} THEN clock[c]
                   ELSE Series[First(Due(c))][index[c][First(Due(c))]]
  BY <1>4 DEF TypeOK
<1> QED  BY <1>2, <1>3, <1>4, <1>5, <1>7, <1>12, <1>13

LEMMA TypesAfterCreate ==
  ASSUME TypesInv, NEW c \in Contexts, Create(c)
  PROVE  TypesInv'
<1>1. TypeOK /\ ShownAreBars /\ shown' = shown
  BY CreateMoves DEF TypesInv
<1>2. ShownAreBars'
  BY <1>1 DEF ShownAreBars
<1>3. phase' \in [Contexts -> Phases]
  BY <1>1 DEF Create, Decide, SetFilter, Clear, Load, Register, FindStart, SetIndices,
              TypeOK, Phases
<1>4. CASE Decide(c)
  <2>1. disturbed' \subseteq Contexts
    BY <1>1, <1>4 DEF Decide, About, TypeOK
  <2>2. runs' \in [Contexts -> Nat]
    BY <1>1, <1>4 DEF Decide, TypeOK
  <2> QED  BY <1>1, <1>2, <1>3, <1>4, <2>1, <2>2 DEF Decide, market, books, TypesInv, TypeOK
<1>5. CASE SetFilter(c)
  <2>1. Universe[c] \subseteq Symbols  BY BacktestAssumption
  <2> QED  BY <1>1, <1>2, <1>3, <1>5, <2>1 DEF SetFilter, books, TypesInv, TypeOK
<1>6. CASE Clear(c)
  BY <1>1, <1>2, <1>3, <1>6 DEF Clear, books, TypesInv, TypeOK
<1>7. CASE Load(c)
  <2>1. loaded' \subseteq {s \in Symbols : Series[s] # << >>}
    BY <1>1, <1>7 DEF Load, TypeOK
  <2> QED  BY <1>1, <1>2, <1>3, <1>7, <2>1 DEF Load, books, TypesInv, TypeOK
<1>8. CASE Register(c)
  <2> DEFINE cash == account'[c].cash
  <2>1. account' = [account EXCEPT ![c].cash = cash] /\ cash \in Int
    BY <1>1, CreateMoves
  <2>2. opening' = [opening EXCEPT ![c] = cash]
    BY <1>8 DEF Register
  <2> HIDE DEF cash
  <2>3. account \in [Contexts -> Account] /\ account[c] \in Account /\ opening \in [Contexts -> Int]
    BY <1>1 DEF TypeOK
  <2>4. [account[c] EXCEPT !.cash = cash] \in Account
    BY <2>1, <2>3, MakeAccount DEF Account
  <2>5. account' \in [Contexts -> Account] /\ opening' \in [Contexts -> Int]
    BY <2>1, <2>2, <2>3, <2>4
  <2>6. registered' \subseteq Contexts /\ reserved' \subseteq registered'
    BY <1>1, <1>8 DEF Register, TypeOK
  <2> QED  BY <1>1, <1>2, <1>3, <1>8, <2>5, <2>6 DEF Register, market, TypesInv, TypeOK
<1>9. CASE FindStart(c)
  <2>1. common' \in [Contexts -> Nat]
    BY <1>1, <1>9, CommonStartIsTime DEF FindStart, TypeOK
  <2> QED  BY <1>1, <1>2, <1>3, <1>9, <2>1 DEF FindStart, books, TypesInv, TypeOK
<1>10. CASE SetIndices(c)
  <2>1. \A s \in Symbols : StartIndex(c, s) \in Nat \ {0}
    BY <1>1, StartIndexIsOne
  <2> DEFINE first == [s \in Symbols |-> IF s \in Present(c) THEN StartIndex(c, s) ELSE 1]
  <2>2. index' \in [Contexts -> [Symbols -> Nat \ {0}]]
    <3>1. index \in [Contexts -> [Symbols -> Nat \ {0}]]
      BY <1>1 DEF TypeOK
    <3>2. first \in [Symbols -> Nat \ {0}]
      BY <2>1
    <3>3. index' = [index EXCEPT ![c] = first]
      BY <1>10 DEF SetIndices
    <3> HIDE DEF first
    <3> QED  BY <3>1, <3>2, <3>3
  <2> QED  BY <1>1, <1>2, <1>3, <1>10, <2>2 DEF SetIndices, books, TypesInv, TypeOK
<1> QED  BY <1>4, <1>5, <1>6, <1>7, <1>8, <1>9, <1>10 DEF Create

LEMMA OpenedIsAccount ==
  ASSUME NEW cash \in Int
  PROVE  Opened(cash) \in Account
BY DEF Opened, Account

LEMMA TypesAfterLeave ==
  ASSUME TypesInv, NEW c \in Contexts, Leave(c)
  PROVE  TypesInv'
<1> USE DEF TypesInv, TypeOK
<1>1. account[c].cash \in Int /\ Opened(account[c].cash) \in Account
  BY OpenedIsAccount DEF Account
<1>2. /\ account' \in [Contexts -> Account] /\ opening' \in [Contexts -> Int]
      /\ phase' \in [Contexts -> Phases]
  BY <1>1 DEF Leave, End, Phases
<1>3. ShownAreBars'
  <2> SUFFICES ASSUME NEW d \in Contexts, NEW s \in Symbols PROVE shown'[d][s] <= Len(Series[s])
    BY DEF ShownAreBars
  <2>1. Len(Series[s]) \in Nat
    BY BacktestAssumption
  <2>2. CASE d = c
    <3>1. shown'[c][s] = 0  BY DEF Leave, End
    <3> QED  BY <2>1, <2>2, <3>1
  <2>3. CASE d # c
    BY <2>3 DEF Leave, End, ShownAreBars
  <2> QED  BY <2>2, <2>3
<1>4. /\ queue' \in [Contexts -> [Symbols -> Seq(Order)]]
      /\ index' \in [Contexts -> [Symbols -> Nat \ {0}]]
      /\ nextEvent' \in [Contexts -> [Symbols -> Nat \ {0}]]
      /\ shown' \in [Contexts -> [Symbols -> Nat]] /\ bought' \in [Contexts -> [Symbols -> Nat]]
  <2>1. [s \in Symbols |-> << >>] \in [Symbols -> Seq(Order)]
    OBVIOUS
  <2> QED  BY <2>1 DEF Leave, End
<1> QED  BY <1>2, <1>3, <1>4 DEF Leave, End

LEMMA TypesStep == TypesInv /\ [Next]_vars => TypesInv'
<1> SUFFICES ASSUME TypesInv, [Next]_vars PROVE TypesInv'
  OBVIOUS
<1>1. TypeOK /\ ShownAreBars
  BY DEF TypesInv
<1>2. CASE UNCHANGED vars
  BY <1>1, <1>2 DEF vars, market, books, TypesInv, TypeOK, ShownAreBars, Phases, Order
<1>3. ASSUME NEW c \in Contexts, Step(c) PROVE TypesInv'
  <2>1. CASE Create(c)  BY <2>1, TypesAfterCreate
  <2>2. CASE Leave(c)  BY <2>2, TypesAfterLeave
  <2>3. CASE Resume(c)
    BY <1>1, <2>3 DEF Resume, market, books, TypesInv, TypeOK, ShownAreBars, Phases
  <2>4. CASE Advance(c)  BY <2>4, AdvanceMoves
  <2>5. CASE ApplyEvent(c)
    <3>1. PICK s \in Symbols, event \in [day : Nat \ {0}, bonus : Nat, cash : Nat] :
            LET after == AfterEvent(account[c], s, event)
                q == account[c].quantity[s]
            IN  /\ after \in Account
                /\ account' = [account EXCEPT ![c] = after]
                /\ received' = [received EXCEPT ![c] =
                     @ + (Bonus(q, event) * Price[s] * Unit + CashDividend(q, event))]
      BY <1>1, <2>5, EventStep
    <3> DEFINE paid == Bonus(account[c].quantity[s], event) * Price[s] * Unit
                        + CashDividend(account[c].quantity[s], event)
               after == AfterEvent(account[c], s, event)
    <3>2. paid \in Nat
      BY <1>1, EventPays DEF TypeOK
    <3>3. /\ after \in Account /\ account' = [account EXCEPT ![c] = after]
          /\ received' = [received EXCEPT ![c] = @ + paid]
      BY <3>1
    <3> HIDE DEF paid, after
    <3>4. account' \in [Contexts -> Account] /\ received' \in [Contexts -> Nat]
      <4>1. account \in [Contexts -> Account] /\ received \in [Contexts -> Nat]
        BY <1>1 DEF TypeOK
      <4>2. received[c] + paid \in Nat
        BY <3>2, <4>1
      <4> QED  BY <3>3, <4>1, <4>2
    <3> QED
      BY <1>1, <2>5, <3>4, EventStep DEF market, TypesInv, TypeOK, ShownAreBars
  <2>6. CASE Match(c)
    <3>0. PICK fee \in Nat : charged' = [charged EXCEPT ![c] = @ + fee]
      BY <1>1, <2>6, MatchMoves
    <3>1. charged' \in [Contexts -> Nat]
      BY <1>1, <3>0 DEF TypeOK
    <3>2. /\ account' \in [Contexts -> Account]
          /\ queue' \in [Contexts -> [Symbols -> Seq(Order)]]
          /\ UNCHANGED <<market, registered, reserved, opening, nextEvent, received,
                         phase, runs, signals, disturbed>>
      BY <1>1, <2>6, MatchMoves
    <3> QED
      BY <1>1, <2>6, <3>1, <3>2, BoughtIsToday DEF market, TypesInv, TypeOK, ShownAreBars
  <2>7. CASE SomeSignal(c)
    BY <1>1, <2>7, SignalMoves DEF market, books, TypesInv, TypeOK, ShownAreBars
  <2> QED  BY <1>3, <2>1, <2>2, <2>3, <2>4, <2>5, <2>6, <2>7 DEF Step
<1> QED  BY <1>2, <1>3, NextIsStep

LEMMA TypesInit == Init => TypesInv
<1> SUFFICES ASSUME Init PROVE TypesInv
  OBVIOUS
<1>1. Capital * Unit \in Int
  BY AccountAssumption, BacktestAssumption
<1>2. opening \in [Contexts -> Int]
  BY <1>1 DEF Init
<1>3. account \in [Contexts -> Account]
  BY <1>2, OpenedIsAccount DEF Init
<1>4. queue \in [Contexts -> [Symbols -> Seq(Order)]]
  BY DEF Init, PerSymbol, Each
<1>5. ShownAreBars
  <2>1. \A s \in Symbols : Len(Series[s]) \in Nat
    BY BacktestAssumption
  <2> QED  BY <2>1 DEF Init, PerSymbol, Each, ShownAreBars
<1>6. registered \subseteq Contexts /\ reserved = {}
  BY BacktestAssumption DEF Init
<1> QED
  BY <1>2, <1>3, <1>4, <1>5, <1>6 DEF Init, PerSymbol, Each, TypesInv, TypeOK, Phases

\* Every variable keeps its type: indices stay positive, an account an account
\* and cash a whole number of units, whatever others load or clear meanwhile.
THEOREM TypesCorrect == Spec => []TypeOK
<1>1. TypesInv => TypeOK
  BY DEF TypesInv
<1> QED  BY TypesInit, TypesStep, <1>1, PTL DEF Spec

-----------------------------------------------------------------------------
(* A context that cannot be found is new. *)

Fresh(c) ==
  /\ account[c] = Opened(opening[c])
  /\ \A s \in Symbols : /\ queue[c][s] = << >> /\ shown[c][s] = 0
                        /\ nextEvent[c][s] = 1 /\ bought[c][s] = 0
  /\ charged[c] = 0 /\ received[c] = 0 /\ clock[c] = 0 /\ lastDay[c] = 0
  /\ c \notin apart

FreshInv == TypesInv /\ \A c \in Contexts \ Alive : Fresh(c)

LEMMA OpenedIsNew ==
  ASSUME NEW cash \in Int, NEW other \in Int
  PROVE  /\ [Opened(cash) EXCEPT !.cash = other] = Opened(other)
         /\ Opened(cash).cash = cash /\ Held(Opened(cash))
BY DEF Opened, Held

\* What begins or ends is new.
LEMMA FreshAfter ==
  ASSUME FreshInv, NEW c \in Contexts, Create(c) \/ Leave(c)
  PROVE  Fresh(c)'
<1>1. TypeOK
  BY DEF FreshInv, TypesInv
<1>2. CASE Create(c)
  <2>1. Fresh(c)
    BY <1>1, <1>2, CreateMoves DEF FreshInv
  <2>2. account'[c] = Opened(opening'[c])
    <3>1. account[c] = Opened(opening[c]) /\ opening[c] \in Int
      BY <1>1, <2>1 DEF Fresh, TypeOK
    <3>2. CASE Register(c)
      <4> DEFINE cash == account'[c].cash
      <4>1. account' = [account EXCEPT ![c].cash = cash] /\ cash \in Int
        BY <1>1, <1>2, CreateMoves
      <4>2. opening'[c] = cash
        BY <1>1, <3>2 DEF Register, TypeOK
      <4> HIDE DEF cash
      <4>3. account'[c] = [account[c] EXCEPT !.cash = cash]
        BY <1>1, <4>1 DEF TypeOK
      <4> QED  BY <3>1, <4>1, <4>2, <4>3, OpenedIsNew
    <3>3. CASE ~Register(c)
      <4>1. UNCHANGED <<account, opening>>
        BY <1>2, <3>3 DEF Create, Decide, SetFilter, Clear, Load, FindStart, SetIndices, books
      <4> QED  BY <3>1, <4>1
    <3> QED  BY <3>2, <3>3
  <2> QED  BY <1>1, <1>2, <2>1, <2>2, CreateMoves DEF Fresh
<1>3. CASE Leave(c)
  BY <1>1, <1>3, LeaveMoves DEF Fresh
<1> QED  BY <1>2, <1>3

LEMMA FreshStep == FreshInv /\ [Next]_vars => FreshInv'
<1> SUFFICES ASSUME FreshInv, [Next]_vars PROVE FreshInv'
  OBVIOUS
<1>1. TypesInv /\ TypesInv' /\ TypeOK
  BY TypesStep DEF FreshInv, TypesInv
<1>2. CASE UNCHANGED vars
  BY <1>1, <1>2 DEF vars, market, books, FreshInv, Fresh, Alive
<1>3. ASSUME NEW c \in Contexts, Step(c), NEW d \in Contexts, d \notin Alive'
      PROVE  Fresh(d)'
  <2>1. CASE d # c
    <3>1. Mine(d)' = Mine(d) /\ (d \in apart' <=> d \in apart)
      BY <1>1, <1>3, <2>1, OthersStay
    <3>2. d \notin Alive
      BY <1>3, <3>1 DEF Alive, Mine
    <3> QED  BY <3>1, <3>2 DEF FreshInv, Fresh, Mine
  <2>2. CASE d = c
    <3>1. Create(c) \/ Leave(c)
      BY <1>1, <1>3, <2>2, LifeMoves DEF Step, Alive
    <3> QED  BY <2>2, <3>1, FreshAfter
  <2> QED  BY <2>1, <2>2
<1> QED  BY <1>1, <1>2, <1>3, NextIsStep DEF FreshInv

LEMMA FreshInit == Init => FreshInv
<1> SUFFICES ASSUME Init PROVE FreshInv
  OBVIOUS
<1> QED  BY TypesInit DEF Init, PerSymbol, Each, FreshInv, Fresh

-----------------------------------------------------------------------------
(* What was bought today is held. *)

HeldInv == FreshInv /\ \A c \in Contexts : Held(account[c])

LEMMA HeldStep == HeldInv /\ [Next]_vars => HeldInv'
<1> SUFFICES ASSUME HeldInv, [Next]_vars PROVE HeldInv'
  OBVIOUS
<1>1. FreshInv /\ FreshInv' /\ TypeOK /\ account \in [Contexts -> Account]
  BY FreshStep DEF HeldInv, FreshInv, TypesInv, TypeOK
<1>2. CASE UNCHANGED vars
  BY <1>1, <1>2 DEF vars, books, HeldInv, Held
<1>3. ASSUME NEW c \in Contexts, Step(c) PROVE Held(account'[c])
  <2>1. Held(account[c]) /\ account[c] \in Account
    BY <1>1 DEF HeldInv
  <2>2. CASE Create(c) \/ Leave(c)
    <3>1. account'[c] = Opened(opening'[c]) /\ opening'[c] \in Int
      BY <1>1, <2>2, FreshAfter DEF Fresh, FreshInv, TypesInv, TypeOK
    <3> QED  BY <3>1, OpenedIsNew
  <2>3. CASE Resume(c) \/ SomeSignal(c)
    BY <2>1, <2>3, <1>1, SignalMoves DEF Resume, books
  <2>4. CASE Advance(c)
    <3>1. account'[c] \in {account[c], NextDay(account[c])}
      BY <1>1, <2>4 DEF Advance
    <3> QED  BY <2>1, <3>1, DayMoves
  <2>5. CASE ApplyEvent(c)
    <3>1. PICK s \in Symbols, event \in [day : Nat \ {0}, bonus : Nat, cash : Nat] :
            account' = [account EXCEPT ![c] = AfterEvent(account[c], s, event)]
      BY <1>1, <2>5, EventStep
    <3> DEFINE after == AfterEvent(account[c], s, event)
    <3>2. /\ after.today = account[c].today /\ after \in Account
          /\ \A r \in Symbols \ {s} : after.quantity[r] = account[c].quantity[r]
          /\ after.quantity[s] >= account[c].quantity[s]
      BY <2>1, EventMoves
    <3>3. account'[c] = after
      BY <1>1, <3>1
    <3> HIDE DEF after
    <3> QED  BY <2>1, <3>2, <3>3 DEF Held, Account
  <2>6. CASE Match(c)
    <3> DEFINE s == First(Waiting(c))
               order == Head(queue[c][s])
               credit == Credit(c, s, order)
               filled == Filled(account[c], s, order.side, order.volume, credit = "ShortSell")
               after == AfterFill(account[c], s, filled, credit, MarginRatio[c])
    <3>1. s \in Symbols /\ order \in Order /\ account' = [account EXCEPT ![c] = after]
      BY <1>1, <2>6, MatchMoves
    <3>2. order.volume \in Nat \ {0} /\ (credit = "ShortSell") \in BOOLEAN
      BY <3>1 DEF Order
    <3> HIDE DEF s, order, credit
    <3>3. Held(after)
      BY <2>1, <3>1, <3>2, FillKeepsHeld
    <3> HIDE DEF after
    <3> QED  BY <1>1, <3>1, <3>3
  <2> QED  BY <1>3, <2>2, <2>3, <2>4, <2>5, <2>6 DEF Step
<1>4. ASSUME NEW c \in Contexts, Step(c) PROVE HeldInv'
  <2>1. \A d \in Contexts \ {c} : account'[d] = account[d]
    BY <1>1, <1>4, OthersStay DEF Mine
  <2>2. \A d \in Contexts : Held(account'[d])
    BY <1>3, <1>4, <2>1 DEF HeldInv
  <2> QED  BY <1>1, <2>2 DEF HeldInv, Held
<1> QED  BY <1>2, <1>4, NextIsStep

LEMMA HeldInit == Init => HeldInv
<1> SUFFICES ASSUME Init PROVE HeldInv
  OBVIOUS
<1>1. \A c \in Contexts : account[c] = Opened(opening[c]) /\ opening[c] \in Int
  BY FreshInit, TypesInit DEF Init, TypesInv, TypeOK
<1> QED  BY <1>1, FreshInit, OpenedIsNew DEF HeldInv

\* The rule T+1 as the code counts (StockPositionManager::Sell, Buy).
THEOREM TodaysPurchasesAreHeld == Spec => []TodayIsHeld
<1>1. HeldInv => TodayIsHeld
  BY DEF HeldInv, Held, TodayIsHeld
<1> QED  BY HeldInit, HeldStep, <1>1, PTL DEF Spec

-----------------------------------------------------------------------------
(* Shares owed.  An order that was typed as a short sale when it was given     *)
(* is still one when it is matched: until then the position grows only by what *)
(* is bought on that day, and that cannot be sold.                             *)

\* The types of orders fit their sides.
OrderFits(c, order) ==
  /\ order.credit = "ShortSell" => order.side = "sell" /\ c \in AllowShort
  /\ order.credit = "ShortCover" => order.side = "buy"
  /\ order.credit = "MarginBuy" => order.side = "buy" /\ MarginRatio[c] < Unit

\* Nothing can be sold of what is held of s.
NothingToSell(c, s) ==
  \/ account[c].quantity[s] <= 0
  \/ /\ phase[c] = "step" /\ Pending(c) = {}
     /\ account[c].quantity[s] <= account[c].today[s]

OrderReady(c, s, order) ==
  /\ OrderFits(c, order)
  /\ c \notin disturbed /\ order.credit = "ShortSell" => NothingToSell(c, s)

\* Who may not sell short is not short; an undisturbed backtest owes its shorts.
ShortsAreOwed(c, a) ==
  \A s \in Symbols :
    /\ c \notin AllowShort => a.quantity[s] >= 0
    /\ (c \notin disturbed /\ MarginRatio[c] = Unit) =>
          a.borrowed[s] = Most(0, -a.quantity[s])

OrdersReady(c) ==
  \A s \in Symbols : \A i \in 1..Len(queue[c][s]) : OrderReady(c, s, queue[c][s][i])

QueuedAreQuoted(c) == \A s \in Symbols : queue[c][s] # << >> => s \in Quoted(c)

ShortsOf(c) ==
  OrdersReady(c) /\ QueuedAreQuoted(c) /\ ShortsAreOwed(c, account[c])

\* A backtest that is not disturbed is the only one.
LivesAlone == \A c \in About \ disturbed : About = {c}

ShortInv == HeldInv /\ LivesAlone /\ \A c \in Contexts : ShortsOf(c)

LEMMA LivesAloneStep ==
  ASSUME TypeOK, LivesAlone, NEW c \in Contexts, Step(c)
  PROVE  LivesAlone'
<1>1. CASE Decide(c)
  <2>1. About' = About \cup {c} /\ c \notin About
    <3>1. phase[c] = "none" /\ phase'[c] # "none" /\ \A d \in Contexts \ {c} : phase'[d] = phase[d]
      BY <1>1 DEF Decide, TypeOK
    <3> QED  BY <3>1 DEF About
  <2> QED  BY <1>1, <2>1 DEF Decide, LivesAlone
<1>2. CASE ~Decide(c)
  <2>1. disturbed' = disturbed
    BY <1>2, LeaveMoves, LifeMoves DEF Step, Create, SetFilter, Clear, Load, Register,
       FindStart, SetIndices
  <2>2. phase[c] # "none"
    <3>1. CASE Create(c)
      BY <1>2, <3>1 DEF Create, SetFilter, Clear, Load, Register, FindStart, SetIndices
    <3>2. CASE ~Create(c)
      BY <3>2, LeaveMoves, LifeMoves DEF Step, Alive
    <3> QED  BY <3>1, <3>2
  <2>3. About' \subseteq About /\ c \in About
    <3>1. \A d \in Contexts \ {c} : phase'[d] = phase[d]
      BY OthersStay DEF Mine
    <3> QED  BY <2>2, <3>1 DEF About
  <2> QED  BY <2>1, <2>3 DEF LivesAlone
<1> QED  BY <1>1, <1>2

\* A fill returns what it covers and borrows what it sells short.
LEMMA FillKeepsShorts ==
  ASSUME HeldInv, NEW c \in Contexts, NEW s \in Symbols, NEW order \in Order,
         ShortsAreOwed(c, account[c]), OrderFits(c, order),
         c \notin disturbed /\ order.credit = "ShortSell"
           => account[c].quantity[s] <= account[c].today[s]
  PROVE  LET credit == Credit(c, s, order)
             filled == Filled(account[c], s, order.side, order.volume, credit = "ShortSell")
         IN  filled \in Int
             /\ ShortsAreOwed(c, AfterFill(account[c], s, filled, credit, MarginRatio[c]))
<1> DEFINE a == account[c]
           q == a.quantity[s]
           t == a.today[s]
           n == order.volume
           credit == Credit(c, s, order)
           filled == Filled(a, s, order.side, n, credit = "ShortSell")
           after == AfterFill(a, s, filled, credit, MarginRatio[c])
<1>1. a \in Account /\ q \in Int /\ t \in Nat /\ (t > 0 => q >= t)
  <2>1. account[c] \in Account /\ Held(account[c])
    BY DEF HeldInv, FreshInv, TypesInv, TypeOK
  <2> QED  BY <2>1 DEF Account, Held
<1>2. n \in Nat \ {0} /\ order.side \in {"buy", "sell"}
      /\ order.credit \in {"None", "MarginBuy", "ShortSell", "ShortCover"}
  BY DEF Order
<1>3. /\ order.side = "buy" => filled = n
      /\ order.side = "sell" /\ q > 0 => filled = -Most(0, Least(n, q - t))
      /\ order.side = "sell" /\ q = 0 => filled = IF credit = "ShortSell" THEN -n ELSE 0
      /\ order.side = "sell" /\ q < 0 => filled = -n
  BY <1>1, <1>2 DEF Filled, Sold
<1>4. filled \in Int
  BY <1>1, <1>2, <1>3 DEF Most, Least
<1>5. /\ \A r \in Symbols \ {s} : after.quantity[r] = a.quantity[r]
                                  /\ after.borrowed[r] = a.borrowed[r]
      /\ after.quantity[s] = q + filled
      /\ filled = 0 => after.borrowed[s] = a.borrowed[s]
      /\ filled # 0 => after.borrowed[s] = Owed(a.borrowed[s], credit, Magnitude(filled))
  BY <1>1, <1>4, FillMoves
<1>6. c \notin AllowShort => q >= 0
  BY DEF ShortsAreOwed
<1>7. /\ credit = "ShortSell" => order.side = "sell" /\ c \in AllowShort
      /\ order.side = "sell" /\ q <= 0 /\ c \in AllowShort /\ order.credit = "None"
           => credit = "ShortSell"
      /\ order.credit # "None" => credit = order.credit
      /\ order.side = "buy" /\ q < 0 /\ order.credit = "None" => credit = "ShortCover"
      /\ credit = "ShortCover" => order.side = "buy"
      /\ credit = "MarginBuy" => MarginRatio[c] < Unit
      /\ credit = "ShortSell" /\ order.credit # "ShortSell" => q <= 0
  BY <1>1, <1>2 DEF Credit, OrderFits
<1> HIDE DEF a, credit, filled, after
<1>8. c \notin AllowShort => after.quantity[s] >= 0
  BY <1>1, <1>2, <1>3, <1>4, <1>5, <1>6, <1>7 DEF Most, Least
<1>9. ASSUME c \notin disturbed, MarginRatio[c] = Unit
      PROVE  after.borrowed[s] = Most(0, -after.quantity[s])
  <2>1. a.borrowed[s] = Most(0, -q)
    BY <1>9 DEF ShortsAreOwed, a
  <2>2. credit = "ShortSell" /\ q > 0 => q <= t
    BY <1>1, <1>7, <1>9 DEF a
  <2>3. credit # "MarginBuy"
    BY <1>7, <1>9, BacktestAssumption, AccountAssumption
  <2>4. CASE order.side = "buy"
    BY <1>1, <1>2, <1>3, <1>5, <1>7, <2>1, <2>3, <2>4 DEF Owed, Most, Magnitude
  <2>5. CASE order.side = "sell"
    BY <1>1, <1>2, <1>3, <1>5, <1>6, <1>7, <2>1, <2>2, <2>3, <2>5 DEF Owed, Most, Least, Magnitude
  <2> QED  BY <1>2, <2>4, <2>5
<1>10. ShortsAreOwed(c, after)
  BY <1>5, <1>8, <1>9 DEF ShortsAreOwed, a
<1> QED  BY <1>4, <1>10 DEF a, credit, filled, after

LEMMA PendingFrame ==
  ASSUME NEW d \in Contexts, shown'[d] = shown[d], nextEvent'[d] = nextEvent[d]
  PROVE  Pending(d)' = Pending(d) /\ Quoted(d)' = Quoted(d)
<1>1. Quoted(d)' = Quoted(d)
  BY DEF Quoted
<1> QED  BY <1>1 DEF Pending, TimeShown

\* What is true of a context stays true while others work.
LEMMA ShortsOfOthers ==
  ASSUME ShortInv, NEW c \in Contexts, Step(c), NEW d \in Contexts \ {c}
  PROVE  ShortsOf(d)'
<1>1. Mine(d)' = Mine(d) /\ (d \in disturbed => d \in disturbed')
  BY OthersStay DEF ShortInv, HeldInv, FreshInv, TypesInv
<1>2. Pending(d)' = Pending(d) /\ Quoted(d)' = Quoted(d)
  BY <1>1, PendingFrame DEF Mine
<1>3. \A s \in Symbols : NothingToSell(d, s)' <=> NothingToSell(d, s)
  BY <1>1, <1>2 DEF NothingToSell, Mine
<1>4. ShortsOf(d)
  BY DEF ShortInv
<1>5. QueuedAreQuoted(d)' /\ ShortsAreOwed(d, account[d])'
  BY <1>1, <1>2, <1>4 DEF ShortsOf, QueuedAreQuoted, ShortsAreOwed, Mine
<1>6. OrdersReady(d)'
  BY <1>1, <1>3, <1>4 DEF ShortsOf, OrdersReady, OrderReady, OrderFits, Mine
<1> QED  BY <1>5, <1>6 DEF ShortsOf

LEMMA ShortsOfFresh == \A c \in Contexts : Fresh(c) => ShortsOf(c)
<1> SUFFICES ASSUME NEW c \in Contexts, Fresh(c) PROVE ShortsOf(c)
  OBVIOUS
<1>1. \A s \in Symbols : /\ account[c].quantity[s] = 0 /\ account[c].borrowed[s] = 0
                         /\ queue[c][s] = << >>
  BY DEF Fresh, Opened
<1> QED  BY <1>1 DEF ShortsOf, OrdersReady, QueuedAreQuoted, ShortsAreOwed, Most

\* The conditions that the steps below share.
LEMMA ShortsOfOne ==
  ASSUME ShortInv, NEW c \in Contexts
  PROVE  /\ TypesInv /\ TypeOK /\ ShortsOf(c) /\ account[c] \in Account
         /\ queue[c] \in [Symbols -> Seq(Order)] /\ Held(account[c])
         /\ account \in [Contexts -> Account]
BY DEF ShortInv, HeldInv, FreshInv, TypesInv, TypeOK

LEMMA ShortsOfNew ==
  ASSUME NEW c \in Contexts, Fresh(c)'
  PROVE  ShortsOf(c)'
<1>1. \A s \in Symbols : /\ account'[c].quantity[s] = 0 /\ account'[c].borrowed[s] = 0
                         /\ queue'[c][s] = << >>
  BY DEF Fresh, Opened
<1> QED  BY <1>1 DEF ShortsOf, OrdersReady, QueuedAreQuoted, ShortsAreOwed, Most

LEMMA ShortsAfterResume ==
  ASSUME ShortInv, NEW c \in Contexts, Resume(c)
  PROVE  ShortsOf(c)'
<1>1. UNCHANGED <<account, queue, shown, nextEvent, disturbed>>
  BY DEF Resume, market, books
<1>2. ShortsOf(c) /\ queue[c] \in [Symbols -> Seq(Order)]
  BY ShortsOfOne
<1>3. \A s \in Symbols : queue[c][s] = << >>
  BY <1>2 DEF Resume, Waiting, ShortsOf, QueuedAreQuoted
<1> QED
  BY <1>1, <1>2, <1>3 DEF ShortsOf, OrdersReady, QueuedAreQuoted, ShortsAreOwed

LEMMA ShortsAfterAdvance ==
  ASSUME ShortInv, NEW c \in Contexts, Advance(c)
  PROVE  ShortsOf(c)'
<1>1. /\ ShortsOf(c) /\ TypesInv /\ TypeOK /\ account[c] \in Account
      /\ queue[c] \in [Symbols -> Seq(Order)]
  BY ShortsOfOne
<1>2. /\ UNCHANGED <<queue, nextEvent, disturbed>> /\ phase[c] = "graph"
      /\ account'[c] \in {account[c], NextDay(account[c])}
  BY <1>1 DEF Advance, TypeOK
<1>3. /\ account'[c].quantity = account[c].quantity
      /\ account'[c].borrowed = account[c].borrowed
  BY <1>1, <1>2, DayMoves
<1>4. \A s \in Symbols : shown[c][s] # 0 => shown'[c][s] # 0
  <2>1. \A s \in Symbols : shown'[c][s] = IF s \in Present(c) THEN index[c][s] ELSE shown[c][s]
    BY <1>1, AdvanceMoves
  <2>2. \A s \in Symbols : index[c][s] # 0
    BY <1>1 DEF TypeOK
  <2> QED  BY <2>1, <2>2
<1>5. \A s \in Symbols : NothingToSell(c, s) => account[c].quantity[s] <= 0
  BY <1>2 DEF NothingToSell
<1>6. OrdersReady(c)'
  BY <1>1, <1>2, <1>3, <1>5 DEF ShortsOf, OrdersReady, OrderReady, OrderFits, NothingToSell
<1>7. QueuedAreQuoted(c)' /\ ShortsAreOwed(c, account[c])'
  BY <1>1, <1>2, <1>3, <1>4 DEF ShortsOf, QueuedAreQuoted, Quoted, ShortsAreOwed
<1> QED  BY <1>6, <1>7 DEF ShortsOf

LEMMA ShortsAfterEvent ==
  ASSUME ShortInv, NEW c \in Contexts, ApplyEvent(c)
  PROVE  ShortsOf(c)'
<1>1. /\ ShortsOf(c) /\ TypeOK /\ account[c] \in Account
      /\ account \in [Contexts -> Account]
  BY ShortsOfOne
<1>2. PICK s \in Symbols, event \in [day : Nat \ {0}, bonus : Nat, cash : Nat] :
        account' = [account EXCEPT ![c] = AfterEvent(account[c], s, event)]
  BY <1>1, EventStep
<1>3. UNCHANGED <<queue, shown, phase, disturbed>> /\ Pending(c) # {}
  BY <1>1, EventStep DEF market
<1> DEFINE after == AfterEvent(account[c], s, event)
<1>4. /\ after.borrowed = account[c].borrowed
      /\ \A r \in Symbols \ {s} : after.quantity[r] = account[c].quantity[r]
      /\ after.quantity[s] >= account[c].quantity[s]
      /\ account[c].quantity[s] <= 0 => after.quantity[s] = account[c].quantity[s]
      /\ after \in Account
  BY <1>1, EventMoves
<1>5. account'[c] = after
  BY <1>1, <1>2
<1> HIDE DEF after
<1>6. \A r \in Symbols : /\ account[c].quantity[r] \in Int /\ after.quantity[r] \in Int
                         /\ after.quantity[r] >= account[c].quantity[r]
                         /\ account[c].quantity[r] <= 0 => after.quantity[r] = account[c].quantity[r]
  BY <1>1, <1>4 DEF Account
<1>7. ShortsAreOwed(c, account[c])'
  BY <1>1, <1>3, <1>4, <1>5, <1>6 DEF ShortsOf, ShortsAreOwed, Most
<1>8. \A r \in Symbols : NothingToSell(c, r) => NothingToSell(c, r)'
  BY <1>3, <1>5, <1>6 DEF NothingToSell
<1>9. OrdersReady(c)'
  BY <1>1, <1>3, <1>8 DEF ShortsOf, OrdersReady, OrderReady, OrderFits
<1>10. QueuedAreQuoted(c)'
  BY <1>1, <1>3 DEF ShortsOf, QueuedAreQuoted, Quoted
<1> QED  BY <1>7, <1>9, <1>10 DEF ShortsOf

LEMMA ShortsAfterMatch ==
  ASSUME ShortInv, NEW c \in Contexts, Match(c)
  PROVE  ShortsOf(c)'
<1> DEFINE s == First(Waiting(c))
           order == Head(queue[c][s])
           credit == Credit(c, s, order)
           filled == Filled(account[c], s, order.side, order.volume, credit = "ShortSell")
           after == AfterFill(account[c], s, filled, credit, MarginRatio[c])
<1>1. /\ ShortsOf(c) /\ TypeOK /\ account[c] \in Account /\ HeldInv
      /\ account \in [Contexts -> Account] /\ queue \in [Contexts -> [Symbols -> Seq(Order)]]
  BY ShortsOfOne DEF ShortInv, TypeOK
<1>2. /\ UNCHANGED <<market, phase, nextEvent, disturbed>>
      /\ phase[c] = "step" /\ Pending(c) = {}
      /\ s \in Symbols /\ queue[c][s] # << >> /\ order \in Order
      /\ queue' = [queue EXCEPT ![c][s] = Tail(@)]
      /\ account' = [account EXCEPT ![c] = after]
  BY <1>1, MatchMoves
<1>3. UNCHANGED <<shown, phase, nextEvent, disturbed>>
  BY <1>2 DEF market
<1>4. OrderReady(c, s, order)
  <2>1. queue[c][s][1] = order /\ 1 \in 1..Len(queue[c][s])
    BY <1>1, <1>2
  <2> QED  BY <1>1, <1>2, <2>1 DEF ShortsOf, OrdersReady
<1>5. c \notin disturbed /\ order.credit = "ShortSell"
        => account[c].quantity[s] <= account[c].today[s]
  BY <1>1, <1>2, <1>4 DEF OrderReady, NothingToSell, Account
<1> HIDE DEF s, order, credit
<1>6. filled \in Int /\ ShortsAreOwed(c, after)
  BY <1>1, <1>2, <1>4, <1>5, FillKeepsShorts DEF ShortsOf, OrderReady, credit
<1>7. /\ \A r \in Symbols \ {s} : /\ after.quantity[r] = account[c].quantity[r]
                                  /\ after.today[r] = account[c].today[r]
      /\ after.quantity[s] = account[c].quantity[s] + filled
      /\ after.today[s] = account[c].today[s] +
           (IF filled > 0 THEN BoughtLong(account[c].quantity[s], filled) ELSE 0)
  BY <1>1, <1>2, <1>6, FillMoves
<1> HIDE DEF filled, after
<1>8. account'[c] = after /\ ShortsAreOwed(c, account[c])'
  BY <1>1, <1>2, <1>3, <1>6 DEF ShortsAreOwed
<1>9. Pending(c)' = Pending(c) /\ Quoted(c)' = Quoted(c)
  BY <1>3, PendingFrame
<1>10. ASSUME NEW r \in Symbols, NothingToSell(c, r)
       PROVE  NothingToSell(c, r)'
  <2>1. CASE r = s
    <3>1. account[c].quantity[s] \in Int /\ account[c].today[s] \in Nat
      BY <1>1, <1>2 DEF Account
    <3>2. account[c].quantity[s] <= account[c].today[s]
      BY <1>10, <2>1, <3>1 DEF NothingToSell
    <3>3. after.quantity[s] <= after.today[s]
      BY <1>6, <1>7, <3>1, <3>2 DEF BoughtLong, Most
    <3> QED  BY <1>2, <1>3, <1>8, <1>9, <2>1, <3>3 DEF NothingToSell
  <2>2. CASE r # s
    BY <1>3, <1>7, <1>8, <1>9, <1>10, <2>2 DEF NothingToSell
  <2> QED  BY <2>1, <2>2
<1>11. ASSUME NEW r \in Symbols, NEW i \in 1..Len(queue'[c][r])
       PROVE  /\ queue[c][r] # << >>
              /\ \E j \in 1..Len(queue[c][r]) : queue'[c][r][i] = queue[c][r][j]
  <2>1. CASE r = s
    <3>1. queue'[c][r] = Tail(queue[c][s]) /\ queue[c][s] \in Seq(Order)
      BY <1>1, <1>2, <2>1
    <3>2. /\ Len(Tail(queue[c][s])) = Len(queue[c][s]) - 1
          /\ \A k \in 1..(Len(queue[c][s]) - 1) : Tail(queue[c][s])[k] = queue[c][s][k + 1]
      BY <1>2, <3>1, HeadTailProperties
    <3>3. i \in 1..(Len(queue[c][s]) - 1)
      BY <1>11, <3>1, <3>2
    <3>4. i + 1 \in 1..Len(queue[c][s]) /\ queue'[c][r][i] = queue[c][s][i + 1]
      BY <3>1, <3>2, <3>3
    <3> QED  BY <1>2, <2>1, <3>4
  <2>2. CASE r # s
    <3>1. queue'[c][r] = queue[c][r]
      BY <1>1, <1>2, <2>2
    <3>2. i \in 1..Len(queue[c][r])
      BY <1>11, <3>1
    <3>3. queue[c][r] # << >>
      BY <3>2
    <3> QED  BY <3>1, <3>2, <3>3
  <2> QED  BY <2>1, <2>2
<1>12. OrdersReady(c)'
  <2> SUFFICES ASSUME NEW r \in Symbols, NEW i \in 1..Len(queue'[c][r])
               PROVE  OrderReady(c, r, queue[c][r][i])'
    BY DEF OrdersReady
  <2>1. PICK j \in 1..Len(queue[c][r]) : queue'[c][r][i] = queue[c][r][j]
    BY <1>11
  <2>2. OrderReady(c, r, queue[c][r][j])
    BY <1>1 DEF ShortsOf, OrdersReady
  <2> QED  BY <1>3, <1>10, <2>1, <2>2 DEF OrderReady, OrderFits
<1>13. QueuedAreQuoted(c)'
  <2> SUFFICES ASSUME NEW r \in Symbols, queue'[c][r] # << >>
               PROVE  r \in Quoted(c)'
    BY DEF QueuedAreQuoted
  <2>1. queue[c][r] # << >>
    BY <1>1, <1>2
  <2> QED  BY <1>1, <1>9, <2>1 DEF ShortsOf, QueuedAreQuoted
<1> QED  BY <1>8, <1>12, <1>13 DEF ShortsOf

LEMMA ShortsAfterSignal ==
  ASSUME ShortInv, NEW c \in Contexts, SomeSignal(c)
  PROVE  ShortsOf(c)'
<1>1. /\ ShortsOf(c) /\ TypeOK /\ LivesAlone
      /\ account \in [Contexts -> Account] /\ queue \in [Contexts -> [Symbols -> Seq(Order)]]
  BY ShortsOfOne DEF ShortInv, TypeOK
<1>2. PICK s \in Symbols, d \in Alive, order \in Order :
        /\ s \in Quoted(c)
        /\ order.credit = OrderType(c, order.side, account[d].quantity[s])
        /\ queue' = [queue EXCEPT ![c][s] = Append(@, order)]
        /\ queue' \in [Contexts -> [Symbols -> Seq(Order)]]
  BY <1>1, SignalMoves
<1>3. UNCHANGED <<shown, nextEvent, phase, account, disturbed>> /\ phase[c] = "graph"
  BY <1>1, SignalMoves DEF market, books
<1>4. account[d].quantity[s] \in Int /\ order.side \in {"buy", "sell"}
  BY <1>1 DEF Alive, Account, Order
<1>5. OrderFits(c, order)
  BY <1>2, <1>4 DEF OrderFits, OrderType
<1>6. c \notin disturbed => d = c
  BY <1>1, <1>3 DEF LivesAlone, Alive, About
<1>7. order.credit = "ShortSell" => account[d].quantity[s] <= 0
  BY <1>2, <1>4 DEF OrderType
<1>8. OrderReady(c, s, order)
  BY <1>5, <1>6, <1>7 DEF OrderReady, NothingToSell
<1>9. Pending(c)' = Pending(c) /\ Quoted(c)' = Quoted(c)
  BY <1>3, PendingFrame
<1>10. ASSUME NEW r \in Symbols, NEW i \in 1..Len(queue'[c][r])
       PROVE  OrderReady(c, r, queue'[c][r][i])
  <2>1. CASE r = s
    <3>1. queue'[c][r] = Append(queue[c][s], order) /\ queue[c][s] \in Seq(Order)
      BY <1>1, <1>2, <2>1
    <3>2. CASE i = Len(queue[c][s]) + 1
      BY <1>8, <2>1, <3>1, <3>2
    <3>3. CASE i # Len(queue[c][s]) + 1
      <4>1. i \in 1..Len(queue[c][s]) /\ queue'[c][r][i] = queue[c][s][i]
        BY <3>1, <3>3
      <4> QED  BY <1>1, <2>1, <4>1 DEF ShortsOf, OrdersReady
    <3> QED  BY <3>2, <3>3
  <2>2. CASE r # s
    <3>1. queue'[c][r] = queue[c][r]
      BY <1>1, <1>2, <2>2
    <3> QED  BY <1>1, <1>10, <3>1 DEF ShortsOf, OrdersReady
  <2> QED  BY <2>1, <2>2
<1>11. OrdersReady(c)'
  BY <1>3, <1>9, <1>10 DEF OrdersReady, OrderReady, OrderFits, NothingToSell
<1>12. QueuedAreQuoted(c)'
  BY <1>1, <1>2, <1>9 DEF ShortsOf, QueuedAreQuoted
<1>13. ShortsAreOwed(c, account[c])'
  BY <1>1, <1>3 DEF ShortsOf, ShortsAreOwed
<1> QED  BY <1>11, <1>12, <1>13 DEF ShortsOf

LEMMA ShortStep == ShortInv /\ [Next]_vars => ShortInv'
<1> SUFFICES ASSUME ShortInv, [Next]_vars PROVE ShortInv'
  OBVIOUS
<1>1. HeldInv' /\ FreshInv /\ FreshInv' /\ TypeOK /\ LivesAlone
  BY HeldStep DEF ShortInv, HeldInv, FreshInv, TypesInv
<1>2. CASE UNCHANGED vars
  <2>1. \A c \in Contexts : Pending(c)' = Pending(c) /\ Quoted(c)' = Quoted(c)
    BY <1>2, PendingFrame DEF vars, market, books
  <2>2. UNCHANGED <<account, queue, phase, disturbed>>
    BY <1>2 DEF vars, books
  <2>3. \A c \in Contexts : ShortsOf(c)'
    BY <2>1, <2>2 DEF ShortInv, ShortsOf, OrdersReady, OrderReady, OrderFits, NothingToSell,
       QueuedAreQuoted, ShortsAreOwed
  <2> QED  BY <1>1, <2>2, <2>3 DEF ShortInv, LivesAlone, About
<1>3. ASSUME NEW c \in Contexts, Step(c) PROVE ShortInv'
  <2>1. ShortsOf(c)'
    <3>1. CASE Create(c) \/ Leave(c)
      <4>1. Fresh(c)'  BY <1>1, <3>1, FreshAfter
      <4> QED  BY <4>1, ShortsOfNew
    <3>2. CASE Resume(c)  BY <3>2, ShortsAfterResume
    <3>3. CASE Advance(c)  BY <3>3, ShortsAfterAdvance
    <3>4. CASE ApplyEvent(c)  BY <3>4, ShortsAfterEvent
    <3>5. CASE Match(c)  BY <3>5, ShortsAfterMatch
    <3>6. CASE SomeSignal(c)  BY <3>6, ShortsAfterSignal
    <3> QED  BY <1>3, <3>1, <3>2, <3>3, <3>4, <3>5, <3>6 DEF Step
  <2>2. \A d \in Contexts \ {c} : ShortsOf(d)'
    BY <1>3, ShortsOfOthers
  <2>3. LivesAlone'
    BY <1>1, <1>3, LivesAloneStep
  <2> QED  BY <1>1, <2>1, <2>2, <2>3 DEF ShortInv
<1> QED  BY <1>2, <1>3, NextIsStep

LEMMA ShortInit == Init => ShortInv
<1> SUFFICES ASSUME Init PROVE ShortInv
  OBVIOUS
<1>1. \A c \in Contexts : Fresh(c)
  BY FreshInit DEF Init, Each, FreshInv, Alive
<1>2. LivesAlone
  BY DEF Init, Each, LivesAlone, About
<1> QED  BY <1>1, <1>2, HeldInit, ShortsOfFresh DEF ShortInv

\* A backtest that was alone and pays in full owes the shares it is short of
\* (applyCreditFill), though orders wait for the next bar.
THEOREM ShortsAreBorrowed == Spec => []BorrowedSharesAreShort
<1>1. ShortInv => BorrowedSharesAreShort
  BY DEF ShortInv, ShortsOf, ShortsAreOwed, BorrowedSharesAreShort
<1> QED  BY ShortInit, ShortStep, <1>1, PTL DEF Spec

-----------------------------------------------------------------------------
(* Cash, loan and positions move by the same fill. *)

Balanced(c) == Net(account[c]) = opening[c] - charged[c] + received[c]

BooksInv == ShortInv /\ \A c \in Contexts : Balanced(c)

\* Who holds nothing is worth his cash.
LEMMA NetOfOpened ==
  ASSUME NEW cash \in Int
  PROVE  Net(Opened(cash)) = cash
<1> DEFINE quantity == Opened(cash).quantity
           worth == [s \in Symbols |-> quantity[s] * Price[s] * Unit]
<1>1. \A s \in Symbols : worth[s] = 0
  <2>1. Unit \in Nat /\ \A s \in Symbols : Price[s] \in Nat /\ quantity[s] = 0
    BY AccountAssumption DEF Opened
  <2> QED  BY <2>1
<1>2. SumFunction(worth) = 0
  <2>1. DOMAIN worth = Symbols  OBVIOUS
  <2> HIDE DEF worth
  <2> QED  BY <1>1, <2>1, AccountAssumption, SumZero DEF SumFunction
<1>3. Value(quantity) = 0
  BY <1>2 DEF Value
<1>4. Opened(cash).cash = cash /\ Opened(cash).loan = 0
  BY DEF Opened
<1> HIDE DEF quantity
<1>5. Net(Opened(cash)) = cash + 0 - 0
  BY <1>3, <1>4 DEF Net, quantity
<1> QED  BY <1>5

LEMMA NetIsNumber ==
  ASSUME NEW a \in Account
  PROVE  Net(a) \in Int
BY ValueChanges DEF Net, Account

LEMMA MatchBalances ==
  ASSUME BooksInv, NEW c \in Contexts, Match(c)
  PROVE  Balanced(c)'
<1> DEFINE s == First(Waiting(c))
           order == Head(queue[c][s])
           credit == Credit(c, s, order)
           filled == Filled(account[c], s, order.side, order.volume, credit = "ShortSell")
           after == AfterFill(account[c], s, filled, credit, MarginRatio[c])
           fees == Fees(filled, s)
<1>1. /\ ShortInv /\ TypeOK /\ ShortsOf(c) /\ account[c] \in Account
      /\ account \in [Contexts -> Account] /\ queue[c] \in [Symbols -> Seq(Order)]
      /\ opening[c] \in Int /\ charged[c] \in Nat /\ received[c] \in Nat
  BY ShortsOfOne DEF BooksInv, TypeOK
<1>2. /\ UNCHANGED <<opening, received>>
      /\ s \in Symbols /\ queue[c][s] # << >> /\ order \in Order
      /\ filled \in Int /\ fees \in Nat
      /\ account' = [account EXCEPT ![c] = after]
      /\ charged' = [charged EXCEPT ![c] = @ + fees]
  BY <1>1, MatchMoves
<1>3. OrderFits(c, order)
  <2>1. queue[c][s][1] = order /\ 1 \in 1..Len(queue[c][s])
    BY <1>1, <1>2
  <2> QED  BY <1>1, <1>2, <2>1 DEF ShortsOf, OrdersReady, OrderReady
<1>4. credit = "MarginBuy" => filled >= 0
  <2>1. credit = "MarginBuy" => order.side = "buy"
    BY <1>2, <1>3 DEF Credit, OrderFits, Order
  <2>2. order.volume \in Nat
    BY <1>2 DEF Order
  <2> QED  BY <2>1, <2>2 DEF Filled
<1>5. MarginRatio[c] \in 0..Unit
  BY BacktestAssumption
<1> HIDE DEF s, order, credit, filled
<1>6. Net(after) = Net(account[c]) - fees
  BY <1>1, <1>2, <1>4, <1>5, FillCostsFees
<1>7. Net(account[c]) \in Int
  BY <1>1, NetIsNumber
<1> HIDE DEF after, fees
<1>8. account'[c] = after /\ charged'[c] = charged[c] + fees
  BY <1>1, <1>2 DEF TypeOK
<1>9. Balanced(c)
  BY DEF BooksInv
<1> QED  BY <1>1, <1>2, <1>6, <1>7, <1>8, <1>9 DEF Balanced

LEMMA EventBalances ==
  ASSUME BooksInv, NEW c \in Contexts, ApplyEvent(c)
  PROVE  Balanced(c)'
<1>1. /\ TypeOK /\ account[c] \in Account /\ account \in [Contexts -> Account]
      /\ opening[c] \in Int /\ charged[c] \in Nat /\ received[c] \in Nat
  BY ShortsOfOne DEF BooksInv, TypeOK
<1>2. PICK s \in Symbols, event \in [day : Nat \ {0}, bonus : Nat, cash : Nat] :
        LET q == account[c].quantity[s] IN
        /\ account' = [account EXCEPT ![c] = AfterEvent(account[c], s, event)]
        /\ received' = [received EXCEPT ![c] =
             @ + (Bonus(q, event) * Price[s] * Unit + CashDividend(q, event))]
  BY <1>1, EventStep
<1> DEFINE paid == Bonus(account[c].quantity[s], event) * Price[s] * Unit
                   + CashDividend(account[c].quantity[s], event)
           after == AfterEvent(account[c], s, event)
<1>3. UNCHANGED <<opening, charged>>
  BY <1>1, EventStep
<1>4. paid \in Nat /\ Net(after) = Net(account[c]) + paid
  BY <1>1, EventPays
<1>5. Net(account[c]) \in Int
  BY <1>1, NetIsNumber
<1>6. account' = [account EXCEPT ![c] = after] /\ received' = [received EXCEPT ![c] = @ + paid]
  BY <1>2
<1> HIDE DEF after, paid
<1>7. account'[c] = after /\ received'[c] = received[c] + paid
  BY <1>1, <1>6 DEF TypeOK
<1>8. Balanced(c)
  BY DEF BooksInv
<1> QED  BY <1>1, <1>3, <1>4, <1>5, <1>7, <1>8 DEF Balanced

LEMMA BooksStep == BooksInv /\ [Next]_vars => BooksInv'
<1> SUFFICES ASSUME BooksInv, [Next]_vars PROVE BooksInv'
  OBVIOUS
<1>1. /\ ShortInv' /\ FreshInv /\ TypeOK /\ account \in [Contexts -> Account]
      /\ opening' \in [Contexts -> Int]
  BY ShortStep DEF BooksInv, ShortInv, HeldInv, FreshInv, TypesInv, TypeOK
<1>2. CASE UNCHANGED vars
  <2>1. UNCHANGED <<account, opening, charged, received>>
    BY <1>2 DEF vars, books
  <2> QED  BY <1>1, <2>1 DEF BooksInv, Balanced, Net, Value
<1>3. ASSUME NEW c \in Contexts, Step(c) PROVE BooksInv'
  <2>1. Balanced(c)'
    <3>1. CASE Create(c) \/ Leave(c)
      <4>1. /\ account'[c] = Opened(opening'[c]) /\ opening'[c] \in Int
            /\ charged'[c] = 0 /\ received'[c] = 0
        BY <1>1, <3>1, FreshAfter DEF Fresh
      <4>2. Net(account'[c]) = opening'[c]
        BY <4>1, NetOfOpened
      <4>3. Net(account'[c]) = opening'[c] - charged'[c] + received'[c]
        BY <4>1, <4>2
      <4> QED  BY <4>3 DEF Balanced, Net, Value
    <3>2. CASE Resume(c) \/ SomeSignal(c)
      <4>1. UNCHANGED <<account, opening, charged, received>>
        BY <1>1, <3>2, SignalMoves DEF Resume, books
      <4> QED  BY <4>1 DEF BooksInv, Balanced, Net, Value
    <3>3. CASE Advance(c)
      <4>1. UNCHANGED <<opening, charged, received>>
            /\ account'[c] \in {account[c], NextDay(account[c])}
        BY <1>1, <3>3 DEF Advance
      <4>2. Net(account'[c]) = Net(account[c])
        BY <1>1, <4>1, DayCostsNothing
      <4>3. Balanced(c)
        BY DEF BooksInv
      <4> QED  BY <4>1, <4>2, <4>3 DEF Balanced, Net, Value
    <3>4. CASE ApplyEvent(c)  BY <3>4, EventBalances
    <3>5. CASE Match(c)  BY <3>5, MatchBalances
    <3> QED  BY <1>3, <3>1, <3>2, <3>3, <3>4, <3>5 DEF Step
  <2>2. ASSUME NEW d \in Contexts \ {c} PROVE Balanced(d)'
    <3>1. Mine(d)' = Mine(d)
      BY <1>1, <1>3, OthersStay
    <3> QED  BY <3>1 DEF BooksInv, Balanced, Net, Value, Mine
  <2> QED  BY <1>1, <2>1, <2>2 DEF BooksInv
<1> QED  BY <1>2, <1>3, NextIsStep

LEMMA BooksInit == Init => BooksInv
<1> SUFFICES ASSUME Init PROVE BooksInv
  OBVIOUS
<1>1. \A c \in Contexts : /\ account[c] = Opened(opening[c]) /\ opening[c] \in Int
                          /\ charged[c] = 0 /\ received[c] = 0
  BY TypesInit DEF Init, Each, TypesInv, TypeOK
<1>2. \A c \in Contexts : Balanced(c)
  BY <1>1, NetOfOpened DEF Balanced
<1> QED  BY <1>2, ShortInit DEF BooksInv

\* What a backtest owns, less what it was lent, changes by fees and by what
\* events hand out (adjustPosition, applyCreditFill, ApplyEvent), whatever cash
\* the account had when it began.
THEOREM BooksOfBacktests == Spec => []BooksBalance
<1>1. BooksInv => BooksBalance
  BY DEF BooksInv, Balanced, Net, BooksBalance, Worth
<1> QED  BY BooksInit, BooksStep, <1>1, PTL DEF Spec

-----------------------------------------------------------------------------
(* Days.  As long as the quotes of a backtest are of one day, the day is that  *)
(* of its clock, and a change that it sees is one of the clock.                *)

QuotesOf(c) ==
  /\ \A s \in Symbols : shown[c][s] <= index[c][s]
  /\ c \notin apart =>
       /\ \A s \in Quoted(c) : Day(TimeShown(c, s)) = Day(clock[c])
       /\ lastDay[c] = IF Quoted(c) = {} THEN 0 ELSE Day(clock[c])
       /\ Quoted(c) = {} => clock[c] = 0
       /\ \A s \in Symbols : bought[c][s] <= account[c].today[s]

DayInv == HeldInv /\ \A c \in Contexts : QuotesOf(c)

\* Days that are all the same change once, and from the day that was kept.
LEMMA SameDaysChangeOnce ==
  ASSUME NEW c \in Contexts, NEW S \in SUBSET Symbols, NEW today, NEW day,
         day = [s \in S |-> today], DayChanges(c, day)
  PROVE  lastDay[c] # 0 /\ lastDay[c] # today
<1> DEFINE before(s) == {r \in DOMAIN day : r < s}
           latest(s) == CHOOSE r \in before(s) : \A u \in before(s) : u <= r
<1>1. PICK s \in DOMAIN day :
        LET last == IF before(s) = {} THEN lastDay[c] ELSE day[latest(s)] IN
        last # 0 /\ last # day[s]
  BY DEF DayChanges
<1>2. DOMAIN day = S
  OBVIOUS
<1>3. before(s) # {} => latest(s) \in before(s)
  <2>1. before(s) \in SUBSET Symbols  BY <1>2
  <2> HIDE DEF before
  <2> QED  BY <2>1, LastOfSet
<1>4. before(s) # {} => latest(s) \in S
  BY <1>2, <1>3
<1> HIDE DEF before, latest
<1>5. before(s) # {} => day[latest(s)] = today
  BY <1>4
<1>6. day[s] = today
  BY <1>2
<1> QED  BY <1>1, <1>5, <1>6

\* The quotes after the clock has moved, and what they mean for the day.
LEMMA AdvanceQuotes ==
  ASSUME DayInv, NEW c \in Contexts, Advance(c)
  PROVE  /\ Quoted(c) \subseteq Quoted(c)' /\ Quoted(c)' \subseteq Symbols
         /\ Quoted(c)' = {} => Due(c) = {} /\ clock'[c] = clock[c]
         /\ c \notin apart' =>
              c \notin apart /\ \A s \in Quoted(c)' : Day(TimeShown(c, s)') = Day(clock'[c])
<1>1. TypesInv /\ TypeOK
  BY DEF DayInv, HeldInv, FreshInv, TypesInv
<1>2. \A s \in Symbols : shown'[c][s] = IF s \in Present(c) THEN index[c][s] ELSE shown[c][s]
  BY <1>1, AdvanceMoves
<1>3. \A s \in Symbols : index[c][s] \in Nat \ {0}
  BY <1>1 DEF TypeOK
<1>4. Universe[c] \subseteq Symbols /\ Present(c) \subseteq Universe[c]
  BY BacktestAssumption DEF Present
<1>5. Quoted(c) \subseteq Quoted(c)' /\ Present(c) \subseteq Quoted(c)' /\ Quoted(c)' \subseteq Symbols
  BY <1>2, <1>3, <1>4 DEF Quoted
<1>6. Quoted(c)' = {} => Due(c) = {}
  BY <1>5 DEF Due
<1>7. Due(c) = {} => clock'[c] = clock[c]
  BY <1>1, AdvanceMoves
<1>8. ASSUME c \notin apart'
      PROVE  c \notin apart /\ \A s \in Quoted(c)' : Day(TimeShown(c, s)') = Day(clock'[c])
  <2> DEFINE quoted == Quoted(c)'
             day == [s \in quoted |-> Day(TimeShown(c, s)')]
  <2>1. apart' = IF \A s \in quoted : day[s] = Day(clock'[c]) THEN apart ELSE apart \cup {c}
    BY DEF Advance
  <2>2. \A s \in quoted : day[s] = Day(TimeShown(c, s)')
    OBVIOUS
  <2> HIDE DEF day, quoted
  <2>3. c \notin apart /\ \A s \in quoted : day[s] = Day(clock'[c])
    BY <1>8, <2>1
  <2> QED  BY <2>2, <2>3 DEF quoted
<1> QED  BY <1>5, <1>6, <1>7, <1>8

\* Days do not go back, whatever symbols come and go.
LEMMA DaysGoOn ==
  ASSUME DayInv, NEW c \in Contexts, Advance(c), c \notin apart'
  PROVE  /\ Day(clock[c]) \in Nat /\ Day(clock'[c]) \in Nat
         /\ Day(clock[c]) <= Day(clock'[c])
<1>1. TypesInv /\ TypeOK /\ TypesInv' /\ TypeOK' /\ QuotesOf(c) /\ c \notin apart
  BY AdvanceMoves, AdvanceQuotes DEF DayInv, HeldInv, FreshInv, TypesInv
<1>2. clock[c] \in Nat /\ clock'[c] \in Nat
  BY <1>1 DEF TypeOK
<1>3. Day(clock[c]) \in Nat /\ Day(clock'[c]) \in Nat
  BY <1>2, DaysAreNumbers
<1>4. CASE Quoted(c) = {}
  <2>1. clock[c] = 0
    BY <1>1, <1>4 DEF QuotesOf
  <2> QED  BY <1>2, <1>3, <2>1, DaysInOrder
<1>5. CASE Quoted(c) # {}
  <2>1. PICK s \in Quoted(c) : TRUE
    BY <1>5
  <2>2. s \in Symbols /\ s \in Quoted(c)'
    BY AdvanceQuotes
  <2>3. /\ Day(TimeShown(c, s)) = Day(clock[c])
        /\ Day(TimeShown(c, s)') = Day(clock'[c])
    BY <1>1, <2>1, <2>2, AdvanceQuotes DEF QuotesOf
  <2>4. /\ shown[c][s] \in Nat \ {0} /\ shown'[c][s] \in Nat \ {0}
        /\ shown[c][s] <= Len(Series[s]) /\ shown'[c][s] <= Len(Series[s])
    BY <1>1, <2>1, <2>2 DEF Quoted, TypesInv, TypeOK, ShownAreBars
  <2>5. shown[c][s] <= shown'[c][s]
    <3>1. shown'[c][s] = IF s \in Present(c) THEN index[c][s] ELSE shown[c][s]
      BY <1>1, <2>2, AdvanceMoves
    <3>2. shown[c][s] <= index[c][s]
      BY <1>1, <2>2 DEF QuotesOf
    <3> QED  BY <2>4, <3>1, <3>2
  <2> DEFINE i == shown[c][s]
             j == shown'[c][s]
  <2>6. /\ i \in DOMAIN Series[s] /\ j \in DOMAIN Series[s]
        /\ Series[s][i] \in Nat /\ Series[s][j] \in Nat
    BY <2>2, <2>4, BarsAreNumbers
  <2>7. TimeShown(c, s) = Series[s][i] /\ TimeShown(c, s)' = Series[s][j]
    BY DEF TimeShown
  <2>8. i \in Nat /\ j \in Nat /\ i <= j
    BY <2>4, <2>5
  <2> HIDE DEF i, j
  <2>9. Series[s][i] <= Series[s][j]
    <3>1. CASE i = j
      BY <2>6, <3>1
    <3>2. CASE i # j
      <4>1. i < j  BY <2>8, <3>2
      <4> QED  BY <2>2, <2>6, <4>1, BacktestAssumption
    <3> QED  BY <3>1, <3>2
  <2> QED  BY <1>3, <2>3, <2>6, <2>7, <2>9, DaysInOrder
<1> QED  BY <1>3, <1>4, <1>5

LEMMA DayAfterAdvance ==
  ASSUME DayInv, NEW c \in Contexts, Advance(c)
  PROVE  QuotesOf(c)'
<1>1. TypesInv /\ TypeOK /\ TypesInv' /\ TypeOK' /\ QuotesOf(c) /\ account[c] \in Account
  BY AdvanceMoves DEF DayInv, HeldInv, FreshInv, TypesInv, TypeOK
<1>2. \A s \in Symbols : shown'[c][s] <= index'[c][s]
  <2>1. \A s \in Symbols :
          /\ shown'[c][s] = IF s \in Present(c) THEN index[c][s] ELSE shown[c][s]
          /\ index'[c][s] = IF s \in Due(c) THEN index[c][s] + 1 ELSE index[c][s]
    BY <1>1, AdvanceMoves
  <2>2. \A s \in Symbols : index[c][s] \in Nat /\ shown[c][s] \in Nat /\ shown[c][s] <= index[c][s]
    BY <1>1 DEF QuotesOf, TypeOK
  <2> QED  BY <2>1, <2>2
<1>3. ASSUME c \notin apart'
      PROVE  /\ \A s \in Quoted(c)' : Day(TimeShown(c, s)') = Day(clock'[c])
             /\ lastDay'[c] = IF Quoted(c)' = {} THEN 0 ELSE Day(clock'[c])
             /\ Quoted(c)' = {} => clock'[c] = 0
             /\ \A s \in Symbols : bought'[c][s] <= account'[c].today[s]
  <2> DEFINE quoted == Quoted(c)'
             day == [s \in quoted |-> Day(TimeShown(c, s)')]
             last == CHOOSE s \in quoted : \A r \in quoted : r <= s
             today == Day(clock'[c])
  <2>1. /\ c \notin apart /\ quoted \subseteq Symbols /\ Quoted(c) \subseteq quoted
        /\ \A s \in quoted : Day(TimeShown(c, s)') = today
        /\ quoted = {} => clock'[c] = clock[c]
    BY <1>3, AdvanceQuotes
  <2>2. day = [s \in quoted |-> today]
    BY <2>1
  <2>3. /\ lastDay' = [lastDay EXCEPT ![c] = IF quoted = {} THEN lastDay[c] ELSE day[last]]
        /\ account' = [account EXCEPT ![c] =
             IF DayChanges(c, day) THEN NextDay(account[c]) ELSE account[c]]
        /\ bought' = IF today = Day(clock[c]) THEN bought
                     ELSE [bought EXCEPT ![c] = [s \in Symbols |-> 0]]
    BY DEF Advance
  <2>4. quoted # {} => last \in quoted
    <3> HIDE DEF quoted
    <3> QED  BY <2>1, LastOfSet
  <2>5. /\ lastDay[c] = IF Quoted(c) = {} THEN 0 ELSE Day(clock[c])
        /\ Quoted(c) = {} => clock[c] = 0
        /\ \A s \in Symbols : bought[c][s] <= account[c].today[s]
    BY <1>1, <2>1 DEF QuotesOf
  <2>6. \A s \in Quoted(c)' : Day(TimeShown(c, s)') = Day(clock'[c])
    BY <2>1
  <2> HIDE DEF quoted, day, last, today
  <2>7. lastDay'[c] = IF quoted = {} THEN 0 ELSE today
    <3>1. lastDay'[c] = IF quoted = {} THEN lastDay[c] ELSE day[last]
      BY <1>1, <2>3 DEF TypeOK
    <3>2. quoted # {} => day[last] = today
      BY <2>2, <2>4
    <3> QED  BY <2>1, <2>5, <3>1, <3>2
  <2>8. \A s \in Symbols : bought'[c][s] <= account'[c].today[s]
    <3>1. \A s \in Symbols : bought[c][s] \in Nat /\ account[c].today[s] \in Nat
      BY <1>1 DEF TypeOK, Account
    <3>2. CASE DayChanges(c, day)
      <4>1. lastDay[c] # 0 /\ lastDay[c] # today
        BY <2>1, <2>2, <3>2, SameDaysChangeOnce
      <4>2. today # Day(clock[c])
        BY <2>5, <4>1
      <4>3. bought'[c] = [s \in Symbols |-> 0] /\ account'[c] = NextDay(account[c])
        BY <1>1, <2>3, <3>2, <4>2 DEF TypeOK
      <4> QED  BY <1>1, <4>3, DayMoves
    <3>3. CASE ~DayChanges(c, day)
      <4>1. account'[c] = account[c]
        BY <1>1, <2>3, <3>3 DEF TypeOK
      <4>2. bought'[c] = bought[c] \/ bought'[c] = [s \in Symbols |-> 0]
        BY <1>1, <2>3 DEF TypeOK
      <4> QED  BY <2>5, <3>1, <4>1, <4>2
    <3> QED  BY <3>2, <3>3
  <2> QED  BY <2>1, <2>5, <2>6, <2>7, <2>8 DEF quoted, today
<1> QED  BY <1>2, <1>3 DEF QuotesOf

\* A step that moves neither quotes nor clock.
LEMMA QuotesFrame ==
  ASSUME NEW c \in Contexts, QuotesOf(c),
         UNCHANGED <<shown[c], index[c], lastDay[c], clock[c]>>,
         c \in apart' <=> c \in apart,
         c \notin apart => \A s \in Symbols : bought'[c][s] <= account'[c].today[s]
  PROVE  QuotesOf(c)'
<1>1. Quoted(c)' = Quoted(c) /\ \A s \in Symbols : TimeShown(c, s)' = TimeShown(c, s)
  BY DEF Quoted, TimeShown
<1>2. \A s \in Quoted(c) : TimeShown(c, s)' = TimeShown(c, s)
  BY DEF TimeShown
<1> QED  BY <1>1, <1>2 DEF QuotesOf

LEMMA QuotesOfNew ==
  ASSUME NEW c \in Contexts, Fresh(c)', TypeOK'
  PROVE  QuotesOf(c)'
<1>1. \A s \in Symbols : /\ shown'[c][s] = 0 /\ index'[c][s] \in Nat
                         /\ bought'[c][s] = 0 /\ account'[c].today[s] = 0
  BY DEF Fresh, Opened, TypeOK
<1>2. Quoted(c)' = {}
  BY <1>1, BacktestAssumption DEF Quoted
<1> QED  BY <1>1, <1>2 DEF QuotesOf, Fresh

LEMMA DayStep == DayInv /\ [Next]_vars => DayInv'
<1> SUFFICES ASSUME DayInv, [Next]_vars PROVE DayInv'
  OBVIOUS
<1>1. /\ HeldInv' /\ FreshInv /\ TypeOK /\ TypeOK' /\ account \in [Contexts -> Account]
      /\ \A c \in Contexts : QuotesOf(c)
  BY HeldStep DEF DayInv, HeldInv, FreshInv, TypesInv, TypeOK
<1>2. CASE UNCHANGED vars
  <2>1. \A c \in Contexts : QuotesOf(c)'
    BY <1>1, <1>2, QuotesFrame DEF vars, market, books, QuotesOf
  <2> QED  BY <1>1, <2>1 DEF DayInv
<1>3. ASSUME NEW c \in Contexts, Step(c) PROVE DayInv'
  <2>1. QuotesOf(c)'
    <3>1. CASE Create(c) \/ Leave(c)
      BY <1>1, <3>1, FreshAfter, QuotesOfNew
    <3>2. CASE Resume(c) \/ SomeSignal(c)
      <4>1. UNCHANGED <<market, account, bought>>
        BY <1>1, <3>2, SignalMoves DEF Resume, books
      <4> QED  BY <1>1, <4>1, QuotesFrame DEF market, QuotesOf
    <3>3. CASE Advance(c)  BY <3>3, DayAfterAdvance
    <3>4. CASE ApplyEvent(c)
      <4>1. PICK s \in Symbols, event \in [day : Nat \ {0}, bonus : Nat, cash : Nat] :
              account' = [account EXCEPT ![c] = AfterEvent(account[c], s, event)]
        BY <1>1, <3>4, EventStep
      <4>2. account'[c].today = account[c].today
        BY <1>1, <4>1, EventMoves
      <4>3. UNCHANGED <<market, bought>>
        BY <1>1, <3>4, EventStep
      <4> QED  BY <1>1, <4>2, <4>3, QuotesFrame DEF market, QuotesOf
    <3>5. CASE Match(c)
      <4>1. UNCHANGED market
        BY <1>1, <3>5, MatchMoves
      <4>2. \A s \in Symbols :
              bought'[c][s] - bought[c][s] = account'[c].today[s] - account[c].today[s]
        BY <1>1, <3>5, BoughtIsToday
      <4>3. \A s \in Symbols :
              /\ bought[c][s] \in Nat /\ bought'[c][s] \in Nat
              /\ account[c].today[s] \in Nat /\ account'[c].today[s] \in Nat
        <5>1. account[c] \in Account /\ account'[c] \in Account
          BY <1>1 DEF TypeOK
        <5> QED  BY <1>1, <5>1 DEF TypeOK, Account
      <4>4. c \notin apart => \A s \in Symbols : bought'[c][s] <= account'[c].today[s]
        BY <1>1, <4>2, <4>3 DEF QuotesOf
      <4> QED  BY <1>1, <4>1, <4>4, QuotesFrame DEF market
    <3> QED  BY <1>3, <3>1, <3>2, <3>3, <3>4, <3>5 DEF Step
  <2>2. ASSUME NEW d \in Contexts \ {c} PROVE QuotesOf(d)'
    <3>1. Mine(d)' = Mine(d) /\ (d \in apart' <=> d \in apart)
      BY <1>1, <1>3, OthersStay
    <3> QED  BY <1>1, <3>1, QuotesFrame DEF Mine, QuotesOf
  <2> QED  BY <1>1, <2>1, <2>2 DEF DayInv
<1> QED  BY <1>2, <1>3, NextIsStep

LEMMA DayInit == Init => DayInv
<1> SUFFICES ASSUME Init PROVE DayInv
  OBVIOUS
<1>1. HeldInv
  BY HeldInit
<1>2. ASSUME NEW c \in Contexts PROVE QuotesOf(c)
  <2>1. \A s \in Symbols : /\ shown[c][s] = 0 /\ index[c][s] = 1
                           /\ bought[c][s] = 0 /\ account[c].today[s] = 0
    BY DEF Init, PerSymbol, Each, Opened
  <2>2. Quoted(c) = {}
    BY <2>1, BacktestAssumption DEF Quoted
  <2> QED  BY <2>1, <2>2 DEF Init, Each, QuotesOf
<1> QED  BY <1>1, <1>2 DEF DayInv

\* The rule T+1 as it is meant, as long as quotes are of one day: nothing bought
\* on a day of the clock is sold on that day, whatever others load or take away
\* (stepForward, OnDayChange, Sell).
THEOREM BoughtAreKept == Spec => []BoughtIsKeptOvernight
<1>1. DayInv => BoughtIsKeptOvernight
  <2> SUFFICES ASSUME DayInv, NEW c \in Contexts \ apart, NEW s \in Symbols, bought[c][s] > 0
               PROVE  account[c].quantity[s] >= bought[c][s]
    BY DEF BoughtIsKeptOvernight
  <2>1. bought[c][s] <= account[c].today[s]
    BY DEF DayInv, QuotesOf
  <2>2. account[c] \in Account /\ Held(account[c]) /\ bought[c][s] \in Nat
    BY DEF DayInv, HeldInv, FreshInv, TypesInv, TypeOK
  <2>3. account[c].today[s] \in Nat /\ account[c].quantity[s] \in Int
    BY <2>2 DEF Account
  <2> QED  BY <2>1, <2>2, <2>3 DEF Held
<1> QED  BY DayInit, DayStep, <1>1, PTL DEF Spec

-----------------------------------------------------------------------------
(* Events.                                                                     *)

\* What was applied is not of the future, and nothing else is left to apply
\* while the graph runs.
EventsOf(c) ==
  c \notin apart =>
    \A s \in Universe[c] : \A i \in DOMAIN Events[s] :
      /\ i < nextEvent[c][s] => Events[s][i].day <= Day(clock[c])
      /\ phase[c] = "graph" /\ Events[s][i].day <= Day(clock[c]) => i < nextEvent[c][s]

EventInv == DayInv /\ \A c \in Contexts : EventsOf(c)

LEMMA EventsAreDays ==
  ASSUME NEW s \in Symbols
  PROVE  Len(Events[s]) \in Nat /\ DOMAIN Events[s] = 1..Len(Events[s])
         /\ \A i \in DOMAIN Events[s] : Events[s][i].day \in Nat \ {0}
<1>1. Events[s] \in Seq([day : Nat \ {0}, bonus : Nat, cash : Nat])
  BY BacktestAssumption
<1>2. Len(Events[s]) \in Nat /\ DOMAIN Events[s] = 1..Len(Events[s])
  BY <1>1
<1>3. \A i \in 1..Len(Events[s]) : Events[s][i] \in [day : Nat \ {0}, bonus : Nat, cash : Nat]
  BY <1>1, ElementOfSeq
<1> QED  BY <1>2, <1>3

LEMMA NoDayAtZero == Day(0) = 0
<1>1. \A d \in Nat \ {0} : 0 \div d = 0
  OBVIOUS
<1> QED  BY <1>1, BacktestAssumption DEF Day

\* When nothing is pending, all that is left is of later days.
LEMMA NothingPending ==
  ASSUME DayInv, NEW c \in Contexts, c \notin apart, Pending(c) = {},
         NEW s \in Universe[c], NEW i \in DOMAIN Events[s], Events[s][i].day <= Day(clock[c])
  PROVE  i < nextEvent[c][s]
<1>1. /\ TypeOK /\ QuotesOf(c) /\ s \in Symbols /\ nextEvent[c][s] \in Nat \ {0}
      /\ clock[c] \in Nat
  <2>1. TypeOK /\ QuotesOf(c)
    BY DEF DayInv, HeldInv, FreshInv, TypesInv
  <2>2. s \in Symbols
    BY BacktestAssumption
  <2>3. /\ nextEvent \in [Contexts -> [Symbols -> Nat \ {0}]] /\ clock \in [Contexts -> Nat]
    BY <2>1 DEF TypeOK
  <2> QED  BY <2>1, <2>2, <2>3
<1>2. Day(clock[c]) \in Nat
  BY <1>1, DaysAreNumbers
<1>3. /\ Len(Events[s]) \in Nat /\ DOMAIN Events[s] = 1..Len(Events[s])
      /\ \A j \in DOMAIN Events[s] : Events[s][j].day \in Nat \ {0}
  BY <1>1, EventsAreDays
<1>4. Quoted(c) # {}
  <2>1. Quoted(c) = {} => Day(clock[c]) = 0
    BY <1>1, NoDayAtZero DEF QuotesOf
  <2> QED  BY <1>2, <1>3, <2>1
<1>5. Day(TimeShown(c, First(Quoted(c)))) = Day(clock[c])
  <2>1. Quoted(c) \in SUBSET Nat
    BY AccountAssumption, BacktestAssumption DEF Quoted
  <2>2. First(Quoted(c)) \in Quoted(c)
    BY <1>4, <2>1, FirstOfSet
  <2> QED  BY <1>1, <2>2 DEF QuotesOf
<1> DEFINE next == nextEvent[c][s]
<1>6. ASSUME ~(i < next) PROVE FALSE
  <2>1. next \in Nat \ {0} /\ i \in Nat /\ next <= i /\ i <= Len(Events[s])
    BY <1>1, <1>3, <1>6
  <2>2. next \in DOMAIN Events[s] /\ next <= Len(Events[s])
    BY <1>3, <2>1
  <2>3. Events[s][next].day <= Events[s][i].day
    <3>1. CASE next = i
      BY <1>3, <3>1
    <3>2. CASE next # i
      <4>1. next < i  BY <2>1, <3>2
      <4> QED  BY <1>1, <2>2, <4>1, BacktestAssumption
    <3> QED  BY <3>1, <3>2
  <2>4. Events[s][next].day <= Day(clock[c])
    BY <1>2, <1>3, <2>2, <2>3
  <2>5. s \in Pending(c)
    BY <1>1, <1>4, <1>5, <2>2, <2>4 DEF Pending
  <2> QED  BY <2>5
<1> QED  BY <1>6

LEMMA EventsOfNew ==
  ASSUME NEW c \in Contexts, Fresh(c)'
  PROVE  EventsOf(c)'
<1>1. \A s \in Universe[c] : s \in Symbols /\ nextEvent'[c][s] = 1
  BY BacktestAssumption DEF Fresh
<1>2. Day(clock'[c]) = 0
  BY NoDayAtZero DEF Fresh
<1>3. ASSUME NEW s \in Universe[c], NEW i \in DOMAIN Events[s]
      PROVE  ~(i < nextEvent'[c][s]) /\ ~(Events[s][i].day <= Day(clock'[c]))
  <2>1. i \in Nat \ {0} /\ Events[s][i].day \in Nat \ {0}
    BY <1>1, EventsAreDays
  <2> QED  BY <1>1, <1>2, <2>1
<1> QED  BY <1>3 DEF EventsOf

LEMMA EventsAfterAdvance ==
  ASSUME EventInv, NEW c \in Contexts, Advance(c)
  PROVE  EventsOf(c)'
<1>1. TypesInv /\ TypeOK /\ DayInv /\ EventsOf(c)
  BY DEF EventInv, DayInv, HeldInv, FreshInv, TypesInv
<1>2. nextEvent' = nextEvent /\ phase'[c] = "step"
  BY <1>1 DEF Advance, TypeOK
<1>3. ASSUME c \notin apart', NEW s \in Universe[c], NEW i \in DOMAIN Events[s],
             i < nextEvent[c][s]
      PROVE  Events[s][i].day <= Day(clock'[c])
  <2>1. c \notin apart
    BY <1>1, <1>3, AdvanceQuotes
  <2>2. Events[s][i].day <= Day(clock[c])
    BY <1>1, <1>3, <2>1 DEF EventsOf
  <2>3. /\ Day(clock[c]) \in Nat /\ Day(clock'[c]) \in Nat
        /\ Day(clock[c]) <= Day(clock'[c])
    BY <1>1, <1>3, DaysGoOn
  <2>4. Events[s][i].day \in Nat
    BY BacktestAssumption, EventsAreDays
  <2> QED  BY <2>2, <2>3, <2>4
<1> QED  BY <1>2, <1>3 DEF EventsOf

LEMMA EventsAfterEvent ==
  ASSUME EventInv, NEW c \in Contexts, ApplyEvent(c)
  PROVE  EventsOf(c)'
<1> DEFINE s == First(Pending(c))
<1>1. TypeOK /\ DayInv /\ EventsOf(c) /\ QuotesOf(c)
  BY DEF EventInv, DayInv, HeldInv, FreshInv, TypesInv
<1>2. /\ s \in Symbols /\ s \in Pending(c) /\ nextEvent[c][s] \in 1..Len(Events[s])
  BY <1>1, PendingIsEvent
<1>3. /\ nextEvent' = [nextEvent EXCEPT ![c][s] = @ + 1]
      /\ UNCHANGED <<market, phase>> /\ phase[c] = "step"
  BY DEF ApplyEvent
<1> HIDE DEF s
<1>4. ASSUME c \notin apart PROVE Events[s][nextEvent[c][s]].day <= Day(clock[c])
  <2>1. Quoted(c) # {} /\ Events[s][nextEvent[c][s]].day <= Day(TimeShown(c, First(Quoted(c))))
    BY <1>2 DEF Pending
  <2>2. Quoted(c) \in SUBSET Nat
    BY AccountAssumption, BacktestAssumption DEF Quoted
  <2>3. First(Quoted(c)) \in Quoted(c)
    BY <2>1, <2>2, FirstOfSet
  <2> QED  BY <1>1, <1>4, <2>1, <2>3 DEF QuotesOf
<1>5. ASSUME c \notin apart, NEW r \in Universe[c], NEW i \in DOMAIN Events[r],
             i < nextEvent'[c][r]
      PROVE  Events[r][i].day <= Day(clock[c])
  <2>1. r \in Symbols /\ i \in Nat /\ nextEvent[c][r] \in Nat
    <3>1. r \in Symbols  BY BacktestAssumption
    <3>2. i \in 1..Len(Events[r])  BY <3>1, EventsAreDays
    <3> QED  BY <1>1, <3>1, <3>2 DEF TypeOK
  <2>2. CASE i < nextEvent[c][r]
    BY <1>1, <1>5, <2>2 DEF EventsOf
  <2>3. CASE ~(i < nextEvent[c][r])
    <3>1. r = s /\ i = nextEvent[c][r]
      BY <1>1, <1>2, <1>3, <1>5, <2>1, <2>3 DEF TypeOK
    <3> QED  BY <1>4, <1>5, <3>1
  <2> QED  BY <2>2, <2>3
<1> QED  BY <1>3, <1>5 DEF EventsOf, market

LEMMA EventInvStep == EventInv /\ [Next]_vars => EventInv'
<1> SUFFICES ASSUME EventInv, [Next]_vars PROVE EventInv'
  OBVIOUS
<1>1. /\ DayInv /\ DayInv' /\ FreshInv /\ TypeOK
      /\ \A c \in Contexts : EventsOf(c)
  BY DayStep DEF EventInv, DayInv, HeldInv, FreshInv, TypesInv
<1>2. CASE UNCHANGED vars
  <2>1. UNCHANGED <<apart, clock, nextEvent, phase>>
    BY <1>2 DEF vars, market, books
  <2> QED  BY <1>1, <2>1 DEF EventInv, EventsOf
<1>3. ASSUME NEW c \in Contexts, Step(c) PROVE EventInv'
  <2>1. EventsOf(c)'
    <3>1. CASE Create(c) \/ Leave(c)
      BY <1>1, <3>1, FreshAfter, EventsOfNew
    <3>2. CASE Resume(c)
      <4>1. UNCHANGED <<apart, clock, nextEvent>> /\ Pending(c) = {}
        BY <3>2 DEF Resume, market, books
      <4>2. ASSUME c \notin apart, NEW s \in Universe[c], NEW i \in DOMAIN Events[s],
                   Events[s][i].day <= Day(clock[c])
            PROVE  i < nextEvent[c][s]
        BY <1>1, <4>1, <4>2, NothingPending
      <4> QED  BY <1>1, <4>1, <4>2 DEF EventsOf
    <3>3. CASE Advance(c)  BY <3>3, EventsAfterAdvance
    <3>4. CASE ApplyEvent(c)  BY <3>4, EventsAfterEvent
    <3>5. CASE Match(c)
      <4>1. UNCHANGED <<market, nextEvent, phase>>
        BY <1>1, <3>5, MatchMoves
      <4> QED  BY <1>1, <4>1 DEF market, EventsOf
    <3>6. CASE SomeSignal(c)
      <4>1. UNCHANGED <<market, books, phase>>
        BY <1>1, <3>6, SignalMoves
      <4> QED  BY <1>1, <4>1 DEF market, books, EventsOf
    <3> QED  BY <1>3, <3>1, <3>2, <3>3, <3>4, <3>5, <3>6 DEF Step
  <2>2. ASSUME NEW d \in Contexts \ {c} PROVE EventsOf(d)'
    <3>1. Mine(d)' = Mine(d) /\ (d \in apart' <=> d \in apart)
      BY <1>1, <1>3, OthersStay
    <3> QED  BY <1>1, <3>1 DEF Mine, EventsOf
  <2> QED  BY <1>1, <2>1, <2>2 DEF EventInv
<1> QED  BY <1>2, <1>3, NextIsStep

LEMMA EventInit == Init => EventInv
<1> SUFFICES ASSUME Init PROVE EventInv
  OBVIOUS
<1>1. ASSUME NEW c \in Contexts, NEW s \in Universe[c], NEW i \in DOMAIN Events[s]
      PROVE  ~(i < nextEvent[c][s]) /\ phase[c] # "graph"
  <2>1. s \in Symbols  BY BacktestAssumption
  <2>2. nextEvent[c][s] = 1 /\ phase[c] = "none"
    BY <2>1 DEF Init, PerSymbol, Each
  <2>3. i \in Nat \ {0}
    BY <2>1, EventsAreDays
  <2> QED  BY <2>2, <2>3
<1> QED  BY <1>1, DayInit DEF EventInv, EventsOf

\* While the graph runs, the events up to the day of the clock have been applied
\* and no others, as long as quotes are of one day (stepForward,
\* processPositionEvents), whoever reloads the bars.
THEOREM EventsComeInTime == Spec => []EventsInTime
<1>1. EventInv => EventsInTime
  BY DEF EventInv, EventsOf, EventsInTime
<1> QED  BY EventInit, EventInvStep, <1>1, PTL DEF Spec

-----------------------------------------------------------------------------
(* Bars.                                                                       *)

\* The bars of s from the start up to the clock have been taken, and no others.
Taken(c, s) ==
  /\ index[c][s] >= StartIndex(c, s)
  /\ \A i \in DOMAIN Series[s] :
       i >= StartIndex(c, s) => (i < index[c][s] <=> Series[s][i] <= clock[c])

\* A backtest that is alone finds the bars of its symbols loaded, for it is the
\* last that decided to reload them.
BarsOf(c) ==
  c \notin disturbed =>
    /\ phase[c] \in {"load", "loading"} => filter = Universe[c]
    /\ phase[c] \in {"register", "start", "index", "graph", "step"} =>
         \A s \in Universe[c] : Series[s] # << >> => s \in loaded
    /\ phase[c] \in {"graph", "step"} =>
         \A s \in Universe[c] : Series[s] # << >> => Taken(c, s)

BarsInv == ShortInv /\ \A c \in Contexts : BarsOf(c)

\* Another one that is not disturbed is not about.
LEMMA OthersAreAway ==
  ASSUME ShortInv, NEW c \in Contexts, Step(c), NEW d \in Contexts \ {c}, d \notin disturbed'
  PROVE  phase'[d] = "none"
<1>1. TypeOK /\ LivesAlone
  BY ShortsOfOne DEF ShortInv
<1>2. Mine(d)' = Mine(d) /\ d \notin disturbed
  BY <1>1, OthersStay
<1>3. ASSUME phase[d] # "none" PROVE FALSE
  <2>1. d \in About /\ About = {d}
    BY <1>1, <1>2, <1>3 DEF LivesAlone, About
  <2>2. phase[c] = "none"
    BY <2>1 DEF About
  <2>3. Decide(c)
    BY <2>2, LeaveMoves, LifeMoves, <1>1 DEF Step, Create, Alive, SetFilter, Clear, Load,
       Register, FindStart, SetIndices
  <2>4. d \in disturbed'
    BY <2>1, <2>3 DEF Decide
  <2> QED  BY <2>4
<1> QED  BY <1>2, <1>3 DEF Mine

\* Moving the clock takes the bars of its new time.
LEMMA AdvanceTakes ==
  ASSUME BarsInv, NEW c \in Contexts, c \notin disturbed, Advance(c),
         NEW s \in Universe[c], Series[s] # << >>
  PROVE  Taken(c, s)'
<1>1. TypesInv /\ TypeOK /\ phase[c] = "graph" /\ common' = common
  BY DEF BarsInv, ShortInv, HeldInv, FreshInv, TypesInv, Advance
<1>2. \A r \in Universe[c] : Series[r] # << >> => r \in loaded /\ Taken(c, r)
  BY <1>1 DEF BarsInv, BarsOf
<1>3. s \in Present(c) /\ s \in Symbols
  BY <1>2, BacktestAssumption DEF Present
<1>4. \A r \in Present(c) : r \in Symbols /\ Taken(c, r)
  BY <1>1, <1>2, PresentHaveBars, EmptySeq DEF Present, TypeOK
<1> DEFINE f == First(Due(c))
           time(r) == Series[r][index[c][r]]
<1>5. \A r \in Present(c) :
        /\ index[c][r] \in Nat \ {0} /\ index[c][r] \in DOMAIN Series[r] /\ time(r) \in Nat
  <2>1. ASSUME NEW r \in Present(c)
        PROVE  /\ index[c][r] \in Nat \ {0} /\ index[c][r] \in DOMAIN Series[r]
               /\ time(r) \in Nat
    <3>1. index[c][r] \in Nat \ {0} /\ index[c][r] <= Len(Series[r]) /\ r \in Symbols
      BY <1>1, <1>4, AdvanceMoves DEF TypeOK
    <3> QED  BY <3>1, BarsAreNumbers
  <2> QED  BY <2>1
<1>6. Due(c) # {}
  <2>1. IsFiniteSet(Present(c))
    BY AccountAssumption, BacktestAssumption, FS_Subset DEF Present
  <2> DEFINE ts == {time(r) : r \in Present(c)}
  <2>2. ts \in SUBSET Nat /\ ts # {}
    BY <1>3, <1>5
  <2> HIDE DEF time
  <2>3. PICK t \in ts : \A u \in ts : t <= u
    BY <2>2, FirstNumber
  <2>4. PICK r \in Present(c) : t = time(r)
    BY <2>3
  <2>5. \A q \in Present(c) : time(r) <= time(q)
    BY <2>3, <2>4
  <2>6. r \in Due(c)
    BY <2>4, <2>5 DEF Due, time
  <2> QED  BY <2>6
<1>7. f \in Due(c) /\ f \in Present(c) /\ clock'[c] = time(f) /\ \A r \in Present(c) : time(f) <= time(r)
  <2>1. f \in Due(c) /\ clock'[c] = time(f)
    BY <1>1, <1>6, AdvanceMoves
  <2> HIDE DEF f
  <2> QED  BY <2>1 DEF Due
<1>8. clock[c] < clock'[c] /\ clock[c] \in Nat
  <2>1. clock[c] \in Nat
    BY <1>1 DEF TypeOK
  <2>2. ~(time(f) <= clock[c])
    <3> HIDE DEF f
    <3>1. /\ index[c][f] >= StartIndex(c, f) /\ index[c][f] \in DOMAIN Series[f]
          /\ ~(index[c][f] < index[c][f])
      BY <1>4, <1>5, <1>7 DEF Taken
    <3> QED  BY <1>4, <1>7, <3>1 DEF Taken
  <2>3. time(f) \in Nat
    BY <1>5, <1>7
  <2> HIDE DEF time, f
  <2> QED  BY <1>7, <2>1, <2>2, <2>3
<1>9. s \in Due(c) <=> time(s) = clock'[c]
  <2>1. s \in Due(c) <=> \A r \in Present(c) : time(s) <= time(r)
    BY <1>3 DEF Due
  <2> HIDE DEF f, time
  <2>2. time(s) \in Nat /\ time(f) \in Nat /\ \A r \in Present(c) : time(r) \in Nat
    BY <1>3, <1>5, <1>7
  <2>3. time(s) >= time(f)
    BY <1>3, <1>7, <2>2
  <2> QED  BY <1>3, <1>7, <2>1, <2>2, <2>3
<1>10. clock'[c] <= time(s)
  BY <1>3, <1>7
<1> DEFINE k == index[c][s]
           b == StartIndex(c, s)
<1>11. index'[c][s] = IF s \in Due(c) THEN k + 1 ELSE k
  BY <1>1, <1>3, AdvanceMoves
<1>12. StartIndex(c, s)' = b /\ b \in Nat \ {0}
  <2>1. b \in Nat \ {0}
    BY <1>1, <1>3, StartIndexIsOne
  <2> QED  BY <1>1, <2>1 DEF StartIndex
<1>13. k \in Nat \ {0} /\ k \in DOMAIN Series[s] /\ time(s) \in Nat /\ k >= b
       /\ time(s) = Series[s][k]
  BY <1>3, <1>4, <1>5 DEF Taken
<1>14. \A i \in DOMAIN Series[s] : i >= b => (i < k <=> Series[s][i] <= clock[c])
  BY <1>3, <1>4 DEF Taken
<1>15. /\ \A i, j \in DOMAIN Series[s] : i < j => Series[s][i] < Series[s][j]
       /\ \A i \in DOMAIN Series[s] : i \in Nat /\ Series[s][i] \in Nat
  <2>1. \A i \in DOMAIN Series[s] : i \in Nat /\ Series[s][i] \in Nat
    <3>1. Series[s] \in Seq(Nat)
      BY <1>3, BacktestAssumption
    <3> QED  BY <3>1, ElementOfSeq
  <2> QED  BY <1>3, <2>1, BacktestAssumption
<1> HIDE DEF k, b, time, f
<1>16. clock'[c] \in Nat
  BY <1>5, <1>7
<1>17. ASSUME NEW i \in DOMAIN Series[s], i >= b
       PROVE  i < index'[c][s] <=> Series[s][i] <= clock'[c]
  <2>1. i \in Nat /\ Series[s][i] \in Nat /\ (i < k <=> Series[s][i] <= clock[c])
    BY <1>14, <1>15, <1>17
  <2>2. i < k => Series[s][i] < clock'[c]
    BY <1>8, <1>16, <2>1
  <2>3. k < i => Series[s][k] < Series[s][i]
    BY <1>13, <1>15
  <2>4. CASE s \in Due(c)
    BY <1>9, <1>11, <1>13, <1>16, <2>1, <2>2, <2>3, <2>4
  <2>5. CASE s \notin Due(c)
    BY <1>9, <1>10, <1>11, <1>13, <1>16, <2>1, <2>2, <2>3, <2>5
  <2> QED  BY <2>4, <2>5
<1>18. index'[c][s] >= b
  BY <1>11, <1>12, <1>13
<1> QED  BY <1>12, <1>17, <1>18 DEF Taken, b

LEMMA BarsAfterCreate ==
  ASSUME BarsInv, NEW c \in Contexts, Create(c)
  PROVE  BarsOf(c)'
<1>1. TypeOK /\ FreshInv /\ BarsOf(c)
  BY DEF BarsInv, ShortInv, HeldInv, FreshInv, TypesInv
<1>2. CASE Decide(c)
  BY <1>1, <1>2 DEF Decide, market, NeedsReload, BarsOf, TypeOK
<1>3. CASE SetFilter(c)
  BY <1>1, <1>3 DEF SetFilter, BarsOf, TypeOK
<1>4. CASE Clear(c)
  BY <1>1, <1>4 DEF Clear, BarsOf, TypeOK
<1>5. CASE Load(c)
  BY <1>1, <1>5 DEF Load, BarsOf, TypeOK
<1>6. CASE Register(c) \/ FindStart(c)
  BY <1>1, <1>6 DEF Register, FindStart, market, BarsOf, TypeOK
<1>7. CASE SetIndices(c)
  <2>1. /\ phase'[c] = "graph" /\ UNCHANGED <<loaded, common, clock, disturbed>>
        /\ phase[c] = "index" /\ clock[c] = 0
        /\ \A s \in Symbols : index'[c][s] = IF s \in Present(c) THEN StartIndex(c, s) ELSE 1
    BY <1>1, <1>7 DEF SetIndices, TypeOK, FreshInv, Fresh, Alive
  <2>2. ASSUME c \notin disturbed, NEW s \in Universe[c], Series[s] # << >>
        PROVE  s \in loaded /\ Taken(c, s)'
    <3>1. s \in loaded /\ s \in Symbols
      BY <1>1, <2>1, <2>2, BacktestAssumption DEF BarsOf
    <3>2. index'[c][s] = StartIndex(c, s)
      BY <2>1, <3>1 DEF Present
    <3>3. StartIndex(c, s)' = StartIndex(c, s) /\ StartIndex(c, s) \in Nat
      <4>1. StartIndex(c, s) \in Nat
        BY <1>1, <3>1, StartIndexIsOne
      <4> QED  BY <2>1, <4>1 DEF StartIndex
    <3>4. \A i \in DOMAIN Series[s] : i \in Nat /\ ~(Series[s][i] <= 0)
      <4>1. Series[s] \in Seq(Nat)
        BY <3>1, BacktestAssumption
      <4>2. \A i \in DOMAIN Series[s] : i \in Nat \ {0} /\ i <= Len(Series[s])
        BY <4>1
      <4> QED  BY <3>1, <4>2, BarsAreNumbers
    <3>5. clock'[c] = 0
      BY <2>1
    <3>6. \A i \in DOMAIN Series[s] : i >= StartIndex(c, s) =>
            ~(i < index'[c][s]) /\ ~(Series[s][i] <= clock'[c])
      BY <3>2, <3>3, <3>4, <3>5
    <3>7. index'[c][s] >= StartIndex(c, s)'
      BY <3>2, <3>3
    <3> QED  BY <3>1, <3>3, <3>6, <3>7 DEF Taken
  <2> QED  BY <2>1, <2>2 DEF BarsOf
<1> QED  BY <1>2, <1>3, <1>4, <1>5, <1>6, <1>7 DEF Create

LEMMA BarsFrame ==
  ASSUME NEW c \in Contexts, BarsOf(c), c \in Alive,
         UNCHANGED <<loaded, filter, index[c], clock[c], common[c], disturbed>>,
         phase'[c] \in {"graph", "step"}
  PROVE  BarsOf(c)'
<1>1. \A s \in Symbols : StartIndex(c, s)' = StartIndex(c, s)
  BY DEF StartIndex
<1>2. \A s \in Universe[c] : s \in Symbols
  BY BacktestAssumption
<1>3. \A s \in Universe[c] : Taken(c, s) => Taken(c, s)'
  BY <1>1, <1>2 DEF Taken
<1> QED  BY <1>3 DEF BarsOf, Alive

LEMMA BarsStep == BarsInv /\ [Next]_vars => BarsInv'
<1> SUFFICES ASSUME BarsInv, [Next]_vars PROVE BarsInv'
  OBVIOUS
<1>1. ShortInv /\ ShortInv' /\ TypeOK /\ \A c \in Contexts : BarsOf(c)
  BY ShortStep DEF BarsInv, ShortInv, HeldInv, FreshInv, TypesInv
<1>2. CASE UNCHANGED vars
  <2>1. UNCHANGED <<loaded, filter, index, clock, common, disturbed, phase>>
    BY <1>2 DEF vars, market
  <2>2. \A c \in Contexts, s \in Symbols : Taken(c, s)' <=> Taken(c, s)
    BY <2>1 DEF Taken, StartIndex
  <2>3. \A c \in Contexts : \A s \in Universe[c] : s \in Symbols
    BY BacktestAssumption
  <2>4. \A c \in Contexts : BarsOf(c)'
    BY <1>1, <2>1, <2>2, <2>3 DEF BarsOf
  <2> QED  BY <1>1, <2>4 DEF BarsInv
<1>3. ASSUME NEW c \in Contexts, Step(c) PROVE BarsInv'
  <2>1. BarsOf(c)'
    <3>1. CASE Create(c)  BY <3>1, BarsAfterCreate
    <3>2. CASE Leave(c)
      BY <1>1, <3>2, LeaveMoves DEF BarsOf
    <3>3. CASE Advance(c)
      <4>1. /\ UNCHANGED <<loaded, filter, disturbed>> /\ phase[c] = "graph" /\ phase'[c] = "step"
        BY <1>1, <3>3 DEF Advance, TypeOK
      <4>2. ASSUME c \notin disturbed, NEW s \in Universe[c], Series[s] # << >>
            PROVE  s \in loaded /\ Taken(c, s)'
        BY <1>1, <3>3, <4>1, <4>2, AdvanceTakes DEF BarsOf
      <4> QED  BY <4>1, <4>2 DEF BarsOf
    <3>4. CASE Resume(c) \/ ApplyEvent(c) \/ Match(c) \/ SomeSignal(c)
      <4>1. UNCHANGED market
        BY <1>1, <3>4, EventStep, MatchMoves, SignalMoves DEF Resume
      <4>2. c \in Alive /\ phase'[c] \in {"graph", "step"} /\ disturbed' = disturbed
        BY <1>1, <3>4, LifeMoves
      <4> QED  BY <1>1, <4>1, <4>2, BarsFrame DEF market
    <3> QED  BY <1>3, <3>1, <3>2, <3>3, <3>4 DEF Step
  <2>2. ASSUME NEW d \in Contexts \ {c} PROVE BarsOf(d)'
    BY <1>1, <1>3, OthersAreAway DEF BarsOf
  <2> QED  BY <1>1, <2>1, <2>2 DEF BarsInv
<1> QED  BY <1>2, <1>3, NextIsStep

LEMMA BarsInit == Init => BarsInv
<1> SUFFICES ASSUME Init PROVE BarsInv
  OBVIOUS
<1>1. \A c \in Contexts : phase[c] = "none"
  BY DEF Init, Each
<1> QED  BY <1>1, ShortInit DEF BarsInv, BarsOf

\* A backtest that was alone takes its bars in the order of their times and
\* leaves none out, also where series leave out bars (stepForward), for the bars
\* of all its symbols are loaded (createBacktestContext).
THEOREM BarsAreTakenInOrder == Spec => []BarsFollowClock
<1>1. BarsInv => BarsFollowClock
  <2> SUFFICES ASSUME BarsInv, NEW c \in Alive \ disturbed, NEW s \in Universe[c],
                      NEW i \in DOMAIN Series[s], i >= StartIndex(c, s)
               PROVE  i < index[c][s] <=> Series[s][i] <= clock[c]
    BY DEF BarsFollowClock
  <2>1. c \in Contexts /\ s \in Symbols
    BY BacktestAssumption DEF Alive
  <2>2. Series[s] # << >>
    <3>1. DOMAIN << >> = {}  OBVIOUS
    <3> QED  BY <3>1
  <2> QED  BY <2>1, <2>2 DEF BarsInv, BarsOf, Taken, Alive
<1> QED  BY BarsInit, BarsStep, <1>1, PTL DEF Spec
=============================================================================

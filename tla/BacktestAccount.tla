--------------------------- MODULE BacktestAccount ---------------------------
(***************************************************************************)
(* The books of one backtest: positions under the T+1 rule, cash, and      *)
(* credit.  src/service/src/Bridge/SIM/StockPositionManager.cpp and        *)
(* adjustPosition, applyCreditFill of BacktestContext.cpp.                 *)
(*                                                                         *)
(* An account is a record; a symbol without an entry in a map of the code  *)
(* has 0 there.  Prices stand still: a symbol has one price, so that worth *)
(* moves by fees and by what events hand out, and every other movement is  *)
(* an error of the books.  Money is counted in units of 1/Unit; the fee    *)
(* rates and margin ratios are numerators over Unit.  Left out: the costs  *)
(* and average prices of positions, which nothing here is decided by.      *)
(***************************************************************************)
EXTENDS Integers, FiniteSets

CONSTANTS
  Symbols,     \* the instruments; symbol_t is a number, and sets are ordered by it
  Price,       \* their price
  Unit,        \* the ratio 1.0
  Commission,  \* _commissionRate
  StampTax     \* _stampTaxRate, on sales

ASSUME AccountAssumption ==
  /\ Symbols \subseteq Nat /\ IsFiniteSet(Symbols)
  /\ Price \in [Symbols -> Nat \ {0}]
  /\ Unit \in Nat \ {0} /\ Commission \in Nat /\ StampTax \in Nat

Least(m, n) == IF m <= n THEN m ELSE n
Most(m, n) == IF m <= n THEN n ELSE m
Magnitude(n) == IF n < 0 THEN -n ELSE n

Account ==
  [ cash : Int, loan : Nat, quantity : [Symbols -> Int],
    today : [Symbols -> Nat], borrowed : [Symbols -> Nat] ]

Opened(capital) ==
  [ cash |-> capital, loan |-> 0, quantity |-> [s \in Symbols |-> 0],
    today |-> [s \in Symbols |-> 0], borrowed |-> [s \in Symbols |-> 0] ]

-----------------------------------------------------------------------------
(* Positions. *)

\* The part of a purchase that opens or adds to a long position; the rest
\* covers a short one.  Only this part may not be sold today.
BoughtLong(q, n) == IF q >= 0 THEN n ELSE Most(0, n + q)

\* Mutant: what was bought today can be sold.
SoldAnyDay(q, today, n, allowShort) ==
  IF q <= 0 THEN IF q = 0 /\ ~allowShort THEN 0 ELSE n
            ELSE Least(n, q)

\* How much of a sale of n is filled.  Without a long position it is refused
\* or sells short, and adds to a short position even if it is a plain sale.
Sold(q, today, n, allowShort) ==
  IF q <= 0 THEN IF q = 0 /\ ~allowShort THEN 0 ELSE n
            ELSE Most(0, Least(n, q - today))

\* AdjustPosition: what an order of n is filled by, negative for a sale.
Filled(a, s, side, n, allowShort) ==
  IF side = "buy" THEN n
  ELSE -Sold(a.quantity[s], a.today[s], n, allowShort)

-----------------------------------------------------------------------------
(* Fills. *)

Fees(filled, s) ==
  LET amount == Magnitude(filled) * Price[s] IN
  amount * Commission + (IF filled < 0 THEN amount * StampTax ELSE 0)

\* Mutant: a financed purchase pays the whole amount and is lent its part, too.
CashOutInFull(filled, s, credit, ratio) == filled * Price[s] * Unit

\* A financed purchase pays its margin only; a sale (negative) pays out.
CashOut(filled, s, credit, ratio) ==
  filled * Price[s] * (IF filled > 0 /\ credit = "MarginBuy" THEN ratio ELSE Unit)

Lent(filled, s, credit, ratio) ==
  IF credit = "MarginBuy" THEN Magnitude(filled) * Price[s] * (Unit - ratio) ELSE 0

\* Mutant: a cover returns shares only when it closes the position.
OwedUntilClosed(owed, credit, n) ==
  CASE credit = "ShortSell" -> owed + n
    [] credit = "ShortCover" -> IF n >= owed THEN 0 ELSE owed
    [] OTHER -> owed

\* The shares owed to the lender after a fill of n.
Owed(owed, credit, n) ==
  CASE credit = "ShortSell" -> owed + n
    [] credit = "ShortCover" -> Most(0, owed - n)
    [] OTHER -> owed

\* adjustPosition: positions, then cash by what was really filled, then credit.
AfterFill(a, s, filled, credit, ratio) ==
  IF filled = 0 THEN a
  ELSE [a EXCEPT
    !.quantity[s] = @ + filled,
    !.today[s] = @ + (IF filled > 0 THEN BoughtLong(a.quantity[s], filled) ELSE 0),
    !.cash = @ - CashOut(filled, s, credit, ratio) - Fees(filled, s),
    !.loan = @ + Lent(filled, s, credit, ratio),
    !.borrowed[s] = Owed(@, credit, Magnitude(filled))]

\* OnDayChange.
NextDay(a) == [a EXCEPT !.today = [s \in Symbols |-> 0]]

-----------------------------------------------------------------------------
(* Events: a dividend of so many shares and so much cash for ten held. *)

\* floor, and nothing for those who hold nothing or are short.
Bonus(q, event) == IF q <= 0 THEN 0 ELSE (q * event.bonus) \div 10

CashDividend(q, event) == IF q <= 0 THEN 0 ELSE (q * event.cash * Unit) \div 10

AfterEvent(a, s, event) ==
  [a EXCEPT !.quantity[s] = @ + Bonus(a.quantity[s], event),
            !.cash = @ + CashDividend(a.quantity[s], event)]

=============================================================================

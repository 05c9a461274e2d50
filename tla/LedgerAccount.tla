---------------------------- MODULE LedgerAccount ----------------------------
(***************************************************************************)
(* One strategy's account of the unified ledger and the arithmetic of a    *)
(* booked fill: src/service/src/Bridge/LedgerStore.cpp, ApplyFill and      *)
(* RestoreFromFills, with the structures of LedgerStore.h.                 *)
(*                                                                         *)
(* Amounts are integers in a unit fine enough for the fills of a run (the  *)
(* code uses doubles); a margin ratio is a numerator over MarginUnit.  The *)
(* two fee components of a fill (rate times gross, fixed fee) are one      *)
(* amount.  A map of the code without an entry for a symbol is a function  *)
(* that is 0 (or << >>) there: the code erases an entry that reaches 0.    *)
(* Left out: the display copies (isMargin, marginRatio, shortAvgPrice) and *)
(* the dates of lots, whose order is the order of the sequence.            *)
(***************************************************************************)
EXTENDS Integers, Sequences, FiniteSets, Functions, SequencesExt

CONSTANTS
  Symbols,     \* the instruments
  MarginUnit   \* the margin ratio 1.0

ASSUME MarginUnitAssumption == MarginUnit \in Nat \ {0}
ASSUME SymbolsAssumption == IsFiniteSet(Symbols)

Magnitude(n) == IF n < 0 THEN -n ELSE n
Least(m, n) == IF m <= n THEN m ELSE n
Most(m, n) == IF m <= n THEN n ELSE m

-----------------------------------------------------------------------------
(* Accounts. *)

Lot == [quantity : Nat \ {0}, price : Nat]

Account ==
  [ exists : BOOLEAN, active : BOOLEAN,
    allocated : Nat, cash : Int, profit : Int,
    quantity : [Symbols -> Int], avgPrice : [Symbols -> Nat],
    currentPrice : [Symbols -> Nat], lots : [Symbols -> Seq(Lot)],
    borrowedCash : Nat, financedAmount : [Symbols -> Nat],
    borrowedShares : [Symbols -> Nat] ]

\* No entry of the map of accounts under this name.
NoAccount ==
  [ exists |-> FALSE, active |-> TRUE,
    allocated |-> 0, cash |-> 0, profit |-> 0,
    quantity |-> [s \in Symbols |-> 0], avgPrice |-> [s \in Symbols |-> 0],
    currentPrice |-> [s \in Symbols |-> 0], lots |-> [s \in Symbols |-> << >>],
    borrowedCash |-> 0, financedAmount |-> [s \in Symbols |-> 0],
    borrowedShares |-> [s \in Symbols |-> 0] ]

\* Mutant: a new allocation forgets the debt, but not what it financed.
AllocatedDebtFree(a, amount) ==
  [a EXCEPT !.exists = TRUE, !.active = TRUE,
            !.allocated = amount, !.cash = amount, !.borrowedCash = 0]

\* Every write goes through _account, which makes a default entry if there was
\* none.  Allocate resets cash and keeps positions, lots and debts.
Allocated(a, amount) ==
  [a EXCEPT !.exists = TRUE, !.active = TRUE,
            !.allocated = amount, !.cash = amount]

CashAdjusted(a, delta) == [a EXCEPT !.exists = TRUE, !.cash = a.cash + delta]

\* A price marks only a position that is held.
Marked(a, s, price) ==
  [a EXCEPT !.exists = TRUE,
            !.currentPrice[s] =
              IF a.quantity[s] # 0 THEN price ELSE a.currentPrice[s]]

\* Reclaim and Deactivate.
Deactivated(a) == [a EXCEPT !.active = FALSE]

-----------------------------------------------------------------------------
(* Fills: quantity > 0 buys, quantity < 0 sells. *)

IsBuy(f) == f.quantity > 0
Size(f) == Magnitude(f.quantity)
Gross(f) == Size(f) * f.price

IsCover(f) == IsBuy(f) /\ f.shortCover
IsOpenBuy(f) == IsBuy(f) /\ ~f.shortCover
IsShortSell(f) == ~IsBuy(f) /\ f.shortSell
IsPlainSell(f) == ~IsBuy(f) /\ ~f.shortSell

\* The strategy's own money in a buy; the rest of the gross is financed.
OwnMoney(f) == (Gross(f) * Least(Most(f.ratio, 0), MarginUnit)) \div MarginUnit
Financed(f) == Gross(f) - OwnMoney(f)

\* Mutant: the share sold is taken of the holding after the sale.
RepaymentAfterSale(a, f) ==
  LET owed == a.financedAmount[f.symbol]
      held == a.quantity[f.symbol] + f.quantity
  IN  IF owed > 0 /\ held > 0
        THEN Least(Least((owed * Size(f)) \div held, owed), a.borrowedCash)
        ELSE 0

\* A plain sell repays the principal financed on the symbol, in proportion to
\* the part of the holding it sells.
Repayment(a, f) ==
  LET owed == a.financedAmount[f.symbol]
      held == a.quantity[f.symbol]
  IN  IF owed > 0 /\ held > 0
        THEN Least(Least((owed * Size(f)) \div held, owed), a.borrowedCash)
        ELSE 0

\* Mutant: a sell keeps what it repays.
CashDeltaKept(a, f) ==
  CASE IsCover(f)     -> -(Gross(f) + f.fees)
    [] IsOpenBuy(f)   -> -(OwnMoney(f) + f.fees)
    [] OTHER          -> Gross(f) - f.fees

CashDelta(a, f) ==
  CASE IsCover(f)     -> -(Gross(f) + f.fees)
    [] IsOpenBuy(f)   -> -(OwnMoney(f) + f.fees)
    [] IsShortSell(f) -> Gross(f) - f.fees
    [] IsPlainSell(f) -> Gross(f) - f.fees - Repayment(a, f)

\* What the fill adds to the money owed, in total and on its symbol.
DebtDelta(a, f) ==
  CASE IsOpenBuy(f)   -> Financed(f)
    [] IsPlainSell(f) -> -Repayment(a, f)
    [] OTHER          -> 0

\* Mutant: any cover returns all shares.
BorrowedSharesCleared(a, f) ==
  CASE IsCover(f)     -> 0
    [] IsShortSell(f) -> a.borrowedShares[f.symbol] + Size(f)
    [] OTHER          -> a.borrowedShares[f.symbol]

BorrowedSharesAfter(a, f) ==
  LET shares == a.borrowedShares[f.symbol]
  IN  CASE IsCover(f)     -> Most(shares - Size(f), 0)
        [] IsShortSell(f) -> shares + Size(f)
        [] OTHER          -> shares

-----------------------------------------------------------------------------
(* Position and FIFO lots. *)

TakeFromLot(acc, lot) ==
  LET take == Least(acc.remaining, lot.quantity)
  IN  [ remaining |-> acc.remaining - take,
        cost |-> acc.cost + take * lot.price,
        batch |-> IF take = lot.quantity THEN acc.batch
                  ELSE Append(acc.batch, [lot EXCEPT !.quantity = @ - take]) ]

Untouched(n) == [remaining |-> n, cost |-> 0, batch |-> << >>]

\* Mutant: the newest lots go first.
ConsumeNewestLots(batch, n) ==
  LET taken == FoldLeft(TakeFromLot, Untouched(n), Reverse(batch))
  IN  [taken EXCEPT !.batch = Reverse(@)]

\* Takes n units from the oldest lots: what is left and what they had cost.
ConsumeLots(batch, n) == FoldLeft(TakeFromLot, Untouched(n), batch)

SameSide(q, d) == q = 0 \/ (q > 0) = (d > 0)

CloseQty(a, f) ==
  LET old == a.quantity[f.symbol]
  IN  IF SameSide(old, f.quantity) THEN 0 ELSE Least(Size(f), Magnitude(old))

OpenQty(a, f) == Size(f) - CloseQty(a, f)

QuantityAfter(a, f) == a.quantity[f.symbol] + f.quantity

\* Average price: of the fill when it opens or flips the position, weighted
\* when it adds, unchanged when it only reduces.
AvgPriceAfter(a, f) ==
  LET old == a.quantity[f.symbol]
      avg == a.avgPrice[f.symbol]
      new == QuantityAfter(a, f)
  IN  CASE new = 0 -> 0
        [] new # 0 /\ (old = 0 \/ (old > 0) # (new > 0)) -> f.price
        [] new # 0 /\ old # 0 /\ (old > 0) = (new > 0) ->
             IF OpenQty(a, f) = 0 THEN avg
             ELSE (Magnitude(old) * avg + Size(f) * f.price) \div Magnitude(new)

ClosedLots(a, f) ==
  ConsumeLots(a.lots[f.symbol],
              IF a.quantity[f.symbol] > 0 THEN CloseQty(a, f) ELSE 0)

\* Cost of what the fill closes: of the lots for a long position, of the
\* average price for a short one.
ClosedCost(a, f) ==
  IF a.quantity[f.symbol] > 0 THEN ClosedLots(a, f).cost
  ELSE CloseQty(a, f) * a.avgPrice[f.symbol]

\* Mutant: a sale takes nothing from the lots.
LotsKeptBySale(a, f) ==
  IF IsOpenBuy(f) /\ OpenQty(a, f) > 0 /\ QuantityAfter(a, f) > 0
    THEN Append(ClosedLots(a, f).batch,
                [quantity |-> OpenQty(a, f), price |-> f.price])
    ELSE a.lots[f.symbol]

\* Only a buy that is not a cover, and leaves a long position, opens a lot.
LotsAfter(a, f) ==
  IF IsOpenBuy(f) /\ OpenQty(a, f) > 0 /\ QuantityAfter(a, f) > 0
    THEN Append(ClosedLots(a, f).batch,
                [quantity |-> OpenQty(a, f), price |-> f.price])
    ELSE ClosedLots(a, f).batch

\* Mutant: a cover realises its profit before fees.
RealisedBeforeFees(a, f) ==
  CASE IsPlainSell(f) /\ ClosedCost(a, f) > 0 ->
         Gross(f) - ClosedCost(a, f) - f.fees
    [] IsCover(f) -> (a.avgPrice[f.symbol] - f.price) * CloseQty(a, f)
    [] OTHER -> 0

RealisedProfit(a, f) ==
  CASE IsPlainSell(f) /\ ClosedCost(a, f) > 0 ->
         Gross(f) - ClosedCost(a, f) - f.fees
    [] IsCover(f) /\ CloseQty(a, f) > 0 ->
         (a.avgPrice[f.symbol] - f.price) * CloseQty(a, f) - f.fees
    [] OTHER -> 0

-----------------------------------------------------------------------------
(* The account after a fill: LedgerStore::ApplyFill. *)

Bookable(f) == f.quantity # 0 /\ f.price > 0

AccountAfter(a, f) ==
  [ exists |-> TRUE,
    active |-> a.active,
    allocated |-> a.allocated,
    cash |-> a.cash + CashDelta(a, f),
    profit |-> a.profit + RealisedProfit(a, f),
    quantity |-> [a.quantity EXCEPT ![f.symbol] = QuantityAfter(a, f)],
    avgPrice |-> [a.avgPrice EXCEPT ![f.symbol] = AvgPriceAfter(a, f)],
    currentPrice |-> [a.currentPrice EXCEPT ![f.symbol] =
                        IF QuantityAfter(a, f) = 0 THEN 0 ELSE f.price],
    lots |-> [a.lots EXCEPT ![f.symbol] = LotsAfter(a, f)],
    borrowedCash |-> a.borrowedCash + DebtDelta(a, f),
    financedAmount |-> [a.financedAmount EXCEPT ![f.symbol] = @ + DebtDelta(a, f)],
    borrowedShares |-> [a.borrowedShares EXCEPT ![f.symbol] =
                          BorrowedSharesAfter(a, f)] ]

\* The four kinds of fill ApplyFill is written for: a buy opens a long position,
\* a sale closes some of it, a short sale opens a short one, a cover closes it.
Fits(a, f) ==
  LET held == a.quantity[f.symbol]
  IN  /\ IsOpenBuy(f) => held >= 0
      /\ IsPlainSell(f) => Size(f) <= held
      /\ IsShortSell(f) => held <= 0
      /\ IsCover(f) => Size(f) <= -held

-----------------------------------------------------------------------------
(* Rebuilding positions and lots from a log: RestoreFromFills.  Cash,      *)
(* profit and credit are not touched.                                      *)

\* Mutant: a sale leaves the lots alone.
RestoredLotsKept(a, r) ==
  IF r.isOpen /\ r.quantity > 0 /\ QuantityAfter(a, r) > 0
    THEN Append(a.lots[r.symbol], [quantity |-> OpenQty(a, r), price |-> r.price])
    ELSE a.lots[r.symbol]

RestoredLots(a, r) ==
  IF r.isOpen /\ r.quantity > 0 /\ QuantityAfter(a, r) > 0
    THEN Append(ClosedLots(a, r).batch,
                [ quantity |-> IF OpenQty(a, r) > 0 THEN OpenQty(a, r)
                               ELSE r.quantity,
                  price |-> r.price ])
    ELSE ClosedLots(a, r).batch

RestoreOne(a, r) ==
  IF r.quantity = 0 THEN a
  ELSE [ a EXCEPT
           !.quantity[r.symbol] = QuantityAfter(a, r),
           !.avgPrice[r.symbol] = AvgPriceAfter(a, r),
           !.lots[r.symbol] = RestoredLots(a, r) ]

Restored(a, fills) ==
  FoldLeft(RestoreOne,
           [ a EXCEPT
               !.exists = TRUE, !.quantity = NoAccount.quantity, !.avgPrice = NoAccount.avgPrice,
               !.currentPrice = NoAccount.currentPrice, !.lots = NoAccount.lots ],
           fills)

\* An entry of the log as RestoreFromFills wants it: signed, and marked when it
\* opens a position.
SignedEntry(f) ==
  [ symbol |-> f.symbol, quantity |-> f.quantity, price |-> f.price,
    isOpen |-> IsOpenBuy(f) \/ IsShortSell(f) ]

SamePositions(a, b) ==
  a.quantity = b.quantity /\ a.avgPrice = b.avgPrice /\ a.lots = b.lots
=============================================================================

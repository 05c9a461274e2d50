-------------------------- MODULE LedgerRefinement --------------------------
(* The ledger, fed disciplined fills, implements the FIFO book. *)
EXTENDS Ledger

\* The shares of a batch of lots, one by one, each with its price.
SharesOfLot(lot) == [j \in 1..lot.quantity |-> lot.price]
SharesOf(batch) == FlattenSeq([i \in DOMAIN batch |-> SharesOfLot(batch[i])])

BookOf(a) ==
  [ net |-> a.cash - a.borrowedCash,
    realised |-> a.profit,
    owned |-> [s \in Symbols |-> SharesOf(a.lots[s])],
    short |-> [s \in Symbols |->
      [ units |-> a.borrowedShares[s],
        proceeds |-> a.borrowedShares[s] * a.avgPrice[s] ]] ]

BooksOf(table) == [st \in Strategies |-> BookOf(table[st])]

Book == INSTANCE FifoBook WITH
  Owners <- Strategies, Instruments <- Symbols,
  Sizes <- {Size(f) : f \in Fills}, TradePrices <- {f.price : f \in Fills},
  Fees <- {f.fees : f \in Fills},
  books <- BooksOf(accounts),
  saved <- IF file.state = "whole" THEN <<BooksOf(file.accounts)>> ELSE << >>,
  read <- {BooksOf(table) : table \in fetched}

\* However a position was financed, split into lots, averaged, saved and loaded
\* again, the strategy sees a first-in first-out book: the shares it sells are
\* the ones it bought first, its profit is what they earned over their cost.
ImplementsFifoBook == Book!Spec
=============================================================================

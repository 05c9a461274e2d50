------------------------------ MODULE FifoBook ------------------------------
(***************************************************************************)
(* What the ledger promises a strategy, without margin, lots, averages or  *)
(* files: a queue of owned shares, each with the price it was bought at,   *)
(* sold from the front; shares sold short and what they brought in; the    *)
(* strategy's own money net of what it owes; the profit realised.          *)
(***************************************************************************)
EXTENDS Integers, Sequences, Functions

CONSTANTS Owners, Instruments, Sizes, TradePrices, Fees

VARIABLES
  books,  \* the book of every owner
  saved,  \* the sequence of the last checkpoint, empty if there is none
  read    \* the checkpoints read, any of which may be restored

NoBook ==
  [ net |-> 0, realised |-> 0,
    owned |-> [s \in Instruments |-> << >>],
    short |-> [s \in Instruments |-> [units |-> 0, proceeds |-> 0]] ]

NoBooks == [o \in Owners |-> NoBook]

Init == books = NoBooks /\ saved = << >> /\ read = {}

\* Money moves in or out of the book, or its level is set.
Fund(o) ==
  /\ books' = [books EXCEPT ![o].net = books'[o].net]
  /\ UNCHANGED <<saved, read>>

Buy(o, s, n, price, fee) ==
  /\ books[o].short[s].units = 0
  /\ books' = [books EXCEPT
       ![o].net = @ - n * price - fee,
       ![o].owned[s] = @ \o [i \in 1..n |-> price]]
  /\ UNCHANGED <<saved, read>>

\* The shares bought first are the ones sold.
Sell(o, s, n, price, fee) ==
  /\ n <= Len(books[o].owned[s])
  /\ books' = [books EXCEPT
       ![o].net = @ + n * price - fee,
       ![o].owned[s] = SubSeq(@, n + 1, Len(@)),
       ![o].realised =
         @ + n * price - fee - SumFunction(SubSeq(books[o].owned[s], 1, n))]
  /\ UNCHANGED <<saved, read>>

\* What units sold short brought in, at a whole price for each of them.
AtWholePrice(proceeds, units) == units * (proceeds \div units)

ShortSell(o, s, n, price, fee) ==
  LET short == books[o].short[s]
      units == short.units + n
  IN  /\ books[o].owned[s] = << >>
      /\ books' = [books EXCEPT
           ![o].net = @ + n * price - fee,
           ![o].short[s] =
             [ units |-> units,
               proceeds |-> AtWholePrice(short.proceeds + n * price, units) ]]
      /\ UNCHANGED <<saved, read>>

\* Covering n units gives back their share of the proceeds.
Cover(o, s, n, price, fee) ==
  LET short == books[o].short[s]
      part == (short.proceeds * n) \div short.units
  IN  /\ n <= short.units
      /\ books' = [books EXCEPT
           ![o].net = @ - n * price - fee,
           ![o].short[s] = [units |-> @.units - n, proceeds |-> @.proceeds - part],
           ![o].realised = @ + part - n * price - fee]
      /\ UNCHANGED <<saved, read>>

Checkpoint == saved' = <<books>> /\ UNCHANGED <<books, read>>

\* All books are lost, and possibly the checkpoint and what was read of it.
Lose == books' = NoBooks /\ saved' \in {saved, << >>} /\ read' \in {read, {}}

Read ==
  /\ saved # << >>
  /\ read' = read \cup {saved[1]}
  /\ UNCHANGED <<books, saved>>

Restore == books' \in read /\ UNCHANGED <<saved, read>>

Next ==
  \/ \E o \in Owners :
       \/ Fund(o)
       \/ \E s \in Instruments, n \in Sizes, price \in TradePrices, fee \in Fees :
            \/ Buy(o, s, n, price, fee)
            \/ Sell(o, s, n, price, fee)
            \/ ShortSell(o, s, n, price, fee)
            \/ Cover(o, s, n, price, fee)
  \/ Checkpoint \/ Lose \/ Read \/ Restore

Spec == Init /\ [][Next]_<<books, saved, read>>
=============================================================================

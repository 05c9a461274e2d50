------------------------------- MODULE Ledger -------------------------------
(***************************************************************************)
(* The unified ledger (LedgerStore.cpp, LedgerStore.h): one account per    *)
(* strategy, written by fills, by cash adjustments and by the allocation   *)
(* of capital, saved to a file and loaded from it.  Every writer runs      *)
(* under the store's mutex, so an operation is one action; only Load reads *)
(* and parses the file without it and takes it for the swap.  initLedger   *)
(* loads at the start; ReloadLedger, of a server in test mode, whenever a  *)
(* client sends reload_ledger, on a thread of the HTTP server.             *)
(*                                                                         *)
(* Spec books any fill a caller may pass; DisciplinedSpec only fills whose *)
(* kind fits the position, the contract ApplyFill states for its four      *)
(* branches (buy to open long, sell a long, sell short, cover a short).    *)
(***************************************************************************)
EXTENDS LedgerAccount

CONSTANTS
  Strategies,    \* the names under which accounts exist
  Fills,         \* the fills the callers may report
  Allocations,   \* the amounts Allocate is called with
  CashDeltas,    \* the adjustments UpdateAvailable is called with
  MarketPrices,  \* the prices UpdatePrice is called with
  MaxBooked      \* bound of the model: amounts booked in a behaviour

Fill ==
  [ symbol : Symbols, quantity : Int, price : Nat, fees : Nat, ratio : Int,
    shortSell : BOOLEAN, shortCover : BOOLEAN ]

ASSUME FillsAssumption ==
  /\ Fills \subseteq Fill
  /\ Allocations \subseteq Nat
  /\ CashDeltas \subseteq Int
  /\ MarketPrices \subseteq Nat
  /\ MaxBooked \in Nat

VARIABLES
  accounts,  \* _accounts: the account of every strategy, NoAccount if none
  file,      \* the ledger file: absent, torn by a crash, or a whole snapshot
  fetched,   \* the tables that loads parsed and may still swap in
  booked     \* how many amounts were booked (bounds the model only)

vars == <<accounts, file, fetched, booked>>

Empty == [st \in Strategies |-> NoAccount]
NoFile == [state |-> "absent", accounts |-> Empty]
TornFile == [state |-> "torn", accounts |-> Empty]

Init ==
  /\ accounts = Empty
  /\ file = NoFile
  /\ fetched = {}
  /\ booked = 0

Count == booked < MaxBooked /\ booked' = booked + 1

-----------------------------------------------------------------------------

Allocate(st, amount) ==
  /\ accounts' = [accounts EXCEPT ![st] = Allocated(@, amount)]
  /\ UNCHANGED <<file, fetched, booked>>

Reclaim(st) ==
  /\ accounts[st].exists
  /\ accounts' = [accounts EXCEPT ![st] = Deactivated(@)]
  /\ UNCHANGED <<file, fetched, booked>>

ReclaimAll ==
  /\ accounts' = Empty
  /\ UNCHANGED <<file, fetched, booked>>

UpdateAvailable(st, delta) ==
  /\ Count
  /\ accounts' = [accounts EXCEPT ![st] = CashAdjusted(@, delta)]
  /\ UNCHANGED <<file, fetched>>

UpdatePrice(st, s, price) ==
  /\ price > 0
  /\ accounts' = [accounts EXCEPT ![st] = Marked(@, s, price)]
  /\ UNCHANGED <<file, fetched, booked>>

ApplyFill(st, f) ==
  /\ Bookable(f)
  /\ Count
  /\ accounts' = [accounts EXCEPT ![st] = AccountAfter(@, f)]
  /\ UNCHANGED <<file, fetched>>

-----------------------------------------------------------------------------
(* The file.  Save truncates and writes it in place. *)

Save ==
  /\ file' = [state |-> "whole", accounts |-> accounts]
  /\ UNCHANGED <<accounts, fetched, booked>>

\* The process dies; if it was writing the file, the file is left torn.
Crash ==
  /\ accounts' = Empty
  /\ file' \in {file, TornFile}
  /\ fetched' = {}
  /\ UNCHANGED booked

\* Load parses the file into a table of its own, without the mutex: an absent or
\* an unreadable file ends it here.
Fetch ==
  /\ file.state = "whole"
  /\ fetched' = fetched \cup {file.accounts}
  /\ UNCHANGED <<accounts, file, booked>>

\* Some thread takes the mutex and swaps in what it parsed, however much was
\* booked or saved since.  Any number of loads may be between the two steps, so
\* a table is not used up.
Swap ==
  /\ \E table \in fetched : accounts' = table
  /\ UNCHANGED <<file, fetched, booked>>

-----------------------------------------------------------------------------

Other ==
  \/ \E st \in Strategies :
       \/ \E amount \in Allocations : Allocate(st, amount)
       \/ \E delta \in CashDeltas : UpdateAvailable(st, delta)
       \/ \E s \in Symbols, price \in MarketPrices : UpdatePrice(st, s, price)
       \/ Reclaim(st)
  \/ ReclaimAll \/ Save \/ Crash \/ Fetch \/ Swap

Next == Other \/ \E st \in Strategies, f \in Fills : ApplyFill(st, f)

DisciplinedFill(st, f) == Fits(accounts[st], f) /\ ApplyFill(st, f)

DisciplinedNext ==
  Other \/ \E st \in Strategies, f \in Fills : DisciplinedFill(st, f)

Spec == Init /\ [][Next]_vars
DisciplinedSpec == Init /\ [][DisciplinedNext]_vars

-----------------------------------------------------------------------------
(* Properties. *)

\* Amounts and quantities stay in their types; in particular no debt, no
\* financed principal and no number of borrowed shares is ever negative.
TypeOK ==
  /\ accounts \in [Strategies -> Account]
  /\ file.state \in {"absent", "torn", "whole"}
  /\ file.accounts \in [Strategies -> Account]
  /\ fetched \subseteq [Strategies -> Account]
  /\ booked \in 0..MaxBooked

\* Memory, file and the tables under way hold accounts of which P is true.
EveryAccount(P(_)) ==
  \A st \in Strategies, table \in {accounts, file.accounts} \cup fetched :
    P(table[st])

\* The money owed is the sum of what was financed symbol by symbol, whatever
\* the order of financed buys, partial sells, flips and reloads: a repayment
\* never takes from one without the other.
DebtIsFinanced(a) == a.borrowedCash = SumFunction(a.financedAmount)
FinancedIsBorrowed == EveryAccount(DebtIsFinanced)

LotTotal(batch) == SumFunction([i \in DOMAIN batch |-> batch[i].quantity])

\* Whatever is reported, the lots never hold more than the long position: a
\* sell can not leave lots behind, a short position has none.
LotsWithinLong(a) ==
  \A s \in Symbols : LotTotal(a.lots[s]) <= Most(a.quantity[s], 0)
LotsNeverExceedLong == EveryAccount(LotsWithinLong)

\* At the price of the fill, a fill changes what the account is worth by its
\* fees and nothing else: margin, repayment, borrowed shares, partial closes
\* and flips move value, they never make or lose any.
WorthAt(a, f) == a.cash - a.borrowedCash + a.quantity[f.symbol] * f.price

FillConservesValue ==
  [][\A st \in Strategies, f \in Fills :
       ApplyFill(st, f) =>
         WorthAt(accounts'[st], f) = WorthAt(accounts[st], f) - f.fees]_vars

\* Restoring a fill from a log does to positions, average prices and lots what
\* booking it did, whatever the account has been through: adds, partial sales and
\* flips in both directions.  Fill by fill, a log rebuilds the positions.
RestoringAgrees ==
  [][\A st \in Strategies, f \in Fills :
       ApplyFill(st, f) =>
         SamePositions(RestoreOne(accounts[st], SignedEntry(f)), accounts'[st])]_vars

\* Under disciplined fills the shares owed are exactly the short position.
ShortOnLoan(a) ==
  \A s \in Symbols : a.borrowedShares[s] = Most(-a.quantity[s], 0)
BorrowedSharesAreShort == EveryAccount(ShortOnLoan)

\* Under disciplined fills nothing stays financed on a symbol once its long
\* position is sold: closing a position settles its principal in full.
SettledWhenFlat(a) ==
  \A s \in Symbols : a.financedAmount[s] > 0 => a.quantity[s] > 0
FinancedOnlyWhileLong == EveryAccount(SettledWhenFlat)

\* Own money plus what the open positions cost: lots of the long ones, less
\* what the short ones brought in.
LotCost(batch) ==
  SumFunction([i \in DOMAIN batch |-> batch[i].quantity * batch[i].price])

PositionCost(a, s) ==
  LotCost(a.lots[s]) - Most(-a.quantity[s], 0) * a.avgPrice[s]

BookValue(a) ==
  a.cash - a.borrowedCash + SumFunction([s \in Symbols |-> PositionCost(a, s)])

\* What is lost when a short sale rounds the average price down to a whole
\* number, which the doubles of the code do not.
RoundedOff(a, f) ==
  LET units == Most(-a.quantity[f.symbol], 0)
  IN  IF IsShortSell(f)
        THEN (units * a.avgPrice[f.symbol] + Gross(f)) % (units + Size(f))
        ELSE 0

\* A disciplined fill changes the book value by the profit it realises; one
\* that opens a position by its fees, which the profit never shows.
ProfitIsBookGain ==
  [][\A st \in Strategies, f \in Fills :
       DisciplinedFill(st, f) =>
         BookValue(accounts'[st]) - BookValue(accounts[st]) =
           accounts'[st].profit - accounts[st].profit
           - (IF IsOpenBuy(f) \/ IsShortSell(f) THEN f.fees ELSE 0)
           + RoundedOff(accounts[st], f)]_vars
=============================================================================

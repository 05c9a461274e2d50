------------------------------ MODULE Backtest ------------------------------
(***************************************************************************)
(* Backtests: worker threads that replay bars through one simulated        *)
(* exchange (src/service/src/Bridge/SIM/HistorySimulationBase.cpp), each   *)
(* with a context of its own (BacktestContext.cpp) and with orders typed   *)
(* by src/service/src/MarketTiming/ImmediateTiming.cpp.  The contexts      *)
(* share the loaded bars, the filter by which they are reloaded, and the   *)
(* query of positions, which does not say of whom.                         *)
(*                                                                         *)
(* A step of a worker is what it does between two accesses to what others  *)
(* read: of the creation of a context, each look at the loaded bars; of    *)
(* its life, moving the clock, an event, a matched order, a signal.  Only  *)
(* Login and the moving of the clock lock the bars.  A bar is its time;    *)
(* the day of a time is its quotient by DayLength.  Left out: slippage,    *)
(* the friction cost that is only reported, snapshots and metrics, the     *)
(* range of dates of a reload, what the unlocked readers of a container    *)
(* may see halfway through a change of it beyond finding it empty, and the *)
(* exchanges of funds and options.                                         *)
(***************************************************************************)
EXTENDS BacktestAccount, Sequences, Functions

CONSTANTS
  Contexts,     \* the strategies; each has one backtest at a time
  Universe,     \* the symbols of each
  Traded,       \* those it gives signals for; it only reads the others
  Series,       \* the times of the bars of each symbol
  DayLength,
  Events,       \* the events of each symbol
  Capital,      \* the cash a strategy is registered with
  Registered,   \* the strategies that have an account in the ledger from the start
  Forced,       \* those whose backtests are created with forceReload or dates
  AllowShort,   \* those that may sell short
  MarginRatio,  \* _initialMarginRatio of each, Unit for paying in full
  Quantities,   \* the quantities its signals ask for
  MaxSignals,   \* bound of the model: signals of one backtest of each
  MaxRuns       \* bound of the model: backtests of each

\* BuildOHLCVDataFromMap merges bars of one time and sorts them, and
\* getDividendEvents asks for events in the order of their days; day 0 is 1970.
ASSUME BacktestAssumption ==
  /\ Universe \in [Contexts -> (SUBSET Symbols) \ {{}}]
  /\ Traded \in [Contexts -> SUBSET Symbols]
  /\ DayLength \in Nat \ {0}
  /\ Series \in [Symbols -> Seq(Nat)]
  /\ \A s \in Symbols : \A i \in DOMAIN Series[s] : Series[s][i] >= DayLength
  /\ \A s \in Symbols : \A i, j \in DOMAIN Series[s] :
       i < j => Series[s][i] < Series[s][j]
  /\ Events \in [Symbols -> Seq([day : Nat \ {0}, bonus : Nat, cash : Nat])]
  /\ \A s \in Symbols : \A i, j \in DOMAIN Events[s] :
       i < j => Events[s][i].day <= Events[s][j].day
  /\ Capital \in Nat
  /\ Registered \subseteq Contexts /\ Forced \subseteq Contexts
  /\ AllowShort \subseteq Contexts
  /\ MarginRatio \in [Contexts -> 0..Unit]
  /\ Quantities \in [Contexts -> SUBSET (Nat \ {0})]
  /\ MaxSignals \in [Contexts -> Nat] /\ MaxRuns \in [Contexts -> Nat]

VARIABLES
  loaded,     \* the symbols _csvs has bars of
  filter,     \* _filter: the symbols the next Login is going to load
  phase,      \* where the worker of a strategy is
  runs,       \* how many backtests there have been
  common,     \* maxStartTime, the latest of the first bars
  index,      \* _curIndices: the next bar of each symbol
  shown,      \* _quotes: the bar each symbol's quote is of, 0 for none
  lastDay,    \* _lastTradeDay
  more,       \* what stepForward is going to return
  queue,      \* _orderQueues
  account,    \* the positions and credit of a context, the cash of its strategy
  registered, \* the strategies with an account in the ledger
  reserved,   \* those whose context made the account: _capitalReserved
  nextEvent,  \* _nextEventIdx
  signals,    \* how many signals there have been
  \* History variables, which no action reads.
  clock,      \* the time of the last bar a context's clock moved to
  bought,     \* the shares bought long since the day of the clock began
  opening,    \* the cash a backtest began with
  charged,    \* the fees of a context
  received,   \* the worth of what events handed out to it
  apart,      \* the contexts that had a quote of another day than the clock's
  disturbed   \* those that were about when another one was

market == <<loaded, filter, common, index, shown, lastDay, more, clock, apart>>
books == <<account, registered, reserved, nextEvent, opening, charged, received, bought>>
vars == <<market, books, phase, runs, queue, signals, disturbed>>

Each(value) == [c \in Contexts |-> value]
PerSymbol(value) == Each([s \in Symbols |-> value])

Init ==
  /\ loaded = {} /\ filter = {}
  /\ phase = Each("none") /\ runs = Each(0)
  /\ common = Each(0) /\ index = PerSymbol(1) /\ shown = PerSymbol(0)
  /\ lastDay = Each(0) /\ more = Each(FALSE)
  /\ queue = PerSymbol(<< >>)
  /\ opening = [c \in Contexts |-> IF c \in Registered THEN Capital * Unit ELSE 0]
  /\ account = [c \in Contexts |-> Opened(opening[c])]
  /\ registered = Registered /\ reserved = {}
  /\ nextEvent = PerSymbol(1) /\ signals = Each(0)
  /\ clock = Each(0) /\ bought = PerSymbol(0)
  /\ charged = Each(0) /\ received = Each(0)
  /\ apart = {} /\ disturbed = {}

\* The backtests that are about, and those whose context others can find.
About == {c \in Contexts : phase[c] # "none"}
Alive == {c \in Contexts : phase[c] \in {"graph", "step"}}

Day(time) == time \div DayLength
TimeShown(c, s) == Series[s][shown[c][s]]
Quoted(c) == {s \in Universe[c] : shown[c][s] # 0}

\* The symbol that comes first in a set ordered by symbol_t.
First(S) == CHOOSE s \in S : \A r \in S : s <= r

-----------------------------------------------------------------------------
(* createBacktestContext and destroyBacktestContext. *)

\* Mutant: the data are there once any backtest has loaded some.
ReloadFirstOnly(c) == loaded = {} \/ c \in Forced

NeedsReload(c) == ~(Universe[c] \subseteq loaded) \/ c \in Forced

\* Whether to reload is decided without a lock.
Decide(c) ==
  /\ phase[c] = "none" /\ runs[c] < MaxRuns[c]
  /\ runs' = [runs EXCEPT ![c] = @ + 1]
  /\ phase' = [phase EXCEPT ![c] = IF NeedsReload(c) THEN "filter" ELSE "register"]
  /\ disturbed' = IF About = {} THEN disturbed \ {c} ELSE disturbed \cup About \cup {c}
  /\ UNCHANGED <<market, books, queue, signals>>

SetFilter(c) ==
  /\ phase[c] = "filter"
  /\ filter' = Universe[c]
  /\ phase' = [phase EXCEPT ![c] = "load"]
  /\ UNCHANGED <<loaded, common, index, shown, lastDay, more, clock, apart,
                 books, runs, queue, signals, disturbed>>

\* Login holds _dataMutex while it clears all bars and loads those of the filter.
Locked == \E c \in Contexts : phase[c] = "loading"

Clear(c) ==
  /\ phase[c] = "load" /\ ~Locked
  /\ loaded' = {}
  /\ phase' = [phase EXCEPT ![c] = "loading"]
  /\ UNCHANGED <<filter, common, index, shown, lastDay, more, clock, apart,
                 books, runs, queue, signals, disturbed>>

Load(c) ==
  /\ phase[c] = "loading"
  /\ loaded' = {s \in filter : Series[s] # << >>}
  /\ phase' = [phase EXCEPT ![c] = "register"]
  /\ UNCHANGED <<filter, common, index, shown, lastDay, more, clock, apart,
                 books, runs, queue, signals, disturbed>>

\* A strategy that has an account keeps the cash it has there.
Register(c) ==
  /\ phase[c] = "register"
  /\ IF c \in registered THEN UNCHANGED <<account, registered, reserved>>
     ELSE /\ account' = [account EXCEPT ![c].cash = Capital * Unit]
          /\ registered' = registered \cup {c}
          /\ reserved' = reserved \cup {c}
  /\ opening' = [opening EXCEPT ![c] = account'[c].cash]
  /\ phase' = [phase EXCEPT ![c] = "start"]
  /\ UNCHANGED <<market, nextEvent, charged, received, bought, runs, queue,
                 signals, disturbed>>

Present(c) == Universe[c] \cap loaded

\* The latest of the first bars.
CommonStart(c) ==
  LET start == {Series[s][1] : s \in Present(c)} IN
  IF start = {} THEN 0 ELSE CHOOSE t \in start : \A u \in start : u <= t

FindStart(c) ==
  /\ phase[c] = "start"
  /\ common' = [common EXCEPT ![c] = CommonStart(c)]
  /\ phase' = [phase EXCEPT ![c] = "index"]
  /\ UNCHANGED <<loaded, filter, index, shown, lastDay, more, clock, apart,
                 books, runs, queue, signals, disturbed>>

\* The first bar of s from the common start on; the first one of all if there
\* is none.
StartIndex(c, s) ==
  LET late == {i \in DOMAIN Series[s] : Series[s][i] >= common[c]} IN
  IF late = {} THEN 1 ELSE First(late)

\* The context can be found from now on.
SetIndices(c) ==
  /\ phase[c] = "index"
  /\ index' = [index EXCEPT ![c] = [s \in Symbols |->
                 IF s \in Present(c) THEN StartIndex(c, s) ELSE 1]]
  /\ phase' = [phase EXCEPT ![c] = "graph"]
  /\ UNCHANGED <<loaded, filter, common, shown, lastDay, more, clock, apart,
                 books, runs, queue, signals, disturbed>>

\* The context goes, with positions, credit and orders.  The account that it
\* made is no longer active, but stays, with its cash.
End(c) ==
  LET nothing == [s \in Symbols |-> 0] IN
  /\ phase' = [phase EXCEPT ![c] = "none"]
  /\ common' = [common EXCEPT ![c] = 0]
  /\ index' = [index EXCEPT ![c] = [s \in Symbols |-> 1]]
  /\ shown' = [shown EXCEPT ![c] = nothing]
  /\ lastDay' = [lastDay EXCEPT ![c] = 0]
  /\ more' = [more EXCEPT ![c] = FALSE]
  /\ queue' = [queue EXCEPT ![c] = [s \in Symbols |-> << >>]]
  /\ account' = [account EXCEPT ![c] = Opened(@.cash)]
  /\ reserved' = reserved \ {c}
  /\ nextEvent' = [nextEvent EXCEPT ![c] = [s \in Symbols |-> 1]]
  /\ signals' = [signals EXCEPT ![c] = 0]
  /\ clock' = [clock EXCEPT ![c] = 0] /\ bought' = [bought EXCEPT ![c] = nothing]
  /\ opening' = [opening EXCEPT ![c] = account[c].cash]
  /\ charged' = [charged EXCEPT ![c] = 0] /\ received' = [received EXCEPT ![c] = 0]
  /\ apart' = apart \ {c}
  /\ UNCHANGED <<loaded, filter, registered, runs, disturbed>>

-----------------------------------------------------------------------------
(* stepForward. *)

Exhausted(c) == \E s \in Present(c) : index[c][s] > Len(Series[s])

\* The symbols whose bar is the earliest; only they move on.
Due(c) ==
  {s \in Present(c) : \A r \in Present(c) :
     Series[s][index[c][s]] <= Series[r][index[c][r]]}

\* Mutant: the day changes with every bar.
AnyBar(c, day) == lastDay[c] # 0

\* The symbols are asked in order, and each compares with the one before.
DayChanges(c, day) ==
  \E s \in DOMAIN day :
    LET before == {r \in DOMAIN day : r < s}
        last == IF before = {} THEN lastDay[c]
                ELSE day[CHOOSE r \in before : \A u \in before : u <= r] IN
    last # 0 /\ last # day[s]

Exhaust(c) ==
  /\ phase[c] = "graph" /\ ~Locked
  /\ Exhausted(c)
  /\ End(c)

\* The quotes of all symbols are set, also of those that stay behind.
Advance(c) ==
  /\ phase[c] = "graph" /\ ~Locked
  /\ ~Exhausted(c)
  /\ shown' = [shown EXCEPT ![c] = [s \in Symbols |->
                 IF s \in Present(c) THEN index[c][s] ELSE @[s]]]
  /\ index' = [index EXCEPT ![c] = [s \in Symbols |->
                 IF s \in Due(c) THEN @[s] + 1 ELSE @[s]]]
  /\ more' = [more EXCEPT ![c] = Due(c) # {}]
  /\ clock' = [clock EXCEPT ![c] =
       IF Due(c) = {} THEN @ ELSE LET s == First(Due(c)) IN Series[s][index[c][s]]]
  /\ LET quoted == Quoted(c)'
         day == [s \in quoted |-> Day(TimeShown(c, s)')] IN
     /\ account' = [account EXCEPT ![c] = IF DayChanges(c, day) THEN NextDay(@) ELSE @]
     /\ lastDay' = [lastDay EXCEPT ![c] =
          IF quoted = {} THEN @ ELSE day[CHOOSE s \in quoted : \A r \in quoted : r <= s]]
     /\ apart' = IF \A s \in quoted : day[s] = Day(clock'[c]) THEN apart ELSE apart \cup {c}
  /\ bought' = IF Day(clock'[c]) = Day(clock[c]) THEN bought
               ELSE [bought EXCEPT ![c] = [s \in Symbols |-> 0]]
  /\ phase' = [phase EXCEPT ![c] = "step"]
  /\ UNCHANGED <<loaded, filter, common, queue, registered, reserved, nextEvent,
                 signals, opening, charged, received, runs, disturbed>>

\* Mutant: an event is applied on the day after its own.
PendingLate(c) ==
  {s \in Symbols : /\ s \in Universe[c] /\ Quoted(c) # {}
                   /\ nextEvent[c][s] <= Len(Events[s])
                   /\ Events[s][nextEvent[c][s]].day < Day(TimeShown(c, First(Quoted(c))))}

\* The symbols with an event at or before the day of the first symbol's quote.
Pending(c) ==
  {s \in Symbols : /\ s \in Universe[c] /\ Quoted(c) # {}
                   /\ nextEvent[c][s] <= Len(Events[s])
                   /\ Events[s][nextEvent[c][s]].day <= Day(TimeShown(c, First(Quoted(c))))}

\* processPositionEvents, one event.
ApplyEvent(c) ==
  /\ phase[c] = "step" /\ Pending(c) # {}
  /\ LET s == First(Pending(c))
         event == Events[s][nextEvent[c][s]]
         q == account[c].quantity[s] IN
     /\ account' = [account EXCEPT ![c] = AfterEvent(@, s, event)]
     /\ received' = [received EXCEPT ![c] =
          @ + Bonus(q, event) * Price[s] * Unit + CashDividend(q, event)]
     /\ nextEvent' = [nextEvent EXCEPT ![c][s] = @ + 1]
  /\ UNCHANGED <<market, registered, reserved, opening, charged, bought, phase,
                 runs, queue, signals, disturbed>>

Waiting(c) == {s \in Quoted(c) : queue[c][s] # << >>}

\* OrderReport: the type of the order, or one inferred from the position.
Credit(c, s, order) ==
  LET q == account[c].quantity[s] IN
  CASE order.credit # "None" -> order.credit
    [] order.credit = "None" /\ order.side = "sell" ->
         IF q <= 0 /\ c \in AllowShort THEN "ShortSell" ELSE "None"
    [] order.credit = "None" /\ order.side = "buy" /\ q < 0 -> "ShortCover"
    [] OTHER -> IF MarginRatio[c] < Unit THEN "MarginBuy" ELSE "None"

\* matchOrders, one order of the first symbol that has some.
Match(c) ==
  /\ phase[c] = "step" /\ Pending(c) = {} /\ Waiting(c) # {}
  /\ LET s == First(Waiting(c))
         order == Head(queue[c][s])
         credit == Credit(c, s, order)
         filled == Filled(account[c], s, order.side, order.volume, credit = "ShortSell") IN
     /\ queue' = [queue EXCEPT ![c][s] = Tail(@)]
     /\ account' = [account EXCEPT ![c] = AfterFill(@, s, filled, credit, MarginRatio[c])]
     /\ charged' = [charged EXCEPT ![c] = @ + Fees(filled, s)]
     /\ bought' = [bought EXCEPT ![c][s] =
          @ + IF filled > 0 THEN BoughtLong(account[c].quantity[s], filled) ELSE 0]
  /\ UNCHANGED <<market, registered, reserved, opening, nextEvent, received,
                 phase, runs, signals, disturbed>>

\* stepForward returns: the graph is run, or the backtest is over.
Return(c) ==
  /\ phase[c] = "step" /\ Pending(c) = {} /\ Waiting(c) = {}
  /\ IF more[c]
     THEN /\ phase' = [phase EXCEPT ![c] = "graph"]
          /\ UNCHANGED <<market, books, runs, queue, signals, disturbed>>
     ELSE End(c)

-----------------------------------------------------------------------------
(* The strategy's graph: ImmediateTiming::processSignal and AddOrder.  A       *)
(* context that has just been created has no quotes and no signals.            *)

\* The type of an order, by the position the exchange tells of.
OrderType(c, side, position) ==
  CASE side = "buy" /\ position < 0 -> "ShortCover"
    [] side = "buy" /\ position >= 0 -> IF MarginRatio[c] < Unit THEN "MarginBuy" ELSE "None"
    [] side = "sell" -> IF position <= 0 /\ c \in AllowShort THEN "ShortSell" ELSE "None"

\* GetPositionQuantity keeps the position of the context visited last, of
\* whatever backtest.
Signal(c, s, side, volume) ==
  /\ phase[c] = "graph" /\ signals[c] < MaxSignals[c]
  /\ s \in Quoted(c) \cap Traded[c]
  /\ \E d \in Alive :
       queue' = [queue EXCEPT ![c][s] = Append(@,
         [side |-> side, volume |-> volume,
          credit |-> OrderType(c, side, account[d].quantity[s])])]
  /\ signals' = [signals EXCEPT ![c] = @ + 1]
  /\ UNCHANGED <<market, books, phase, runs, disturbed>>

\* The graph fails, or Stop has reset _running.
Abandon(c) ==
  /\ phase[c] = "graph"
  /\ End(c)

-----------------------------------------------------------------------------
Create(c) ==
  \/ Decide(c) \/ SetFilter(c) \/ Clear(c) \/ Load(c) \/ Register(c)
  \/ FindStart(c) \/ SetIndices(c)

Work(c) ==
  \/ Exhaust(c) \/ Advance(c) \/ ApplyEvent(c) \/ Match(c) \/ Return(c)

\* All backtests are over.
Over ==
  /\ \A c \in Contexts : phase[c] = "none" /\ runs[c] = MaxRuns[c]
  /\ UNCHANGED vars

Next ==
  \/ \E c \in Contexts :
       \/ Create(c) \/ Work(c) \/ Abandon(c)
       \/ \E s \in Symbols, side \in {"buy", "sell"}, volume \in Quantities[c] :
            Signal(c, s, side, volume)
  \/ Over

Spec == Init /\ [][Next]_vars

-----------------------------------------------------------------------------
(* Properties. *)

Order ==
  [ side : {"buy", "sell"}, volume : Nat \ {0},
    credit : {"None", "MarginBuy", "ShortSell", "ShortCover"} ]

Phases ==
  {"none", "filter", "load", "loading", "register", "start", "index", "graph", "step"}

\* Types of all variables.
TypeOK ==
  /\ loaded \subseteq {s \in Symbols : Series[s] # << >>} /\ filter \subseteq Symbols
  /\ phase \in [Contexts -> Phases] /\ runs \in [Contexts -> Nat]
  /\ common \in [Contexts -> Nat]
  /\ index \in [Contexts -> [Symbols -> Nat \ {0}]]
  /\ shown \in [Contexts -> [Symbols -> Nat]]
  /\ lastDay \in [Contexts -> Nat] /\ more \in [Contexts -> BOOLEAN]
  /\ queue \in [Contexts -> [Symbols -> Seq(Order)]]
  /\ account \in [Contexts -> Account]
  /\ registered \subseteq Contexts /\ reserved \subseteq registered
  /\ nextEvent \in [Contexts -> [Symbols -> Nat \ {0}]]
  /\ signals \in [Contexts -> Nat]
  /\ clock \in [Contexts -> Nat]
  /\ bought \in [Contexts -> [Symbols -> Nat]]
  /\ opening \in [Contexts -> Int]
  /\ charged \in [Contexts -> Nat] /\ received \in [Contexts -> Nat]
  /\ apart \subseteq Contexts /\ disturbed \subseteq Contexts

\* The rule T+1 as the code counts: what was bought long since its last change
\* of day is still held, however orders, covers and events follow each other
\* (StockPositionManager::Sell, Buy and ApplyEvent).
TodayIsHeld ==
  \A c \in Contexts, s \in Symbols :
    account[c].today[s] > 0 => account[c].quantity[s] >= account[c].today[s]

\* The rule T+1 as it is meant: nothing bought on a day of the clock is sold
\* on that day, whatever symbols others load or take away meanwhile.  It needs
\* the change of day to be seen when the day changes, and only then.  It is not
\* true once the quotes of a backtest are of different days: the code then sees
\* a change of day with every bar.
BoughtIsKeptOvernight ==
  \A c \in Contexts \ apart, s \in Symbols :
    bought[c][s] > 0 => account[c].quantity[s] >= bought[c][s]

\* What the positions of an account come to.
Value(quantity) == SumFunction([s \in Symbols |-> quantity[s] * Price[s] * Unit])

Worth(c) == account[c].cash + Value(account[c].quantity) - account[c].loan

\* What a backtest owns, less what it was lent, changes by fees and by what
\* events hand out: refused, cut and financed orders, short sales and covers
\* move cash and shares by the same fill (BacktestContext::adjustPosition).
BooksBalance ==
  \A c \in Contexts : Worth(c) = opening[c] - charged[c] + received[c]

\* A backtest that was alone from first to last and pays in full owes exactly
\* the shares it is short of, though orders are typed one bar before they fill.
BorrowedSharesAreShort ==
  \A c \in Contexts \ disturbed, s \in Symbols :
    MarginRatio[c] = Unit =>
      account[c].borrowed[s] = Most(0, -account[c].quantity[s])

\* Bars come in the order of their time and none is left out or comes twice: a
\* backtest that was alone has taken, of every symbol and whatever bars the
\* series leave out, exactly those from the start up to its clock, the data
\* being what some earlier backtest loaded or what it loaded itself.
BarsFollowClock ==
  \A c \in Alive \ disturbed : \A s \in Universe[c] : \A i \in DOMAIN Series[s] :
    i >= StartIndex(c, s) => (i < index[c][s] <=> Series[s][i] <= clock[c])

\* While the graph runs, the events up to the day of the clock have been applied
\* and no others, whoever reloads the bars.  The code asks the quote of the
\* first symbol for the day, so it is not true once quotes are of different days.
EventsInTime ==
  \A c \in Contexts \ apart : phase[c] = "graph" =>
    \A s \in Universe[c] : \A i \in DOMAIN Events[s] :
      i < nextEvent[c][s] <=> Events[s][i].day <= Day(clock[c])
=============================================================================

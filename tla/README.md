# QuasarX: models and proofs of the trading core

QuasarX is a quantitative trading service (C++, under `src/service`) with a desktop client
(`src/app`). This directory holds TLA+ models of the parts of the service that keep money,
orders and market subscriptions right, the TLC configurations that check them on small
instances, and TLAPS proofs about them for every value of their constants.

Paths below are relative to `src/service/src` unless they say otherwise.

1. [Inventory of the system](#1-inventory-of-the-system)
2. [Modules and how they follow the code](#2-modules-and-how-they-follow-the-code)
3. [Runs, bounds and what they show](#3-runs-bounds-and-what-they-show)
4. [Fairness](#4-fairness)
5. [Proofs](#5-proofs)
6. [Where code and comments disagree](#6-where-code-and-comments-disagree)
7. [What is not modelled](#7-what-is-not-modelled)
8. [Plan](#8-plan)
9. [Running the checks](#9-running-the-checks)

## 1. Inventory of the system

| Component | State it keeps | Operations | Talks to |
|---|---|---|---|
| Unified ledger, `Bridge/LedgerStore` | one account per strategy: cash, debt, positions, FIFO lots, borrowed shares, profit; one file | `Allocate`, `Reclaim`, `UpdateAvailable`, `UpdatePrice`, `ApplyFill`, `Save`, `Load`, `RestoreFromFills` | broker and bridges call it; one mutex |
| Broker, `BrokerSubSystem` | queue of order contexts, the broker thread's list, ledger, decision log | `AddOrderBySide`, `CancelOrder`, `run`, `RecordTrade`, `RecordManualFill`, `Mark...`, `initLedger`, `Release` | HTTP handlers and strategy threads call it; bridges set flags in its contexts and notify it |
| HX bridge, `Bridge/HX` | `_orders` (request id to context), callback thread, two rate limiters | `AddOrder`, `CancelOrder`, `OnOrderReport` | vendored broker SDK, broker |
| TickFlow bridge, `Bridge/TickFlow` | polled symbols, batch offset, error counts, pauses, paper positions | polling thread (`workerLoop`, `FetchQuotes`, `HandleApiError`), `AddSymbols`, `RemoveSymbols`, `SetFilter`, `Release`, `AddOrder` (fills at once) | HTTP quote service, exchange manager, ledger, daily pipeline |
| Exchange manager, `ExchangeManager` | reference counts of sessions and of symbols, subscription of each strategy | `StartExchange`, `StopExchange`, `SubscribeSymbols`, `UnsubscribeSymbols` | flow subsystem, daily pipeline, bridges |
| Flow subsystem, `AgentSubSystem` | per strategy: `_running`, worker, daily worker, node graph | `Start`, `Stop`, `StartDaily`, workers | exchange manager, server mode |
| Daily pipeline, `StrategySubSystem` | registered strategies, ready symbols, executed strategies, errors | `EnsureDailyReady`, `MarkSymbolReady`, `ExecuteDailyStrategy`, `Run`, `Stop` | timer, quote thread, flow subsystem, exchange manager |
| Order rate limit, `Bridge/OrderLimit` | one atomic time | `tryConsume` | HX bridge, any thread |
| Backtest, `Bridge/SIM/*` | the loaded bars, shared; per context a clock, quotes, order queues, T+1 positions, credit, cash, events applied | `createBacktestContext`, `stepForward` (clock, day change, events, `matchOrders`), `AddOrder`, `destroyBacktestContext` | flow subsystem's workers, timing, ledger (an account of its own) |
| Timing, `MarketTiming/*` | decisions, positions of a replay | signals to orders or decisions | nodes, broker, simulated exchange |
| Risk, `Risk/*`, `RiskSubSystem` | limits and states per strategy | drawdown, value at risk, stop loss | no caller in this commit |
| Data, databases, nodes, formulas, metrics, HTTP, client | | | see section 7 |

The hard behaviours of each, and what makes it correct:

* **Ledger.** Sequential, under one mutex, and intricate: four kinds of fill (buy to open, sell,
  sell short, cover), margin loans repaid in proportion, FIFO lots, flips through zero. Correct
  means that no value appears or vanishes, that debts, lots and borrowed shares follow the
  position, that the cost of what is sold is that of the oldest shares.
* **Durability.** A fill is booked in memory, marked in the decision log, and the ledger file is
  rewritten in place, in separate steps of several threads; a crash may come between any two and
  in the middle of the write. Correct means that an answered fill survives.
* **Orders.** Three threads share an order context: the caller, the bridge's callback and the
  broker thread, which deletes it. Correct means one owner, no write after deletion, one record
  of each finished order, and retirement although notifications may be lost.
* **Sessions and subscriptions.** Counts shared by strategies that come, go, fail and subscribe
  again; those of sessions are tested, set and erased around network calls without a lock. Correct means
  that nobody's session or quotes end early or stay for ever.
* **Flow subsystem.** Stop, restart, the worker's own end and its failures race. Correct means a
  running strategy has what it started, a stopped one has nothing left, and calls return.
* **Daily pipeline.** A timer, a quote thread, detached threads, workers and HTTP threads meet in
  four containers. Correct means every strategy is triggered once a day, never twice at a time,
  never after a stop, and that errors are reported.
* **Rate limit.** Lock-free; the bounds must hold when the exchange of the time fails.
* **Polling.** One thread asks for a few symbols at a time, at an offset into an ordered set that
  callers change; requests fail, errors are counted over pauses of two lengths, and the thread sleeps
  over an empty list with the callers' lock held. Correct means that no symbol is left out of a round
  or for ever, that a failing server is left alone, and that nobody waits for ever.
* **Backtest.** Several worker threads replay bars through one simulated exchange. They share its bars,
  which a new backtest may reload, and a query of positions that does not say of whom. Orders are typed
  when the signal comes and filled a bar later; symbols advance separately. Correct means that what was
  bought today is not sold today, that cash and shares move by the same fill, that what is owed follows
  the position, that bars and events come in the order of their times.

## 2. Modules and how they follow the code

```
LedgerAccount ── Ledger ── LedgerRefinement ──(implements)── FifoBook
      │                           └── MCLedger, LedgerProofs
      └── LedgerRebuild ── MCLedgerRebuild          SampleFills: the fills of the MC modules
FillJournal ── MCFillJournal, FillJournalProofs
BrokerOrders ── MCBrokerOrders ─┐
OrderLimit ──── MCOrderLimit   ─┴─ BrokerProofs
ExchangeManager ─┬─ FlowRuns ──── MCFlowRuns, ExchangeProofs
                 └─ DailyRuns ─── MCDailyRuns, DailyRunsProofs
TickFlowPoller ── TickFlowPollerProofs             (checked by its own name)
BacktestAccount ── Backtest ── MCBacktest, BacktestProofs
SumFacts: lemmas on sums and folds, for LedgerProofs and BacktestProofs
```

**LedgerAccount** has the arithmetic of one account as operators: `AccountAfter(a, f)` is
`ApplyFill` with all its branches, `ConsumeLots` is `consumeLots`, `Restored` is
`RestoreFromFills`. Amounts are integers of a unit fine enough for a run (the code uses doubles);
a margin ratio is a numerator over `MarginUnit`; a map without an entry is a function that is 0.
No operator is recursive in the sense of `RECURSIVE`: lots are folded.

**Ledger** has the accounts and the file, with an action for each method that writes an account and that
the service calls. Two public writers are left out: `SetAvailable` (`LedgerStore.cpp:140`), which only the
migration of the legacy pool file calls (`BrokerSubSystem.cpp:160`), and `AddProfit` (287), which nobody
calls. `Save` and a `Crash` that leaves the file torn are separate, and so are the two halves of `Load`:
`Fetch` parses the file without the mutex, `Swap` takes the mutex and replaces the table, however much was
booked or saved in between (`reload_ledger`, in test mode, on a thread of the HTTP server). `Spec` books any
fill a caller may pass; `DisciplinedSpec` only fills whose kind fits the position, the contract that
`ApplyFill`'s branches state.

**FifoBook** is the abstract specification: a strategy owns shares one by one, in the order they
were bought, each with its price; a sale takes the first ones; money is what it received less what
it paid. No lots, averages, principals or debts. `LedgerRefinement` maps a ledger account to such
a book (`BookOf`: every lot becomes that many shares, cash less debt is the money) and states that
the ledger implements `Book!Spec`, saves, crashes and loads included. What shares sold short brought
in is kept at a whole price for each (`AtWholePrice`), since the averages of the model are whole
numbers; where they divide evenly, as in the run, that is the exact amount.

**LedgerRebuild** books opening buys and sells, keeps them as `queryExecutedFills` returns them
and rebuilds, as `_rebuildLedgerFromOrderLog` does when there is no ledger file.

**FillJournal** reduces an account to the set of fills booked in it and keeps every step of making
it durable: `Book` (`RecordManualFill`, `RecordTrade`), `Mark` (`MarkDecisionExecuted`), `OpenFile`
and `WriteFile` (`Save`: truncate, write; the mutex is held), `Close` (`MarkDecisionClosed`),
`Crash` at any point, `Start` (`initLedger`).

**BrokerOrders** follows an order context through caller, bridge and broker thread. `Send` and
`Register` are the two halves of `HXExchange::AddOrder`, in the code's order; `Report` and `Finish`
the two halves of `OnOrderReport` (flag, then erase); `Awaken`, `TimeOut`, `Pop`, `Examine` are one
round of `BrokerSubSystem::run`, context by context; `Fill` is TickFlow's `AddOrder`, which fills
and reports inside the call; `Stop` and `Drain` are `Release`. `SendCancel` reads the contexts that
`CancelStockOrder` visits (`HXExchange.cpp:984`), up to the one it looks for: those the broker thread has
deleted by then are kept in the history variable `strays`.

**OrderLimit** is `tryConsume` in two steps, the read of clock and time and the compare-and-exchange
with its retry, for any threads, with a ghost window that may begin anywhere. Its specification is
`LimitSpec`, so that one module can hold the proofs about it and about `BrokerOrders`.

**ExchangeManager** has the subscriptions as operators on shared variables, with the code's oddities: a
second subscription replaces the set and leaks the counts of the first, a count is global while polling is
per exchange.

**FlowRuns** adds the threads of real-time strategies and the sessions they share: a control thread per
strategy whose `Start` begins with `Stop`, a worker that may fail, find no quotes, or see `_running` turn
false, and the shadow mode of the whole server that workers save and restore. Sessions have no lock in the
code, and each step that another thread may see is an action: `StartExchange` tests the count and counts up
or goes to log in, `LoginEnds` sets the count after the login, through a reference it got before;
`StopExchange` counts down, `Logout` ends the session, `Erase` removes the entry with whatever a login put
there meanwhile. `stale` has the logins whose reference points to an erased entry: their write may be
lost. `crossed` is a history variable: the exchanges that somebody logged in to while they were being closed.

**DailyRuns** adds the daily pipeline to the subscriptions. A step is what happens under `_dailyMtx` or
`_flowMtx`, the rest is interleaved: the timer subscribes after it released the lock; a triggered
run passes `ReleaseOld` (`joinDailyWorkerAsync`), `CheckRunning`, `CreateWorker` (with the second
look under the lock), `Open`, and then either `Report`, `Finish` or `GiveUp`, `ReportFailure`, the
two orders of the code. `Call`, `TakeHandle`, `Join`, `EndRun` / `EndFlowStop`, `Withdraw` are the
HTTP thread in `Run` and `Stop`. `disturbed` is a ghost: the strategies that were run or stopped
since they were enlisted. Sessions are left to `FlowRuns`: nothing in the daily pipeline reads them.

**TickFlowPoller** is the polling thread and those who call the bridge. A call (`AddSymbols`,
`RemoveSymbols`, `SetFilter`) is `CallBridge`, which waits, and `Apply`, which needs `_filterMtx`; the
manager's lock lets one call through at a time. An iteration of `workerLoop` is `Begin` (stop, pause),
`Wait` (the request window), `CheckList`, and then `Wake` after the sleep over an empty list or
`FetchQuotes`: `Send` takes a batch and moves the offset before the answer, `SendNothing` is its early
returns, `Answered` and `Failed` its outcomes, the latter with all of `HandleApiError`. `Release`,
`Stop` and `PauseEnds` come at any time. `asked`, `disturbed` and `inARow` are history variables.

**BacktestAccount** has the books of one backtest as operators: `Sold` and `BoughtLong` are the T+1
rules of `StockPositionManager`, `AfterFill` is `adjustPosition` with `applyCreditFill`, `AfterEvent`
an ex-dividend day. A symbol has one price: then the worth of an account moves by fees and dividends
only, and any other movement is an error of the books.

**Backtest** has the worker threads of backtests over shared bars (`loaded`). `createBacktestContext` is
seven steps, since others come in between: `Decide` looks whether the bars are there, `SetFilter` sets the
shared filter, `Clear` and `Load` are `Login`, which holds `_dataMutex` (`Locked`), `Register` makes or finds
the account, `FindStart` and `SetIndices` read the bars, without the lock, for the common start and for the
first bar of each symbol. From then on a context is either in its strategy's node graph or inside
`stepForward`: `Exhaust` and `Advance` are the start of it with clock, quotes and change of day; `ApplyEvent`
is one event, `Match` one order of `matchOrders`, `Return` the end of the step; `Signal` is
`ImmediateTiming::processSignal` and `AddOrder`, which types the order by the position of any backtest that
is about, as `GetPositionQuantity` does; `Abandon` is a graph that fails or a `Stop`. `End` destroys the
context; the account of its strategy stays in the ledger with its cash, no longer active, and the next
backtest of the strategy goes on with it. `clock`, `bought`, `opening`, `charged`, `received`, `apart` and
`disturbed` are history variables; `apart` names the contexts that had a quote of another day than the
clock's, `disturbed` those that met another one.

Operators with a comment that begins with "Mutant" are faults planted in copies of a definition;
each property has one under which TLC finds it violated (`mutants` in `PROJECT.json`).

## 3. Runs, bounds and what they show

| Run | Module, cfg | Shows | Bounds |
|---|---|---|---|
| `ledger` | MCLedger | disciplined fills, allocation, reclaim, marks, saves, crashes, loads: `FinancedIsBorrowed`, `LotsNeverExceedLong`, `BorrowedSharesAreShort`, `FinancedOnlyWhileLong`, `FillConservesValue`, `RestoringAgrees` (restoring a fill does to positions what booking it did), `ProfitIsBookGain`, `ImplementsFifoBook` | two symbols, 3 fills |
| `ledger_rebuild_log` | MCLedgerRebuild | **violated**: the decision log does not rebuild positions | 4 fills |
| `fill_journal` | MCFillJournal | `AnsweredFillsAreHeld`, `NoPhantomFill`, `QuietFileIsCurrent`, `EveryFillIsSettled` | two HTTP fills, two orders, 2 crashes |
| `broker_orders` | MCBrokerOrders | `OneOwner`, `RecordedOnRetirement`, `ReportsReachLiveContexts`, `EndedOrdersAreRetired` | an HX order, a TickFlow order, a cancellation, 3 reports |
| `broker_hx_fills` | MCBrokerOrders, MCBrokerHxFills | **violated**: a filled HX order is deleted unbooked | one order |
| `flow_runs` | MCFlowRuns | `RunningIsSubscribed`, `UnusedAreDropped`, `RunningKeepsOwnExchanges`, `StoppedIsLoggedOut`, `CallsReturn` | two strategies, one exchange and symbol shared, one of each not |
| `order_limit` | MCOrderLimit | `BurstBounded`, `CallsReturn` | two threads, rate 2, capacity 3, 8 ticks of a quarter second |
| `order_limit_full` | MCOrderLimit, MCOrderLimitFull | **violated**: the bucket is not full to begin with | the same |
| `daily_runs` | MCDailyRuns | `OneRunAtATime`, `StopEndsRuns`, `EnlistedArePolled`, `ErrorsAreMailed`, `UndisturbedAreExecuted` | two strategies sharing a symbol, two days, one of them run and stopped at will |
| `tickflow_poller` | TickFlowPoller, MCTickFlowPoller | `RoundsAreComplete`, `PausesFollowFailures`, `WatchedAreAsked`, `NobodyWaitsForever` | four symbols in batches of two, calls that name one symbol or the three others |
| `tickflow_pause` | TickFlowPoller, MCTickFlowPause | **violated**: the last pause is not for good | the same |
| `backtest` | MCBacktest | `TodayIsHeld`, `BoughtIsKeptOvernight`, `BooksBalance`, `BorrowedSharesAreShort`, `BarsFollowClock`, `EventsInTime` | two strategies with three backtests, two symbols, two days of bars, 2 and 1 signals of 1 or 2 shares |

Type invariants are not checked by runs of their own: where a module has proofs, they are part of the
inductive invariants of section 5.

Why the bounds are enough:

* *Prices are multiples of 96, at most 2 units are held when a run goes on (`SmallHoldings`)*, so
  that in three fills every average and repayment is a whole number: the model is then as exact as
  the doubles are meant to be. Sizes of 1 and 2 give partial sales, sales over two lots, flips in
  both directions, partial repayment; two prices give profits and losses; margin in half and in
  full. `MCFills` has all four kinds on one symbol, and purchases on margin and sales of the other, so
  that the debts of one can not pay for the other. A run does not go on after the last fill nor book on a
  reclaimed account (`MoreToBook`), and of the parsed tables it keeps the one that is in the file
  (`LatestTable`). The run is of disciplined fills; for any others `FinancedIsBorrowed`,
  `LotsNeverExceedLong`, `FillConservesValue` and `RestoringAgrees` are theorems of `Spec`.
* *Two crashes* allow one during the recovery from another; two HTTP fills and two orders are all
  pairs of threads over one mutex.
* *Three reports* are acceptance, partial fill and end; more repeat the second.
* *Two strategies* are a login and a logout of the same exchange that cross, and two logins that do; the
  exchange that is not shared tells what is owed to one strategy alone.
* *8 ticks* are several windows of burst and refill for a bucket of 3.
* *Two days* are what a stale registration, handle or ready set needs; a strategy may have two
  runs unfinished or unjoined (`Slots`), one more than `OneRunAtATime` allows.
* *Four symbols, batches of two, one symbol against three*: a round takes two requests, the set shrinks
  below an offset and grows again, a batch ends inside the set and at its end. Errors and stages are
  not bounded: their range is that of the code.
* *Two days of bars*: three steps of the clock on the first, so that a purchase, a second order and a sale
  that is cut fit in one day, and one on the second, with a dividend of shares and cash. The second symbol is listed a
  bar after the first and leaves out its next bar, so that its quote is one to come and the two advance
  separately. One backtest is of one symbol, financed, has two runs, and makes an account of its own, whose
  cash the second run inherits; the other reads two symbols, sells short, and brings a reload. Two signals are
  a short sale and a cover that is too large, or a purchase and a sale of the same day. Creations interleave
  in all their steps.
* Deadlock is off (`CHECK_DEADLOCK FALSE`) where the system may rest: all fills booked, nobody
  calling, the clock at its bound. In `backtest` it is on: the end of all backtests is a step (`Over`).

One assumption is built into `EnsureDailyReady`: no run of the day before is still in progress at
15:00. A replay covers 160 bars and takes minutes. One contract of the clients is built into `FlowRuns` and
`DailyRuns`: HTTP requests that start or stop one strategy do not overlap. Nothing in the server enforces it
(`server.cpp:331` has a thread pool, `Start` and `Stop` take no lock): two stops at once may join and delete
the same worker (`AgentSubSystem.cpp:228`), after which nothing can be said.

## 4. Fairness

Fairness is of threads only: a thread that can run does (`WF` of each step of a running thread). In
`FillJournal` a thread that waits for the ledger's mutex gets it although others take it in between
(`SF` of `OpenFile`), and a service that died is started again. In `BrokerOrders` nothing is assumed
of the exchange. The broker thread's wait has a timeout (`BrokerSubSystem.cpp:722`), which is why a
lost notification only delays. In `FlowRuns` the read of quotes has a timeout, so that a worker looks
at `_running` again. In `TickFlowPoller` the worker goes on (`WF`), a pause ends (`WF`), and a caller gets
the filter's lock although the worker takes it again and again (`SF` of `Apply`): the lock is free for
as long as a request or the wait for the next one takes. No answer is assumed: `WatchedAreAsked` holds
of a server that always fails, as long as the back-off is not at its last stage. In `OrderLimit` a thread in
a call runs on. `Backtest` assumes nothing; its properties are safety. In `DailyRuns` a symbol that is
polled is polled again (the polling thread cycles through its batches) and a replay ends. Never assumed: that users call, that fills arrive,
that the exchange answers, that a day passes.

## 5. Proofs

TLAPS checks, for every value of the constants:

| Theorem | Module | Says |
|---|---|---|
| `BooksCorrect`, `TypesCorrect` | LedgerProofs | no debt or principal is negative, what is financed is the debt, lots stay within the long position, in memory and file: the inductive invariant under any fills |
| `DebtsAgree`, `LotsFollowPosition` | LedgerProofs | `Spec => []FinancedIsBorrowed`, `Spec => []LotsNeverExceedLong` |
| `FillsConserveValue`, `RestoringIsBooking` | LedgerProofs | `Spec => FillConservesValue`, `Spec => RestoringAgrees` |
| `DisciplineKeepsTidy` | LedgerProofs | the inductive invariant under disciplined fills: shares owed, principals and lots follow the position |
| `LoansMatchShorts`, `ClosedIsSettled` | LedgerProofs | `DisciplinedSpec => []BorrowedSharesAreShort`, `DisciplinedSpec => []FinancedOnlyWhileLong` |
| `LedgerIsFifoBook` | LedgerProofs | `DisciplinedSpec => ImplementsFifoBook`: every step of the ledger is a step of the book or a stutter |
| `ProfitIsGained` | LedgerProofs | `DisciplinedSpec => ProfitIsBookGain`: the profit shown is what the book value gained |
| `AnswersAreKept` | FillJournalProofs | `Spec => []AnsweredFillsAreHeld`, over any number of crashes |
| `NothingIsMadeUp`, `FileFollowsLedger` | FillJournalProofs | `NoPhantomFill`, `QuietFileIsCurrent` |
| `ContextsHaveOneOwner` | BrokerProofs | `Spec => []OneOwner` |
| `OrdersAreRecordedOnce`, `ReportsFindLiveContexts` | BrokerProofs | `RecordedOnRetirement`, `ReportsReachLiveContexts` |
| `LimitCorrect` | BrokerProofs | the inductive invariant of the token bucket |
| `BurstIsBounded` | BrokerProofs | `BurstBounded` for all rates, capacities and threads |
| `FlowTypesCorrect`, `FlowSessionsCorrect`, `FlowQuotesCorrect` | ExchangeProofs | the inductive invariants of `FlowRuns`: types, sessions, subscriptions |
| `OwnExchangesAreKept`, `StoppedAreLoggedOut` | ExchangeProofs | `RunningKeepsOwnExchanges`, `StoppedIsLoggedOut`, for any interleaving of starts, stops, failures, logins and logouts |
| `RunningAreSubscribed`, `UnusedSymbolsAreDropped` | ExchangeProofs | `RunningIsSubscribed`, `UnusedAreDropped` |
| `RunsDoNotOverlap`, `NoRunAfterStop` | DailyRunsProofs | `OneRunAtATime`, `StopEndsRuns` |
| `DaysErrorsAreMailed` | DailyRunsProofs | `Spec => []ErrorsAreMailed` |
| `EnlistedStayPolled` | DailyRunsProofs | `EnlistedArePolled`, where all strategies require the same exchanges |
| `NobodyIsLeftOut`, `PausesAreKept` | TickFlowPollerProofs | `RoundsAreComplete`, `PausesFollowFailures` for any symbols and batch size |
| `TodaysPurchasesAreHeld` | BacktestProofs | `Spec => []TodayIsHeld`, for any series |
| `ShortsAreBorrowed` | BacktestProofs | `Spec => []BorrowedSharesAreShort` |
| `BooksOfBacktests`, `TypesCorrect` | BacktestProofs | `Spec => []BooksBalance`: what a backtest owns less what it was lent moves by fees and events only |
| `BoughtAreKept` | BacktestProofs | `Spec => []BoughtIsKeptOvernight`: T+1 by the clock, whatever bars the series leave out and whoever reloads them |
| `EventsComeInTime` | BacktestProofs | `Spec => []EventsInTime` |
| `BarsAreTakenInOrder` | BacktestProofs | `Spec => []BarsFollowClock` |

*Ledger.* A fill does one of four things to the account (`AccountSteps`: it leaves the symbol's debt
alone, finances more, repays, or is no fill), and each part of the invariant is shown of the four
rather than of the branches of `ApplyFill`. `Sound` joins what needs one another: a repayment is
between 0 and what was financed on the symbol (`ShareBound`, `RepaymentBound`, by hand: the solver has
no integer division), and it never exceeds the whole debt because the debt is the sum of what is
financed, which in turn moves with the debt only if the repayment was not cut. Lots stay within the
long position since consuming takes from their total what it closes. `BooksInv` is that for every
account in memory, in the file and in the tables that loads have parsed, since any of them may be swapped in. Under discipline `Tidy` says more
of each symbol: a cover never exceeds what is short, a sale never what is long, and so the shares owed
are the short position, lots are exactly the long one, and selling all of it repays all of the principal.
Value is conserved step by step (`FillWorth`): cash, debt and position change by amounts that cancel at
the price of the fill.

*The ledger as a book.* `TidyInv` is the invariant the refinement rests on. A batch of lots stands for its
shares (`SharesOf`), and the lemma that carries the proof is about `ConsumeLots` (`ConsumeShares`, by
induction on the lots consumed): taking n units leaves the shares behind the first n, and costs the sum of
the prices of those. With it `SharesAfterFill` says what each kind of fill does to the shares, `NetFacts`
what it does to cash less debt, `ProfitAfterFill` to the profit, and `ShortAverage` that re-averaging a
short position keeps what it brought in, down to a whole price. Together they make each of the four
disciplined fills one step of the book (`FillIsBookStep`). The rest is one step each (`OtherIsBookStep`):
deltas of cash, reallocation and reclaim fund the book, `Save` is its checkpoint, a crash loses, a load
reads and later restores, a price mark is a stutter. For `ProfitIsBookGain` the same lots are valued at cost:
`LotCostIsShares` makes that the sum of the shares' prices, `CostAfterFill` says how a fill changes it, and
`GainAfterFill` that the profit changes by the same amount less the fees of opening. A short sale rounds
its average down in the model, where the code has doubles; the property names what is lost
(`RoundedOff`), nothing in the run, whose prices make averages whole.

*Sums and folds.* What a sum over symbols or a fold over lots computes is proved without an induction
theorem, which would take an operator: `SumFacts` forms the set of the counterexamples (finite sets, or
lengths), takes a minimal one, as strict inclusion of finite sets and the order of the numbers are well
founded, and refutes it by one step of the definition. What it offers are facts about functions: a sum
changes by what one member changes, the fold of a sequence by its last element.

*Fill journal.* What is answered must survive although nobody reads the file until the next crash, so
the invariant is about the file (`FileHoldsAnswered`): a whole one has every answered fill and nothing
that memory lacks, and what memory has beyond it is under way. A torn one is being written, by the one
thread that holds the mutex, or the process is down (`WriterSaves`); then the decision log has the
manual fills, because a fill is marked before it is saved (`FillsAreBooked`).

*Orders.* Everything rests on how far the caller is: what is queued, worked on or deleted was pushed
once (`KnownArePushed`), which gives one owner. For reports, a context that was not handed over has no
entry and no end (`UnsentAreNew`), a deleted one had ended, and of the ended ones the registry shows
only what the callback is about to take out (`DeletedHaveEnded`): a report finds no deleted context, and a
cancellation that searches the registry only that one.

*Rate limit.* A count of grants bounds nothing by itself. `Clocks` says that `next` never passes the clock,
`WindowPaid` that each grant of a window moved `next` on by the time of one token, less the burst that an
idle bucket may have saved. The exchange of a stale value fails, so one grant is one move.

*Real-time strategies.* The counts of sessions are wrong in the code: a count may be set to 1 twice, erased,
or lost, and every stop counts down. What remains true is said of the exchanges that no login crossed with a
closing (`CountedSession`): the count never exceeds those who own the exchange, a session is there exactly
while the count is positive or the one who closes it has not yet logged out, and who closes it is alone with
it. A crossing needs two strategies that require the exchange (`CrossedAreShared`). Hence a running strategy keeps
the exchanges it shares with nobody, whatever others do to theirs, and when the last one is stopped every
session that was not crossed is closed. The counts of symbols are exact (`SymbolsCountedOnce`): a control thread
unsubscribes before it launches a worker, so that no subscription is ever replaced; an exchange that all
strategies with a symbol require then polls it exactly while its count is positive.

*Daily pipeline.* A strategy with a run in progress was executed today or withdrawn (`OneRun`), so that
nothing triggers it again. For stops, the proof follows the handle (`WorkersAreHeld`): every live worker
is in the handle or awaited, and a strategy that is not running gives its handle up before it joins.
Errors are kept only while some run has still to call back (`LastReports`), since the callback that
finds every strategy executed and none left mails them. That symbols stay polled is about references
(`ReferencesAreKept`): a symbol's count is at least its subscribers plus the settled strategies that
have run and kept a reference (`Keepers`), so that it is positive while one of either is left.
The theorem assumes that strategies require the same exchanges, which holds in the instance of
`daily_runs`, too: references count a symbol whatever the exchange, and only the first subscriber of a
symbol has it polled, on the exchanges which that strategy requires.

*Polling.* While nobody changes the set, the symbols before the offset have been asked for
(`AskedBeforeOffset`); the offset is a number, and `Rank` turns it into symbols. Only an idle worker
pauses, with its errors reset (`PausesAreIdle`), and until the last stage the errors counted are the
failures in a row (`FailuresAreCounted`).

*Backtest.* `TodayIsHeld` is inductive with types, once the arithmetic of each kind of fill is a lemma:
a sale is cut to what was not bought today, a purchase opens at most what exceeds the short position.
For borrowed shares (`ShortInv`), an order typed a short sale must still be one when it is filled: the
position can grow only by what is bought that day, which a T+1 account may not sell (`OrdersReady`),
orders exist only for symbols with a quote (`QueuedAreQuoted`), and a context that met no other one is
the only one its signals can read (`LivesAlone`). Cash and shares are balanced fill by fill, each kind
moving by what the other loses; the sum over symbols changes by one member.

Every step of a backtest is one of a single context and leaves what belongs to the others alone
(`OthersStay`; only `loaded`, `filter`, the accounts registered and `disturbed` are common), and a context
that cannot be found yet has empty books (`FreshInv`), so that each invariant is shown of one context at a time.

*The clock of a backtest.* No assumption is made of the series but that times increase. As long as all
quotes of a context were of the day of its clock (it is not in `apart`), that is the day the code keeps in
`_lastTradeDay`, and a change that it sees is one of the clock (`DayInv`): an index never goes back, so neither
do the quotes' days, and what was bought on the day of the clock is what `TodayIsHeld` keeps. A
symbol that another backtest dropped keeps its old quote, which is then of another day once the day ends:
such contexts are in `apart` too. `EventInv` adds that what was applied is not of the future and that nothing
is left to apply while the graph runs. Which bars were taken is said of backtests that were alone: since
nobody clears the bars under them they have all that they asked for, and moving the earliest symbols on keeps
the taken ones exactly those up to the clock.

Assumptions are those the modules name (`ASSUME`), which TLC evaluates in the runs: finite sets of
strategies and symbols, positive rates, margins and batches, pools within the symbols, series and events in the order of their
times; and the common exchanges of `EnlistedStayPolled`, in the theorem that states it.

Only model-checked: all liveness (`ENABLED` and fairness are beyond the prover): `EveryFillIsSettled`,
`EndedOrdersAreRetired`, both `CallsReturn`, `UndisturbedAreExecuted`, `WatchedAreAsked`, `NobodyWaitsForever`.
Every safety property of the runs that pass is stated by a theorem, `EnlistedArePolled` under the assumption
above.

## 6. Where code and comments disagree

With a run that shows it:

* `ledger_rebuild_log`: the rebuild at `BrokerSubSystem.cpp:136` adds sells, whose quantity the log
  keeps positive.
* `broker_hx_fills`: `HXExchange.cpp:940` sets `_flag` and never `_success`; filled orders are not
  booked.
* `order_limit_full`: the comment at `OrderLimit.cpp:7` says that the bucket starts full ("令牌桶初始为满"); the
  first call is denied, and a burst is there only after its tokens were made.
* `tickflow_pause`: the comment at `TickFlowBridge.cpp:789` and the mail call the last stage of the back-off
  permanent ("永久暂停"). Line 802 sets `_paused` without `_pause_until`: polling goes on after one iteration, and
  no later error pauses. `PausesFollowFailures` excepts that stage.

Seen while modelling, without a run of their own:

* On an exchange that two strategies share one logs the other out: `AgentSubSystem.cpp:246` counts down
  whether or not this strategy counted up. `RunningKeepsOwnExchanges` is stated of exchanges that are
  not shared. `ExchangeManager.h:70` says that the exchange is logged out only when its count is back at zero
  ("计数归零时才真正 Logout"), and line 340 that counting is safe for concurrent strategies.
* Counts of sessions have no lock (`ExchangeManager.cpp:594`-634): two strategies may both log in, and one count
  is lost; or one logs in while another, which counted down to zero, is logging out: the erase at 631 removes
  the new count, and the session stays when everybody has stopped. `StoppedIsLoggedOut` leaves such exchanges
  out; without `crossed` it is violated in `FlowRuns`.
* An enlisted strategy that is run by hand is never triggered again: `StrategySubSystem.cpp:614`
  subscribes only strategies it registers, while `Run` unsubscribes a registered one; the comment at 635
  says that the subscription keeps its symbols covered. `UndisturbedAreExecuted` is stated of the others.
* `insert` at `TickFlowBridge.cpp:759` does not replace an entry: `GetQuote` answers the first quote of a
  symbol for as long as the bridge lives.
* The offset of the poller is a position: while the set keeps changing, a symbol may be passed over in
  every round. `RoundsAreComplete` and `WatchedAreAsked` speak of a set left alone.
* `stepForward` sets the quotes of all symbols, also of those that do not move on
  (`HistorySimulationBase.cpp:800`; the comment at 320 says that they stay at their old price): where a
  series leaves out a bar, its quote is of a bar to come, and orders are filled at that price. The
  alignment of the input node (`Nodes/QuoteNode.cpp:416`) keeps it from signals. When two quotes are of
  different days, the day changes with every bar (817), and shares bought today can be sold: with bars of
  several times a day, a symbol without a last bar of the day is enough. `BoughtIsKeptOvernight` leaves such
  backtests out (`apart`); without that it is violated for such series.
* `GetPositionQuantity` (`HistorySimulationBase.cpp:1002`) answers the position of the context it visits
  last, against `BacktestContext.h:25`, which says that contexts are isolated. Hence `disturbed` in
  `BorrowedSharesAreShort`.
* A backtest's margin loan is not repaid by sales and is left out of the equity of snapshots; orders that
  were refused count as fills.
* A backtest that reloads clears the bars of the others, which end early (`HistorySimulationBase.cpp:523`), or go
  on without the symbols that it does not bring, whose quotes and shares then belong to another day than
  the clock's. The look, the filter and the reload are separate steps (506-530): the reload may come long after the
  look, and may load what a third backtest asked for in between.
* A later backtest of a strategy keeps the cash of the one before: `Reclaim` (`LedgerStore.cpp:67`) only
  deactivates the account, and `HasStrategy` (88) finds it, so that `HistorySimulationBase.cpp:555` does not allocate
  the capital asked for. The account stays inactive from then on, unless the HTTP handler allocates it.
* The loop of a backtest over several exchanges (`AgentSubSystem.cpp:496`) runs while `_running` or until
  the server exits, where the one over a single exchange (341, the one modelled) has an and: `Stop` does
  not end it.
* `GetTotalAvailableFunds` (`ExchangeManager.cpp:888`) asks each simulated exchange for the context with
  the run's id, although each numbers its contexts itself: it may add the same account twice, or that of
  another run.
* A decision that is confirmed twice is booked twice, and `OrderHandler.cpp:165` derives its action from
  the direction alone, whatever it opens or closes.
* A worker that finds no quotes leaves the server in shadow mode (`AgentSubSystem.cpp:1009`), and
  workers that overlap restore each other's mode; the comment at 985 limits it to the worker's life.
* A second subscription leaks the counts of the first (`ExchangeManager.cpp:722`). The daily pipeline
  depends on it: its worker subscribes again and unsubscribes once, and the leaked reference is what
  keeps the symbols polled for the next day. The mutant of `EnlistedArePolled` repairs the leak and
  the strategies starve.
* TickFlow's fills do not enter the list of reports that `RecordTrade` books (`TickFlowBridge.cpp:333`).
* A partial fill ends an HX context (`HXExchange.cpp:939`).
* `ForceExecuteAllDaily` would lock `_dailyMtx` twice (`StrategySubSystem.cpp:795`); it has no caller.
* A cancellation looks for its order among all contexts of `_orders` (`HXExchange.cpp:984`) and may read one
  that the broker thread has deleted, in the window between the end of an order and the erase of its entry.
* A ledger that is reloaded in test mode loses the fills booked since its file was read (`LedgerStore.cpp:632`).

## 7. What is not modelled

* Numerics: pricing, GARCH, VMD, indicators, ONNX nodes, formula evaluation. Floating point is
  outside TLC's reach, and these are functions of their input.
* Databases (DuckDB, LMDB), HTTP routing, JSON, mail, reports, the client: I/O around the state.
* The CTP bridge and the options API of HX: mostly stubs, or copies of the stock callbacks.
* A failing disk: `Save` reports a failed write and `PersistLedger` drops the report.
* Data races below the level of the models: `GetLots` hands out a reference, the limiters of HX are
  replaced while in use, counts of sessions and their map are changed without a lock (`FlowRuns` has the
  races of the steps, not torn values or a broken map), `_csvs` and `_filter` are read while they change
  (`Backtest` takes an unlocked read to find the containers as before, empty, or as after, and the filter as it
  was when the bars are loaded).
* Overlapping HTTP requests for one strategy (section 3).
* `ReloadLedger` while fills are booked, in `FillJournal`: only a server in test mode offers it. `Ledger` has it.
* Risk: `CapitalRiskManager` and `StopLoss` keep states that nothing asks for in this commit (the only
  call of `RiskSubSystem::Metric` is commented out, `AgentSubSystem.cpp:1438`).
* Of backtests: prices that move, slippage, the averages and metrics that are reported, warm-up, ranges of
  dates, funds and options, and the HTTP handler that allocates capital for a whole request
  (`Handler/BackTestHandler.cpp:381`): its strategies are those in `Registered`. Of polling: working hours, the interval of requests, what quotes hold.
* Decisions of manual timing, the shadow's estimates, the K-bar builder, job sessions, the real-time
  simulation and the simulated bars of debug builds: candidates, see the plan.

`PROJECT.json` lists every component with its status, and every hazard with the properties that
would catch it.

## 8. Plan

Done: the ledger and its refinement, durability, order contexts, the rate limit, the exchange
manager, real-time and daily strategies, polling, backtests; proofs of every safety property that the
runs check.

Next, in this order:

1. `Decisions`: manual timing's decisions from signal to confirmation, closing the loop with
   `FillJournal`, where a repeated confirmation should book nothing.
2. `TickFlowPoller` composed with `ExchangeManager` and `DailyRuns`, so that the fairness of
   `MarkSymbolReady` follows from that of the polling thread.
3. `KBarBuilder`: aggregation of ticks into bars, against the bars of all ticks.
4. `DailyPushes`: `DailyRuns` with the simulated bars of debug builds.
5. `JobSessions`.

Abstract specifications worth stating: a durable set of fills that `FillJournal` implements, an order
that is pending, recorded or dropped for `BrokerOrders`, one that says each strategy is triggered at
most once a day for `DailyRuns`.

Theorems worth proving, in this order: that steps of `FillJournal` are steps of a durable set of fills; what the
exchange of references says of symbols where strategies require different exchanges.

## 9. Running the checks

    tlc -workers 2 -config MCDailyRuns.cfg MCDailyRuns
    tlapm ExchangeProofs.tla

The module and configuration of each run are in the table above. The longest run (`backtest`) takes about a
minute and a half, the longest proof (`LedgerProofs`) about six.

SPECIFICATION DisciplinedSpec
CONSTANTS
  Symbols = {s1, s2}
  FirstSymbol = s1
  MarginUnit = 2
  HalfMargin = 1
  Strategies = {st1}
  Fills <- MCFills
  LowPrice = 96
  HighPrice = 192
  Fee = 1
  Allocations = {1000}
  CashDeltas <- MCCashDeltas
  MarketPrices = {96}
  MaxBooked = 3
CONSTRAINTS SmallHoldings MoreToBook LatestTable
INVARIANTS FinancedIsBorrowed LotsNeverExceedLong BorrowedSharesAreShort FinancedOnlyWhileLong
PROPERTIES FillConservesValue RestoringAgrees ProfitIsBookGain ImplementsFifoBook

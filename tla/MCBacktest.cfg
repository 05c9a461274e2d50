SPECIFICATION Spec
CONSTANTS
  long = long
  short = short
  Symbols = {1, 2}
  Price <- MCPrice
  Unit = 2
  Commission = 1
  StampTax = 1
  Contexts = {long, short}
  Universe <- MCUniverse
  Traded <- MCTraded
  Series <- MCSeries
  DayLength = 10
  Events <- MCEvents
  Capital = 3
  Registered = {short}
  Forced = {}
  AllowShort = {short}
  MarginRatio <- MCMarginRatio
  Quantities <- MCQuantities
  MaxSignals <- MCSignals
  MaxRuns <- MCRuns
INVARIANTS TodayIsHeld BoughtIsKeptOvernight BooksBalance BorrowedSharesAreShort BarsFollowClock EventsInTime

SPECIFICATION Spec
CONSTANTS
  Symbols = {s1}
  FirstSymbol = s1
  MarginUnit = 2
  HalfMargin = 1
  Fills <- MCFills
  LowPrice = 96
  HighPrice = 192
  Fee = 1
  MaxFills = 4
CHECK_DEADLOCK FALSE
INVARIANT DecisionLogRebuilds

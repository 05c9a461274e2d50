SPECIFICATION Spec
CONSTANTS
  m1 = m1
  m2 = m2
  o1 = o1
  o2 = o2
  ManualFills <- MCManual
  OrderFills <- MCOrders
  MaxCrashes = 2
CHECK_DEADLOCK FALSE
INVARIANTS AnsweredFillsAreHeld NoPhantomFill QuietFileIsCurrent
PROPERTY EveryFillIsSettled

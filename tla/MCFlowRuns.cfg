SPECIFICATION Spec
CONSTANTS
  a = a
  b = b
  e1 = e1
  e2 = e2
  s1 = s1
  s2 = s2
  Strategies <- MCStrategies
  Exchanges = {e1, e2}
  Symbols = {s1, s2}
  Required <- SharedExchange
  Pool <- CommonPool
  Shadow = {a}
CHECK_DEADLOCK FALSE
INVARIANTS RunningIsSubscribed UnusedAreDropped RunningKeepsOwnExchanges StoppedIsLoggedOut
PROPERTY CallsReturn

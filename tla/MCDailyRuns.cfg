SPECIFICATION Spec
CONSTANTS
  a = a
  b = b
  e1 = e1
  s1 = s1
  s2 = s2
  Strategies <- MCStrategies
  Exchanges = {e1}
  Symbols = {s1, s2}
  Required <- MCRequired
  Pool <- CommonPool
  Managed = {a}
  Slots = {1, 2}
  MaxDay = 2
CHECK_DEADLOCK FALSE
INVARIANTS OneRunAtATime StopEndsRuns EnlistedArePolled ErrorsAreMailed
PROPERTY UndisturbedAreExecuted

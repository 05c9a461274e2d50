SPECIFICATION Spec
CONSTANTS
  Symbols = {1, 2, 3, 4}
  BatchSize = 2
  Named = {{1}, {2, 3, 4}}
CHECK_DEADLOCK FALSE
PROPERTIES RoundsAreComplete PausesFollowFailures WatchedAreAsked NobodyWaitsForever

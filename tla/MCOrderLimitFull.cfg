SPECIFICATION LimitSpec
CONSTANTS
  Threads = {t1, t2}
  Second = 4
  Rate = 2
  Capacity = 3
  MaxTime = 8
CHECK_DEADLOCK FALSE
PROPERTY BucketStartsFull

SPECIFICATION FairSpec
CONSTANTS
  None = None
  Minute = 2
  Timeframes = {1, 2}
  Prices = {1, 2}
  Skew = 3
  Horizon = 12
  Before = 2
  Waiting = 1
  Others = 1
  MinInterval = 1
  MaxRetries = 3
  BackoffBase = 1
  BackoffMax = 3
  Jitters = {0, 1}
  RetryAfters = {0, 2, 6}
INVARIANTS
  TypeOK
  StreamContiguous
  HistoryContiguous
  NextIsNextBoundary
PROPERTIES
  FetchEnds
  Patience
CHECK_DEADLOCK FALSE

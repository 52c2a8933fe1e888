SPECIFICATION FairSpec
CONSTANTS
  a = a
  b = b
  Threads = {a, b}
  Requests = {1, 2}
  InitialPermits = 1
  Menu <- MenuTimedAhead
  PermitBound = 0
  RecordBound = 3
  IntMax = 7
CHECK_DEADLOCK FALSE
PROPERTY HeadServed

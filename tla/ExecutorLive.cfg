SPECIFICATION FairSpec
CONSTANTS
  c1 = c1
  c2 = c2
  Clients = {c1, c2}
  Workers = {w1, w2, w3, w4}
  Tasks = {t1, t2}
  CorePoolSize = 1
  MaxPoolSize = 2
  Calls <- CallsOrderly
  NoTask = NoTask
  NoThread = NoThread
INVARIANTS
  AwaitedIsFinal
PROPERTIES
  AcceptedTaskRuns
  AwaitReturns

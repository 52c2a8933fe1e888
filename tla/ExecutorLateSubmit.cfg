SPECIFICATION FairSpec
CONSTANTS
  c1 = c1
  c2 = c2
  Clients = {c1, c2}
  Workers = {w1, w2}
  Tasks = {t1}
  CorePoolSize = 1
  MaxPoolSize = 1
  Calls <- CallsRacing
  NoTask = NoTask
  NoThread = NoThread
\* A client may stop calling, and here the pool does stop.
CHECK_DEADLOCK FALSE
PROPERTY AcceptedTaskRuns

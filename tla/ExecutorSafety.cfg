SPECIFICATION Spec
CONSTANTS
  c1 = c1
  c2 = c2
  Clients = {c1, c2}
  Workers = {w1, w2, w3, w4}
  Tasks = {t1, t2, t3, t4}
  CorePoolSize = 1
  MaxPoolSize = 2
  Calls <- CallsAny
  NoTask = NoTask
  NoThread = NoThread
SYMMETRY Symmetric
\* await_termination_until() really blocks the pool for ever.
CHECK_DEADLOCK FALSE
INVARIANTS
  TypeOK
  WorkersIndexed
  ActiveCountExact
  PoolBounded
  TaskConserved
  NoLostWakeup
  SafeDestruction

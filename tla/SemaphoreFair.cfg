SPECIFICATION FairLinkedSpec
CONSTANTS
  a = a
  b = b
  Threads = {a, b, c, d}
  Requests = {2}
  InitialPermits = 4
  Menu <- MenuQueueing
  PermitBound = 0
  RecordBound = 2
  IntMax = 7
  InitialCapacity = 1
INVARIANTS
  NoStrandedHead
PROPERTIES
  GrantedInOrder
  WaiterServed

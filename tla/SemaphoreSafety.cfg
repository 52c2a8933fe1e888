SPECIFICATION LinkedSpec
CONSTANTS
  a = a
  b = b
  Threads = {a, b, c}
  Requests = {1, 2}
  InitialPermits = 2
  Menu <- MenuAny
  PermitBound = 4
  RecordBound = 2
  IntMax = 7
  InitialCapacity = 1
SYMMETRY Symmetric
INVARIANTS
  TypeOK
  QueueExact
  WakeableIsHead
  RecordCoversQueue
  PermitsNonNegative
  ListIsQueue
  NodesAccounted
PROPERTIES
  ImplementsSemaphore
  ImplementsQueued

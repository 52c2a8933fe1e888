SPECIFICATION Spec
CONSTANTS
  Threads = {a, b, c}
  Requests = {1, 2}
  InitialPermits = 2
  Menu <- MenuSound
  CountBound = 3
  IntMax = 7
SYMMETRY Symmetric
INVARIANTS
  NoLostWakeup
PROPERTIES
  ImplementsSemaphore

SPECIFICATION FairSpec
CONSTANTS
  Threads = {a, b, c}
  MaxReaders = 2
INVARIANTS
  StateExact
  NoLostWakeup
PROPERTIES
  ImplementsRWLock
  WriterAdmitted

SPECIFICATION FairSpec
CONSTANTS
  Writers = {v, w}
  Locks = {a, b, c}
  MaxReaders = 2
  CallBound = 4
INVARIANTS
  OwnershipExact
  WriterAlone
  NoLostWakeup
PROPERTIES
  ServedInTheEnd

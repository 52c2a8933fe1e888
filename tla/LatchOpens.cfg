SPECIFICATION FairSpec
CONSTANTS
  Threads = {a, b, c}
  Amounts = {1, 2}
  InitialValue = 3
  Floor = 0
  NoThread = NoThread
\* Everybody may wait for a count nobody is left to make.
CHECK_DEADLOCK FALSE
INVARIANTS
  TypeOK
  NoLostWakeup
  SignalledOnce
PROPERTIES
  OpenedReturns

SPECIFICATION FairSpec
CONSTANTS
  Threads = {a, b, c}
  TicketRange = 4
  Keys = {k1, k2, k3}
  Values = {v, w}
  None = None
  Capacities = {0, 2, 3}
INVARIANTS
  ListExact
  CallsAreLRU
  ServedInOrder
PROPERTIES
  CallReturns

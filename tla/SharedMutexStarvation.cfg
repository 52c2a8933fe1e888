SPECIFICATION FairSpec
CONSTANTS
  Threads = {a, b, c}
  MaxReaders = 2
PROPERTIES
  NoStarvation

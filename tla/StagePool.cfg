\* Three workers, as the tokenize stage has, four values, a one-slot output: both selects can block.
CONSTANTS
  Items = {1, 2, 3, 4}
  None = None
  N = 4
  inCap = 2
  workers = 3
  bufferSize = 1
  Fallible = TRUE
SPECIFICATION FairSpec
INVARIANTS
  Conservation
  NoSendOnClosedChannel
  CleanClose
  LossBound
  MetricsBalance
  BoundedOvertaking
PROPERTIES
  ImplementsFlow
  OutputCloses
  EveryItemSettles

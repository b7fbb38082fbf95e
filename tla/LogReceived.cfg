\* An interrupt while logs are on their way through the aggregator.
CONSTANTS
  p1 = p1
  p2 = p2
  Producers <- MCProducers
  None = None
  IpcTypes = {"unixsock"}
  Erratic = {}
  producerBufferSize = 1
  linkCapacity = 1
  Msgs <- MCMsgs
  Oversized = {}
  aggregatorBufferSize = 1
  MayInterrupt = TRUE
SPECIFICATION Spec
INVARIANTS
  ReceivedIsWritten
CHECK_DEADLOCK FALSE

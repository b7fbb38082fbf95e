\* The kinds of connection (tcp is a stream like unixsock, without a file),
\* unix datagrams on both kinds of kernel; p2's entry is too large for the
\* receivers; the user may interrupt the aggregator.
CONSTANTS
  p1 = p1
  p2 = p2
  Producers <- MCProducers
  None = None
  IpcTypes = {"unixsock", "unixgram", "udp", "fifo"}
  Erratic = {"unixgram"}
  producerBufferSize = 2
  linkCapacity = 2
  Msgs <- MCMsgs
  Oversized = {p2}
  aggregatorBufferSize = 2
  MayInterrupt = TRUE
SPECIFICATION FairSpec
INVARIANTS
  InOrder
  NothingLost
  CleanExit
PROPERTIES
  ProgramsEnd
  EveryEntryWritten
CHECK_DEADLOCK FALSE

\* Connector dial, and a pool of one connection shared by two clients.
CONSTANTS
  c1 = c1
  c2 = c2
  Clients <- MCClients
  Conns = {b1, b2}
  None = None
  PoolSizes = {0, 1}
  BackendMayClose = TRUE
  Msgs <- MCMsgs
SPECIFICATION FairSpec
INVARIANTS
  LeaseExclusive
  EchoInOrder
PROPERTIES
  BackendEndEndsBoth
  EveryMessageEchoed
CHECK_DEADLOCK FALSE

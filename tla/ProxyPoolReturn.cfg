\* Connector pool: a client closes, the backend keeps its connections.
CONSTANTS
  c1 = c1
  c2 = c2
  Clients <- MCClients
  Conns = {b1}
  None = None
  PoolSizes = {1}
  BackendMayClose = FALSE
  Msgs <- MCMsgs
SPECIFICATION FairSpec
PROPERTY ReturnedWhenClientCloses
CHECK_DEADLOCK FALSE

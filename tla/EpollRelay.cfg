\* Clients come and go; descriptors are reused.
CONSTANTS
  Clients = {c1, c2}
  Conns = {b1, b2}
  None = None
  Fds = {1, 2, 3, 4, 5, 6, 7, 8}
  MayClose = TRUE
  Connectors = {"dial", "pool"}
  Collected = {}
  Msgs = 2
SPECIFICATION FairSpec
INVARIANTS
  EchoInOrder
  FreshFdsAreSafe
PROPERTY EveryRequestAnswered
CHECK_DEADLOCK FALSE

\* The garbage collector closes descriptors under open connections.
CONSTANTS
  Clients = {c1, c2}
  Conns = {b1, b2}
  None = None
  Fds = {1, 2, 3, 4, 5, 6, 7, 8}
  MayClose = FALSE
  Connectors = {"dial", "pool"}
  Collected = {c1, b1}
  Msgs = 1
SPECIFICATION Spec
INVARIANTS
  FreshFdsAreSafe
CHECK_DEADLOCK FALSE

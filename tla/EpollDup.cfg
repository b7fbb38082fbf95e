\* The garbage collector runs.
CONSTANTS
  Clients = {c1}
  Conns = {b1}
  None = None
  Fds = {1, 2, 3, 4}
  MayClose = FALSE
  Connectors = {"dial", "pool"}
  Collected = {c1, b1}
  Msgs = 1
SPECIFICATION Spec
INVARIANT DupKeepsFd
CHECK_DEADLOCK FALSE

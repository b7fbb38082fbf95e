\* Every combination of the clamps, a channel that fills up.
CONSTANTS
  Configs <- ClampConfigs
  Capacity = 1
  MaxRequests = 3
SPECIFICATION Spec
INVARIANTS
  RequestsFit
  RequestsNumbered
CHECK_DEADLOCK FALSE

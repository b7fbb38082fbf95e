\* Two tokenizers race; either context may be cancelled after any step.
CONSTANTS
  Configs <- WholeFile
  MaxRequests = 2
  None = None
  Capacity = 1
  tokenizers = 2
SPECIFICATION FairSpec
INVARIANTS
  EndToEnd
  NothingLostAtShutdown
PROPERTIES
  EveryRequestSettles
  PipelineEnds

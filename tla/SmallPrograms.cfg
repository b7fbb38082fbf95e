\* One to four workers, two rounds of the ring; more signals than fit
\* the channel; texts of up to five bytes in reads of one or two, and lines of
\* four bytes or more that do not fit the scanner; a tree of four directories;
\* two connections, dialled in two batches, and two bursts.
CONSTANTS
  None = None
  MaxWorkers = 4
  MaxCount = 9
  QueueSize = 2
  MaxSignals = 4
  MaxTicks = 3
  Dirs = {"root", "a", "b", "sub"}
  Root = "root"
  Parent <- Tree
  Links = {0, 1}
  BatchSize = 1
  Bursts = {"first", "second"}
  MaxLen = 5
  Chunk = 2
  MaxLine = 4
SPECIFICATION ProgSpec
INVARIANTS
  EveryIncrementCounts
  NothingUnseen
  LinesMatch
  WordsAndCharsMatch
  PrintedIsWhole
PROPERTIES
  ImplementsRing
  LabsGoOn
  TermEndsProgram
CHECK_DEADLOCK FALSE

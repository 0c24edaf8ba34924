SPECIFICATION FairSpec
CONSTANTS
  Slab = 10
  Chunk = 3
  Pushes <- PushesInSlabs
  Loads <- LoadsOfFiles
  Reads = {1, 6}
  MaxCalls = 3
  MaxRepeats = 1
  MaxVersion = 1
  Cells = {1, 2, 3, 4, 5, 6, 7}
  Code <- BothPrograms
  Entry = 4
  Breakpoints <- SomeBreakpoints
  Same = 2
  Samples = 4
  MaxCommands = 2
  MaxTraps = 1
INVARIANTS
  TypeOK
  MemoryArrives
  LinkIsInStep
  DriveIsADisk
  ProgramIsKnown
  FramesAreKept
PROPERTIES
  TransferIsADisk
  BreakStops
  EveryWaitEnds
CHECK_DEADLOCK FALSE

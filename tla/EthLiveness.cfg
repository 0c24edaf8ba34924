SPECIFICATION FairSpec
CONSTANTS
  Ordered = TRUE
  Capacity = 2
  MaxLosses = 1
  MaxSector = 5
  MaxBatch = 2
  MaxJobs = 2
  BatchMod = 4
  Byte = 3
  WindowSize = 2
  Jobs <- LiveJobs
  MayTimeOut = FALSE
  LoggedIn = TRUE
  Mountable = {"present"}
PROPERTIES
  EveryJobEnds
CHECK_DEADLOCK FALSE

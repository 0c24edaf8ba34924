SPECIFICATION Spec
CONSTANTS
  Ordered = TRUE
  Capacity = 2
  MaxLosses = 0
  MaxSector = 5
  MaxBatch = 2
  MaxJobs = 3
  BatchMod = 4
  Byte = 3
  WindowSize = 2
  Jobs <- StaleJobs
  MayTimeOut = FALSE
  LoggedIn = TRUE
  Mountable = {"present"}
INVARIANTS
  ReadsAreCurrent
CHECK_DEADLOCK FALSE

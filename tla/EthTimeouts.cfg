SPECIFICATION Spec
CONSTANTS
  Ordered = FALSE
  Capacity = 3
  MaxLosses = 0
  MaxSector = 5
  MaxBatch = 2
  MaxJobs = 3
  BatchMod = 6
  Byte = 3
  WindowSize = 2
  Jobs <- SessionJobs
  MayTimeOut = TRUE
  LoggedIn = FALSE
  Mountable = {"present"}
INVARIANTS
  BatchesStayApart
CHECK_DEADLOCK FALSE

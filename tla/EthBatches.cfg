SPECIFICATION Spec
CONSTANTS
  Ordered = TRUE
  Capacity = 2
  MaxLosses = 1
  MaxSector = 6
  MaxBatch = 3
  MaxJobs = 3
  BatchMod = 4
  Byte = 3
  WindowSize = 2
  Jobs <- BatchJobs
  MayTimeOut = FALSE
  LoggedIn = TRUE
  Mountable = {"present"}
INVARIANTS
  TypeOK
  NoFatal
  AckedMeansStored
  BatchesInStep
  MountAnswered
PROPERTIES
  ImplementsRemoteDisk
CHECK_DEADLOCK FALSE

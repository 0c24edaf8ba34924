SPECIFICATION Spec
CONSTANTS
  MaxSector = 2
  Values = {v1, v2}
  NotCached = NotCached
  SECTOR_CACHE_SIZE = 2
  QueueCapacity = 2
  BatchSizes = {2, 3}
  Commands = {"flushing", "putslot", "reading"}
INVARIANTS
  TypeOK
  QueueHasOneJobPerSector
  CountIsNumberOfEntries
  CoherentUnlessClobbered
PROPERTY
  ImplementsWriteBackDisk
CHECK_DEADLOCK FALSE

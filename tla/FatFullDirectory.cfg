SPECIFICATION Spec
CONSTANTS
  LastCluster = 7
  SlotsPerCluster = 3
  FileNames = {"a"}
  DirNames = {}
  FileSizes = {1}
  MaxCommands = 1
  MaxCrashes = 0
  Layouts <- Layouts_Full
INVARIANT DirectoryHoldsEntries
CHECK_DEADLOCK FALSE

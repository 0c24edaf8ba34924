SPECIFICATION Spec
CONSTANTS
  LastCluster = 7
  SlotsPerCluster = 3
  FileNames = {"a", "b"}
  DirNames = {"d"}
  FileSizes = {1, 2}
  MaxCommands = 3
  MaxCrashes = 1
  Layouts <- Layouts_Commands
INVARIANTS
  TypeOK
  NoCrossLinks
  FilesSafe
  NoLostClusters
CHECK_DEADLOCK FALSE

SPECIFICATION Spec
CONSTANTS
  TypedNames <- PlainNames
  MaxChanges = 3
INVARIANTS
  SessionEndsAsAsked
  ProgramLoadsStopped
  TextArrives
  LogIsWhatWasSent
  DebuggerHolds
  ConversionsComeBack
  CoreIsWhole
  DirectoryHolds
  BrowsingHolds
PROPERTIES
  StoredIsWhatIsShown
CHECK_DEADLOCK FALSE

SPECIFICATION FairSpec
CONSTANTS
  Files <- ThreeFiles
  Locked = {"c"}
  Missing = none
  Wrap = 4
  MaxTransfers = 2
  MaxLosses = 2
  MaxEarly = 2
  Blocks <- ThreeBlocks
  Rom = {2}
  QueueLength = 2
  MaxResends = 3
  MaxTimeouts = 1
  Systems <- AddressLists
  MAX_INTERFACES = 2
  Targets <- GivenAddresses
  Known <- KnownNames
  Machines <- Senders
  Rounds = 3
  MaxPackets = 2
INVARIANTS
  StartsComplete
  TransferIsTheFile
  AnswersAreWhole
PROPERTIES
  TransferEnds
CHECK_DEADLOCK FALSE

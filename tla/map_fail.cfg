SPECIFICATION MapSpec
CONSTANTS
  num_blocks = 5
  cpb = 1
  ppc = 4
  MAX_RETRIES = 1
  PAGE_NONE = 63
  EPOCHS = 1
  DEPTH = 1
  SECTOR_NONE = 9
  MISSING = MISSING
  Sectors = {0, 1}
  Data = {d1}
  Ops = {"write", "copy", "clear"}
  gc_ratio = 2
  MaxFails = 1
  MaxCrashes = 0
VIEW MapView
INVARIANTS
  NothingOnBadBlocks
  NeverFull
  RoomToRecover
  NoRecoveryGivenUp
PROPERTIES
  Implements

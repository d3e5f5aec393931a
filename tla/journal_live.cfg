SPECIFICATION HFairSpec
CONSTANTS
  num_blocks = 3
  cpb = 1
  ppc = 4
  MAX_RETRIES = 2
  PAGE_NONE = 63
  Data = {d1}
  Meta = {m1}
  NO_META = NO_META
  Cookies = {0}
  EPOCHS = 2
  Calls = {"enqueue", "copy", "clear", "auto_gc"}
  Capacity = 3
  MaxBad = 1
  MaxFails = 2
  MaxCrashes = 1
  MaxBB = 3
INVARIANTS
  TypeOK
  RecoveryState
PROPERTIES
  CallsReturn
  RecoveryEnds

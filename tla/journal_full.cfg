SPECIFICATION HSpec
CONSTANTS
  num_blocks = 3
  cpb = 1
  ppc = 4
  MAX_RETRIES = 8
  PAGE_NONE = 63
  Data = {d1}
  Meta = {m1}
  NO_META = NO_META
  Cookies = {0}
  EPOCHS = 2
  Calls = {"enqueue", "pad", "gc"}
  Capacity = 9
  MaxBad = 0
  MaxFails = 1
  MaxCrashes = 0
  MaxBB = 3
CHECK_DEADLOCK FALSE
INVARIANTS
  EraseSparesLive
  RingOrder
  SizeCounts

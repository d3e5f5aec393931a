SPECIFICATION HSpec
CONSTANTS
  num_blocks = 3
  cpb = 2
  ppc = 4
  MAX_RETRIES = 8
  PAGE_NONE = 63
  Data = {d1}
  Meta = {m1}
  NO_META = NO_META
  Cookies = {0}
  EPOCHS = 2
  Calls = {"enqueue", "auto_gc"}
  Capacity = 7
  MaxBad = 0
  MaxFails = 1
  MaxCrashes = 1
  MaxBB = 3
CHECK_DEADLOCK FALSE
PROPERTIES
  ResumeIsIntact

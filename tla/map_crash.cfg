SPECIFICATION MapSpec
CONSTANTS
  num_blocks = 3
  cpb = 1
  ppc = 4
  MAX_RETRIES = 1
  PAGE_NONE = 63
  EPOCHS = 1
  DEPTH = 2
  SECTOR_NONE = 9
  MISSING = MISSING
  Sectors = {0, 1, 2}
  Data = {d1, d2}
  Ops = {"write", "trim", "sync", "gc"}
  gc_ratio = 8
  MaxFails = 0
  MaxCrashes = 1
VIEW MapView
SYMMETRY DataSymmetry
INVARIANTS
  MapTypeOK
  CountIsMapped
  LiveIsQueued
PROPERTIES
  Implements

SPECIFICATION LifeSpec
CONSTANTS
  Files = {f1}
  LastSector = 1
  Values = {v1}
  FAT = FAT
  EMPTY = EMPTY
  NOBODY = NOBODY
  RESUME_ERRORS = FALSE
  QUIET = TRUE
  MaxFaults = 0
  MaxCrashes = 0
INVARIANTS
  Unmounted

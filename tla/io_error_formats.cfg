SPECIFICATION LifeSpec
CONSTANTS
  Files = {f1}
  LastSector = 2
  Values = {v1}
  FAT = FAT
  EMPTY = EMPTY
  NOBODY = NOBODY
  RESUME_ERRORS = TRUE
  QUIET = TRUE
  MaxFaults = 1
  MaxCrashes = 2
INVARIANTS
  FormatOnlyBlank

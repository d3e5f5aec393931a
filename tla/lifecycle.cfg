SPECIFICATION LifeSpec
CONSTANTS
  Files = {f1, f2}
  LastSector = 2
  Values = {v1, v2}
  FAT = FAT
  EMPTY = EMPTY
  NOBODY = NOBODY
  RESUME_ERRORS = FALSE
  QUIET = TRUE
  MaxFaults = 2
  MaxCrashes = 2
SYMMETRY FileSymmetry
INVARIANTS
  LifeTypeOK
  LayersTakenDown
  SyncedWhenDown
  FormatOnlyBlank
  MapSerialized
PROPERTIES
  WriteIsComplete

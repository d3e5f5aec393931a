SPECIFICATION DriverSpec
CONSTANTS
  Tasks = {t1, t2}
  num_blocks = 2
  ppb = 1
  Data = {d1}
  BLANK = BLANK
  GARBLED = GARBLED
  Fns = {"init", "deinit", "page_program", "page_copy", "block_mark_bad", "page_is_free", "clear"}
  MODES = {TRUE, FALSE}
  EXCLUSIVE = TRUE
  NOBODY = NOBODY
  MaxFaults = 1
SYMMETRY TaskSymmetry
INVARIANTS
  DriverTypeOK
  CallsAreAtomic
  NoSingleFaultOpens
  ResourcesMatch
  LockMatchesCalls

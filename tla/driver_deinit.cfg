SPECIFICATION DriverSpec
CONSTANTS
  Tasks = {t1, t2}
  num_blocks = 2
  ppb = 1
  Data = {d1}
  BLANK = BLANK
  GARBLED = GARBLED
  Fns = {"init", "deinit", "page_read"}
  MODES = {FALSE}
  EXCLUSIVE = FALSE
  NOBODY = NOBODY
  MaxFaults = 0
INVARIANTS
  NoUseAfterFree

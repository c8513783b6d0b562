CONSTANTS
  r1 = r1
  r2 = r2
  Absent = Absent
  PAGE_SIZE = 3
  PART_SZ = 21
  ENTRY_HEAD = 1
  DTB_HDR = 1
  DTB_SCAN = 4
  Runs = {r1, r2}
  Bin <- MCBin
  Core <- MCCore
  Lib <- MCLib
  Args <- DeepArgs
  FragSizes = {2}
  Serial = TRUE
  ToolsFail = FALSE
SPECIFICATION Spec
INVARIANT DtbUntouched

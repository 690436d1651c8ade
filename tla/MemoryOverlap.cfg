SPECIFICATION MemSpec
CONSTANTS
  WORD = 40
  HOLESTART = 2
  HOLEEND = 4
  end = 6
  NULLSTK = 1
  PT_START = 14
  FFS_START = 19
  SWP_START = 22
  Requests = {8, 24}
  PageSizes = {8}
  MaxSpent = 10
INVARIANT AllocationsApart
CHECK_DEADLOCK FALSE

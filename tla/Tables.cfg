SPECIFICATION MCSpec
CONSTANTS
  WORD = 40
  HOLESTART = 2
  HOLEEND = 4
  end = 6
  NULLSTK = 1
  PT_START = 14
  FFS_START = 19
  SWP_START = 22
  Requests = {8, 24}
  PageSizes = {8, 12, 24}
  MaxSpent = 8
  Holder = {h1, h2}
  Proc = {p1, p2, p3}
  Sems = {s1, s2, s3}
  SYSERR = SYSERR
  BP_MINB = 8
  BP_MAXB = 16
  BP_MAXN = 2
  NBPOOLS = 3
  Shapes <- MCShapes
  Message = {m1, m2}
  NoMessage = NoMessage
  NPORTS = 2
  PT_MSGS = 2
  Sizes = {2}
  MaxSeq = 3
INVARIANTS
  PagesPartitioned
  BlocksApart
  ApartUntilSpent
  BufferForEach
  BuffersApart
  NodesConserved
  RoomAndMessageForEach
  
PROPERTY
  PortIsChannel
CONSTRAINT OneAtATime
VIEW View
SYMMETRY Symmetry
CHECK_DEADLOCK FALSE

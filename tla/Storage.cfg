SPECIFICATION MCSpec
CONSTANTS
  LfName = {"f", "g"}
  Opener = {o1, o2}
  Nlfl = 2
  LF_BLKSIZ = 2
  LF_IBLEN = 2
  LF_NUM_DIR_ENT = 2
  IbPerSector = 2
  LfByte = {"x", "y"}
  LfModes <- MCLfModes
  None = None
  LfMaxSize = 5
  RfName = {"f"}
  Nrfl = 1
  RF_RETRIES = 2
  RF_DATALEN = 2
  RfModes <- MCRfModes
  RfByte = {"0", "x", "y", "z"}
  RfAbsent = RfAbsent
  RfDir = RfDir
  Doubt = Doubt
  RfNone = RfNone
  MaxSeq = 3
  RdCaller = {p, q}
  RdBlock = {0, 1}
  RdData = {a, b}
  RD_BUFFS = 2
  RD_RETRIES = 2
  RdNone = RdNone
  Devtab <- MCDevtab
  Lower <- MCLower
  DevPrefix <- MCDevPrefix
  OtherEntries <- MCEntries
  NAMESPACE = "NAMESPACE"
  NNAMES = 10
  NM_PRELEN = 64
  NM_REPLLEN = 96
  NM_MAXLEN = 256
  NmError = NmError
  LineMax = 5
  SHELL_MAXTOK = 6
  ShError = ShError
  ShPid = {1, 2, 3}
  ShFile = {t, u}
  cmdtab <- MCcmdtab
  CONSOLE = CONSOLE
  DateAsked <- MCDateAsked
INVARIANTS
  LfsBlocksKept
  DirectoryOnDisk
  ToldIsTrue
  
  
  NamesMapped
  ChildAwaited
  FilesHeld
  ArgsAsTyped
  DatesRight
PROPERTY
  FileIsSequence
VIEW View
SYMMETRY Symmetry
CHECK_DEADLOCK FALSE

SPECIFICATION LibSpec
CONSTANTS
  Ids = {i1, i2}
  Half = 4
  Bits = 4
  IpTexts <- MCIpTexts
  Links <- MCLinks
  Neighs <- MCNeighs
  Routes <- MCRoutes
  Asked <- MCAsked
  Junk = {0, 7}
  MaxTold = 5
  MaxOpen = 2
  PortIds = {p1, p2}
  MaxPort = 9
  PortTexts <- MCPortTexts
  MaxKey = 7
  Intervals <- MCIntervals
  Data = {d1, d2, d3, d4}
  Strings <- MCStrings
  tolower <- MCtolower
  NoCase = TRUE
  NUL = "nul"
  Stop = ":"
  LpObjs = {o1, o2, o3, o4}
  t1 = t1
  t2 = t2
  m1 = m1
  m2 = m2
  Kinds <- MCKinds
  PortBits = 4
  Uninit = {0, 1, 200}
  Addresses <- MCAddresses
  BufSizes = {2, 3}
  GrowBy = 2
  MAX_LINE_SIZE = 4
  Provided = {1, 3}
  LOGFILE_MAX_SIZE = 5
  Lengths = {1, 3}
  MaxMessages = 7
  Threads <- MCThreads
  Objects <- MCObjects
  MaxRequests = 3
  SizeBits = 10
  Limits = {200, 600}
  Percents = {50}
  Sizes = {150}
  Pids = {q1, q2, q3}
  NoPid = NoPid
  Families <- MCFamilies
  MaxRuns = 3
  Serial = TRUE
  Faults = {"write"}
  ObjsPerPage = 2
  ObjsPerWord = 5
  MaxBlocks = 2
  SlFaults = {"arrays"}
SYMMETRY Sym
INVARIANTS
  CacheIsWhatWasTold
  
  LinesDoNotDependOnReads
  StreamBecomesLines
  LogKeepsLatest
  AccountsAreRight
  AtMostOneInstance
  LockNamesInstance
  InsideBlock
  NoSharing
  ForeachVisitsLive
  NonfullListSound
PROPERTIES
  TreeIsMap
  TrieIsMap
  IpsAreSets
  PortsAreSets
  RefusalHasReason
  SlallocImplementsPool
CHECK_DEADLOCK FALSE

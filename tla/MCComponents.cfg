CONSTANTS
  Files <- AllFiles
  Localhost = 0
  Server = {"s1", "s2"}
  Conn = {c1, c2, c3}
  NumCache = 1
  MaxHeld = 2
  NoConn = noconn
  Kinds = {"sync", "mux"}
  RetryMax = 2
  MaxEvents = 3
  Batches <- MCBatches
  NoInput = "nil"
  PathSize <- MCPathSize
  Replicas <- MCReplicas
  Limit = 13
  Ops <- MCOps
  Wire = {l1, l2, l3}
  NoWire = nolink
  SleepMax = 2
  MaxFaults = 1
  Listing <- MCListing
  Fixed = {"dot", "g"}
  Block = 2
  CacheLimit = 2
  Timeout = 2
  Lifespans = {1}
  MaxTime = 2
  MaxVersion = 2
  MaxNoMemory = 1
  Peers <- MCPeers
  LocalPeers = {"h2"}
  Authenticated = {"h1"}
  LoadTimeouts <- MCLoadTimeouts
  AuthTimeout = 1
  StatfsTimeout = 1
  MuxLimit = 2
  Breaks = 1
SPECIFICATION Spec
INVARIANTS Alternating CacheConsistent AuthAgrees LocalityFound OperationsWhole ToldAsDone StatCacheRight RequestsRight
PROPERTIES LeastRecentlyUsed EveryStartEnds
CHECK_DEADLOCK FALSE

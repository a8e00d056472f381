CONSTANTS
  Task = {"j1", "j2", "j3"}
  Host = {"h1", "h2", "h3"}
  Locality <- MCLocality
  Domain <- MCDomain
  Worker = {"w1", "w2", "w3"}
  Nested = {}
  Main = "main"
  HostOf <- MCHostOf
  NoThread = "nobody"
  Zero = "0"
  NL = "n"
  Files <- MCFiles
  Modes <- MCModes
  Data <- MCData
  Delims <- MCDelims
  BufSize = 2
  MaxIO = 2
  AllocInit = 2
  MaxLen = 3
  MaxFaults = 1
  FirstCalls <- MCFirstCalls
  SecondCalls <- MCSecondCalls
  MaxList = 2
  MaxNoRoom = 1
  RecordSizes <- MCRecordSizes
  MaxWriteFails = 1
  IdBase = 1
  IdLimit = 5
  IdDelta = 2
  MaxIndex = 4
  HKeys = {"a", "A", "b", "c", "d"}
  Fold <- MCFold
  BucketOf <- MCBucketOf
  TableSize = 3
  MaxNoHeap = 1
  RbKeys = {1, 2, 3, 4, 5, 6, 7, 8}
  SplayKeys = {1, 2, 3, 4, 5}
SPECIFICATION Spec
INVARIANTS NotAllAsleep NoStrandedWorker Positions ListInStep ReplicaWhole ContainersRight
PROPERTIES HandedOutOnce PioSpec Stable
VIEW View
CHECK_DEADLOCK FALSE

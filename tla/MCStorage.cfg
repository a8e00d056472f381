CONSTANTS
  Order <- MCOrder
  NetOf <- MCNetOf
  Nets <- MCNets
  LocalNet = "l"
  Ncpu <- MCNcpu
  Modes = {"auth", "loadavg"}
  Desired = 1
  EnoughRate = 2
  Concurrency = 2
  PerNet = 2
  RttThresh = 4
  IdleLoad = 0
  SemiLoad = 1
  VirtualLoad = 1
  MinDisk = 1
  Loads <- MCLoads
  Disks = {0, 1}
  RttOf <- MCRttOf
  MaxFails = 1
  Infos <- MCInfos
  Plans <- MCPlans
  Olds <- MCOlds
  Base = 2
  BufSize = 3
  Procedures <- MCProcedures
  ItemValue <- MCItemValue
  Scripts <- MCScripts
  MaxBreaks = 1
  Commands <- MCCommands
  PipeSize = 2
  WireSize = 3
  MaxSignals = 2
  MaxFaults = 1
  Node = {n1, n2}
  LocalNode = n1
  Link = {k1, k2, k3}
  NoLink = nolink
  NoNode = nonode
  Holders = {n2}
  Kinds = {"open", "replicate", "statfs"}
  OnDemand = {TRUE}
  MaxRetry = 1
  MaxCalls = 2
  MaxProbes = 1
  MaxLost = 3
SPECIFICATION Spec
INVARIANTS SearchAsserts ChosenHaveSpace Delivered Forwarded NodesReached
PROPERTIES EveryWaitEnds
CHECK_DEADLOCK FALSE

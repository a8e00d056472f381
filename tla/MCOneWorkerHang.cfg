CONSTANTS
  Task = {"a", "b"}
  Host = {"h1"}
  Locality <- SimpleLocality
  Domain <- SimpleDomain
  Worker = {"w1"}
  Nested = {}
  Main = "main"
  HostOf <- SimpleHostOf
  NoThread = "nobody"
  Graphs <- TwoTasks
  Optional = {}
  MaxRef = 5
  WorkerSeq <- OneWorker
  Program <- OneTarget
  Sub <- NoSub
  CanFail = {}
SPECIFICATION Spec
PROPERTY Exits
CHECK_DEADLOCK FALSE

CONSTANTS
  Task = {"a", "b"}
  Host = {"h1"}
  Locality <- SimpleLocality
  Domain <- SimpleDomain
  Worker = {"w1", "w2"}
  Nested = {}
  Main = "main"
  HostOf <- SimpleHostOf
  NoThread = "nobody"
  Graphs <- TwoTasks
  Optional = {}
  MaxRef = 5
  WorkerSeq <- TwoInOrder
  Program <- TwoTargets
  Sub <- NoSub
  CanFail = {}
SPECIFICATION Spec
INVARIANT FinishedEmpty
CHECK_DEADLOCK FALSE

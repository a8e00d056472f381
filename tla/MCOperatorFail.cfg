CONSTANTS
  Task = {"a", "b", "c", "d", "e", "x"}
  Host = {"h1"}
  Locality <- SimpleLocality
  Domain <- SimpleDomain
  Worker = {"w1", "w2", "w3"}
  Nested = {"n1"}
  Main = "main"
  HostOf <- SimpleHostOf
  NoThread = "nobody"
  Graphs <- FailGraphs
  Optional = {"b"}
  MaxRef = 6
  WorkerSeq <- ThreeInOrder
  Program <- LoadThenTarget
  Sub <- SubOfE
  CanFail = {"b", "c", "x"}
SPECIFICATION Spec
INVARIANTS NoIdleWorker InvokeComplete
PROPERTIES BatchOrder ExitsUnnested
CHECK_DEADLOCK FALSE

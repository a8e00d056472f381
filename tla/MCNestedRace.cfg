CONSTANTS
  Task = {"a", "b", "c", "d", "x"}
  Host = {"h1"}
  Locality <- SimpleLocality
  Domain <- SimpleDomain
  Worker = {"w1", "w2"}
  Nested = {"n1", "n2"}
  Main = "main"
  HostOf <- SimpleHostOf
  NoThread = "nobody"
  Graphs <- RaceGraphs
  Optional = {}
  MaxRef = 6
  WorkerSeq <- TwoInOrder
  Program <- OneTarget
  Sub <- RaceSub
  CanFail = {}
SPECIFICATION Spec
INVARIANT OutputInBatch
CHECK_DEADLOCK FALSE

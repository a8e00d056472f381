CONSTANTS
  Task = {"a", "b", "c", "d"}
  Host = {"h1", "h2"}
  Locality <- TwoHostsLocality
  Domain <- TwoHostsDomain
  Worker = {"w1", "w2"}
  Nested = {}
  Main = "main"
  HostOf <- TwoHostsHostOf
  NoThread = "nobody"
  Graphs <- AllDags
  Optional = {"b"}
  MaxRef = 4
  WorkerSeq <- TwoInOrder
  Program <- OneTarget
  Sub <- NoSub
  CanFail = {}
SPECIFICATION Spec
PROPERTIES WorkflowSpec QueueSpec Exits

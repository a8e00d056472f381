CONSTANTS
  Task = {"a", "b", "c", "d"}
  Caller = {"main", "w1"}
  NoThread = "nobody"
  Graphs <- AllGraphs
  Optional = {"b", "c"}
  MaxRef = 3
  Invoker = "main"
  Root = "a"
SPECIFICATION Spec
INVARIANTS SoleAnswerIsRight ReadyWhenFetched FetchedOnce
PROPERTIES SoleTraceEnds
CHECK_DEADLOCK FALSE

CONSTANTS
  Conn = {"c1", "c2"}
  User = {"w1", "w2", "n2"}
  Main = "main"
  NoThread = "nobody"
  ConnOf <- MCConnOf
  Command = {"diff", "part"}
  Word = {"p", "q", "newline", "terminator", "0", "1", "nil"}
  Out <- MCOut
  Code <- MCCode
  Mortal = {"c2"}
  MaxCalls = 1
SPECIFICATION ShellSpec
INVARIANTS OwnAnswer NotCutShort EndCloses
PROPERTIES ShellEnds
CHECK_DEADLOCK FALSE

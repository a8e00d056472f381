CONSTANTS
  Peers <- MCPeers
  LocalPeers = {"h2"}
  Authenticated = {"h1"}
  LoadTimeouts <- MCLoadTimeouts
  AuthTimeout = 1
  StatfsTimeout = 1
  MuxLimit = 2
  Breaks = 0
SPECIFICATION EventSpec
INVARIANTS ReadOnReady
CHECK_DEADLOCK FALSE

SPECIFICATION FairSpec
CONSTANTS
  Clients = {mcp, cli}
  Timed = {mcp}
  MaxCalls = 2
  Peer = mcp
PROPERTY ServeEnds
CHECK_DEADLOCK FALSE

SPECIFICATION FairSpec
CONSTANTS
  Clients = {mcp, cli}
  Timed = {mcp}
  MaxCalls = 2
  Peer = mcp
INVARIANTS
  TypeOK
  AnswersAreTrue
  NoCallLost
PROPERTIES
  PeerIsServed
  UntimedCallsEnd
  ServeEndsWithClients
CHECK_DEADLOCK FALSE

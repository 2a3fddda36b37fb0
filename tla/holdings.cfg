SPECIFICATION Spec
CONSTANTS
  Callers = {c1, c2}
  Ports = {p1, p2}
  Names = {n1, n2}
  None = None
  MaxSessions = 2
  MaxWorkspaces = 2
  MaxCalls = 5
  MaxCrashes = 1
SYMMETRY Symmetry
INVARIANTS
  TypeOK
  LivePortsHeld
PROPERTIES
  PortsKept
  RemovalSpares
CHECK_DEADLOCK FALSE

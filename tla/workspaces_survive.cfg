SPECIFICATION Spec
CONSTANTS
  Callers = {c1}
  Ports = {p1, p2}
  Names = {n1, n2}
  None = None
  MaxSessions = 2
  MaxWorkspaces = 2
  MaxCalls = 4
  MaxCrashes = 2
CHECK_DEADLOCK FALSE
PROPERTIES WorkspacesSurvive

SPECIFICATION Spec
CONSTANTS
  None = None
  Callers = {c1, c2}
  Resources = {gpu}
  MaxLive = 2
  MaxSessions = 2
  MaxLeases = 2
  MaxFaults = 2
SYMMETRY Symmetry
INVARIANTS
  TypeOK
  OneHolder
PROPERTIES
  HistoryKept
  RecoveredSettled
CHECK_DEADLOCK FALSE

SPECIFICATION Spec
CONSTANTS
  None = None
  Sessions = {s1}
  Session = s1
  Runs = {r1}
  Terms = {t1}
  Resources = {gpu}
  Ports = {p1}
  MaxCrashes = 0
INVARIANTS
  StoppedHasNoProcess

SPECIFICATION FairSpec
CONSTANTS
  None = None
  Sessions = {s1}
  Session = s1
  Runs = {r1}
  Terms = {t1, t2}
  Resources = {gpu}
  Ports = {}
  MaxCrashes = 1
PROPERTIES
  RunsEnd
  StoppingStops
  SessionKeepsContract

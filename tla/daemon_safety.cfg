SPECIFICATION Spec
CONSTANTS
  None = None
  Sessions = {s1}
  Session = s1
  Runs = {r1}
  Terms = {t1, t2}
  Resources = {gpu}
  Ports = {p1}
  MaxCrashes = 2
SYMMETRY Symmetry
INVARIANTS
  TypeOK
  PipelineComplete
  NoAbandonedRun
  KilledIsReported
PROPERTIES
  RecoveryClean

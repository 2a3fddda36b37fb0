SPECIFICATION FairSpec
CONSTANTS
  gpu = gpu
  slot = slot
  adb = adb
  Slot = gpu
  None = None
  Resources = {gpu}
  Configured = {gpu}
  Mode <- ModesOfResources
  Capacity <- CapacitiesOfResources
  Sessions = {s1}
  Calls = {c1, c2}
  TTLs = {1}
  MaxLeases = 3
  MaxTime = 2
PROPERTIES
  LapsedLeaseEnds
  EveryCallAnswered

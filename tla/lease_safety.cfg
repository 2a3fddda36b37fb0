SPECIFICATION Spec
CONSTANTS
  gpu = gpu
  slot = slot
  adb = adb
  Slot = slot
  None = None
  Resources = {slot, adb}
  Configured = {slot}
  Mode <- ModesOfResources
  Capacity <- CapacitiesOfResources
  Sessions = {s1, s2}
  Calls = {c1, c2}
  TTLs = {0}
  MaxLeases = 4
  MaxTime = 0
SYMMETRY Symmetry
INVARIANTS
  TypeOK
  HoldersExact
  CapacityRespected
  NoIdleCapacity
  QueuesExact
  GrantMatchesCall
PROPERTIES
  DoomedLeasesEnd
  SlotIsSemaphore

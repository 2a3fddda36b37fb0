SPECIFICATION Spec
CONSTANTS
  r1 = r1
  r2 = r2
  r3 = r3
  Runs = {r1, r2, r3}
  Resources = {"slot", "license", "gpu"}
  Capacity <- MCCapacity
  Needs <- MCNeeds
  Scripted = {"build"}
  Limit <- MCLimit
  Adapters = {"unity"}
  TTL = 4
  Place = "license"
  Scenarios <- MCScenarios
  None = None
  MaxTime = 7
  DefaultAllow <- MCDefault
  AlwaysDeny <- MCReserved
  Every = "*"
  Segments = {"0", "2", "10", "1a"}
  Numeric = {"0", "2", "10"}
  Value <- MCValue
  Rank <- MCRank
  Zero = "0"
  Types = {"unity", "Unity"}
  Folded <- MCFolded
  Names = {"", "HOME", "HOME_ORIG", "TMPDIR", "TMPDIR_ORIG", "XDG_CACHE_HOME", "PATH", "LC_", "LC_ALL", "TOKEN", "UNITY_CACHE_SERVER"}
  Empty = ""
  Starts <- MCStarts
  HomeRoots = {"HOME"}
  TempRoots = {"TMPDIR"}
  XdgRoots = {"XDG_CACHE_HOME"}
  Original <- MCOriginal
  CacheServer = "UNITY_CACHE_SERVER"
SYMMETRY Symmetry
PROPERTIES
  HighestChosen
CHECK_DEADLOCK FALSE

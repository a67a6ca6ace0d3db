SPECIFICATION MCSpec
CONSTANTS
  MaxPid = 2
  Fids = {f1}
  Root = root
  x = x
  MountPaths <- MCMountPaths
  Written <- MCWritten
  Handles = {h1}
  Boot = h1
  MaxGen = 1
  Codes = {0}
  NoHandle = NoHandle
  NoCode = NoCode
  Malformed = Malformed
  Paths <- MCPaths
  MaxMounts = 3
  Token = "t"
  Pid = "p"
  Names = {"a", "b"}
  SrvFids = {f1}
  MaxViews = 3
  MaxPosts = 2
CHECK_DEADLOCK FALSE
INVARIANTS PendingOwned SpawnNarrows AccessOnlyNarrows LookupsAreTrue
PROPERTIES TerminalOnce QidFreshness

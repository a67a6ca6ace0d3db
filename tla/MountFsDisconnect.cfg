SPECIFICATION MountSpec
CONSTANTS
  Fids = {f1, f2}
  Root = root
  Callers = {c1, c2}
  MaxCandidates = 2
  MaxBacking = 3
  Aborts = FALSE
CHECK_DEADLOCK FALSE
INVARIANT ReleasedOnDisconnect

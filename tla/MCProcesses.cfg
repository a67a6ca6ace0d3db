SPECIFICATION MCSpec
CONSTANTS
  Ctls = {c1}
  Hosts = {h1, h2}
  Writers = {w1}
  ExitCodes = {1}
  Events = {e1, e2, e3}
  Status = {e3}
  Ordered = {o1}
  Plain = {o2}
  None = None
  Fids = {f1, f2}
  Root = root
  Callers = {m1, m2}
  MaxCandidates = 2
  MaxBacking = 2
  Aborts = TRUE
CHECK_DEADLOCK FALSE
INVARIANTS ExitsAreOrderly ExactlyOnce FidsAreSound
PROPERTIES DeliveredAndReleased

SPECIFICATION MCSpec
CONSTANTS
  Hosts = {h1, h2}
  Revisions = {a, b}
  LeaseIds = {l1, l2}
  Runs = {m1, m2}
  Instances = {i1}
  Sources = {s1}
  Comps = {"services", "auth"}
  Trees = {"services"}
  Unlocked = {"services"}
  MaxVersion = 2
  MaxIds = 2
  Profile = p
  Evaluator = e
  Process = i
  OneRevision = r
  Workers = {w1, w2}
  OneWorker = w1
  MaxRequests = 1
  MaxSlots = 1
  Clients = {c1, c2}
  OneClient = c3
  Accounts = {x, y}
  MaxToken = 3
  Requests = {r1, r2}
  Root = root
  Child = child
  Dirs = {"a", "b"}
  MaxAttempts = 2
  MaxTools = 2
  MaxGrants = 2
  MaxCds = 2
  MaxOps = 1
  MaxCtls = 2
  MaxPid = 2
  MaxMoves = 1
  MaxBoots = 3
  MaxEntries = 2
  None = None
SYMMETRY Symmetry
CHECK_DEADLOCK FALSE
INVARIANTS StoresAreWhole  

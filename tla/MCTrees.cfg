SPECIFICATION MCSpec
CONSTANTS
  Fids = {f1, f2}
  OneFid = {f1}
  ViewFids = {v1, v2}
  Clients = {cl1, cl2}
  OneClient = {cl3}
  Backing = {bf1, bf2}
  Pids = {"r", "k"}
  Names = {1, 2}
  Messages = {"m"}
  Chars = {"a", "b"}
  Ids = {x, y}
  Deltas = {d}
  Scores = {1}
  Contents = {c1}
  Bytes = {b1, b2}
  Bad = Bad
  NotFinite = NotFinite
  Empty = Empty
  None = None
  MaxInstalls = 2
  MaxSends = 1
  MaxLen = 1
  MaxRevision = 2
  MaxAddr = 1
  MaxExec = 1
  MaxEvents = 4
  MaxBirths = 3
  MaxCommits = 2
  MaxChanges = 3
  MaxNodes = 3
  MaxBlocks = 1
  MaxTape = 2
  MaxInput = 1
SYMMETRY Symmetry
CHECK_DEADLOCK FALSE
 
PROPERTY TreesKeepWhatIsWritten

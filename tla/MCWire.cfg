SPECIFICATION MCSpec
CONSTANTS
  Appenders = {a1, a2}
  Readers = {r1, r2}
  ChunkLen = 2
  Count = 3
  MaxLen = 4
  Calls = {c1, c2}
  NoCall = none
  MaxRequests = 3
  Clients = {1, 2}
  Handles = {"name", "snap"}
  MaxGens = 2
  MaxConns = 1
  MaxStarts = 1
  MaxUsage = 1
  MaxText = 1
  Retain = 0
  None = None
CHECK_DEADLOCK FALSE
INVARIANTS ReadsArePrefix NoLostWakeup AnswerIsOwn NobodyStranded GenerationsAreAccounted
PROPERTIES TornIsLast  WaitsEnd

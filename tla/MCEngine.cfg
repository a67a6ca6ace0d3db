SPECIFICATION MCSpec
CONSTANTS
  Works = {1, 2}
  MaxCrashes = 1
  NoWork = NoWork
  TurnInputs = {t1}
  FollowUps = {f1, f2}
  Steers = {s1, s2}
  NextTurns = {n1, n2}
  InbandMax = 1
  BufferMax = 1
  NextMax = 1
  PendingMax = 2
  Mixes = {{t1}, {f1}, {s1}, {n1}, {t1, f1}, {t1, s1}, {t1, n1}, {f1, f2}, {f1, s1}, {n1, n2}}
  CalmAfter = 2
  MaxDeferred = 1
  NoInput = NoInput
  Resumption = Resume
  Deferred = Deferred
  Kinds = {"plain", "both", "mount", "confirm", "plan"}
  KeepLast = 2
  MaxSteers = 1
  EffectCalls = {c1}
  MaxQueue = 2
  TriggerMessages = 4
  Soft = 3
  Hard = 5
  Window = 7
  MinGrowth = 1
  MidTurnLimit = 2
  MaxTrims = 1
  Extra = {1}
CHECK_DEADLOCK FALSE
INVARIANTS WorkIsAccounted QueueIsFaithful TurnsAreAnswered HistoryIsKept
PROPERTIES ImplementsLedger WorkWaitsAndEnds

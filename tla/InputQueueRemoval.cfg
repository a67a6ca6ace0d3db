SPECIFICATION Spec
CONSTANTS
  Turns = {t1}
  FollowUps = {f1, f2}
  Steers = {s1, s2}
  NextTurns = {n1, n2}
  InbandMax = 1
  BufferMax = 1
  NextMax = 1
  PendingMax = 2
  Mixes = {{t1}, {f1}, {s1}, {n1}, {t1, f1}, {t1, s1}, {t1, n1}, {f1, f2}, {f1, s1}, {n1, n2}, {f1, s1, s2}}
  MaxCrashes = 1
  CalmAfter = 2
  MaxDeferred = 1
  NoInput = NoInput
  Resume = Resume
  Deferred = Deferred
PROPERTY
  RemovalOwnsDisposition
CHECK_DEADLOCK FALSE

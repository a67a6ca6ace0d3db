SPECIFICATION MCSpec
CONSTANTS
  MaxBeats = 2
  MaxTurns = 2
  MaxAttempts = 2
  MaxGen = 1
  Ids = {1}
  MaxPid = 2
  MaxClears = 1
  Faulty = {"hydrate"}
  MaxFaults = 1
  Viewport = 2
  MaxOthers = 1
CHECK_DEADLOCK FALSE
  
PROPERTIES  OutcomesAreTrue
PROPERTIES ExitedIsForgotten

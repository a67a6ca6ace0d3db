SPECIFICATION FairSpec
CONSTANTS
  package = package
  agent = agent
  Units <- MCUnits
  Names <- MCNames
  BootOrder <- MCOrder
  Policy <- MCPolicy
  Required <- MCUnits
  Root = agent
  Package = package
  RestartLimit = 1
  MaxPids = 4
  MaxRetries = 1
  ReleaseFails = TRUE
CHECK_DEADLOCK FALSE
INVARIANTS UnitsAreSupervised
PROPERTIES SupervisionProgresses

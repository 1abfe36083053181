SPECIFICATION CliSpec
CONSTANTS
  Sizes = {1, 2, 3}
  PipeCapacity = 2
  Ample = FALSE
CHECK_DEADLOCK FALSE
INVARIANTS
  CliTypeOK
  StatusIsChilds
  NoSilentSurvivor
  ExitHonest
PROPERTIES
  PerceiveReturns

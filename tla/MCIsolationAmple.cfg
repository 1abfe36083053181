SPECIFICATION Spec
CONSTANTS
  Sizes = {1, 2, 3}
  PipeCapacity = 2
  Ample = TRUE
CHECK_DEADLOCK FALSE
INVARIANTS
  TimeoutMeansUnfinished

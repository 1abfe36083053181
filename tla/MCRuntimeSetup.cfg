SPECIFICATION Spec
CONSTANTS
  s1 = s1
  s2 = s2
  s3 = s3
  Setups <- MCSetups
CHECK_DEADLOCK FALSE
INVARIANTS
  TypeOK
  AvailableMeansReady
PROPERTIES
  ReadySurvives
  FailureRollsBack
  SuccessIsReady
  SetupEnds

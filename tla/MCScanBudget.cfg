CONSTANTS
  absent = absent
  nohint = nohint
  Absent = absent
  NoHint = nohint
  Requests <- MCRequests
  Windows <- MCWindows
  Overhead = 60
  MinElementsT1 = 50
  MinPatternsT1 = 4
  MinElementsT1T2 = 10
SPECIFICATION Spec
INVARIANTS
  TypeOK
  WithinBudget
  SuggestionAccepted
  ConfidenceBands
PROPERTIES
  Settles
  FollowsShrink
CHECK_DEADLOCK FALSE

CONSTANTS
  w = w
  toolbar = toolbar
  edit = edit
  list = list
  save = save
  item = item
  icon = icon
  invoke = invoke
  value = value
  scroll = scroll
  Elements <- MCElements
  Root = w
  Children <- MCChildren
  Parent <- MCParent
  Depth <- MCDepth
  Patterns <- MCPatterns
  Supports <- MCSupports
  Depths = {0, 1, 2, 3}
  Limits = {1, 3, 5, 7}
  MinElementsT1 = 5
  MinPatternsT1 = 3
  MinElementsT1T2 = 4
SPECIFICATION Spec
INVARIANTS
  TypeOK
  GapsExplained
  CompleteUnlessMarked
  CutOffMarked
  LimitMeansMore
  TierNeverOverstated
PROPERTY WalkEnds
CHECK_DEADLOCK FALSE

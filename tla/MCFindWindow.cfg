CONSTANTS
  editor = editor
  dialog = dialog
  other = other
  taskbar = taskbar
  Windows <- MCWindows
  Panes <- MCPanes
  Titled <- MCTitled
  OfProcess <- MCOfProcess
  OfClass <- MCOfClass
  Large <- MCLarge
SPECIFICATION Spec
INVARIANTS
  TypeOK
  MissExplained
  FoundOfProcess
  ListExplained
CHECK_DEADLOCK FALSE

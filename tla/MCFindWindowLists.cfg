CONSTANTS
  editor = editor
  dialog = dialog
  other = other
  taskbar = taskbar
  Windows <- MCWindows
  Panes <- MCPanes
  Titled <- MCTitled
  OfProcess <- MCOfProcess
  OfClass <- MCOfClass
  Large <- MCLarge
SPECIFICATION Spec
INVARIANT ListsAll
CHECK_DEADLOCK FALSE

---------------------------- MODULE MCFindWindow ----------------------------
(***************************************************************************)
(* Two windows of the process asked for, one of them of the class and the  *)
(* other with the title, a small window of the class only, and a pane that *)
(* would match everything.                                                 *)
(***************************************************************************)
EXTENDS FindWindow

CONSTANTS editor, dialog, other, taskbar

MCWindows == {editor, dialog, other, taskbar}
MCPanes == {taskbar}
MCTitled == {editor, taskbar}
MCOfProcess == {editor, dialog, taskbar}
MCOfClass == {dialog, other, taskbar}
MCLarge == {editor, dialog, taskbar}
=============================================================================

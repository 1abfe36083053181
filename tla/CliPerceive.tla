---------------------------- MODULE CliPerceive ----------------------------
(***************************************************************************)
(* The developer CLI, sidecar/service/cli.py, composed with the killable   *)
(* subprocess it reads a window in (Isolation): the checks of its          *)
(* arguments and of the environment, the listing, the window it finds, the *)
(* result of the subprocess, the screenshot and the output.                *)
(*                                                                         *)
(* Abstractions: of the arguments, what the code branches on; of a window  *)
(* found, whether it has a handle and a bounding box.  argparse leaves     *)
(* with exit code 2, an exception nobody catches with 1.                   *)
(***************************************************************************)
EXTENDS Isolation, Integers

VARIABLES cli,       \* where main is
          args,
          platform,  \* what check_environment finds
          target,    \* TargetInfo, or that there is none
          shot,      \* a screenshot file was written, and the snapshot names it
          printed,   \* what main printed: an error code, a listing, a snapshot
          exit

cliVars == <<cli, args, platform, target, shot, printed, exit>>
allVars == <<vars, cliVars>>

Selectors == {"hwnd", "title", "process", "class"}

Arguments == [numbers    : BOOLEAN,  \* max_elements >= 1, timeout > 0, depth in range
              list       : BOOLEAN,
              selector   : Selectors \cup {"none"},
              screenshot : BOOLEAN]

NoTarget == [hwnd |-> FALSE, bounding_box |-> FALSE]

CliTypeOK ==
  /\ TypeOK
  /\ cli \in {"arguments", "environment", "route", "find", "attach", "isolated",
              "capture", "output", "exit"}
  /\ args \in Arguments
  /\ platform \in {"ok", "not_windows", "no_uiautomation"}
  /\ target \in [hwnd : BOOLEAN, bounding_box : BOOLEAN]
  /\ shot \in [written : BOOLEAN, named : BOOLEAN]
  /\ printed \in {"nothing", "usage", "traceback", "environment", "list", "snapshot",
                  "window_not_found", "window_attach_failed", "tree_worker_timeout",
                  "tree_worker_crashed", "tree_worker_failed"}
  /\ exit \in {-1, 0, 1, 2}
  /\ exit = -1 <=> cli # "exit"

CliInit ==
  /\ Init
  /\ cli = "arguments"
  /\ args \in Arguments
  /\ platform \in {"ok", "not_windows", "no_uiautomation"}
  /\ target = NoTarget
  /\ shot = [written |-> FALSE, named |-> FALSE]
  /\ printed = "nothing"
  /\ exit = -1

Exit(code, text) ==
  /\ cli' = "exit" /\ exit' = code /\ printed' = text
  /\ UNCHANGED <<vars, args, platform, target>>

Goto(label) == cli' = label /\ UNCHANGED <<vars, args, platform, printed, exit>>

-----------------------------------------------------------------------------
(* main *)

\* parse_args and the two checks behind it.
CheckArguments ==
  /\ cli = "arguments"
  /\ IF args.numbers THEN Goto("environment") /\ UNCHANGED target ELSE Exit(2, "usage")
  /\ UNCHANGED shot

\* check_environment stops at its first error; everything after is a warning.
CheckEnvironment ==
  /\ cli = "environment"
  /\ IF platform = "ok" THEN Goto("route") /\ UNCHANGED target ELSE Exit(1, "environment")
  /\ UNCHANGED shot

\* --list goes before a selector.  A window that cannot be read is left out, and
\* a desktop that cannot be read has no windows; a name may not be printable.
RouteList ==
  /\ cli = "route" /\ args.list
  /\ Exit(0, "list") \/ Exit(1, "traceback")
  /\ UNCHANGED shot

RoutePerceive ==
  /\ cli = "route" /\ ~args.list
  /\ IF args.selector = "none" THEN Exit(2, "usage")
     ELSE Goto("find") /\ UNCHANGED target
  /\ UNCHANGED shot

-----------------------------------------------------------------------------
(* find_window with one selector *)

\* An exact handle is the target's handle; a window without one has none.
Find ==
  /\ cli = "find"
  /\ target' \in [hwnd : IF args.selector = "hwnd" THEN {TRUE} ELSE BOOLEAN,
                  bounding_box : BOOLEAN]
  /\ Goto("attach")
  /\ UNCHANGED shot

FindNothing ==
  /\ cli = "find"
  /\ Exit(1, "window_not_found")
  /\ UNCHANGED shot

\* Only the searches by handle and by process catch what reading a window raises.
FindRaises ==
  /\ cli = "find" /\ args.selector \in {"title", "class"}
  /\ Exit(1, "traceback")
  /\ UNCHANGED shot

Attach ==
  /\ cli = "attach"
  /\ IF target.hwnd THEN Goto("isolated") /\ UNCHANGED target
     ELSE Exit(1, "window_attach_failed")
  /\ UNCHANGED shot

-----------------------------------------------------------------------------
(* run_isolated(perceive_hwnd, ...) and its result *)

Isolated ==
  /\ cli \in {"isolated", "capture", "output", "exit"}
  /\ parent = "start" => cli = "isolated"
  /\ Next
  /\ UNCHANGED cliVars

\* Mutant: a crash is reported as a failure.
FailureCodeNoCrash(status) ==
  IF status = "timeout" THEN "tree_worker_timeout" ELSE "tree_worker_failed"

FailureCode(status) ==
  IF status = "timeout" THEN "tree_worker_timeout"
  ELSE IF status = "crash" THEN "tree_worker_crashed" ELSE "tree_worker_failed"

WorkerFailed ==
  /\ cli = "isolated" /\ parent = "returned"
  /\ result.status # "success"
  /\ Exit(1, FailureCode(result.status))
  /\ UNCHANGED shot

WorkerSucceeded ==
  /\ cli = "isolated" /\ parent = "returned"
  /\ result.status = "success"
  /\ Goto("capture")
  /\ UNCHANGED <<target, shot>>

-----------------------------------------------------------------------------
(* capture_window and the output *)

Capturing == args.screenshot /\ target.bounding_box

\* The file may have been created when saving the image fails.
Capture ==
  /\ cli = "capture"
  /\ shot' \in IF Capturing THEN [written : BOOLEAN, named : BOOLEAN] ELSE {shot}
  /\ shot'.named => shot'.written
  /\ Goto("output")
  /\ UNCHANGED target

\* The coordinates and the output directory are prepared outside of the try.
CaptureRaises ==
  /\ cli = "capture" /\ Capturing
  /\ Exit(1, "traceback")
  /\ UNCHANGED shot

Output ==
  /\ cli = "output"
  /\ Exit(0, "snapshot")
  /\ UNCHANGED shot

\* The snapshot cannot be made, or its file cannot be written.
OutputRaises ==
  /\ cli = "output"
  /\ Exit(1, "traceback")
  /\ UNCHANGED shot

-----------------------------------------------------------------------------

Main ==
  \/ CheckArguments \/ CheckEnvironment \/ RouteList \/ RoutePerceive
  \/ Find \/ FindNothing \/ FindRaises \/ Attach
  \/ WorkerFailed \/ WorkerSucceeded
  \/ Capture \/ CaptureRaises \/ Output \/ OutputRaises

CliNext == Main \/ Isolated

\* Main is held up by nothing outside of it once it has its target: what it waits
\* for is run_isolated.  Reading the desktop for a window or a list, the environment
\* and the pixels of a screenshot happens in main's own process, and may take for
\* ever.
Unblocked == cli \in {"attach", "isolated", "output"} \/ (cli = "capture" /\ ~Capturing)

CliFairness ==
  /\ WF_allVars(Main /\ Unblocked)
  /\ WF_allVars(Isolated /\ ParentStep)

CliSpec == CliInit /\ [][CliNext]_allVars /\ CliFairness

-----------------------------------------------------------------------------
(* Properties *)

\* The exit code and the printed error are what happened in the other process: 0
\* without --list means that the child computed a tree and is gone, an error that
\* is not retryable is one the child itself reported, and "crashed" is not said
\* of a child that had something to report and ended in good order.  A screenshot
\* file is left behind by a run that ended in a snapshot or in a traceback, never
\* by one with an orderly error.
ExitHonest ==
  /\ exit = 0 <=> printed \in {"list", "snapshot"}
  /\ printed = "snapshot" => message.kind = "success" /\ child \in {"exited", "aborted"}
  /\ printed = "tree_worker_failed" =>
       message.kind = "error" /\ child \in {"exited", "aborted"}
  /\ printed = "tree_worker_crashed" => child = "aborted" \/ message.kind = "garbage"
  /\ cli = "exit" /\ shot.written => printed \in {"snapshot", "traceback"}

\* Once main has a window it comes to an end or to the screenshot, whatever the child
\* does and however it ignores its signals: the call that may block for ever is the
\* child's, not main's.
PerceiveReturns == cli = "attach" ~> cli = "exit" \/ (cli = "capture" /\ Capturing)
=============================================================================

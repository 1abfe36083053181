------------------------------ MODULE Perceive ------------------------------
(***************************************************************************)
(* perceive_request of sidecar/plugin_worker.py and run_perceive of        *)
(* sidecar/service/cli.py with the find_window, perceive_hwnd and          *)
(* drill_frame both call: one request for the window behind a handle,      *)
(* served by reading a desktop that changes between any two reads.  A      *)
(* window that is closed frees its handle, and the system may give the     *)
(* handle to another window, of the same process or not.                   *)
(*                                                                         *)
(* Abstractions: an element of a tree is the window it was read from; a    *)
(* read through a handle reads whatever window has it then.  Any UI        *)
(* Automation call may raise; on a handle without a window it always does. *)
(* Limits of the walk are among its ways to raise.                         *)
(***************************************************************************)
CONSTANTS Handles, Windows, Processes,
          Requested,   \* window_id of the request
          ProcessOf,   \* the process that owns a window
          Frames,      \* windows whose class is one of FRAME_CLASSES
          Nobody, NoProcess

ASSUME RequestedAssumption == Requested \in Handles
ASSUME ProcessOfAssumption == ProcessOf \in [Windows -> Processes]
ASSUME FramesAssumption == Frames \subseteq Windows
ASSUME NobodyAssumption == Nobody \notin Windows /\ NoProcess \notin Processes

VARIABLES pc,         \* where the worker is
          caller,     \* the plugin passes the process id found, the CLI does not
          occupant,   \* the window that has a handle
          gone,       \* windows that were closed
          target,     \* TargetInfo: is its class a frame's, and its process id
          root,       \* the handle of the control that is walked
          seen,       \* the windows whose elements are in the tree
          found, attached, rechecked,  \* history: what the three looks saw
          answer

desktop == <<occupant, gone>>
history == <<found, attached, rechecked>>
vars == <<pc, caller, desktop, target, root, seen, history, answer>>

Somebody == Windows \cup {Nobody}

TypeOK ==
  /\ pc \in {"find", "find_process", "attach", "drill", "walk", "recheck",
             "encode", "done"}
  /\ caller \in {"plugin", "cli"}
  /\ occupant \in [Handles -> Somebody]
  /\ gone \in SUBSET Windows
  /\ target \in [frame : BOOLEAN, process : Processes \cup {NoProcess}]
  /\ root \in Handles
  /\ seen \in SUBSET Windows
  /\ {found, attached, rechecked} \subseteq Somebody
  /\ answer \in {"none", "window_not_found", "tree_worker_error", "snapshot",
                 "output_budget_exceeded"}

\* A window has one handle.
Placed(o) ==
  \A g, h \in Handles : o[g] = o[h] /\ o[g] # Nobody => g = h

Init ==
  /\ pc = "find"
  /\ caller \in {"plugin", "cli"}
  /\ occupant \in {o \in [Handles -> Somebody] : Placed(o)}
  /\ gone = {}
  /\ target = [frame |-> FALSE, process |-> NoProcess]
  /\ root = Requested
  /\ seen = {}
  /\ found = Nobody /\ attached = Nobody /\ rechecked = Nobody
  /\ answer = "none"

There == occupant[Requested]

Answer(code) == pc' = "done" /\ answer' = code

-----------------------------------------------------------------------------
(* find_window *)

FindFails ==
  /\ pc \in {"find", "find_process"}
  /\ Answer("window_not_found")
  /\ UNCHANGED <<caller, desktop, target, root, seen, history>>

\* _make_target_info reads the class, then the process: two calls.
Find ==
  /\ pc = "find"
  /\ There # Nobody
  /\ pc' = "find_process"
  /\ target' = [target EXCEPT !.frame = There \in Frames]
  /\ found' = There
  /\ UNCHANGED <<caller, desktop, root, seen, attached, rechecked, answer>>

FindProcess ==
  /\ pc = "find_process"
  /\ There # Nobody
  /\ pc' = "attach"
  /\ target' = [target EXCEPT !.process = ProcessOf[There]]
  /\ UNCHANGED <<caller, desktop, root, seen, history, answer>>

-----------------------------------------------------------------------------
(* perceive_hwnd: every exception becomes an error of its caller, which is *)
(* called tree_worker_error here                                           *)

\* expected_process_id, where there is one.
SameProcess == caller = "plugin" => ProcessOf[There] = target.process

PerceiveFails ==
  /\ pc \in {"attach", "walk", "recheck"}
  /\ Answer("tree_worker_error")
  /\ UNCHANGED <<caller, desktop, target, root, seen, history>>

Attach ==
  /\ pc = "attach"
  /\ There # Nobody /\ SameProcess
  /\ pc' = "drill"
  /\ attached' = There
  /\ UNCHANGED <<caller, desktop, target, root, seen, found, rechecked, answer>>

\* Mutant: every window is drilled into.
DrillAlways ==
  /\ pc = "drill"
  /\ pc' = "walk"
  /\ \/ root' \in Handles \ {Requested} /\ occupant[root'] # Nobody
     \/ UNCHANGED root
  /\ UNCHANGED <<caller, desktop, target, seen, history, answer>>

\* Mutant: a frame without content is not walked itself.
DrillUnchecked ==
  /\ pc = "drill"
  /\ pc' = "walk"
  /\ root' \in IF target.frame THEN Handles \cup {Nobody} ELSE {Requested}
  /\ UNCHANGED <<caller, desktop, target, seen, history, answer>>

\* Whether to drill is decided by the class find_window read.  drill_frame picks
\* a child window, or none when there is none or a call raises.
Drill ==
  /\ pc = "drill"
  /\ pc' = "walk"
  /\ \/ /\ target.frame /\ There # Nobody
        /\ root' \in Handles \ {Requested} /\ occupant[root'] # Nobody
     \/ UNCHANGED root
  /\ UNCHANGED <<caller, desktop, target, seen, history, answer>>

\* One element of the walk.
Read ==
  /\ pc = "walk"
  /\ occupant[root] # Nobody
  /\ seen' = seen \cup {occupant[root]}
  /\ UNCHANGED <<caller, pc, desktop, target, root, history, answer>>

\* The walk is over, or an exception below the root element cut it short.
WalkEnds ==
  /\ pc = "walk"
  /\ seen # {}
  /\ pc' = "recheck"
  /\ UNCHANGED <<caller, desktop, target, root, seen, history, answer>>

\* Mutant: only the handle is looked at again.
RecheckHandle ==
  /\ pc = "recheck"
  /\ There # Nobody
  /\ pc' = "encode"
  /\ rechecked' = There
  /\ UNCHANGED <<caller, desktop, target, root, seen, found, attached, answer>>

Recheck ==
  /\ pc = "recheck"
  /\ There # Nobody /\ SameProcess
  /\ pc' = "encode"
  /\ rechecked' = There
  /\ UNCHANGED <<caller, desktop, target, root, seen, found, attached, answer>>

\* A tree over the byte budget of the plugin is left out, its summary still returned.
Encode ==
  /\ pc = "encode"
  /\ Answer("snapshot") \/ (caller = "plugin" /\ Answer("output_budget_exceeded"))
  /\ UNCHANGED <<caller, desktop, target, root, seen, history>>

-----------------------------------------------------------------------------
(* the desktop *)

Close(h) ==
  /\ occupant[h] # Nobody
  /\ gone' = gone \cup {occupant[h]}
  /\ occupant' = [occupant EXCEPT ![h] = Nobody]
  /\ UNCHANGED <<caller, pc, target, root, seen, history, answer>>

\* A new window; nothing keeps the system from giving it a used handle.
Open(h, w) ==
  /\ occupant[h] = Nobody
  /\ w \notin gone /\ \A g \in Handles : occupant[g] # w
  /\ occupant' = [occupant EXCEPT ![h] = w]
  /\ UNCHANGED <<caller, pc, gone, target, root, seen, history, answer>>

-----------------------------------------------------------------------------

Worker ==
  \/ FindFails \/ Find \/ FindProcess
  \/ PerceiveFails \/ Attach \/ Drill \/ Read \/ WalkEnds \/ Recheck
  \/ Encode

Desktop == \E h \in Handles : Close(h) \/ \E w \in Windows : Open(h, w)

Next == Worker \/ Desktop

SafetySpec == Init /\ [][Next]_vars

-----------------------------------------------------------------------------
(* Properties *)

\* What left the worker describes the windows that were seen.
Disclosed == answer \in {"snapshot", "output_budget_exceeded"}

\* What the two identity checks of the plugin buy: an element of another process
\* than the target's gets into an answer only when the handle changed hands twice
\* during the walk, away from the attached window and then to a third one of the
\* target's process.  One reuse by another process is always caught.
ForeignNeedsTwoReuses ==
  caller = "plugin" /\ Disclosed /\ root = Requested =>
    \A w \in seen : ProcessOf[w] # target.process =>
      /\ {attached, w} \subseteq gone
      /\ rechecked \notin {attached, w}

\* For both callers: when find_window, the attach and the recheck looked at the same
\* window and it is no frame, the answer is about that window alone: a stale class
\* name never sends the walk into another window, and nothing read in between is a
\* stranger's.
StableTargetOnly ==
  Disclosed /\ found = attached /\ attached = rechecked /\ found \notin Frames
    => seen = {found}

\* SECURITY.md: "The plugin revalidates the exact HWND and owning process inside
\* the worker before and after traversal to detect handle reuse or target
\* replacement", so a tree that is answered is the tree of the window found.
ReplacementDetected ==
  caller = "plugin" /\ Disclosed /\ root = Requested => seen = {found}
=============================================================================

----------------------------- MODULE Isolation -----------------------------
(***************************************************************************)
(* run_isolated of sidecar/service/isolation.py, through which the         *)
(* developer CLI runs perceive_hwnd (sidecar/service/cli.py): a parent     *)
(* process, a child that computes a result, and the queue between them.    *)
(*                                                                         *)
(* multiprocessing.Queue is a library; what matters of it here is that     *)
(* put() hands the message to a feeder thread, that a child which goes     *)
(* down in good order waits for its feeder to have written the message     *)
(* into the pipe, and that the pipe takes PipeCapacity units before a      *)
(* reader must make room.  A child may crash at any place, while the       *)
(* feeder writes or the interpreter and COM are torn down included.        *)
(*                                                                         *)
(* Abstractions: a message is its kind and its size, and is in the pipe as *)
(* a whole or not at all (the pipes are message pipes); time is the step   *)
(* at which a join gives up.  With Ample the first join gives up only on a *)
(* child that would never end by itself.                                   *)
(***************************************************************************)
EXTENDS Naturals

CONSTANTS Sizes,         \* sizes of the messages a function may produce
          PipeCapacity,  \* what the pipe holds while nobody reads
          Ample          \* the timeout is long enough for any function that ends

ASSUME SizesAssumption == Sizes \subseteq Nat /\ PipeCapacity \in Nat
ASSUME AmpleAssumption == Ample \in BOOLEAN

VARIABLES parent,   \* where run_isolated is
          child,    \* the child process
          message,  \* what the child handed to its feeder thread
          pipe,     \* a message is in the pipe
          result    \* the IsolatedResult: its status and exit_code

vars == <<parent, child, message, pipe, result>>

NoMessage == [kind |-> "none", size |-> 0]
\* "garbage" is a value that cannot be pickled: the feeder drops it.
Messages == {NoMessage} \cup [kind : {"success", "error", "garbage"}, size : Sizes]

Unset == [status |-> "unset", exit_code |-> "unset"]
Results == [status : {"unset", "success", "error", "crash", "timeout"},
            exit_code : {"unset", "none", "zero", "nonzero"}]

Alive == {"computing", "flushing", "exiting", "hung"}
\* What the child process ends as: in good order, by a crash, or killed.
Dead == {"exited", "aborted", "killed"}

TypeOK ==
  /\ parent \in {"start", "join", "check", "terminate", "join_terminated", "kill",
                 "join_killed", "get", "returned"}
  /\ child \in {"unborn"} \cup Alive \cup Dead
  /\ message \in Messages
  /\ pipe \in BOOLEAN
  /\ result \in Results

Init ==
  /\ parent = "start"
  /\ child = "unborn"
  /\ message = NoMessage
  /\ pipe = FALSE
  /\ result = Unset

\* process.exitcode, None while the process lives.
ExitCode ==
  IF child \notin Dead THEN "none" ELSE IF child = "exited" THEN "zero" ELSE "nonzero"

-----------------------------------------------------------------------------
(* _child_entry, the feeder thread and the system *)

\* The function returns or raises (BaseException is caught), and put() gets it.
Compute ==
  /\ child = "computing"
  /\ message' \in Messages \ {NoMessage}
  /\ child' = "flushing"
  /\ UNCHANGED <<parent, pipe, result>>

\* A UIA provider that never answers, or a process that never gets through the
\* teardown of its interpreter.
Hang ==
  /\ child \in {"computing", "exiting"}
  /\ child' = "hung"
  /\ UNCHANGED <<parent, message, pipe, result>>

\* A native crash, os._exit, or an interpreter that could not even start.  A message
\* the feeder has not written is lost, one that is in the pipe stays there.
Abort ==
  /\ child \in {"computing", "flushing", "exiting"}
  /\ child' = "aborted"
  /\ UNCHANGED <<parent, message, pipe, result>>

Fits == message.size <= PipeCapacity

\* The feeder writes the message.
Flush ==
  /\ child = "flushing"
  /\ message.kind # "garbage"
  /\ Fits \/ parent = "get"
  /\ pipe' = TRUE
  /\ child' = "exiting"
  /\ UNCHANGED <<parent, message, result>>

DropGarbage ==
  /\ child = "flushing"
  /\ message.kind = "garbage"
  /\ child' = "exiting"
  /\ UNCHANGED <<parent, message, pipe, result>>

\* The feeder is joined, the interpreter goes down, the process ends with status 0.
ChildExits ==
  /\ child = "exiting"
  /\ child' = "exited"
  /\ UNCHANGED <<parent, message, pipe, result>>

\* terminate() or kill() takes effect, at once, late or never.
Die ==
  /\ parent \in {"join_terminated", "kill", "join_killed", "returned"}
  /\ result.status \in {"unset", "timeout"}
  /\ child \in Alive
  /\ child' = "killed"
  /\ UNCHANGED <<parent, message, pipe, result>>

-----------------------------------------------------------------------------
(* run_isolated *)

Start ==
  /\ parent = "start"
  /\ parent' = "join"
  /\ child' = "computing"
  /\ UNCHANGED <<message, pipe, result>>

\* The child cannot end without help.
Stuck == child = "hung" \/ (child = "flushing" /\ message.kind # "garbage" /\ ~Fits)

Join ==
  /\ parent = "join"
  /\ \/ child \in Dead
     \/ Ample => Stuck      \* process.join(timeout) gives up
  /\ parent' = "check"
  /\ UNCHANGED <<child, message, pipe, result>>

\* Mutant: the queue is read without asking whether the child still lives.
IsAliveUnasked ==
  /\ parent = "check"
  /\ parent' = "get"
  /\ UNCHANGED <<child, message, pipe, result>>

IsAlive ==
  /\ parent = "check"
  /\ parent' = IF child \in Alive THEN "terminate" ELSE "get"
  /\ UNCHANGED <<child, message, pipe, result>>

Terminate ==
  /\ parent = "terminate"
  /\ parent' = "join_terminated"
  /\ UNCHANGED <<child, message, pipe, result>>

\* join(5) returns because the child is dead, or after five seconds; whether it
\* is alive is asked after that.
JoinTerminated ==
  /\ parent = "join_terminated"
  /\ \/ child \in Alive /\ parent' = "kill" /\ UNCHANGED result
     \/ /\ child \in Dead
        /\ parent' = "returned"
        /\ result' = [status |-> "timeout", exit_code |-> ExitCode]
  /\ UNCHANGED <<child, message, pipe>>

Kill ==
  /\ parent = "kill"
  /\ parent' = "join_killed"
  /\ UNCHANGED <<child, message, pipe, result>>

\* Mutant: the last join has no timeout.
JoinKilledForever ==
  /\ parent = "join_killed"
  /\ child \in Dead
  /\ parent' = "returned"
  /\ result' = [status |-> "timeout", exit_code |-> ExitCode]
  /\ UNCHANGED <<child, message, pipe>>

\* Mutant: a killed child is assumed to be dead.
JoinKilledAssumed ==
  /\ parent = "join_killed"
  /\ parent' = "returned"
  /\ result' = [status |-> "timeout", exit_code |-> "nonzero"]
  /\ UNCHANGED <<child, message, pipe>>

\* Mutant: the exit code is left out of the result.
JoinKilledSilent ==
  /\ parent = "join_killed"
  /\ parent' = "returned"
  /\ result' = [status |-> "timeout"]
  /\ UNCHANGED <<child, message, pipe>>

\* The result is a timeout whether or not the last join(5) saw the child end.
JoinKilled ==
  /\ parent = "join_killed"
  /\ parent' = "returned"
  /\ result' = [status |-> "timeout", exit_code |-> ExitCode]
  /\ UNCHANGED <<child, message, pipe>>

\* get(timeout=1), then the queue is closed.
Get ==
  /\ parent = "get"
  /\ pipe
  /\ pipe' = FALSE
  /\ result' = [status |-> message.kind, exit_code |-> ExitCode]
  /\ parent' = "returned"
  /\ UNCHANGED <<child, message>>

GetEmpty ==
  /\ parent = "get"
  /\ ~pipe
  /\ result' = [status |-> "crash", exit_code |-> ExitCode]
  /\ parent' = "returned"
  /\ UNCHANGED <<child, message, pipe>>

-----------------------------------------------------------------------------

ParentStep ==
  \/ Start \/ Join \/ IsAlive \/ Terminate \/ JoinTerminated \/ Kill \/ JoinKilled
  \/ Get \/ GetEmpty

ChildStep == Compute \/ Hang \/ Abort \/ Flush \/ DropGarbage \/ ChildExits \/ Die

Next == ParentStep \/ ChildStep

\* The parent is scheduled, and its joins and its get do give up.  No fairness makes
\* a child go on, or a signalled one die.
Fairness == WF_vars(ParentStep)

Spec == Init /\ [][Next]_vars /\ Fairness

-----------------------------------------------------------------------------
(* Properties *)

Returned == parent = "returned"

\* The caller is told what its child did.  A success or an error is the message the
\* child itself sent, read after the child was dead, and the exit code beside it
\* says how it died: a child that crashes after its message was written still
\* succeeded.  "Worker exited without returning a result" is said only of a child
\* that crashed, or whose result could not be pickled, never of one that ended in
\* good order with a message on the way.
StatusIsChilds ==
  Returned =>
    /\ result.status # "timeout" =>
         child \in {"exited", "aborted"} /\ result.exit_code = ExitCode
    /\ result.status \in {"success", "error"} => result.status = message.kind
    /\ result.status = "crash" => child = "aborted" \/ message.kind = "garbage"

\* No child outlives the call unless the result says so: a timeout whose
\* exit_code is None.
NoSilentSurvivor ==
  Returned /\ child \in Alive => result = [status |-> "timeout", exit_code |-> "none"]

\* test_isolation.py expects success of a function that returns its value well
\* before the timeout, and the timeout message says that the worker exceeded it:
\* a timeout is reported only of a child whose function did not finish.
TimeoutMeansUnfinished ==
  Returned /\ result.status = "timeout" => message = NoMessage
=============================================================================

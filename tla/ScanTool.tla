------------------------------ MODULE ScanTool ------------------------------
(***************************************************************************)
(* The uia_perceive_window handler (sidecar/hermes_plugin.py) and the      *)
(* subprocess transport it calls (sidecar/plugin_runtime.py).  Handlers    *)
(* run on the threads of a Hermes process; every process that imported the *)
(* plugin owns one scan slot, a module-level BoundedSemaphore(1).  A scan  *)
(* is a one-shot worker process that the handler waits for until the       *)
(* requested timeout plus two seconds, then kills and reaps.               *)
(*                                                                         *)
(* Abstractions: a request is its call; time is the nondeterministic       *)
(* Deadline step; what the worker computed is one of the ways it may exit. *)
(* A KeyboardInterrupt is delivered where the handler blocks, which is     *)
(* where nearly all of its time goes, not between two bytecodes.           *)
(***************************************************************************)
EXTENDS Naturals

CONSTANTS Calls,         \* tool calls, each handled once
          Processes,     \* Hermes processes that imported the plugin
          ProcessOf,     \* the process whose thread handles a call
          Interruptible  \* calls handled on a main thread, where Ctrl-C lands

ASSUME ProcessOfAssumption == ProcessOf \in [Calls -> Processes]
ASSUME InterruptibleAssumption == Interruptible \subseteq Calls

VARIABLES pc,        \* where the handler of each call is
          slot,      \* free permits of _SCAN_SLOT, per process
          worker,    \* the worker process of each call
          answer,    \* the code of what the handler returns, or "snapshot"
          installed  \* runtime_python() is a file

vars == <<pc, slot, worker, answer, installed>>

Places == {"admit", "acquire", "probe", "spawn", "wait", "kill",
           "reap", "release", "unwind", "reply", "done"}

LiveWorker == {"running", "terminating"}
Exits == {"snapshot", "error", "junk", "crash"}
WorkerStates == {"none", "killed"} \cup LiveWorker \cup Exits

\* What run_runtime_worker makes of the worker's exit.
ResultOf == [snapshot |-> "snapshot",
             error    |-> "worker_error",
             junk     |-> "tree_worker_invalid_output",
             crash    |-> "tree_worker_failed"]

Refusals == {"invalid_arguments", "runtime_unavailable"}
Answers == {"none", "scan_in_progress", "runtime_vanished", "tree_worker_timeout",
            "snapshot", "worker_error", "tree_worker_invalid_output",
            "tree_worker_failed", "output_budget_exceeded", "raised"} \cup Refusals

TypeOK ==
  /\ pc \in [Calls -> Places]
  /\ slot \in [Processes -> 0..1]
  /\ worker \in [Calls -> WorkerStates]
  /\ answer \in [Calls -> Answers]
  /\ installed \in BOOLEAN

Init ==
  /\ pc = [c \in Calls |-> "admit"]
  /\ slot = [p \in Processes |-> 1]
  /\ worker = [c \in Calls |-> "none"]
  /\ answer = [c \in Calls |-> "none"]
  /\ installed \in BOOLEAN

At(c, place) == pc[c] = place
Goto(c, place) == pc' = [pc EXCEPT ![c] = place]
AnswerAt(c, place, code) ==
  Goto(c, place) /\ answer' = [answer EXCEPT ![c] = code]

-----------------------------------------------------------------------------
(* handle_uia_perceive_window before the slot *)

\* The arguments are checked first; whether they are valid is the caller's doing.
Admit(c) ==
  /\ At(c, "admit")
  /\ \/ AnswerAt(c, "done", "invalid_arguments")
     \/ ~installed /\ AnswerAt(c, "done", "runtime_unavailable")
     \/ installed /\ Goto(c, "acquire") /\ UNCHANGED answer
  /\ UNCHANGED <<slot, worker, installed>>

\* Mutant: the permit is looked at but not taken.
AcquireUncounted(c) ==
  /\ At(c, "acquire")
  /\ slot[ProcessOf[c]] > 0
  /\ Goto(c, "probe")
  /\ UNCHANGED <<slot, worker, answer, installed>>

Acquire(c) ==
  /\ At(c, "acquire")
  /\ slot[ProcessOf[c]] > 0
  /\ slot' = [slot EXCEPT ![ProcessOf[c]] = @ - 1]
  /\ Goto(c, "probe")
  /\ UNCHANGED <<worker, answer, installed>>

\* Mutant: acquire is inside the try, whose finally releases what it never got.
BusyInsideTry(c) ==
  /\ At(c, "acquire")
  /\ slot[ProcessOf[c]] = 0
  /\ slot' = [slot EXCEPT ![ProcessOf[c]] = @ + 1]
  /\ AnswerAt(c, "done", "scan_in_progress")
  /\ UNCHANGED <<worker, installed>>

Busy(c) ==
  /\ At(c, "acquire")
  /\ slot[ProcessOf[c]] = 0
  /\ AnswerAt(c, "done", "scan_in_progress")
  /\ UNCHANGED <<slot, worker, installed>>

-----------------------------------------------------------------------------
(* run_runtime_worker, which holds the slot *)

\* The runtime is looked up a second time: setup may have run in between.
Probe(c) ==
  /\ At(c, "probe")
  /\ \/ installed /\ Goto(c, "spawn") /\ UNCHANGED answer
     \/ ~installed /\ AnswerAt(c, "release", "runtime_vanished")
  /\ UNCHANGED <<slot, worker, installed>>

\* Popen may raise OSError, outside any try of run_runtime_worker; it does when
\* the executable is gone again.
Spawn(c) ==
  /\ At(c, "spawn")
  /\ \/ /\ installed
        /\ worker' = [worker EXCEPT ![c] = "running"]
        /\ Goto(c, "wait")
     \/ UNCHANGED worker /\ Goto(c, "unwind")
  /\ UNCHANGED <<slot, answer, installed>>

Collect(c) ==
  /\ At(c, "wait")
  /\ worker[c] \in Exits
  /\ AnswerAt(c, "release", ResultOf[worker[c]])
  /\ UNCHANGED <<slot, worker, installed>>

\* Mutant: the timeout is answered and the worker left alone.
DeadlineAbandons(c) ==
  /\ At(c, "wait")
  /\ AnswerAt(c, "release", "tree_worker_timeout")
  /\ UNCHANGED <<slot, worker, installed>>

\* communicate raises TimeoutExpired; the worker may still exit before Kill.
Deadline(c) ==
  /\ At(c, "wait")
  /\ Goto(c, "kill")
  /\ UNCHANGED <<slot, worker, answer, installed>>

\* Mutant: the worker is waited for but not killed.
KillNothing(c) ==
  /\ At(c, "kill")
  /\ Goto(c, "reap")
  /\ UNCHANGED <<slot, worker, answer, installed>>

\* process.kill() asks the system to end the worker; a dead one is left alone.
Kill(c) ==
  /\ At(c, "kill")
  /\ worker' = [worker EXCEPT ![c] = IF @ = "running" THEN "terminating" ELSE @]
  /\ Goto(c, "reap")
  /\ UNCHANGED <<slot, answer, installed>>

\* Mutant: killed but not reaped.
ReapBlind(c) ==
  /\ At(c, "reap")
  /\ AnswerAt(c, "release", "tree_worker_timeout")
  /\ UNCHANGED <<slot, worker, installed>>

\* The second communicate() has no timeout: it returns once the worker is gone.
Reap(c) ==
  /\ At(c, "reap")
  /\ worker[c] \notin LiveWorker
  /\ AnswerAt(c, "release", "tree_worker_timeout")
  /\ UNCHANGED <<slot, worker, installed>>

\* KeyboardInterrupt in either communicate(): no handler kills the worker.
Interrupt(c) ==
  /\ c \in Interruptible
  /\ At(c, "wait") \/ At(c, "reap")
  /\ Goto(c, "unwind")
  /\ UNCHANGED <<slot, worker, answer, installed>>

-----------------------------------------------------------------------------
(* the finally of the handler, and what follows it *)

Release(c) ==
  /\ At(c, "release")
  /\ slot' = [slot EXCEPT ![ProcessOf[c]] = @ + 1]
  /\ Goto(c, "reply")
  /\ UNCHANGED <<worker, answer, installed>>

\* Mutant: the slot is released after the call instead of in a finally.
UnwindKeepsSlot(c) ==
  /\ At(c, "unwind")
  /\ AnswerAt(c, "done", "raised")
  /\ UNCHANGED <<slot, worker, installed>>

Unwind(c) ==
  /\ At(c, "unwind")
  /\ slot' = [slot EXCEPT ![ProcessOf[c]] = @ + 1]
  /\ AnswerAt(c, "done", "raised")
  /\ UNCHANGED <<worker, installed>>

\* The profile name and byte count are added, then the size is checked again:
\* a snapshot that filled its budget in the worker no longer fits.
Reply(c) ==
  /\ At(c, "reply")
  /\ \/ Goto(c, "done") /\ UNCHANGED answer
     \/ answer[c] = "snapshot" /\ AnswerAt(c, "done", "output_budget_exceeded")
  /\ UNCHANGED <<slot, worker, installed>>

-----------------------------------------------------------------------------
(* the worker, the operating system and the operator *)

\* main() of the worker turns every exception into an error object; a crash is
\* a nonzero exit status, junk anything that does not parse as an object.
WorkerExits(c) ==
  /\ worker[c] = "running"
  /\ \E how \in Exits : worker' = [worker EXCEPT ![c] = how]
  /\ UNCHANGED <<pc, slot, answer, installed>>

WorkerDies(c) ==
  /\ worker[c] = "terminating"
  /\ worker' = [worker EXCEPT ![c] = "killed"]
  /\ UNCHANGED <<pc, slot, answer, installed>>

\* "hermes heaw setup" and "setup --force" in another process.
RuntimeChanges ==
  /\ installed' = ~installed
  /\ UNCHANGED <<pc, slot, worker, answer>>

-----------------------------------------------------------------------------

HandlerStep(c) ==
  \/ Admit(c) \/ Acquire(c) \/ Busy(c)
  \/ Probe(c) \/ Spawn(c)
  \/ Collect(c) \/ Deadline(c) \/ Kill(c) \/ Reap(c)
  \/ Release(c) \/ Unwind(c) \/ Reply(c)

CallStep(c) == HandlerStep(c) \/ Interrupt(c) \/ WorkerExits(c) \/ WorkerDies(c)

Next == RuntimeChanges \/ \E c \in Calls : CallStep(c)

\* A handler thread is scheduled until it returns, the deadline does expire and
\* the system does end a process it was told to end.  A worker need not exit.
Fairness == \A c \in Calls : WF_vars(HandlerStep(c)) /\ WF_vars(WorkerDies(c))

SafetySpec == Init /\ [][Next]_vars

Spec == SafetySpec /\ Fairness

-----------------------------------------------------------------------------
(* Properties *)

Holding(c) == pc[c] \in {"probe", "spawn", "wait", "kill", "reap", "release", "unwind"}
SameProcess(c, d) == ProcessOf[c] = ProcessOf[d]

\* The permits of _SCAN_SLOT and the handlers inside the try agree: no return,
\* timeout or exception leaks the permit or hands it back twice.
SlotAccounting ==
  /\ \A c, d \in Calls : Holding(c) /\ Holding(d) /\ SameProcess(c, d) => c = d
  /\ \A p \in Processes :
       slot[p] = 0 <=> \E c \in Calls : ProcessOf[c] = p /\ Holding(c)

\* Two workers of one process are alive together only after a handler of one of
\* them was interrupted while it waited: a timeout never leaves its worker
\* running beside the next scan.
ScanExclusion ==
  \A c, d \in Calls :
    /\ c # d /\ SameProcess(c, d)
    /\ worker[c] \in LiveWorker /\ worker[d] \in LiveWorker
    => \E o \in {c, d} : o \in Interruptible /\ pc[o] \in {"unwind", "done"}

\* What the agent is told is what happened to the worker of its own call: a
\* snapshot was produced by it, a refused call started none, and whatever is
\* answered, timeouts included, the worker is dead by then.
AnswerHonest ==
  \A c \in Calls : At(c, "done") =>
    /\ answer[c] # "none"
    /\ answer[c] \in {"snapshot", "output_budget_exceeded"} => worker[c] = "snapshot"
    /\ answer[c] \in Refusals \cup {"scan_in_progress", "runtime_vanished"}
         => worker[c] = "none"
    /\ answer[c] # "raised" => worker[c] \notin LiveWorker

\* The README's and SECURITY.md's unconditional sentence, "one scan may run per
\* profile at a time", read as: no two workers of one process are alive.
OneScanAtATime ==
  \A c, d \in Calls :
    c # d /\ SameProcess(c, d) => ~(worker[c] \in LiveWorker /\ worker[d] \in LiveWorker)

\* A taken slot is given back whatever the worker does, hanging included.
SlotComesBack == \A p \in Processes : slot[p] = 0 ~> slot[p] = 1

\* How the handler looks from outside.
Phase(c) ==
  IF pc[c] \in {"admit", "acquire"} THEN "asked"
  ELSE IF Holding(c) THEN "scanning"
  ELSE IF At(c, "done") /\ answer[c] \in Refusals THEN "refused"
  ELSE IF At(c, "done") /\ answer[c] = "scan_in_progress" THEN "busy"
  ELSE "answered"

ServicePhase == [c \in Calls |-> Phase(c)]

Service == INSTANCE ScanService WITH phase <- ServicePhase

\* The handler implements the service: refused or served one at a time per
\* process, busy only while another call really holds the slot, and every call
\* is eventually answered.
ImplementsService == Service!Spec
=============================================================================

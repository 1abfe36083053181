---------------------------- MODULE RuntimeSetup ----------------------------
(***************************************************************************)
(* setup_runtime of sidecar/plugin_runtime.py: "hermes heaw setup" builds  *)
(* a virtual environment in a fresh staging directory, smoke-tests it, and *)
(* swaps it with the profile's runtime by two renames, the old runtime     *)
(* waiting in a backup directory until the new one is in place.            *)
(*                                                                         *)
(* A directory is abstracted to what the program can tell, now or by       *)
(* running it: absent, bare (exists, no python executable), unready (has   *)
(* the executable but was not validated, or lost files since) or ready (it *)
(* passed the smoke import and is whole).  The four subprocess commands,   *)
(* the renames and rmtree may fail at any point, Ctrl-C included, since    *)
(* the except clause catches BaseException; a crash is the process being   *)
(* killed.  Renaming onto an existing directory fails, as it does on       *)
(* Windows, the only platform setup runs on.                               *)
(***************************************************************************)
CONSTANT Setups  \* invocations of setup_runtime on one profile

VARIABLES pc,       \* where each setup is
          target,   \* runtime_dir()
          staging,  \* .stg-<uuid> of each setup
          backup,   \* .bak-<uuid> of each setup
          overlapped  \* history: a setup began while another was in progress

vars == <<pc, target, staging, backup, overlapped>>

Directory == {"absent", "bare", "unready", "ready"}
HasPython(d) == d \in {"unready", "ready"}

\* What may be left of a directory when deleting it stops part way.
Remains == [absent  |-> {"absent"},
            bare    |-> {"absent", "bare"},
            unready |-> {"absent", "bare", "unready"},
            ready   |-> Directory]

Commands == {"venv", "upgrade_pip", "install", "smoke"}
Trying == Commands \cup {"set_aside", "publish", "drop_backup"}
Handling == {"clean", "restore"}
Ended == {"kept", "built", "failed", "stranded", "crashed"}
InProgress == Trying \cup Handling

\* What is about to be swapped in passed its smoke import, and is still there.
StagingValidated ==
  \A s \in Setups : pc[s] \in {"set_aside", "publish"} => staging[s] = "ready"

TypeOK ==
  /\ pc \in [Setups -> {"idle"} \cup InProgress \cup Ended]
  /\ target \in Directory
  /\ staging \in [Setups -> Directory]
  /\ backup \in [Setups -> Directory]
  /\ overlapped \in BOOLEAN
  /\ StagingValidated

Init ==
  /\ pc = [s \in Setups |-> "idle"]
  /\ target \in {"absent", "ready"}
  /\ staging = [s \in Setups |-> "absent"]
  /\ backup = [s \in Setups |-> "absent"]
  /\ overlapped = FALSE

At(s, place) == pc[s] = place
Goto(s, place) == pc' = [pc EXCEPT ![s] = place]

-----------------------------------------------------------------------------
(* Building the new runtime, away from the target *)

Start(s) ==
  /\ At(s, "idle")
  /\ overlapped' = (overlapped \/ \E r \in Setups : pc[r] \in InProgress)
  /\ \E force \in BOOLEAN :
       Goto(s, IF HasPython(target) /\ ~force THEN "kept" ELSE "venv")
  /\ UNCHANGED <<target, staging, backup>>

\* Mutant: the swap does not wait for a smoke import.
AfterTrusting ==
  [venv |-> "upgrade_pip", upgrade_pip |-> "install", install |-> "set_aside",
   smoke |-> "set_aside"]

After ==
  [venv |-> "upgrade_pip", upgrade_pip |-> "install", install |-> "smoke",
   smoke |-> "set_aside"]

\* A command that exits with status 0.
RunCommand(s) ==
  /\ pc[s] \in Commands
  /\ Goto(s, After[pc[s]])
  /\ staging' = [staging EXCEPT ![s] = IF At(s, "smoke") THEN "ready" ELSE "unready"]
  /\ UNCHANGED <<target, backup>>

-----------------------------------------------------------------------------
(* Swapping it in *)

\* Mutant: the new runtime is renamed to the backup, not the old one.
SetAsideStaging(s) ==
  /\ At(s, "set_aside")
  /\ Goto(s, "publish")
  /\ backup' = [backup EXCEPT ![s] = staging[s]]
  /\ staging' = [staging EXCEPT ![s] = "absent"]
  /\ UNCHANGED target

\* Mutant: the old runtime is deleted to make room, not renamed.
SetAsideDeletes(s) ==
  /\ At(s, "set_aside")
  /\ Goto(s, "publish")
  /\ target' = "absent"
  /\ UNCHANGED <<staging, backup>>

SetAside(s) ==
  /\ At(s, "set_aside")
  /\ Goto(s, "publish")
  /\ IF target # "absent"
       THEN target' = "absent" /\ backup' = [backup EXCEPT ![s] = target]
       ELSE UNCHANGED <<target, backup>>
  /\ UNCHANGED staging

Publish(s) ==
  /\ At(s, "publish")
  /\ target = "absent"
  /\ target' = staging[s]
  /\ staging' = [staging EXCEPT ![s] = "absent"]
  /\ Goto(s, "drop_backup")
  /\ UNCHANGED backup

\* rmtree deletes file by file; other processes see the directory decay.
DropSome(s) ==
  /\ At(s, "drop_backup")
  /\ \E left \in Remains[backup[s]] \ {backup[s]} :
       backup' = [backup EXCEPT ![s] = left]
  /\ UNCHANGED <<pc, target, staging>>

\* Mutant: rmtree(backup, ignore_errors=True), whatever it leaves.
FinishAnyway(s) ==
  /\ At(s, "drop_backup")
  /\ Goto(s, "built")
  /\ UNCHANGED <<target, staging, backup>>

Finish(s) ==
  /\ At(s, "drop_backup")
  /\ backup[s] = "absent"
  /\ Goto(s, "built")
  /\ UNCHANGED <<target, staging, backup>>

-----------------------------------------------------------------------------
(* Failing: except BaseException *)

\* Mutant: a failed command starts the setup over.
FailRetries(s) ==
  /\ pc[s] \in Commands
  /\ Goto(s, "venv")
  /\ UNCHANGED <<target, staging, backup>>

\* A venv command that does not finish leaves any part of the directory.
Abandon(s) ==
  IF At(s, "venv")
    THEN \E part \in {"absent", "bare", "unready"} :
           staging' = [staging EXCEPT ![s] = part]
    ELSE UNCHANGED staging

\* A command or rename that raises.
Fail(s) ==
  /\ pc[s] \in Trying
  /\ Abandon(s)
  /\ Goto(s, "clean")
  /\ UNCHANGED <<target, backup>>

\* rmtree(staging, ignore_errors=True): whatever could not be deleted stays.
CleanStaging(s) ==
  /\ At(s, "clean")
  /\ \E left \in Remains[staging[s]] : staging' = [staging EXCEPT ![s] = left]
  /\ Goto(s, "restore")
  /\ UNCHANGED <<target, backup>>

\* Mutant: no rollback.
RestoreNothing(s) ==
  /\ At(s, "restore")
  /\ Goto(s, "failed")
  /\ UNCHANGED <<target, staging, backup>>

\* The backup goes back only where no runtime is.  When that rename raises too,
\* the old runtime stays stranded in the backup directory.
Restore(s) ==
  /\ At(s, "restore")
  /\ IF backup[s] # "absent" /\ target = "absent"
       THEN \/ /\ target' = backup[s]
               /\ backup' = [backup EXCEPT ![s] = "absent"]
               /\ Goto(s, "failed")
            \/ Goto(s, "stranded") /\ UNCHANGED <<target, backup>>
       ELSE Goto(s, "failed") /\ UNCHANGED <<target, backup>>
  /\ UNCHANGED staging

\* The process is killed, or the machine goes down.
Crash(s) ==
  /\ pc[s] \in InProgress
  /\ Abandon(s)
  /\ Goto(s, "crashed")
  /\ UNCHANGED <<target, backup, overlapped>>

-----------------------------------------------------------------------------

Work(s) ==
  /\ \/ RunCommand(s) \/ SetAside(s) \/ Publish(s) \/ DropSome(s) \/ Finish(s)
     \/ Fail(s) \/ CleanStaging(s) \/ Restore(s)
  /\ UNCHANGED overlapped

Next == \E s \in Setups : Start(s) \/ Work(s) \/ Crash(s)

\* A running setup goes on: each command has a timeout (300 or 60 seconds).
Fairness == \A s \in Setups : WF_vars(Work(s))

SafetySpec == Init /\ [][Next]_vars

Spec == SafetySpec /\ Fairness

-----------------------------------------------------------------------------
(* Properties *)

RuntimeAvailable == HasPython(target)

\* runtime_available() only looks for an executable.  As long as setups ran one at
\* a time that is enough: whatever it accepts passed its smoke import and is whole,
\* through every failure, crash and rerun.
AvailableMeansReady == ~overlapped /\ RuntimeAvailable => target = "ready"

SomeReady == target = "ready" \/ \E s \in Setups : backup[s] = "ready"

\* A working runtime is never lost: however setups overlap, fail or die, it is
\* at the target, or whole in some backup directory, until a new one replaced it.
ReadySurvives == [][SomeReady => SomeReady']_vars

Becomes(s, place) == ~At(s, place) /\ pc'[s] = place

\* As long as setups ran one at a time, one that fails and can still rename rolls
\* back: when it returns, the profile has the working runtime it had before, or the
\* new one.
FailureRollsBack ==
  [][~overlapped' => \A s \in Setups :
       Becomes(s, "failed") /\ (target = "ready" \/ backup[s] = "ready")
         => target' = "ready"]_vars

\* As long as setups ran one at a time, success is reported only over a working
\* runtime, whether built or found, and a build leaves no staging or backup
\* directory behind.
SuccessIsReady ==
  [][~overlapped' => \A s \in Setups :
       /\ Becomes(s, "built") \/ Becomes(s, "kept") => target' = "ready"
       /\ Becomes(s, "built") => staging'[s] = "absent" /\ backup'[s] = "absent"]_vars

\* Every setup that begins ends, its process dying included.
SetupEnds == \A s \in Setups : pc[s] \in InProgress ~> pc[s] \in Ended
=============================================================================

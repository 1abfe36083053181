------------------------ MODULE CliPerceive_proofs ------------------------
(***************************************************************************)
(* Proofs about Isolation and CliPerceive.  For messages of any sizes and  *)
(* a pipe of any capacity, the result of run_isolated is what its child    *)
(* did, and a child that outlives the call can be seen in it.  The         *)
(* invariant of the subprocess, IInv, carries over to the program around   *)
(* it, and what main prints and writes follows from the result it got.     *)
(***************************************************************************)
EXTENDS CliPerceive, TLAPS

\* Which child goes with which place of the parent.  Only a parent past its first
\* join signals the child, so nobody kills a child whose message is awaited.
ChildMatchesPlace ==
  /\ child = "unborn" <=> parent = "start"
  /\ child = "killed" => parent \notin {"join", "check", "terminate", "get"}
  /\ parent = "get" => child \in {"exited", "aborted"}

\* A message exists from the end of the computation on, and one that can be
\* pickled is in the pipe when its child goes down in good order, until it is read.
MessageMatchesChild ==
  /\ child \in {"unborn", "computing"} => message = NoMessage
  /\ child \in {"flushing", "exiting", "exited"} => message \in Messages \ {NoMessage}
  /\ pipe => message.kind \in {"success", "error"}
             /\ child \in {"exiting", "exited", "hung", "aborted", "killed"}
  /\ child \in {"exiting", "exited"} /\ message.kind # "garbage" /\ parent # "returned"
       => pipe

ResultMatchesPlace == result.status = "unset" <=> parent # "returned"

IInv ==
  /\ TypeOK /\ ChildMatchesPlace /\ MessageMatchesChild /\ ResultMatchesPlace
  /\ StatusIsChilds /\ NoSilentSurvivor

-----------------------------------------------------------------------------

LEMMA KindsOfMessages ==
  /\ NoMessage \in Messages /\ NoMessage.kind = "none"
  /\ \A m \in Messages : m.kind \in {"none", "success", "error", "garbage"}
  /\ \A m \in Messages \ {NoMessage} : m.kind \in {"success", "error", "garbage"}
BY DEF NoMessage, Messages

LEMMA ExitCodes ==
  /\ ExitCode \in {"none", "zero", "nonzero"}
  /\ child = "exited" => ExitCode = "zero"
  /\ child \in Alive => ExitCode = "none"
BY DEF ExitCode, Alive, Dead

\* A dead child keeps its exit code.
LEMMA ExitCodeStays == child' = child => ExitCode' = ExitCode
BY DEF ExitCode

LEMMA InitInv == Init => IInv
<1> SUFFICES ASSUME Init PROVE IInv OBVIOUS
<1>1. TypeOK
  BY KindsOfMessages DEF Init, TypeOK, Unset, Results
<1> QED
  BY <1>1, KindsOfMessages DEF Init, IInv, ChildMatchesPlace, MessageMatchesChild,
     ResultMatchesPlace, StatusIsChilds, NoSilentSurvivor, Returned, Unset

LEMMA ChildStepInv == IInv /\ ChildStep => IInv'
<1> SUFFICES ASSUME IInv, ChildStep PROVE IInv' OBVIOUS
<1> USE KindsOfMessages, ExitCodeStays
     DEF IInv, TypeOK, ChildMatchesPlace, MessageMatchesChild,
     ResultMatchesPlace, StatusIsChilds, NoSilentSurvivor, Returned, Alive, Dead
<1>1. CASE Compute BY <1>1 DEF Compute
<1>2. CASE Hang BY <1>2 DEF Hang
<1>3. CASE Abort BY <1>3 DEF Abort
<1>4. CASE Flush BY <1>4 DEF Flush
<1>5. CASE DropGarbage BY <1>5 DEF DropGarbage
<1>6. CASE ChildExits BY <1>6 DEF ChildExits
<1>7. CASE Die BY <1>7 DEF Die
<1> QED BY <1>1, <1>2, <1>3, <1>4, <1>5, <1>6, <1>7 DEF ChildStep

LEMMA ParentStepInv == IInv /\ ParentStep => IInv'
<1> SUFFICES ASSUME IInv, ParentStep PROVE IInv' OBVIOUS
<1> USE KindsOfMessages, ExitCodeStays
     DEF IInv, TypeOK, ChildMatchesPlace, MessageMatchesChild,
     ResultMatchesPlace, StatusIsChilds, NoSilentSurvivor, Returned, Alive, Dead
<1>1. CASE Start BY <1>1 DEF Start
<1>2. CASE Join BY <1>2 DEF Join
<1>3. CASE IsAlive BY <1>3 DEF IsAlive
<1>4. CASE Terminate BY <1>4 DEF Terminate
<1>5. CASE JoinTerminated BY <1>5, ExitCodes DEF JoinTerminated, Results
<1>6. CASE Kill BY <1>6 DEF Kill
<1>7. CASE JoinKilled BY <1>7, ExitCodes DEF JoinKilled, Results
<1>8. CASE Get BY <1>8, ExitCodes DEF Get, Results
<1>9. CASE GetEmpty BY <1>9, ExitCodes DEF GetEmpty, Results
<1> QED
  BY <1>1, <1>2, <1>3, <1>4, <1>5, <1>6, <1>7, <1>8, <1>9 DEF ParentStep

LEMMA Inductive == Spec => []IInv
<1>1. IInv /\ UNCHANGED vars => IInv'
  BY ExitCodeStays
  DEF IInv, TypeOK, ChildMatchesPlace, MessageMatchesChild, ResultMatchesPlace,
     StatusIsChilds, NoSilentSurvivor, Returned, vars
<1>2. IInv /\ [Next]_vars => IInv'
  BY <1>1, ChildStepInv, ParentStepInv DEF Next
<1> QED BY InitInv, <1>2, PTL DEF Spec

-----------------------------------------------------------------------------

\* Every variable of run_isolated and of its child keeps its type.
THEOREM TypeCorrect == Spec => []TypeOK
BY Inductive, PTL DEF IInv

\* For any sizes and any pipe, run_isolated reports what its child did: a success or
\* error is the child's own message, whether it then exited or crashed, and a crash is
\* that of a child that did not end in good order or sent nothing that can be pickled.
THEOREM StatusTrue == Spec => []StatusIsChilds
BY Inductive, PTL DEF IInv

\* For any sizes and any pipe, a child that survives the call shows in the result
\* as a timeout without an exit code.
THEOREM SurvivorSeen == Spec => []NoSilentSurvivor
BY Inductive, PTL DEF IInv

-----------------------------------------------------------------------------
(* The program around the subprocess *)

Before == {"arguments", "environment", "route", "find", "attach"}

\* What the subprocess is at each place of main.
ResultMatchesMain ==
  /\ cli \in Before => parent = "start" /\ child = "unborn"
  /\ cli \in {"capture", "output"} => parent = "returned" /\ result.status = "success"
  /\ shot.written => parent = "returned" /\ result.status = "success"

\* What was printed at each exit.
PrintedMatchesResult ==
  /\ printed = "nothing" <=> cli # "exit"
  /\ exit = 0 <=> printed \in {"list", "snapshot"}
  /\ printed = "snapshot" => parent = "returned" /\ result.status = "success"
  /\ printed = "tree_worker_failed" => parent = "returned" /\ result.status = "error"
  /\ printed = "tree_worker_crashed" => parent = "returned" /\ result.status = "crash"
  /\ shot.written /\ cli = "exit" => printed \in {"snapshot", "traceback"}

CliIInv == IInv /\ CliTypeOK /\ ResultMatchesMain /\ PrintedMatchesResult

-----------------------------------------------------------------------------

LEMMA CliInitInv == CliInit => CliIInv
<1> SUFFICES ASSUME CliInit PROVE CliIInv OBVIOUS
<1>1. IInv BY InitInv DEF CliInit
<1>2. CliTypeOK BY <1>1 DEF IInv, CliTypeOK, CliInit, NoTarget
<1> QED
  BY <1>1, <1>2 DEF CliIInv, CliInit, Init, ResultMatchesMain, PrintedMatchesResult

\* Nothing the child does changes a result that was returned.
LEMMA ReturnedStays ==
  ASSUME Next, parent = "returned"
  PROVE  parent' = "returned" /\ result' = result
BY DEF Next, ParentStep, ChildStep, Start, Join, IsAlive, Terminate, JoinTerminated,
   Kill, JoinKilled, Get, GetEmpty, Compute, Hang, Abort, Flush, DropGarbage,
   ChildExits, Die

LEMMA IsolatedInv == CliIInv /\ Isolated => CliIInv'
<1> SUFFICES ASSUME CliIInv, Isolated PROVE CliIInv' OBVIOUS
<1>1. IInv'
  BY ChildStepInv, ParentStepInv DEF CliIInv, Isolated, Next
<1>2. CliTypeOK'
  BY <1>1 DEF CliIInv, IInv, CliTypeOK, Isolated, cliVars
<1>3. parent = "returned" => parent' = "returned" /\ result' = result
  BY ReturnedStays DEF Isolated
<1>4. ResultMatchesMain'
  BY <1>3 DEF CliIInv, ResultMatchesMain, Isolated, cliVars, Before
<1>5. PrintedMatchesResult'
  BY <1>3 DEF CliIInv, PrintedMatchesResult, Isolated, cliVars
<1> QED BY <1>1, <1>2, <1>4, <1>5 DEF CliIInv

\* Where main goes from each of its places; the subprocess stays as it is.
LEMMA MainMoves ==
  ASSUME Main
  PROVE  /\ UNCHANGED vars
         /\ \/ cli \in {"arguments", "environment", "route", "find", "attach", "isolated",
                        "capture", "output"} /\ cli' = "exit"
            \/ <<cli, cli'>> \in
                 {<<"arguments", "environment">>, <<"environment", "route">>,
                  <<"route", "find">>, <<"find", "attach">>, <<"attach", "isolated">>,
                  <<"isolated", "capture">>, <<"capture", "output">>}
<1> USE DEF Exit, Goto
<1>1. CASE CheckArguments \/ CheckEnvironment
  BY <1>1 DEF CheckArguments, CheckEnvironment
<1>2. CASE RouteList \/ RoutePerceive
  BY <1>2 DEF RouteList, RoutePerceive
<1>3. CASE Find \/ FindNothing \/ FindRaises \/ Attach
  BY <1>3 DEF Find, FindNothing, FindRaises, Attach
<1>4. CASE WorkerFailed \/ WorkerSucceeded
  BY <1>4 DEF WorkerFailed, WorkerSucceeded
<1>5. CASE Capture \/ CaptureRaises \/ Output \/ OutputRaises
  BY <1>5 DEF Capture, CaptureRaises, Output, OutputRaises
<1> QED
  BY <1>1, <1>2, <1>3, <1>4, <1>5 DEF Main

LEMMA MainInv == CliIInv /\ Main => CliIInv'
<1> SUFFICES ASSUME CliIInv, Main PROVE CliIInv' OBVIOUS
<1>1. UNCHANGED vars
  BY MainMoves
<1>2. IInv'
  BY <1>1, ExitCodeStays DEF CliIInv, IInv, TypeOK, ChildMatchesPlace, MessageMatchesChild,
     ResultMatchesPlace, StatusIsChilds, NoSilentSurvivor, Returned, vars
<1>3. TypeOK' BY <1>2 DEF IInv
<1>4. result.status \in {"unset", "success", "error", "crash", "timeout"}
  BY DEF CliIInv, IInv, TypeOK, Results
<1> USE <1>1, <1>3, <1>4 DEF CliIInv, CliTypeOK, ResultMatchesMain, PrintedMatchesResult,
     Before, vars, Exit, Goto
<1>5. (CliTypeOK /\ ResultMatchesMain /\ PrintedMatchesResult)'
  <2>1. CASE CheckArguments BY <2>1 DEF CheckArguments
  <2>2. CASE CheckEnvironment BY <2>2 DEF CheckEnvironment
  <2>3. CASE RouteList BY <2>3 DEF RouteList
  <2>4. CASE RoutePerceive BY <2>4 DEF RoutePerceive
  <2>5. CASE Find BY <2>5 DEF Find
  <2>6. CASE FindNothing BY <2>6 DEF FindNothing
  <2>7. CASE FindRaises BY <2>7 DEF FindRaises
  <2>8. CASE Attach BY <2>8 DEF Attach
  <2>9. CASE WorkerFailed
    BY <2>9 DEF WorkerFailed, FailureCode, IInv, ResultMatchesPlace
  <2>10. CASE WorkerSucceeded BY <2>10 DEF WorkerSucceeded
  <2>11. CASE Capture BY <2>11 DEF Capture, Capturing
  <2>12. CASE CaptureRaises BY <2>12 DEF CaptureRaises
  <2>13. CASE Output BY <2>13 DEF Output
  <2>14. CASE OutputRaises BY <2>14 DEF OutputRaises
  <2> QED
    BY <2>1, <2>2, <2>3, <2>4, <2>5, <2>6, <2>7, <2>8, <2>9, <2>10, <2>11, <2>12, <2>13,
       <2>14 DEF Main
<1> QED BY <1>2, <1>5

LEMMA CliInductive == CliSpec => []CliIInv
<1>1. CliIInv /\ UNCHANGED allVars => CliIInv'
  BY ExitCodeStays DEF CliIInv, IInv, TypeOK, ChildMatchesPlace, MessageMatchesChild,
     ResultMatchesPlace, StatusIsChilds, NoSilentSurvivor, Returned, CliTypeOK,
     ResultMatchesMain, PrintedMatchesResult, allVars, vars, cliVars
<1>2. CliIInv /\ [CliNext]_allVars => CliIInv'
  BY <1>1, MainInv, IsolatedInv DEF CliNext
<1> QED BY CliInitInv, <1>2, PTL DEF CliSpec

-----------------------------------------------------------------------------

\* Every variable of the CLI and of its subprocess keeps its type.
THEOREM CliTypeCorrect == CliSpec => []CliTypeOK
BY CliInductive, PTL DEF CliIInv

\* For any payload sizes and any pipe, the exit code and the printed error of the
\* CLI are what happened in its subprocess.
THEOREM ExitTrue == CliSpec => []ExitHonest
<1>1. CliIInv => ExitHonest
  BY DEF CliIInv, IInv, StatusIsChilds, Returned, MessageMatchesChild, NoMessage,
     PrintedMatchesResult, ExitHonest
<1> QED BY <1>1, CliInductive, PTL

-----------------------------------------------------------------------------
(* When a timeout is a timeout *)

\* The feeder is done with the message: it is in the pipe, or could not be pickled.
Delivered == pipe \/ message.kind = "garbage"

\* What a parent that gives up may have given up on.
Excused == message = NoMessage \/ ~Fits \/ Delivered

\* With a timeout that is long enough for every function that ends, the parent gives
\* up on a child that cannot end without it, and such a child stays what it is.
GaveUpOnStuck ==
  /\ parent = "check" => child \in Dead \/ Stuck
  /\ parent \in {"terminate", "join_terminated", "kill", "join_killed"} \/
       (Returned /\ result.status = "timeout") =>
       Stuck \/ (child \in {"aborted", "killed"} /\ Excused)
  /\ child = "hung" => Excused

\* A timeout is reported of a function that did not finish, of a message that does not
\* fit the pipe, or of a process that did not end after its message was delivered, and
\* of nothing else.
TimeoutExplained == Returned /\ result.status = "timeout" => Excused

\* For any sizes and any pipe, a function that finished in time is called timed out
\* only because run_isolated waits for the process before it reads the queue: for a
\* message larger than the pipe, or for a process that stays after it delivered.
THEOREM TimeoutsExplained == Ample => (Spec => []TimeoutExplained)
<1> SUFFICES ASSUME Ample PROVE Spec => []TimeoutExplained
  OBVIOUS
<1>1. Init => GaveUpOnStuck
  BY DEF Init, GaveUpOnStuck, Returned
<1>2. IInv /\ GaveUpOnStuck /\ [Next]_vars => GaveUpOnStuck'
  <2> SUFFICES ASSUME IInv, GaveUpOnStuck, [Next]_vars PROVE GaveUpOnStuck'
    OBVIOUS
  <2> USE DEF IInv, TypeOK, ChildMatchesPlace, MessageMatchesChild, ResultMatchesPlace,
              GaveUpOnStuck, Returned, Stuck, Fits, Excused, Delivered, Alive, Dead
  <2>1. CASE ChildStep
    <3>1. CASE Compute BY <3>1 DEF Compute
    <3>2. CASE Hang BY <3>2 DEF Hang, StatusIsChilds, NoSilentSurvivor
    <3>3. CASE Abort BY <3>3 DEF Abort
    <3>4. CASE Flush \/ DropGarbage BY <3>4 DEF Flush, DropGarbage
    <3>5. CASE ChildExits BY <3>5 DEF ChildExits
    <3>6. CASE Die BY <3>6 DEF Die
    <3> QED
      BY <2>1, <3>1, <3>2, <3>3, <3>4, <3>5, <3>6 DEF ChildStep
  <2>2. CASE Join
    BY <2>2 DEF Join
  <2>3. CASE ParentStep /\ ~Join
    BY <2>3
    DEF ParentStep, Start, IsAlive, Terminate, JoinTerminated, Kill, JoinKilled, Get,
        GetEmpty
  <2>4. CASE UNCHANGED vars
    BY <2>4 DEF vars
  <2> QED
    BY <2>1, <2>2, <2>3, <2>4 DEF Next
<1>3. IInv /\ GaveUpOnStuck => TimeoutExplained
  BY DEF IInv, MessageMatchesChild, GaveUpOnStuck, TimeoutExplained, Excused, Stuck
<1> QED
  BY <1>1, <1>2, <1>3, Inductive, PTL DEF Spec

\* What is left of the claim of the tests and of the timeout message: a timeout is
\* reported only of a function that did not finish, or of a process that did not end
\* although its function had, and its message was delivered.
TimeoutMeansUnended ==
  Returned /\ result.status = "timeout" => message = NoMessage \/ Delivered

\* Where every message fits the pipe, a timeout is the child's own fault: its function
\* or its process did not end.
THEOREM SmallMessagesInTime ==
  Ample /\ (\A size \in Sizes : size <= PipeCapacity) => (Spec => []TimeoutMeansUnended)
<1> SUFFICES ASSUME Ample, \A size \in Sizes : size <= PipeCapacity
             PROVE  Spec => []TimeoutMeansUnended
  OBVIOUS
<1>1. TypeOK /\ TimeoutExplained => TimeoutMeansUnended
  BY DEF TypeOK, Messages, Fits, TimeoutExplained, Excused, TimeoutMeansUnended
<1> QED
  BY <1>1, TypeCorrect, TimeoutsExplained, PTL

-----------------------------------------------------------------------------
(* The CLI and the subprocess boundary together *)

\* The CLI only starts the subprocess and reads its result: every behaviour of the
\* program is one of run_isolated, so what holds of that boundary alone holds here.
THEOREM CliRunsIsolation == CliSpec => Init /\ [][Next]_vars
<1>1. CliInit => Init
  BY DEF CliInit
<1>2. [CliNext]_allVars => [Next]_vars
  <2>1. Main => UNCHANGED vars
    BY MainMoves
  <2>2. Isolated => Next
    BY DEF Isolated
  <2> QED
    BY <2>1, <2>2 DEF CliNext, allVars
<1> QED
  BY <1>1, <1>2, PTL DEF CliSpec

\* The status and the survivor, of the subprocess that the CLI runs.
THEOREM CliStatusTrue == CliSpec => []StatusIsChilds /\ []NoSilentSurvivor
<1>1. CliIInv => StatusIsChilds /\ NoSilentSurvivor
  BY DEF CliIInv, IInv
<1> QED
  BY <1>1, CliInductive, PTL

\* How many steps main, run_isolated and the child have left at most.
MainLeft ==
  [arguments |-> 8, environment |-> 7, route |-> 6, find |-> 5, attach |-> 4,
   isolated |-> 3, capture |-> 2, output |-> 1, exit |-> 0]

ParentLeft ==
  [start |-> 7, join |-> 6, check |-> 5, terminate |-> 4, join_terminated |-> 3,
   kill |-> 2, join_killed |-> 1, get |-> 1, returned |-> 0]

ChildLeft ==
  [unborn |-> 5, computing |-> 4, flushing |-> 3, exiting |-> 2, hung |-> 1,
   exited |-> 0, aborted |-> 0, killed |-> 0]

StepsLeft == MainLeft[cli] + ParentLeft[parent] + ChildLeft[child]

\* The program, its parent role and its child have at most 20 steps together: none of
\* them ever goes back, so no wait, signal or late death starts anything over.
CliAdvances == [][StepsLeft' < StepsLeft /\ StepsLeft \in 0..20]_allVars

LEMMA Measures ==
  CliTypeOK =>
    /\ MainLeft[cli] \in 0..8 /\ ParentLeft[parent] \in 0..7
    /\ ChildLeft[child] \in 0..5
BY DEF CliTypeOK, TypeOK, MainLeft, ParentLeft, ChildLeft, Alive, Dead

\* For any message sizes and pipe, the CLI, run_isolated and the child only go forward.
THEOREM CliEnds == CliSpec => CliAdvances
<1> DEFINE A == StepsLeft' < StepsLeft /\ StepsLeft \in 0..20
<1>1. CliIInv /\ CliIInv' /\ [CliNext]_allVars => [A]_allVars
  <2> SUFFICES ASSUME CliIInv, CliIInv', CliNext PROVE A
    OBVIOUS
  <2>1. /\ MainLeft[cli] \in 0..8 /\ ParentLeft[parent] \in 0..7
        /\ ChildLeft[child] \in 0..5
    BY Measures DEF CliIInv
  <2>2. CASE Main
    <3>1. UNCHANGED vars
      BY <2>2, MainMoves
    <3>2. MainLeft[cli'] < MainLeft[cli] /\ MainLeft[cli'] \in 0..8
      BY <2>2, MainMoves DEF MainLeft
    <3> QED
      BY <2>1, <3>1, <3>2 DEF StepsLeft, vars
  <2>3. CASE Isolated
    <3>1. cli' = cli
      BY <2>3 DEF Isolated, cliVars
    <3>2. /\ ParentLeft[parent'] \in 0..7 /\ ChildLeft[child'] \in 0..5
      BY DEF CliIInv, CliTypeOK, TypeOK, ParentLeft, ChildLeft, Alive, Dead
    <3>3. \/ /\ ParentLeft[parent'] < ParentLeft[parent]
             /\ ChildLeft[child'] <= ChildLeft[child]
          \/ parent' = parent /\ ChildLeft[child'] < ChildLeft[child]
      <4>1. CASE Start
        <5>1. child = "unborn"
          BY <4>1 DEF Start, CliIInv, IInv, ChildMatchesPlace
        <5> QED
          BY <4>1, <5>1 DEF Start, ParentLeft, ChildLeft
      <4>2. CASE ParentStep /\ ~Start
        <5>1. child' = child /\ ParentLeft[parent'] < ParentLeft[parent]
          BY <4>2
          DEF ParentStep, Join, IsAlive, Terminate, JoinTerminated, Kill, JoinKilled,
              Get, GetEmpty, ParentLeft
        <5> QED
          BY <5>1, <2>1
      <4>3. CASE ChildStep
        BY <4>3
        DEF ChildStep, Compute, Hang, Abort, Flush, DropGarbage, ChildExits, Die,
            ChildLeft, Alive
      <4> QED
        BY <2>3, <4>1, <4>2, <4>3 DEF Isolated, Next
    <3> QED
      BY <2>1, <3>1, <3>2, <3>3 DEF StepsLeft
  <2> QED
    BY <2>2, <2>3 DEF CliNext
<1> QED
  BY <1>1, CliInductive, PTL DEF CliSpec, CliAdvances
=============================================================================

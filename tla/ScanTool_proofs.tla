--------------------------- MODULE ScanTool_proofs ---------------------------
(***************************************************************************)
(* Theorems about ScanTool for any calls, processes and interruptible      *)
(* calls.  The inductive invariant IInv adds to the type invariant that    *)
(* the slot and its holder agree, which worker each place of the handler   *)
(* may own, and which answers each place may carry.                        *)
(***************************************************************************)
EXTENDS ScanTool, TLAPS

\* Before Spawn a call owns no worker; from Release on it owns no live one,
\* unless its wait was interrupted.
WorkerMatchesPlace ==
  \A c \in Calls :
    /\ pc[c] \in {"admit", "acquire", "probe", "spawn"} =>
         worker[c] = "none" /\ answer[c] = "none"
    /\ pc[c] \in {"wait", "kill", "reap"} => worker[c] # "none" /\ answer[c] = "none"
    /\ At(c, "wait") => worker[c] \in {"running"} \cup Exits
    /\ At(c, "kill") => worker[c] \in {"running"} \cup Exits
    /\ At(c, "unwind") => answer[c] = "none"
    /\ At(c, "done") /\ answer[c] = "raised" /\ worker[c] \in LiveWorker
         => c \in Interruptible
    /\ At(c, "unwind") /\ worker[c] \in LiveWorker => c \in Interruptible
    /\ pc[c] \in {"release", "reply"} =>
         worker[c] \notin LiveWorker /\ answer[c] # "raised"

AnswerMatchesWorker ==
  \A c \in Calls :
    /\ pc[c] \in {"release", "reply", "done"} => answer[c] # "none"
    /\ answer[c] \in {"snapshot", "output_budget_exceeded"} => worker[c] = "snapshot"
    /\ answer[c] \in Refusals \cup {"scan_in_progress", "runtime_vanished"}
         => worker[c] = "none"
    /\ answer[c] \in Refusals \cup {"scan_in_progress"} => At(c, "done")
    /\ At(c, "done") /\ answer[c] # "raised" => worker[c] \notin LiveWorker

IInv == TypeOK /\ SlotAccounting /\ WorkerMatchesPlace /\ AnswerMatchesWorker

-----------------------------------------------------------------------------

LEMMA InitIInv == Init => IInv
  BY ProcessOfAssumption
  DEF Init, IInv, TypeOK, SlotAccounting, WorkerMatchesPlace, AnswerMatchesWorker,
      Holding, At, Places, WorkerStates, Answers, Refusals, LiveWorker, Exits

\* The type invariant is inductive with the slot's accounting.
LEMMA TypeStep == IInv /\ [Next]_vars => TypeOK'
<1> SUFFICES ASSUME IInv, [Next]_vars PROVE TypeOK'
  OBVIOUS
<1> USE ProcessOfAssumption
    DEF IInv, TypeOK, At, Goto, AnswerAt, Places, WorkerStates, Answers, Refusals,
        LiveWorker, Exits
<1>1. CASE UNCHANGED vars
  BY <1>1 DEF vars
<1>2. CASE RuntimeChanges
  BY <1>2 DEF RuntimeChanges
<1>3. ASSUME NEW c \in Calls, CallStep(c) PROVE TypeOK'
  <2>1. CASE Admit(c) \/ Busy(c) \/ Probe(c)
    BY <2>1 DEF Admit, Busy, Probe
  <2>2. CASE Acquire(c)
    BY <2>2 DEF Acquire
  <2>3. CASE Spawn(c) \/ Deadline(c) \/ Reap(c) \/ Interrupt(c) \/ Reply(c)
    BY <2>3 DEF Spawn, Deadline, Reap, Interrupt, Reply
  <2>4. CASE Collect(c)
    BY <2>4 DEF Collect, ResultOf
  <2>5. CASE Kill(c)
    BY <2>5 DEF Kill
  <2>6. CASE Release(c) \/ Unwind(c)
    <3>1. Holding(c)
      BY <2>6 DEF Release, Unwind, Holding
    <3>2. slot[ProcessOf[c]] = 0
      BY <3>1 DEF SlotAccounting
    <3> QED
      BY <2>6, <3>2 DEF Release, Unwind
  <2>7. CASE WorkerExits(c) \/ WorkerDies(c)
    BY <2>7 DEF WorkerExits, WorkerDies
  <2> QED
    BY <1>3, <2>1, <2>2, <2>3, <2>4, <2>5, <2>6, <2>7 DEF CallStep, HandlerStep
<1> QED
  BY <1>1, <1>2, <1>3 DEF Next

\* A step that moves no handler across the slot keeps its accounting.
LEMMA SlotFrame ==
  ASSUME SlotAccounting, slot' = slot, \A c \in Calls : Holding(c)' <=> Holding(c)
  PROVE  SlotAccounting'
  BY DEF SlotAccounting, SameProcess

LEMMA SlotStep == IInv /\ [Next]_vars => SlotAccounting'
<1> SUFFICES ASSUME IInv, [Next]_vars PROVE SlotAccounting'
  OBVIOUS
<1> USE ProcessOfAssumption DEF IInv
<1>1. CASE UNCHANGED vars
  BY <1>1, SlotFrame DEF vars, Holding
<1>2. CASE RuntimeChanges
  BY <1>2, SlotFrame DEF RuntimeChanges, Holding
<1>3. ASSUME NEW c \in Calls, CallStep(c) PROVE SlotAccounting'
  <2> DEFINE p == ProcessOf[c]
  <2>1. CASE Acquire(c)
    <3>1. /\ slot[p] > 0
          /\ p \in Processes
          /\ slot' = [slot EXCEPT ![p] = slot[p] - 1]
          /\ pc' = [pc EXCEPT ![c] = "probe"]
      BY <2>1 DEF Acquire, Goto
    <3>2. slot[p] = 1
      BY <3>1 DEF TypeOK
    <3>3. \A d \in Calls : Holding(d) => ProcessOf[d] # p
      BY <3>1, <3>2 DEF SlotAccounting
    <3>4. \A d \in Calls : Holding(d)' <=> (d = c \/ Holding(d))
      BY <2>1, <3>1 DEF Holding, TypeOK
    <3>5. \A q \in Processes : slot'[q] = IF q = p THEN 0 ELSE slot[q]
      BY <3>1, <3>2 DEF TypeOK
    <3>6. \A d, e \in Calls : Holding(d)' /\ Holding(e)' /\ SameProcess(d, e) => d = e
      BY <3>3, <3>4 DEF SlotAccounting, SameProcess
    <3>7. \A q \in Processes :
            slot'[q] = 0 <=> \E d \in Calls : ProcessOf[d] = q /\ Holding(d)'
      BY <3>4, <3>5 DEF SlotAccounting
    <3> QED
      BY <3>6, <3>7 DEF SlotAccounting, SameProcess
  <2>2. CASE Release(c) \/ Unwind(c)
    <3>1. /\ Holding(c)
          /\ p \in Processes
          /\ slot' = [slot EXCEPT ![p] = slot[p] + 1]
          /\ \E place \in {"reply", "done"} : pc' = [pc EXCEPT ![c] = place]
      BY <2>2 DEF Release, Unwind, Goto, AnswerAt, Holding, At
    <3>2. slot[p] = 0
      BY <3>1 DEF SlotAccounting
    <3>3. \A d \in Calls : Holding(d) /\ ProcessOf[d] = p => d = c
      BY <3>1 DEF SlotAccounting, SameProcess
    <3>4. \A d \in Calls : Holding(d)' <=> (d # c /\ Holding(d))
      BY <3>1 DEF Holding, TypeOK
    <3>5. \A q \in Processes : slot'[q] = IF q = p THEN 1 ELSE slot[q]
      BY <3>1, <3>2 DEF TypeOK
    <3>6. \A d, e \in Calls : Holding(d)' /\ Holding(e)' /\ SameProcess(d, e) => d = e
      BY <3>4 DEF SlotAccounting, SameProcess
    <3>7. \A q \in Processes :
            slot'[q] = 0 <=> \E d \in Calls : ProcessOf[d] = q /\ Holding(d)'
      BY <3>3, <3>4, <3>5 DEF SlotAccounting
    <3> QED
      BY <3>6, <3>7 DEF SlotAccounting, SameProcess
  <2>3. CASE ~Acquire(c) /\ ~Release(c) /\ ~Unwind(c)
    <3>1. slot' = slot
      BY <1>3, <2>3
      DEF CallStep, HandlerStep, Admit, Busy, Probe, Spawn,
          Collect, Deadline, Kill, Reap, Reply, Interrupt, WorkerExits, WorkerDies
    <3>2. \A d \in Calls : Holding(d)' <=> Holding(d)
      <4>1. \/ pc' = pc
            \/ \E place \in Places :
                 pc' = [pc EXCEPT ![c] = place] /\ (Holding(c)' <=> Holding(c))
        BY <1>3, <2>3
        DEF CallStep, HandlerStep, Admit, Busy, Probe, Spawn,
            Collect, Deadline, Kill, Reap, Reply, Interrupt, WorkerExits, WorkerDies,
            Holding, At, Goto, AnswerAt, TypeOK, Places
      <4> QED
        BY <4>1 DEF Holding, TypeOK
    <3> QED
      BY <3>1, <3>2, SlotFrame
  <2> QED
    BY <2>1, <2>2, <2>3
<1> QED
  BY <1>1, <1>2, <1>3 DEF Next

\* Worker and answer of a call follow its place.
LEMMA WorkerStep == IInv /\ [Next]_vars => WorkerMatchesPlace' /\ AnswerMatchesWorker'
<1> SUFFICES ASSUME IInv, [Next]_vars
             PROVE  WorkerMatchesPlace' /\ AnswerMatchesWorker'
  OBVIOUS
<1> USE DEF IInv, TypeOK, WorkerMatchesPlace, AnswerMatchesWorker, At, Goto, AnswerAt,
        LiveWorker, Exits, Refusals
<1>1. CASE UNCHANGED vars
  BY <1>1 DEF vars
<1>2. CASE RuntimeChanges
  BY <1>2 DEF RuntimeChanges
<1>3. ASSUME NEW c \in Calls, CallStep(c)
      PROVE  WorkerMatchesPlace' /\ AnswerMatchesWorker'
  <2>1. CASE Admit(c)
    BY <2>1 DEF Admit
  <2>2. CASE Acquire(c) \/ Busy(c)
    BY <2>2 DEF Acquire, Busy
  <2>3. CASE Probe(c)
    BY <2>3 DEF Probe
  <2>4. CASE Spawn(c)
    BY <2>4 DEF Spawn
  <2>5. CASE Collect(c)
    BY <2>5 DEF Collect, ResultOf
  <2>6. CASE Deadline(c) \/ Kill(c)
    BY <2>6 DEF Deadline, Kill
  <2>7. CASE Reap(c) \/ Interrupt(c)
    BY <2>7 DEF Reap, Interrupt
  <2>8. CASE Release(c) \/ Unwind(c)
    BY <2>8 DEF Release, Unwind
  <2>9. CASE Reply(c)
    BY <2>9 DEF Reply
  <2>10. CASE WorkerExits(c) \/ WorkerDies(c)
    BY <2>10 DEF WorkerExits, WorkerDies
  <2> QED
    BY <1>3, <2>1, <2>2, <2>3, <2>4, <2>5, <2>6, <2>7, <2>8, <2>9, <2>10
    DEF CallStep, HandlerStep
<1> QED
  BY <1>1, <1>2, <1>3 DEF Next

LEMMA Invariance == SafetySpec => []IInv
<1>1. IInv /\ [Next]_vars => IInv'
  BY TypeStep, SlotStep, WorkerStep DEF IInv
<1> QED
  BY <1>1, InitIInv, PTL DEF SafetySpec

-----------------------------------------------------------------------------
(* The safety properties *)

\* Every variable keeps its type; the permits of a slot stay between 0 and 1,
\* so BoundedSemaphore.release never raises.
THEOREM TypeCorrect == SafetySpec => []TypeOK
<1>1. IInv => TypeOK
  BY DEF IInv
<1> QED
  BY <1>1, Invariance, PTL

\* A permit of _SCAN_SLOT is out exactly while one handler is inside the try.
THEOREM SlotAccounted == SafetySpec => []SlotAccounting
<1>1. IInv => SlotAccounting
  BY DEF IInv
<1> QED
  BY <1>1, Invariance, PTL

\* Two workers of one process are alive together only after an interrupt.
THEOREM Exclusion == SafetySpec => []ScanExclusion
<1>1. ASSUME IInv, NEW c \in Calls, worker[c] \in LiveWorker
      PROVE  Holding(c) \/ (c \in Interruptible /\ pc[c] \in {"unwind", "done"})
  BY <1>1
  DEF IInv, TypeOK, WorkerMatchesPlace, AnswerMatchesWorker, Holding, At, Places, LiveWorker
<1>2. ASSUME IInv, NEW c \in Calls, worker[c] \in LiveWorker, pc[c] = "unwind"
      PROVE  c \in Interruptible
  BY <1>2 DEF IInv, WorkerMatchesPlace, At
<1>3. IInv => ScanExclusion
  BY <1>1, <1>2 DEF ScanExclusion, IInv, SlotAccounting
<1> QED
  BY <1>3, Invariance, PTL

\* What a call is told is what happened to its own worker.
THEOREM Honesty == SafetySpec => []AnswerHonest
<1>1. IInv => AnswerHonest
  BY DEF IInv, AnswerHonest, AnswerMatchesWorker, At
<1> QED
  BY <1>1, Invariance, PTL

-----------------------------------------------------------------------------
(* The handler implements ScanService *)

\* What a step of the handler may do to the phase of a call.
LEMMA PhaseInit == Init => Service!Init
  BY DEF Init, Service!Init, ServicePhase, Phase

\* The two phases that let a slot be taken or refused, in terms of the slot.
LEMMA ScanningIsHolding ==
  ASSUME IInv, NEW c \in Calls
  PROVE  Phase(c) = "scanning" <=> Holding(c)
  BY DEF Phase, IInv, Holding, At

\* A step leaves the phase of the other calls alone.
LEMMA OthersKeepPhase ==
  ASSUME IInv, NEW c \in Calls, CallStep(c), NEW d \in Calls, d # c
  PROVE  Phase(d)' = Phase(d)
<1>1. pc'[d] = pc[d] /\ answer'[d] = answer[d]
  BY
  DEF IInv, TypeOK, CallStep, HandlerStep, Admit, Acquire, Busy, Probe,
      Spawn, Collect, Deadline, Kill, Reap, Release, Unwind, Reply, Interrupt,
      WorkerExits, WorkerDies, Goto, AnswerAt
<1> QED
  BY <1>1 DEF Phase, Holding, At

LEMMA PhaseStep ==
  ASSUME IInv, NEW c \in Calls, CallStep(c)
  PROVE  \/ Phase(c)' = Phase(c)
         \/ Phase(c) = "asked" /\ Phase(c)' = "refused"
         \/ Phase(c) = "asked" /\ Phase(c)' = "busy" /\ slot[ProcessOf[c]] = 0
         \/ Phase(c) = "asked" /\ Phase(c)' = "scanning" /\ slot[ProcessOf[c]] = 1
         \/ Phase(c) = "scanning" /\ Phase(c)' = "answered"
<1> USE ProcessOfAssumption
    DEF IInv, TypeOK, Phase, Holding, At, Goto, AnswerAt, Refusals
<1>1. CASE Admit(c)
  BY <1>1 DEF Admit
<1>2. CASE Acquire(c)
  BY <1>2 DEF Acquire
<1>3. CASE Busy(c)
  BY <1>3 DEF Busy
<1>4. CASE Probe(c) \/ Spawn(c) \/ Deadline(c) \/ Kill(c) \/ Interrupt(c)
  BY <1>4 DEF Probe, Spawn, Deadline, Kill, Interrupt
<1>5. CASE Collect(c) \/ Reap(c)
  BY <1>5 DEF Collect, Reap
<1>6. CASE Release(c) \/ Unwind(c)
  BY <1>6 DEF Release, Unwind
<1>7. CASE Reply(c)
  <2>1. answer[c] \notin Refusals \cup {"scan_in_progress"}
    BY <1>7 DEF Reply, AnswerMatchesWorker
  <2> QED
    BY <1>7, <2>1 DEF Reply
<1>8. CASE WorkerExits(c) \/ WorkerDies(c)
  BY <1>8 DEF WorkerExits, WorkerDies
<1> QED
  BY <1>1, <1>2, <1>3, <1>4, <1>5, <1>6, <1>7, <1>8 DEF CallStep, HandlerStep

LEMMA StepRefines == IInv /\ [Next]_vars => [Service!Next]_ServicePhase
<1> SUFFICES ASSUME IInv, [Next]_vars
             PROVE  Service!Next \/ UNCHANGED ServicePhase
  BY DEF Service!Next
<1> USE DEF ServicePhase
<1>1. CASE UNCHANGED vars \/ RuntimeChanges
  BY <1>1 DEF vars, RuntimeChanges, Phase, Holding, At
<1>2. ASSUME NEW c \in Calls, CallStep(c)
      PROVE  Service!Next \/ UNCHANGED ServicePhase
  <2>1. ASSUME NEW v, Phase(c)' = v
        PROVE  ServicePhase' = [ServicePhase EXCEPT ![c] = v]
    BY <1>2, <2>1, OthersKeepPhase
  <2>2. CASE Phase(c)' = Phase(c)
    BY <1>2, <2>2, OthersKeepPhase
  <2>3. CASE Phase(c) = "asked" /\ Phase(c)' = "refused"
    <3>1. Service!Refuse(c)
      BY <2>1, <2>3 DEF Service!Refuse
    <3> QED
      BY <3>1 DEF Service!Next, Service!Serve
  <2>4. CASE Phase(c) = "asked" /\ Phase(c)' = "busy" /\ slot[ProcessOf[c]] = 0
    <3>1. PICK d \in Calls : ProcessOf[d] = ProcessOf[c] /\ Holding(d)
      BY <2>4, ProcessOfAssumption DEF IInv, SlotAccounting
    <3>2. Phase(d) = "scanning" /\ d # c
      BY <3>1, <2>4, ScanningIsHolding
    <3>3. Service!Busy(c)
      BY <2>1, <2>4, <3>1, <3>2 DEF Service!Busy, Service!Rivals
    <3> QED
      BY <3>3 DEF Service!Next, Service!Serve
  <2>5. CASE Phase(c) = "asked" /\ Phase(c)' = "scanning" /\ slot[ProcessOf[c]] = 1
    <3>1. \A d \in Calls : ProcessOf[d] = ProcessOf[c] => Phase(d) # "scanning"
      BY <2>5, ScanningIsHolding, ProcessOfAssumption DEF IInv, SlotAccounting
    <3>2. Service!Begin(c)
      BY <2>1, <2>5, <3>1 DEF Service!Begin, Service!Rivals
    <3> QED
      BY <3>2 DEF Service!Next, Service!Serve
  <2>6. CASE Phase(c) = "scanning" /\ Phase(c)' = "answered"
    <3>1. Service!Finish(c)
      BY <2>1, <2>6 DEF Service!Finish
    <3> QED
      BY <3>1 DEF Service!Next, Service!Serve
  <2> QED
    BY <1>2, <2>2, <2>3, <2>4, <2>5, <2>6, PhaseStep
<1> QED
  BY <1>1, <1>2 DEF Next

\* The handler refines the service: whatever workers, deadlines and interrupts
\* do, a call is refused, told "busy" or served as ScanService allows.
THEOREM Refinement == SafetySpec => Service!SafetySpec
<1>1. IInv /\ [Next]_vars => [Service!Next]_ServicePhase
  BY StepRefines
<1> QED
  BY <1>1, PhaseInit, Invariance, PTL DEF SafetySpec, Service!SafetySpec

-----------------------------------------------------------------------------
(* Where the unconditional claims hold, and how a handler comes to its end *)

\* Every service that ScanService allows keeps to one scan per process.
ServedAlone ==
  \A c, d \in Calls :
    SameProcess(c, d) /\ ServicePhase[c] = "scanning" /\ ServicePhase[d] = "scanning"
      => c = d

\* What the service promises suffices for the promise: no step of ScanService begins
\* a scan beside another one of its process.
THEOREM ServiceAlone == Service!SafetySpec => []ServedAlone
<1> DEFINE Alone == ServicePhase \in [Calls -> Service!ScanPhases] /\ ServedAlone
<1>1. Service!Init => Alone
  BY DEF Service!Init, Service!ScanPhases, ServedAlone
<1>2. Alone /\ [Service!Next]_ServicePhase => Alone'
  <2> SUFFICES ASSUME Alone, [Service!Next]_ServicePhase PROVE Alone'
    OBVIOUS
  <2> USE DEF ServedAlone, SameProcess
  <2>1. CASE UNCHANGED ServicePhase
    BY <2>1
  <2>2. ASSUME NEW c \in Calls, Service!Refuse(c) \/ Service!Busy(c) \/ Service!Finish(c)
        PROVE  Alone'
    BY <2>2 DEF Service!Refuse, Service!Busy, Service!Finish, Service!ScanPhases
  <2>3. ASSUME NEW c \in Calls, Service!Begin(c) PROVE Alone'
    BY <2>3 DEF Service!Begin, Service!Rivals, Service!ScanPhases
  <2> QED
    BY <2>1, <2>2, <2>3 DEF Service!Next, Service!Serve
<1> QED
  BY <1>1, <1>2, PTL DEF Service!SafetySpec

\* Where no handler runs on a thread that Ctrl-C reaches, the documents' sentence is
\* true without a condition: no two workers of one process are ever alive together.
THEOREM OneScanUninterrupted ==
  Interruptible = {} => (SafetySpec => []OneScanAtATime)
<1> SUFFICES ASSUME Interruptible = {} PROVE SafetySpec => []OneScanAtATime
  OBVIOUS
<1>1. ScanExclusion => OneScanAtATime
  BY DEF ScanExclusion, OneScanAtATime
<1> QED
  BY <1>1, Exclusion, PTL

\* The second communicate() has no timeout; a handler that waits there waits for a
\* process that is dead or was told to end, never for one that is left computing.
UntimedWaitIsForKilled == \A c \in Calls : At(c, "reap") => worker[c] # "running"

\* For any calls, interrupts and late deaths, the wait without a timeout is for a
\* process that is dead or dying.
THEOREM UntimedWaitEnds == SafetySpec => []UntimedWaitIsForKilled
<1>1. Init => UntimedWaitIsForKilled
  BY DEF Init, UntimedWaitIsForKilled, At
<1>2. IInv /\ UntimedWaitIsForKilled /\ [Next]_vars => UntimedWaitIsForKilled'
  <2> SUFFICES ASSUME IInv, UntimedWaitIsForKilled, [Next]_vars
               PROVE  UntimedWaitIsForKilled'
    OBVIOUS
  <2> USE DEF UntimedWaitIsForKilled, IInv, TypeOK, At, Goto, AnswerAt
  <2>1. CASE UNCHANGED vars \/ RuntimeChanges
    BY <2>1 DEF vars, RuntimeChanges
  <2>2. ASSUME NEW c \in Calls, Kill(c) PROVE UntimedWaitIsForKilled'
    BY <2>2 DEF Kill
  <2>3. ASSUME NEW c \in Calls, CallStep(c), ~Kill(c) PROVE UntimedWaitIsForKilled'
    <3>1. /\ \A d \in Calls : pc'[d] = "reap" => pc[d] = "reap"
          /\ \A d \in Calls : worker'[d] = "running" => worker[d] = "running" \/ Spawn(c)
      BY <2>3
      DEF CallStep, HandlerStep, Admit, Acquire, Busy, Probe, Spawn, Collect, Deadline,
          Reap, Release, Unwind, Reply, Interrupt, WorkerExits, WorkerDies, Exits
    <3>2. CASE Spawn(c)
      BY <3>2 DEF Spawn
    <3> QED
      BY <3>1, <3>2
  <2> QED
    BY <2>1, <2>2, <2>3 DEF Next
<1> QED
  BY <1>1, <1>2, Invariance, PTL DEF SafetySpec

\* How many steps a handler has left at most.
StepsLeft ==
  [admit |-> 9, acquire |-> 8, probe |-> 7, spawn |-> 6, wait |-> 5, kill |-> 4,
   reap |-> 3, release |-> 2, unwind |-> 2, reply |-> 1, done |-> 0]

\* A handler goes forward only: it looks for the runtime, starts a worker, takes the
\* permit and gives it back at most once each, whatever it waits for in between.
HandlerAdvances ==
  [][\A c \in Calls :
       pc'[c] # pc[c] => StepsLeft[pc'[c]] < StepsLeft[pc[c]]]_vars

\* For any calls and processes, no handler ever goes back.
THEOREM HandlersEnd == SafetySpec => HandlerAdvances
<1> DEFINE A == \A c \in Calls :
                  pc'[c] # pc[c] => StepsLeft[pc'[c]] < StepsLeft[pc[c]]
<1>1. IInv /\ [Next]_vars => [A]_vars
  <2> SUFFICES ASSUME IInv, Next PROVE A
    OBVIOUS
  <2> USE DEF IInv, TypeOK, At, Goto, AnswerAt
  <2>1. CASE RuntimeChanges
    BY <2>1 DEF RuntimeChanges
  <2>2. ASSUME NEW c \in Calls, CallStep(c) PROVE A
    <3>1. /\ \A d \in Calls : d # c => pc'[d] = pc[d]
          /\ \/ pc'[c] = pc[c]
             \/ <<pc[c], pc'[c]>> \in
                  {<<"admit", "done">>, <<"admit", "acquire">>, <<"acquire", "probe">>,
                   <<"acquire", "done">>, <<"probe", "spawn">>, <<"probe", "release">>,
                   <<"spawn", "wait">>, <<"spawn", "unwind">>, <<"wait", "release">>,
                   <<"wait", "kill">>, <<"kill", "reap">>, <<"reap", "release">>,
                   <<"wait", "unwind">>, <<"reap", "unwind">>, <<"release", "reply">>,
                   <<"unwind", "done">>, <<"reply", "done">>}
      BY <2>2
      DEF CallStep, HandlerStep, Admit, Acquire, Busy, Probe, Spawn, Collect, Deadline,
          Kill, Reap, Release, Unwind, Reply, Interrupt, WorkerExits, WorkerDies
    <3> QED
      BY <3>1 DEF StepsLeft
  <2> QED
    BY <2>1, <2>2 DEF Next
<1> QED
  BY <1>1, Invariance, PTL DEF SafetySpec, HandlerAdvances
=============================================================================

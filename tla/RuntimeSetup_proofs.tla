------------------------- MODULE RuntimeSetup_proofs -------------------------
(***************************************************************************)
(* Theorems about RuntimeSetup for any number of setups: first what holds  *)
(* however they overlap, then what holds as long as they ran one at a      *)
(* time.                                                                   *)
(***************************************************************************)
EXTENDS RuntimeSetup, Naturals, TLAPS

\* The backup name is fresh: nothing is overwritten by setting the target aside.
BackupFresh ==
  \A s \in Setups : pc[s] \in {"idle", "set_aside"} \cup Commands => backup[s] = "absent"

\* A ready copy that no setup is deleting.
ReadyKept ==
  target = "ready" \/ \E s \in Setups : backup[s] = "ready" /\ ~At(s, "drop_backup")

\* A backup is deleted only while another ready copy is kept.
DropIsCovered == \A s \in Setups : At(s, "drop_backup") => ReadyKept

OverlapInv == TypeOK /\ BackupFresh /\ DropIsCovered

OneAtATime ==
  \A r, s \in Setups : pc[r] \in InProgress /\ pc[s] \in InProgress => r = s

\* What target and backup may hold at each place of the only running setup.
SwapSound ==
  /\ target \in {"absent", "ready"}
  /\ \A s \in Setups :
       /\ At(s, "publish") => target = "absent" /\ backup[s] \in {"absent", "ready"}
       /\ At(s, "drop_backup") => target = "ready" /\ staging[s] = "absent"
       /\ pc[s] \in Handling => target = "ready" \/ backup[s] \in {"absent", "ready"}

ExclusiveInv == OverlapInv /\ (~overlapped => OneAtATime /\ SwapSound)

-----------------------------------------------------------------------------
(* Overlapping setups *)

LEMMA OverlapInit == Init => OverlapInv
  BY
  DEF Init, OverlapInv, TypeOK, StagingValidated, BackupFresh, DropIsCovered, Directory,
      At, Commands

\* Remains of a directory are a state of a directory.
LEMMA RemainsType == \A d \in Directory : Remains[d] \subseteq Directory
  BY DEF Directory, Remains

\* A command is followed by the next one, or by the swap.
LEMMA AfterType ==
  \A place \in Commands : After[place] \in {"upgrade_pip", "install", "smoke", "set_aside"}
  BY DEF Commands, After

\* How a setup gets to the places where something is decided.
LEMMA Arrivals ==
  ASSUME TypeOK, Next, NEW s \in Setups, pc'[s] # pc[s]
  PROVE  /\ pc'[s] = "drop_backup" => Publish(s)
         /\ pc'[s] = "failed" => Restore(s)
         /\ pc'[s] = "built" => Finish(s)
         /\ pc'[s] = "kept" => Start(s) /\ HasPython(target)
<1> USE DEF TypeOK, At, Goto
<1>1. PICK r \in Setups : Start(r) \/ Work(r) \/ Crash(r)
  BY DEF Next
<1>2. r = s
  BY <1>1
  DEF Start, Work, Crash, RunCommand, SetAside, Publish, DropSome, Finish, Fail,
      CleanStaging, Restore
<1>3. CASE Start(s)
  BY <1>3 DEF Start
<1>4. CASE RunCommand(s)
  BY <1>4, AfterType DEF RunCommand
<1>5. CASE Work(s) /\ ~RunCommand(s)
  BY <1>5 DEF Work, SetAside, Publish, DropSome, Finish, Fail, CleanStaging, Restore
<1>6. CASE Crash(s)
  BY <1>6 DEF Crash
<1> QED
  BY <1>1, <1>2, <1>3, <1>4, <1>5, <1>6

LEMMA OverlapType ==
  OverlapInv /\ [Next]_vars => TypeOK' /\ BackupFresh'
<1> SUFFICES ASSUME OverlapInv, [Next]_vars
             PROVE  TypeOK' /\ BackupFresh'
  OBVIOUS
<1> USE DEF OverlapInv, TypeOK, StagingValidated, BackupFresh, At, Goto, InProgress,
        Trying, Handling, Commands, Ended
<1>1. CASE UNCHANGED vars
  BY <1>1 DEF vars
<1>2. ASSUME NEW s \in Setups, Start(s) \/ Work(s) \/ Crash(s)
      PROVE  TypeOK' /\ BackupFresh'
  <2>0. overlapped' \in BOOLEAN
    BY <1>2, Zenon DEF Start, Work, Crash
  <2> USE <2>0
  <2>1. CASE Start(s) \/ Finish(s)
    BY <2>1 DEF Start, Finish
  <2>2. CASE RunCommand(s)
    BY <2>2 DEF RunCommand, After, Directory
  <2>3. CASE SetAside(s)
    BY <2>3 DEF SetAside, Directory
  <2>4. CASE Publish(s)
    BY <2>4 DEF Publish, Directory
  <2>5. CASE DropSome(s)
    BY <2>5, RemainsType DEF DropSome
  <2>6. CASE CleanStaging(s)
    BY <2>6, RemainsType DEF CleanStaging
  <2>7. CASE Fail(s) \/ Crash(s)
    BY <2>7 DEF Fail, Crash, Abandon, Directory
  <2>8. CASE Restore(s)
    BY <2>8 DEF Restore, Directory
  <2> QED
    BY <1>2, <2>1, <2>2, <2>3, <2>4, <2>5, <2>6, <2>7, <2>8 DEF Work
<1> QED
  BY <1>1, <1>2 DEF Next

\* Once a ready copy is kept, one is kept ever after.
LEMMA KeptStaysKept == OverlapInv /\ [Next]_vars /\ ReadyKept => ReadyKept'
<1> SUFFICES ASSUME OverlapInv, [Next]_vars, ReadyKept PROVE ReadyKept'
  OBVIOUS
<1> USE DEF OverlapInv, TypeOK, ReadyKept, At, Goto
<1>1. CASE UNCHANGED vars
  BY <1>1 DEF vars
<1>2. ASSUME NEW s \in Setups, Start(s) \/ Work(s) \/ Crash(s) PROVE ReadyKept'
  <2>1. CASE /\ UNCHANGED <<target, backup>>
             /\ \E place : pc' = [pc EXCEPT ![s] = place] /\ place # "drop_backup"
    BY <2>1
  <2>2. CASE SetAside(s)
    BY <2>2 DEF SetAside, BackupFresh
  <2>3. CASE Publish(s)
    BY <2>3 DEF Publish, StagingValidated
  <2>4. CASE DropSome(s)
    BY <2>4 DEF DropSome
  <2>5. CASE Restore(s)
    BY <2>5 DEF Restore
  <2>6. CASE Start(s)
    BY <2>6 DEF Start
  <2>7. CASE RunCommand(s)
    BY <2>7, <2>1, AfterType DEF RunCommand
  <2> QED
    BY <1>2, <2>1, <2>2, <2>3, <2>4, <2>5, <2>6, <2>7
    DEF Work, Finish, Fail, CleanStaging, Crash
<1> QED
  BY <1>1, <1>2 DEF Next

LEMMA OverlapDrop == OverlapInv /\ [Next]_vars => DropIsCovered'
<1> SUFFICES ASSUME OverlapInv, [Next]_vars, NEW r \in Setups, At(r, "drop_backup")'
             PROVE  ReadyKept'
  BY DEF DropIsCovered
<1>1. CASE At(r, "drop_backup")
  BY <1>1, KeptStaysKept DEF OverlapInv, DropIsCovered
<1>2. CASE ~At(r, "drop_backup")
  <2>1. Publish(r)
    BY <1>2, Arrivals DEF OverlapInv, At, vars
  <2> QED
    BY <2>1 DEF Publish, OverlapInv, TypeOK, StagingValidated, ReadyKept, At
<1> QED
  BY <1>1, <1>2

LEMMA OverlapInvariance == SafetySpec => []OverlapInv
<1>1. OverlapInv /\ [Next]_vars => OverlapInv'
  BY OverlapType, OverlapDrop DEF OverlapInv
<1> QED
  BY <1>1, OverlapInit, PTL DEF SafetySpec

\* Every directory and every place keeps its type.
THEOREM TypeCorrect == SafetySpec => []TypeOK
<1>1. OverlapInv => TypeOK
  BY DEF OverlapInv
<1> QED
  BY <1>1, OverlapInvariance, PTL

\* However setups overlap, fail, are interrupted or die, a working runtime is
\* never lost: it is at the target or whole in a backup.
THEOREM NothingLost == SafetySpec => ReadySurvives
<1>1. OverlapInv /\ [Next]_vars => [SomeReady => SomeReady']_vars
  <2>1. OverlapInv /\ SomeReady => ReadyKept
    BY DEF OverlapInv, DropIsCovered, SomeReady, ReadyKept
  <2>2. ReadyKept' => SomeReady'
    BY DEF SomeReady, ReadyKept
  <2> QED
    BY <2>1, <2>2, KeptStaysKept
<1> QED
  BY <1>1, OverlapInvariance, PTL DEF SafetySpec, ReadySurvives

-----------------------------------------------------------------------------
(* As long as setups ran one at a time *)

LEMMA ExclusiveInit == Init => ExclusiveInv
  BY OverlapInit
  DEF Init, ExclusiveInv, OneAtATime, SwapSound, InProgress, Trying, Handling, Commands, At

\* Setups that did not overlap have never overlapped before.
LEMMA OverlapStays == [Next]_vars /\ ~overlapped' => ~overlapped
  BY Zenon DEF Next, Start, Work, Crash, vars

LEMMA OneAtATimeStep ==
  ASSUME ~overlapped', OverlapInv, OneAtATime, SwapSound, [Next]_vars
  PROVE  OneAtATime'
<1> USE DEF OverlapInv, TypeOK, OneAtATime, At, Goto
<1>1. CASE UNCHANGED vars
  BY <1>1 DEF vars
<1>2. ASSUME NEW s \in Setups, Start(s) PROVE OneAtATime'
  BY <1>2 DEF Start
<1>3. ASSUME NEW s \in Setups, Work(s) \/ Crash(s) PROVE OneAtATime'
  <2>1. /\ pc[s] \in InProgress
        /\ pc' = pc \/ \E place : pc' = [pc EXCEPT ![s] = place]
    BY <1>3
    DEF Work, Crash, RunCommand, SetAside, Publish, DropSome, Finish, Fail, CleanStaging,
        Restore, InProgress, Trying, Handling, Commands
  <2> QED
    BY <2>1
<1> QED
  BY <1>1, <1>2, <1>3 DEF Next

\* The running setup's step keeps target and backup as its place demands; the
\* others are not in the middle of a swap.
LEMMA SwapStep ==
  ASSUME ~overlapped', OverlapInv, OneAtATime, SwapSound, [Next]_vars
  PROVE  SwapSound'
<1> USE DEF OverlapInv, TypeOK, BackupFresh, SwapSound, At, Goto,
        InProgress, Trying, Handling, Commands
<1>1. CASE UNCHANGED vars
  BY <1>1 DEF vars
<1>2. ASSUME NEW s \in Setups, Start(s) PROVE SwapSound'
  BY <1>2 DEF Start
<1>3. ASSUME NEW s \in Setups, Work(s) \/ Crash(s) PROVE SwapSound'
  <2>1. \A r \in Setups \ {s} : pc[r] \notin InProgress
    BY <1>3
    DEF OneAtATime, Work, Crash, RunCommand, SetAside, Publish, DropSome, Finish, Fail,
        CleanStaging, Restore
  <2>2. CASE RunCommand(s)
    BY <2>1, <2>2 DEF RunCommand, After
  <2>3. CASE SetAside(s)
    BY <2>1, <2>3 DEF SetAside
  <2>4. CASE Publish(s)
    BY <2>1, <2>4 DEF Publish, StagingValidated
  <2>5. CASE DropSome(s) \/ Finish(s)
    BY <2>1, <2>5 DEF DropSome, Finish
  <2>6. CASE Fail(s)
    BY <2>1, <2>6 DEF Fail
  <2>7. CASE CleanStaging(s)
    BY <2>1, <2>7 DEF CleanStaging
  <2>8. CASE Restore(s)
    BY <2>1, <2>8 DEF Restore
  <2>9. CASE Crash(s)
    BY <2>1, <2>9 DEF Crash
  <2> QED
    BY <1>3, <2>2, <2>3, <2>4, <2>5, <2>6, <2>7, <2>8, <2>9 DEF Work
<1> QED
  BY <1>1, <1>2, <1>3 DEF Next

LEMMA ExclusiveInvariance == SafetySpec => []ExclusiveInv
<1>1. ExclusiveInv /\ [Next]_vars => ExclusiveInv'
  <2> SUFFICES ASSUME ExclusiveInv, [Next]_vars PROVE ExclusiveInv'
    OBVIOUS
  <2>1. OverlapInv'
    BY OverlapType, OverlapDrop DEF ExclusiveInv, OverlapInv
  <2>2. ~overlapped' => OneAtATime' /\ SwapSound'
    BY OverlapStays, OneAtATimeStep, SwapStep DEF ExclusiveInv
  <2> QED
    BY <2>1, <2>2 DEF ExclusiveInv
<1> QED
  BY <1>1, ExclusiveInit, PTL DEF SafetySpec

\* As long as setups ran one at a time, whatever runtime_available accepts is ready.
THEOREM AvailableIsReady == SafetySpec => []AvailableMeansReady
<1>1. ExclusiveInv => AvailableMeansReady
  BY DEF ExclusiveInv, SwapSound, AvailableMeansReady, RuntimeAvailable, HasPython
<1> QED
  BY <1>1, ExclusiveInvariance, PTL

\* As long as setups ran one at a time, one that fails and could rename rolls back.
THEOREM RollsBack == SafetySpec => FailureRollsBack
<1> DEFINE A == ~overlapped' => \A s \in Setups :
                  Becomes(s, "failed") /\ (target = "ready" \/ backup[s] = "ready")
                    => target' = "ready"
<1>1. ExclusiveInv /\ [Next]_vars => [A]_vars
  <2> SUFFICES ASSUME ExclusiveInv, Next, ~overlapped', NEW s \in Setups,
                      Becomes(s, "failed"),
                      target = "ready" \/ backup[s] = "ready"
               PROVE  target' = "ready"
    BY DEF vars, Becomes, At
  <2>0. SwapSound
    BY OverlapStays DEF ExclusiveInv
  <2>1. Restore(s)
    BY Arrivals DEF ExclusiveInv, OverlapInv, Becomes, At
  <2> QED
    BY <2>0, <2>1
    DEF Restore, ExclusiveInv, OverlapInv, TypeOK, SwapSound, Becomes, At, Goto
<1> QED
  BY <1>1, ExclusiveInvariance, PTL DEF SafetySpec, FailureRollsBack

\* As long as setups ran one at a time, success is reported only over a ready
\* runtime.
THEOREM Success == SafetySpec => SuccessIsReady
<1> DEFINE A == ~overlapped' => \A s \in Setups :
                  /\ Becomes(s, "built") \/ Becomes(s, "kept") => target' = "ready"
                  /\ Becomes(s, "built") => staging'[s] = "absent" /\ backup'[s] = "absent"
<1>1. ExclusiveInv /\ [Next]_vars => [A]_vars
  <2> SUFFICES ASSUME ExclusiveInv, Next, ~overlapped', NEW s \in Setups,
                      Becomes(s, "built") \/ Becomes(s, "kept")
               PROVE  /\ target' = "ready"
                      /\ Becomes(s, "built") =>
                           staging'[s] = "absent" /\ backup'[s] = "absent"
    BY DEF vars, Becomes, At
  <2>0. SwapSound
    BY OverlapStays DEF ExclusiveInv
  <2> USE <2>0 DEF ExclusiveInv, OverlapInv, TypeOK, SwapSound, Becomes, At, Goto
  <2>1. Finish(s) \/ (Start(s) /\ pc'[s] = "kept" /\ HasPython(target))
    BY Arrivals
  <2> QED
    BY <2>1 DEF Finish, Start, HasPython
<1> QED
  BY <1>1, ExclusiveInvariance, PTL DEF SafetySpec, SuccessIsReady

-----------------------------------------------------------------------------
(* What a setup does to the profile's runtime, and how it comes to its end *)

\* The runtime of a profile is never changed where workers are started from it: it
\* only appears, by a rename, where none was, and it only goes away, by a rename
\* that keeps it whole, when a validated one is ready to take its place.
NeverInPlace ==
  [][target' # target =>
       \/ target = "absent"
       \/ /\ target' = "absent"
          /\ \E s \in Setups : staging[s] = "ready" /\ backup'[s] = target]_vars

\* However many setups overlap, fail or die, none writes into a published runtime.
THEOREM RuntimeNeverInPlace == SafetySpec => NeverInPlace
<1> DEFINE A == target' # target =>
                  \/ target = "absent"
                  \/ /\ target' = "absent"
                     /\ \E s \in Setups : staging[s] = "ready" /\ backup'[s] = target
<1>1. OverlapInv /\ [Next]_vars => [A]_vars
  <2> SUFFICES ASSUME OverlapInv, Next, target' # target, target # "absent"
               PROVE  /\ target' = "absent"
                      /\ \E s \in Setups : staging[s] = "ready" /\ backup'[s] = target
    OBVIOUS
  <2>1. PICK s \in Setups : SetAside(s)
    BY DEF Next, Start, Work, Crash, RunCommand, Publish, DropSome, Finish, Fail,
           CleanStaging, Restore
  <2>2. staging[s] = "ready"
    BY <2>1 DEF SetAside, OverlapInv, TypeOK, StagingValidated, At
  <2>3. target' = "absent" /\ backup'[s] = target
    BY <2>1 DEF SetAside, OverlapInv, TypeOK
  <2> QED
    BY <2>2, <2>3
<1> QED
  BY <1>1, OverlapInvariance, PTL DEF SafetySpec, NeverInPlace

\* How many places a setup has ahead of it at most, and how much a deletion may
\* take away before nothing is left.
StepsLeft ==
  [idle |-> 10, venv |-> 9, upgrade_pip |-> 8, install |-> 7, smoke |-> 6,
   set_aside |-> 5, publish |-> 4, drop_backup |-> 3, clean |-> 2, restore |-> 1,
   kept |-> 0, built |-> 0, failed |-> 0, stranded |-> 0, crashed |-> 0]

Contents == [absent |-> 0, bare |-> 1, unready |-> 2, ready |-> 3]

WorkLeft(s) == 4 * StepsLeft[pc[s]] + Contents[backup[s]]

\* A setup has at most 43 steps: each of its own brings it nearer to its end, the
\* deletion of the backup piece by piece included, and none of another's takes it
\* back.  No failure makes a setup start over.
SetupAdvances ==
  [][\A s \in Setups :
       /\ WorkLeft(s) \in 0..43
       /\ Start(s) \/ Work(s) \/ Crash(s) => WorkLeft(s)' < WorkLeft(s)
       /\ ~(Start(s) \/ Work(s) \/ Crash(s)) => WorkLeft(s)' = WorkLeft(s)]_vars

LEMMA Measures ==
  /\ \A place \in {"idle"} \cup InProgress \cup Ended : StepsLeft[place] \in 0..10
  /\ \A d \in Directory : Contents[d] \in 0..3
BY DEF StepsLeft, Contents, Directory, InProgress, Trying, Handling, Commands, Ended

\* A step of a setup is one of its own alone.
LEMMA OwnStep ==
  ASSUME TypeOK, NEW s \in Setups, Start(s) \/ Work(s) \/ Crash(s)
  PROVE  /\ \A r \in Setups \ {s} : pc'[r] = pc[r] /\ backup'[r] = backup[r]
         /\ \/ StepsLeft[pc'[s]] < StepsLeft[pc[s]]
            \/ /\ pc'[s] = pc[s]
               /\ Contents[backup'[s]] < Contents[backup[s]]
<1> USE DEF TypeOK, At, Goto, StepsLeft
<1>1. CASE Start(s)
  BY <1>1 DEF Start
<1>2. CASE RunCommand(s)
  BY <1>2 DEF RunCommand, After, Commands
<1>3. CASE SetAside(s) \/ Publish(s) \/ Finish(s)
  BY <1>3 DEF SetAside, Publish, Finish
<1>4. CASE DropSome(s)
  <2>1. PICK d \in Remains[backup[s]] \ {backup[s]} : backup' = [backup EXCEPT ![s] = d]
    BY <1>4 DEF DropSome
  <2>2. backup[s] \in Directory
    BY DEF TypeOK
  <2>3. Contents[d] < Contents[backup[s]]
    BY <2>1, <2>2 DEF Remains, Contents, Directory
  <2> QED
    BY <1>4, <2>1, <2>3 DEF DropSome
<1>5. CASE Fail(s) \/ Crash(s)
  BY <1>5 DEF Fail, Crash, InProgress, Trying, Handling, Commands
<1>6. CASE CleanStaging(s) \/ Restore(s)
  BY <1>6 DEF CleanStaging, Restore
<1> QED
  BY <1>1, <1>2, <1>3, <1>4, <1>5, <1>6 DEF Work

\* However many setups overlap, fail or die, each is over after at most 43 steps of its own.
THEOREM SetupsAdvance == SafetySpec => SetupAdvances
<1> DEFINE A == \A s \in Setups :
       /\ WorkLeft(s) \in 0..43
       /\ Start(s) \/ Work(s) \/ Crash(s) => WorkLeft(s)' < WorkLeft(s)
       /\ ~(Start(s) \/ Work(s) \/ Crash(s)) => WorkLeft(s)' = WorkLeft(s)
<1>1. TypeOK /\ TypeOK' /\ [Next]_vars => [A]_vars
  <2> SUFFICES ASSUME TypeOK, TypeOK', Next PROVE A
    OBVIOUS
  <2>1. ASSUME NEW s \in Setups, Start(s) \/ Work(s) \/ Crash(s)
        PROVE  WorkLeft(s)' < WorkLeft(s)
    <3>1. /\ StepsLeft[pc[s]] \in 0..10 /\ Contents[backup[s]] \in 0..3
          /\ StepsLeft[pc'[s]] \in 0..10 /\ Contents[backup'[s]] \in 0..3
      BY Measures DEF TypeOK
    <3> QED
      BY <2>1, <3>1, OwnStep DEF WorkLeft
  <2>2. ASSUME NEW s \in Setups, ~(Start(s) \/ Work(s) \/ Crash(s))
        PROVE  WorkLeft(s)' = WorkLeft(s)
    <3>1. PICK r \in Setups : r # s /\ (Start(r) \/ Work(r) \/ Crash(r))
      BY <2>2 DEF Next
    <3> QED
      BY <3>1, OwnStep DEF WorkLeft
  <2>3. \A s \in Setups : WorkLeft(s) \in 0..43
    <3>1. \A s \in Setups :
            StepsLeft[pc[s]] \in 0..10 /\ Contents[backup[s]] \in 0..3
      BY Measures DEF TypeOK
    <3> QED
      BY <3>1 DEF WorkLeft
  <2> QED
    BY <2>1, <2>2, <2>3
<1> QED
  BY <1>1, TypeCorrect, PTL DEF SafetySpec, SetupAdvances
=============================================================================

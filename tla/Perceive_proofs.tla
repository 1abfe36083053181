--------------------------- MODULE Perceive_proofs ---------------------------
(***************************************************************************)
(* Theorems about Perceive for any windows, handles, owners and any number *)
(* of times a handle changes hands.  The argument: a window that was read  *)
(* through a handle has the handle still or is closed for good, so a look  *)
(* at who has the handle tells what may have happened since an earlier one.*)
(***************************************************************************)
EXTENDS Perceive, TLAPS

Attached == {"drill", "walk", "recheck", "encode"}

\* A window has one handle, a closed one none.
HandlesSound ==
  /\ Placed(occupant)
  /\ \A h \in Handles : occupant[h] \notin gone

\* Who was seen through a handle is there or gone.
SeenAccounted ==
  /\ \A w \in seen : occupant[root] = w \/ w \in gone
  /\ pc \in Attached => There = attached \/ attached \in gone
  /\ \A w \in seen : root = Requested /\ w # attached => attached \in gone

\* What each look established.
LooksSound ==
  /\ pc \notin {"find", "done"} => target.frame = (found \in Frames)
  /\ pc \in Attached => attached \in Windows
  /\ pc \in Attached /\ caller = "plugin" => ProcessOf[attached] = target.process
  /\ pc = "drill" => seen = {}
  /\ root # Requested => target.frame
  /\ pc \in {"find", "find_process", "attach"} => root = Requested /\ seen = {}
  /\ pc \in {"recheck", "encode"} => seen # {}

\* The conclusion, from the recheck on.
Concluded == pc = "encode" \/ Disclosed

ConclusionHolds ==
  Concluded =>
    /\ caller = "plugin" /\ root = Requested =>
         \A w \in seen : ProcessOf[w] # target.process =>
           {attached, w} \subseteq gone /\ rechecked \notin {attached, w}
    /\ found = attached /\ attached = rechecked /\ found \notin Frames => seen = {found}

Undecided == answer # "none" => pc = "done"

IInv ==
  /\ TypeOK /\ HandlesSound /\ SeenAccounted /\ LooksSound /\ ConclusionHolds
  /\ Undecided

-----------------------------------------------------------------------------

LEMMA InitIInv == Init => IInv
<1> SUFFICES ASSUME Init PROVE IInv
  OBVIOUS
<1>1. TypeOK
  BY RequestedAssumption DEF Init, TypeOK, Somebody
<1>2. HandlesSound /\ SeenAccounted /\ LooksSound /\ ConclusionHolds /\ Undecided
  BY DEF Init, HandlesSound, SeenAccounted, LooksSound, ConclusionHolds, Concluded,
         Disclosed, Undecided, Attached
<1> QED BY <1>1, <1>2 DEF IInv

\* Each step of the worker, and the two of the desktop.
LEMMA NextIInv == IInv /\ [Next]_vars => IInv'
<1> SUFFICES ASSUME IInv, [Next]_vars PROVE IInv'
  OBVIOUS
<1> USE RequestedAssumption, ProcessOfAssumption, FramesAssumption, NobodyAssumption
<1> USE DEF IInv, TypeOK, Somebody, HandlesSound, Placed, SeenAccounted, LooksSound,
            ConclusionHolds, Concluded, Disclosed, Undecided, Attached, There,
            desktop, history, SameProcess
<1>1. CASE FindFails
  BY <1>1 DEF FindFails, Answer
<1>2. CASE Find
  <2> DEFINE isFrame == There \in Frames
  <2>1. target' = [target EXCEPT !.frame = isFrame] /\ isFrame \in BOOLEAN
    BY <1>2 DEF Find
  <2>2. target' \in [frame : BOOLEAN, process : Processes \cup {NoProcess}]
    <3> HIDE DEF isFrame
    <3> QED BY <2>1
  <2>3. TypeOK'
    BY <1>2, <2>2 DEF Find
  <2>4. HandlesSound' /\ SeenAccounted' /\ ConclusionHolds' /\ Undecided'
    BY <1>2 DEF Find
  <2>5. LooksSound'
    BY <1>2, <2>2 DEF Find
  <2> QED BY <2>3, <2>4, <2>5
<1>3. CASE FindProcess
  BY <1>3 DEF FindProcess
<1>4. CASE PerceiveFails
  BY <1>4 DEF PerceiveFails, Answer
<1>5. CASE Attach
  BY <1>5 DEF Attach
<1>6. CASE Drill
  BY <1>6 DEF Drill
<1>7. CASE Read
  BY <1>7 DEF Read
<1>8. CASE WalkEnds
  BY <1>8 DEF WalkEnds
<1>9. CASE Recheck
  \* Who has the handle now is not closed, and for the plugin of the target's process.
  <2>1. rechecked' = There /\ There \notin gone /\ SameProcess
    BY <1>9 DEF Recheck
  <2>2. ASSUME NEW w \in seen, caller = "plugin", root = Requested,
               ProcessOf[w] # target.process
        PROVE  {attached, w} \subseteq gone
    BY <1>9, <2>1, <2>2 DEF Recheck
  <2>3. ASSUME found = attached, attached = There, found \notin Frames
        PROVE  seen = {found}
    \* Not a frame, so not drilled; still there, so whoever was seen is it.
    <3>1. root = Requested
      BY <1>9, <2>3 DEF Recheck
    <3>2. \A w \in seen : w = attached
      BY <1>9, <2>1, <2>3, <3>1 DEF Recheck
    <3> QED BY <1>9, <2>3, <3>2 DEF Recheck
  <2>4. ConclusionHolds'
    BY <1>9, <2>1, <2>2, <2>3 DEF Recheck
  <2> QED BY <1>9, <2>4 DEF Recheck
<1>10. CASE Encode
  BY <1>10 DEF Encode, Answer
<1>11. ASSUME NEW h \in Handles, Close(h) PROVE IInv'
  <2>1. TypeOK' /\ HandlesSound'
    BY <1>11 DEF Close
  <2>2. SeenAccounted'
    BY <1>11 DEF Close
  <2>3. LooksSound' /\ Undecided'
    BY <1>11 DEF Close
  <2>4. ConclusionHolds'
    BY <1>11 DEF Close
  <2> QED BY <2>1, <2>2, <2>3, <2>4
<1>12. ASSUME NEW h \in Handles, NEW w \in Windows, Open(h, w) PROVE IInv'
  BY <1>12 DEF Open
<1>13. CASE UNCHANGED vars
  BY <1>13 DEF vars
<1> QED
  BY <1>1, <1>2, <1>3, <1>4, <1>5, <1>6, <1>7, <1>8, <1>9, <1>10, <1>11, <1>12, <1>13
  DEF Next, Worker, Desktop

LEMMA Invariance == SafetySpec => []IInv
  BY InitIInv, NextIInv, PTL DEF SafetySpec

-----------------------------------------------------------------------------

\* Every variable of the worker and the desktop keeps its type; in particular a
\* control is walked only where there is one.
THEOREM TypeCorrect == SafetySpec => []TypeOK
<1>1. IInv => TypeOK
  BY DEF IInv
<1> QED BY <1>1, Invariance, PTL

\* One reuse of the handle by another process is always caught.
THEOREM ForeignCaught == SafetySpec => []ForeignNeedsTwoReuses
<1>1. IInv => ForeignNeedsTwoReuses
  BY DEF IInv, ConclusionHolds, Concluded, ForeignNeedsTwoReuses
<1> QED BY <1>1, Invariance, PTL

\* An answer about a window that stayed is about that window alone.
THEOREM StableOnly == SafetySpec => []StableTargetOnly
<1>1. IInv => StableTargetOnly
  BY DEF IInv, ConclusionHolds, Concluded, StableTargetOnly
<1> QED BY <1>1, Invariance, PTL

-----------------------------------------------------------------------------
(* When the identity checks of the plugin are enough *)

\* The process that find_window read has no two windows.
SoleWindow ==
  \A v, w \in Windows :
    ProcessOf[v] = target.process /\ ProcessOf[w] = target.process => v = w

\* Where the process has one window, a recheck that finds the process finds the window,
\* so an answer that was not drilled into a frame is the tree of that window alone.
SoleWindowExact ==
  caller = "plugin" /\ Disclosed /\ root = Requested /\ SoleWindow =>
    seen = {attached} /\ ProcessOf[attached] = target.process

\* The strengthening: up to the encoding, such a tree is of the attached window.
SoleWindowRead ==
  /\ pc = "encode" /\ caller = "plugin" /\ root = Requested /\ SoleWindow =>
       seen = {attached} /\ ProcessOf[attached] = target.process
  /\ SoleWindowExact

LEMMA SoleWindowStep == IInv /\ SoleWindowRead /\ [Next]_vars => SoleWindowRead'
<1> SUFFICES ASSUME IInv, SoleWindowRead, [Next]_vars PROVE SoleWindowRead'
  OBVIOUS
<1> USE RequestedAssumption, ProcessOfAssumption, NobodyAssumption
        DEF SoleWindowRead, SoleWindowExact, SoleWindow, Disclosed, desktop, history
<1>1. CASE Recheck
  <2>1. /\ pc = "recheck" /\ pc' = "encode" /\ answer' = answer /\ answer = "none"
        /\ UNCHANGED <<caller, target, root, seen, attached>>
        /\ There # Nobody /\ There \in Windows /\ There \notin gone /\ SameProcess
    BY <1>1 DEF Recheck, There, IInv, TypeOK, Somebody, HandlesSound, Undecided
  <2>2. ASSUME caller = "plugin", root = Requested, SoleWindow
        PROVE  seen = {attached} /\ ProcessOf[attached] = target.process
    <3>1. attached \in Windows /\ ProcessOf[attached] = target.process
      BY <2>1, <2>2 DEF IInv, LooksSound, Attached
    <3>2. There = attached
      BY <2>1, <2>2, <3>1 DEF SameProcess
    <3>3. \A w \in seen : w = attached
      BY <2>1, <2>2, <3>2 DEF IInv, SeenAccounted
    <3>4. seen # {}
      BY <2>1 DEF IInv, LooksSound
    <3> QED
      BY <3>1, <3>3, <3>4
  <2> QED
    BY <2>1, <2>2
<1>2. CASE Encode
  BY <1>2 DEF Encode, Answer
<1>3. CASE Worker /\ ~Recheck /\ ~Encode
  <2>1. pc' # "encode" /\ answer' \notin {"snapshot", "output_budget_exceeded"}
    BY <1>3
    DEF Worker, FindFails, Find, FindProcess, PerceiveFails, Attach, Drill, Read, WalkEnds,
        Answer, IInv, Undecided
  <2> QED
    BY <2>1
<1>4. CASE Desktop \/ UNCHANGED vars
  BY <1>4 DEF Desktop, Close, Open, vars
<1> QED
  BY <1>1, <1>2, <1>3, <1>4 DEF Next

\* With one window to a process, the two identity checks are enough: whatever closed
\* and opened during the walk, what is answered is the attached window's tree.
THEOREM SoleWindowsExact == SafetySpec => []SoleWindowExact
<1>1. Init => SoleWindowRead
  BY DEF Init, SoleWindowRead, SoleWindowExact, Disclosed
<1>2. SoleWindowRead => SoleWindowExact
  BY DEF SoleWindowRead
<1> QED
  BY <1>1, <1>2, SoleWindowStep, Invariance, PTL DEF SafetySpec

\* The sentence of SECURITY.md is true where the process has one window and the
\* window that was found is the one attached to: reuse by a second window of the
\* process, and a change between the two looks, are its only exceptions.
THEOREM SoleReplacementDetected ==
  SafetySpec => [](SoleWindow /\ found = attached => ReplacementDetected)
<1>1. SoleWindowExact => (SoleWindow /\ found = attached => ReplacementDetected)
  BY DEF SoleWindowExact, ReplacementDetected
<1> QED
  BY <1>1, SoleWindowsExact, PTL
=============================================================================

-------------------------- MODULE FindWindow_proofs --------------------------
(***************************************************************************)
(* Proofs about FindWindow for any windows, and whatever opens, closes or  *)
(* raises.                                                                 *)
(***************************************************************************)
EXTENDS FindWindow, Naturals, TLAPS

Looking == pc = "match" \/ (pc = "describe" /\ via = "process")

\* What the search by process has not looked at yet.
ProcessLeft ==
  pc = "next" \/ Looking =>
    \A w \in Standing \cap OfProcess :
      w \in left \cup unread \cup behind \/ (Looking /\ w = candidate)

\* What the searches that came to nothing say of the windows that stood.
Passed(selector) ==
  Standing \cap Matches[selector] \subseteq
    IF selector = "process" THEN unread \cup behind ELSE {}

\* The searches behind the place where find_window is.
Searched ==
  IF pc = "title" \/ (pc = "describe" /\ via = "title") THEN {}
  ELSE IF pc = "process" \/ pc = "next" \/ Looking THEN {"title"}
  ELSE IF pc = "class" \/ (pc = "describe" /\ via = "class") THEN {"title", "process"}
  ELSE IF outcome = "window" THEN Stronger[via]
  ELSE IF outcome = "nothing" THEN Selectors ELSE {}

FindInv ==
  call = "find" =>
    /\ pc \notin {"list", "row"} /\ outcome # "list"
    /\ pc = "describe" \/ outcome = "window" => via \in Selectors
    /\ \A selector \in asked \cap Searched : Passed(selector)
    /\ ProcessLeft
    /\ pc = "describe" /\ via = "process" =>
         candidate \in OfProcess \/ candidate \notin Open
    /\ FoundOfProcess

ListInv ==
  call = "list" =>
    /\ pc \in {"list", "next", "row", "done"}
    /\ outcome \in {"none", "list"}
    /\ pc \in {"next", "row"} \/ outcome = "list" =>
         \A w \in Standing \cap Large :
           \/ w \in listed \cup unread \cup behind
           \/ w \in left /\ pc # "done"
           \/ w = candidate /\ pc = "row"

\* A window that stood is open, and one that is looked at was opened.
PlaceInv ==
  /\ steady \subseteq Open
  /\ pc \in {"match", "row", "describe"} => place[candidate] # "unopened"

IInv == TypeOK /\ PlaceInv /\ FindInv /\ ListInv

-----------------------------------------------------------------------------

LEMMA InitIInv == Windows # {} /\ Init => IInv
<1> SUFFICES ASSUME Windows # {}, Init PROVE IInv OBVIOUS
<1>1. candidate \in Windows BY DEF Init
<1>2. TypeOK BY <1>1 DEF Init, TypeOK, Open, Selectors
<1>3. PlaceInv BY DEF Init, PlaceInv
<1>4. FindInv
  BY Zenon DEF Init, FindInv, Searched, ProcessLeft, Looking, FoundOfProcess, Selectors
<1>5. ListInv BY Zenon DEF Init, ListInv
<1> QED BY <1>2, <1>3, <1>4, <1>5 DEF IInv

LEMMA NextType == TypeOK /\ [Next]_vars => TypeOK'
<1> SUFFICES ASSUME TypeOK, [Next]_vars PROVE TypeOK' OBVIOUS
<1> USE DEF TypeOK, Selectors, desktop, Finish, Open
<1>1. CASE \E selector \in {"title", "class"} : Exists(selector)
  BY <1>1 DEF Exists, Matching
<1>2. CASE \E selector \in Selectors : TryNext(selector) BY <1>2 DEF TryNext
<1>3. CASE ExistsRaises BY <1>3 DEF ExistsRaises
<1>4. CASE GetChildren BY <1>4 DEF GetChildren, Enumerating
<1>5. CASE GetChildrenFails BY <1>5 DEF GetChildrenFails, Enumerating
<1>6. CASE Yield BY <1>6 DEF Yield
<1>7. CASE YieldRaises BY <1>7 DEF YieldRaises
<1>8. CASE Exhausted BY <1>8 DEF Exhausted
<1>9. CASE Match \/ NoMatch BY <1>9 DEF Match, NoMatch
<1>10. CASE Describe \/ DescribeRaises
  <2>1. CASE Describe BY <2>1 DEF Describe
  <2>2. CASE DescribeRaises /\ via = "process" BY <2>2 DEF DescribeRaises
  <2>3. CASE DescribeRaises /\ via # "process" BY <2>3 DEF DescribeRaises
  <2> QED BY <1>10, <2>1, <2>2, <2>3
<1>11. CASE Row \/ RowRaises
  <2>1. CASE Row
    <3>1. listed' \subseteq Windows BY <2>1 DEF Row
    <3> QED BY <2>1, <3>1 DEF Row
  <2>2. CASE RowRaises BY <2>2 DEF RowRaises
  <2> QED BY <1>11, <2>1, <2>2
<1>12. CASE \E w \in Windows : Move(w) BY <1>12 DEF Move
<1>13. CASE UNCHANGED vars BY <1>13 DEF vars
<1> QED
  BY <1>1, <1>2, <1>3, <1>4, <1>5, <1>6, <1>7, <1>8, <1>9, <1>10, <1>11, <1>12, <1>13
     DEF Next, Finder

LEMMA NextPlace == TypeOK /\ PlaceInv /\ [Next]_vars => PlaceInv'
<1> SUFFICES ASSUME TypeOK, PlaceInv, [Next]_vars PROVE PlaceInv' OBVIOUS
<1> USE DEF PlaceInv, desktop, Open
<1>1. CASE \E w \in Windows : Move(w) BY <1>1 DEF Move, TypeOK
<1>2. CASE UNCHANGED vars BY <1>2 DEF vars
<1>3. CASE Finder
  <2>1. UNCHANGED <<place, steady>>
    BY <1>3 DEF Finder, Exists, TryNext, ExistsRaises, GetChildren, GetChildrenFails,
           Yield, YieldRaises, Exhausted, Match, NoMatch, Describe, DescribeRaises, Row,
           RowRaises
  <2>2. pc' \in {"match", "row", "describe"} => place[candidate'] # "unopened"
    <3>1. CASE \E selector \in {"title", "class"} : Exists(selector)
      BY <3>1 DEF Exists, Matching
    <3>2. CASE Yield BY <3>2 DEF Yield
    <3>3. CASE Match BY <3>3 DEF Match
    <3>4. CASE ~(\E selector \in {"title", "class"} : Exists(selector)) /\ ~Yield /\ ~Match
      <4>1. pc' \notin {"match", "row", "describe"}
        BY <1>3, <3>4
           DEF Finder, TryNext, ExistsRaises, GetChildren, GetChildrenFails, YieldRaises,
               Exhausted, NoMatch, Describe, DescribeRaises, Row, RowRaises, Finish,
               Selectors
      <4> QED BY <4>1
    <3> QED BY <3>1, <3>2, <3>3, <3>4
  <2> QED BY <2>1, <2>2
<1> QED BY <1>1, <1>2, <1>3 DEF Next

LEMMA StandingOpen == PlaceInv => Standing \subseteq Open \ Panes
BY DEF PlaceInv, Standing

\* What is known of windows that stood stays known when one of them moves.
LEMMA MoveKeeps ==
  ASSUME TypeOK, PlaceInv, FindInv, ListInv, NEW w \in Windows, Move(w)
  PROVE  FindInv' /\ ListInv'
<1>1. Standing' \subseteq Standing BY DEF Move, Standing
<1>2. UNCHANGED <<pc, call, asked, left, candidate, via, listed, outcome, unread, behind>>
  BY DEF Move
<1>3. pc = "describe" /\ candidate \notin Open => candidate \notin Open'
  BY DEF Move, PlaceInv, Open, TypeOK
<1>4. Searched' = Searched BY <1>2 DEF Searched, Looking
<1>5. \A selector : Passed(selector) => Passed(selector)'
  BY <1>1, <1>2 DEF Passed
<1>6. ProcessLeft => ProcessLeft' BY <1>1, <1>2 DEF ProcessLeft, Looking
<1>7. FindInv' BY <1>2, <1>3, <1>4, <1>5, <1>6 DEF FindInv, FoundOfProcess
<1>8. ListInv' BY <1>1, <1>2 DEF ListInv
<1> QED BY <1>7, <1>8

LEMMA NextList == TypeOK /\ PlaceInv /\ ListInv /\ Finder => ListInv'
<1> SUFFICES ASSUME TypeOK, PlaceInv, ListInv, Finder, call = "list" PROVE ListInv'
  BY DEF Finder, Exists, TryNext, ExistsRaises, GetChildren, GetChildrenFails, Yield,
         YieldRaises, Exhausted, Match, NoMatch, Describe, DescribeRaises, Row, RowRaises,
         ListInv
<1>1. Standing' = Standing
  BY DEF Finder, Exists, TryNext, ExistsRaises, GetChildren, GetChildrenFails, Yield,
         YieldRaises, Exhausted, Match, NoMatch, Describe, DescribeRaises, Row, RowRaises,
         desktop, Standing
<1>2. Standing \subseteq Open \ Panes BY StandingOpen
<1> USE <1>1, <1>2 DEF ListInv
<1>3. CASE GetChildren \/ GetChildrenFails BY <1>3 DEF GetChildren, GetChildrenFails
<1>4. CASE Yield BY <1>4 DEF Yield, TypeOK
<1>5. CASE YieldRaises BY <1>5 DEF YieldRaises, TypeOK
<1>6. CASE Exhausted BY <1>6 DEF Exhausted, Finish
<1>7. CASE Row \/ RowRaises BY <1>7 DEF Row, RowRaises
<1> QED
  BY <1>3, <1>4, <1>5, <1>6, <1>7
     DEF Finder, Exists, TryNext, ExistsRaises, Match, NoMatch, Describe, DescribeRaises,
         Selectors

LEMMA NextFind == TypeOK /\ PlaceInv /\ FindInv /\ Finder => FindInv'
<1> SUFFICES ASSUME TypeOK, PlaceInv, FindInv, Finder, call = "find" PROVE FindInv'
  BY DEF Finder, Exists, TryNext, ExistsRaises, GetChildren, GetChildrenFails, Yield,
         YieldRaises, Exhausted, Match, NoMatch, Describe, DescribeRaises, Row, RowRaises,
         FindInv
<1>1. Standing' = Standing /\ Open' = Open /\ asked' = asked
  BY DEF Finder, Exists, TryNext, ExistsRaises, GetChildren, GetChildrenFails, Yield,
         YieldRaises, Exhausted, Match, NoMatch, Describe, DescribeRaises, Row, RowRaises,
         desktop, Standing, Open
<1>2. Standing \subseteq Open \ Panes BY StandingOpen
<1>3. UNCHANGED <<unread, behind>> => \A s : Passed(s) => Passed(s)'
  BY <1>1 DEF Passed
<1> USE <1>1, <1>2 DEF FindInv, FoundOfProcess
<1>4. CASE \E s \in {"title", "class"} : Exists(s)
  BY <1>3, <1>4 DEF Exists, Searched, Looking, ProcessLeft, Selectors
<1>5. CASE \E s \in Selectors : TryNext(s)
  <2>1. PICK s \in Selectors : TryNext(s) BY <1>5
  <2>2. s \in asked => Passed(s)' BY <2>1 DEF TryNext, Passed, Matching
  <2> QED
    BY <1>3, <2>1, <2>2
       DEF TryNext, Searched, Looking, ProcessLeft, Selectors, TypeOK, Finish
<1>6. CASE ExistsRaises
  BY <1>3, <1>6 DEF ExistsRaises, Searched, Looking, ProcessLeft, Finish
<1>7. CASE GetChildren
  BY <1>3, <1>7 DEF GetChildren, Enumerating, Searched, Looking, ProcessLeft
<1>8. CASE GetChildrenFails
  BY <1>8 DEF GetChildrenFails, Enumerating, Searched, Looking, ProcessLeft, Passed
<1>9. CASE Yield
  <2>1. pc = "next" /\ outcome = "none" /\ outcome' = "none"
    BY <1>9 DEF Yield, TypeOK
  <2>2. PICK w \in left \cap Open :
          /\ left' = left \ {w}
          /\ IF w \in Panes THEN UNCHANGED <<pc, candidate>>
             ELSE candidate' = w /\ pc' = "match"
    BY <1>9 DEF Yield
  <2>3. UNCHANGED <<via, unread, behind, call>> BY <1>9 DEF Yield
  <2>4. ProcessLeft' BY <2>1, <2>2, <2>3 DEF ProcessLeft, Looking
  <2> QED BY <1>3, <2>1, <2>2, <2>3, <2>4 DEF Searched, Looking
<1>10. CASE YieldRaises
  BY <1>10 DEF YieldRaises, Searched, Looking, ProcessLeft, Passed
<1>11. CASE Exhausted
  <2>1. pc = "next" /\ left = {} /\ pc' = "class"
        /\ UNCHANGED <<candidate, via, call, outcome, unread, behind>>
    BY <1>11 DEF Exhausted
  <2>2. Passed("process")' BY <2>1 DEF ProcessLeft, Looking, Passed, Matches
  <2>3. outcome = "none" BY <2>1 DEF TypeOK
  <2> QED BY <1>3, <2>1, <2>2, <2>3 DEF Searched, Looking, ProcessLeft
<1>12. CASE Match
  <2>1. /\ pc = "match" /\ pc' = "describe" /\ via' = "process"
        /\ candidate \in OfProcess \/ candidate \notin Open
        /\ UNCHANGED <<candidate, call, left, outcome, unread, behind>>
    BY <1>12 DEF Match
  <2>2. outcome = "none" BY <2>1 DEF TypeOK
  <2>3. ProcessLeft' BY <2>1 DEF ProcessLeft, Looking
  <2> QED BY <1>3, <2>1, <2>2, <2>3 DEF Searched, Looking, Selectors
<1>13. CASE NoMatch
  <2>1. /\ pc = "match" /\ pc' = "next" /\ unread \subseteq unread'
        /\ candidate \in OfProcess => candidate \in unread'
        /\ UNCHANGED <<candidate, via, call, left, outcome, behind>>
    BY <1>13 DEF NoMatch
  <2>2. \A s : Passed(s) => Passed(s)' BY <2>1 DEF Passed
  <2>3. ProcessLeft' BY <2>1 DEF ProcessLeft, Looking
  <2>4. outcome = "none" BY <2>1 DEF TypeOK
  <2> QED BY <2>1, <2>2, <2>3, <2>4 DEF Searched, Looking
<1>14. CASE Describe
  BY <1>3, <1>14 DEF Describe, Searched, Looking, ProcessLeft, Finish, Stronger, Selectors
<1>15. CASE DescribeRaises
  BY <1>3, <1>15
     DEF DescribeRaises, Searched, Looking, ProcessLeft, Passed, Finish, Selectors
<1> QED
  BY <1>4, <1>5, <1>6, <1>7, <1>8, <1>9, <1>10, <1>11, <1>12, <1>13, <1>14, <1>15
     DEF Finder, Row, RowRaises

LEMMA NextIInv == IInv /\ [Next]_vars => IInv'
<1> SUFFICES ASSUME IInv, [Next]_vars PROVE IInv' OBVIOUS
<1>1. TypeOK' /\ PlaceInv' BY NextType, NextPlace DEF IInv
<1>2. FindInv' /\ ListInv'
  <2>1. CASE Finder BY <2>1, NextFind, NextList DEF IInv
  <2>2. CASE \E w \in Windows : Move(w) BY <2>2, MoveKeeps DEF IInv
  <2>3. CASE UNCHANGED vars
    BY <2>3 DEF IInv, FindInv, ListInv, vars, desktop, Searched, Looking, Passed,
                ProcessLeft, Standing, FoundOfProcess, Open
  <2> QED BY <2>1, <2>2, <2>3 DEF Next
<1> QED BY <1>1, <1>2 DEF IInv

LEMMA Inductive == Spec => []IInv
BY WindowsAssumption, InitIInv, NextIInv, PTL DEF Spec

-----------------------------------------------------------------------------

\* Every variable of a search keeps its type.
THEOREM TypeCorrect == Spec => []TypeOK
BY Inductive, PTL DEF IInv

\* For any windows, a search passes over a window that stood and matches a stronger
\* selector only when that window could not be read or the enumeration broke.
THEOREM MissesExplained == Spec => []MissExplained
<1>1. IInv => MissExplained
  <2> SUFFICES ASSUME IInv, outcome \in {"window", "nothing"} PROVE MissExplained
    BY DEF MissExplained
  <2>1. call = "find" /\ pc = "done" BY DEF IInv, ListInv, TypeOK
  <2>2. Searched = IF outcome = "window" THEN Stronger[via] ELSE Selectors
    BY <2>1 DEF Searched, Looking
  <2>3. \A selector \in asked \cap Searched : Passed(selector)
    BY <2>1 DEF IInv, FindInv
  <2> QED BY <2>2, <2>3 DEF MissExplained, Passed, Stronger
<1> QED BY <1>1, Inductive, PTL

\* For any windows, a reused process id never makes the search by process return a
\* window of another process.
THEOREM ProcessFound == Spec => []FoundOfProcess
<1>1. IInv => FoundOfProcess
  BY DEF IInv, FindInv, ListInv, FoundOfProcess, TypeOK
<1> QED BY <1>1, Inductive, PTL

\* For any windows, a large window that stood is missing from the list only when it
\* could not be read or the enumeration broke before it.
THEOREM ListAccounted == Spec => []ListExplained
<1>1. IInv => ListExplained
  BY DEF IInv, FindInv, ListInv, ListExplained, TypeOK
<1> QED BY <1>1, Inductive, PTL

-----------------------------------------------------------------------------
(* What is answered *)

\* A row of the list is a window of the minimum size that was open.
ListSound ==
  /\ listed \subseteq Large \ Panes
  /\ \A w \in listed : place[w] # "unopened"

\* A window that is found matches the selector it was found by, and was asked for.
FoundSound ==
  outcome = "window" => call = "find" /\ via \in asked /\ candidate \in Matches[via] \ Panes

\* What the searches know of the window they look at.
CandidateInv ==
  /\ pc \in {"match", "row", "describe"} => candidate \notin Panes
  /\ pc = "row" => call = "list"
  /\ pc \in {"match", "describe"} => call = "find"
  /\ call = "find" /\ pc \in {"next", "match"} => "process" \in asked
  /\ pc = "describe" => via \in asked
  /\ pc = "describe" /\ via # "process" => candidate \in Matches[via]

AnswerInv == CandidateInv /\ ListSound /\ FoundSound

LEMMA AnswerSound == Spec => []AnswerInv
<1>1. Windows # {} /\ Init => AnswerInv
  BY Zenon DEF Init, AnswerInv, CandidateInv, ListSound, FoundSound
<1>2. IInv /\ AnswerInv /\ [Next]_vars => AnswerInv'
  <2> SUFFICES ASSUME IInv, AnswerInv, [Next]_vars PROVE AnswerInv' OBVIOUS
  <2> USE DEF AnswerInv, CandidateInv, ListSound, FoundSound, desktop, Finish, Matches
  <2>t. TypeOK /\ PlaceInv BY DEF IInv
  <2>1. CASE \E selector \in {"title", "class"} : Exists(selector)
    <3>1. PICK selector \in {"title", "class"} : Exists(selector) BY <2>1
    <3>2. /\ candidate' \in Matches[selector] \ Panes
          /\ selector \in asked /\ via' = selector /\ pc' = "describe" /\ pc = selector
          /\ UNCHANGED <<call, asked, place, listed, outcome>>
      BY <3>1 DEF Exists, Matching
    <3>3. call = "find" /\ outcome = "none"
      BY <2>t, <3>2 DEF IInv, ListInv, TypeOK
    <3> QED BY <3>2, <3>3
  <2>2. CASE \E selector \in Selectors : TryNext(selector)
    <3>1. PICK selector \in Selectors : TryNext(selector) BY <2>2
    <3>2. /\ pc' \in {"process", "class", "done"} /\ outcome' \in {outcome, "nothing"}
          /\ UNCHANGED <<call, asked, place, candidate, via, listed>>
      BY <3>1 DEF TryNext, Selectors
    <3> QED BY <3>2
  <2>3. CASE ExistsRaises BY <2>3 DEF ExistsRaises
  <2>4. CASE GetChildren \/ GetChildrenFails
    <3>1. /\ pc' = "next" /\ pc \in {"list", "process"}
          /\ pc = "process" => "process" \in asked
          /\ UNCHANGED <<call, asked, place, candidate, via, listed, outcome>>
      BY <2>4 DEF GetChildren, GetChildrenFails, Enumerating
    <3>2. pc = "list" => call = "list" BY <2>t DEF IInv, FindInv, TypeOK
    <3> QED BY <3>1, <3>2
  <2>5. CASE Yield
    <3>1. PICK w \in left \cap Open :
            IF w \in Panes THEN UNCHANGED <<pc, candidate>>
            ELSE candidate' = w /\ pc' = IF call = "list" THEN "row" ELSE "match"
      BY <2>5 DEF Yield
    <3>2. pc = "next" /\ UNCHANGED <<call, asked, place, via, listed, outcome>>
      BY <2>5 DEF Yield
    <3>3. call \in {"find", "list"} /\ outcome = "none"
      BY <2>t, <3>2 DEF TypeOK
    <3> QED BY <3>1, <3>2, <3>3
  <2>6. CASE YieldRaises BY <2>6 DEF YieldRaises
  <2>7. CASE Exhausted BY <2>7 DEF Exhausted
  <2>8. CASE Match
    <3>1. /\ pc = "match" /\ pc' = "describe" /\ via' = "process"
          /\ UNCHANGED <<call, asked, place, candidate, listed, outcome>>
      BY <2>8 DEF Match
    <3>2. outcome = "none" BY <2>t, <3>1 DEF TypeOK
    <3> QED BY <3>1, <3>2
  <2>9. CASE NoMatch BY <2>9 DEF NoMatch
  <2>10. CASE Describe
    <3>1. /\ pc = "describe" /\ candidate \in Open /\ pc' = "done" /\ outcome' = "window"
          /\ UNCHANGED <<call, asked, place, candidate, via, listed>>
      BY <2>10 DEF Describe
    <3>2. call = "find" /\ via \in asked /\ candidate \notin Panes BY <3>1
    <3>3. candidate \in Matches[via]
      BY <3>1, <3>2, <2>t DEF IInv, FindInv
    <3> QED BY <3>1, <3>2, <3>3
  <2>11. CASE DescribeRaises
    <3>1. /\ pc = "describe" /\ UNCHANGED <<call, asked, place, candidate, via, listed>>
          /\ \/ via = "process" /\ pc' = "next" /\ outcome' = outcome
             \/ pc' = "done" /\ outcome' = "raised"
      BY <2>11 DEF DescribeRaises
    <3> QED BY <3>1
  <2>12. CASE Row
    <3>1. /\ pc = "row" /\ pc' = "next" /\ candidate \in Open \ Panes
          /\ listed' = IF candidate \in Large THEN listed \cup {candidate} ELSE listed
          /\ UNCHANGED <<call, asked, place, candidate, via, outcome>>
      BY <2>12 DEF Row
    <3> QED BY <3>1 DEF Open
  <2>13. CASE RowRaises BY <2>13 DEF RowRaises
  <2>14. CASE \E w \in Windows : Move(w)
    <3>1. PICK w \in Windows : Move(w) BY <2>14
    <3>2. \A x \in Windows : place[x] # "unopened" => place'[x] # "unopened"
      BY <3>1, <2>t DEF Move, TypeOK
    <3>3. UNCHANGED <<pc, call, asked, candidate, via, listed, outcome>>
      BY <3>1 DEF Move
    <3> QED BY <3>2, <3>3, <2>t DEF TypeOK
  <2>15. CASE UNCHANGED vars BY <2>15 DEF vars
  <2> QED
    BY <2>1, <2>2, <2>3, <2>4, <2>5, <2>6, <2>7, <2>8, <2>9, <2>10, <2>11, <2>12, <2>13,
       <2>14, <2>15 DEF Next, Finder
<1> QED BY <1>1, <1>2, WindowsAssumption, Inductive, PTL DEF Spec

\* For any windows, a list holds only windows of the minimum size that were opened.
THEOREM ListedSound == Spec => []ListSound
BY AnswerSound, PTL DEF AnswerInv

\* For any windows, a window that is found is a window that matches a selector that
\* was given, by whichever search found it and whatever happened since.
THEOREM FoundMatches == Spec => []FoundSound
BY AnswerSound, PTL DEF AnswerInv

\* For any windows, a desktop whose enumeration never broke is listed in full: what
\* the docstring of list_windows leaves out is the try around the generator's loop.
THEOREM UnbrokenListsAll == Spec => [](behind = {} => ListsAll)
<1>1. ListExplained => (behind = {} => ListsAll) BY DEF ListExplained, ListsAll
<1> QED BY <1>1, ListAccounted, PTL

-----------------------------------------------------------------------------
(* What a step of a search uses up *)

\* In a loop over the windows.
InLoop == pc \in {"next", "match", "row"} \/ (pc = "describe" /\ via = "process")

\* The searches that are left, the one that goes on included.
Stage ==
  IF pc = "title" THEN 5
  ELSE IF pc \in {"process", "list"} THEN 4
  ELSE IF InLoop THEN 3
  ELSE IF pc = "class" THEN 2
  ELSE IF pc = "describe" THEN 1 ELSE 0

\* The steps left with the window looked at.
Look ==
  IF pc = "match" THEN 2 ELSE IF pc \in {"describe", "row"} THEN 1 ELSE 0

\* A step of a search leaves fewer searches, or fewer windows of the list that the
\* generator made, or less to do with the window it is at.
Advances ==
  \/ Stage' < Stage
  \/ Stage' = Stage /\ left' \subseteq left /\ left' # left
  \/ Stage' = Stage /\ left' = left /\ Look' < Look

FinderAdvances == Finder => Advances

LEMMA FinderStep ==
  ASSUME IInv, AnswerInv, Finder
  PROVE  Advances
<1> USE DEF Advances, Stage, Look, InLoop, Finish
<1>1. CASE \E selector \in {"title", "class"} : Exists(selector)
  BY <1>1 DEF Exists
<1>2. CASE \E selector \in Selectors : TryNext(selector)
  <2>1. <<pc, pc'>> \in
          {<<"title", "process">>, <<"process", "class">>, <<"class", "done">>}
    BY <1>2 DEF TryNext, Selectors
  <2> QED BY <2>1
<1>3. CASE ExistsRaises BY <1>3 DEF ExistsRaises
<1>4. CASE GetChildren \/ GetChildrenFails
  BY <1>4 DEF GetChildren, GetChildrenFails, Enumerating
<1>5. CASE Yield
  <2>1. pc = "next" /\ pc' \in {"next", "match", "row"} /\ left' \subseteq left
        /\ left' # left
    BY <1>5 DEF Yield
  <2> QED BY <2>1
<1>6. CASE YieldRaises
  BY <1>6 DEF YieldRaises
<1>7. CASE Exhausted
  <2>1. pc = "next" /\ pc' \in {"class", "done"} BY <1>7 DEF Exhausted
  <2> QED BY <2>1
<1>8. CASE Match \/ NoMatch BY <1>8 DEF Match, NoMatch
<1>9. CASE Describe BY <1>9 DEF Describe
<1>10. CASE DescribeRaises
  <2>1. /\ pc = "describe" /\ via' = via /\ left' = left
        /\ pc' = IF via = "process" THEN "next" ELSE "done"
    BY <1>10 DEF DescribeRaises
  <2> QED BY <2>1
<1>11. CASE Row \/ RowRaises BY <1>11 DEF Row, RowRaises
<1> QED
  BY <1>1, <1>2, <1>3, <1>4, <1>5, <1>6, <1>7, <1>8, <1>9, <1>10, <1>11 DEF Finder

\* For any windows, and however often they open, close or raise, no step of a search
\* can be repeated forever: the number of looks is bounded by the windows the
\* generator found when it started.
THEOREM FinderEnds == Spec => [][FinderAdvances]_vars
<1>1. IInv /\ AnswerInv /\ [Next]_vars => [FinderAdvances]_vars
  BY FinderStep DEF FinderAdvances
<1> QED BY <1>1, Inductive, AnswerSound, PTL DEF Spec
=============================================================================

----------------------------- MODULE FindWindow -----------------------------
(***************************************************************************)
(* find_window without a handle and list_windows of                        *)
(* sidecar/target/finder.py: searches of a desktop whose windows open and  *)
(* close between any two reads.  A read of a closed window raises, and any *)
(* other read may.                                                         *)
(*                                                                         *)
(* The searches by title and by class are the library's, and each is one   *)
(* look at the desktop.  The other two loop over the generator             *)
(* _enumerate_top_windows, which goes through a list of the windows made   *)
(* when it started.  Abstractions: a window's title, process, class, size  *)
(* and control type are its own for good, and are looked at only for       *)
(* whether they are what is asked for.                                     *)
(***************************************************************************)
CONSTANTS Windows,
          Panes,       \* top-level controls that are no WindowControl
          Titled, OfProcess, OfClass, \* windows that match what is asked for
          Large        \* windows of at least the minimum size

Selectors == {"title", "process", "class"}

\* The selectors that come before one.
Stronger == [title |-> {}, process |-> {"title"}, class |-> {"title", "process"},
             none |-> Selectors]

ASSUME WindowsAssumption ==
  Windows # {} /\ {Panes, Titled, OfProcess, OfClass, Large} \subseteq SUBSET Windows

VARIABLES pc,        \* where the call is
          call,      \* find_window or list_windows
          asked,     \* the selectors given to find_window
          place,     \* whether a window is not yet opened, open or closed
          left,      \* windows the generator has not come to
          candidate, via, \* the window looked at, and for which selector
          listed,    \* the list made by list_windows
          outcome,
          steady,    \* history: windows open since the call began
          unread,    \* history: windows that could not be listed or read
          behind     \* history: windows left when the enumeration broke

desktop == <<place, steady>>
vars == <<pc, call, asked, desktop, left, candidate, via, listed, outcome, unread, behind>>

TypeOK ==
  /\ pc \in Selectors \cup {"list", "next", "match", "row", "describe", "done"}
  /\ call \in {"find", "list"}
  /\ asked \subseteq Selectors
  /\ place \in [Windows -> {"unopened", "open", "closed"}]
  /\ {left, listed, steady, unread, behind} \subseteq SUBSET Windows
  /\ candidate \in Windows
  /\ via \in Selectors \cup {"none"}
  /\ outcome \in {"none", "window", "nothing", "list", "raised"}
  /\ outcome = "none" <=> pc # "done"
  /\ pc \in {"match", "row"} => candidate \notin Panes

Open == {w \in Windows : place[w] = "open"}

Init ==
  /\ \/ call = "find" /\ pc = "title" /\ asked \in SUBSET Selectors
     \/ call = "list" /\ pc = "list" /\ asked = {}
  /\ place \in [Windows -> {"unopened", "open"}]
  /\ left = {} /\ listed = {}
  /\ candidate = (CHOOSE w \in Windows : TRUE) /\ via = "none"
  /\ outcome = "none"
  /\ steady = Open
  /\ unread = {} /\ behind = {}

Finish(result) == pc' = "done" /\ outcome' = result

-----------------------------------------------------------------------------
(* find_window, by title or by class *)

Matches == [title |-> Titled, process |-> OfProcess, class |-> OfClass]

\* What the library's search, for controls of type Window, finds.
Matching(selector) == (Open \ Panes) \cap Matches[selector]

Exists(selector) ==
  /\ pc = selector /\ selector \in asked
  /\ candidate' \in Matching(selector)
  /\ via' = selector
  /\ pc' = "describe"
  /\ UNCHANGED <<call, asked, desktop, left, listed, outcome, unread, behind>>

\* The selector is not given, or finds nothing: the next one is tried.
TryNext(selector) ==
  /\ pc = selector
  /\ selector \in asked => selector # "process" /\ Matching(selector) = {}
  /\ CASE selector = "title" -> pc' = "process" /\ UNCHANGED outcome
       [] selector = "process" -> pc' = "class" /\ UNCHANGED outcome
       [] selector = "class" -> Finish("nothing")
  /\ UNCHANGED <<call, asked, desktop, left, candidate, via, listed, unread, behind>>

ExistsRaises ==
  /\ pc \in {"title", "class"} /\ pc \in asked
  /\ Finish("raised")
  /\ UNCHANGED <<call, asked, desktop, left, candidate, via, listed, unread, behind>>

-----------------------------------------------------------------------------
(* _enumerate_top_windows *)

Enumerating == pc = "list" \/ (pc = "process" /\ "process" \in asked)

GetChildren ==
  /\ Enumerating
  /\ left' = Open
  /\ pc' = "next"
  /\ UNCHANGED <<call, asked, desktop, candidate, via, listed, outcome, unread, behind>>

\* A desktop that cannot be listed has no windows.
GetChildrenFails ==
  /\ Enumerating
  /\ left' = {} /\ unread' = unread \cup Open
  /\ pc' = "next"
  /\ UNCHANGED <<call, asked, desktop, candidate, via, listed, outcome, behind>>

\* Mutant: controls that are no windows are yielded too.
YieldPanes ==
  /\ pc = "next"
  /\ \E w \in left \cap Open :
       /\ left' = left \ {w}
       /\ candidate' = w /\ pc' = IF call = "list" THEN "row" ELSE "match"
  /\ UNCHANGED <<call, asked, desktop, via, listed, outcome, unread, behind>>

Yield ==
  /\ pc = "next"
  /\ \E w \in left \cap Open :
       /\ left' = left \ {w}
       /\ IF w \in Panes THEN UNCHANGED <<pc, candidate>>
          ELSE candidate' = w /\ pc' = IF call = "list" THEN "row" ELSE "match"
  /\ UNCHANGED <<call, asked, desktop, via, listed, outcome, unread, behind>>

\* The generator's try is around its loop: what looking at one window raises ends
\* it, and its caller sees no more windows.
YieldRaises ==
  /\ pc = "next"
  /\ \E w \in left :
       unread' = unread \cup {w} /\ behind' = behind \cup (left \ {w})
  /\ left' = {}
  /\ UNCHANGED <<pc, call, asked, desktop, candidate, via, listed, outcome>>

Exhausted ==
  /\ pc = "next" /\ left = {}
  /\ IF call = "list" THEN Finish("list") ELSE pc' = "class" /\ UNCHANGED outcome
  /\ UNCHANGED <<call, asked, desktop, left, candidate, via, listed, unread, behind>>

-----------------------------------------------------------------------------
(* find_window, by process *)

\* Mutant: a name that could not be read matches.
MatchUnread ==
  /\ pc = "match"
  /\ via' = "process" /\ pc' = "describe" /\ UNCHANGED unread
  /\ UNCHANGED <<call, asked, desktop, left, candidate, listed, outcome, behind>>

\* The process id is read before the process's name, which is that of another
\* process when the window is closed and its process id reused in between.
Match ==
  /\ pc = "match"
  /\ candidate \in OfProcess \/ candidate \notin Open
  /\ via' = "process" /\ pc' = "describe"
  /\ UNCHANGED <<call, asked, desktop, left, candidate, listed, outcome, unread, behind>>

\* The name is another one, or cannot be read, or reading the id raises.
NoMatch ==
  /\ pc = "match"
  /\ unread' = IF candidate \in OfProcess THEN unread \cup {candidate} ELSE unread
  /\ pc' = "next"
  /\ UNCHANGED <<call, asked, desktop, left, candidate, via, listed, outcome, behind>>

\* _make_target_info
Describe ==
  /\ pc = "describe"
  /\ candidate \in Open
  /\ Finish("window")
  /\ UNCHANGED <<call, asked, desktop, left, candidate, via, listed, unread, behind>>

\* Mutant: the loop over the windows ends with the first that raises.
DescribeRaisesOnce ==
  /\ pc = "describe"
  /\ IF via = "process"
     THEN /\ pc' = "class" /\ unread' = unread \cup {candidate}
          /\ UNCHANGED outcome
     ELSE Finish("raised") /\ UNCHANGED unread
  /\ UNCHANGED <<call, asked, desktop, left, candidate, via, listed, behind>>

\* Only the search by process goes on with its other windows.
DescribeRaises ==
  /\ pc = "describe"
  /\ IF via = "process"
     THEN /\ pc' = "next" /\ unread' = unread \cup {candidate}
          /\ UNCHANGED outcome
     ELSE Finish("raised") /\ UNCHANGED unread
  /\ UNCHANGED <<call, asked, desktop, left, candidate, via, listed, behind>>

-----------------------------------------------------------------------------
(* list_windows *)

Row ==
  /\ pc = "row"
  /\ candidate \in Open
  /\ listed' = IF candidate \in Large THEN listed \cup {candidate} ELSE listed
  /\ pc' = "next"
  /\ UNCHANGED <<call, asked, desktop, left, candidate, via, outcome, unread, behind>>

\* Mutant: a window that raises ends the list.
RowRaisesOut ==
  /\ pc = "row"
  /\ unread' = unread \cup {candidate}
  /\ Finish("list")
  /\ UNCHANGED <<call, asked, desktop, left, candidate, via, listed, behind>>

RowRaises ==
  /\ pc = "row"
  /\ unread' = unread \cup {candidate}
  /\ pc' = "next"
  /\ UNCHANGED <<call, asked, desktop, left, candidate, via, listed, outcome, behind>>

-----------------------------------------------------------------------------
(* The desktop *)

\* A window opens or closes.
Move(w) ==
  /\ pc # "done"
  /\ place[w] # "closed"
  /\ place' = [place EXCEPT ![w] = IF @ = "open" THEN "closed" ELSE "open"]
  /\ steady' = steady \ {w}
  /\ UNCHANGED <<pc, call, asked, left, candidate, via, listed, outcome, unread, behind>>

Finder ==
  \/ \E selector \in {"title", "class"} : Exists(selector)
  \/ \E selector \in Selectors : TryNext(selector)
  \/ ExistsRaises
  \/ GetChildren \/ GetChildrenFails \/ Yield \/ YieldRaises \/ Exhausted
  \/ Match \/ NoMatch \/ Describe \/ DescribeRaises
  \/ Row \/ RowRaises

Next == Finder \/ \E w \in Windows : Move(w)

Spec == Init /\ [][Next]_vars

-----------------------------------------------------------------------------
(* Properties *)

\* Windows that stood through the whole call.
Standing == steady \ Panes

\* A window that stood through the call and matches a selector is passed over, for
\* a weaker selector's window or for nothing, only by the search by process: it
\* could not be read itself, or the enumeration broke before it came to it.
MissExplained ==
  outcome \in {"window", "nothing"} =>
    LET found == IF outcome = "window" THEN via ELSE "none" IN
    \A selector \in asked \cap Stronger[found] :
      Standing \cap Matches[selector] \subseteq
        IF selector = "process" THEN unread \cup behind ELSE {}

\* The window found by process is of that process, although the process id may
\* have been reused before its name was looked up.
FoundOfProcess == outcome = "window" /\ via = "process" => candidate \in OfProcess

\* A large window that stood through the call is missing from the list only when
\* it could not be read itself or the enumeration broke before it: in the loop's
\* body, windows that close, open or raise hide no other.
ListExplained ==
  outcome = "list" => Standing \cap Large \subseteq listed \cup unread \cup behind

\* What the docstring of list_windows says, for windows that can be read.
ListsAll == outcome = "list" => Standing \cap Large \subseteq listed \cup unread
=============================================================================

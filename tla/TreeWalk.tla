------------------------------ MODULE TreeWalk ------------------------------
(***************************************************************************)
(* element_to_dict of sidecar/perception/tree_walker.py, the recursion     *)
(* that reads a window's element tree under a depth limit, a limit on the  *)
(* number of elements and a deadline, and the summary and tier made of     *)
(* what it read.  Any call to UI Automation may raise: the element may be  *)
(* gone by the time it is read.                                            *)
(*                                                                         *)
(* The recursion's stack is the path from the root to the element where    *)
(* the walk is, so the state is that element, where in its call the code   *)
(* is, and per element the children already walked and the local           *)
(* `truncated'.  Abstractions: what is read of an element is the set of    *)
(* its patterns; the deadline is passed at some moment.                    *)
(***************************************************************************)
EXTENDS Classifier, Sequences, FiniteSets

CONSTANTS Elements, Root,
          Children,   \* an element's children, in the order they are listed
          Parent, Depth,
          Patterns,
          Supports,   \* the patterns an element supports
          Depths, Limits   \* what max_depth and max_elements may be

ASSUME TreeAssumption ==
  /\ IsFiniteSet(Elements) /\ Root \in Elements
  /\ Children \in [Elements -> Seq(Elements)]
  /\ Parent \in [Elements -> Elements]
  /\ Depth \in [Elements -> Nat]
  /\ Depth[Root] = 0
  /\ \A e \in Elements : \A i \in DOMAIN Children[e] :
       LET c == Children[e][i] IN
       /\ c # Root /\ Parent[c] = e /\ Depth[c] = Depth[e] + 1
       /\ \A j \in DOMAIN Children[e] : Children[e][j] = c => j = i
  /\ \A e \in Elements \ {Root} : \E i \in DOMAIN Children[Parent[e]] :
       Children[Parent[e]][i] = e

ASSUME PatternsAssumption ==
  IsFiniteSet(Patterns) /\ Supports \in [Elements -> SUBSET Patterns]

ASSUME LimitsAssumption == Depths \subseteq Nat /\ Limits \subseteq Nat \ {0}

VARIABLES max_depth, max_elements,
          pc,        \* where in the call for the element `at' the code is
          at,
          counter,   \* _counter
          walked,    \* per element, how many of its children were called for
          kept,      \* elements in the tree
          truncated, \* elements whose call has set its local truncated
          patterns,  \* the pattern names in the tree
          late,      \* the deadline has passed
          unread, unlisted,  \* history: elements, and lists of children, that raised
          outcome    \* "tree", or the exception that left the root's call

limits == <<max_depth, max_elements>>
failures == <<unread, unlisted>>
vars == <<limits, pc, at, counter, walked, kept, truncated, patterns, late, failures,
          outcome>>

TypeOK ==
  /\ max_depth \in Depths /\ max_elements \in Limits
  /\ pc \in {"enter", "read", "children", "loop", "done"}
  /\ at \in Elements
  /\ counter \in 0..max_elements
  /\ walked \in [Elements -> Nat]
  /\ {kept, truncated, unread, unlisted} \subseteq SUBSET Elements
  /\ patterns \in SUBSET Patterns
  /\ late \in BOOLEAN
  /\ outcome \in {"none", "tree", "limit", "timeout", "error"}
  /\ outcome = "none" <=> pc # "done"

Init ==
  /\ max_depth \in Depths /\ max_elements \in Limits
  /\ pc = "enter" /\ at = Root
  /\ counter = 0
  /\ walked = [e \in Elements |-> 0]
  /\ kept = {} /\ truncated = {} /\ patterns = {}
  /\ late = FALSE
  /\ unread = {} /\ unlisted = {}
  /\ outcome = "none"

\* RuntimeError and TimeoutError pass through every caller.
Raise(exception) == pc' = "done" /\ outcome' = exception

-----------------------------------------------------------------------------
(* One call of element_to_dict *)

DeadlinePassed ==
  /\ pc = "enter" /\ late
  /\ Raise("timeout")
  /\ UNCHANGED <<limits, at, counter, walked, kept, truncated, patterns, late, failures>>

\* Mutant: the limit is hit by its last element already.
LimitHitEarly ==
  /\ pc = "enter" /\ ~late
  /\ counter + 1 >= max_elements
  /\ Raise("limit")
  /\ UNCHANGED <<limits, at, counter, walked, kept, truncated, patterns, late, failures>>

LimitHit ==
  /\ pc = "enter" /\ ~late
  /\ counter >= max_elements
  /\ Raise("limit")
  /\ UNCHANGED <<limits, at, counter, walked, kept, truncated, patterns, late, failures>>

\* Mutant: the limit does not stop the walk.
EnterUnbounded ==
  /\ pc = "enter" /\ ~late
  /\ counter' = counter + 1
  /\ pc' = "read"
  /\ UNCHANGED <<limits, at, walked, kept, truncated, patterns, late, failures, outcome>>

Enter ==
  /\ pc = "enter" /\ ~late
  /\ counter < max_elements
  /\ counter' = counter + 1
  /\ pc' = "read"
  /\ UNCHANGED <<limits, at, walked, kept, truncated, patterns, late, failures, outcome>>

\* Mutant: a pattern the element does not support is not left out.
get_any_pattern(e) == SUBSET Patterns

\* get_control_patterns leaves out a pattern whose probe raises.
get_control_patterns(e) == SUBSET Supports[e]

Read ==
  /\ pc = "read"
  /\ \E found \in get_control_patterns(at) : patterns' = patterns \cup found
  /\ kept' = kept \cup {at}
  /\ pc' = "children"
  /\ UNCHANGED <<limits, at, counter, walked, truncated, late, failures, outcome>>

\* The exception leaves this call and ends the caller's loop over its children,
\* or leaves the root's call.
Abandon ==
  IF at = Root THEN Raise("error") /\ UNCHANGED <<at, walked>>
  ELSE /\ at' = Parent[at]
       /\ walked' = [walked EXCEPT ![Parent[at]] = Len(Children[Parent[at]])]
       /\ pc' = "loop"
       /\ UNCHANGED outcome

\* Mutant: the call for an element that cannot be read is made again, uncounted.
ReadAgain ==
  /\ pc = "read"
  /\ pc' = "enter"
  /\ counter' = counter - 1
  /\ UNCHANGED <<limits, at, walked, kept, truncated, patterns, late, failures, outcome>>

\* A UI Automation call raises while the element is read.
ReadFails ==
  /\ pc = "read"
  /\ unread' = unread \cup {at}
  /\ Abandon
  /\ UNCHANGED <<limits, counter, kept, truncated, patterns, late, unlisted>>

\* The same, with an exception of a class that every caller lets through.
ReadRaises ==
  /\ pc = "read"
  /\ unread' = unread \cup {at}
  /\ Raise("error")
  /\ UNCHANGED <<limits, at, counter, walked, kept, truncated, patterns, late, unlisted>>

ListChildren ==
  /\ pc = "children"
  /\ Depth[at] < max_depth
  /\ pc' = "loop"
  /\ UNCHANGED <<limits, at, counter, walked, kept, truncated, patterns, late, failures,
                 outcome>>

\* GetChildren raises: the element stays in the tree, without children.
ListFails ==
  /\ pc = "children"
  /\ Depth[at] < max_depth
  /\ pc' = "loop"
  /\ unlisted' = unlisted \cup {at}
  /\ walked' = [walked EXCEPT ![at] = Len(Children[at])]
  /\ UNCHANGED <<limits, at, counter, kept, truncated, patterns, late, unread, outcome>>

\* The same, with an exception that every caller lets through.
ListRaises ==
  /\ pc = "children"
  /\ Depth[at] < max_depth
  /\ unlisted' = unlisted \cup {at}
  /\ Raise("error")
  /\ UNCHANGED <<limits, at, counter, walked, kept, truncated, patterns, late, unread>>

\* Mutant: the level at the depth limit is left out.
DepthReachedEarly ==
  /\ pc = "children"
  /\ Depth[at] + 1 >= max_depth
  /\ pc' = "loop"
  /\ walked' = [walked EXCEPT ![at] = Len(Children[at])]
  /\ truncated' = truncated \cup {at}
  /\ UNCHANGED <<limits, at, counter, kept, patterns, late, failures, outcome>>

\* At the depth limit GetChildren is not called.
DepthReached ==
  /\ pc = "children"
  /\ Depth[at] >= max_depth
  /\ pc' = "loop"
  /\ walked' = [walked EXCEPT ![at] = Len(Children[at])]
  /\ truncated' = truncated \cup {at}
  /\ UNCHANGED <<limits, at, counter, kept, patterns, late, failures, outcome>>

CallChild ==
  /\ pc = "loop"
  /\ walked[at] < Len(Children[at])
  /\ walked' = [walked EXCEPT ![at] = @ + 1]
  /\ at' = Children[at][walked[at] + 1]
  /\ pc' = "enter"
  /\ UNCHANGED <<limits, counter, kept, truncated, patterns, late, failures, outcome>>

\* Mutant: a child's truncated is not passed on.
ReturnAlone ==
  /\ pc = "loop"
  /\ walked[at] = Len(Children[at])
  /\ IF at = Root
     THEN pc' = "done" /\ outcome' = "tree" /\ UNCHANGED at
     ELSE at' = Parent[at] /\ UNCHANGED <<pc, outcome>>
  /\ UNCHANGED <<limits, counter, walked, kept, truncated, patterns, late, failures>>

\* Mutant: the caller is truncated when the last child it called for was.
ReturnLast ==
  /\ pc = "loop"
  /\ walked[at] = Len(Children[at])
  /\ IF at = Root
     THEN pc' = "done" /\ outcome' = "tree" /\ UNCHANGED <<at, truncated>>
     ELSE /\ at' = Parent[at]
          /\ truncated' = IF at \in truncated THEN truncated \cup {Parent[at]}
                                              ELSE truncated \ {Parent[at]}
          /\ UNCHANGED <<pc, outcome>>
  /\ UNCHANGED <<limits, counter, walked, kept, patterns, late, failures>>

\* The caller, if there is one, is truncated when this call was.
Return ==
  /\ pc = "loop"
  /\ walked[at] = Len(Children[at])
  /\ IF at = Root
     THEN pc' = "done" /\ outcome' = "tree" /\ UNCHANGED <<at, truncated>>
     ELSE /\ at' = Parent[at]
          /\ truncated' = IF at \in truncated THEN truncated \cup {Parent[at]}
                                              ELSE truncated
          /\ UNCHANGED <<pc, outcome>>
  /\ UNCHANGED <<limits, counter, walked, kept, patterns, late, failures>>

TimePasses ==
  /\ ~late /\ pc # "done"
  /\ late' = TRUE
  /\ UNCHANGED <<limits, pc, at, counter, walked, kept, truncated, patterns, failures,
                 outcome>>

-----------------------------------------------------------------------------

Walker ==
  \/ DeadlinePassed \/ LimitHit \/ Enter
  \/ Read \/ ReadFails \/ ReadRaises
  \/ ListChildren \/ ListFails \/ ListRaises \/ DepthReached
  \/ CallChild \/ Return

Next == Walker \/ TimePasses

\* One thread walks the tree, and every call it makes answers; a provider that
\* does not is what the killable process around the walk is for.
Spec == Init /\ [][Next]_vars /\ WF_vars(Walker)

-----------------------------------------------------------------------------
(* What summarize_tree and classify_tier make of the tree *)

summarize_tree ==
  [total_elements |-> Cardinality(kept),
   max_depth |-> CHOOSE d \in {Depth[e] : e \in kept} : \A e \in kept : Depth[e] <= d,
   control_patterns |-> patterns]

Tier == classify_tier(summarize_tree.total_elements,
                      Cardinality(summarize_tree.control_patterns))

WholeTier ==
  classify_tier(Cardinality(Elements), Cardinality(UNION {Supports[e] : e \in Elements}))

-----------------------------------------------------------------------------
(* Properties *)

Answered == outcome = "tree"

\* Where a tree lacks a child of one of its elements, one of three things
\* happened: the element is at the depth limit, its children could not be listed,
\* or that child or an earlier sibling could not be read.
GapsExplained ==
  Answered => \A e \in kept : \A i \in DOMAIN Children[e] :
    Children[e][i] \notin kept =>
      \/ Depth[e] = max_depth
      \/ e \in unlisted
      \/ \E j \in 1..i : Children[e][j] \in unread

\* A tree that is not marked truncated, of a walk in which no call raised, is the
\* whole tree of the window.
CompleteUnlessMarked ==
  Answered /\ Root \notin truncated /\ unread = {} /\ unlisted = {} => kept = Elements

\* Whatever else the walk lost, children that the depth limit cut off are said to be:
\* an element of the tree at the limit that has children makes the answer truncated,
\* through every caller and past every sibling that comes after it.
CutOffMarked ==
  Answered /\ (\E e \in kept : Depth[e] = max_depth /\ Children[e] # <<>>)
    => Root \in truncated

\* The walk gives up over its element limit only on a window that has more
\* elements than that within the depth limit.
LimitMeansMore ==
  outcome = "limit" => Cardinality({e \in Elements : Depth[e] <= max_depth}) > max_elements

\* Limits, lost elements and patterns that could not be probed make a window look
\* poorer, never richer: its tier is at most the tier of its whole tree.
TierNeverOverstated == Answered => Rank(Tier) <= Rank(WholeTier)

\* Every walk ends: the recursion, its limits and its exceptions leave no loop.
WalkEnds == <>(pc = "done")
=============================================================================

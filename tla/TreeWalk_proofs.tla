-------------------------- MODULE TreeWalk_proofs --------------------------
(***************************************************************************)
(* Proofs about TreeWalk for every tree, every choice of limits, and       *)
(* whatever calls raise.                                                   *)
(***************************************************************************)
EXTENDS TreeWalk, FiniteSetTheorems, TLAPS

\* The walk has called for e, or has given up on a sibling before e.
Called(e) ==
  \/ e = Root
  \/ \E i \in DOMAIN Children[Parent[e]] :
       i <= walked[Parent[e]] /\ Children[Parent[e]][i] = e

Within == {e \in Elements : Depth[e] <= max_depth}

\* What counter counts, and perhaps more.
Entered ==
  {e \in Within : Called(e) /\ (pc = "enter" => e # at)}

Starting == pc \in {"enter", "read"}

\* Where the walk is, and what it has not reached yet.
PlaceInv ==
  /\ \A e \in Elements : walked[e] <= Len(Children[e])
  /\ \A e \in Elements : walked[e] > 0 => Called(e)
  /\ Called(at)
  /\ Depth[at] <= max_depth
  /\ pc = "loop" /\ walked[at] < Len(Children[at]) => Depth[at] < max_depth
  /\ kept \subseteq {e \in Elements : Called(e)}
  /\ Starting => at \notin kept /\ walked[at] = 0

CountInv ==
  /\ counter <= Cardinality(Entered)
  /\ LimitMeansMore

\* S is the set of elements with an unfinished call, one per level.
Stack(S) ==
  /\ S \subseteq Elements /\ at \in S /\ Root \in S
  /\ \A e \in S : e # Root => Parent[e] \in S
  /\ \A e, f \in S : Depth[e] = Depth[f] => e = f
  /\ \A e \in S : Depth[e] <= Depth[at]
  /\ \A e \in S : e \in kept \/ (e = at /\ Starting)
  /\ \A e \in kept : e \in S \/ walked[e] = Len(Children[e])
  /\ (\E e \in kept : Depth[e] = max_depth /\ ~(e = at /\ pc = "children")) =>
       \E e \in S : e \in truncated

\* What an unfinished walk has made of the tree, and what is left when it is done.
StackInv ==
  /\ pc # "done" => \E S \in SUBSET Elements : Stack(S)
  /\ truncated \subseteq kept
  /\ truncated # {} => \E e \in kept : Depth[e] = max_depth
  /\ Answered =>
       /\ Root \in kept
       /\ \A e \in kept : walked[e] = Len(Children[e])
       /\ (\E e \in kept : Depth[e] = max_depth) => Root \in truncated

Explained(e, i) ==
  \/ Children[e][i] \in kept
  \/ Depth[e] = max_depth
  \/ e \in unlisted
  \/ \E j \in 1..i : Children[e][j] \in unread

GapInv ==
  pc # "done" \/ Answered =>
    \A e \in kept : \A i \in DOMAIN Children[e] :
      i <= walked[e] => Explained(e, i) \/ (Starting /\ Children[e][i] = at)

PatternsInv == patterns \subseteq UNION {Supports[e] : e \in Elements}

\* No element is read below the depth limit.
DepthInv == kept \subseteq Within

IInv ==
  TypeOK /\ PlaceInv /\ CountInv /\ StackInv /\ GapInv /\ PatternsInv /\ DepthInv

-----------------------------------------------------------------------------
(* The tree *)

LEMMA ChildFacts ==
  ASSUME NEW e \in Elements, NEW i \in Nat, 1 <= i, i <= Len(Children[e])
  PROVE  /\ i \in DOMAIN Children[e]
         /\ Children[e][i] \in Elements /\ Children[e][i] # Root
         /\ Parent[Children[e][i]] = e
         /\ Depth[Children[e][i]] = Depth[e] + 1
         /\ \A j \in DOMAIN Children[e] : Children[e][j] = Children[e][i] => j = i
<1>1. Children[e] \in Seq(Elements) BY TreeAssumption
<1>2. i \in DOMAIN Children[e] BY <1>1
<1>3. Children[e][i] \in Elements BY <1>1, <1>2
<1> QED BY <1>2, <1>3, TreeAssumption

LEMMA LenNat == \A e \in Elements : Len(Children[e]) \in Nat
BY TreeAssumption

LEMMA ParentFacts ==
  ASSUME NEW e \in Elements, e # Root
  PROVE  /\ Parent[e] \in Elements /\ Depth[Parent[e]] \in Nat /\ Depth[e] \in Nat
         /\ Depth[e] = Depth[Parent[e]] + 1
         /\ \E i \in DOMAIN Children[Parent[e]] : Children[Parent[e]][i] = e
BY TreeAssumption

LEMMA IndexNat ==
  ASSUME NEW e \in Elements, NEW i \in DOMAIN Children[e]
  PROVE  i \in Nat /\ 1 <= i /\ i <= Len(Children[e])
BY TreeAssumption

-----------------------------------------------------------------------------
(* Type correctness *)

LEMMA InitType == Init => TypeOK
<1> SUFFICES ASSUME Init PROVE TypeOK OBVIOUS
<1>1. at \in Elements BY TreeAssumption DEF Init
<1>2. walked \in [Elements -> Nat] BY DEF Init
<1>3. counter \in 0..max_elements BY LimitsAssumption DEF Init
<1> QED BY <1>1, <1>2, <1>3 DEF Init, TypeOK

LEMMA NextType == TypeOK /\ [Next]_vars => TypeOK'
<1> SUFFICES ASSUME TypeOK, [Next]_vars PROVE TypeOK' OBVIOUS
<1> USE DEF TypeOK, limits, failures
<1>1. CASE DeadlinePassed BY <1>1 DEF DeadlinePassed, Raise
<1>2. CASE LimitHit BY <1>2 DEF LimitHit, Raise
<1>3. CASE Enter BY <1>3, LimitsAssumption DEF Enter
<1>4. CASE Read
  <2>1. PICK found \in get_control_patterns(at) : patterns' = patterns \cup found
    BY <1>4 DEF Read
  <2>2. patterns' \in SUBSET Patterns
    BY <2>1, PatternsAssumption DEF get_control_patterns
  <2> QED BY <1>4, <2>2 DEF Read
<1>5. CASE ReadFails
  <2>1. CASE at = Root BY <1>5, <2>1 DEF ReadFails, Abandon, Raise
  <2>2. CASE at # Root
    BY <1>5, <2>2, ParentFacts, LenNat DEF ReadFails, Abandon, Raise
  <2> QED BY <2>1, <2>2
<1>6. CASE ReadRaises \/ ListRaises BY <1>6 DEF ReadRaises, ListRaises, Raise
<1>7. CASE ListChildren BY <1>7 DEF ListChildren
<1>8. CASE ListFails BY <1>8, LenNat DEF ListFails
<1>9. CASE DepthReached BY <1>9, LenNat DEF DepthReached
<1>10. CASE CallChild
  <2>1. Children[at][walked[at] + 1] \in Elements
    BY <1>10, ChildFacts, LenNat DEF CallChild
  <2> QED BY <1>10, <2>1 DEF CallChild
<1>11. CASE Return
  <2>1. CASE at = Root BY <1>11, <2>1 DEF Return
  <2>2. CASE at # Root BY <1>11, <2>2, ParentFacts DEF Return
  <2> QED BY <2>1, <2>2
<1>12. CASE TimePasses BY <1>12 DEF TimePasses
<1>13. CASE UNCHANGED vars BY <1>13 DEF vars
<1> QED
  BY <1>1, <1>2, <1>3, <1>4, <1>5, <1>6, <1>7, <1>8, <1>9, <1>10, <1>11, <1>12, <1>13
     DEF Next, Walker

-----------------------------------------------------------------------------
(* Where the walk is *)

\* Loops go forward, and the limits and the tree read so far stay.
LEMMA Forward ==
  ASSUME TypeOK, PlaceInv, [Next]_vars
  PROVE  /\ max_depth' = max_depth /\ max_elements' = max_elements
         /\ \A e \in Elements : walked[e] \in Nat /\ walked'[e] \in Nat
         /\ \A e \in Elements : walked[e] <= walked'[e]
         /\ kept \subseteq kept' /\ truncated \subseteq truncated'
<1>1. TypeOK' BY NextType
<1>2. \A e \in Elements : walked[e] \in Nat /\ walked'[e] \in Nat
  BY <1>1 DEF TypeOK
<1>3. CASE walked' = walked
  <2>1. \A e \in Elements : walked[e] <= walked'[e] BY <1>2, <1>3
  <2>2. /\ max_depth' = max_depth /\ max_elements' = max_elements
        /\ kept \subseteq kept' /\ truncated \subseteq truncated'
    BY DEF Next, Walker, DeadlinePassed, LimitHit, Enter, Read, ReadFails, ReadRaises,
           ListRaises, ListChildren, ListFails, DepthReached, CallChild, Return,
           TimePasses, vars, limits
  <2> QED BY <1>2, <2>1, <2>2
<1>4. CASE ReadFails
  <2>1. CASE at = Root BY <1>2, <1>3, <1>4, <2>1 DEF ReadFails, Abandon
  <2>2. CASE at # Root
    <3>1. walked' = [walked EXCEPT ![Parent[at]] = Len(Children[Parent[at]])]
      BY <1>4, <2>2 DEF ReadFails, Abandon
    <3>2. \A e \in Elements : walked'[e] = walked[e] \/ walked'[e] = Len(Children[e])
      BY <3>1 DEF TypeOK
    <3>3. \A e \in Elements : walked[e] <= walked'[e]
      BY <1>2, <3>2, LenNat DEF PlaceInv
    <3> QED BY <1>2, <1>4, <3>3 DEF ReadFails, limits
  <2> QED BY <2>1, <2>2
<1>5. CASE ListFails \/ DepthReached
  <2>1. walked' = [walked EXCEPT ![at] = Len(Children[at])]
    BY <1>5 DEF ListFails, DepthReached
  <2>2. \A e \in Elements : walked'[e] = walked[e] \/ walked'[e] = Len(Children[e])
    BY <2>1 DEF TypeOK
  <2>3. \A e \in Elements : walked[e] <= walked'[e]
    BY <1>2, <2>2, LenNat DEF PlaceInv
  <2> QED BY <1>2, <1>5, <2>3 DEF ListFails, DepthReached, limits
<1>6. CASE CallChild
  <2>1. walked' = [walked EXCEPT ![at] = @ + 1] BY <1>6 DEF CallChild
  <2>2. \A e \in Elements : walked'[e] = walked[e] \/ walked'[e] = walked[e] + 1
    BY <2>1 DEF TypeOK
  <2>3. \A e \in Elements : walked[e] <= walked'[e] BY <1>2, <2>2
  <2> QED BY <1>2, <1>6, <2>3 DEF CallChild, limits
<1> QED
  BY <1>3, <1>4, <1>5, <1>6
     DEF Next, Walker, DeadlinePassed, LimitHit, Enter, Read, ReadRaises, ListRaises,
         ListChildren, Return, TimePasses, vars

LEMMA CalledStays ==
  ASSUME TypeOK, PlaceInv, [Next]_vars, NEW e \in Elements, Called(e)
  PROVE  Called(e)'
<1>1. CASE e = Root BY <1>1 DEF Called
<1>2. CASE e # Root
  <2>1. PICK i \in DOMAIN Children[Parent[e]] :
          i <= walked[Parent[e]] /\ Children[Parent[e]][i] = e
    BY <1>2 DEF Called
  <2>2. Parent[e] \in Elements BY <1>2, ParentFacts
  <2>3. walked[Parent[e]] <= walked'[Parent[e]] /\ walked'[Parent[e]] \in Nat
        /\ walked[Parent[e]] \in Nat
    BY <2>2, Forward
  <2>4. i <= walked'[Parent[e]] BY <2>1, <2>2, <2>3, IndexNat
  <2> QED BY <2>1, <2>4 DEF Called
<1> QED BY <1>1, <1>2

\* The caller of an element that was called for was called for.
LEMMA CallerCalled ==
  ASSUME TypeOK, PlaceInv, NEW e \in Elements, Called(e), e # Root
  PROVE  walked[Parent[e]] > 0 /\ Called(Parent[e])
<1>1. PICK i \in DOMAIN Children[Parent[e]] : i <= walked[Parent[e]]
  BY DEF Called
<1>2. Parent[e] \in Elements BY ParentFacts
<1>3. walked[Parent[e]] > 0
  BY <1>1, <1>2, IndexNat DEF TypeOK
<1> QED BY <1>2, <1>3 DEF PlaceInv

\* The next child of a loop was never called for.
LEMMA NextChild ==
  ASSUME TypeOK, PlaceInv, CallChild
  PROVE  /\ at' \in Elements /\ at' # Root /\ Parent[at'] = at
         /\ Depth[at'] = Depth[at] + 1
         /\ at' = Children[at][walked[at] + 1]
         /\ walked[at] + 1 \in DOMAIN Children[at] /\ walked'[at] = walked[at] + 1
         /\ ~Called(at') /\ walked[at'] = 0 /\ at' \notin kept
<1> DEFINE i == walked[at] + 1
           c == Children[at][i]
<1>1. at \in Elements /\ walked[at] \in Nat /\ i \in Nat /\ 1 <= i
      /\ i <= Len(Children[at])
  BY LenNat DEF TypeOK, CallChild
<1>2. /\ i \in DOMAIN Children[at] /\ c \in Elements /\ c # Root /\ Parent[c] = at
      /\ Depth[c] = Depth[at] + 1
      /\ \A j \in DOMAIN Children[at] : Children[at][j] = c => j = i
  BY <1>1, ChildFacts
<1>3. at' = c BY DEF CallChild
<1>4. walked'[at] = i BY <1>1 DEF CallChild, TypeOK
<1>5. ~Called(c) BY <1>1, <1>2 DEF Called
<1>6. walked[c] = 0 BY <1>2, <1>5 DEF PlaceInv, TypeOK
<1>7. c \notin kept BY <1>5 DEF PlaceInv
<1> QED BY <1>2, <1>3, <1>4, <1>5, <1>6, <1>7

LEMMA InitPlace == Init => PlaceInv
<1> SUFFICES ASSUME Init PROVE PlaceInv OBVIOUS
<1>1. at = Root /\ kept = {} /\ pc = "enter" /\ max_depth \in Nat
  BY LimitsAssumption DEF Init
<1>2. \A e \in Elements : walked[e] = 0 BY DEF Init
<1>3. Depth[at] <= max_depth BY <1>1, TreeAssumption
<1>4. Called(at) BY <1>1 DEF Called
<1>5. \A e \in Elements : walked[e] <= Len(Children[e]) BY <1>2, LenNat
<1> QED BY <1>1, <1>2, <1>3, <1>4, <1>5, TreeAssumption DEF PlaceInv

LEMMA NextPlace ==
  ASSUME TypeOK, PlaceInv, [Next]_vars
  PROVE  PlaceInv'
<1>t. TypeOK' BY NextType
<1>c. \A e \in Elements : Called(e) => Called(e)' BY CalledStays
<1>f. /\ max_depth' = max_depth
      /\ \A e \in Elements : walked[e] \in Nat /\ walked'[e] \in Nat
      /\ \A e \in Elements : walked[e] <= walked'[e]
  BY Forward
<1>n. /\ max_depth \in Nat /\ at \in Elements /\ Depth[at] \in Nat
      /\ Depth \in [Elements -> Nat]
  BY TreeAssumption, LimitsAssumption DEF TypeOK
<1>1. CASE UNCHANGED <<walked, at, kept>> /\ (pc' = pc \/ (pc = "enter" /\ pc' = "read")
                                             \/ pc' = "done")
  BY <1>1, <1>f, <1>c, <1>n, <1>t DEF PlaceInv, Starting, TypeOK
<1>2. CASE ListChildren
  BY <1>2, <1>f, <1>c, <1>n, <1>t DEF PlaceInv, Starting, TypeOK, ListChildren
<1>3. CASE Read
  BY <1>3, <1>f, <1>c, <1>n, <1>t DEF PlaceInv, Starting, TypeOK, Read
<1>4. CASE ReadFails /\ at # Root
  <2> DEFINE p == Parent[at]
  <2>1. /\ at' = p /\ pc' = "loop" /\ kept' = kept
        /\ walked' = [walked EXCEPT ![p] = Len(Children[p])]
    BY <1>4 DEF ReadFails, Abandon
  <2>2. /\ p \in Elements /\ Depth[p] < Depth[at] /\ Depth[p] \in Nat
        /\ Called(p)
    BY <1>4, <1>n, ParentFacts, CallerCalled DEF PlaceInv
  <2>3. \A e \in Elements :
          walked'[e] = walked[e] \/ (e = p /\ walked'[e] = Len(Children[e]))
    BY <2>1, <2>2 DEF TypeOK
  <2>4. \A e \in Elements : walked'[e] <= Len(Children[e])
    BY <2>3, <1>f, LenNat DEF PlaceInv
  <2>5. \A e \in Elements : walked'[e] > 0 => Called(e)'
    BY <2>2, <2>3, <1>c DEF PlaceInv
  <2>6. Depth[p] <= max_depth /\ Depth[p] < max_depth
    BY <2>2, <1>n DEF PlaceInv
  <2>7. Called(at)' BY <2>1, <2>2, <1>c DEF Called
  <2>8. kept' \subseteq {e \in Elements : Called(e)'}
    BY <2>1, <1>c DEF PlaceInv
  <2> QED BY <2>1, <2>4, <2>5, <2>6, <2>7, <2>8, <1>f DEF PlaceInv, Starting
<1>5. CASE ListFails \/ DepthReached
  <2>1. /\ at' = at /\ pc' = "loop" /\ kept' = kept
        /\ walked' = [walked EXCEPT ![at] = Len(Children[at])]
    BY <1>5 DEF ListFails, DepthReached
  <2>2. \A e \in Elements :
          walked'[e] = walked[e] \/ (e = at /\ walked'[e] = Len(Children[e]))
    BY <2>1 DEF TypeOK
  <2>3. walked'[at] = Len(Children[at]) BY <2>1 DEF TypeOK
  <2>4. \A e \in Elements : walked'[e] <= Len(Children[e])
    BY <2>2, <1>f, LenNat DEF PlaceInv
  <2>5. \A e \in Elements : walked'[e] > 0 => Called(e)'
    BY <2>2, <1>n, <1>c DEF PlaceInv
  <2>6. ~(walked'[at'] < Len(Children[at'])) BY <2>1, <2>3, <1>n, LenNat
  <2>7. Called(at)' BY <2>1, <1>n, <1>c DEF Called, PlaceInv
  <2>8. kept' \subseteq {e \in Elements : Called(e)'}
    BY <2>1, <1>c DEF PlaceInv
  <2> QED BY <2>1, <2>4, <2>5, <2>6, <2>7, <2>8, <1>f DEF PlaceInv, Starting
<1>6. CASE CallChild
  <2>1. /\ at' \in Elements /\ at' # Root /\ Parent[at'] = at /\ Depth[at'] = Depth[at] + 1
        /\ at' = Children[at][walked[at] + 1]
        /\ walked[at] + 1 \in DOMAIN Children[at] /\ walked'[at] = walked[at] + 1
        /\ walked[at'] = 0 /\ at' \notin kept
    BY <1>6, NextChild
  <2>2. /\ pc' = "enter" /\ kept' = kept /\ walked[at] < Len(Children[at]) /\ pc = "loop"
        /\ walked' = [walked EXCEPT ![at] = @ + 1]
    BY <1>6 DEF CallChild
  <2>3. \A e \in Elements : e # at => walked'[e] = walked[e]
    BY <2>2 DEF TypeOK
  <2>4. at' # at BY <2>1, <1>n
  <2>5. walked'[at'] = 0 BY <2>1, <2>3, <2>4
  <2>6. Depth[at'] <= max_depth BY <2>1, <2>2, <1>n DEF PlaceInv
  <2>7. \A e \in Elements : walked'[e] <= Len(Children[e])
    BY <2>1, <2>2, <2>3, <1>f, <1>n, LenNat DEF PlaceInv
  <2>8. \A e \in Elements : walked'[e] > 0 => Called(e)'
    BY <2>3, <1>n, <1>c DEF PlaceInv
  <2>9. walked[at] + 1 <= walked'[at]
    BY <2>1, <1>n, <1>f
  <2>10. Called(at)'
    BY <2>1, <2>9 DEF Called
  <2>11. kept' \subseteq {e \in Elements : Called(e)'}
    BY <2>2, <1>c DEF PlaceInv
  <2> QED
    BY <2>1, <2>2, <2>5, <2>6, <2>7, <2>8, <2>10, <2>11, <1>f DEF PlaceInv, Starting
<1>7. CASE Return /\ at # Root
  <2> DEFINE p == Parent[at]
  <2>1. /\ at' = p /\ pc' = "loop" /\ kept' = kept /\ walked' = walked
    BY <1>7 DEF Return
  <2>2. /\ p \in Elements /\ Depth[p] < Depth[at] /\ Depth[p] \in Nat
        /\ Called(p)
    BY <1>7, <1>n, ParentFacts, CallerCalled DEF PlaceInv
  <2>3. Depth[p] <= max_depth /\ Depth[p] < max_depth
    BY <2>2, <1>n DEF PlaceInv
  <2>4. Called(at)' BY <2>1, <2>2, <1>c DEF Called
  <2> QED BY <2>1, <2>2, <2>3, <2>4, <1>f, <1>c DEF PlaceInv, Starting
<1> QED
  BY <1>1, <1>2, <1>3, <1>4, <1>5, <1>6, <1>7
     DEF Next, Walker, DeadlinePassed, LimitHit, Enter, ReadFails, Abandon, ReadRaises,
         ListRaises, Return, TimePasses, vars, Raise

-----------------------------------------------------------------------------
(* The element limit *)

LEMMA WithinFinite == IsFiniteSet(Within) /\ Cardinality(Within) \in Nat
BY TreeAssumption, FS_Subset, FS_CardinalityType DEF Within

LEMMA EnteredFinite == IsFiniteSet(Entered) /\ Cardinality(Entered) \in Nat
<1>1. Entered \in SUBSET Within BY DEF Entered
<1> QED BY <1>1, WithinFinite, FS_Subset, FS_CardinalityType

LEMMA EnteredStays ==
  ASSUME TypeOK, PlaceInv, [Next]_vars
  PROVE  Within' = Within /\ Entered \subseteq Entered'
<1>1. Within' = Within BY Forward DEF Within
<1>2. \A e \in Entered : Called(e)' BY CalledStays DEF Entered, Within
<1>3. CASE CallChild
  <2>1. \A e \in Entered : e # at' BY <1>3, NextChild DEF Entered
  <2> QED BY <1>1, <1>2, <2>1 DEF Entered
<1>4. CASE ~CallChild
  <2>1. pc' = "enter" => pc = "enter" /\ at' = at
    BY <1>4 DEF Next, Walker, DeadlinePassed, LimitHit, Enter, Read, ReadFails, Abandon,
           ReadRaises, ListRaises, ListChildren, ListFails, DepthReached, Return,
           TimePasses, vars, Raise
  <2> QED BY <1>1, <1>2, <2>1 DEF Entered
<1> QED BY <1>3, <1>4

LEMMA InitCount == Init => CountInv
<1> SUFFICES ASSUME Init PROVE CountInv OBVIOUS
<1>1. counter <= Cardinality(Entered) BY EnteredFinite DEF Init
<1> QED BY <1>1 DEF CountInv, LimitMeansMore, Init

LEMMA NextCount ==
  ASSUME TypeOK, PlaceInv, CountInv, [Next]_vars
  PROVE  CountInv'
<1>1. Within' = Within /\ Entered \subseteq Entered' BY EnteredStays
<1>2. IsFiniteSet(Entered') /\ Cardinality(Entered') \in Nat
  <2>1. Entered' \in SUBSET Within BY <1>1 DEF Entered
  <2> QED BY <2>1, WithinFinite, FS_Subset, FS_CardinalityType
<1>3. Cardinality(Entered) <= Cardinality(Entered') /\ Cardinality(Entered) \in Nat
  BY <1>1, <1>2, EnteredFinite, FS_Subset
<1>4. counter \in Nat /\ at \in Within
  BY LimitsAssumption DEF TypeOK, PlaceInv, Within
<1>5. counter' <= Cardinality(Entered')
  <2>1. CASE Enter
    <3>1. at \notin Entered /\ pc = "enter" /\ pc' = "read" /\ at' = at
      BY <2>1 DEF Enter, Entered
    <3>2. Called(at)'
      <4>1. at \in Elements /\ Called(at) BY DEF TypeOK, PlaceInv
      <4>2. PICK a \in Elements : a = at BY <4>1
      <4>3. Called(a)' BY <4>1, <4>2, CalledStays
      <4> QED BY <3>1, <4>2, <4>3 DEF Called
    <3>3. Entered \cup {at} \in SUBSET Entered'
      BY <1>1, <1>4, <3>1, <3>2 DEF Entered
    <3>4. Cardinality(Entered \cup {at}) = Cardinality(Entered) + 1
      BY <3>1, EnteredFinite, FS_AddElement
    <3>5. Cardinality(Entered \cup {at}) <= Cardinality(Entered')
      BY <1>2, <3>3, FS_Subset
    <3> QED BY <1>2, <1>3, <1>4, <2>1, <3>4, <3>5 DEF Enter, CountInv
  <2>2. CASE ~Enter
    <3>1. counter' = counter
      BY <2>2 DEF Next, Walker, DeadlinePassed, LimitHit, Read, ReadFails, ReadRaises,
             ListRaises, ListChildren, ListFails, DepthReached, CallChild, Return,
             TimePasses, vars
    <3> QED BY <1>2, <1>3, <1>4, <3>1 DEF CountInv
  <2> QED BY <2>1, <2>2
<1>6. LimitMeansMore'
  <2>1. CASE LimitHit
    <3>1. at \notin Entered /\ counter >= max_elements BY <2>1 DEF LimitHit, Entered
    <3>2. Entered \cup {at} \in SUBSET Within BY <1>4 DEF Entered
    <3>3. Cardinality(Entered \cup {at}) = Cardinality(Entered) + 1
      BY <3>1, EnteredFinite, FS_AddElement
    <3>4. Cardinality(Entered \cup {at}) <= Cardinality(Within)
      BY <3>2, WithinFinite, FS_Subset
    <3>5. max_elements \in Nat BY LimitsAssumption DEF TypeOK
    <3>6. Cardinality(Within) > max_elements
      BY <1>3, <1>4, <3>1, <3>3, <3>4, <3>5, WithinFinite DEF CountInv
    <3>7. max_elements' = max_elements BY Forward
    <3>8. Cardinality(Within') > max_elements' BY <1>1, <3>6, <3>7
    <3> QED BY <3>8 DEF LimitMeansMore, Within
  <2>2. CASE UNCHANGED vars
    BY <2>2 DEF vars, limits, CountInv, LimitMeansMore
  <2>3. CASE ~LimitHit /\ ~UNCHANGED vars
    <3>1. outcome' # "limit"
      BY <2>3 DEF Next, Walker, DeadlinePassed, Enter, Read, ReadFails, Abandon,
           ReadRaises, ListRaises, ListChildren, ListFails, DepthReached, CallChild,
           Return, TimePasses, Raise, TypeOK
    <3> QED BY <3>1 DEF LimitMeansMore
  <2> QED BY <2>1, <2>2, <2>3
<1> QED BY <1>5, <1>6 DEF CountInv

-----------------------------------------------------------------------------
(* The tree of a walk that came to its end *)

LEMMA InitStack == Init => StackInv
<1> SUFFICES ASSUME Init PROVE StackInv OBVIOUS
<1>1. Stack({Root})
  BY TreeAssumption DEF Init, Stack, Starting
<1>2. {Root} \in SUBSET Elements BY TreeAssumption
<1> QED BY <1>1, <1>2 DEF Init, StackInv, Answered

\* The innermost call is the only one at its level.
LEMMA Popped ==
  ASSUME TypeOK, NEW S \in SUBSET Elements, Stack(S), at # Root
  PROVE  LET p == Parent[at] IN
         /\ p \in S \ {at} /\ Root \in S \ {at} /\ p \in kept
         /\ \A e \in S \ {at} : e # Root => Parent[e] \in S \ {at}
         /\ \A e \in S \ {at} : Depth[e] <= Depth[p]
         /\ \A e \in S \ {at} : e \in kept
<1> DEFINE p == Parent[at]
<1>1. /\ at \in Elements /\ p \in S /\ p \in Elements /\ Depth[at] = Depth[p] + 1
      /\ Depth[p] \in Nat
  BY ParentFacts DEF TypeOK, Stack
<1>2. \A e \in S : Depth[e] \in Nat BY TreeAssumption
<1>3. p # at BY <1>1
<1>4. \A e \in S \ {at} : e # Root => Parent[e] \in S \ {at}
  <2> SUFFICES ASSUME NEW e \in S \ {at}, e # Root PROVE Parent[e] \in S \ {at}
    OBVIOUS
  <2>1. Parent[e] \in S /\ Depth[e] = Depth[Parent[e]] + 1 /\ Depth[e] <= Depth[at]
    BY ParentFacts DEF Stack
  <2>2. Parent[e] # at BY <2>1, <1>1, <1>2
  <2> QED BY <2>1, <2>2
<1>5. \A e \in S \ {at} : Depth[e] <= Depth[p]
  <2> SUFFICES ASSUME NEW e \in S \ {at} PROVE Depth[e] <= Depth[p] OBVIOUS
  <2>1. Depth[e] <= Depth[at] /\ Depth[e] # Depth[at] BY DEF Stack
  <2> QED BY <2>1, <1>1, <1>2
<1>6. \A e \in S \ {at} : e \in kept BY DEF Stack
<1> QED BY <1>1, <1>3, <1>4, <1>5, <1>6 DEF Stack

LEMMA NextStack ==
  ASSUME TypeOK, PlaceInv, StackInv, [Next]_vars
  PROVE  StackInv'
<1>f. /\ max_depth' = max_depth /\ kept \subseteq kept' /\ truncated \subseteq truncated'
      /\ max_depth \in Nat /\ at \in Elements /\ Depth \in [Elements -> Nat]
  BY Forward, TreeAssumption, LimitsAssumption DEF TypeOK
<1>1. CASE UNCHANGED vars
  BY <1>1, <1>f DEF StackInv, Stack, Starting, Answered, vars
<1>2. CASE ~UNCHANGED vars
  <2>1. pc # "done" /\ ~Answered
    BY <1>2 DEF Next, Walker, DeadlinePassed, LimitHit, Enter, Read, ReadFails, ReadRaises,
           ListRaises, ListChildren, ListFails, DepthReached, CallChild, Return,
           TimePasses, TypeOK, Answered
  <2>2. PICK S \in SUBSET Elements : Stack(S) BY <2>1 DEF StackInv
  <2>3. at \in S /\ (at \in kept \/ Starting) BY <2>2 DEF Stack
  <2>4. CASE pc' = "done" /\ outcome' # "tree" /\ UNCHANGED <<kept, truncated>>
    BY <2>4, <1>f DEF StackInv, Answered
  <2>5. CASE Enter \/ ListChildren \/ TimePasses
    <3>1. Stack(S)'
      BY <1>f, <2>2, <2>5 DEF Stack, Starting, Enter, ListChildren, TimePasses
    <3>2. ~Answered' /\ UNCHANGED <<kept, truncated>>
      BY <2>1, <2>5 DEF Answered, Enter, ListChildren, TimePasses
    <3> QED BY <3>1, <3>2, <1>f DEF StackInv
  <2>6. CASE Read
    <3>1. Stack(S)' BY <1>f, <2>2, <2>3, <2>6 DEF Stack, Starting, Read
    <3>2. ~Answered' /\ truncated' = truncated BY <2>1, <2>6 DEF Answered, Read
    <3> QED BY <3>1, <3>2, <1>f DEF StackInv
  <2>7. CASE ReadFails /\ at # Root
    <3> DEFINE p == Parent[at]
    <3>t. PICK T \in SUBSET Elements : T = S \ {at} BY <2>2 DEF Stack
    <3>1. /\ at' = p /\ pc' = "loop" /\ kept' = kept /\ truncated' = truncated
          /\ walked' = [walked EXCEPT ![p] = Len(Children[p])] /\ pc = "read"
          /\ outcome' = outcome
      BY <2>7 DEF ReadFails, Abandon
    <3>2. /\ p \in T /\ Root \in T /\ p \in kept
          /\ \A e \in T : e # Root => Parent[e] \in T
          /\ \A e \in T : Depth[e] <= Depth[p]
          /\ \A e \in T : e \in kept
      BY <2>2, <2>7, <3>t, Popped
    <3>3. at \notin kept /\ at \notin truncated
      BY <3>1 DEF PlaceInv, Starting, StackInv
    <3>4. \A e \in kept : e \in T \/ walked'[e] = Len(Children[e])
      BY <2>2, <3>1, <3>3, <3>t, <1>f DEF Stack, TypeOK
    <3>5. (\E e \in kept : Depth[e] = max_depth) => \E e \in T : e \in truncated
      BY <2>2, <3>1, <3>3, <3>t DEF Stack
    <3>u. \A e, f \in T : Depth[e] = Depth[f] => e = f BY <2>2, <3>t DEF Stack
    <3>6. Stack(T)'
      BY <1>f, <3>1, <3>2, <3>u, <3>4, <3>5 DEF Stack
    <3> QED BY <3>1, <3>6, <1>f, <2>1 DEF StackInv, Answered
  <2>8. CASE ListFails
    <3>1. /\ walked' = [walked EXCEPT ![at] = Len(Children[at])] /\ pc' = "loop"
          /\ Depth[at] < max_depth /\ at' = at /\ kept' = kept /\ truncated' = truncated
          /\ outcome' = outcome
      BY <2>8 DEF ListFails
    <3>2. \A e \in kept : e \in S \/ walked'[e] = Len(Children[e])
      BY <2>2, <3>1, <1>f DEF Stack, TypeOK
    <3>3. (\E e \in kept : Depth[e] = max_depth) => \E e \in S : e \in truncated
      BY <2>2, <3>1, <1>f DEF Stack
    <3>4. Stack(S)'
      BY <1>f, <2>2, <2>8, <3>1, <3>2, <3>3 DEF Stack, Starting, ListFails
    <3> QED BY <3>1, <3>4, <1>f, <2>1 DEF StackInv, Answered
  <2>9. CASE DepthReached
    <3>1. /\ walked' = [walked EXCEPT ![at] = Len(Children[at])] /\ pc' = "loop"
          /\ Depth[at] >= max_depth /\ at' = at /\ kept' = kept
          /\ truncated' = truncated \cup {at} /\ outcome' = outcome /\ pc = "children"
      BY <2>9 DEF DepthReached
    <3>2. \A e \in kept : e \in S \/ walked'[e] = Len(Children[e])
      BY <2>2, <3>1, <1>f DEF Stack, TypeOK
    <3>3. at \in kept /\ Depth[at] = max_depth
      BY <2>3, <3>1, <1>f DEF Starting, PlaceInv
    <3>4. Stack(S)'
      BY <1>f, <2>2, <2>3, <3>1, <3>2, <3>3 DEF Stack, Starting
    <3> QED BY <3>1, <3>3, <3>4, <1>f, <2>1 DEF StackInv, Answered
  <2>10. CASE CallChild
    <3>t. PICK T \in SUBSET Elements : T = S \cup {at'}
      BY <2>10, NextChild
    <3>1. /\ at' \in Elements /\ at' # Root /\ Parent[at'] = at
          /\ Depth[at'] = Depth[at] + 1 /\ at' \notin kept
      BY <2>10, NextChild
    <3>2. /\ walked' = [walked EXCEPT ![at] = @ + 1] /\ pc = "loop" /\ pc' = "enter"
          /\ kept' = kept /\ truncated' = truncated /\ outcome' = outcome
      BY <2>10 DEF CallChild
    <3>3. \A e \in kept : e \in T \/ walked'[e] = Len(Children[e])
      BY <2>2, <2>3, <3>2, <3>t, <1>f DEF Stack, TypeOK
    <3>4. \A e \in S : Depth[e] \in Nat /\ Depth[e] <= Depth[at] /\ Depth[e] < Depth[at']
      BY <2>2, <3>1, <1>f DEF Stack
    <3>5. \A e, f \in T : Depth[e] = Depth[f] => e = f
      BY <2>2, <3>1, <3>4, <3>t, <1>f DEF Stack
    <3>6. \A e \in T : Depth[e] <= Depth[at'] BY <3>1, <3>4, <3>t, <1>f
    <3>7. \A e \in T : e \in kept \/ (e = at' /\ Starting')
      BY <2>2, <3>2, <3>t DEF Stack, Starting
    <3>8. \A e \in T : e # Root => Parent[e] \in T
      BY <2>2, <2>3, <3>1, <3>t DEF Stack
    <3>9. (\E e \in kept : Depth[e] = max_depth) => \E e \in T : e \in truncated
      BY <2>2, <3>2, <3>t DEF Stack
    <3>10. Root \in T /\ at' \in T BY <2>2, <3>t DEF Stack
    <3>11. Stack(T)'
      BY <1>f, <3>2, <3>3, <3>5, <3>6, <3>7, <3>8, <3>9, <3>10 DEF Stack
    <3> QED BY <3>2, <3>11, <1>f, <2>1 DEF StackInv, Answered
  <2>11. CASE Return /\ at # Root
    <3> DEFINE p == Parent[at]
    <3>t. PICK T \in SUBSET Elements : T = S \ {at} BY <2>2 DEF Stack
    <3>1. /\ at' = p /\ pc' = "loop" /\ pc = "loop" /\ kept' = kept /\ walked' = walked
          /\ truncated' = IF at \in truncated THEN truncated \cup {p} ELSE truncated
          /\ walked[at] = Len(Children[at]) /\ outcome' = outcome
      BY <2>11 DEF Return
    <3>2. /\ p \in T /\ Root \in T /\ p \in kept
          /\ \A e \in T : e # Root => Parent[e] \in T
          /\ \A e \in T : Depth[e] <= Depth[p]
          /\ \A e \in T : e \in kept
      BY <2>2, <2>11, <3>t, Popped
    <3>3. \A e \in kept : e \in T \/ walked'[e] = Len(Children[e])
      BY <2>2, <3>1, <3>t DEF Stack
    <3>4. (\E e \in kept : Depth[e] = max_depth) => \E e \in T : e \in truncated'
      <4> SUFFICES ASSUME \E e \in kept : Depth[e] = max_depth
                   PROVE  \E e \in T : e \in truncated'
        OBVIOUS
      <4>1. PICK e \in S : e \in truncated BY <2>2, <3>1, <3>t DEF Stack
      <4> QED BY <4>1, <3>1, <3>2, <3>t
    <3>u. \A e, f \in T : Depth[e] = Depth[f] => e = f BY <2>2, <3>t DEF Stack
    <3>5. Stack(T)'
      BY <1>f, <3>1, <3>2, <3>u, <3>3, <3>4 DEF Stack
    <3>6. truncated' \subseteq kept' /\ (truncated' # {} => truncated # {})
      BY <3>1, <3>2 DEF StackInv
    <3> QED BY <3>1, <3>5, <3>6, <1>f, <2>1 DEF StackInv, Answered
  <2>12. CASE Return /\ at = Root
    <3>1. /\ pc' = "done" /\ pc = "loop" /\ kept' = kept /\ truncated' = truncated
          /\ walked' = walked /\ walked[Root] = Len(Children[Root])
      BY <2>12 DEF Return
    <3>2. S = {Root}
      <4>1. \A e \in S : Depth[e] \in Nat /\ Depth[e] <= 0
        BY <2>2, <2>12, <1>f, TreeAssumption DEF Stack
      <4>2. \A e \in S : Depth[e] = Depth[Root] BY <4>1, TreeAssumption
      <4> QED BY <4>2, <2>2 DEF Stack
    <3>3. Root \in kept BY <2>3, <2>12, <3>1 DEF Starting
    <3>4. \A e \in kept : walked[e] = Len(Children[e])
      BY <2>2, <3>1, <3>2 DEF Stack
    <3>5. (\E e \in kept : Depth[e] = max_depth) => Root \in truncated
      BY <2>2, <3>1, <3>2 DEF Stack
    <3> QED BY <3>1, <3>3, <3>4, <3>5, <1>f DEF StackInv
  <2> QED
    BY <1>2, <2>1, <2>4, <2>5, <2>6, <2>7, <2>8, <2>9, <2>10, <2>11, <2>12
       DEF Next, Walker, DeadlinePassed, LimitHit, ReadFails, Abandon, ReadRaises,
           ListRaises, Raise
<1> QED BY <1>1, <1>2

\* What explains a gap explains it later.
LEMMA ExplainedStays ==
  ASSUME [Next]_vars, TypeOK, PlaceInv, NEW e, NEW i, Explained(e, i)
  PROVE  Explained(e, i)'
<1>1. kept \subseteq kept' /\ max_depth' = max_depth BY Forward
<1>2. unread \subseteq unread' /\ unlisted \subseteq unlisted'
  BY DEF Next, Walker, DeadlinePassed, LimitHit, Enter, Read, ReadFails, ReadRaises,
         ListRaises, ListChildren, ListFails, DepthReached, CallChild, Return, TimePasses,
         vars, failures
<1> QED BY <1>1, <1>2 DEF Explained

LEMMA NextGap ==
  ASSUME TypeOK, PlaceInv, StackInv, GapInv, [Next]_vars
  PROVE  GapInv'
<1>1. CASE UNCHANGED vars
  BY <1>1 DEF GapInv, Explained, Starting, Answered, vars, limits, failures
<1>2. CASE pc' = "done" /\ outcome' # "tree"
  BY <1>2 DEF GapInv, Answered
<1>3. CASE ~UNCHANGED vars /\ ~(pc' = "done" /\ outcome' # "tree")
  <2>1. pc # "done"
    BY <1>3 DEF Next, Walker, DeadlinePassed, LimitHit, Enter, Read, ReadFails, ReadRaises,
           ListRaises, ListChildren, ListFails, DepthReached, CallChild, Return, TimePasses
  <2>2. \A e \in kept : \A i \in DOMAIN Children[e] :
          i <= walked[e] => Explained(e, i) \/ (Starting /\ Children[e][i] = at)
    BY <2>1 DEF GapInv
  <2> SUFFICES ASSUME NEW e \in kept', NEW i \in DOMAIN Children[e], i <= walked'[e]
               PROVE  Explained(e, i)' \/ (Starting' /\ Children[e][i] = at')
    BY DEF GapInv
  <2>3. \A x, y : Explained(x, y) => Explained(x, y)' BY ExplainedStays
  <2>4. /\ e \in Elements /\ i \in Nat /\ 1 <= i /\ i <= Len(Children[e])
        /\ at \in Elements /\ walked \in [Elements -> Nat]
    BY NextType, IndexNat DEF TypeOK
  <2>5. CASE Enter \/ ListChildren \/ TimePasses
    <3>1. UNCHANGED <<kept, walked, at>> /\ (Starting => Starting')
      BY <2>5 DEF Enter, ListChildren, TimePasses, Starting
    <3> QED BY <3>1, <2>2, <2>3
  <2>6. CASE Read
    <3>1. UNCHANGED <<walked, at>> /\ kept' = kept \cup {at} /\ pc = "read"
      BY <2>6 DEF Read
    <3>2. CASE e = at BY <3>1, <3>2, <2>4 DEF PlaceInv, Starting
    <3>3. CASE e # at
      <4>1. CASE Children[e][i] = at BY <4>1, <3>1 DEF Explained
      <4>2. CASE Children[e][i] # at BY <4>2, <3>1, <3>3, <2>2, <2>3
      <4> QED BY <4>1, <4>2
    <3> QED BY <3>2, <3>3
  <2>7. CASE ReadFails
    <3>0. at # Root BY <1>3, <2>7 DEF ReadFails, Abandon, Raise
    <3> DEFINE p == Parent[at]
    <3>1. /\ kept' = kept /\ unread' = unread \cup {at}
          /\ walked' = [walked EXCEPT ![p] = Len(Children[p])]
      BY <2>7, <3>0 DEF ReadFails, Abandon
    <3>2. CASE Children[e][i] = at
      BY <3>1, <3>2, <2>4 DEF Explained
    <3>3. CASE Children[e][i] # at /\ i <= walked[e]
      BY <3>1, <3>3, <2>2, <2>3
    <3>4. CASE ~(i <= walked[e])
      <4>1. e = p BY <3>1, <3>4, <2>4
      <4>2. PICK k \in DOMAIN Children[p] : k <= walked[p] /\ Children[p][k] = at
        BY <3>0 DEF PlaceInv, Called
      <4>3. k \in 1..i BY <4>1, <4>2, <3>4, <2>4, IndexNat
      <4> QED BY <4>1, <4>2, <4>3, <3>1 DEF Explained
    <3> QED BY <3>2, <3>3, <3>4
  <2>8. CASE ListFails
    <3>1. /\ kept' = kept /\ unlisted' = unlisted \cup {at} /\ pc = "children"
          /\ walked' = [walked EXCEPT ![at] = Len(Children[at])]
      BY <2>8 DEF ListFails
    <3>2. CASE e = at BY <3>1, <3>2 DEF Explained
    <3>3. CASE e # at BY <3>1, <3>3, <2>2, <2>3, <2>4 DEF Starting
    <3> QED BY <3>2, <3>3
  <2>9. CASE DepthReached
    <3>1. /\ kept' = kept /\ Depth[at] >= max_depth /\ pc = "children"
          /\ walked' = [walked EXCEPT ![at] = Len(Children[at])] /\ max_depth' = max_depth
      BY <2>9 DEF DepthReached, limits
    <3>2. CASE e = at
      <4>1. Depth[at] = max_depth
        BY <3>1, <2>4, TreeAssumption, LimitsAssumption DEF PlaceInv, TypeOK
      <4> QED BY <4>1, <3>1, <3>2 DEF Explained
    <3>3. CASE e # at BY <3>1, <3>3, <2>2, <2>3, <2>4 DEF Starting
    <3> QED BY <3>2, <3>3
  <2>10. CASE CallChild
    <3>1. /\ kept' = kept /\ pc = "loop" /\ pc' = "enter"
          /\ walked' = [walked EXCEPT ![at] = @ + 1]
          /\ at' = Children[at][walked[at] + 1]
      BY <2>10 DEF CallChild
    <3>2. CASE i <= walked[e] BY <3>1, <3>2, <2>2, <2>3 DEF Starting
    <3>3. CASE ~(i <= walked[e])
      <4>1. e = at /\ i = walked[at] + 1 BY <3>1, <3>3, <2>4
      <4> QED BY <4>1, <3>1 DEF Starting
    <3> QED BY <3>2, <3>3
  <2>11. CASE Return
    <3>1. UNCHANGED <<kept, walked>> /\ pc = "loop" BY <2>11 DEF Return
    <3> QED BY <3>1, <2>2, <2>3 DEF Starting
  <2> QED
    BY <1>3, <2>5, <2>6, <2>7, <2>8, <2>9, <2>10, <2>11
       DEF Next, Walker, DeadlinePassed, LimitHit, ReadRaises, ListRaises, Raise
<1> QED BY <1>1, <1>2, <1>3

LEMMA NextPatterns ==
  ASSUME TypeOK, PatternsInv, [Next]_vars
  PROVE  PatternsInv'
<1>1. CASE Read
  <2>1. PICK found \in get_control_patterns(at) : patterns' = patterns \cup found
    BY <1>1 DEF Read
  <2> QED BY <2>1 DEF get_control_patterns, PatternsInv, TypeOK
<1>2. CASE ~Read
  <2>1. patterns' = patterns
    BY <1>2 DEF Next, Walker, DeadlinePassed, LimitHit, Enter, ReadFails, ReadRaises,
           ListRaises, ListChildren, ListFails, DepthReached, CallChild, Return,
           TimePasses, vars
  <2> QED BY <2>1 DEF PatternsInv
<1> QED BY <1>1, <1>2

LEMMA NextDepth ==
  ASSUME TypeOK, PlaceInv, DepthInv, [Next]_vars
  PROVE  DepthInv'
<1>1. Within' = Within BY EnteredStays
<1>2. CASE Read
  <2>1. at \in Within /\ kept' = kept \cup {at}
    BY <1>2 DEF Read, PlaceInv, TypeOK, Within
  <2> QED BY <1>1, <2>1 DEF DepthInv
<1>3. CASE ~Read
  <2>1. kept' = kept
    BY <1>3 DEF Next, Walker, DeadlinePassed, LimitHit, Enter, ReadFails, ReadRaises,
           ListRaises, ListChildren, ListFails, DepthReached, CallChild, Return,
           TimePasses, vars
  <2> QED BY <1>1, <2>1 DEF DepthInv
<1> QED BY <1>2, <1>3

LEMMA Inductive == Spec => []IInv
<1>1. Init => IInv
  <2>1. Init => GapInv /\ PatternsInv /\ DepthInv
    BY DEF Init, GapInv, PatternsInv, DepthInv
  <2> QED BY <2>1, InitType, InitPlace, InitCount, InitStack DEF IInv
<1>2. IInv /\ [Next]_vars => IInv'
  BY NextType, NextPlace, NextCount, NextStack, NextGap, NextPatterns, NextDepth
     DEF IInv
<1> QED BY <1>1, <1>2, PTL DEF Spec

-----------------------------------------------------------------------------
(* The deepest, the shallowest, and the tiers *)

LEMMA LeastElement ==
  ASSUME NEW T \in SUBSET Nat, T # {}
  PROVE  \E m \in T : \A n \in T : m <= n
<1> DEFINE Less == {ss \in Nat \X Nat : ss[1] < ss[2]}
<1>1. IsWellFoundedOn(Less, Nat) BY NatLessThanWellFounded DEF OpToRel
<1>2. PICK m \in T : \A n \in T : ~(<<n, m>> \in Less) BY <1>1, WFMin
<1>3. \A n \in T : m <= n
  <2> SUFFICES ASSUME NEW n \in T PROVE m <= n OBVIOUS
  <2>1. m \in Nat /\ n \in Nat OBVIOUS
  <2>2. ~(n < m) BY <1>2, <2>1
  <2> QED BY <2>1, <2>2
<1> QED BY <1>3

\* The depth a summary gives is the largest of the tree.
LEMMA DeepestKept ==
  ASSUME TypeOK, DepthInv, Root \in kept
  PROVE  /\ \E e \in kept : Depth[e] = summarize_tree.max_depth
         /\ \A e \in kept : Depth[e] <= summarize_tree.max_depth
<1> DEFINE above(e) == max_depth - Depth[e]
           T == {above(e) : e \in kept}
           d == CHOOSE x \in {Depth[e] : e \in kept} : \A e \in kept : Depth[e] <= x
<1>1. /\ max_depth \in Nat
      /\ \A e \in kept : Depth[e] \in Nat /\ Depth[e] <= max_depth
  BY TreeAssumption, LimitsAssumption DEF TypeOK, DepthInv, Within
<1>2. T \in SUBSET Nat /\ T # {}
  <2>1. \A e \in kept : above(e) \in Nat BY <1>1
  <2>2. above(Root) \in T OBVIOUS
  <2> QED BY <2>1, <2>2
<1>3. PICK f \in kept : \A e \in kept : above(f) <= above(e)
  <2>1. PICK m \in T : \A n \in T : m <= n BY <1>2, LeastElement
  <2>2. PICK f \in kept : m = above(f) BY <2>1
  <2>3. \A e \in kept : above(e) \in T OBVIOUS
  <2> QED BY <2>1, <2>2, <2>3
<1>4. \A e \in kept : Depth[e] <= Depth[f] BY <1>1, <1>3
<1>5. d \in {Depth[e] : e \in kept} /\ \A e \in kept : Depth[e] <= d BY <1>4
<1>6. summarize_tree.max_depth = d BY DEF summarize_tree
<1> QED BY <1>5, <1>6

LEMMA RankOf ==
  /\ Rank("T3") = 1 /\ Rank("T2") = 2 /\ Rank("T1/T2") = 3 /\ Rank("T1") = 4
<1>1. DOMAIN Tiers = 1..4 BY DEF Tiers
<1>2. /\ Tiers[1] = "T3" /\ Tiers[2] = "T2" /\ Tiers[3] = "T1/T2" /\ Tiers[4] = "T1"
  BY DEF Tiers
<1>3. \A i \in DOMAIN Tiers : i = 1 \/ i = 2 \/ i = 3 \/ i = 4 BY <1>1
<1>4. Rank("T3") = 1 BY <1>1, <1>2, <1>3 DEF Rank
<1>5. Rank("T2") = 2 BY <1>1, <1>2, <1>3 DEF Rank
<1>6. Rank("T1/T2") = 3 BY <1>1, <1>2, <1>3 DEF Rank
<1>7. Rank("T1") = 4 BY <1>1, <1>2, <1>3 DEF Rank
<1> QED BY <1>4, <1>5, <1>6, <1>7

\* More elements and more patterns never make a poorer tier.
LEMMA ClassifyMonotone ==
  ASSUME NEW e \in Nat, NEW f \in Nat, NEW p \in Nat, NEW q \in Nat, e <= f, p <= q
  PROVE  Rank(classify_tier(e, p)) <= Rank(classify_tier(f, q))
BY RankOf, ThresholdsAssumption DEF classify_tier

-----------------------------------------------------------------------------

\* Every variable of a walk keeps its type.
THEOREM TypeCorrect == Spec => []TypeOK
BY Inductive, PTL DEF IInv

\* For any tree and any limits, the walk blames max_elements only for a window
\* that has more elements within the depth limit.
THEOREM LimitHonest == Spec => []LimitMeansMore
BY Inductive, PTL DEF IInv, CountInv

\* For any tree, a child that is missing from a returned tree is at the depth
\* limit, was not listed, or comes at or after a sibling that could not be read.
THEOREM NoGapUnexplained == Spec => []GapsExplained
<1>1. IInv => GapsExplained
  <2> SUFFICES ASSUME IInv, Answered, NEW e \in kept, NEW i \in DOMAIN Children[e]
               PROVE  Explained(e, i)
    BY DEF GapsExplained, Explained
  <2>1. e \in Elements /\ pc = "done" BY DEF IInv, TypeOK, Answered
  <2>2. i <= walked[e] BY <2>1, IndexNat DEF IInv, StackInv
  <2> QED BY <2>1, <2>2 DEF IInv, GapInv, Starting
<1> QED BY <1>1, Inductive, PTL

\* For any tree, an unmarked answer to a walk in which no call raised has every
\* element: the shallowest one missing would be a gap that nothing explains.
THEOREM UnmarkedIsComplete == Spec => []CompleteUnlessMarked
<1>1. IInv /\ GapsExplained => CompleteUnlessMarked
  <2> SUFFICES ASSUME IInv, GapsExplained, Answered, Root \notin truncated, unread = {},
                      unlisted = {}
               PROVE  Elements \ kept = {}
    BY DEF CompleteUnlessMarked, IInv, TypeOK
  <2> DEFINE Missing == Elements \ kept
             T == {Depth[e] : e \in Missing}
  <2> SUFFICES ASSUME Missing # {} PROVE FALSE OBVIOUS
  <2>1. T \in SUBSET Nat /\ T # {} BY TreeAssumption
  <2>2. PICK e \in Missing : \A f \in Missing : Depth[e] <= Depth[f]
    <3>1. PICK m \in T : \A n \in T : m <= n BY <2>1, LeastElement
    <3>2. PICK e \in Missing : m = Depth[e] BY <3>1
    <3>3. \A f \in Missing : Depth[f] \in T OBVIOUS
    <3> QED BY <3>1, <3>2, <3>3
  <2>3. e \in Elements /\ e # Root BY DEF IInv, StackInv
  <2>4. /\ Parent[e] \in Elements /\ Depth[Parent[e]] \in Nat
        /\ Depth[e] = Depth[Parent[e]] + 1
    BY <2>3, ParentFacts
  <2>5. Parent[e] \in kept BY <2>2, <2>4
  <2>6. PICK i \in DOMAIN Children[Parent[e]] : Children[Parent[e]][i] = e
    BY <2>3, ParentFacts
  <2>7. e \notin kept BY <2>2
  <2>8. Depth[Parent[e]] = max_depth BY <2>5, <2>6, <2>7 DEF GapsExplained
  <2> QED BY <2>5, <2>8 DEF IInv, StackInv
<1> QED BY <1>1, Inductive, NoGapUnexplained, PTL

\* For any tree, children that the depth limit cuts off are never cut off silently.
THEOREM CutOffIsMarked == Spec => []CutOffMarked
<1>1. IInv => CutOffMarked
  BY DEF IInv, StackInv, CutOffMarked
<1> QED BY <1>1, Inductive, PTL

\* The other direction does not hold: the schema and the docstring speak of children
\* that were cut off, and the code marks an element at the limit whether or not it has
\* any.  What the code's truncated is equivalent to is that the deepest element of the
\* answer is at the limit.
TruncatedExactly ==
  Answered => (Root \in truncated <=> summarize_tree.max_depth = max_depth)

\* For any tree, `truncated' says that the deepest element of the answer is at the
\* depth limit, and nothing else.
THEOREM TruncatedMeansDeepest == Spec => []TruncatedExactly
<1>1. IInv => TruncatedExactly
  <2> SUFFICES ASSUME IInv, Answered
               PROVE  Root \in truncated <=> summarize_tree.max_depth = max_depth
    BY DEF TruncatedExactly
  <2> DEFINE d == summarize_tree.max_depth
  <2>1. PICK f \in kept : Depth[f] = d BY DeepestKept DEF IInv, StackInv
  <2>2. \A e \in kept : Depth[e] <= d BY DeepestKept DEF IInv, StackInv
  <2>3. Depth[f] \in Nat /\ Depth[f] <= max_depth /\ max_depth \in Nat
    BY TreeAssumption, LimitsAssumption DEF IInv, DepthInv, Within, TypeOK
  <2>4. ASSUME Root \in truncated PROVE d = max_depth
    <3>1. PICK e \in kept : Depth[e] = max_depth BY <2>4 DEF IInv, StackInv
    <3> QED BY <2>1, <2>2, <2>3, <3>1
  <2>5. ASSUME d = max_depth PROVE Root \in truncated
    BY <2>1, <2>5 DEF IInv, StackInv
  <2> QED BY <2>4, <2>5
<1> QED BY <1>1, Inductive, PTL

\* For any tree and any thresholds, what a walk leaves out or loses never raises
\* the tier of the window.
THEOREM TierSound == Spec => []TierNeverOverstated
<1>1. IInv => TierNeverOverstated
  <2> SUFFICES ASSUME IInv PROVE Rank(Tier) <= Rank(WholeTier)
    BY DEF TierNeverOverstated
  <2> DEFINE All == UNION {Supports[e] : e \in Elements}
  <2>1. All \in SUBSET Patterns BY PatternsAssumption
  <2>2. IsFiniteSet(All) BY <2>1, PatternsAssumption, FS_Subset
  <2>3. kept \in SUBSET Elements /\ patterns \in SUBSET All
    BY DEF IInv, TypeOK, PatternsInv
  <2>4. /\ IsFiniteSet(kept) /\ Cardinality(kept) <= Cardinality(Elements)
        /\ IsFiniteSet(patterns) /\ Cardinality(patterns) <= Cardinality(All)
    BY <2>2, <2>3, TreeAssumption, FS_Subset
  <2>5. /\ Cardinality(kept) \in Nat /\ Cardinality(Elements) \in Nat
        /\ Cardinality(patterns) \in Nat /\ Cardinality(All) \in Nat
    BY <2>2, <2>4, TreeAssumption, FS_CardinalityType
  <2>6. Rank(classify_tier(Cardinality(kept), Cardinality(patterns)))
          <= Rank(classify_tier(Cardinality(Elements), Cardinality(All)))
    BY <2>4, <2>5, ClassifyMonotone
  <2>7. Tier = classify_tier(Cardinality(kept), Cardinality(patterns))
    BY DEF Tier, summarize_tree
  <2>8. WholeTier = classify_tier(Cardinality(Elements), Cardinality(All))
    BY DEF WholeTier
  <2> QED BY <2>6, <2>7, <2>8
<1> QED BY <1>1, Inductive, PTL

-----------------------------------------------------------------------------
(* The limits, and what a step of the walk uses up *)

\* Every element in the tree has been counted, and so has the one being read.
SizeInv ==
  /\ counter <= max_elements
  /\ Cardinality(kept) + (IF pc = "read" THEN 1 ELSE 0) <= counter

\* The tree that is answered, never mind what was lost, is within both limits.
WithinLimits ==
  Answered =>
    /\ Cardinality(kept) <= max_elements
    /\ \A e \in kept : Depth[e] <= max_depth

\* No element is put into the tree a second time.
ReadOnce == kept' # kept => at \notin kept /\ kept' = kept \cup {at}

LEMMA KeptFinite ==
  ASSUME TypeOK
  PROVE  IsFiniteSet(kept) /\ Cardinality(kept) \in Nat
<1>1. kept \in SUBSET Elements BY DEF TypeOK
<1>2. IsFiniteSet(kept) BY <1>1, TreeAssumption, FS_Subset
<1> QED BY <1>2, FS_CardinalityType

LEMMA SizeKept == Spec => []SizeInv
<1>1. Init => SizeInv
  BY FS_EmptySet, LimitsAssumption DEF Init, SizeInv
<1>2. IInv /\ SizeInv /\ [Next]_vars => SizeInv'
  <2> SUFFICES ASSUME IInv, SizeInv, [Next]_vars PROVE SizeInv' OBVIOUS
  <2>1. /\ Cardinality(kept) \in Nat /\ IsFiniteSet(kept) /\ counter \in Nat
        /\ max_elements \in Nat
    BY KeptFinite, LimitsAssumption DEF IInv, TypeOK
  <2>2. max_elements' = max_elements BY Forward DEF IInv
  <2>3. CASE Enter
    <3>1. /\ counter' = counter + 1 /\ counter < max_elements
          /\ pc = "enter" /\ pc' = "read" /\ kept' = kept
      BY <2>3 DEF Enter
    <3> QED BY <3>1, <2>1, <2>2 DEF SizeInv
  <2>4. CASE Read
    <3>1. at \notin kept /\ pc = "read" /\ pc' = "children" /\ kept' = kept \cup {at}
          /\ counter' = counter
      BY <2>4 DEF Read, IInv, PlaceInv, Starting
    <3>2. Cardinality(kept') = Cardinality(kept) + 1
      BY <2>1, <3>1, FS_AddElement
    <3> QED BY <3>1, <3>2, <2>1, <2>2 DEF SizeInv
  <2>5. CASE ~Enter /\ ~Read
    <3>1. UNCHANGED <<counter, kept>> /\ (pc' = "read" => pc = "read")
      BY <2>5 DEF Next, Walker, DeadlinePassed, LimitHit, ReadFails, ReadRaises,
             ListRaises, Abandon, Raise, ListChildren, ListFails, DepthReached, CallChild,
             Return, TimePasses, vars
    <3> QED BY <3>1, <2>1, <2>2 DEF SizeInv
  <2> QED BY <2>3, <2>4, <2>5
<1> QED BY <1>1, <1>2, Inductive, PTL DEF Spec

\* For any tree and whatever calls raise, the answered tree has no more elements
\* than max_elements and none below max_depth.
THEOREM LimitsHold == Spec => []WithinLimits
<1>1. IInv /\ SizeInv => WithinLimits
  <2> SUFFICES ASSUME IInv, SizeInv, Answered
               PROVE  /\ Cardinality(kept) <= max_elements
                      /\ \A e \in kept : Depth[e] <= max_depth
    BY DEF WithinLimits
  <2>1. /\ Cardinality(kept) \in Nat /\ counter \in Nat /\ max_elements \in Nat
    BY KeptFinite, LimitsAssumption DEF IInv, TypeOK
  <2>2. pc # "read" BY DEF IInv, TypeOK, Answered
  <2>3. Cardinality(kept) <= max_elements BY <2>1, <2>2 DEF SizeInv
  <2> QED BY <2>3 DEF IInv, DepthInv, Within
<1> QED BY <1>1, Inductive, SizeKept, PTL

\* For any tree, the walk reads no element twice: what it answers is a tree.
THEOREM EachReadOnce == Spec => [][ReadOnce]_vars
<1>1. IInv /\ [Next]_vars => [ReadOnce]_vars
  <2> SUFFICES ASSUME IInv, [Next]_vars, kept' # kept
               PROVE  at \notin kept /\ kept' = kept \cup {at}
    BY DEF ReadOnce
  <2>1. Read
    BY DEF Next, Walker, DeadlinePassed, LimitHit, Enter, ReadFails, ReadRaises, ListRaises,
           ListChildren, ListFails, DepthReached, CallChild, Return, TimePasses, vars
  <2> QED BY <2>1 DEF Read, IInv, PlaceInv, Starting
<1> QED BY <1>1, Inductive, PTL DEF Spec

\* Elements that are still to be called for, perhaps.
Uncalled == {e \in Elements : ~Called(e)}

StepsLeft == [enter |-> 4, read |-> 3, children |-> 2, loop |-> 1, done |-> 0]

\* A step of the walk leaves fewer elements to call for, or else goes up the tree,
\* or else goes on in the call for the same element: an order without an infinite
\* descent, as there are finitely many elements.
Advances ==
  \/ Uncalled' \subseteq Uncalled /\ Uncalled' # Uncalled
  \/ Uncalled' = Uncalled /\ Depth[at'] < Depth[at]
  \/ Uncalled' = Uncalled /\ at' = at /\ StepsLeft[pc'] < StepsLeft[pc]

WalkerAdvances == Walker => Advances

LEMMA UncalledShrinks ==
  ASSUME TypeOK, PlaceInv, [Next]_vars
  PROVE  Uncalled' \subseteq Uncalled
<1>1. \A e \in Elements : Called(e) => Called(e)' BY CalledStays
<1> QED BY <1>1 DEF Uncalled

LEMMA WalkerStep ==
  ASSUME IInv, Walker
  PROVE  Advances
<1>0. Next BY DEF Next
<1>1. TypeOK /\ PlaceInv /\ at \in Elements BY DEF IInv, TypeOK
<1>2. Uncalled' \subseteq Uncalled BY <1>0, <1>1, UncalledShrinks
<1>3. CASE Uncalled' # Uncalled BY <1>2, <1>3 DEF Advances
<1>4. CASE Uncalled' = Uncalled
  <2>1. CASE CallChild
    <3>1. at' \in Elements /\ ~Called(at') BY <1>1, <2>1, NextChild
    <3>2. PlaceInv' BY <1>0, <1>1, NextPlace
    <3>3. at' \in Uncalled BY <3>1 DEF Uncalled
    <3>4. at' \notin Uncalled' BY <3>2 DEF PlaceInv, Uncalled
    <3> QED BY <3>3, <3>4, <1>4
  <2>2. CASE at # Root /\ at' = Parent[at]
    <3>1. Depth[at'] < Depth[at] BY <1>1, <2>2, ParentFacts
    <3> QED BY <3>1, <1>4 DEF Advances
  <2>3. CASE ~CallChild /\ ~(at # Root /\ at' = Parent[at])
    <3>1. at' = at
      BY <2>3 DEF Walker, DeadlinePassed, LimitHit, Enter, Read, ReadFails, ReadRaises,
             ListRaises, Abandon, ListChildren, ListFails, DepthReached, Return
    <3>2. <<pc, pc'>> \in
            {<<"enter", "done">>, <<"enter", "read">>, <<"read", "children">>,
             <<"read", "done">>, <<"children", "loop">>, <<"children", "done">>,
             <<"loop", "done">>}
      BY <2>3 DEF Walker, DeadlinePassed, LimitHit, Enter, Read, ReadFails, ReadRaises,
             ListRaises, Abandon, Raise, ListChildren, ListFails, DepthReached, Return
    <3>3. StepsLeft[pc'] < StepsLeft[pc] BY <3>2 DEF StepsLeft
    <3> QED BY <3>1, <3>3, <1>4 DEF Advances
  <2> QED BY <2>1, <2>2, <2>3
<1> QED BY <1>3, <1>4

\* For any tree, no step of the walk can be repeated forever: with the fairness that
\* Spec states, which is TLC's part, every walk ends.
THEOREM WalkAdvances == Spec => [][WalkerAdvances]_vars
<1>1. IInv /\ [Next]_vars => [WalkerAdvances]_vars
  BY WalkerStep DEF WalkerAdvances
<1> QED BY <1>1, Inductive, PTL DEF Spec
=============================================================================

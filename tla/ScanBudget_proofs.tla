------------------------- MODULE ScanBudget_proofs -------------------------
(***************************************************************************)
(* Proofs about ScanBudget for any windows, requests and sizes: the budget *)
(* holds for what is returned, and suggested parameters can be followed.   *)
(***************************************************************************)
EXTENDS ScanBudget, TLAPS

\* The thresholds of TIER_THRESHOLDS, or higher ones.
HighThresholds == MinElementsT1 >= 50 /\ MinPatternsT1 >= 4 /\ MinElementsT1T2 >= 10

\* What is suggested is suggested for the arguments that were just refused.
HintIsForArgs ==
  /\ reply.hint # NoHint => reply.hint = suggested_parameters
  /\ pc = "told" /\ reply.hint # NoHint => Accepted

\* What a reply says about its size.
SizeChecked ==
  pc = "told" =>
    /\ reply.error = "none" => reply.bytes <= request.max_output_bytes
    /\ reply.error = "output_budget_exceeded" /\ reply.hint = NoHint =>
         reply.measured <= request.max_output_bytes

IInv ==
  /\ TypeOK
  /\ pc = "told" => HintIsForArgs
  /\ SizeChecked /\ SuggestionAccepted

-----------------------------------------------------------------------------

\* What the validators let through.
LEMMA AcceptedMeans ==
  Accepted <=>
    /\ request.mode \in {"tree", "summary"}
    /\ request.depth \in Nat /\ request.depth <= 10
    /\ request.max_elements \in Nat /\ 1 <= request.max_elements
    /\ request.max_elements <= 2000
    /\ request.max_output_bytes \in Nat /\ 16384 <= request.max_output_bytes
    /\ request.max_output_bytes <= 262144
BY DEF Accepted, Bounded

\* A suggestion is valid.
LEMMA SuggestionValid ==
  ASSUME Accepted
  PROVE  /\ suggested_parameters \in Hints
         /\ suggested_parameters.depth <= 10
         /\ 1 <= suggested_parameters.max_elements
         /\ suggested_parameters.max_elements <= 2000
<1> DEFINE s == suggested_parameters
           d == request.depth
           n == request.max_elements
<1>1. /\ s.mode = "summary"
      /\ s.depth = IF d = 0 THEN 0 ELSE d - 1
      /\ s.max_elements = IF n = 1 THEN 1 ELSE n \div 2
      /\ s = [mode |-> s.mode, depth |-> s.depth, max_elements |-> s.max_elements]
  BY DEF suggested_parameters
<1>2. d \in Nat /\ d <= 10 /\ n \in Nat /\ 1 <= n /\ n <= 2000
  BY AcceptedMeans
<1> HIDE DEF s, d, n
<1>3. s.depth \in Nat /\ s.depth <= 10 BY <1>1, <1>2
<1>4. s.max_elements \in Nat /\ 1 <= s.max_elements /\ s.max_elements <= 2000
  BY <1>1, <1>2
<1>5. s \in Hints
  BY <1>1, <1>3, <1>4 DEF Hints
<1> QED BY <1>3, <1>4, <1>5 DEF s

LEMMA ErrorReply ==
  ASSUME NEW code
  PROVE  /\ Error(code).error = code
         /\ Error(code).hint = NoHint
         /\ Error(code).bytes = 0 /\ Error(code).measured = 0
         /\ Error(code).elements = 0 /\ Error(code).patterns = 0
         /\ DOMAIN Error(code) = {"error", "bytes", "hint", "elements", "patterns",
                                  "measured"}
BY DEF Error, NoReply

\* One scan of an accepted request.
LEMMA ScanReply ==
  ASSUME Accepted, NEW w \in Windows, NEW p \in 0..w.patterns,
         NEW r, r = Checked(perceive_request(w, p))
  PROVE  /\ r.error \in {"none", "tree_worker_error", "output_budget_exceeded"}
         /\ {r.bytes, r.measured, r.elements, r.patterns} \subseteq Nat
         /\ r.hint = NoHint \/ r.hint = suggested_parameters
         /\ r.hint # NoHint => r.error = "output_budget_exceeded"
         /\ r.error = "none" => r.bytes <= request.max_output_bytes
         /\ r.error = "output_budget_exceeded" /\ r.hint = NoHint =>
              r.measured <= request.max_output_bytes
<1> DEFINE q == perceive_request(w, p)
           max == request.max_output_bytes
           n == ElementsIn(w)
           tree == w.element * n
           encoded == w.metadata + w.summary + IF request.mode = "tree" THEN tree ELSE 0
<1>1. /\ {w.width, w.element, w.metadata, w.summary, w.patterns, p, Overhead} \subseteq Nat
      /\ w.summary + Overhead <= 16384
  BY WindowsAssumption, OverheadAssumption
<1>2. /\ max \in Nat /\ 16384 <= max
      /\ request.depth \in Nat /\ request.max_elements \in Nat
  BY AcceptedMeans
<1>3. n \in Nat BY <1>1, <1>2 DEF ElementsIn
<1>4. tree \in Nat BY <1>1, <1>3
<1>5. encoded \in Nat BY <1>1, <1>4
<1>6. CASE n > request.max_elements
  <2>1. q = Error("tree_worker_error") BY <1>6 DEF perceive_request
  <2>2. q.bytes + Overhead <= max BY <2>1, <1>1, <1>2, ErrorReply
  <2>3. r = [q EXCEPT !.bytes = q.bytes + Overhead]
    BY <2>2, <2>1, <1>1, <1>2, ErrorReply DEF Checked
  <2> HIDE DEF q
  <2> QED BY <2>1, <2>3, <1>1, ErrorReply
<1>7. CASE ~(n > request.max_elements) /\ encoded > max
  <2>1. q = [Error("output_budget_exceeded") EXCEPT
               !.bytes = w.summary, !.measured = encoded, !.hint = suggested_parameters]
    BY <1>7 DEF perceive_request
  <2> HIDE DEF q, encoded
  <2>2. /\ q.bytes = w.summary /\ q.measured = encoded /\ q.hint = suggested_parameters
        /\ q.error = "output_budget_exceeded" /\ q.elements = 0 /\ q.patterns = 0
        /\ DOMAIN q = {"error", "bytes", "hint", "elements", "patterns", "measured"}
    BY <2>1, ErrorReply
  <2>3. r = [q EXCEPT !.bytes = q.bytes + Overhead]
    BY <2>2, <1>1, <1>2 DEF Checked, q
  <2>4. r.hint = suggested_parameters /\ r.error = "output_budget_exceeded"
    BY <2>2, <2>3
  <2>5. r.bytes = w.summary + Overhead /\ r.measured = encoded /\ r.elements = 0
        /\ r.patterns = 0
    BY <2>2, <2>3
  <2>6. CASE suggested_parameters = NoHint
    BY SuggestionValid, NoHintAssumption, <2>6
  <2>7. CASE suggested_parameters # NoHint
    BY <2>4, <2>5, <2>7, <1>1, <1>5
  <2> QED BY <2>6, <2>7
<1>8. CASE ~(n > request.max_elements) /\ ~(encoded > max)
  <2>1. q = [error |-> "none", bytes |-> encoded, hint |-> NoHint, elements |-> n,
             patterns |-> p, measured |-> encoded]
    BY <1>8 DEF perceive_request
  <2> HIDE DEF encoded, q, n
  <2>2. CASE q.bytes + Overhead > max
    <3>1. r = [Error("output_budget_exceeded") EXCEPT !.measured = q.measured]
      BY <2>2 DEF Checked, q
    <3> QED BY <3>1, <2>1, <1>2, <1>5, <1>8, ErrorReply
  <2>3. CASE ~(q.bytes + Overhead > max)
    <3>1. r = [q EXCEPT !.bytes = q.bytes + Overhead]
      BY <2>3 DEF Checked, q
    <3> QED BY <3>1, <2>1, <2>3, <1>1, <1>2, <1>3, <1>5
  <2> QED BY <2>2, <2>3
<1> QED BY <1>6, <1>7, <1>8

-----------------------------------------------------------------------------

LEMMA InitInv == Init => IInv
<1> SUFFICES ASSUME Init PROVE IInv OBVIOUS
<1>1. /\ pc = "call" /\ DOMAIN args = Fields /\ followed = FALSE /\ reply = NoReply
  BY RequestsAssumption DEF Init
<1>2. /\ NoReply.error = "none" /\ NoReply.hint = NoHint
      /\ NoReply.bytes = 0 /\ NoReply.measured = 0
      /\ NoReply.elements = 0 /\ NoReply.patterns = 0
  BY DEF NoReply
<1>3. /\ reply.error = "none" /\ reply.hint = NoHint
      /\ {reply.bytes, reply.measured, reply.elements, reply.patterns} \subseteq Nat
  BY <1>1, <1>2
<1>4. TypeOK BY <1>1, <1>3 DEF TypeOK
<1> QED BY <1>1, <1>4 DEF IInv, SizeChecked, SuggestionAccepted

LEMMA NextInv == IInv /\ [Next]_vars => IInv'
<1> SUFFICES ASSUME IInv, [Next]_vars PROVE IInv' OBVIOUS
<1>1. CASE Refuse
  <2>1. ~Accepted /\ args' = args /\ followed' = followed /\ pc' = "told"
    BY <1>1 DEF Refuse
  <2>2. request' = request BY <2>1 DEF request
  <2> QED
    BY <1>1, <2>1, <2>2, ErrorReply DEF IInv, TypeOK, HintIsForArgs, SizeChecked,
       SuggestionAccepted, Refuse
<1>2. CASE Scan
  <2>1. Accepted /\ args' = args /\ followed' = followed /\ pc' = "told"
    BY <1>2 DEF Scan
  <2>2. request' = request BY <2>1 DEF request
  <2>3. Accepted' /\ suggested_parameters' = suggested_parameters
    BY <2>1, <2>2 DEF Accepted, suggested_parameters
  <2>w. PICK w \in Windows :
          \E p \in 0..w.patterns : reply' = Checked(perceive_request(w, p))
    BY <1>2 DEF Scan
  <2>4. PICK p \in 0..w.patterns : reply' = Checked(perceive_request(w, p))
    BY <2>w
  <2>5. /\ reply'.error \in {"none", "tree_worker_error", "output_budget_exceeded"}
        /\ {reply'.bytes, reply'.measured, reply'.elements, reply'.patterns} \subseteq Nat
        /\ reply'.hint = NoHint \/ reply'.hint = suggested_parameters
        /\ reply'.hint # NoHint => reply'.error = "output_budget_exceeded"
        /\ reply'.error = "none" => reply'.bytes <= request.max_output_bytes
        /\ reply'.error = "output_budget_exceeded" /\ reply'.hint = NoHint =>
             reply'.measured <= request.max_output_bytes
    BY <2>1, <2>4, ScanReply
  <2>6. suggested_parameters \in Hints BY <2>1, SuggestionValid
  <2> QED
    BY <2>1, <2>2, <2>3, <2>5, <2>6 DEF IInv, TypeOK, HintIsForArgs, SizeChecked,
       SuggestionAccepted
<1>3. CASE ScanFails
  <2>1. Accepted /\ args' = args /\ followed' = followed /\ pc' = "told"
    BY <1>3 DEF ScanFails
  <2>2. request' = request BY <2>1 DEF request
  <2>3. Accepted' BY <2>1, <2>2 DEF Accepted
  <2> QED
    BY <1>3, <2>1, <2>2, <2>3, ErrorReply DEF IInv, TypeOK, HintIsForArgs, SizeChecked,
       SuggestionAccepted, ScanFails
<1>4. CASE Follow
  <2>1. reply.hint # NoHint BY <1>4 DEF Follow, NextArgs
  <2>2. Accepted /\ reply.hint \in Hints
    BY <1>4, <2>1 DEF Follow, IInv, HintIsForArgs, TypeOK
  <2>3. args' = [args EXCEPT !.mode = reply.hint.mode, !.depth = reply.hint.depth,
                             !.max_elements = reply.hint.max_elements]
    BY <1>4, <2>1 DEF Follow, NextArgs
  <2>4. DOMAIN args = Fields BY DEF IInv, TypeOK
  <2>5. /\ DOMAIN args' = Fields
        /\ args'.mode = reply.hint.mode /\ args'.depth = reply.hint.depth
        /\ args'.max_elements = reply.hint.max_elements
        /\ args'.max_output_bytes = args.max_output_bytes
    BY <2>3, <2>4 DEF Fields
  <2>6. /\ reply.hint.depth <= 10 /\ 1 <= reply.hint.max_elements
        /\ reply.hint.max_elements <= 2000
    BY <1>4, <2>1, SuggestionValid DEF Follow, IInv, HintIsForArgs
  <2>7. /\ request'.mode = Given(reply.hint.mode, "tree")
        /\ request'.depth = Given(reply.hint.depth, 3)
        /\ request'.max_elements = Given(reply.hint.max_elements, 500)
        /\ request'.max_output_bytes = request.max_output_bytes
    BY <2>5 DEF request
  <2>8. Accepted'
    <3>1. /\ request'.mode \in {"tree", "summary"}
          /\ request'.depth \in Nat /\ request'.depth <= 10
          /\ request'.max_elements \in Nat /\ 1 <= request'.max_elements
          /\ request'.max_elements <= 2000
      BY <2>2, <2>6, <2>7 DEF Given, Hints
    <3> QED BY <3>1, <2>2, <2>7, AcceptedMeans DEF Accepted, Bounded
  <2> QED
    BY <1>4, <2>5, <2>8 DEF IInv, TypeOK, HintIsForArgs, SizeChecked,
       SuggestionAccepted, Follow
<1>5. CASE Stop
  <2>1. UNCHANGED <<args, followed, reply>> /\ pc' = "done" BY <1>5 DEF Stop
  <2>2. request' = request BY <2>1 DEF request
  <2> QED
    BY <2>1, <2>2 DEF IInv, TypeOK, SizeChecked, SuggestionAccepted, Accepted
<1>6. CASE UNCHANGED vars
  <2>1. request' = request BY <1>6 DEF request, vars
  <2> QED
    BY <1>6, <2>1 DEF IInv, TypeOK, HintIsForArgs, SizeChecked, SuggestionAccepted,
       Accepted, suggested_parameters, vars
<1> QED BY <1>1, <1>2, <1>3, <1>4, <1>5, <1>6 DEF Next

LEMMA Inductive == Spec => []IInv
BY InitInv, NextInv, PTL DEF Spec

-----------------------------------------------------------------------------

\* Every variable of the agent and of the tool it calls keeps its type.
THEOREM TypeCorrect == Spec => []TypeOK
BY Inductive, PTL DEF IInv

\* For any window and any budget, a returned snapshot is within the budget that
\* was asked for, the fields the handler adds included.
THEOREM BudgetHolds == Spec => []WithinBudget
<1>1. IInv => WithinBudget BY DEF IInv, SizeChecked, WithinBudget, Snapshot
<1> QED BY <1>1, Inductive, PTL

\* From whatever arguments an agent starts, what it is told to ask next is valid.
THEOREM SuggestionsValid == Spec => []SuggestionAccepted
BY Inductive, PTL DEF IInv

\* With the code's thresholds or higher ones, no tier from T2 up is reported with
\* the confidence of a richer one, whatever the size of the tree.
THEOREM BandsApart == HighThresholds => (Spec => []ConfidenceBands)
<1> SUFFICES ASSUME HighThresholds PROVE Spec => []ConfidenceBands OBVIOUS
<1>1. ASSUME TypeOK, NEW c \in confidences(reply.elements, reply.patterns)
      PROVE  LET tier == classify_tier(reply.elements, reply.patterns) IN
             /\ tier = "T1" => c >= 70
             /\ tier = "T1/T2" => c \in 42..70
             /\ tier = "T2" => c \in 21..30
             /\ tier = "T3" => c <= 30
  <2> DEFINE e == reply.elements
             p == reply.patterns
             tier == classify_tier(e, p)
  <2>1. e \in Nat /\ p \in Nat BY <1>1 DEF TypeOK
  <2>2. /\ c \in 0..100
        /\ c * 100 <= exact_confidence(e, p) + 50
        /\ exact_confidence(e, p) <= c * 100 + 50
    BY <1>1 DEF confidences
  <2>3. CASE tier = "T1"
    BY <2>1, <2>2, <2>3, ThresholdsAssumption
       DEF HighThresholds, classify_tier, exact_confidence, Least
  <2>4. CASE tier = "T1/T2"
    BY <2>1, <2>2, <2>4, ThresholdsAssumption
       DEF HighThresholds, classify_tier, exact_confidence, Least
  <2>5. CASE tier = "T2"
    BY <2>1, <2>2, <2>5, ThresholdsAssumption
       DEF HighThresholds, classify_tier, exact_confidence, Least
  <2>6. CASE tier = "T3"
    BY <2>1, <2>2, <2>6, ThresholdsAssumption
       DEF HighThresholds, classify_tier, exact_confidence, Least
  <2> QED BY <2>3, <2>4, <2>5, <2>6 DEF classify_tier
<1>2. TypeOK => ConfidenceBands BY <1>1 DEF ConfidenceBands
<1> QED BY <1>2, TypeCorrect, PTL

-----------------------------------------------------------------------------
(* How long an agent can follow suggestions *)

\* Power[k] is 2^k.
Power == <<2, 4, 8, 16, 32, 64, 128, 256, 512, 1024, 2048>>

\* A request from which suggestions can be followed at most k times: each takes
\* a level off the depth, halves max_elements and leaves the mode a summary.
Within(k) ==
  /\ request.depth <= k
  /\ request.max_elements < Power[k + 1]
  /\ request.mode = "tree" => k > 0

\* Whenever the agent asks something else, it has one time fewer left to do so.
FollowsCountDown ==
  \A k \in 0..10 : Accepted /\ Within(k) /\ args' # args => k > 0 /\ Within(k - 1)'

ArgsRecord == args = [f \in Fields |-> args[f]]

LEMMA RecordKept == Spec => []ArgsRecord
<1>1. Init => ArgsRecord BY RequestsAssumption DEF Init, ArgsRecord
<1>2. ArgsRecord /\ [Next]_vars => ArgsRecord'
  <2> SUFFICES ASSUME ArgsRecord, [Next]_vars PROVE ArgsRecord' OBVIOUS
  <2>1. CASE args' = args BY <2>1 DEF ArgsRecord
  <2>2. CASE Follow /\ args' # args
    <3> DEFINE h == reply.hint
    <3>1. args' = [args EXCEPT !.mode = h.mode, !.depth = h.depth,
                               !.max_elements = h.max_elements]
      BY <2>2 DEF Follow, NextArgs
    <3> HIDE DEF h
    <3> QED BY <3>1 DEF ArgsRecord, Fields
  <2> QED BY <2>1, <2>2 DEF Next, Refuse, Scan, ScanFails, Stop, vars
<1> QED BY <1>1, <1>2, PTL DEF Spec

LEMMA PowerOf ==
  /\ Power[1] = 2 /\ Power[2] = 4 /\ Power[3] = 8 /\ Power[4] = 16
  /\ Power[5] = 32 /\ Power[6] = 64 /\ Power[7] = 128 /\ Power[8] = 256
  /\ Power[9] = 512 /\ Power[10] = 1024 /\ Power[11] = 2048
BY DEF Power

\* Halving goes down one power of two.
LEMMA Halving ==
  ASSUME NEW k \in 1..10, NEW n \in Nat, 1 <= n, n < Power[k + 1]
  PROVE  (IF n = 1 THEN 1 ELSE n \div 2) < Power[k]
<1>1. \/ k = 1 \/ k = 2 \/ k = 3 \/ k = 4 \/ k = 5
      \/ k = 6 \/ k = 7 \/ k = 8 \/ k = 9 \/ k = 10
  OBVIOUS
<1>2. \A m \in {2, 4, 8, 16, 32, 64, 128, 256, 512, 1024} :
        n < 2 * m => (IF n = 1 THEN 1 ELSE n \div 2) < m
  OBVIOUS
<1> QED BY <1>1, <1>2, PowerOf

\* What the agent asks when it follows a suggestion.
LEMMA FollowAsks ==
  ASSUME IInv, Follow
  PROVE  /\ Accepted
         /\ args' = [args EXCEPT !.mode = suggested_parameters.mode,
                                 !.depth = suggested_parameters.depth,
                                 !.max_elements = suggested_parameters.max_elements]
         /\ request'.mode = "summary"
         /\ request'.depth = IF request.depth = 0 THEN 0 ELSE request.depth - 1
         /\ request'.max_elements =
              IF request.max_elements = 1 THEN 1 ELSE request.max_elements \div 2
<1> DEFINE s == suggested_parameters
<1>1. Accepted /\ reply.hint = s
  BY DEF Follow, NextArgs, IInv, HintIsForArgs
<1>2. args' = [args EXCEPT !.mode = s.mode, !.depth = s.depth,
                           !.max_elements = s.max_elements]
  <2>1. reply.hint # NoHint BY DEF Follow, NextArgs
  <2> QED BY <1>1, <2>1 DEF Follow, NextArgs
<1>3. /\ s.mode = "summary"
      /\ s.depth = IF request.depth = 0 THEN 0 ELSE request.depth - 1
      /\ s.max_elements =
           IF request.max_elements = 1 THEN 1 ELSE request.max_elements \div 2
  BY DEF suggested_parameters
<1>4. s.depth \in Nat /\ s.max_elements \in Nat BY <1>1, SuggestionValid DEF Hints
<1> HIDE DEF s
<1>5. /\ args'.mode = s.mode /\ args'.depth = s.depth
      /\ args'.max_elements = s.max_elements
  BY <1>2 DEF IInv, TypeOK, Fields
<1>6. /\ request'.mode = s.mode /\ request'.depth = s.depth
      /\ request'.max_elements = s.max_elements
  BY <1>3, <1>4, <1>5, AbsentAssumption DEF request, Given
<1> QED BY <1>1, <1>2, <1>3, <1>6 DEF s

\* The smallest summary is suggested again, and not followed again.
LEMMA SmallestStops ==
  ASSUME IInv, ArgsRecord, Follow
  PROVE  request.mode = "tree" \/ request.depth # 0 \/ request.max_elements # 1
<1>0. request.mode \in {"tree", "summary"} BY FollowAsks, AcceptedMeans
<1> SUFFICES ASSUME request.mode = "summary", request.depth = 0, request.max_elements = 1
             PROVE  FALSE
  BY <1>0
<1>1. args.mode = "summary" /\ args.depth = 0 /\ args.max_elements = 1
  BY DEF request, Given
<1>2. /\ suggested_parameters.mode = "summary" /\ suggested_parameters.depth = 0
      /\ suggested_parameters.max_elements = 1
  BY DEF suggested_parameters
<1>3. args' = args
  BY FollowAsks, <1>1, <1>2 DEF ArgsRecord
<1> QED BY <1>3 DEF Follow

LEMMA FollowSmaller ==
  ASSUME IInv, ArgsRecord, Follow
  PROVE  Smaller
<1> DEFINE d == request.depth
           n == request.max_elements
<1>1. /\ request.mode \in {"tree", "summary"} /\ d \in Nat /\ n \in Nat /\ 1 <= n
  BY FollowAsks, AcceptedMeans
<1>2. request'.depth <= d /\ (d # 0 => request'.depth # d)
  BY <1>1, FollowAsks
<1>3. request'.max_elements <= n /\ (n # 1 => request'.max_elements # n)
  BY <1>1, FollowAsks
<1>4. request'.mode = "summary" BY FollowAsks
<1>5. request' # request BY <1>1, <1>2, <1>3, <1>4, SmallestStops
<1>6. args'.max_output_bytes = args.max_output_bytes
  BY FollowAsks DEF IInv, TypeOK, Fields
<1>7. request'.max_output_bytes = request.max_output_bytes BY <1>6 DEF request
<1> QED BY <1>2, <1>3, <1>4, <1>5, <1>7 DEF Smaller

LEMMA FollowCounts ==
  ASSUME IInv, ArgsRecord, Follow, NEW k \in 0..10, Within(k)
  PROVE  k > 0 /\ Within(k - 1)'
<1> DEFINE d == request.depth
           n == request.max_elements
<1>1. /\ request.mode \in {"tree", "summary"} /\ d \in Nat /\ n \in Nat /\ 1 <= n
  BY FollowAsks, AcceptedMeans
<1>2. k > 0
  <2>1. k = 0 => request.mode = "summary" /\ d = 0 /\ n = 1
    BY <1>1, PowerOf DEF Within
  <2> QED BY <2>1, SmallestStops
<1>3. request'.depth <= k - 1
  BY FollowAsks, <1>1, <1>2 DEF Within
<1>4. request'.max_elements < Power[k]
  <2>1. k \in 1..10 /\ n < Power[k + 1] BY <1>2 DEF Within
  <2> QED BY <2>1, <1>1, Halving, FollowAsks
<1>5. k - 1 + 1 = k OBVIOUS
<1>6. Within(k - 1)' BY <1>3, <1>4, <1>5, FollowAsks DEF Within
<1> QED BY <1>2, <1>6

\* From whatever arguments an agent starts, a suggestion that it follows asks for less.
THEOREM SuggestionsShrink == Spec => FollowsShrink
<1>1. IInv /\ ArgsRecord /\ [Next]_vars => [args' # args => Smaller]_vars
  <2> SUFFICES ASSUME IInv, ArgsRecord, [Next]_vars, args' # args PROVE Smaller
    OBVIOUS
  <2> QED BY FollowSmaller DEF Next, Refuse, Scan, ScanFails, Stop, vars
<1> QED BY <1>1, Inductive, RecordKept, PTL DEF Spec, FollowsShrink

\* From whatever it starts with, an agent that follows suggestions asks again at
\* most ten times: a valid request is within ten of the last one, and every time it
\* asks something else it is one nearer.  Fairness apart, this is why the exchange
\* settles.
THEOREM FollowsEnd == Spec => [](Accepted => Within(10)) /\ [][FollowsCountDown]_vars
<1>0. Accepted => Within(10)
  BY AcceptedMeans, PowerOf DEF Within
<1>1. IInv /\ ArgsRecord /\ [Next]_vars => [FollowsCountDown]_vars
  <2> SUFFICES ASSUME IInv, ArgsRecord, [Next]_vars PROVE FollowsCountDown
    OBVIOUS
  <2>1. CASE Follow BY <2>1, FollowCounts DEF FollowsCountDown
  <2>2. CASE args' = args BY <2>2 DEF FollowsCountDown
  <2> QED BY <2>1, <2>2 DEF Next, Refuse, Scan, ScanFails, Stop, vars
<1> QED BY <1>0, <1>1, Inductive, RecordKept, PTL DEF Spec
=============================================================================

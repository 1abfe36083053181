------------------------ MODULE ActionExecutor_proofs ------------------------
(***************************************************************************)
(* Theorems about ActionExecutor for any controls, windows, requests and   *)
(* policies, and any adapter.                                              *)
(***************************************************************************)
EXTENDS ActionExecutor, TLAPS

\* The policy let this request run live.
Allowed ==
  /\ request.hwnd \in policy.hwnds /\ request.action \in policy.actions
  /\ RiskOrder[request.risk] <= RiskOrder[policy.maximum_risk]
  /\ policy.execution_enabled /\ ~request.dry_run

\* Each place of the call is reached through the gates before it, and only
\* Invoke enters the adapter.
GatesPassed ==
  /\ pc \in {"guard", "invoke", "observe", "verify"} \/ called => Allowed
  /\ pc \in {"invoke", "observe", "verify"} \/ called => Guarded
  /\ pc \in {"submit", "guard", "invoke"} => ~called /\ touched = {}
  /\ pc \in {"observe", "verify"} => called

InputsTyped == request \in Requests /\ policy \in Policies

IInv == InputsTyped /\ GatesPassed /\ ReceiptHonest

LEMMA InitIInv == Init => IInv
  BY DEF Init, IInv, InputsTyped, GatesPassed, ReceiptHonest, Statuses

\* Risk levels are numbers, so one that does not exceed the maximum is at most it.
LEMMA RiskIsNat == \A r \in DOMAIN RiskOrder : RiskOrder[r] \in Nat
  BY DEF RiskOrder

LEMMA NotBlockedIsAllowed ==
  ASSUME InputsTyped, ~Blocked, ~request.dry_run
  PROVE  Allowed
<1>1. request \in ActionRequest /\ policy \in ActionPolicy
  BY RequestsAssumption, PoliciesAssumption DEF InputsTyped
<1>2. RiskOrder[request.risk] \in Nat /\ RiskOrder[policy.maximum_risk] \in Nat
  BY <1>1, RiskIsNat DEF ActionRequest, ActionPolicy
<1> QED
  BY <1>1, <1>2 DEF Blocked, Allowed

\* No risk is above destructive, so a lower maximum lets none of that level through.
LEMMA NotDestructive ==
  ASSUME InputsTyped, Allowed, policy.maximum_risk # "destructive"
  PROVE  request.risk # "destructive"
<1>1. policy.maximum_risk \in {"low", "medium", "high"}
  BY PoliciesAssumption DEF InputsTyped, ActionPolicy, RiskOrder
<1>2. RiskOrder[policy.maximum_risk] < RiskOrder["destructive"]
      /\ RiskOrder[policy.maximum_risk] \in Nat
  BY <1>1 DEF RiskOrder
<1> QED
  BY <1>2 DEF Allowed, RiskOrder

\* The inputs of a call do not change under it, so a gate passed stays passed.
LEMMA GatesStand ==
  ASSUME [Next]_vars
  PROVE  (Allowed' <=> Allowed) /\ (Guarded' <=> Guarded)
<1>1. request' = request /\ policy' = policy /\ before' = before
  BY DEF vars, Next, Plan, Guard, Invoke, Observe, Verify, UiChanges
<1> QED
  BY <1>1 DEF Allowed, Guarded

LEMMA InputsStep == IInv /\ [Next]_vars => InputsTyped'
  BY DEF IInv, InputsTyped, vars, Next, Plan, Guard, Invoke, Observe, Verify, UiChanges

LEMMA GatesStep == IInv /\ [Next]_vars => GatesPassed'
<1> SUFFICES ASSUME IInv, [Next]_vars PROVE GatesPassed'
  OBVIOUS
<1>1. (Allowed' <=> Allowed) /\ (Guarded' <=> Guarded)
  BY GatesStand
<1> USE <1>1 DEF IInv, InputsTyped, GatesPassed, Return
<1>2. CASE UNCHANGED vars \/ UiChanges
  BY <1>2 DEF vars, UiChanges
<1>3. CASE Plan
  BY <1>3, NotBlockedIsAllowed DEF Plan
<1>4. CASE Guard
  BY <1>4 DEF Guard
<1>5. CASE Invoke
  BY <1>5 DEF Invoke
<1>6. CASE Observe \/ Verify
  BY <1>6 DEF Observe, Verify
<1> QED
  BY <1>2, <1>3, <1>4, <1>5, <1>6 DEF Next

LEMMA ReceiptStep == IInv /\ [Next]_vars => ReceiptHonest'
<1> SUFFICES ASSUME IInv, [Next]_vars PROVE ReceiptHonest'
  OBVIOUS
<1> USE DEF IInv, InputsTyped, GatesPassed, Return
<1>1. CASE UNCHANGED vars
  BY <1>1 DEF vars, ReceiptHonest, Matches
<1>2. CASE Plan \/ Guard
  BY <1>2 DEF Plan, Guard, ReceiptHonest
<1>3. CASE Invoke \/ Observe
  BY <1>3 DEF Invoke, Observe, ReceiptHonest
<1>4. CASE Verify
  <2>1. Resolves(after, request.expected_after) =>
          \E k \in Controls : Matches(after) = {k} /\ after[k] = request.expected_after
    BY <1>4 DEF Verify, Resolves, Meets, Guarded
  <2>2. after' = after /\ request' = request /\ called' = called /\ called
    BY <1>4 DEF Verify
  <2> QED
    BY <1>4, <2>1, <2>2 DEF Verify, ReceiptHonest
<1>5. CASE UiChanges
  BY <1>5 DEF UiChanges, ReceiptHonest
<1> QED
  BY <1>1, <1>2, <1>3, <1>4, <1>5 DEF Next

LEMMA Invariance == SafetySpec => []IInv
<1>1. IInv /\ [Next]_vars => IInv'
  BY InputsStep, GatesStep, ReceiptStep DEF IInv
<1> QED
  BY <1>1, InitIInv, PTL DEF SafetySpec

Receipts == {NoReceipt} \cup [status : Statuses, attempted : BOOLEAN]

LEMMA ReturnTyped ==
  ASSUME NEW status \in Statuses, NEW attempted \in BOOLEAN, Return(status, attempted)
  PROVE  pc' = "returned" /\ receipt' \in Receipts
<1>1. [status |-> status, attempted |-> attempted]
        \in [status : Statuses, attempted : BOOLEAN]
  OBVIOUS
<1> QED
  BY <1>1 DEF Return, Receipts

LEMMA TypeStep == TypeOK /\ [Next]_vars => TypeOK'
<1> SUFFICES ASSUME TypeOK, [Next]_vars PROVE TypeOK'
  OBVIOUS
<1>1. receipt \in Receipts
  BY DEF TypeOK, Receipts
<1>2. \A s \in Statuses : \A a \in BOOLEAN :
        Return(s, a) => pc' = "returned" /\ receipt' \in Receipts
  BY ReturnTyped
<1>3. \A s \in {"planned", "blocked", "executed", "failed"} : s \in Statuses
  BY DEF Statuses
<1>4. receipt' \in Receipts
        /\ pc' \in {"submit", "guard", "invoke", "observe", "verify", "returned", "raised"}
  <2>1. CASE UNCHANGED vars \/ UiChanges
    BY <1>1, <2>1 DEF vars, UiChanges, TypeOK
  <2>2. CASE Plan
    BY <1>1, <1>2, <1>3, <2>2 DEF Plan
  <2>3. CASE Guard
    BY <1>1, <1>2, <1>3, <2>3 DEF Guard
  <2>4. CASE Invoke
    BY <1>1, <1>2, <1>3, <2>4 DEF Invoke
  <2>5. CASE Observe
    BY <1>1, <1>2, <1>3, <2>5 DEF Observe
  <2>6. CASE Verify
    BY <1>1, <1>2, <1>3, <2>6 DEF Verify
  <2> QED
    BY <2>1, <2>2, <2>3, <2>4, <2>5, <2>6 DEF Next
<1>5. screen' \in Trees /\ after' \in Trees
  BY DEF TypeOK, vars, Next, Plan, Guard, Invoke, Observe, Verify, UiChanges
<1>6. touched' \in SUBSET Controls
  BY DEF TypeOK, vars, Next, Plan, Guard, Invoke, Observe, Verify, UiChanges, Matches
<1>7. called' \in BOOLEAN
  BY DEF TypeOK, vars, Next, Plan, Guard, Invoke, Observe, Verify, UiChanges
<1>8. UNCHANGED <<before, request, policy>>
  BY DEF vars, Next, Plan, Guard, Invoke, Observe, Verify, UiChanges
<1> QED
  BY <1>4, <1>5, <1>6, <1>7, <1>8 DEF TypeOK, Receipts

\* Every variable of a call keeps its type, whatever the adapter and the window do.
THEOREM TypeCorrect == SafetySpec => []TypeOK
<1>1. Init => TypeOK
  BY DEF Init, TypeOK
<1> QED
  BY <1>1, TypeStep, PTL DEF SafetySpec

\* No control is touched unless every gate that the policy and the request close was
\* passed, whatever the adapter does and however the window changes.
THEOREM Gated == SafetySpec => []GatedInvoke
<1>1. IInv => GatedInvoke
  <2> SUFFICES ASSUME IInv, called PROVE GatedInvoke
    BY DEF GatedInvoke
  <2>1. Allowed /\ Guarded
    BY DEF IInv, GatesPassed
  <2> QED
    BY <2>1, NotDestructive
    DEF GatedInvoke, IInv, Allowed, Guarded, Resolves, Meets, Actionable
<1> QED
  BY <1>1, Invariance, PTL

\* A receipt never denies an attempt that was made, and never claims an outcome
\* that was not observed.
THEOREM Honest == SafetySpec => []ReceiptHonest
<1>1. IInv => ReceiptHonest
  BY DEF IInv
<1> QED
  BY <1>1, Invariance, PTL

-----------------------------------------------------------------------------
(* What a call does to the window *)

\* A request acts at most once, on at most one control: nothing is retried after the
\* adapter was entered, whether it returned, raised or was interrupted.
ActsOnce ==
  /\ [][touched' # touched => ~called /\ called']_vars
  /\ [](\A k, l \in touched : k = l)

\* When the window still looks as in the caller's snapshot, what is touched is the
\* one element the request names, in the declared state and not barred.  Only a
\* change between the snapshot and the click lets the click land elsewhere.
StableWindowTouch ==
  [][touched' # touched /\ screen = before.tree =>
       \E k \in Controls :
         /\ Matches(before.tree) = {k} /\ touched' = {k}
         /\ before.tree[k] # "barred"
         /\ Meets(before.tree[k], request.expected_before)]_vars

LEMMA OnlyInvokeTouches ==
  ASSUME Next, touched' # touched
  PROVE  Invoke
BY DEF Next, Plan, Guard, Observe, Verify, UiChanges

\* For any controls, windows, requests and policies, a call touches one control, once.
THEOREM ActedOnce == SafetySpec => ActsOnce
<1> DEFINE Single == \A k, l \in touched : k = l
           A == touched' # touched => ~called /\ called'
<1>1. IInv /\ [Next]_vars => [A]_vars
  BY OnlyInvokeTouches DEF IInv, GatesPassed, Invoke
<1>2. Init => Single
  BY DEF Init
<1>3. IInv /\ Single /\ [Next]_vars => Single'
  <2> SUFFICES ASSUME IInv, Single, [Next]_vars, touched' # touched PROVE Single'
    OBVIOUS
  <2>1. Invoke
    BY OnlyInvokeTouches DEF vars
  <2>2. touched = {}
    BY <2>1 DEF Invoke, IInv, GatesPassed
  <2> QED
    BY <2>1, <2>2 DEF Invoke
<1> QED
  BY <1>1, <1>2, <1>3, Invariance, PTL DEF SafetySpec, ActsOnce

\* For any controls, windows, requests and policies, only a window that changed since
\* the snapshot lets a call touch something else than the request names.
THEOREM StableTouch == SafetySpec => StableWindowTouch
<1> DEFINE A == touched' # touched /\ screen = before.tree =>
                  \E k \in Controls :
                    /\ Matches(before.tree) = {k} /\ touched' = {k}
                    /\ before.tree[k] # "barred"
                    /\ Meets(before.tree[k], request.expected_before)
<1>1. IInv /\ [Next]_vars => [A]_vars
  <2> SUFFICES ASSUME IInv, Next, touched' # touched, screen = before.tree PROVE A
    OBVIOUS
  <2>1. Invoke
    BY OnlyInvokeTouches
  <2>2. touched = {} /\ Guarded
    BY <2>1 DEF Invoke, IInv, GatesPassed
  <2>3. PICK k \in Controls : /\ Matches(before.tree) = {k}
                              /\ Meets(before.tree[k], request.expected_before)
    BY <2>2 DEF Guarded, Resolves
  <2>4. before.tree[k] # "barred"
    BY <2>2, <2>3 DEF Guarded, Actionable
  <2>5. touched' = {k}
    BY <2>1, <2>2, <2>3 DEF Invoke
  <2> QED
    BY <2>3, <2>4, <2>5
<1> QED
  BY <1>1, Invariance, PTL DEF SafetySpec, StableWindowTouch
=============================================================================

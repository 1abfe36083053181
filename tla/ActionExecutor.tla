--------------------------- MODULE ActionExecutor ---------------------------
(***************************************************************************)
(* execute_action of sidecar/action: a policy-gated invoke of one UI       *)
(* element, checked against a snapshot the caller took before and verified *)
(* against one taken after, while the user and the application keep        *)
(* changing the window.  One call is modelled, to its receipt.             *)
(*                                                                         *)
(* Abstractions: a snapshot's tree is reduced to what resolve_element and  *)
(* require_state can tell about the target element id: which real controls *)
(* carry that id (it hashes the path, so a sibling inserted or removed     *)
(* gives the id to another control) and how each looks.  A look is         *)
(* "barred" when the element is disabled, offscreen or has no invoke       *)
(* pattern.  An expected state is one look, "none" for the empty dict, or  *)
(* "unsupported" for a path _read_path does not know, which no look meets. *)
(***************************************************************************)
EXTENDS Naturals

CONSTANTS Controls,  \* UI controls of the application
          Hwnds,     \* window handles
          Requests,  \* the requests a caller may submit
          Policies   \* the policies an embedding caller may set

VARIABLES pc,       \* where execute_action is
          screen,   \* the target window now
          before,   \* the caller's snapshot: its window and its tree
          request, policy,
          called,   \* adapter.invoke was entered
          touched,  \* controls the adapter acted on
          after,    \* the tree of the second snapshot
          receipt

vars == <<pc, screen, before, request, policy, called, touched, after, receipt>>

Looks == {"ready", "done", "barred"}
Trees == [Controls -> Looks \cup {"unmatched"}]

Kinds == {"invoke", "set_value", "toggle", "select", "expand", "collapse"}
RiskOrder == [low |-> 0, medium |-> 1, high |-> 2, destructive |-> 3]
Expectations == Looks \cup {"none", "unsupported"}

ActionRequest ==
  [hwnd : Hwnds, action : Kinds, risk : DOMAIN RiskOrder, dry_run : BOOLEAN,
   schema : {"current", "old"},
   expected_before : Expectations, expected_after : Expectations]

ActionPolicy ==
  [hwnds : SUBSET Hwnds, actions : SUBSET Kinds, maximum_risk : DOMAIN RiskOrder,
   execution_enabled : BOOLEAN]

ASSUME RequestsAssumption == Requests \subseteq ActionRequest
ASSUME PoliciesAssumption == Policies \subseteq ActionPolicy

Statuses == {"planned", "blocked", "executed", "failed"}
NoReceipt == [status |-> "none", attempted |-> FALSE]

TypeOK ==
  /\ pc \in {"submit", "guard", "invoke", "observe", "verify", "returned", "raised"}
  /\ screen \in Trees
  /\ before \in [hwnd : Hwnds, tree : Trees]
  /\ request \in Requests
  /\ policy \in Policies
  /\ called \in BOOLEAN
  /\ touched \in SUBSET Controls
  /\ after \in Trees
  /\ receipt \in {NoReceipt} \cup [status : Statuses, attempted : BOOLEAN]

\* The snapshot shows some window, at a moment before the call.
Init ==
  /\ pc = "submit"
  /\ screen \in Trees
  /\ before \in [hwnd : Hwnds, tree : {screen}]
  /\ request \in Requests
  /\ policy \in Policies
  /\ called = FALSE
  /\ touched = {}
  /\ after = screen
  /\ receipt = NoReceipt

Return(status, attempted) ==
  /\ pc' = "returned"
  /\ receipt' = [status |-> status, attempted |-> attempted]

-----------------------------------------------------------------------------
(* Policy: plan_action *)

Blocked ==
  \/ request.hwnd \notin policy.hwnds
  \/ request.action \notin policy.actions
  \/ RiskOrder[request.risk] > RiskOrder[policy.maximum_risk]
  \/ ~request.dry_run /\ ~policy.execution_enabled

Plan ==
  /\ pc = "submit"
  /\ IF Blocked THEN Return("blocked", FALSE)
     ELSE IF request.dry_run THEN Return("planned", FALSE)
     ELSE pc' = "guard" /\ UNCHANGED receipt
  /\ UNCHANGED <<screen, before, request, policy, called, touched, after>>

-----------------------------------------------------------------------------
(* Resolution: resolver.py *)

Matches(tree) == {k \in Controls : tree[k] # "unmatched"}

Meets(look, expected) == expected = "none" \/ look = expected

\* resolve_element finds exactly one element and require_state accepts it.
Resolves(tree, expected) ==
  \E k \in Controls : Matches(tree) = {k} /\ Meets(tree[k], expected)

Actionable(tree) == \A k \in Matches(tree) : tree[k] # "barred"

\* Mutant: the snapshot's window is not compared with the request's.
GuardedAnyWindow ==
  /\ request.schema = "current"
  /\ request.action = "invoke"
  /\ request.expected_after # "none"
  /\ Resolves(before.tree, request.expected_before)
  /\ Actionable(before.tree)

Guarded ==
  /\ request.schema = "current"
  /\ before.hwnd = request.hwnd
  /\ request.action = "invoke"
  /\ request.expected_after # "none"
  /\ Resolves(before.tree, request.expected_before)
  /\ Actionable(before.tree)

Guard ==
  /\ pc = "guard"
  /\ IF Guarded THEN pc' = "invoke" /\ UNCHANGED receipt
     ELSE Return("failed", FALSE)
  /\ UNCHANGED <<screen, before, request, policy, called, touched, after>>

-----------------------------------------------------------------------------
(* The mutation and its verification *)

\* Mutant: the attempt is noted after the adapter returns, not before.
InvokeNotedLate ==
  /\ pc = "invoke"
  /\ called' = TRUE
  /\ touched' \in {touched} \cup {touched \cup {k} : k \in Matches(screen)}
  /\ \/ pc' = "observe" /\ UNCHANGED receipt
     \/ Return("failed", FALSE)
  /\ UNCHANGED <<screen, before, request, policy, after>>

\* The adapter is the embedding caller's: it acts on some control that carries
\* the id now, or on none, and returns, raises an Exception, or is interrupted
\* by a BaseException, which execute_action does not catch.
Invoke ==
  /\ pc = "invoke"
  /\ called' = TRUE
  /\ touched' \in {touched} \cup {touched \cup {k} : k \in Matches(screen)}
  /\ \/ pc' = "observe" /\ UNCHANGED receipt
     \/ Return("failed", TRUE)
     \/ pc' = "raised" /\ UNCHANGED receipt
  /\ UNCHANGED <<screen, before, request, policy, after>>

\* Mutant: the snapshot is kept where its tree is expected.
ObserveWhole ==
  /\ pc = "observe"
  /\ pc' = "verify"
  /\ after' = [hwnd |-> before.hwnd, tree |-> screen]
  /\ UNCHANGED <<screen, before, request, policy, called, touched, receipt>>

Observe ==
  /\ pc = "observe"
  /\ \/ pc' = "verify" /\ after' = screen /\ UNCHANGED receipt
     \/ Return("failed", TRUE) /\ UNCHANGED after
     \/ pc' = "raised" /\ UNCHANGED <<after, receipt>>
  /\ UNCHANGED <<screen, before, request, policy, called, touched>>

Verify ==
  /\ pc = "verify"
  /\ IF Resolves(after, request.expected_after)
       THEN Return("executed", TRUE)
       ELSE Return("failed", TRUE)
  /\ UNCHANGED <<screen, before, request, policy, called, touched, after>>

\* The user and the application, at any moment; nothing locks the window.
UiChanges ==
  /\ pc \notin {"returned", "raised"}
  /\ screen' \in Trees
  /\ UNCHANGED <<pc, before, request, policy, called, touched, after, receipt>>

Next == Plan \/ Guard \/ Invoke \/ Observe \/ Verify \/ UiChanges

SafetySpec == Init /\ [][Next]_vars

-----------------------------------------------------------------------------
(* Properties *)

\* No control is touched unless every gate was passed: allowlisted window and
\* kind, execution enabled, not a dry run, one actionable element of the right
\* window, and a declared outcome.  The two gates that a caller or an embedder may
\* leave open are stated where they are not: a risk below destructive that the policy
\* allows, unless the policy itself admits destructive ones, and the state the
\* request declares, if it declares one.
GatedInvoke ==
  called =>
    /\ request.hwnd \in policy.hwnds /\ request.action \in policy.actions
    /\ policy.execution_enabled /\ ~request.dry_run
    /\ policy.maximum_risk # "destructive" =>
         /\ request.risk # "destructive"
         /\ RiskOrder[request.risk] <= RiskOrder[policy.maximum_risk]
    /\ request.action = "invoke" /\ request.schema = "current"
    /\ before.hwnd = request.hwnd /\ request.expected_after # "none"
    /\ \E k \in Controls :
         /\ Matches(before.tree) = {k} /\ before.tree[k] # "barred"
         /\ request.expected_before # "none" => before.tree[k] = request.expected_before

\* A receipt can be audited: one that denies an attempt comes from a call that
\* touched nothing, and one that says executed comes from a call that entered
\* the adapter and then saw exactly one element with the declared outcome.
ReceiptHonest ==
  pc = "returned" =>
    /\ ~receipt.attempted => ~called /\ touched = {}
    /\ receipt.status \in {"planned", "blocked"} => ~receipt.attempted
    /\ receipt.status = "executed" =>
         called /\ \E k \in Controls :
                     Matches(after) = {k} /\ after[k] = request.expected_after
=============================================================================

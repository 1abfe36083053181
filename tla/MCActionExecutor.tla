-------------------------- MODULE MCActionExecutor --------------------------
(***************************************************************************)
(* TLC instances of ActionExecutor: two controls that may carry the target *)
(* id, two windows, the requests that differ from a good one in at most    *)
(* two fields, and twelve policies around the default.                     *)
(***************************************************************************)
EXTENDS ActionExecutor, FiniteSets, TLC

CONSTANTS k1, k2, w1, w2

MCControls == {k1, k2}
MCHwnds == {w1, w2}

GoodRequest ==
  [hwnd |-> w1, action |-> "invoke", risk |-> "medium", dry_run |-> FALSE,
   schema |-> "current", expected_before |-> "ready", expected_after |-> "done"]

Candidates ==
  [hwnd : MCHwnds, action : {"invoke", "select", "set_value"},
   risk : {"medium", "destructive"}, dry_run : BOOLEAN, schema : {"current", "old"},
   expected_before : {"ready", "barred", "none", "unsupported"},
   expected_after : {"ready", "done", "none", "unsupported"}]

Deviations(r) == {f \in DOMAIN GoodRequest : r[f] # GoodRequest[f]}

MCRequests == {r \in Candidates : Cardinality(Deviations(r)) <= 2}

MCPolicies ==
  [hwnds : {{}, {w1}}, actions : {{"invoke", "select", "expand", "collapse"}},
   maximum_risk : {"low", "medium", "destructive"}, execution_enabled : BOOLEAN]

Symmetry == Permutations(MCControls)
=============================================================================

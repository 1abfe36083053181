SPECIFICATION SafetySpec
CONSTANTS
  k1 = k1
  k2 = k2
  w1 = w1
  w2 = w2
  Controls <- MCControls
  Hwnds <- MCHwnds
  Requests <- MCRequests
  Policies <- MCPolicies
SYMMETRY Symmetry
CHECK_DEADLOCK FALSE
INVARIANTS
  TypeOK
  GatedInvoke
  ReceiptHonest

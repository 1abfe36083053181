---------------------------- MODULE MCScanBudget ----------------------------
(***************************************************************************)
(* TLC instance of ScanBudget: arguments at, inside and outside their      *)
(* bounds or left out, and windows on both sides of every threshold, among *)
(* them one whose title alone fills the largest budget and two that fit    *)
(* the smallest one only until the handler has added its fields.           *)
(***************************************************************************)
EXTENDS ScanBudget

CONSTANTS absent, nohint

MCRequests ==
  [mode : {absent, "tree", "summary", "neither"}, depth : {absent, -1, 0, 1, 10, 11},
   max_elements : {absent, 0, 1, 2000, 2001},
   max_output_bytes : {absent, 16383, 16384, 262144}]

Window(width, element, metadata, patterns) ==
  [width |-> width, element |-> element, metadata |-> metadata, summary |-> 1000,
   patterns |-> patterns]

MCWindows ==
  {Window(width, 100, 500, 13) : width \in {0, 1, 3, 9, 16, 49, 66, 99, 199, 200}}
    \cup {Window(9, 100, 15300, 1), Window(9, 1, 15355, 3), Window(0, 4, 270000, 0),
          Window(99, 600, 100, 4)}
=============================================================================

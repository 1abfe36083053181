----------------------------- MODULE MCScanTool -----------------------------
(***************************************************************************)
(* TLC instances of ScanTool: two calls contend for the slot of one Hermes *)
(* process while a second process scans on its own.                        *)
(***************************************************************************)
EXTENDS ScanTool

CONSTANTS c1, c2, c3, p1, p2

MCCalls == {c1, c2, c3}
MCProcesses == {p1, p2}
MCProcessOf == [c \in MCCalls |-> IF c = c3 THEN p2 ELSE p1]
MCInterruptible == {c1}
=============================================================================

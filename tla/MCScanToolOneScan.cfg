SPECIFICATION Spec
CONSTANTS
  c1 = c1
  c2 = c2
  c3 = c3
  p1 = p1
  p2 = p2
  Calls <- MCCalls
  Processes <- MCProcesses
  ProcessOf <- MCProcessOf
  Interruptible <- MCInterruptible
INVARIANTS
  OneScanAtATime

SPECIFICATION SafetySpec
CONSTANTS
  h1 = h1
  h2 = h2
  a1 = a1
  a2 = a2
  af = af
  b1 = b1
  b2 = b2
  pa = pa
  pb = pb
  Nobody = Nobody
  NoProcess = NoProcess
  Handles <- MCHandles
  Windows <- MCWindows
  Processes <- MCProcesses
  Requested = h1
  ProcessOf <- MCProcessOf
  Frames <- MCFrames
CHECK_DEADLOCK FALSE
INVARIANTS
  ReplacementDetected

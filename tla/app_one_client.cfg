\* One client at a time, the end of a session reported before that of its
\* process: the safety of one application and its refinement.
CONSTANTS
  s1 = s1
  s2 = s2
  f1 = f1
  f2 = f2
  Sessions = {s1, s2}
  Surfaces = {f1, f2}
  Dash = FALSE
  MaxClients = 1
  SessionsStopFirst = TRUE
SPECIFICATION Spec
INVARIANTS
  WakelockUntilSuspended
  RequestHeeded
  AssertionsHold
PROPERTIES
  ClosingIsFinal
  KeepsPromise
CHECK_DEADLOCK FALSE

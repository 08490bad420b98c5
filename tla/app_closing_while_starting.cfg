\* The instance of one client with one surface, against one assertion of application.cpp.
CONSTANTS
  s1 = s1
  f1 = f1
  Sessions = {s1}
  Surfaces = {f1}
  Dash = FALSE
  MaxClients = 1
  SessionsStopFirst = TRUE
SPECIFICATION Spec
INVARIANT NeverClosingWhileStarting
CHECK_DEADLOCK FALSE

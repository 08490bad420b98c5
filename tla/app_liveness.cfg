\* One client at a time with one surface: what must eventually happen.
CONSTANTS
  s1 = s1
  s2 = s2
  f1 = f1
  Sessions = {s1, s2}
  Surfaces = {f1}
  Dash = FALSE
  MaxClients = 1
  SessionsStopFirst = FALSE
SPECIFICATION FairSpec
PROPERTIES
  SuspensionEnds
  ClosingEnds
CHECK_DEADLOCK FALSE

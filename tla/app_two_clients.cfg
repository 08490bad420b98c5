\* Two clients at a time, and no order between the reports of Mir and those
\* of ubuntu-app-launch.
CONSTANTS
  s1 = s1
  s2 = s2
  f1 = f1
  f2 = f2
  Sessions = {s1, s2}
  Surfaces = {f1, f2}
  Dash = FALSE
  MaxClients = 2
  SessionsStopFirst = FALSE
SPECIFICATION Spec
INVARIANTS
  NeverFrozenAtWork
  FrozenAfterSessions
  StopTimerSparesSurfaces
  DeadSessionsCollected
PROPERTIES
  StoppedIsDeadEnd
CHECK_DEADLOCK FALSE

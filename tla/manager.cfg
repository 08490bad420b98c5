\* One application that ubuntu-app-launch starts and one that is started by hand;
\* an object and a process may be on their way out while the next ones come.
CONSTANTS
  AppIds = {a, b}
  NoApp = NoApp
  Launched = {a}
  ByHand = {b}
  Clients = {c1, c2}
  NoClient = NoClient
  Objects = {x1, x2}
  MaxPosted = 2
  MaxReports = 0

SPECIFICATION Spec
SYMMETRY Symmetry

INVARIANT OnePerLaunched
INVARIANT QueuedHasTrigger
INVARIANT EveryObjectKept
INVARIANT SessionsAtHome

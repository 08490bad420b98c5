\* A process started by hand, of an application the shell may start as well.
CONSTANTS
  AppIds = {a}
  NoApp = NoApp
  Launched = {a}
  ByHand = {a}
  Clients = {c1, c2}
  NoClient = NoClient
  Objects = {x1, x2}
  MaxPosted = 2
  MaxReports = 0

SPECIFICATION Spec

INVARIANT OnePerApplication

\* An application started again while its predecessor closes.
CONSTANTS
  AppIds = {a}
  NoApp = NoApp
  Launched = {a}
  ByHand = {}
  Clients = {c1, c2}
  NoClient = NoClient
  Objects = {x1, x2}
  MaxPosted = 1
  MaxReports = 1

SPECIFICATION FairSpec

PROPERTY QueuedStartHappens

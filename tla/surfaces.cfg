\* An application and two prompt providers, which may provide for it, for each other
\* or one after the other ("nested"); two windows of any of them; and one item that
\* displays them ("displayed"). Seven of what may be made, a window counted twice:
\* a chain of two prompt sessions with a window at its end, or two windows and three.
\* Once what may be made has come and gone, nothing happens any more.
CONSTANTS
  Windows = { v, w }
  Sessions = { s, t, u }
  Apps = { s }
  Providers = { t, u }
  Items = { i }
  None = None
  MaxNotices = 1
  MaxMade = 7
SPECIFICATION MCSpec
SYMMETRY Symmetric
INVARIANTS
  NothingDangles
  ListsAgree
  NothingLeaks
CHECK_DEADLOCK FALSE

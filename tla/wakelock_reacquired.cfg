\* powerd leaves the bus with a request under way, and returns.
CONSTANTS
  Owners = {o1}
  Cookies = {c1, c2, c3, c4}
  NoCookie = NoCookie
  MaxMessages = 3
  RestoredIsHeld = TRUE

SPECIFICATION Spec

INVARIANT ReacquiredWhenBack

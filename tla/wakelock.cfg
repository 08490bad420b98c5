\* The shared wakelock: overlapping requests, powerd coming and going, crashes
\* with a cookie that powerd still honours.
CONSTANTS
  Owners = {o1, o2}
  Cookies = {c1, c2, c3, c4, c5, c6}
  NoCookie = NoCookie
  MaxMessages = 5
  RestoredIsHeld = TRUE

SPECIFICATION Spec
SYMMETRY Symmetry

INVARIANT EnabledMeansHeld
INVARIANT NothingHeldUnowned
INVARIANT NoCookieForgotten
INVARIANT FileFollowsCookie
PROPERTY CallsHaveInterface
PROPERTY OwnedLockKept

\* Two windows and an input method's; a surface that two items show; two fingers,
\* two keys and a pointer, over two surfaces; one attribute that MirAL copies, and
\* two screens, of which the wide one is built in; a window, its child and its
\* child's child.
CONSTANTS
  Windows = { w1, w2 }
  Changing = { w1 }
  InputMethods = { k1 }
  NoWindow = NoWindow
  MaxNotices = 2
  Items = { i1, i2 }
  MaxViewNotices = 1
  Sizes = { s1, s2, s3 }
  NoSize = NoSize
  Angles = { 0, 90 }
  Angle0 = 0
  NoAngle = NoAngle
  Touches = { 1, 2 }
  Keys = { k, l }
  Surfaces = { a, b }
  NoSurface = NoSurface
  MaxTouchEvents = 1
  MaxKeyEvents = 1
  MaxFocusNotices = 1
  RingSize = 2
  MaxStamp = 1
  Devices = { 1 }
  MaxTime = 3
  MaxEvents = 3
  MaxQueued = 2
  Values = { arrow, beam }
  Default = arrow
  None = None
  Names = { grab }
  Modified = { title }
  Copied = { title }
  Cursor = Cursor
  MaxPosted = 0
  Screens = { d1, d2 }
  Internal = { d1 }
  Wide = { d1 }
  MaxReadings = 1
  Depth = 3
  Edge = 1
  Requesting = { 3 }
  MaxMoves = 4
  Scales = { 1, 2 }
  MaxScaleNotices = 0
SPECIFICATION Spec
INVARIANTS
  InSync
  ViewsAgree
  GeometryAgrees
  AttributesAgree
  ScreensFollow
  HeldIsRemembered
  HeldIsRecorded
  InfoKept
PROPERTIES
  KeepsStacking
  KeepsTouchStream

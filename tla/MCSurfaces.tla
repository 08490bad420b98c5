------------------------------ MODULE MCSurfaces -----------------------------
(* What the main thread makes of a window's surface and of the screens that *)
(* it is on: the views, the size, the place and the attributes of a surface;*)
(* how the device is held, and the scale of its screens. They share what    *)
(* happens to a window in Mir, of which each module has the part that it    *)
(* needs, so that a behaviour is one of one of them and the others stay as  *)
(* they are.                                                                *)
EXTENDS Integers, Sequences, FiniteSets, MCPart

CONSTANTS Items, MaxViewNotices, Sizes, NoSize, Angles, Angle0, NoAngle,
          Values, Default, None, Names, Modified, Copied, Cursor, MaxPosted,
          Windows, Screens, Internal, Wide, MaxReadings,
          Depth, Edge, Requesting, MaxMoves, Scales, MaxScaleNotices

VARIABLES hidden, drawn, state, exposed, viewNotices, stage, live, ready, surfaceVisible,
          surfaceState, views, exposedViews, activeViews, seen, sceneFocus, consuming, missed,
          running, resizable, size, sizePending, pendingResize, windowSize, allowResize,
          itemShows, itemSize, timer, crossed, angle, itemAngle, wanted,
          info, modifying, connected, copy, posted, attr, late, shows,
          itemCursor, hovered, qtCursor, mirCursor, cursorName, pointer, unheard,
          device, reading, sensor, enabled, started, on, present, orientation, events,
          since, upright, heard,
          topLeft, moving, moves, moveRequest, requested, position, unasked,
          mirScale, scale, screenWindow, screenOf, kept, scaleNotices, scaleUnheard

Views == INSTANCE SurfaceViews WITH MaxNotices <- MaxViewNotices, notices <- viewNotices
Size == INSTANCE SurfaceSize WITH live <- resizable, shown <- itemShows
Position == INSTANCE SurfacePosition WITH
              MaxNotices <- MaxMoves, notices <- moves, request <- moveRequest
Attributes == INSTANCE SurfaceAttributes WITH MaxNotices <- MaxPosted
Device == INSTANCE Orientation WITH MaxEvents <- MaxReadings
Scale == INSTANCE ScreenScale WITH
           MaxNotices <- MaxScaleNotices, on <- screenOf, posted <- scaleNotices,
           unheard <- scaleUnheard

ASSUME ViewsAssumption == Views!BoundAssumption
ASSUME SizeAssumption == Size!SizesAssumption /\ Size!AnglesAssumption
ASSUME PositionAssumption ==
  Position!DepthAssumption /\ Position!BoundAssumption /\ Position!NoneAssumption
ASSUME AttributeAssumption ==
  Attributes!ValuesAssumption /\ Attributes!AttributesAssumption /\ Attributes!BoundAssumption
ASSUME DeviceAssumption == Device!ScreensAssumption /\ Device!BoundAssumption
ASSUME ScaleAssumption == Scale!ScalesAssumption /\ Scale!BoundAssumption

viewVars == << hidden, drawn, state, exposed, viewNotices, stage, live, ready,
               surfaceVisible, surfaceState, views, exposedViews, activeViews, seen,
               sceneFocus, consuming, missed >>
sizeVars == << running, resizable, size, sizePending, pendingResize, windowSize, allowResize,
               itemShows, itemSize, timer, crossed, angle, itemAngle, wanted >>
scaleVars == << mirScale, scale, screenWindow, screenOf, kept, scaleNotices, scaleUnheard >>
positionVars == << topLeft, moving, moves, moveRequest, requested, position, unasked >>
attributeVars == << info, modifying, connected, copy, posted, attr, late, shows,
                    itemCursor, hovered, qtCursor, mirCursor, cursorName,
                    pointer, unheard >>
deviceVars == << device, reading, sensor, enabled, started, on, present, orientation, events,
                 since, upright, heard >>
surfacesVars == << viewVars, sizeVars, positionVars, attributeVars, deviceVars, scaleVars >>

SurfaceParts == { "views", "size", "position", "attributes", "device", "scale" }

(* The parts that are not chosen start in one of their initial states.      *)
SurfacesInit ==
  /\ Views!Init /\ (part # "views" => ~ hidden /\ state = "restored" /\ ~ exposed)
  /\ Size!Init /\ (part # "size" => ~ sizePending /\ size = CHOOSE s \in Sizes : TRUE)
  /\ Position!Init /\ (part # "position" => \A w \in DOMAIN topLeft : topLeft[w] = 0)
  /\ Attributes!Init /\ (part # "attributes" => \A a \in DOMAIN info : info[a] = Default)
  /\ Device!Init /\ (part # "device" => device = 0)
  /\ Scale!Init /\ (part # "scale" => \A s \in Screens : scale[s] = 1)

SurfacesNext ==
  \/ /\ part = "views" /\ Views!Next
     /\ UNCHANGED << sizeVars, positionVars, attributeVars, deviceVars, scaleVars >>
  \/ /\ part = "size" /\ Size!Next
     /\ UNCHANGED << viewVars, positionVars, attributeVars, deviceVars, scaleVars >>
  \/ /\ part = "position" /\ Position!Next
     /\ UNCHANGED << viewVars, sizeVars, attributeVars, deviceVars, scaleVars >>
  \/ /\ part = "attributes" /\ Attributes!Next
     /\ UNCHANGED << viewVars, sizeVars, positionVars, deviceVars, scaleVars >>
  \/ /\ part = "device" /\ Device!Next
     /\ UNCHANGED << viewVars, sizeVars, positionVars, attributeVars, scaleVars >>
  \/ /\ part = "scale" /\ Scale!Next
     /\ UNCHANGED << viewVars, sizeVars, positionVars, attributeVars, deviceVars >>

SurfacesSpec == SurfacesInit /\ [][UNCHANGED part /\ SurfacesNext]_<< part, surfacesVars >>

(* A surface is seen and focused if a view of it is: see SurfaceViews.      *)
ViewsAgree == part = "views" => Views!ViewsAgree

(* The window has the size that its item asks for, and its surface has its  *)
(* window's place: see SurfaceSize and SurfacePosition.                     *)
GeometryAgrees ==
  /\ part = "size" => Size!SizeAgrees
  /\ part = "position" => Position!PositionsAgree

(* From MirAL's window to the pointer, each has what it was told last: see  *)
(* SurfaceAttributes.                                                       *)
AttributesAgree == part = "attributes" => Attributes!AttributesAgree

(* Each screen follows how the device is held while it is to, and each      *)
(* window its screen's scale: see Orientation and ScreenScale.              *)
ScreensFollow ==
  /\ part = "device" => Device!FollowsDevice
  /\ part = "scale" => Scale!ScaleAgrees
==============================================================================

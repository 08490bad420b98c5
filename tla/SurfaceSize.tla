----------------------------- MODULE SurfaceSize -----------------------------
(***************************************************************************)
(* The size of a surface, that its item asks for and its client draws; and *)
(* its orientation, that its item asks for.                                *)
(*                                                                         *)
(* An item asks for a size a millisecond after it was given one, or when   *)
(* it gets the surface. MirSurface has MirAL resize the window unless its  *)
(* last frame had that size already, and keeps the size for later while    *)
(* the client does not run. m_size is the size of the last frame taken,    *)
(* which may answer an earlier request; m_sizePendingChange is set from a  *)
(* request until a frame of a new size. The width and the height that a    *)
(* request gives are one value here. An orientation is the surface's at    *)
(* once; an item that has no surface holds it.                             *)
(***************************************************************************)
CONSTANTS
  Sizes,          (* sizes of windows and frames                            *)
  NoSize,         (* an invalid QSize, or an item's that is not set         *)
  Angles,         (* orientation angles                                     *)
  Angle0,         (* that of a new surface                                  *)
  NoAngle         (* no m_orientationAngle                                  *)

SizesAssumption == NoSize \notin Sizes
AnglesAssumption == Angle0 \in Angles /\ NoAngle \notin Angles

VARIABLES
  running,        (* clientIsRunning()                                      *)
  live,           (* m_live                                                 *)
  size,           (* m_size                                                 *)
  sizePending,    (* m_sizePendingChange                                    *)
  pendingResize,  (* m_pendingResize                                        *)
  windowSize,     (* MirAL: the window's size                               *)
  allowResize,    (* ExtraWindowInfo::allowClientResize                     *)
  shown,          (* the item's m_surface is this one                       *)
  itemSize,       (* the item's m_surfaceWidth and m_surfaceHeight          *)
  timer,          (* its m_updateMirSurfaceSizeTimer is active              *)
  angle,          (* MirSurface's m_orientationAngle                        *)
  itemAngle,      (* the item's                                             *)
  crossed,        (* history: since the last resize the client set its own  *)
                  (* size, or a frame was taken that had not the window's   *)
  wanted          (* history: the angle that the item was last given        *)

surfaceVars == << size, sizePending, pendingResize, windowSize, crossed >>
itemVars == << shown, itemSize, timer >>
angleVars == << angle, itemAngle, wanted >>
vars == << running, live, allowResize, surfaceVars, itemVars, angleVars >>

TypeOK ==
  /\ running \in BOOLEAN /\ live \in BOOLEAN /\ allowResize \in BOOLEAN
  /\ size \in Sizes /\ windowSize \in Sizes /\ pendingResize \in Sizes \cup { NoSize }
  /\ sizePending \in BOOLEAN /\ crossed \in BOOLEAN
  /\ shown \in BOOLEAN /\ timer \in BOOLEAN /\ itemSize \in Sizes \cup { NoSize }
  /\ angle \in Angles /\ { itemAngle, wanted } \subseteq Angles \cup { NoAngle }

(* The constructor leaves m_sizePendingChange as it finds it.               *)
Init ==
  /\ running = TRUE /\ live = TRUE /\ allowResize = TRUE
  /\ size \in Sizes /\ windowSize = size
  /\ sizePending \in BOOLEAN /\ pendingResize = NoSize /\ crossed = FALSE
  /\ shown = FALSE /\ itemSize = NoSize /\ timer = FALSE
  /\ angle = Angle0 /\ itemAngle = NoAngle /\ wanted = NoAngle

------------------------------------------------------------------------------
(* The policy's resize(), of a window that MirAL knows.                     *)
ModifyWindowSize(s) == windowSize' = s

(* A fault: only the last frame's size decides.                             *)
ResizeIfDifferent(s) ==
  IF running'
    THEN /\ IF s # size
              THEN sizePending' = TRUE /\ ModifyWindowSize(s) /\ crossed' = FALSE
              ELSE UNCHANGED << sizePending, windowSize, crossed >>
         /\ pendingResize' = IF running THEN pendingResize ELSE NoSize
         /\ UNCHANGED size
    ELSE pendingResize' = s /\ UNCHANGED << size, sizePending, windowSize, crossed >>

(* resize(); what was asked for while the client did not run is spent when  *)
(* it runs again.                                                           *)
Resize(s) ==
  IF running'
    THEN /\ IF s # size \/ sizePending
              THEN sizePending' = TRUE /\ ModifyWindowSize(s) /\ crossed' = FALSE
              ELSE UNCHANGED << sizePending, windowSize, crossed >>
         /\ pendingResize' = IF running THEN pendingResize ELSE NoSize
         /\ UNCHANGED size
    ELSE pendingResize' = s /\ UNCHANGED << size, sizePending, windowSize, crossed >>

(* Session::stateChanged.                                                   *)
SessionStops ==
  /\ running
  /\ running' = FALSE
  /\ UNCHANGED << live, allowResize, surfaceVars, itemVars, angleVars >>

SessionRuns ==
  /\ ~ running
  /\ running' = TRUE
  /\ IF pendingResize # NoSize THEN Resize(pendingResize) ELSE UNCHANGED surfaceVars
  /\ UNCHANGED << live, allowResize, itemVars, angleVars >>

(* updateTexture() or dropPendingBuffer() takes a frame for the texture;    *)
(* without a texture the size is not looked at.                             *)
TakeFrame(s) ==
  /\ size' = s
  /\ sizePending' = (sizePending /\ s = size)
  /\ crossed' = (crossed \/ s # windowSize)
  /\ UNCHANGED << running, live, allowResize, pendingResize, windowSize, itemVars, angleVars >>

(* handle_modify_window(), of a client that sets its own size.              *)
ModifyWindow(s) ==
  /\ running /\ allowResize
  /\ windowSize' = s
  /\ crossed' = TRUE
  /\ UNCHANGED << running, live, allowResize, size, sizePending, pendingResize, itemVars, angleVars >>

SetAllowClientResize ==
  /\ allowResize' = ~ allowResize
  /\ UNCHANGED << running, live, surfaceVars, itemVars, angleVars >>

SetLive ==
  /\ live
  /\ live' = FALSE
  /\ UNCHANGED << running, allowResize, surfaceVars, itemVars, angleVars >>

------------------------------------------------------------------------------
(* The item.                                                                *)

UpdateMirSurfaceSize ==
  IF shown' /\ live /\ itemSize # NoSize THEN Resize(itemSize)
                                         ELSE UNCHANGED surfaceVars

(* setOrientationAngle() of the surface, and so of Mir's.                   *)
SurfaceAngle(a) == angle' = a

SetSurface ==
  /\ shown' = ~ shown
  /\ UNCHANGED << running, live, allowResize, itemSize, timer, wanted >>
  /\ UpdateMirSurfaceSize
  /\ IF shown' /\ itemAngle # NoAngle
       THEN SurfaceAngle(itemAngle) /\ itemAngle' = NoAngle
       ELSE UNCHANGED << angle, itemAngle >>

(* The item's setOrientationAngle().                                        *)
SetOrientationAngle(a) ==
  /\ wanted' = a
  /\ IF shown THEN SurfaceAngle(a) /\ UNCHANGED itemAngle
              ELSE itemAngle' = a /\ UNCHANGED angle
  /\ UNCHANGED << running, live, allowResize, surfaceVars, itemVars >>

SetSurfaceSize(s) ==
  /\ itemSize # s
  /\ itemSize' = s
  /\ timer' = TRUE
  /\ UNCHANGED << running, live, allowResize, surfaceVars, shown, angleVars >>

SizeTimerFires ==
  /\ timer
  /\ timer' = FALSE
  /\ UNCHANGED << running, live, allowResize, shown, itemSize, angleVars >>
  /\ UpdateMirSurfaceSize

Next ==
  \/ SessionStops \/ SessionRuns \/ SetAllowClientResize \/ SetLive
  \/ SetSurface \/ SizeTimerFires
  \/ \E a \in Angles : SetOrientationAngle(a)
  \/ \E s \in Sizes : TakeFrame(s) \/ ModifyWindow(s) \/ SetSurfaceSize(s)

Spec == Init /\ [][Next]_vars

------------------------------------------------------------------------------
(* The window has the size that the item asks for, or will have it when the *)
(* client runs again. What a session sleeps through is not lost, nor is a   *)
(* size that was asked for before the client drew the one asked for between *)
(* them. The exception is a request that crosses a frame or a client's own: *)
(* once m_size is not the window's, and no change of it is pending, a       *)
(* request for m_size is dropped. The surface has the angle that the item   *)
(* was given, with or without the surface.                                  *)
SizeAgrees ==
  /\ shown /\ live /\ itemSize # NoSize /\ ~ timer =>
       \/ pendingResize = itemSize /\ ~ running
       \/ windowSize = itemSize /\ pendingResize = NoSize
       \/ crossed
  /\ shown /\ wanted # NoAngle => angle = wanted
==============================================================================

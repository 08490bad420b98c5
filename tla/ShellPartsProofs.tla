--------------------------- MODULE ShellPartsProofs --------------------------
(***************************************************************************)
(* Theorems about MCSurfaces and MCInput, the parts of the shell: what the *)
(* main thread, the client and Mir must agree on about a surface and its   *)
(* screens; what Mir sends of touches, keys and a pointer, and what a      *)
(* client is told of it. Each part has an inductive invariant of its own,  *)
(* of which it says nothing of the others.                                 *)
(***************************************************************************)
EXTENDS MCSurfaces, MCInput, SequenceTheorems, FiniteSetTheorems, TLAPS

------------------------------------------------------------------------------
(* Views: see SurfaceViews.                                                 *)

(* The client is exposed as the views it has say.                           *)
ExposedByViews ==
  /\ ready => exposed = (exposedViews # {})
  /\ live => exposedViews = views \cap seen
  /\ live => activeViews = views \cap consuming \cap sceneFocus

(* The surface's state is the window's once the notices are heard.          *)
LastStateHeard ==
  /\ (\A n \in DOMAIN viewNotices : viewNotices[n] \notin Views!States) => surfaceState = state
  /\ \A n \in DOMAIN viewNotices :
       viewNotices[n] \in Views!States
         /\ (\A m \in DOMAIN viewNotices : m > n => viewNotices[m] \notin Views!States) =>
       viewNotices[n] = state

(* What the surface says of being visible was true of the state that it has *)
(* and is true of Mir's surface, unless a notice will have it look again.   *)
VisibleByState ==
  stage \in { "visibility read", "listening" } /\ ~ missed
    /\ (\A n \in DOMAIN viewNotices : viewNotices[n] \notin { "ready", "hidden" }) =>
  surfaceVisible = (surfaceState # "minimized" /\ ~ hidden /\ drawn)

ViewNotices == Views!States \cup { "ready", "hidden" }

ViewsInv ==
  viewNotices \in Seq(ViewNotices) /\ ExposedByViews /\ LastStateHeard /\ VisibleByState

LEMMA ViewsInit == Views!Init => ViewsInv
<1> SUFFICES ASSUME Views!Init PROVE ViewsInv
  OBVIOUS
<1> USE DEF Views!Init
<1>1. viewNotices \in Seq(ViewNotices)
  OBVIOUS
<1>2. ExposedByViews
  BY DEF ExposedByViews
<1>3. LastStateHeard
  BY DEF LastStateHeard
<1>4. VisibleByState
  BY DEF VisibleByState
<1> QED
  BY <1>1, <1>2, <1>3, <1>4 DEF ViewsInv

(* A notice that Mir's threads post is the last one.                        *)
LEMMA ViewsPost ==
  ASSUME viewNotices \in Seq(ViewNotices), NEW notice \in ViewNotices, Views!Post(notice)
  PROVE  /\ viewNotices' \in Seq(ViewNotices)
         /\ Len(viewNotices) + 1 \in DOMAIN viewNotices'
         /\ viewNotices'[Len(viewNotices) + 1] = notice
         /\ \A n \in DOMAIN viewNotices' : n \in DOMAIN viewNotices \/ n = Len(viewNotices) + 1
         /\ \A n \in DOMAIN viewNotices :
              n \in DOMAIN viewNotices' /\ viewNotices'[n] = viewNotices[n] /\ n \in 1 .. Len(viewNotices)
BY DEF Views!Post

(* The one that the surface handles was the first.                          *)
LEMMA ViewsHandle ==
  ASSUME viewNotices \in Seq(ViewNotices), NEW notice, Views!Handle(notice)
  PROVE  /\ viewNotices' \in Seq(ViewNotices)
         /\ 1 \in DOMAIN viewNotices /\ viewNotices[1] = notice
         /\ \A n \in DOMAIN viewNotices' :
              n \in Nat /\ n + 1 \in DOMAIN viewNotices /\ viewNotices'[n] = viewNotices[n + 1]
         /\ \A n \in DOMAIN viewNotices :
              n \in Nat /\ (n = 1 \/ (n - 1 \in DOMAIN viewNotices' /\ viewNotices'[n - 1] = viewNotices[n]))
<1>1. viewNotices # << >> /\ Head(viewNotices) = notice /\ viewNotices' = Tail(viewNotices)
  BY DEF Views!Handle
<1>2. /\ viewNotices' \in Seq(ViewNotices)
      /\ 1 \in DOMAIN viewNotices /\ viewNotices[1] = notice
      /\ \A n \in DOMAIN viewNotices' :
           n \in Nat /\ n + 1 \in DOMAIN viewNotices /\ viewNotices'[n] = viewNotices[n + 1]
  BY <1>1
<1>3. ASSUME NEW n \in DOMAIN viewNotices
      PROVE  n \in Nat /\ (n = 1 \/ (n - 1 \in DOMAIN viewNotices' /\ viewNotices'[n - 1] = viewNotices[n]))
  <2>1. n \in Nat /\ n >= 1 /\ n <= Len(viewNotices) /\ Len(viewNotices) \in Nat
    OBVIOUS
  <2>2. Len(viewNotices') = Len(viewNotices) - 1 /\ DOMAIN viewNotices' = 1 .. Len(viewNotices')
    BY <1>1, <1>2
  <2>3. n # 1 => n - 1 \in DOMAIN viewNotices'
    BY <2>1, <2>2
  <2>4. n # 1 => viewNotices'[n - 1] = viewNotices[(n - 1) + 1]
    BY <1>2, <2>3
  <2> QED
    BY <2>1, <2>3, <2>4
<1> QED
  BY <1>1, <1>2, <1>3

LEMMA ViewsExposed ==
  ASSUME ExposedByViews, Views!Next
  PROVE  ExposedByViews'
<1> USE DEF ExposedByViews
<1>1. CASE UNCHANGED << live, ready, exposed, Views!viewVars, Views!itemVars >>
  BY <1>1 DEF Views!viewVars, Views!itemVars
<1>2. CASE Views!SetReady
  BY <1>2 DEF Views!SetReady, Views!Handle, Views!UpdateExposure, Views!viewVars, Views!itemVars
<1>3. CASE Views!SetLive
  BY <1>3 DEF Views!SetLive, Views!viewVars, Views!itemVars
<1>4. ASSUME NEW i \in Items, Views!RegisterView(i)
      PROVE  ExposedByViews'
  BY <1>4 DEF Views!RegisterView, Views!UnchangedButViews, Views!UpdateViewExposure,
     Views!UpdateExposure, Views!UpdateActiveFocus,
        Views!HasActiveFocus, Views!itemVars
<1>5. ASSUME NEW i \in Items, Views!UnregisterView(i)
      PROVE  ExposedByViews'
  BY <1>5 DEF Views!UnregisterView, Views!UnchangedButViews, Views!UpdateExposure, Views!itemVars
<1>6. ASSUME NEW i \in Items, Views!ItemSeen(i)
      PROVE  ExposedByViews'
  BY <1>6 DEF Views!ItemSeen, Views!UnchangedButViews, Views!UpdateViewExposure,
     Views!UpdateExposure
<1>7. ASSUME NEW i \in Items, Views!ItemFocus(i) \/ Views!SetConsumesInput(i)
      PROVE  ExposedByViews'
  BY <1>7 DEF Views!ItemFocus, Views!SetConsumesInput, Views!UnchangedButViews,
     Views!UpdateActiveFocus,
        Views!HasActiveFocus
<1> QED
  BY <1>1, <1>2, <1>3, <1>4, <1>5, <1>6, <1>7
  DEF Views!Next, Views!MirSetsHidden, Views!MirDraws, Views!ReadVisible, Views!Listen,
      Views!HiddenChanged, Views!MirChangesState, Views!UpdateState, Views!surfaceVars, Views!Handle

LEMMA ViewsStates ==
  ASSUME viewNotices \in Seq(ViewNotices), LastStateHeard, Views!Next
  PROVE  viewNotices' \in Seq(ViewNotices) /\ LastStateHeard'
<1> USE DEF LastStateHeard
<1>1. CASE UNCHANGED << viewNotices, state, surfaceState >>
  BY <1>1
<1>2. CASE UNCHANGED << state, surfaceState >> /\ (Views!Post("hidden") \/ Views!Post("ready"))
  BY <1>2, ViewsPost DEF ViewNotices, Views!States
<1>3. ASSUME NEW s \in Views!States, Views!MirChangesState(s)
      PROVE  viewNotices' \in Seq(ViewNotices) /\ LastStateHeard'
  BY <1>3, ViewsPost DEF ViewNotices, Views!MirChangesState, Views!surfaceVars
<1>4. ASSUME NEW notice, notice \notin Views!States, Views!Handle(notice), UNCHANGED surfaceState
      PROVE  viewNotices' \in Seq(ViewNotices) /\ LastStateHeard'
  <2>1. viewNotices' \in Seq(ViewNotices) /\ state' = state
    BY <1>4, ViewsHandle DEF Views!Handle
  <2>2. ASSUME NEW n \in DOMAIN viewNotices', viewNotices'[n] \in Views!States,
               \A m \in DOMAIN viewNotices' : m > n => viewNotices'[m] \notin Views!States
        PROVE  viewNotices'[n] = state'
    <3>1. n + 1 \in DOMAIN viewNotices /\ viewNotices[n + 1] = viewNotices'[n] /\ n \in Nat
      BY <1>4, ViewsHandle
    <3>2. ASSUME NEW m \in DOMAIN viewNotices, m > n + 1
          PROVE  viewNotices[m] \notin Views!States
      <4>1. m \in Nat /\ m - 1 \in DOMAIN viewNotices'
        BY <1>4, <3>1, <3>2, ViewsHandle
      <4>2. viewNotices'[m - 1] = viewNotices[m]
        BY <1>4, <4>1, ViewsHandle
      <4> QED
        BY <2>2, <3>1, <3>2, <4>1, <4>2
    <3> QED
      BY <2>1, <2>2, <3>1, <3>2
  <2>3. ASSUME \A n \in DOMAIN viewNotices' : viewNotices'[n] \notin Views!States
        PROVE  surfaceState' = state'
    BY <1>4, <2>1, <2>3, ViewsHandle
  <2> QED
    BY <2>1, <2>2, <2>3
<1>5. ASSUME NEW s \in Views!States, Views!UpdateState(s)
      PROVE  viewNotices' \in Seq(ViewNotices) /\ LastStateHeard'
  <2>1. viewNotices' \in Seq(ViewNotices) /\ state' = state /\ surfaceState' = s
    BY <1>5, ViewsHandle DEF Views!UpdateState, Views!Handle
  <2>2. Views!Handle(s)
    BY <1>5 DEF Views!UpdateState
  <2>3. ASSUME NEW n \in DOMAIN viewNotices', viewNotices'[n] \in Views!States,
               \A m \in DOMAIN viewNotices' : m > n => viewNotices'[m] \notin Views!States
        PROVE  viewNotices'[n] = state'
    <3>1. n + 1 \in DOMAIN viewNotices /\ viewNotices[n + 1] = viewNotices'[n] /\ n \in Nat
      BY <2>2, ViewsHandle
    <3>2. ASSUME NEW m \in DOMAIN viewNotices, m > n + 1
          PROVE  viewNotices[m] \notin Views!States
      <4>1. m \in Nat /\ m - 1 \in DOMAIN viewNotices'
        BY <2>2, <3>1, <3>2, ViewsHandle
      <4>2. viewNotices'[m - 1] = viewNotices[m]
        BY <2>2, <4>1, ViewsHandle
      <4> QED
        BY <2>3, <3>1, <3>2, <4>1, <4>2
    <3> QED
      BY <2>1, <2>3, <3>1, <3>2
  <2>4. ASSUME \A n \in DOMAIN viewNotices' : viewNotices'[n] \notin Views!States
        PROVE  surfaceState' = state'
    BY <2>1, <2>2, <2>4, ViewsHandle
  <2> QED
    BY <2>1, <2>3, <2>4
<1> QED
  BY <1>1, <1>2, <1>3, <1>4, <1>5
  DEF Views!Next, Views!MirSetsHidden, Views!MirDraws, Views!ReadVisible, Views!Listen, Views!SetReady,
      Views!HiddenChanged, Views!SetLive, Views!RegisterView, Views!UnregisterView, Views!ItemSeen,
      Views!ItemFocus, Views!SetConsumesInput, Views!UnchangedButViews, Views!mirVars, Views!surfaceVars, Views!States

LEMMA ViewsVisible ==
  ASSUME viewNotices \in Seq(ViewNotices), VisibleByState, Views!Next
  PROVE  VisibleByState'
<1> USE DEF VisibleByState
<1>1. CASE UNCHANGED << stage, missed, viewNotices, surfaceVisible, surfaceState, hidden, drawn >>
  BY <1>1
<1>2. CASE Views!MirSetsHidden
  <2>1. CASE stage = "listening"
    <3>1. Views!Post("hidden") /\ "hidden" \in ViewNotices
      BY <1>2, <2>1 DEF Views!MirSetsHidden, ViewNotices
    <3> QED
      BY <3>1, ViewsPost
  <2>2. CASE stage # "listening"
    BY <1>2, <2>2 DEF Views!MirSetsHidden
  <2> QED
    BY <2>1, <2>2
<1>3. CASE Views!MirDraws
  <2>1. Views!Post("ready") /\ "ready" \in ViewNotices
    BY <1>3 DEF Views!MirDraws, ViewNotices
  <2> QED
    BY <2>1, ViewsPost
<1>4. ASSUME NEW s \in Views!States, Views!MirChangesState(s)
      PROVE  VisibleByState'
  <2>1. Views!Post(s) /\ s \in ViewNotices
    BY <1>4 DEF Views!MirChangesState, ViewNotices
  <2>2. /\ stage' = stage /\ missed' = missed /\ surfaceVisible' = surfaceVisible
        /\ surfaceState' = surfaceState /\ hidden' = hidden /\ drawn' = drawn
    BY <1>4 DEF Views!MirChangesState, Views!surfaceVars
  <2>3. ASSUME \A n \in DOMAIN viewNotices' : viewNotices'[n] \notin { "ready", "hidden" },
               NEW n \in DOMAIN viewNotices
        PROVE  viewNotices[n] \notin { "ready", "hidden" }
    <3>1. n \in DOMAIN viewNotices' /\ viewNotices'[n] = viewNotices[n]
      BY <2>1, ViewsPost
    <3> QED
      BY <2>3, <3>1, Zenon
  <2> QED
    BY <2>2, <2>3, Zenon
<1>5. CASE Views!ReadVisible
  BY <1>5 DEF Views!ReadVisible, Views!mirVars
<1>6. CASE Views!Listen
  BY <1>6 DEF Views!Listen, Views!mirVars
<1>7. ASSUME NEW notice, Views!Handle(notice), Views!UpdateVisible
      PROVE  VisibleByState'
  BY <1>7 DEF Views!Handle, Views!UpdateVisible
<1>8. ASSUME NEW s \in Views!States, Views!UpdateState(s), s = surfaceState
      PROVE  VisibleByState'
  <2>1. Views!Handle(s) /\ s \notin { "ready", "hidden" }
    BY <1>8 DEF Views!UpdateState, Views!States
  <2>2. /\ stage' = stage /\ missed' = missed /\ surfaceVisible' = surfaceVisible
        /\ surfaceState' = surfaceState /\ hidden' = hidden /\ drawn' = drawn
    BY <1>8 DEF Views!UpdateState, Views!Handle
  <2>3. ASSUME \A n \in DOMAIN viewNotices' : viewNotices'[n] \notin { "ready", "hidden" },
               NEW n \in DOMAIN viewNotices
        PROVE  viewNotices[n] \notin { "ready", "hidden" }
    <3>1. n \in Nat /\ (n = 1 \/ n - 1 \in DOMAIN viewNotices')
      BY <2>1, ViewsHandle
    <3>2. n # 1 => viewNotices'[n - 1] = viewNotices[n]
      BY <2>1, ViewsHandle
    <3>3. n = 1 => viewNotices[n] = s
      BY <2>1, ViewsHandle
    <3>4. CASE n = 1
      BY <2>1, <3>3, <3>4
    <3>5. ASSUME n # 1
          PROVE  viewNotices'[n - 1] \notin { "ready", "hidden" }
      BY <2>3, <3>1, <3>5, Zenon
    <3> QED
      BY <3>2, <3>4, <3>5
  <2> QED
    BY <2>2, <2>3, Zenon
<1> QED
  BY <1>1, <1>2, <1>3, <1>4, <1>5, <1>6, <1>7, <1>8
  DEF Views!Next, Views!SetReady, Views!HiddenChanged, Views!UpdateState, Views!SetLive,
      Views!RegisterView, Views!UnregisterView, Views!ItemSeen, Views!ItemFocus,
      Views!SetConsumesInput, Views!UnchangedButViews, Views!mirVars

LEMMA ViewsKept ==
  ASSUME ViewsInv, [Views!Next]_viewVars
  PROVE  ViewsInv'
<1>1. CASE Views!Next
  BY <1>1, ViewsExposed, ViewsStates, ViewsVisible DEF ViewsInv
<1>2. CASE UNCHANGED viewVars
  BY <1>2 DEF ViewsInv, ExposedByViews, LastStateHeard, VisibleByState, viewVars, Views!viewVars,
     Views!mirVars, Views!surfaceVars, Views!itemVars
<1> QED
  BY <1>1, <1>2

LEMMA ViewsInvAgrees == ViewsInv => Views!ViewsAgree
<1> SUFFICES ASSUME ViewsInv PROVE Views!ViewsAgree
  OBVIOUS
<1>1. Views!ClientAgrees
  BY DEF ViewsInv, ExposedByViews, Views!ClientAgrees
<1>2. ASSUME stage = "listening", viewNotices = << >>
      PROVE  /\ surfaceState = state
             /\ ~ missed => surfaceVisible = (surfaceState # "minimized" /\ ~ hidden /\ drawn)
  BY <1>2 DEF ViewsInv, LastStateHeard, VisibleByState
<1> QED
  BY <1>1, <1>2, Zenon DEF Views!ViewsAgree, Views!ShellAgrees

(* For any items, and any number of notices under way, a client that draws  *)
(* is told that it is exposed, and its surface has it that it is focused,   *)
(* if and only if one of its views is; and the shell has it that a surface  *)
(* is visible when it is, once all notices are heard, but for one that Mir  *)
(* hid or showed before the surface listened: see SurfaceViews.             *)
THEOREM ViewsTold == SurfacesSpec => []ViewsAgree
<1> DEFINE Inv == part = "views" => ViewsInv
<1>1. SurfacesInit => Inv
  BY ViewsInit DEF SurfacesInit
<1>2. Inv /\ [UNCHANGED part /\ SurfacesNext]_<< part, surfacesVars >> => Inv'
  BY ViewsKept DEF SurfacesNext, surfacesVars
<1>3. Inv => ViewsAgree
  BY ViewsInvAgrees DEF ViewsAgree
<1> QED
  BY <1>1, <1>2, <1>3, PTL DEF SurfacesSpec

------------------------------------------------------------------------------
(* Size: see SurfaceSize.                                                   *)

(* A request that waits does so for a client that does not run; and the     *)
(* window has the last frame's size once no change of it is pending.        *)
ResizeKept ==
  /\ running => pendingResize = NoSize
  /\ ~ sizePending => windowSize = size \/ crossed
  /\ itemShows /\ resizable /\ itemSize # NoSize /\ ~ timer =>
       /\ pendingResize \in { itemSize, NoSize }
       /\ \/ pendingResize = itemSize /\ ~ running
          \/ windowSize = itemSize /\ pendingResize = NoSize
          \/ crossed

(* The item holds the angle that it was given last, or its surface has it.  *)
AngleKept ==
  \/ wanted = NoAngle /\ itemAngle = NoAngle
  \/ wanted \in Angles /\ itemAngle = wanted /\ ~ itemShows
  \/ wanted \in Angles /\ itemAngle = NoAngle /\ angle = wanted

SizeInv == ResizeKept /\ AngleKept

LEMMA SizeInit == Size!Init => SizeInv
BY DEF Size!Init, SizeInv, ResizeKept, AngleKept

(* A request of a surface's item leaves what the invariant says of it.      *)
LEMMA SizeResize ==
  ASSUME ResizeKept, NEW s, s # NoSize, Size!Resize(s), ~ running => pendingResize = s \/ ~ running'
  PROVE  /\ running' => pendingResize' = NoSize
         /\ ~ sizePending' => windowSize' = size' \/ crossed'
         /\ pendingResize' \in { s, NoSize }
         /\ \/ pendingResize' = s /\ ~ running'
            \/ windowSize' = s /\ pendingResize' = NoSize
            \/ crossed'
<1>1. CASE running' /\ (s # size \/ sizePending)
  BY <1>1 DEF ResizeKept, Size!Resize, Size!ModifyWindowSize
<1>2. CASE running' /\ s = size /\ ~ sizePending
  BY <1>2 DEF ResizeKept, Size!Resize
<1>3. CASE ~ running'
  BY <1>3 DEF ResizeKept, Size!Resize
<1> QED
  BY <1>1, <1>2, <1>3

LEMMA SizeResizeKept ==
  ASSUME ResizeKept, Size!Next
  PROVE  ResizeKept'
<1>1. CASE Size!SessionStops
  BY <1>1 DEF Size!SessionStops, ResizeKept, Size!surfaceVars, Size!itemVars
<1>2. CASE Size!SessionRuns
  <2>1. CASE pendingResize # NoSize
    BY <1>2, <2>1, SizeResize DEF Size!SessionRuns, ResizeKept, Size!itemVars
  <2>2. CASE pendingResize = NoSize
    BY <1>2, <2>2 DEF Size!SessionRuns, ResizeKept, Size!surfaceVars, Size!itemVars
  <2> QED
    BY <2>1, <2>2
<1>3. ASSUME NEW s \in Sizes, Size!TakeFrame(s)
      PROVE  ResizeKept'
  BY <1>3 DEF Size!TakeFrame, ResizeKept, Size!itemVars
<1>4. ASSUME NEW s \in Sizes, Size!ModifyWindow(s)
      PROVE  ResizeKept'
  BY <1>4 DEF Size!ModifyWindow, ResizeKept, Size!itemVars
<1>5. CASE Size!SetAllowClientResize \/ Size!SetLive \/ (\E a \in Angles : Size!SetOrientationAngle(a))
  BY <1>5 DEF Size!SetAllowClientResize, Size!SetLive, Size!SetOrientationAngle, ResizeKept,
     Size!surfaceVars, Size!itemVars
<1>6. ASSUME NEW s \in Sizes, Size!SetSurfaceSize(s)
      PROVE  ResizeKept'
  BY <1>6 DEF Size!SetSurfaceSize, ResizeKept, Size!surfaceVars
<1>7. CASE Size!SetSurface \/ Size!SizeTimerFires
  <2>1. UNCHANGED << running, resizable, itemSize >> /\ Size!UpdateMirSurfaceSize
    BY <1>7 DEF Size!SetSurface, Size!SizeTimerFires
  <2>2. CASE itemShows' /\ resizable /\ itemSize # NoSize
    BY <2>1, <2>2, SizeResize DEF Size!UpdateMirSurfaceSize, ResizeKept
  <2>3. CASE ~ (itemShows' /\ resizable /\ itemSize # NoSize)
    BY <2>1, <2>3 DEF Size!UpdateMirSurfaceSize, ResizeKept, Size!surfaceVars
  <2> QED
    BY <2>2, <2>3
<1> QED
  BY <1>1, <1>2, <1>3, <1>4, <1>5, <1>6, <1>7 DEF Size!Next

LEMMA SizeAngleKept ==
  ASSUME Size!SizesAssumption, Size!AnglesAssumption, AngleKept, Size!Next
  PROVE  AngleKept'
<1> USE DEF AngleKept, Size!AnglesAssumption
<1>1. CASE UNCHANGED << itemShows, Size!angleVars >>
  BY <1>1 DEF Size!angleVars
<1>2. CASE Size!SetSurface
  BY <1>2 DEF Size!SetSurface, Size!SurfaceAngle
<1>3. ASSUME NEW a \in Angles, Size!SetOrientationAngle(a)
      PROVE  AngleKept'
  BY <1>3 DEF Size!SetOrientationAngle, Size!SurfaceAngle, Size!itemVars
<1> QED
  BY <1>1, <1>2, <1>3
  DEF Size!Next, Size!SessionStops, Size!SessionRuns, Size!SetAllowClientResize, Size!SetLive, Size!SizeTimerFires, Size!TakeFrame,
      Size!ModifyWindow, Size!SetSurfaceSize, Size!itemVars

LEMMA SizeKept ==
  ASSUME Size!SizesAssumption, Size!AnglesAssumption, SizeInv, [Size!Next]_sizeVars
  PROVE  SizeInv'
<1>1. CASE Size!Next
  BY <1>1, SizeResizeKept, SizeAngleKept DEF SizeInv
<1>2. CASE UNCHANGED sizeVars
  BY <1>2 DEF SizeInv, ResizeKept, AngleKept, sizeVars, Size!surfaceVars, Size!itemVars,
     Size!angleVars
<1> QED
  BY <1>1, <1>2

LEMMA SizeInvAgrees ==
  ASSUME Size!AnglesAssumption, SizeInv
  PROVE  Size!SizeAgrees
BY DEF Size!AnglesAssumption, SizeInv, ResizeKept, AngleKept, Size!SizeAgrees

------------------------------------------------------------------------------
(* Places: see SurfacePosition.                                             *)

(* The notice that window w has moved; any in the queue; the place where w  *)
(* is, or is told to be going; a move of it that is not told of yet, and    *)
(* one that is told of and not made.                                        *)
IsMoved(n, w) == moves[n][1] = w /\ moves[n][2] # Position!Added
MovedIsQueued(w) == \E n \in DOMAIN moves : IsMoved(n, w)
Going(w) == IF moving # None /\ moving.told /\ moving.window = w THEN moving.to ELSE topLeft[w]
Untold(w) == moving # None /\ ~ moving.told /\ moving.window = w
Early(w) == moving # None /\ moving.told /\ moving.window = w /\ topLeft[w] # moving.to

Places == Position!Pixels \cup { Position!Added }

PositionTypes ==
  /\ topLeft \in [ Position!Members -> Position!Pixels ]
  /\ moving \in Position!Moves \cup { None }
  /\ moves \in Seq(Position!Members \X Places)
  /\ moveRequest # None => moveRequest[1] \in Position!Members /\ moveRequest[2] \in Position!Pixels
  /\ DOMAIN position \subseteq Position!Members

(* A surface that is yet to be made is so before any other moves.           *)
AddedFirst ==
  /\ \A w \in Position!Members \ DOMAIN position : \E n \in DOMAIN moves : moves[n] = << w, Position!Added >>
  /\ \A m, n \in DOMAIN moves : m < n /\ moves[n][2] = Position!Added => moves[m][2] = Position!Added

(* The move under way was the last one that was told of.                    *)
MovingIsLast ==
  moving # None /\ moving.told /\ moves # << >> =>
    moves[Len(moves)] = << moving.window, moving.to >>

(* The last notice of a window says where it is, or is going.               *)
LastIsRight ==
  \A w \in Position!Members : \A n \in DOMAIN moves :
    IsMoved(n, w) /\ (\A m \in DOMAIN moves : m > n => ~ IsMoved(m, w)) =>
      moves[n][2] = Going(w) \/ Untold(w)

(* A surface of which, and of whose parent, no notice is under way is where *)
(* its window is or is going, and its parent's window is not going anywhere.*)
AskedAreRight ==
  \A w \in DOMAIN position \ unasked :
    ~ MovedIsQueued(w) /\ ~ MovedIsQueued(w - 1) =>
      \/ position[w] = Going(w) - Position!Parent(w) /\ ~ Early(w - 1)
      \/ Untold(w) \/ Untold(w - 1)

PositionInv ==
  PositionTypes /\ AddedFirst /\ MovingIsLast /\ LastIsRight /\ AskedAreRight

USE DEF Position!Added
LEMMA PositionInit == Position!DepthAssumption /\ Position!Init => PositionInv
<1> SUFFICES ASSUME Position!DepthAssumption, Position!Init PROVE PositionInv
  OBVIOUS
<1>1. PositionTypes
  BY DEF Position!DepthAssumption, Position!Init, PositionTypes, Position!Members, Places
<1>2. AddedFirst
  BY DEF Position!DepthAssumption, Position!Init, AddedFirst, Position!Members
<1>3. MovingIsLast
  BY DEF Position!Init, MovingIsLast
<1>4. LastIsRight
  BY DEF Position!Init, LastIsRight, IsMoved
<1>5. AskedAreRight
  BY DEF Position!Init, AskedAreRight
<1> QED
  BY <1>1, <1>2, <1>3, <1>4, <1>5 DEF PositionInv

(* The notice that is heard was the first one.                              *)
LEMMA PositionTail ==
  ASSUME PositionTypes, moves # << >>, moves' = Tail(moves)
  PROVE  /\ moves' \in Seq(Position!Members \X Places)
         /\ 1 \in DOMAIN moves /\ moves[1] = Head(moves)
         /\ moves[1][1] \in Position!Members /\ moves[1][2] \in Places
         /\ \A n \in DOMAIN moves' :
              n \in Nat /\ n + 1 \in DOMAIN moves /\ moves'[n] = moves[n + 1]
         /\ \A n \in DOMAIN moves :
              n \in Nat /\ (n = 1 \/ (n - 1 \in DOMAIN moves' /\ moves'[n - 1] = moves[n]))
         /\ moves' # << >> => moves'[Len(moves')] = moves[Len(moves)]
<1> USE DEF PositionTypes
<1>1. /\ moves' \in Seq(Position!Members \X Places)
      /\ 1 \in DOMAIN moves /\ moves[1] = Head(moves)
      /\ \A n \in DOMAIN moves' :
           n \in Nat /\ n + 1 \in DOMAIN moves /\ moves'[n] = moves[n + 1]
  OBVIOUS
<1>2. moves[1][1] \in Position!Members /\ moves[1][2] \in Places
  OBVIOUS
<1>3. ASSUME NEW n \in DOMAIN moves
      PROVE  n \in Nat /\ (n = 1 \/ (n - 1 \in DOMAIN moves' /\ moves'[n - 1] = moves[n]))
  <2>1. n \in Nat /\ n >= 1 /\ n <= Len(moves) /\ Len(moves) \in Nat
    OBVIOUS
  <2>2. Len(moves') = Len(moves) - 1 /\ DOMAIN moves' = 1 .. Len(moves')
    BY <1>1
  <2>3. n # 1 => n - 1 \in DOMAIN moves'
    BY <2>1, <2>2
  <2>4. n # 1 => moves'[n - 1] = moves[(n - 1) + 1]
    BY <1>1, <2>3
  <2> QED
    BY <2>1, <2>3, <2>4
<1>4. moves' # << >> => moves'[Len(moves')] = moves[Len(moves)]
  BY <1>1
<1> QED
  BY <1>1, <1>2, <1>3, <1>4

(* A window that starts or stops to move is where it is said to be.         *)
LEMMA PositionStarts ==
  ASSUME AddedFirst, LastIsRight, AskedAreRight, UNCHANGED << topLeft, moves, position, unasked >>,
         moving # None => moving.told /\ topLeft[moving.window] = moving.to,
         moving' # None => ~ moving'.told
  PROVE  AddedFirst' /\ MovingIsLast' /\ LastIsRight' /\ AskedAreRight'
<1>1. \A w : Going(w) = topLeft[w] /\ Going(w)' = topLeft[w] /\ ~ Untold(w) /\ ~ Early(w)'
  BY DEF Going, Untold, Early
<1>2. \A w : MovedIsQueued(w)' = MovedIsQueued(w) /\ Position!Parent(w)' = Position!Parent(w)
  BY DEF MovedIsQueued, IsMoved, Position!Parent
<1>3. LastIsRight'
  BY <1>1 DEF LastIsRight, IsMoved
<1>4. AskedAreRight'
  BY <1>1, <1>2 DEF AskedAreRight
<1> QED
  BY <1>3, <1>4 DEF AddedFirst, MovingIsLast

LEMMA PositionAdvised ==
  ASSUME Position!NoneAssumption, PositionInv, Position!AdviseMoveTo
  PROVE  AddedFirst' /\ MovingIsLast' /\ LastIsRight' /\ AskedAreRight'
<1>0. moves \in Seq(Position!Members \X Places) /\ moving.window \in Position!Members
  BY DEF PositionInv, PositionTypes, Position!AdviseMoveTo, Position!Moves
<1>u. PICK u \in Position!Members : u = moving.window
  BY <1>0
<1>n. PICK final \in Nat : final = Len(moves) + 1
  BY <1>0
<1>1. /\ moving # None /\ ~ moving.told /\ moving \in Position!Moves /\ u = moving.window
      /\ moving.to \in Places /\ moving.to # Position!Added
      /\ moves \in Seq(Position!Members \X Places)
      /\ UNCHANGED << topLeft, position, unasked >>
  BY <1>u DEF PositionInv, PositionTypes, Position!AdviseMoveTo, Places, Position!Pixels,
     Position!Moves
<1>2. moving' # None /\ moving'.told /\ moving'.window = u /\ moving'.to = moving.to
  BY <1>1 DEF Position!AdviseMoveTo, Position!NoneAssumption, Position!Moves
<1>3. /\ moves' = Append(moves, << u, moving.to >>)
      /\ final \in DOMAIN moves' /\ moves'[final] = << u, moving.to >> /\ Len(moves') = final
      /\ \A n \in DOMAIN moves' : n \in Nat /\ (n = final \/ (n \in DOMAIN moves /\ n < final))
      /\ \A n \in DOMAIN moves : n \in DOMAIN moves' /\ moves'[n] = moves[n] /\ n < final
  BY <1>1, <1>n DEF Position!AdviseMoveTo
<1>4. \A w : Going(w) = topLeft[w] /\ (w # u => Going(w)' = topLeft[w] /\ ~ Untold(w) /\ ~ Early(w)')
  BY <1>1, <1>2 DEF Going, Untold, Early
<1>5. Going(u)' = moving.to
  BY <1>1, <1>2 DEF Going
<1>6. AddedFirst'
  <2>1. ASSUME NEW w \in Position!Members \ DOMAIN position'
        PROVE  \E n \in DOMAIN moves' : moves'[n] = << w, Position!Added >>
    <3>1. \E n \in DOMAIN moves : moves[n] = << w, Position!Added >>
      BY <1>1 DEF PositionInv, AddedFirst
    <3> QED
      BY <1>3, <3>1
  <2>2. ASSUME NEW m \in DOMAIN moves', NEW n \in DOMAIN moves', m < n, moves'[n][2] = Position!Added
        PROVE  moves'[m][2] = Position!Added
    <3>1. n # final
      BY <1>1, <1>3, <2>2
    <3>2. n \in DOMAIN moves /\ n < final /\ m \in Nat /\ m # final
      BY <1>3, <3>1, <2>2
    <3>3. m \in DOMAIN moves
      BY <1>3, <3>2
    <3> QED
      BY <1>3, <2>2, <3>2, <3>3 DEF PositionInv, AddedFirst
  <2> QED
    BY <2>1, <2>2 DEF AddedFirst
<1>7. MovingIsLast'
  BY <1>2, <1>3 DEF MovingIsLast
<1>8. LastIsRight'
  <2> SUFFICES ASSUME NEW w \in Position!Members, NEW n \in DOMAIN moves', IsMoved(n, w)',
                      \A m \in DOMAIN moves' : m > n => ~ IsMoved(m, w)'
               PROVE  moves'[n][2] = Going(w)' \/ Untold(w)'
    BY DEF LastIsRight
  <2>1. CASE w = u
    <3>1. IsMoved(final, u)'
      BY <1>1, <1>3 DEF IsMoved
    <3>2. n = final
      BY <1>3, <2>1, <3>1
    <3> QED
      BY <1>3, <1>5, <2>1, <3>2
  <2>2. CASE w # u
    <3>1. n \in DOMAIN moves /\ IsMoved(n, w)
      BY <1>3, <2>2 DEF IsMoved
    <3>2. \A m \in DOMAIN moves : m > n => ~ IsMoved(m, w)
      BY <1>3 DEF IsMoved
    <3> QED
      BY <1>3, <1>4, <2>2, <3>1, <3>2 DEF PositionInv, LastIsRight
  <2> QED
    BY <2>1, <2>2
<1>9. AskedAreRight'
  <2> SUFFICES ASSUME NEW w \in DOMAIN position' \ unasked',
                      ~ MovedIsQueued(w)', ~ MovedIsQueued(w - 1)'
               PROVE  position'[w] = Going(w)' - Position!Parent(w)' /\ ~ Early(w - 1)'
    BY DEF AskedAreRight
  <2>1. MovedIsQueued(u)'
    BY <1>1, <1>3 DEF MovedIsQueued, IsMoved
  <2>2. w # u /\ w - 1 # u
    BY <2>1
  <2>3. ~ MovedIsQueued(w) /\ ~ MovedIsQueued(w - 1)
    BY <1>3 DEF MovedIsQueued, IsMoved
  <2>4. position[w] = topLeft[w] - Position!Parent(w)
    BY <1>1, <1>4, <2>2, <2>3 DEF PositionInv, AskedAreRight
  <2> QED
    BY <1>1, <1>4, <2>2, <2>4 DEF Position!Parent
<1> QED
  BY <1>6, <1>7, <1>8, <1>9

(* What the window's move makes of it was promised when it was told of, or  *)
(* is yet to be told of.                                                    *)
LEMMA PositionMoved ==
  ASSUME PositionInv, Position!MoveTo
  PROVE  AddedFirst' /\ MovingIsLast' /\ LastIsRight' /\ AskedAreRight'
<1>u. PICK u \in Position!Members : u = moving.window
  BY DEF PositionInv, PositionTypes, Position!MoveTo, Position!Moves
<1>1. /\ moving # None /\ topLeft[u] # moving.to /\ topLeft \in [ Position!Members -> Position!Pixels ]
      /\ topLeft' = [ topLeft EXCEPT ![u] = moving.to ]
      /\ UNCHANGED << moving, moves, position, unasked >>
  BY <1>u DEF PositionInv, PositionTypes, Position!MoveTo
<1>2. \A w : MovedIsQueued(w)' = MovedIsQueued(w) /\ Untold(w)' = Untold(w) /\ ~ Early(w)'
  BY <1>1, <1>u DEF MovedIsQueued, IsMoved, Untold, Early
<1>3. ASSUME NEW w \in Position!Members, ~ Untold(w)
      PROVE  Going(w)' = Going(w)
  BY <1>1, <1>3, <1>u DEF Going, Untold
<1>4. LastIsRight'
  BY <1>1, <1>2, <1>3 DEF PositionInv, LastIsRight, IsMoved
<1>5. AskedAreRight'
  <2> SUFFICES ASSUME NEW w \in DOMAIN position' \ unasked', ~ MovedIsQueued(w)', ~ MovedIsQueued(w - 1)',
                      ~ Untold(w)', ~ Untold(w - 1)'
               PROVE  position'[w] = Going(w)' - Position!Parent(w)'
    BY <1>2 DEF AskedAreRight
  <2>1. w \in Position!Members /\ w \in DOMAIN position \ unasked
    BY <1>1 DEF PositionInv, PositionTypes
  <2>2. position[w] = Going(w) - Position!Parent(w) /\ ~ Early(w - 1)
    BY <1>1, <1>2, <2>1 DEF PositionInv, AskedAreRight
  <2>3. w - 1 # u
    BY <1>1, <1>2, <1>u, <2>2 DEF Early, Untold
  <2>4. Position!Parent(w)' = Position!Parent(w)
    BY <1>1, <2>1, <2>3 DEF Position!Parent, Position!Members
  <2> QED
    BY <1>1, <1>2, <1>3, <2>1, <2>2, <2>4
<1> QED
  BY <1>1, <1>4, <1>5 DEF PositionInv, AddedFirst, MovingIsLast

(* What is said of the notices stays true of those that are left.           *)
LEMMA PositionHeard ==
  ASSUME PositionInv, moves # << >>, moves' = Tail(moves), UNCHANGED << topLeft, moving >>
  PROVE  /\ MovingIsLast' /\ LastIsRight'
         /\ \A m, n \in DOMAIN moves' : m < n /\ moves'[n][2] = Position!Added => moves'[m][2] = Position!Added
         /\ \A w : MovedIsQueued(w) => MovedIsQueued(w)' \/ (moves[1][1] = w /\ moves[1][2] # Position!Added)
<1>1. PositionTypes
  BY DEF PositionInv
<1>2. MovingIsLast'
  BY <1>1, PositionTail DEF PositionInv, MovingIsLast
<1>3. LastIsRight'
  <2> SUFFICES ASSUME NEW w \in Position!Members, NEW n \in DOMAIN moves', IsMoved(n, w)',
                      \A m \in DOMAIN moves' : m > n => ~ IsMoved(m, w)'
               PROVE  moves'[n][2] = Going(w)' \/ Untold(w)'
    BY DEF LastIsRight
  <2>1. n \in Nat /\ n + 1 \in DOMAIN moves /\ moves'[n] = moves[n + 1]
    BY <1>1, PositionTail
  <2>2. IsMoved(n + 1, w)
    BY <2>1 DEF IsMoved
  <2>3. ASSUME NEW m \in DOMAIN moves, m > n + 1
        PROVE  ~ IsMoved(m, w)
    <3>1. m \in Nat /\ m - 1 \in DOMAIN moves' /\ moves'[m - 1] = moves[m]
      BY <1>1, <2>1, <2>3, PositionTail
    <3> QED
      BY <2>1, <2>3, <3>1 DEF IsMoved
  <2>4. Going(w)' = Going(w) /\ Untold(w)' = Untold(w)
    BY DEF Going, Untold
  <2> QED
    BY <2>1, <2>2, <2>3, <2>4 DEF PositionInv, LastIsRight
<1>4. ASSUME NEW m \in DOMAIN moves', NEW n \in DOMAIN moves', m < n, moves'[n][2] = Position!Added
      PROVE  moves'[m][2] = Position!Added
  <2>1. m \in Nat /\ m + 1 \in DOMAIN moves /\ moves'[m] = moves[m + 1]
    BY <1>1, PositionTail
  <2>2. n \in Nat /\ n + 1 \in DOMAIN moves /\ moves'[n] = moves[n + 1]
    BY <1>1, PositionTail
  <2> QED
    BY <1>4, <2>1, <2>2 DEF PositionInv, AddedFirst
<1>5. ASSUME NEW w, MovedIsQueued(w)
      PROVE  MovedIsQueued(w)' \/ (moves[1][1] = w /\ moves[1][2] # Position!Added)
  <2>1. PICK n \in DOMAIN moves : IsMoved(n, w)
    BY <1>5 DEF MovedIsQueued
  <2>2. n = 1 \/ (n - 1 \in DOMAIN moves' /\ moves'[n - 1] = moves[n])
    BY <1>1, PositionTail
  <2> QED
    BY <2>1, <2>2 DEF MovedIsQueued, IsMoved
<1> QED
  BY <1>2, <1>3, <1>4, <1>5

(* Of a move that is told of, the notice is under way, unless that is the   *)
(* one that is heard.                                                       *)
LEMMA PositionUnderWay ==
  ASSUME Position!DepthAssumption, PositionInv, moves # << >>, moves' = Tail(moves), UNCHANGED << topLeft, moving >>,
         moving # None, moving.told, moves[1][2] = Position!Added \/ moving.window # moves[1][1]
  PROVE  MovedIsQueued(moving.window)'
<1>1. PositionTypes /\ moving.to # Position!Added
  BY DEF Position!DepthAssumption, PositionInv, PositionTypes, Position!Moves, Position!Pixels
<1>2. moves[Len(moves)] = << moving.window, moving.to >>
  BY DEF PositionInv, MovingIsLast
<1>3. Len(moves) \in DOMAIN moves
  BY <1>1 DEF PositionTypes
<1>4. Len(moves) # 1
  BY <1>1, <1>2
<1>5. PICK n \in DOMAIN moves' : moves'[n] = << moving.window, moving.to >>
  BY <1>1, <1>2, <1>3, <1>4, PositionTail
<1>6. moves'[n][1] = moving'.window /\ moves'[n][2] # Position!Added
  BY <1>1, <1>5
<1> QED
  BY <1>5, <1>6, Zenon DEF MovedIsQueued, IsMoved

LEMMA PositionAdded ==
  ASSUME Position!DepthAssumption, PositionInv, moves # << >>, moves' = Tail(moves),
         UNCHANGED << topLeft, moving >>,
         NEW w, moves[1] = << w, Position!Added >>, Position!OnWindowAdded(w)
  PROVE  AddedFirst' /\ MovingIsLast' /\ LastIsRight' /\ AskedAreRight'
<1>1. PositionTypes /\ w \in Position!Members
  BY PositionTail DEF PositionInv
<1>2. AddedFirst'
  <2>1. ASSUME NEW v \in Position!Members \ DOMAIN position'
        PROVE  \E n \in DOMAIN moves' : moves'[n] = << v, Position!Added >>
    <3>1. v # w /\ v \notin DOMAIN position
      BY DEF Position!OnWindowAdded
    <3>2. PICK n \in DOMAIN moves : moves[n] = << v, Position!Added >>
      BY <3>1 DEF PositionInv, AddedFirst
    <3>3. n - 1 \in DOMAIN moves' /\ moves'[n - 1] = moves[n]
      BY <1>1, <3>1, <3>2, PositionTail
    <3> QED
      BY <3>2, <3>3
  <2> QED
    BY <2>1, PositionHeard DEF AddedFirst
<1>3. AskedAreRight'
  <2> SUFFICES ASSUME NEW v \in DOMAIN position' \ unasked', ~ MovedIsQueued(v)', ~ MovedIsQueued(v - 1)',
                      ~ Untold(v)', ~ Untold(v - 1)'
               PROVE  position'[v] = Going(v)' - Position!Parent(v)' /\ ~ Early(v - 1)'
    BY DEF AskedAreRight
  <2>1. \A u : Going(u)' = Going(u) /\ Untold(u)' = Untold(u) /\ Early(u)' = Early(u) /\ Position!Parent(u)' = Position!Parent(u)
    BY DEF Going, Untold, Early, Position!Parent
  <2>2. CASE v = w
    <3>1. moving # None /\ moving.told => moving.window # w /\ moving.window # w - 1
      BY <2>2, PositionUnderWay
    <3> QED
      BY <2>1, <2>2, <3>1 DEF Position!OnWindowAdded, Going, Early, Position!Parent,
         Position!ConvertDisplayToLocalCoords
  <2>3. CASE v # w
    <3>1. v \in DOMAIN position \ unasked /\ position'[v] = position[v]
      BY <2>3 DEF Position!OnWindowAdded
    <3>2. ~ MovedIsQueued(v) /\ ~ MovedIsQueued(v - 1)
      BY PositionHeard
    <3> QED
      BY <2>1, <3>1, <3>2 DEF PositionInv, AskedAreRight
  <2> QED
    BY <2>2, <2>3
<1> QED
  BY <1>2, <1>3, PositionHeard

LEMMA PositionSet ==
  ASSUME Position!DepthAssumption, PositionInv, moves # << >>, moves' = Tail(moves),
         UNCHANGED << topLeft, moving >>,
         NEW w, NEW at, at # Position!Added, moves[1] = << w, at >>, Position!SetPosition(w, at)
  PROVE  AddedFirst' /\ MovingIsLast' /\ LastIsRight' /\ AskedAreRight'
<1>1. PositionTypes /\ w \in Position!Members
  BY PositionTail DEF PositionInv
<1>2. DOMAIN position = Position!Members
  <2> SUFFICES ASSUME NEW v \in Position!Members \ DOMAIN position PROVE FALSE
    BY <1>1 DEF PositionTypes
  <2>1. PICK n \in DOMAIN moves : moves[n] = << v, Position!Added >>
    BY DEF PositionInv, AddedFirst
  <2>2. n \in Nat /\ n >= 1 /\ 1 \in DOMAIN moves
    BY <1>1 DEF PositionTypes
  <2>3. n > 1
    BY <2>1, <2>2
  <2> QED
    BY <2>1, <2>2, <2>3 DEF PositionInv, AddedFirst
<1>3. /\ DOMAIN position' = Position!Members
      /\ \A v \in Position!Members : position'[v] = IF v \in Position!Asked(w, at) THEN Position!Heard(w, at, v) ELSE position[v]
  BY <1>2 DEF Position!SetPosition
<1>4. AddedFirst'
  BY <1>3, PositionHeard DEF AddedFirst
<1>5. ASSUME NEW v \in Position!Members \ unasked'
      PROVE  /\ ~ Early(v - 1)
             /\ v = w + 1 => Position!Heard(w, at, w) # position[w]
             /\ v \notin unasked \/ v \in Position!Asked(w, at)
  <2>1. v = w + 1 => Position!Heard(w, at, w) # position[w]
    BY <1>5 DEF Position!SetPosition
  <2>2. v \notin unasked \/ v \in Position!Asked(w, at)
    BY <1>5 DEF Position!SetPosition
  <2>3. ASSUME Early(v - 1) PROVE FALSE
    <3>1. moving # None /\ topLeft[moving.window] # moving.to /\ v = moving.window + 1
      BY <1>1, <2>3 DEF Early, PositionTypes, Position!Moves, Position!Members
    <3> QED
      BY <1>5, <3>1 DEF Position!SetPosition
  <2> QED
    BY <2>1, <2>2, <2>3
<1>6. w \in Position!Asked(w, at)
  BY <1>1, <1>2 DEF Position!Asked, Position!Members, Position!DepthAssumption
<1>7. ASSUME NEW v \in Position!Members, v = w + 1, Position!Heard(w, at, w) # position[w]
      PROVE  v \in Position!Asked(w, at)
  BY <1>1, <1>2, <1>7 DEF Position!Asked, Position!Members, Position!DepthAssumption
<1>8. AskedAreRight'
  <2> SUFFICES ASSUME NEW v \in DOMAIN position' \ unasked', ~ MovedIsQueued(v)', ~ MovedIsQueued(v - 1)',
                      ~ Untold(v)', ~ Untold(v - 1)'
               PROVE  position'[v] = Going(v)' - Position!Parent(v)' /\ ~ Early(v - 1)'
    BY DEF AskedAreRight
  <2>1. \A u : Going(u)' = Going(u) /\ Untold(u)' = Untold(u) /\ Early(u)' = Early(u) /\ Position!Parent(u)' = Position!Parent(u)
    BY DEF Going, Untold, Early, Position!Parent
  <2>2. v \in Position!Members \ unasked' /\ ~ Early(v - 1)'
    BY <1>3, <1>5, <2>1
  <2>3. CASE v = w
    <3>1. position'[w] = at - Position!Parent(w)
      BY <1>1, <1>3, <1>6 DEF Position!Heard, Position!ConvertDisplayToLocalCoords
    <3>2. IsMoved(1, w) /\ 1 \in DOMAIN moves /\ moves[1][2] = at
      BY <1>1, PositionTail DEF IsMoved
    <3>3. ASSUME NEW m \in DOMAIN moves, m > 1
          PROVE  ~ IsMoved(m, w)
      <4>1. m - 1 \in DOMAIN moves' /\ moves'[m - 1] = moves[m]
        BY <1>1, <3>3, PositionTail
      <4> QED
        BY <2>3, <4>1 DEF MovedIsQueued, IsMoved
    <3>4. at = Going(w)
      BY <1>1, <2>1, <2>3, <3>2, <3>3 DEF PositionInv, LastIsRight
    <3> QED
      BY <2>1, <2>2, <2>3, <3>1, <3>4
  <2>4. CASE v # w /\ v \in Position!Asked(w, at)
    <3>1. position'[v] = topLeft[v] - Position!Parent(v)
      BY <1>3, <2>2, <2>4 DEF Position!Heard, Position!ConvertDisplayToLocalCoords
    <3>2. Going(v) = topLeft[v]
      BY <2>4, PositionUnderWay DEF Going
    <3> QED
      BY <2>1, <2>2, <3>1, <3>2
  <2>5. CASE v # w /\ v \notin Position!Asked(w, at)
    <3>1. v # w + 1 /\ v \notin unasked /\ position'[v] = position[v]
      BY <1>3, <1>5, <1>7, <2>2, <2>5
    <3>2. w # v - 1
      BY <1>1, <2>2, <3>1 DEF Position!Members
    <3>3. ~ MovedIsQueued(v) /\ ~ MovedIsQueued(v - 1)
      BY <2>5, <3>2, PositionHeard
    <3> QED
      BY <1>2, <2>1, <2>2, <3>1, <3>3 DEF PositionInv, AskedAreRight
  <2> QED
    BY <2>3, <2>4, <2>5
<1> QED
  BY <1>4, <1>8, PositionHeard

LEMMA PositionTyped ==
  ASSUME Position!DepthAssumption, Position!NoneAssumption, PositionTypes, Position!Next
  PROVE  PositionTypes'
<1> USE DEF PositionTypes
<1>1. ASSUME NEW w \in Position!Members, NEW to \in Position!Pixels, Position!Move(w, to)
      PROVE  PositionTypes'
  BY <1>1 DEF Position!Move, Position!MoveTree, Position!Moves
<1>2. CASE Position!AdviseMoveTo
  <2>1. moving' \in Position!Moves
    BY <1>2 DEF Position!AdviseMoveTo, Position!Moves
  <2>2. moves' \in Seq(Position!Members \X Places)
    BY <1>2 DEF Position!AdviseMoveTo, Position!Moves, Places
  <2> QED
    BY <1>2, <2>1, <2>2 DEF Position!AdviseMoveTo
<1>3. CASE Position!MoveTo
  BY <1>3 DEF Position!MoveTo, Position!Moves
<1>4. CASE Position!ConfirmInheritedMove
  <2>1. moving' \in Position!Moves \cup { None }
    <3>1. moving \in Position!Moves
      BY <1>4 DEF Position!ConfirmInheritedMove
    <3>2. ASSUME moving' # None
          PROVE  \E child \in Position!Members, to \in Position!Pixels : Position!MoveTree(child, to, moving.byShell)
      <4>1. moving.window + 1 \in Position!Members
        BY <1>4, <3>1, <3>2 DEF Position!ConfirmInheritedMove, Position!Moves, Position!Members,
           Position!DepthAssumption
      <4> QED
        BY <1>4, <3>2, <4>1 DEF Position!ConfirmInheritedMove
    <3>3. ASSUME NEW child \in Position!Members, NEW to \in Position!Pixels, Position!MoveTree(child, to, moving.byShell)
          PROVE  moving' \in Position!Moves \cup { None }
      BY <3>1, <3>3 DEF Position!MoveTree, Position!Moves
    <3> QED
      BY <3>2, <3>3
  <2> QED
    BY <1>4, <2>1 DEF Position!ConfirmInheritedMove
<1>5. CASE Position!MoveRequested
  <2>1. moving' \in Position!Moves \cup { None }
    BY <1>5 DEF Position!MoveRequested, Position!MoveTree, Position!Moves
  <2> QED
    BY <1>5, <2>1 DEF Position!MoveRequested
<1>6. CASE Position!Hear
  <2>1. moves # << >> /\ moves' = Tail(moves) /\ UNCHANGED << topLeft, moving, moveRequest >>
    BY <1>6 DEF Position!Hear
  <2>2. moves' \in Seq(Position!Members \X Places) /\ Head(moves)[1] \in Position!Members
    BY <2>1, PositionTail
  <2>3. DOMAIN position' \subseteq Position!Members
    BY <1>6, <2>2 DEF Position!Hear, Position!OnWindowAdded, Position!SetPosition
  <2> QED
    BY <2>1, <2>2, <2>3
<1>7. ASSUME NEW w \in Requesting, NEW at \in Position!Positions, Position!SetRequestedPosition(w, at)
      PROVE  PositionTypes'
  BY <1>7 DEF Position!SetRequestedPosition
<1> QED
  BY <1>1, <1>2, <1>3, <1>4, <1>5, <1>6, <1>7 DEF Position!Next

LEMMA PositionNoticesKept ==
  ASSUME Position!DepthAssumption, Position!NoneAssumption, PositionInv, [Position!Next]_positionVars
  PROVE  AddedFirst' /\ MovingIsLast' /\ LastIsRight' /\ AskedAreRight'
<1>1. CASE UNCHANGED << topLeft, moving, moves, position, unasked >>
  BY <1>1
  DEF PositionInv, AddedFirst, MovingIsLast, LastIsRight, AskedAreRight, IsMoved, MovedIsQueued, Going, Untold,
      Early, Position!Parent
<1>2. ASSUME NEW w, NEW to, NEW byShell, moving = None, Position!MoveTree(w, to, byShell),
             UNCHANGED << topLeft, moves, position, unasked >>
      PROVE  AddedFirst' /\ MovingIsLast' /\ LastIsRight' /\ AskedAreRight'
  <2>1. moving' # None => ~ moving'.told
    BY <1>2 DEF Position!MoveTree
  <2> QED
    BY <1>2, <2>1, PositionStarts DEF PositionInv
<1>3. CASE Position!ConfirmInheritedMove
  <2>1. moving' # None => ~ moving'.told
    BY <1>3 DEF Position!ConfirmInheritedMove, Position!MoveTree
  <2>2. /\ moving # None => moving.told /\ topLeft[moving.window] = moving.to
        /\ UNCHANGED << topLeft, moves, position, unasked >>
    BY <1>3 DEF Position!ConfirmInheritedMove
  <2> QED
    BY <2>1, <2>2, PositionStarts DEF PositionInv
<1>4. CASE Position!AdviseMoveTo
  BY <1>4, PositionAdvised
<1>5. CASE Position!MoveTo
  BY <1>5, PositionMoved
<1>6. CASE Position!Hear
  <2> DEFINE w == Head(moves)[1]
             at == Head(moves)[2]
  <2>1. moves # << >> /\ moves' = Tail(moves) /\ UNCHANGED << topLeft, moving >>
    BY <1>6 DEF Position!Hear
  <2>2. moves[1] = << w, at >>
    BY <2>1, PositionTail DEF PositionInv, PositionTypes
  <2>3. at = Position!Added => Position!OnWindowAdded(w)
    BY <1>6 DEF Position!Hear
  <2>4. at # Position!Added => Position!SetPosition(w, at)
    BY <1>6 DEF Position!Hear
  <2> HIDE DEF w, at
  <2>5. CASE at = Position!Added
    BY <2>1, <2>2, <2>3, <2>5, PositionAdded
  <2>6. CASE at # Position!Added
    BY <2>1, <2>2, <2>4, <2>6, PositionSet
  <2> QED
    BY <2>5, <2>6
<1>7. ASSUME NEW w \in Position!Members, NEW to \in Position!Pixels, Position!Move(w, to)
      PROVE  AddedFirst' /\ MovingIsLast' /\ LastIsRight' /\ AskedAreRight'
  BY <1>2, <1>7 DEF Position!Move
<1>8. CASE Position!MoveRequested
  BY <1>2, <1>8 DEF Position!MoveRequested
<1>9. ASSUME NEW w \in Requesting, NEW at \in Position!Positions, Position!SetRequestedPosition(w, at)
      PROVE  AddedFirst' /\ MovingIsLast' /\ LastIsRight' /\ AskedAreRight'
  BY <1>1, <1>9 DEF Position!SetRequestedPosition
<1> QED
  BY <1>1, <1>3, <1>4, <1>5, <1>6, <1>7, <1>8, <1>9 DEF Position!Next, positionVars

LEMMA PositionKept ==
  ASSUME Position!DepthAssumption, Position!NoneAssumption, PositionInv, [Position!Next]_positionVars
  PROVE  PositionInv'
<1>1. CASE UNCHANGED positionVars
  BY <1>1, PositionNoticesKept DEF positionVars, PositionInv, PositionTypes
<1>2. CASE Position!Next
  BY <1>2, PositionNoticesKept, PositionTyped DEF PositionInv
<1> QED
  BY <1>1, <1>2

LEMMA PositionInvAgrees == PositionInv => Position!PositionsAgree
<1> SUFFICES ASSUME PositionInv, moving = None, moves = << >>,
                    NEW w \in Position!Members \ unasked
             PROVE  position[w] = topLeft[w] - Position!Parent(w)
  BY DEF Position!PositionsAgree
<1>1. w \in DOMAIN position
  BY DEF PositionInv, AddedFirst
<1>2. \A v : Going(v) = topLeft[v] /\ ~ Untold(v) /\ ~ MovedIsQueued(v)
  BY DEF Going, Untold, MovedIsQueued
<1> QED
  BY <1>1, <1>2 DEF PositionInv, AskedAreRight

HIDE DEF Position!Added

(* However frames and stops of the client come, the window has the size and *)
(* the orientation that the item asks for, or will have them when the       *)
(* client runs, unless a request crossed a frame or one of the client's; and*)
(* however the shell and the policy move windows, each surface has its      *)
(* window's place once all notices are heard, unless its parent heard of    *)
(* a move that it was not asked for: see SurfaceSize and SurfacePosition.   *)
THEOREM GeometryKept == SurfacesSpec => []GeometryAgrees
<1> DEFINE Inv == (part = "size" => SizeInv) /\ (part = "position" => PositionInv)
<1> USE SizeAssumption, PositionAssumption
<1>1. SurfacesInit => Inv
  BY SizeInit, PositionInit DEF SurfacesInit
<1>2. Inv /\ [UNCHANGED part /\ SurfacesNext]_<< part, surfacesVars >> => Inv'
  <2>1. part = "size" /\ SizeInv /\ [Size!Next]_sizeVars => SizeInv'
    BY SizeKept
  <2>2. part = "position" /\ PositionInv /\ [Position!Next]_positionVars => PositionInv'
    BY PositionKept
  <2> QED
    BY <2>1, <2>2 DEF SurfacesNext, surfacesVars
<1>3. Inv => GeometryAgrees
  BY SizeInvAgrees, PositionInvAgrees DEF GeometryAgrees
<1> QED
  BY <1>1, <1>2, <1>3, PTL DEF SurfacesSpec

------------------------------------------------------------------------------
(* Attributes: see SurfaceAttributes.                                       *)

Posts == [ attribute : Attributes!Attributes, value : Values ]

AttributeTypes ==
  /\ info \in [ Attributes!Attributes -> Values ] /\ copy \in [ Copied -> Values ]
  /\ attr \in [ Attributes!Attributes -> Values ] /\ modifying \subseteq Modified
  /\ posted \in Seq(Posts) /\ itemCursor \in Values

(* What is posted of an attribute last, or else what the surface has, is    *)
(* what MirAL has, unless that is yet to be told of. Of one that was set    *)
(* too early the surface has the copy's.                                    *)
LastPosted(n) == \A m \in DOMAIN posted : m > n => posted[m].attribute # posted[n].attribute

PostsAgree ==
  connected =>
    /\ \A n \in DOMAIN posted :
         LastPosted(n) => \/ posted[n].value = info[posted[n].attribute]
                          \/ posted[n].attribute \in modifying
    /\ \A a \in Attributes!Attributes :
         (\A n \in DOMAIN posted : posted[n].attribute # a) =>
           attr[a] = info[a] \/ a \in modifying \cup late

LateAgrees ==
  \A a \in late :
    /\ a \notin modifying /\ a \in Attributes!Attributes /\ attr[a] = Attributes!Copy(a)
    /\ \A n \in DOMAIN posted : posted[n].attribute # a

(* Before there is a surface, nothing is posted, and the copy is as good.   *)
CopyAgrees ==
  ~ connected =>
    posted = << >> /\ ~ shows /\ late = {}

ItemKept == itemCursor = IF shows THEN attr[Cursor] ELSE Default

(* The pointer shows the last that the Cursor was told, that of the item    *)
(* if it has heard of it.                                                   *)
PointerKept ==
  /\ pointer # None => pointer = Attributes!Shown(qtCursor, mirCursor)
  /\ cursorName = None => mirCursor = None
  /\ hovered /\ ~ unheard => qtCursor = itemCursor

AttributesInv == AttributeTypes /\ PostsAgree /\ LateAgrees /\ CopyAgrees /\ ItemKept /\ PointerKept

LEMMA AttributesInit == Attributes!ValuesAssumption /\ Attributes!AttributesAssumption /\ Attributes!Init => AttributesInv
<1> SUFFICES ASSUME Attributes!ValuesAssumption, Attributes!AttributesAssumption, Attributes!Init PROVE AttributesInv
  OBVIOUS
<1>1. AttributeTypes
  BY DEF Attributes!Init, AttributeTypes, Attributes!ValuesAssumption,
     Attributes!AttributesAssumption, Attributes!Attributes
<1>2. PostsAgree /\ LateAgrees
  BY DEF Attributes!Init, PostsAgree, LateAgrees
<1>3. CopyAgrees
  BY DEF Attributes!Init, CopyAgrees
<1>4. ItemKept /\ PointerKept
  BY DEF Attributes!Init, ItemKept, PointerKept
<1> QED
  BY <1>1, <1>2, <1>3, <1>4 DEF AttributesInv

LEMMA AttributesPosted ==
  ASSUME AttributeTypes, NEW n \in DOMAIN posted
  PROVE  posted[n] \in Posts /\ posted[n].attribute \in Attributes!Attributes /\ posted[n].value \in Values
<1>1. posted \in Seq(Posts)
  BY DEF AttributeTypes
<1>2. posted[n] \in Posts
  BY <1>1
<1> QED
  BY <1>2 DEF Posts

(* What is posted of an attribute is what MirAL has.                        *)
LEMMA AttributesEmit ==
  ASSUME AttributeTypes, PostsAgree, NEW a \in Attributes!Attributes, NEW v \in Values, connected, Attributes!Emit(a, v),
         UNCHANGED << connected, attr >>, info'[a] = v,
         \A b \in Attributes!Attributes \ { a } :
           info'[b] = info[b] /\ (b \in modifying => b \in modifying') /\ (b \in late => b \in late')
  PROVE  PostsAgree'
<1>n. PICK final \in Nat : final = Len(posted) + 1
  BY DEF AttributeTypes
<1>0. posted \in Seq(Posts) /\ posted' = Append(posted, [ attribute |-> a, value |-> v ])
  BY DEF Attributes!Emit, AttributeTypes
<1>e. \A n \in DOMAIN posted : posted[n] \in Posts
  BY <1>0
<1>1. /\ final \in DOMAIN posted' /\ posted'[final] = [ attribute |-> a, value |-> v ]
      /\ \A n \in DOMAIN posted' : n = final \/ (n \in DOMAIN posted /\ n \in Nat /\ n < final)
      /\ \A n \in DOMAIN posted :
           n \in DOMAIN posted' /\ posted'[n] = posted[n] /\ posted[n].attribute \in Attributes!Attributes
  BY <1>n, <1>0, <1>e DEF Posts
<1>2. ASSUME NEW n \in DOMAIN posted', LastPosted(n)'
      PROVE  \/ posted'[n].value = info'[posted'[n].attribute]
             \/ posted'[n].attribute \in modifying'
  <2>1. CASE n = final
    BY <1>1, <2>1
  <2>2. CASE n # final
    <3>1. n \in DOMAIN posted /\ n < final /\ n \in Nat
      BY <1>1, <2>2
    <3>2. posted[n].attribute # a
      BY <1>1, <1>2, <3>1 DEF LastPosted
    <3>3. \A m \in DOMAIN posted : m > n => posted[m].attribute # posted[n].attribute
      BY <1>1, <1>2, <3>1 DEF LastPosted
    <3>4. \/ posted[n].value = info[posted[n].attribute]
          \/ posted[n].attribute \in modifying
      BY <3>1, <3>3 DEF PostsAgree, LastPosted
    <3> QED
      BY <1>1, <3>1, <3>2, <3>4
  <2> QED
    BY <2>1, <2>2
<1>3. ASSUME NEW b \in Attributes!Attributes, \A n \in DOMAIN posted' : posted'[n].attribute # b
      PROVE  attr'[b] = info'[b] \/ b \in modifying' \cup late'
  <2>1. b # a
    BY <1>1, <1>3
  <2>2. \A n \in DOMAIN posted : posted[n].attribute # b
    BY <1>1, <1>3
  <2> QED
    BY <2>1, <2>2 DEF PostsAgree
<1> QED
  BY <1>2, <1>3 DEF PostsAgree

(* Nor is anything posted of an attribute that was set too early.           *)
LEMMA AttributesEmitLate ==
  ASSUME AttributeTypes, LateAgrees, NEW a \in Attributes!Attributes, NEW v \in Values, Attributes!Emit(a, v),
         UNCHANGED << connected, copy, attr >>, a \notin late', late' \subseteq late,
         modifying' \subseteq modifying
  PROVE  LateAgrees'
<1>n. PICK final \in Nat : final = Len(posted) + 1
  BY DEF AttributeTypes
<1>0. /\ posted \in Seq(Posts)
      /\ posted' = posted \/ posted' = Append(posted, [ attribute |-> a, value |-> v ])
  BY DEF Attributes!Emit, AttributeTypes
<1>1. \A n \in DOMAIN posted' : posted'[n].attribute = a \/ (n \in DOMAIN posted /\ posted'[n] = posted[n])
  <2>1. CASE posted' = posted
    BY <2>1
  <2>2. CASE posted' = Append(posted, [ attribute |-> a, value |-> v ])
    <3>1. /\ posted'[final] = [ attribute |-> a, value |-> v ]
          /\ \A n \in DOMAIN posted' : n = final \/ (n \in DOMAIN posted /\ posted'[n] = posted[n])
      BY <1>n, <1>0, <2>2
    <3> QED
      BY <3>1
  <2> QED
    BY <1>0, <2>1, <2>2
<1>2. ASSUME NEW b \in late'
      PROVE  /\ b \notin modifying' /\ b \in Attributes!Attributes /\ attr'[b] = Attributes!Copy(b)'
             /\ \A n \in DOMAIN posted' : posted'[n].attribute # b
  <2>1. b \in late /\ b # a /\ attr' = attr /\ copy' = copy
    BY <1>2
  <2>2. Attributes!Copy(b)' = Attributes!Copy(b)
    BY <2>1 DEF Attributes!Copy
  <2> QED
    BY <1>1, <2>1, <2>2 DEF LateAgrees
<1> QED
  BY <1>2 DEF LateAgrees

(* The signal that the surface hears was the first one.                     *)
LEMMA AttributesHear ==
  ASSUME AttributeTypes, Attributes!Hear
  PROVE  /\ posted' \in Seq(Posts) /\ 1 \in DOMAIN posted /\ posted[1] \in Posts
         /\ attr' = [ attr EXCEPT ![posted[1].attribute] = posted[1].value ]
         /\ posted[1].attribute # Cursor => UNCHANGED << itemCursor, Attributes!cursorVars >>
         /\ posted[1].attribute = Cursor /\ ~ shows => UNCHANGED << itemCursor, Attributes!cursorVars >>
         /\ posted[1].attribute = Cursor /\ shows => Attributes!SetItemCursor(posted[1].value)
         /\ \A n \in DOMAIN posted' :
              n \in Nat /\ n + 1 \in DOMAIN posted /\ posted'[n] = posted[n + 1]
         /\ \A n \in DOMAIN posted :
              n \in Nat /\ n >= 1 /\ (n = 1 \/ (n - 1 \in DOMAIN posted' /\ posted'[n - 1] = posted[n]))
<1> USE DEF AttributeTypes
<1>0. posted # << >> /\ posted' = Tail(posted)
  BY DEF Attributes!Hear
<1>1. /\ posted' \in Seq(Posts)
      /\ 1 \in DOMAIN posted /\ posted[1] = Head(posted) /\ posted[1] \in Posts
      /\ \A n \in DOMAIN posted' :
           n \in Nat /\ n + 1 \in DOMAIN posted /\ posted'[n] = posted[n + 1]
  BY <1>0
<1>2. ASSUME NEW n \in DOMAIN posted
      PROVE  n \in Nat /\ n >= 1 /\ (n = 1 \/ (n - 1 \in DOMAIN posted' /\ posted'[n - 1] = posted[n]))
  <2>1. n \in Nat /\ n >= 1 /\ n <= Len(posted) /\ Len(posted) \in Nat
    OBVIOUS
  <2>2. Len(posted') = Len(posted) - 1 /\ DOMAIN posted' = 1 .. Len(posted')
    BY <1>0, <1>1
  <2>3. n # 1 => n - 1 \in DOMAIN posted'
    BY <2>1, <2>2
  <2>4. n # 1 => posted'[n - 1] = posted[(n - 1) + 1]
    BY <1>1, <2>3
  <2> QED
    BY <2>1, <2>3, <2>4
<1>3. /\ attr' = [ attr EXCEPT ![posted[1].attribute] = posted[1].value ]
      /\ posted[1].attribute # Cursor => UNCHANGED << itemCursor, Attributes!cursorVars >>
      /\ posted[1].attribute = Cursor /\ ~ shows => UNCHANGED << itemCursor, Attributes!cursorVars >>
      /\ posted[1].attribute = Cursor /\ shows => Attributes!SetItemCursor(posted[1].value)
  BY <1>1 DEF Attributes!Hear, Attributes!SetCursor, Attributes!SetAttribute
<1> QED
  BY <1>1, <1>2, <1>3

LEMMA AttributesHeard ==
  ASSUME AttributeTypes, PostsAgree, Attributes!Hear
  PROVE  PostsAgree'
<1> SUFFICES ASSUME connected' PROVE PostsAgree'
  BY DEF PostsAgree
<1>1. connected /\ UNCHANGED << info, modifying, late >>
  BY DEF Attributes!Hear
<1>2. ASSUME NEW n \in DOMAIN posted', LastPosted(n)'
      PROVE  \/ posted'[n].value = info'[posted'[n].attribute]
             \/ posted'[n].attribute \in modifying'
  <2>1. n \in Nat /\ n + 1 \in DOMAIN posted /\ posted'[n] = posted[n + 1]
    BY AttributesHear
  <2>2. ASSUME NEW m \in DOMAIN posted, m > n + 1
        PROVE  posted[m].attribute # posted[n + 1].attribute
    <3>1. m \in Nat /\ m - 1 \in DOMAIN posted' /\ posted'[m - 1] = posted[m]
      BY <2>1, <2>2, AttributesHear
    <3> QED
      BY <1>2, <2>1, <2>2, <3>1 DEF LastPosted
  <2> QED
    BY <1>1, <2>1, <2>2 DEF PostsAgree, LastPosted
<1>3. ASSUME NEW b \in Attributes!Attributes, \A n \in DOMAIN posted' : posted'[n].attribute # b
      PROVE  attr'[b] = info'[b] \/ b \in modifying' \cup late'
  <2>1. ASSUME NEW m \in DOMAIN posted, m # 1
        PROVE  posted[m].attribute # b
    BY <1>3, <2>1, AttributesHear
  <2>2. CASE posted[1].attribute = b
    <3>1. attr'[b] = posted[1].value /\ 1 \in DOMAIN posted
      BY <2>2, AttributesHear DEF AttributeTypes
    <3>2. LastPosted(1)
      BY <2>1, <2>2 DEF LastPosted
    <3> QED
      BY <1>1, <2>2, <3>1, <3>2 DEF PostsAgree
  <2>3. CASE posted[1].attribute # b
    <3>1. attr'[b] = attr[b]
      BY <2>3, AttributesHear DEF AttributeTypes
    <3> QED
      BY <1>1, <2>1, <2>3, <3>1 DEF PostsAgree
  <2> QED
    BY <2>2, <2>3
<1> QED
  BY <1>2, <1>3 DEF PostsAgree

(* What is heard is not of what was set too early.                          *)
LEMMA AttributesHeardLate ==
  ASSUME AttributeTypes, LateAgrees, Attributes!Hear
  PROVE  LateAgrees'
<1>1. UNCHANGED << info, modifying, late, copy >>
  BY DEF Attributes!Hear
<1>2. ASSUME NEW b \in late
      PROVE  /\ b \notin modifying /\ b \in Attributes!Attributes /\ attr'[b] = Attributes!Copy(b)
             /\ \A n \in DOMAIN posted' : posted'[n].attribute # b
  <2>1. \A n \in DOMAIN posted : posted[n].attribute # b
    BY <1>2 DEF LateAgrees
  <2>2. attr'[b] = attr[b]
    BY <1>2, <2>1, AttributesHear DEF AttributeTypes, LateAgrees
  <2>3. \A n \in DOMAIN posted' : posted'[n].attribute # b
    BY <2>1, AttributesHear
  <2> QED
    BY <1>2, <2>2, <2>3 DEF LateAgrees
<1> QED
  BY <1>1, <1>2 DEF LateAgrees, Attributes!Copy

(* The item has another cursor, of which the Cursor is told if it matters.  *)
LEMMA AttributesItem ==
  ASSUME PointerKept, NEW c \in Values, Attributes!SetItemCursor(c)
  PROVE  PointerKept' /\ itemCursor' = c
<1> USE DEF Attributes!SetItemCursor
<1>1. CASE hovered /\ c # itemCursor
  BY <1>1 DEF PointerKept, Attributes!ChangeCursor, Attributes!UpdateMousePointerCursorName
<1>2. CASE ~ (hovered /\ c # itemCursor)
  BY <1>2 DEF PointerKept
<1> QED
  BY <1>1, <1>2

(* What MirSurface hears, the item that shows it has.                       *)
LEMMA AttributesItemHears ==
  ASSUME AttributeTypes, ItemKept, PointerKept, Attributes!Hear
  PROVE  AttributeTypes' /\ ItemKept' /\ PointerKept'
<1>0. /\ UNCHANGED << info, modifying, copy, shows >>
      /\ posted' \in Seq(Posts) /\ posted[1].attribute \in Attributes!Attributes /\ posted[1].value \in Values
      /\ attr' = [ attr EXCEPT ![posted[1].attribute] = posted[1].value ]
  BY AttributesHear DEF Attributes!Hear, Posts
<1>1. CASE posted[1].attribute = Cursor /\ shows
  <2>1. PointerKept' /\ itemCursor' = posted[1].value
    BY <1>0, <1>1, AttributesHear, AttributesItem
  <2> QED
    BY <1>0, <1>1, <2>1 DEF AttributeTypes, ItemKept
<1>2. CASE ~ (posted[1].attribute = Cursor /\ shows)
  <2>1. UNCHANGED << itemCursor, Attributes!cursorVars >>
    BY <1>2, AttributesHear
  <2>2. PointerKept'
    BY <2>1 DEF PointerKept, Attributes!cursorVars
  <2> QED
    BY <1>0, <1>2, <2>1, <2>2 DEF AttributeTypes, ItemKept, Attributes!Attributes
<1> QED
  BY <1>1, <1>2

LEMMA AttributesKept ==
  ASSUME Attributes!ValuesAssumption, Attributes!AttributesAssumption, AttributesInv, [Attributes!Next]_attributeVars
  PROVE  AttributesInv'
<1> USE DEF AttributesInv
<1>1. ASSUME NEW a \in Modified, NEW v \in Values, Attributes!HandleModifyWindow(a, v)
      PROVE  AttributesInv'
  <2>1. /\ UNCHANGED << posted, Attributes!surfaceVars, Attributes!itemVars, Attributes!cursorVars >> /\ a \in modifying'
        /\ info' = [ info EXCEPT ![a] = v ] /\ modifying' \subseteq Modified /\ a \in Attributes!Attributes
        /\ \A b \in Attributes!Attributes \ { a } : (b \in modifying => b \in modifying') /\ (b \in late => b \in late')
        /\ modifying' = { a } /\ late' = late \ { a }
    BY <1>1 DEF Attributes!HandleModifyWindow, Attributes!Set, Attributes!Attributes
  <2>2. AttributeTypes'
    BY <2>1 DEF AttributeTypes, Attributes!surfaceVars, Attributes!itemVars
  <2>3. PostsAgree'
    <3>1. ASSUME NEW n \in DOMAIN posted, connected, LastPosted(n)
          PROVE  \/ posted[n].value = info'[posted[n].attribute]
                 \/ posted[n].attribute \in modifying'
      <4>1. posted[n].attribute \in Attributes!Attributes
        BY AttributesPosted
      <4> QED
        BY <2>1, <3>1, <4>1 DEF PostsAgree, AttributeTypes
    <3>2. ASSUME NEW b \in Attributes!Attributes, connected, \A n \in DOMAIN posted : posted[n].attribute # b
          PROVE  attr[b] = info'[b] \/ b \in modifying' \cup late'
      BY <2>1, <3>2 DEF PostsAgree, AttributeTypes
    <3> QED
      BY <2>1, <3>1, <3>2 DEF PostsAgree, LastPosted, Attributes!surfaceVars
  <2>4. CopyAgrees' /\ LateAgrees'
    BY <2>1 DEF CopyAgrees, LateAgrees, Attributes!surfaceVars, Attributes!itemVars, Attributes!Copy
  <2>5. ItemKept' /\ PointerKept'
    BY <2>1 DEF ItemKept, PointerKept, Attributes!surfaceVars, Attributes!itemVars,
       Attributes!cursorVars
  <2> QED
    BY <2>2, <2>3, <2>4, <2>5
<1>2. ASSUME Attributes!NotifySurfaceModifications
      PROVE  AttributesInv'
  <2>1. PICK a \in modifying :
          /\ Attributes!Emit(a, info[a]) /\ modifying' = modifying \ { a }
          /\ UNCHANGED << info, late, Attributes!surfaceVars, Attributes!itemVars, Attributes!cursorVars >>
    BY <1>2 DEF Attributes!NotifySurfaceModifications
  <2>2. PICK v \in Values : v = info[a]
    BY DEF AttributeTypes, Attributes!Attributes
  <2>3. a \in Attributes!Attributes /\ [ attribute |-> a, value |-> v ] \in Posts
    BY <2>2 DEF AttributeTypes, Attributes!Attributes, Posts
  <2>4. AttributeTypes'
    BY <2>1, <2>2, <2>3 DEF AttributeTypes, Attributes!surfaceVars, Attributes!itemVars,
       Attributes!Emit
  <2>l. LateAgrees'
    <3>1. a \notin late /\ UNCHANGED << connected, copy, attr >>
      BY <2>1 DEF LateAgrees, Attributes!surfaceVars
    <3> QED
      BY <2>1, <2>2, <2>3, <3>1, AttributesEmitLate
  <2>5. CASE connected
    BY <2>1, <2>2, <2>3, <2>4, <2>5, <2>l, AttributesEmit DEF CopyAgrees, ItemKept, PointerKept,
       Attributes!surfaceVars, Attributes!itemVars, Attributes!cursorVars
  <2>6. CASE ~ connected
    BY <2>1, <2>4, <2>6, <2>l DEF Attributes!Emit, PostsAgree, CopyAgrees, ItemKept, PointerKept,
       Attributes!surfaceVars, Attributes!itemVars, Attributes!cursorVars
  <2> QED
    BY <2>5, <2>6
<1>3. ASSUME NEW v \in Values, Attributes!CursorImageSetTo(v)
      PROVE  AttributesInv'
  <2>1. /\ UNCHANGED << modifying, Attributes!surfaceVars, Attributes!itemVars, Attributes!cursorVars >> /\ Attributes!Emit(Cursor, v)
        /\ info' = [ info EXCEPT ![Cursor] = v ] /\ Cursor \in Attributes!Attributes
        /\ \A b \in Attributes!Attributes \ { Cursor } : (b \in modifying => b \in modifying') /\ (b \in late => b \in late')
        /\ late' = late \ { Cursor }
    BY <1>3 DEF Attributes!CursorImageSetTo, Attributes!Set, Attributes!Attributes
  <2>2. [ attribute |-> Cursor, value |-> v ] \in Posts
    BY <2>1 DEF Posts
  <2>3. AttributeTypes'
    BY <2>1, <2>2 DEF AttributeTypes, Attributes!surfaceVars, Attributes!itemVars, Attributes!Emit
  <2>4. ItemKept' /\ PointerKept'
    BY <2>1 DEF ItemKept, PointerKept, Attributes!surfaceVars, Attributes!itemVars,
       Attributes!cursorVars
  <2>5. PostsAgree'
    BY <2>1, AttributesEmit DEF AttributeTypes, PostsAgree, Attributes!surfaceVars
  <2>6. CopyAgrees' /\ LateAgrees'
    <3>1. UNCHANGED << connected, copy, attr >>
      BY <2>1 DEF Attributes!surfaceVars
    <3>2. LateAgrees'
      BY <2>1, <3>1, AttributesEmitLate
    <3> QED
      BY <2>1, <3>2 DEF CopyAgrees, Attributes!Emit, Attributes!surfaceVars, Attributes!itemVars
  <2> QED
    BY <2>3, <2>4, <2>5, <2>6
<1>4. ASSUME NEW n \in Names \cup { None }, Attributes!SetCursorName(n)
      PROVE  AttributesInv'
  <2>1. PostsAgree' /\ LateAgrees' /\ CopyAgrees' /\ ItemKept'
    BY <1>4 DEF Attributes!SetCursorName, PostsAgree, LastPosted, LateAgrees, CopyAgrees, ItemKept,
       Attributes!Copy, Attributes!surfaceVars, Attributes!itemVars
  <2>2. AttributeTypes' /\ PointerKept'
    BY <1>4 DEF Attributes!SetCursorName, Attributes!UpdateMousePointerCursorName, AttributeTypes,
       PointerKept, Attributes!surfaceVars, Attributes!itemVars
  <2> QED
    BY <2>1, <2>2
<1>5. CASE Attributes!Hover
  <2>1. PostsAgree' /\ LateAgrees' /\ CopyAgrees' /\ ItemKept'
    BY <1>5 DEF Attributes!Hover, PostsAgree, LastPosted, LateAgrees, CopyAgrees, ItemKept,
       Attributes!Copy, Attributes!surfaceVars, Attributes!itemVars
  <2>2. AttributeTypes' /\ PointerKept'
    BY <1>5 DEF Attributes!Hover, Attributes!ChangeCursor, Attributes!UpdateMousePointerCursorName,
       AttributeTypes, PointerKept, Attributes!surfaceVars, Attributes!itemVars
  <2> QED
    BY <2>1, <2>2
<1>6. CASE Attributes!SetMousePointer \/ Attributes!NewCursor
  <2>1. PostsAgree' /\ LateAgrees' /\ CopyAgrees' /\ ItemKept'
    BY <1>6 DEF Attributes!SetMousePointer, Attributes!NewCursor, PostsAgree, LastPosted, LateAgrees,
       CopyAgrees, ItemKept, Attributes!Copy, Attributes!surfaceVars, Attributes!itemVars
  <2>2. AttributeTypes' /\ PointerKept'
    BY <1>6 DEF Attributes!SetMousePointer, Attributes!NewCursor, AttributeTypes, PointerKept,
       Attributes!surfaceVars, Attributes!itemVars
  <2> QED
    BY <2>1, <2>2
<1>7. CASE Attributes!NewSurface
  <2>1. /\ ~ connected /\ connected' /\ posted = << >>
        /\ attr' = [ a \in Attributes!Attributes |-> Attributes!Copy(a) ]
        /\ late' = { a \in Attributes!Attributes \ modifying : info[a] # Attributes!Copy(a) }
        /\ UNCHANGED << info, modifying, posted, copy, Attributes!itemVars, Attributes!cursorVars >>
    BY <1>7 DEF Attributes!NewSurface, CopyAgrees
  <2>2. AttributeTypes' /\ CopyAgrees' /\ ItemKept' /\ PointerKept'
    BY <2>1 DEF AttributeTypes, CopyAgrees, ItemKept, PointerKept, Attributes!itemVars,
       Attributes!cursorVars, Attributes!ValuesAssumption, Attributes!Copy
  <2>3. PostsAgree'
    BY <2>1 DEF PostsAgree
  <2>4. LateAgrees'
    BY <2>1 DEF LateAgrees, Attributes!Copy
  <2> QED
    BY <2>2, <2>3, <2>4
<1>8. CASE Attributes!Hear
  <2>1. CopyAgrees'
    BY <1>8 DEF Attributes!Hear, CopyAgrees
  <2> QED
    BY <1>8, <2>1, AttributesHeard, AttributesHeardLate, AttributesItemHears
<1>9. CASE Attributes!ShowSurface
  <2>1. /\ connected /\ ~ shows /\ shows' /\ itemCursor = Default
        /\ UNCHANGED << info, modifying, posted, late, connected, copy, attr >>
    BY <1>9 DEF Attributes!ShowSurface, ItemKept
  <2>2. PostsAgree' /\ LateAgrees' /\ CopyAgrees'
    BY <2>1 DEF PostsAgree, LastPosted, LateAgrees, CopyAgrees, Attributes!Copy
  <2>3. PICK c \in Values : c = attr[Cursor]
    BY DEF AttributeTypes, Attributes!Attributes
  <2>4. PointerKept' /\ itemCursor' = c
    <3>1. CASE c # Default
      BY <1>9, <2>3, <3>1, AttributesItem DEF Attributes!ShowSurface
    <3>2. CASE c = Default
      BY <1>9, <2>1, <2>3, <3>2 DEF Attributes!ShowSurface, PointerKept, Attributes!cursorVars
    <3> QED
      BY <3>1, <3>2
  <2> QED
    BY <2>1, <2>2, <2>3, <2>4 DEF AttributeTypes, ItemKept
<1>10. CASE Attributes!UnshowSurface
  <2>1. ~ shows' /\ UNCHANGED << info, modifying, posted, late, connected, copy, attr >>
    BY <1>10 DEF Attributes!UnshowSurface, Attributes!surfaceVars
  <2>2. PostsAgree' /\ LateAgrees' /\ CopyAgrees'
    BY <2>1 DEF PostsAgree, LastPosted, LateAgrees, CopyAgrees, Attributes!Copy
  <2>3. PointerKept' /\ itemCursor' = Default
    BY <1>10, AttributesItem DEF Attributes!UnshowSurface, Attributes!ValuesAssumption
  <2> QED
    BY <2>1, <2>2, <2>3 DEF AttributeTypes, ItemKept, Attributes!ValuesAssumption
<1>11. CASE UNCHANGED attributeVars
  BY <1>11 DEF attributeVars, Attributes!surfaceVars, Attributes!itemVars, Attributes!cursorVars,
     AttributeTypes, PostsAgree, LastPosted, LateAgrees, CopyAgrees, ItemKept, PointerKept,
     Attributes!Copy
<1> QED
  BY <1>1, <1>2, <1>3, <1>4, <1>5, <1>6, <1>7, <1>8, <1>9, <1>10, <1>11 DEF Attributes!Next,
     Attributes!Shapes

LEMMA AttributesInvAgrees ==
  ASSUME Attributes!ValuesAssumption, Attributes!AttributesAssumption, AttributesInv
  PROVE  Attributes!AttributesAgree
<1> USE DEF AttributesInv
<1>1. Attributes!SurfaceAgrees
  BY DEF Attributes!SurfaceAgrees, Attributes!Heard, Attributes!Told, PostsAgree, LateAgrees
<1>2. Attributes!ItemAgrees
  BY DEF Attributes!ItemAgrees, ItemKept
<1>3. Attributes!PointerAgrees
  <2> SUFFICES ASSUME pointer # None, hovered, shows, cursorName = None, ~ unheard, Attributes!Heard(Cursor)
               PROVE  pointer = Attributes!Told(Cursor)
    BY DEF Attributes!PointerAgrees
  <2>1. attr[Cursor] = Attributes!Told(Cursor)
    BY <1>1 DEF Attributes!SurfaceAgrees, Attributes!Attributes
  <2>2. qtCursor = attr[Cursor] /\ qtCursor # None
    BY DEF ItemKept, PointerKept, AttributeTypes, Attributes!ValuesAssumption, Attributes!Attributes
  <2> QED
    BY <2>1, <2>2 DEF PointerKept, Attributes!Shown
<1> QED
  BY <1>1, <1>2, <1>3 DEF Attributes!AttributesAgree

(* For any values, names, attributes and number of signals under way: when  *)
(* nothing is under way, the surface has of each attribute what was set     *)
(* last, or exactly the copy's if it was told before the observer was       *)
(* connected and not since; and so has the item its cursor, and the pointer *)
(* unless the Cursor has forgotten it. These two losses are the code's, and *)
(* there is no other: see SurfaceAttributes.                                *)
THEOREM AttributesTold == SurfacesSpec => []AttributesAgree
<1> DEFINE Inv == part = "attributes" => AttributesInv
<1> USE AttributeAssumption
<1>1. SurfacesInit => Inv
  BY AttributesInit DEF SurfacesInit
<1>2. Inv /\ [UNCHANGED part /\ SurfacesNext]_<< part, surfacesVars >> => Inv'
  BY AttributesKept DEF SurfacesNext, surfacesVars
<1>3. Inv => AttributesAgree
  BY AttributesInvAgrees DEF AttributesAgree
<1> QED
  BY <1>1, <1>2, <1>3, PTL DEF SurfacesSpec

------------------------------------------------------------------------------
(* Device: see Orientation.                                                 *)

Told == Screens \cup { None }

DeviceTypes ==
  /\ present \subseteq Screens /\ heard \subseteq present \cap Internal
  /\ orientation \in [ Screens -> Device!Turns ]
  /\ events \in Seq(Told \X Device!Readings)
  /\ device \in Device!Readings /\ upright \in Device!Readings
  /\ sensor \in { "none", "idle", "active" }

(* There is a sensor once the compositor started and a screen is built in.  *)
SensorKept ==
  /\ present \cap Internal # {} => enabled
  /\ on => started
  /\ sensor = "none" => ~ (enabled /\ started)
  /\ on /\ enabled /\ since # "darkened" => sensor = "active"
  /\ ~ on /\ since # "woken" => sensor # "active"

(* The last event for a screen that is not flat is of the last reading that *)
(* was not, and the screen was there for it; without one it has heard it.   *)
LastTurn(n) ==
  \A m \in DOMAIN events : m > n /\ events[m][1] = events[n][1] => events[m][2] = Device!Flat

EventsKept ==
  /\ \A n \in DOMAIN events :
       /\ events[n][2] # Device!Flat => events[n][1] \in heard
       /\ events[n][2] # Device!Flat /\ LastTurn(n) => events[n][2] = upright
  /\ \A s \in present \cap Internal :
       (\A n \in DOMAIN events : events[n][1] = s => events[n][2] = Device!Flat) =>
         orientation[s] = Device!Mapped(s, IF s \in heard THEN upright ELSE 0)

DeviceInv == DeviceTypes /\ SensorKept /\ EventsKept

LEMMA DeviceInit == Device!ScreensAssumption /\ Device!Init => DeviceInv
<1> SUFFICES ASSUME Device!ScreensAssumption, Device!Init PROVE DeviceInv
  OBVIOUS
<1>1. \A s \in Screens : Device!Mapped(s, 0) \in Device!Turns
  BY DEF Device!Mapped, Device!Turns
<1>2. DeviceTypes
  BY <1>1 DEF Device!Init, DeviceTypes, Device!Readings
<1>3. SensorKept
  BY DEF Device!Init, SensorKept
<1>4. EventsKept
  BY DEF Device!Init, EventsKept
<1> QED
  BY <1>2, <1>3, <1>4 DEF DeviceInv

LEMMA DeviceMapped ==
  ASSUME NEW s \in Screens, NEW t \in Device!Turns
  PROVE  Device!Mapped(s, t) \in Device!Turns
BY DEF Device!Mapped, Device!Turns

LEMMA DevicePosted ==
  ASSUME DeviceTypes, NEW n \in DOMAIN events
  PROVE  n \in Nat /\ n >= 1 /\ events[n] \in Told \X Device!Readings
BY DEF DeviceTypes

(* The finite sets of Orientation are those of the library's theorems.  *)
LEMMA DeviceSets ==
  ASSUME NEW S
  PROVE  (Device!IsFiniteSet(S) <=> IsFiniteSet(S)) /\ Device!Cardinality(S) = Cardinality(S)
BY DEF Device!IsFiniteSet, IsFiniteSet, Device!Cardinality, Cardinality

(* A reading reaches each screen that is there and built in.                *)
LEMMA DeviceRead ==
  ASSUME Device!ScreensAssumption, DeviceTypes, Device!OnOrientationReadingChanged
  PROVE  \E length \in Nat :
           /\ events' \in Seq(Told \X Device!Readings)
           /\ \A n \in DOMAIN events : n <= length /\ n \in DOMAIN events' /\ events'[n] = events[n]
           /\ \A n \in DOMAIN events' :
                n \in Nat /\ (n <= length => n \in DOMAIN events /\ events'[n] = events[n])
           /\ \A n \in DOMAIN events' :
                n > length => events'[n][1] \in present \cap Internal /\ events'[n][2] = device
           /\ \A s \in present \cap Internal :
                \E n \in DOMAIN events' : n > length /\ events'[n][1] = s
<1> DEFINE S == present \cap Internal
<1>1. IsFiniteSet(S)
  BY FS_Subset, DeviceSets DEF Device!ScreensAssumption, DeviceTypes
<1>2. PICK k \in Nat : k = Cardinality(S)
  BY <1>1, FS_CardinalityType
<1>3. PICK order \in Device!Bijection(1 .. k, S) :
        events' = events \o [ i \in DOMAIN order |-> << order[i], device >> ]
  BY <1>2, DeviceSets DEF Device!OnOrientationReadingChanged
<1>4. order \in [ 1 .. k -> S ] /\ \A s \in S : \E i \in 1 .. k : order[i] = s
  BY DEF Device!Bijection, Device!Injection, Device!Surjection
<1> HIDE DEF S
<1>5. S \subseteq Told /\ S = present \cap Internal
  BY DEF S, DeviceTypes, Told
<1>6. PICK q \in Seq(Told \X Device!Readings) :
        /\ q = [ i \in DOMAIN order |-> << order[i], device >> ]
        /\ DOMAIN q = 1 .. k /\ Len(q) = k
        /\ \A i \in 1 .. k : q[i][1] = order[i] /\ q[i][2] = device
  <2> DEFINE q == [ i \in 1 .. k |-> << order[i], device >> ]
  <2>1. q \in [ 1 .. k -> Told \X Device!Readings ]
    BY <1>4, <1>5 DEF DeviceTypes
  <2>2. q \in Seq(Told \X Device!Readings) /\ Len(q) = k
    BY <2>1
  <2>3. q = [ i \in DOMAIN order |-> << order[i], device >> ]
    BY <1>4
  <2>4. \A i \in 1 .. k : q[i][1] = order[i] /\ q[i][2] = device
    OBVIOUS
  <2> QED
    BY <2>1, <2>2, <2>3, <2>4
<1>7. PICK length \in Nat : length = Len(events) /\ DOMAIN events = 1 .. length
  BY DEF DeviceTypes
<1>8. /\ events' = events \o q /\ events \in Seq(Told \X Device!Readings)
  BY <1>3, <1>6 DEF DeviceTypes
<1>9. /\ events' \in Seq(Told \X Device!Readings) /\ DOMAIN events' = 1 .. length + k
      /\ \A n \in 1 .. length : events'[n] = events[n]
      /\ \A i \in 1 .. k : events'[length + i] = q[i]
  BY <1>6, <1>7, <1>8
<1>10. ASSUME NEW n \in DOMAIN events', n > length
       PROVE  events'[n][1] \in S /\ events'[n][2] = device
  <2>1. n \in Nat /\ n - length \in 1 .. k /\ n = length + (n - length)
    BY <1>9, <1>10
  <2>2. events'[n] = q[n - length]
    BY <1>9, <2>1
  <2> QED
    BY <1>4, <1>6, <2>1, <2>2
<1>11. ASSUME NEW s \in S
       PROVE  \E n \in DOMAIN events' : n > length /\ events'[n][1] = s
  <2>1. PICK i \in 1 .. k : order[i] = s
    BY <1>4
  <2>2. PICK n \in Nat : n = length + i
    OBVIOUS
  <2>3. n \in DOMAIN events' /\ n > length
    BY <1>9, <2>2
  <2>4. events'[n] = q[i]
    BY <1>9, <2>2
  <2>5. events'[n][1] = s
    BY <1>6, <2>1, <2>4
  <2> QED
    BY <2>3, <2>5
<1>12. \A n \in DOMAIN events : n <= length /\ n \in DOMAIN events' /\ events'[n] = events[n]
  BY <1>7, <1>9
<1>13. \A n \in DOMAIN events' :
         n \in Nat /\ (n <= length => n \in DOMAIN events /\ events'[n] = events[n])
  BY <1>7, <1>9
<1> QED
  BY <1>5, <1>9, <1>10, <1>11, <1>12, <1>13

LEMMA DeviceReadKept ==
  ASSUME Device!ScreensAssumption, DeviceTypes, EventsKept, Device!OnOrientationReadingChanged
  PROVE  DeviceTypes' /\ EventsKept'
<1>0. UNCHANGED << device, on, Device!sensorVars, Device!screenVars >>
  BY DEF Device!OnOrientationReadingChanged
<1>1. IF device # Device!Flat THEN upright' = device /\ heard' = present \cap Internal
                       ELSE UNCHANGED << upright, heard >>
  BY DEF Device!OnOrientationReadingChanged
<1>2. PICK length \in Nat :
        /\ events' \in Seq(Told \X Device!Readings)
        /\ \A n \in DOMAIN events : n <= length /\ n \in DOMAIN events' /\ events'[n] = events[n]
        /\ \A n \in DOMAIN events' :
             n \in Nat /\ (n <= length => n \in DOMAIN events /\ events'[n] = events[n])
        /\ \A n \in DOMAIN events' :
             n > length => events'[n][1] \in present \cap Internal /\ events'[n][2] = device
        /\ \A s \in present \cap Internal :
             \E n \in DOMAIN events' : n > length /\ events'[n][1] = s
  BY DeviceRead
<1>3. DeviceTypes'
  BY <1>0, <1>1, <1>2 DEF DeviceTypes, Device!screenVars, Device!sensorVars
<1>4. CASE device # Device!Flat
  <2>1. ASSUME NEW n \in DOMAIN events', events'[n][2] # Device!Flat
        PROVE  events'[n][1] \in heard'
    <3>1. CASE n <= length
      <4>1. n \in DOMAIN events /\ events'[n] = events[n]
        BY <1>2, <3>1
      <4>2. events[n][1] \in heard
        BY <2>1, <4>1 DEF EventsKept
      <4> QED
        BY <1>1, <1>4, <4>1, <4>2 DEF DeviceTypes
    <3>2. CASE n > length
      BY <1>1, <1>2, <1>4, <3>2
    <3> QED
      BY <1>2, <3>1, <3>2
  <2>2. ASSUME NEW n \in DOMAIN events', events'[n][2] # Device!Flat, LastTurn(n)'
        PROVE  events'[n][2] = upright'
    <3>1. CASE n <= length
      <4>1. events'[n][1] \in present \cap Internal
        BY <1>1, <1>4, <2>1, <2>2
      <4>2. PICK m \in DOMAIN events' : m > length /\ events'[m][1] = events'[n][1]
        BY <1>2, <4>1
      <4>3. m > n /\ events'[m][2] = device
        BY <1>2, <3>1, <4>2
      <4> QED
        BY <1>4, <2>2, <4>2, <4>3 DEF LastTurn
    <3>2. CASE n > length
      BY <1>1, <1>2, <1>4, <3>2
    <3> QED
      BY <1>2, <3>1, <3>2
  <2>3. ASSUME NEW s \in present' \cap Internal
        PROVE  \E n \in DOMAIN events' : events'[n][1] = s /\ events'[n][2] # Device!Flat
    BY <1>0, <1>2, <1>4 DEF Device!screenVars
  <2> QED
    BY <1>3, <2>1, <2>2, <2>3 DEF EventsKept
<1>5. CASE device = Device!Flat
  <2>1. \A n \in DOMAIN events' : n > length => events'[n][2] = Device!Flat
    BY <1>2, <1>5
  <2>2. ASSUME NEW n \in DOMAIN events', events'[n][2] # Device!Flat
        PROVE  events'[n][1] \in heard' /\ (LastTurn(n)' => events'[n][2] = upright')
    <3>1. n \in DOMAIN events /\ events'[n] = events[n]
      BY <1>2, <2>1, <2>2
    <3>2. LastTurn(n)' => LastTurn(n)
      <4> SUFFICES ASSUME LastTurn(n)', NEW m \in DOMAIN events, m > n, events[m][1] = events[n][1]
                   PROVE  events[m][2] = Device!Flat
        BY DEF LastTurn
      <4>1. m \in DOMAIN events' /\ events'[m] = events[m]
        BY <1>2
      <4> QED
        BY <3>1, <4>1 DEF LastTurn
    <3>3. /\ events[n][1] \in heard
          /\ LastTurn(n) => events[n][2] = upright
      BY <2>2, <3>1 DEF EventsKept
    <3> QED
      BY <1>1, <1>5, <3>1, <3>2, <3>3
  <2>3. ASSUME NEW s \in present \cap Internal,
               \A n \in DOMAIN events' : events'[n][1] = s => events'[n][2] = Device!Flat
        PROVE  orientation[s] = Device!Mapped(s, IF s \in heard THEN upright ELSE 0)
    <3>1. \A n \in DOMAIN events : events[n][1] = s => events[n][2] = Device!Flat
      BY <1>2, <2>3
    <3> QED
      BY <3>1 DEF EventsKept
  <2>4. UNCHANGED << present, orientation, heard, upright >>
    BY <1>0, <1>1, <1>5 DEF Device!screenVars
  <2> QED
    BY <1>3, <2>2, <2>3, <2>4 DEF EventsKept, Device!Mapped
<1> QED
  BY <1>4, <1>5

(* The event that the screen gets was the first one.                        *)
LEMMA DeviceEvent ==
  ASSUME DeviceTypes, Device!CustomEvent
  PROVE  /\ events' \in Seq(Told \X Device!Readings) /\ 1 \in DOMAIN events
         /\ orientation' = IF events[1][2] = Device!Flat THEN orientation
              ELSE [ orientation EXCEPT ![events[1][1]] = Device!Mapped(events[1][1], events[1][2]) ]
         /\ \A n \in DOMAIN events' :
              n \in Nat /\ n + 1 \in DOMAIN events /\ events'[n] = events[n + 1]
         /\ \A n \in DOMAIN events :
              n \in Nat /\ n >= 1 /\ (n = 1 \/ (n - 1 \in DOMAIN events' /\ events'[n - 1] = events[n]))
<1> USE DEF DeviceTypes
<1>0. events # << >> /\ events' = Tail(events)
  BY DEF Device!CustomEvent
<1>1. /\ events' \in Seq(Told \X Device!Readings)
      /\ 1 \in DOMAIN events /\ events[1] = Head(events)
      /\ \A n \in DOMAIN events' :
           n \in Nat /\ n + 1 \in DOMAIN events /\ events'[n] = events[n + 1]
  BY <1>0
<1>2. ASSUME NEW n \in DOMAIN events
      PROVE  n \in Nat /\ n >= 1 /\ (n = 1 \/ (n - 1 \in DOMAIN events' /\ events'[n - 1] = events[n]))
  <2>1. n \in Nat /\ n >= 1 /\ n <= Len(events) /\ Len(events) \in Nat
    OBVIOUS
  <2>2. Len(events') = Len(events) - 1 /\ DOMAIN events' = 1 .. Len(events')
    BY <1>0, <1>1
  <2>3. n # 1 => n - 1 \in DOMAIN events'
    BY <2>1, <2>2
  <2>4. n # 1 => events'[n - 1] = events[(n - 1) + 1]
    BY <1>1, <2>3
  <2> QED
    BY <2>1, <2>3, <2>4
<1>3. orientation' = IF events[1][2] = Device!Flat THEN orientation
        ELSE [ orientation EXCEPT ![events[1][1]] = Device!Mapped(events[1][1], events[1][2]) ]
  BY <1>1 DEF Device!CustomEvent, Device!Mapped
<1> QED
  BY <1>1, <1>2, <1>3

LEMMA DeviceEventKept ==
  ASSUME Device!ScreensAssumption, DeviceTypes, EventsKept, Device!CustomEvent
  PROVE  DeviceTypes' /\ EventsKept'
<1>0. UNCHANGED << device, heard, present, upright, sensor >>
  BY DEF Device!CustomEvent, Device!sensorVars
<1>1. PICK e \in Told \X Device!Readings : 1 \in DOMAIN events /\ e = events[1]
  BY DeviceEvent, DevicePosted
<1>2. orientation' = IF e[2] = Device!Flat THEN orientation
                                    ELSE [ orientation EXCEPT ![e[1]] = Device!Mapped(e[1], e[2]) ]
  BY <1>1, DeviceEvent
<1>3. e[2] # Device!Flat => e[1] \in heard /\ e[1] \in Screens /\ e[2] \in Device!Turns
  BY <1>1 DEF EventsKept, DeviceTypes, Device!Readings
<1>4. DeviceTypes'
  BY <1>0, <1>2, <1>3, DeviceEvent, DeviceMapped DEF DeviceTypes
<1>5. ASSUME NEW n \in DOMAIN events', events'[n][2] # Device!Flat
      PROVE  events'[n][1] \in heard' /\ (LastTurn(n)' => events'[n][2] = upright')
  <2>1. n \in Nat /\ n + 1 \in DOMAIN events /\ events'[n] = events[n + 1]
    BY DeviceEvent
  <2>2. LastTurn(n)' => LastTurn(n + 1)
    <3> SUFFICES ASSUME LastTurn(n)', NEW m \in DOMAIN events, m > n + 1,
                        events[m][1] = events[n + 1][1]
                 PROVE  events[m][2] = Device!Flat
      BY DEF LastTurn
    <3>1. m \in Nat /\ m - 1 \in DOMAIN events' /\ events'[m - 1] = events[m] /\ m - 1 > n
      BY <2>1, DeviceEvent
    <3> QED
      BY <2>1, <3>1 DEF LastTurn
  <2> QED
    BY <1>0, <1>5, <2>1, <2>2 DEF EventsKept
<1>6. ASSUME NEW s \in present \cap Internal,
             \A n \in DOMAIN events' : events'[n][1] = s => events'[n][2] = Device!Flat
      PROVE  orientation'[s] = Device!Mapped(s, IF s \in heard THEN upright ELSE 0)
  <2>1. ASSUME NEW m \in DOMAIN events, m # 1, events[m][1] = s
        PROVE  events[m][2] = Device!Flat
    BY <1>6, <2>1, DeviceEvent
  <2>2. CASE e[1] = s /\ e[2] # Device!Flat
    <3>1. LastTurn(1)
      BY <1>1, <2>1, <2>2 DEF LastTurn
    <3>2. e[2] = upright /\ s \in heard
      BY <1>1, <1>3, <2>2, <3>1 DEF EventsKept
    <3>3. orientation'[s] = Device!Mapped(s, e[2])
      BY <1>2, <1>3, <2>2 DEF DeviceTypes
    <3> QED
      BY <3>2, <3>3
  <2>3. CASE ~ (e[1] = s /\ e[2] # Device!Flat)
    <3>1. orientation'[s] = orientation[s]
      BY <1>2, <1>3, <2>3 DEF DeviceTypes
    <3>2. \A m \in DOMAIN events : events[m][1] = s => events[m][2] = Device!Flat
      BY <1>1, <2>1, <2>3
    <3> QED
      BY <3>1, <3>2 DEF EventsKept
  <2> QED
    BY <2>2, <2>3
<1> QED
  BY <1>0, <1>4, <1>5, <1>6 DEF EventsKept, Device!Mapped

(* What was posted to a screen that is deleted is forgotten.                *)
LEMMA DeviceDeleteKept ==
  ASSUME Device!ScreensAssumption, DeviceTypes, EventsKept, NEW s \in Screens, Device!DeleteScreen(s)
  PROVE  DeviceTypes' /\ EventsKept'
<1>0. /\ present' = present \ { s } /\ heard' = heard \ { s }
      /\ UNCHANGED << device, orientation, upright, sensor >>
  BY DEF Device!DeleteScreen, Device!sensorVars
<1>1. events' = [ i \in DOMAIN events |-> IF events[i][1] = s THEN << None, Device!Flat >> ELSE events[i] ]
  BY DEF Device!DeleteScreen
<1>2. events \in Seq(Told \X Device!Readings) /\ << None, Device!Flat >> \in Told \X Device!Readings
  BY DEF DeviceTypes, Told, Device!Readings
<1>3. events' \in Seq(Told \X Device!Readings)
  <2>1. PICK k \in Nat : DOMAIN events = 1 .. k
    BY <1>2
  <2>2. events' \in [ 1 .. k -> Told \X Device!Readings ]
    BY <1>1, <1>2, <2>1
  <2> QED
    BY <2>1, <2>2
<1>4. DeviceTypes'
  BY <1>0, <1>3 DEF DeviceTypes
<1>5. /\ DOMAIN events' = DOMAIN events
      /\ \A n \in DOMAIN events :
           IF events[n][1] = s THEN events'[n][1] = None /\ events'[n][2] = Device!Flat
                               ELSE events'[n] = events[n]
  BY <1>1
<1>6. ASSUME NEW n \in DOMAIN events', events'[n][2] # Device!Flat
      PROVE  events'[n][1] \in heard' /\ (LastTurn(n)' => events'[n][2] = upright')
  <2>1. n \in DOMAIN events /\ events'[n] = events[n] /\ events[n][1] # s
    BY <1>5, <1>6
  <2>2. LastTurn(n)' => LastTurn(n)
    BY <1>5, <2>1 DEF LastTurn
  <2> QED
    BY <1>0, <1>6, <2>1, <2>2 DEF EventsKept
<1>7. ASSUME NEW t \in present' \cap Internal,
             \A n \in DOMAIN events' : events'[n][1] = t => events'[n][2] = Device!Flat
      PROVE  orientation[t] = Device!Mapped(t, IF t \in heard THEN upright ELSE 0)
  <2>1. t \in present \cap Internal /\ t # s
    BY <1>0
  <2>2. \A n \in DOMAIN events : events[n][1] = t => events[n][2] = Device!Flat
    BY <1>5, <1>7, <2>1
  <2> QED
    BY <2>1, <2>2 DEF EventsKept
<1>8. ASSUME NEW t \in present' \cap Internal
      PROVE  t \in heard' <=> t \in heard
  BY <1>0
<1> QED
  BY <1>0, <1>4, <1>6, <1>7, <1>8 DEF EventsKept, Device!Mapped

LEMMA DeviceNewKept ==
  ASSUME Device!ScreensAssumption, DeviceTypes, EventsKept, NEW s \in Screens, Device!NewScreen(s)
  PROVE  DeviceTypes' /\ EventsKept'
<1>1. /\ s \notin present /\ present' = present \cup { s }
      /\ orientation' = [ orientation EXCEPT ![s] = Device!Mapped(s, 0) ]
      /\ UNCHANGED << device, heard, events, upright >>
      /\ sensor' \in { "none", "idle", "active" }
  BY DEF Device!NewScreen, Device!New, Device!StartIfNeeded, Device!sensorVars, Device!readingVars,
     DeviceTypes
<1>2. Device!Mapped(s, 0) \in Device!Turns
  BY DeviceMapped DEF Device!Turns
<1>3. DeviceTypes'
  BY <1>1, <1>2 DEF DeviceTypes
<1>4. ASSUME NEW t \in present' \cap Internal,
             \A n \in DOMAIN events : events[n][1] = t => events[n][2] = Device!Flat
      PROVE  orientation'[t] = Device!Mapped(t, IF t \in heard THEN upright ELSE 0)
  <2>1. CASE t = s
    BY <1>1, <2>1 DEF DeviceTypes
  <2>2. CASE t # s
    BY <1>1, <1>4, <2>2 DEF DeviceTypes, EventsKept
  <2> QED
    BY <2>1, <2>2
<1>5. EventsKept'
  BY <1>1, <1>4 DEF EventsKept, LastTurn, Device!Mapped
<1> QED
  BY <1>3, <1>5

LEMMA DeviceKept ==
  ASSUME Device!ScreensAssumption, DeviceInv, [Device!Next]_deviceVars
  PROVE  DeviceInv'
<1> USE DEF DeviceInv
<1>1. SensorKept'
  <2> USE DEF SensorKept, Device!StartIfNeeded, Device!StopSensor
  <2>1. CASE Device!OnCompositorStarting
    BY <2>1 DEF Device!OnCompositorStarting, Device!screenVars, DeviceTypes
  <2>2. CASE Device!OnCompositorStopping
    BY <2>2 DEF Device!OnCompositorStopping, Device!screenVars, DeviceTypes
  <2>3. ASSUME NEW status \in BOOLEAN, Device!OnDisplayPowerStateChanged(status)
        PROVE  SensorKept'
    BY <2>3 DEF Device!OnDisplayPowerStateChanged, Device!screenVars, DeviceTypes
  <2>4. ASSUME NEW s \in Screens, Device!NewScreen(s)
        PROVE  SensorKept'
    BY <2>4 DEF Device!NewScreen, Device!New, Device!sensorVars, DeviceTypes
  <2>5. ASSUME NEW s \in Screens, Device!DeleteScreen(s)
        PROVE  SensorKept'
    BY <2>5 DEF Device!DeleteScreen, Device!sensorVars
  <2>6. CASE \/ Device!CustomEvent \/ Device!OnOrientationReadingChanged \/ UNCHANGED deviceVars
             \/ \E t \in Device!Readings \ { device } : Device!Turn(t)
    BY <2>6 DEF Device!CustomEvent, Device!OnOrientationReadingChanged, Device!Turn, deviceVars,
       Device!sensorVars, Device!screenVars
  <2> QED
    BY <2>1, <2>2, <2>3, <2>4, <2>5, <2>6 DEF Device!Next
<1>2. DeviceTypes' /\ EventsKept'
  <2>1. CASE \/ Device!OnCompositorStarting \/ Device!OnCompositorStopping
             \/ \E status \in BOOLEAN : Device!OnDisplayPowerStateChanged(status)
    <3>1. /\ UNCHANGED << device, heard, Device!screenVars, Device!readingVars >>
          /\ sensor' \in { "none", "idle", "active" }
      BY <2>1 DEF Device!OnCompositorStarting, Device!OnCompositorStopping,
         Device!OnDisplayPowerStateChanged,
                  Device!StartIfNeeded, Device!StopSensor, DeviceTypes
    <3> QED
      BY <3>1 DEF DeviceTypes, EventsKept, LastTurn, Device!screenVars, Device!readingVars
  <2>2. ASSUME NEW t \in Device!Readings, Device!Turn(t)
        PROVE  DeviceTypes' /\ EventsKept'
    BY <2>2 DEF Device!Turn, DeviceTypes, EventsKept, LastTurn, Device!sensorVars,
       Device!screenVars, Device!readingVars
  <2>3. CASE UNCHANGED deviceVars
    BY <2>3 DEF deviceVars, DeviceTypes, EventsKept, LastTurn, Device!sensorVars,
       Device!screenVars, Device!readingVars
  <2> QED
    BY <2>1, <2>2, <2>3, DeviceReadKept, DeviceEventKept, DeviceDeleteKept, DeviceNewKept
       DEF Device!Next
<1> QED
  BY <1>1, <1>2

LEMMA DeviceInvAgrees ==
  ASSUME Device!ScreensAssumption, DeviceInv
  PROVE  Device!FollowsDevice
<1> USE DEF DeviceInv
<1>1. Device!SensorAgrees
  BY DEF Device!SensorAgrees, SensorKept
<1>2. Device!ScreensAgree
  BY DEF Device!ScreensAgree, EventsKept
<1> QED
  BY <1>1, <1>2 DEF Device!FollowsDevice

------------------------------------------------------------------------------
(* Scale: see ScreenScale.                                                  *)

Addressed == Windows \cup { None }

ScaleTypes ==
  /\ mirScale \in [ Screens -> Scales ] /\ scale \in [ Screens -> Scales ]
  /\ screenWindow \in [ Screens -> Addressed ]
  /\ screenOf \in [ Windows -> Screens \cup { None } ]
  /\ kept \in [ Windows -> Scales \cup { None } ]
  /\ scaleNotices \in Seq(Addressed)

(* The window that a screen knows is on that screen.                        *)
KnownIsOn == \A s \in Screens, w \in Windows : screenWindow[s] = w => screenOf[w] = s

ScaleInv == ScaleTypes /\ KnownIsOn /\ Scale!ScaleAgrees

LEMMA ScaleInit == Scale!ScalesAssumption /\ Scale!Init => ScaleInv
<1> SUFFICES ASSUME Scale!ScalesAssumption, Scale!Init PROVE ScaleInv
  OBVIOUS
<1>1. ScaleTypes
  BY DEF Scale!Init, ScaleTypes, Addressed
<1>2. KnownIsOn /\ Scale!ScaleAgrees
  BY DEF Scale!Init, KnownIsOn, Scale!ScaleAgrees, Scale!ScalesAssumption
<1> QED
  BY <1>1, <1>2 DEF ScaleInv

(* The finite sets of ScreenScale are those of the library's theorems.  *)
LEMMA ScaleSets ==
  ASSUME NEW S
  PROVE  (Scale!IsFiniteSet(S) <=> IsFiniteSet(S)) /\ Scale!Cardinality(S) = Cardinality(S)
BY DEF Scale!IsFiniteSet, IsFiniteSet, Scale!Cardinality, Cardinality

(* Each window that is told has a signal posted, after what was posted.     *)
LEMMA ScaleTold ==
  ASSUME Scale!ScalesAssumption, ScaleTypes, Scale!UpdateInMirThread
  PROVE  scaleNotices' \in Seq(Addressed) /\ Scale!Range(scaleNotices) \cup Scale!Told \subseteq Scale!Range(scaleNotices')
<1>1. Scale!Told \subseteq Windows /\ IsFiniteSet(Scale!Told)
  BY FS_Subset, ScaleSets DEF Scale!ScalesAssumption, Scale!Told
<1>2. PICK k \in Nat : k = Cardinality(Scale!Told)
  BY <1>1, FS_CardinalityType
<1>3. PICK order \in Scale!Bijection(1 .. k, Scale!Told) : scaleNotices' = scaleNotices \o order
  BY <1>2, ScaleSets DEF Scale!UpdateInMirThread
<1>4. order \in [ 1 .. k -> Scale!Told ] /\ \A w \in Scale!Told : \E i \in 1 .. k : order[i] = w
  BY DEF Scale!Bijection, Scale!Injection, Scale!Surjection
<1>5. order \in [ 1 .. k -> Addressed ]
  BY <1>1, <1>4 DEF Addressed
<1>6. order \in Seq(Addressed) /\ Len(order) = k
  BY <1>5
<1>7. PICK length \in Nat : length = Len(scaleNotices) /\ DOMAIN scaleNotices = 1 .. length
  BY DEF ScaleTypes
<1>8. scaleNotices \in Seq(Addressed)
  BY DEF ScaleTypes
<1>9. /\ scaleNotices' \in Seq(Addressed) /\ DOMAIN scaleNotices' = 1 .. length + k
      /\ \A n \in 1 .. length : scaleNotices'[n] = scaleNotices[n]
      /\ \A i \in 1 .. k : scaleNotices'[length + i] = order[i]
  BY <1>3, <1>6, <1>7, <1>8
<1>10. ASSUME NEW w \in Scale!Told
       PROVE  w \in Scale!Range(scaleNotices')
  <2>1. PICK i \in 1 .. k : order[i] = w
    BY <1>4
  <2>2. PICK n \in Nat : n = length + i
    OBVIOUS
  <2>3. n \in DOMAIN scaleNotices' /\ scaleNotices'[n] = w
    BY <1>9, <2>1, <2>2
  <2> QED
    BY <2>3 DEF Scale!Range
<1>11. ASSUME NEW n \in DOMAIN scaleNotices
       PROVE  n \in DOMAIN scaleNotices' /\ scaleNotices'[n] = scaleNotices[n]
  BY <1>7, <1>9
<1> QED
  BY <1>9, <1>10, <1>11 DEF Scale!Range

(* What was posted of a window's last handle is nobody's.                   *)
LEMMA ScaleDropped ==
  ASSUME ScaleTypes, NEW w \in Windows
  PROVE  Scale!NotOf(w) \in Seq(Addressed)
<1>1. scaleNotices \in Seq(Addressed)
  BY DEF ScaleTypes
<1>2. PICK k \in Nat : DOMAIN scaleNotices = 1 .. k
  BY <1>1
<1>3. Scale!NotOf(w) \in [ 1 .. k -> Addressed ]
  BY <1>1, <1>2 DEF Scale!NotOf, Addressed
<1> QED
  BY <1>3

LEMMA ScaleNotOf ==
  ASSUME NEW w \in Windows, NEW v \in Windows, v # w, v \in Scale!Range(scaleNotices)
  PROVE  v \in Scale!Range(Scale!NotOf(w))
BY DEF Scale!NotOf, Scale!Range

LEMMA ScaleHeard ==
  ASSUME ScaleTypes, Scale!NativePropertyChanged
  PROVE  /\ scaleNotices' \in Seq(Addressed) /\ Head(scaleNotices) \in Addressed
         /\ \A w \in Windows : w \in Scale!Range(scaleNotices) => w = Head(scaleNotices) \/ w \in Scale!Range(scaleNotices')
<1>0. scaleNotices # << >> /\ scaleNotices' = Tail(scaleNotices) /\ scaleNotices \in Seq(Addressed)
  BY DEF Scale!NativePropertyChanged, ScaleTypes
<1>1. scaleNotices' \in Seq(Addressed) /\ Head(scaleNotices) \in Addressed /\ Head(scaleNotices) = scaleNotices[1]
  BY <1>0
<1>2. ASSUME NEW n \in DOMAIN scaleNotices, n # 1
      PROVE  n - 1 \in DOMAIN scaleNotices' /\ scaleNotices'[n - 1] = scaleNotices[n]
  <2>1. n \in Nat /\ n >= 1 /\ n <= Len(scaleNotices) /\ Len(scaleNotices) \in Nat
    BY <1>0
  <2>2. Len(scaleNotices') = Len(scaleNotices) - 1 /\ DOMAIN scaleNotices' = 1 .. Len(scaleNotices')
    BY <1>0, <1>1
  <2>3. n - 1 \in DOMAIN scaleNotices'
    BY <1>2, <2>1, <2>2
  <2>4. \A m \in DOMAIN scaleNotices' : m \in Nat /\ scaleNotices'[m] = scaleNotices[m + 1]
    BY <1>0
  <2>5. scaleNotices'[n - 1] = scaleNotices[(n - 1) + 1]
    BY <2>3, <2>4
  <2> QED
    BY <2>1, <2>3, <2>5
<1> QED
  BY <1>1, <1>2 DEF Scale!Range

LEMMA ScaleKept ==
  ASSUME Scale!ScalesAssumption, ScaleInv, [Scale!Next]_scaleVars
  PROVE  ScaleInv'
<1> USE DEF ScaleInv
<1>0. /\ None \notin Windows /\ None \notin Screens /\ None \notin Scales
      /\ \A w \in Windows : screenOf[w] # None => screenOf[w] \in Screens
  BY DEF Scale!ScalesAssumption, ScaleTypes
<1>1. ASSUME NEW s \in Screens, NEW v \in Scales, Scale!Configure(s, v)
      PROVE  ScaleInv'
  BY <1>1 DEF Scale!Configure, ScaleTypes, KnownIsOn, Scale!ScaleAgrees
<1>2. CASE Scale!UpdateInGuiThread
  <2>1. /\ scale' = mirScale /\ UNCHANGED << mirScale, screenWindow, screenOf, scaleNotices >>
        /\ kept' = [ w \in Windows |-> IF w \in Scale!Told THEN mirScale[screenOf[w]] ELSE kept[w] ]
        /\ scaleUnheard' = (scaleUnheard \ Scale!Told) \cup Scale!NotTold
    BY <1>2 DEF Scale!UpdateInGuiThread
  <2>2. \A w \in Scale!Told : w \in Windows /\ screenOf[w] \in Scale!Changed /\ screenOf[w] \in Screens
    BY DEF Scale!Told, Scale!Changed, KnownIsOn
  <2>3. ScaleTypes' /\ KnownIsOn'
    BY <2>1, <2>2 DEF ScaleTypes, KnownIsOn
  <2>4. ASSUME NEW w \in Windows, screenOf[w] # None, kept'[w] # None, w \notin Scale!Range(scaleNotices), w \notin scaleUnheard'
        PROVE  kept'[w] = scale'[screenOf[w]]
    <3>1. CASE w \in Scale!Told
      BY <2>1, <3>1
    <3>2. CASE w \notin Scale!Told
      <4>1. w \notin scaleUnheard /\ screenOf[w] \notin Scale!Changed /\ kept'[w] = kept[w]
        BY <2>1, <2>4, <3>2 DEF Scale!NotTold
      <4>2. scale'[screenOf[w]] = scale[screenOf[w]]
        BY <1>0, <2>1, <2>4, <4>1 DEF Scale!Changed
      <4> QED
        BY <2>4, <4>1, <4>2 DEF Scale!ScaleAgrees
    <3> QED
      BY <3>1, <3>2
  <2> QED
    BY <2>1, <2>3, <2>4 DEF Scale!ScaleAgrees, Scale!Range
<1>3. CASE Scale!UpdateInMirThread
  <2>1. /\ scale' = mirScale /\ UNCHANGED << mirScale, screenWindow, screenOf, kept >>
        /\ scaleUnheard' = scaleUnheard \cup Scale!NotTold
    BY <1>3 DEF Scale!UpdateInMirThread
  <2>2. ScaleTypes' /\ KnownIsOn'
    BY <1>3, <2>1, ScaleTold DEF ScaleTypes, KnownIsOn
  <2>3. ASSUME NEW w \in Windows, screenOf[w] # None, kept[w] # None, w \notin Scale!Range(scaleNotices'), w \notin scaleUnheard'
        PROVE  kept[w] = scale'[screenOf[w]]
    <3>1. w \notin Scale!Told /\ w \notin Scale!Range(scaleNotices)
      BY <1>3, <2>3, ScaleTold
    <3>2. w \notin scaleUnheard /\ screenOf[w] \notin Scale!Changed
      BY <2>1, <2>3, <3>1 DEF Scale!NotTold
    <3>3. scale'[screenOf[w]] = scale[screenOf[w]]
      BY <1>0, <2>1, <2>3, <3>2 DEF Scale!Changed
    <3> QED
      BY <2>3, <3>1, <3>2, <3>3 DEF Scale!ScaleAgrees
  <2> QED
    BY <2>1, <2>2, <2>3 DEF Scale!ScaleAgrees
<1>4. ASSUME NEW w \in Windows, NEW s \in Screens, Scale!CreatePlatformWindow(w, s)
      PROVE  ScaleInv'
  <2>1. /\ screenOf[w] = None /\ screenOf' = [ screenOf EXCEPT ![w] = s ]
        /\ screenWindow' = [ screenWindow EXCEPT ![s] = w ]
        /\ scaleUnheard' = IF kept[w] = None THEN scaleUnheard ELSE scaleUnheard \cup { w }
        /\ UNCHANGED << mirScale, scale, kept, scaleNotices >>
    BY <1>4 DEF Scale!CreatePlatformWindow
  <2>2. ScaleTypes'
    BY <2>1 DEF ScaleTypes, Addressed
  <2>3. KnownIsOn'
    BY <1>0, <2>1 DEF KnownIsOn, ScaleTypes
  <2>4. Scale!ScaleAgrees'
    BY <2>1 DEF Scale!ScaleAgrees, ScaleTypes, Scale!Range
  <2> QED
    BY <2>2, <2>3, <2>4
<1>5. ASSUME NEW w \in Windows, Scale!DestroyPlatformWindow(w)
      PROVE  ScaleInv'
  <2>1. /\ screenOf[w] # None /\ screenOf' = [ screenOf EXCEPT ![w] = None ]
        /\ screenWindow' = [ screenWindow EXCEPT ![screenOf[w]] = None ]
        /\ scaleNotices' = Scale!NotOf(w)
        /\ UNCHANGED << mirScale, scale, kept, scaleUnheard >>
    BY <1>5 DEF Scale!DestroyPlatformWindow
  <2>2. scaleNotices' \in Seq(Addressed)
    BY <2>1, ScaleDropped
  <2>3. ScaleTypes'
    BY <2>1, <2>2 DEF ScaleTypes, Addressed
  <2>4. KnownIsOn'
    BY <1>0, <2>1 DEF KnownIsOn, ScaleTypes
  <2>5. ASSUME NEW v \in Windows, screenOf'[v] # None, kept[v] # None, v \notin Scale!Range(scaleNotices'), v \notin scaleUnheard
        PROVE  kept[v] = scale[screenOf'[v]]
    <3>1. v # w /\ screenOf'[v] = screenOf[v]
      BY <2>1, <2>5 DEF ScaleTypes
    <3>2. v \notin Scale!Range(scaleNotices)
      BY <2>1, <2>5, <3>1, ScaleNotOf
    <3> QED
      BY <2>5, <3>1, <3>2 DEF Scale!ScaleAgrees
  <2> QED
    BY <2>1, <2>3, <2>4, <2>5 DEF Scale!ScaleAgrees
<1>6. ASSUME NEW w \in Windows, Scale!Scale(w)
      PROVE  ScaleInv'
  <2>1. Scale!WindowProperty(w) \in Scales \cup { None } /\ (screenOf[w] # None => Scale!WindowProperty(w) = scale[screenOf[w]])
    BY <1>0 DEF Scale!WindowProperty, ScaleTypes
  <2>2. ScaleTypes' /\ KnownIsOn'
    BY <1>6, <2>1 DEF Scale!Scale, ScaleTypes, KnownIsOn
  <2>3. Scale!ScaleAgrees'
    BY <1>6, <2>1 DEF Scale!Scale, ScaleTypes, Scale!ScaleAgrees
  <2> QED
    BY <2>2, <2>3
<1>7. CASE Scale!NativePropertyChanged
  <2>1. PICK w \in Addressed : w = Head(scaleNotices)
    BY <1>7, ScaleHeard
  <2>2. /\ IF w = None THEN UNCHANGED kept ELSE kept' = [ kept EXCEPT ![w] = Scale!WindowProperty(w) ]
        /\ scaleUnheard' = scaleUnheard \ { w }
        /\ UNCHANGED << mirScale, scale, screenWindow, screenOf >>
    BY <1>7, <2>1 DEF Scale!NativePropertyChanged
  <2>3. w # None => w \in Windows
    BY DEF Addressed
  <2>4. w # None => /\ Scale!WindowProperty(w) \in Scales \cup { None }
                    /\ screenOf[w] # None => Scale!WindowProperty(w) = scale[screenOf[w]]
    BY <1>0, <2>3 DEF Scale!WindowProperty, ScaleTypes
  <2>5. ScaleTypes' /\ KnownIsOn'
    BY <1>7, <2>2, <2>3, <2>4, ScaleHeard DEF ScaleTypes, KnownIsOn
  <2>6. ASSUME NEW v \in Windows, screenOf[v] # None, kept'[v] # None, v \notin Scale!Range(scaleNotices'), v \notin scaleUnheard'
        PROVE  kept'[v] = scale[screenOf[v]]
    <3>1. CASE v = w
      BY <1>0, <2>2, <2>4, <2>6, <3>1 DEF ScaleTypes
    <3>2. CASE v # w
      <4>1. v \notin Scale!Range(scaleNotices) /\ v \notin scaleUnheard /\ kept'[v] = kept[v]
        BY <1>7, <2>1, <2>2, <2>6, <3>2, ScaleHeard DEF ScaleTypes
      <4> QED
        BY <2>6, <4>1 DEF Scale!ScaleAgrees
    <3> QED
      BY <3>1, <3>2
  <2> QED
    BY <2>2, <2>5, <2>6 DEF Scale!ScaleAgrees
<1>8. ASSUME NEW w \in Windows, NEW s \in Screens, Scale!SetScreen(w, s)
      PROVE  ScaleInv'
  <2>1. /\ screenOf[w] # None /\ Scale!Recreate(w, s)
        /\ kept' = [ kept EXCEPT ![w] = scale[s] ] /\ scaleUnheard' = scaleUnheard \ { w }
        /\ UNCHANGED << mirScale, scale >>
    BY <1>8 DEF Scale!SetScreen
  <2>2. screenOf' = [ screenOf EXCEPT ![w] = s ]
    BY <2>1 DEF Scale!Recreate, ScaleTypes
  <2>3. CASE s = screenOf[w]
    <3>1. UNCHANGED << screenOf, screenWindow, scaleNotices >>
      BY <2>1, <2>3 DEF Scale!Recreate
    <3> QED
      BY <2>1, <2>3, <3>1 DEF ScaleTypes, KnownIsOn, Scale!ScaleAgrees, Scale!Range
  <2>4. CASE s # screenOf[w]
    <3>1. /\ screenWindow' = [ screenWindow EXCEPT ![screenOf[w]] = None, ![s] = w ]
          /\ scaleNotices' = Scale!NotOf(w)
      BY <2>1, <2>4 DEF Scale!Recreate
    <3>2. scaleNotices' \in Seq(Addressed)
      BY <3>1, ScaleDropped
    <3>3. ScaleTypes'
      BY <2>1, <2>2, <3>1, <3>2 DEF ScaleTypes, Addressed
    <3>4. ASSUME NEW t \in Screens, NEW v \in Windows, screenWindow'[t] = v
          PROVE  screenOf'[v] = t
      <4>1. screenOf[w] \in Screens
        BY <1>0, <2>1
      <4>2. CASE t = s
        BY <2>2, <3>1, <3>4, <4>1, <4>2 DEF ScaleTypes
      <4>3. CASE t # s
        <5>1. t # screenOf[w] /\ screenWindow[t] = v
          BY <1>0, <3>1, <3>4, <4>1, <4>3 DEF ScaleTypes
        <5>2. screenOf[v] = t /\ v # w
          BY <5>1 DEF KnownIsOn
        <5> QED
          BY <2>2, <5>2 DEF ScaleTypes
      <4> QED
        BY <4>2, <4>3
    <3>5. ASSUME NEW v \in Windows, screenOf'[v] # None, kept'[v] # None, v \notin Scale!Range(scaleNotices'), v \notin scaleUnheard'
          PROVE  kept'[v] = scale[screenOf'[v]]
      <4>1. CASE v = w
        BY <2>1, <2>2, <4>1 DEF ScaleTypes
      <4>2. CASE v # w
        <5>1. v \notin Scale!Range(scaleNotices)
          BY <3>1, <3>5, <4>2, ScaleNotOf
        <5> QED
          BY <2>1, <2>2, <3>5, <4>2, <5>1 DEF Scale!ScaleAgrees, ScaleTypes
      <4> QED
        BY <4>1, <4>2
    <3> QED
      BY <2>1, <3>3, <3>4, <3>5 DEF Scale!ScaleAgrees, KnownIsOn
  <2> QED
    BY <2>3, <2>4
<1>9. ASSUME NEW w \in Windows, NEW v \in Scales, Scale!SetScaleAndFormFactor(w, v)
      PROVE  ScaleInv'
  <2>1. /\ mirScale' = [ scale EXCEPT ![screenOf[w]] = v ]
        /\ UNCHANGED << scale, screenWindow, screenOf, kept, scaleNotices, scaleUnheard >>
    BY <1>9 DEF Scale!SetScaleAndFormFactor, Scale!SetConfiguration, Scale!Configuration
  <2>2. ScaleTypes'
    BY <2>1 DEF ScaleTypes
  <2>3. KnownIsOn' /\ Scale!ScaleAgrees'
    BY <2>1 DEF KnownIsOn, Scale!ScaleAgrees
  <2> QED
    BY <2>2, <2>3
<1>10. CASE UNCHANGED scaleVars
  BY <1>10 DEF scaleVars, ScaleTypes, KnownIsOn, Scale!ScaleAgrees
<1> QED
  BY <1>1, <1>2, <1>3, <1>4, <1>5, <1>6, <1>7, <1>8, <1>9, <1>10 DEF Scale!Next

(* For any screens, windows and scales, and whatever is posted when, each   *)
(* screen that is built in follows how the device is held from the first    *)
(* reading it is told of, while the compositor works and the power did not  *)
(* go off meanwhile; and each window has the scale of its screen, but for   *)
(* one whose handle was made anew or that its screen does not know: see     *)
(* Orientation and ScreenScale.                                             *)
THEOREM ScreensTold == SurfacesSpec => []ScreensFollow
<1> DEFINE Inv == (part = "device" => DeviceInv) /\ (part = "scale" => ScaleInv)
<1> USE DeviceAssumption, ScaleAssumption
<1>1. SurfacesInit => Inv
  BY DeviceInit, ScaleInit DEF SurfacesInit
<1>2. Inv /\ [UNCHANGED part /\ SurfacesNext]_<< part, surfacesVars >> => Inv'
  <2>1. part = "device" /\ DeviceInv /\ [Device!Next]_deviceVars => DeviceInv'
    BY DeviceKept
  <2>2. part = "scale" /\ ScaleInv /\ [Scale!Next]_scaleVars => ScaleInv'
    BY ScaleKept
  <2> QED
    BY <2>1, <2>2 DEF SurfacesNext, surfacesVars
<1>3. Inv => ScreensFollow
  BY DeviceInvAgrees DEF ScreensFollow, ScaleInv
<1> QED
  BY <1>1, <1>2, <1>3, PTL DEF SurfacesSpec

------------------------------------------------------------------------------
(* Touches: see TouchInput.                                                 *)

(* The touches the item takes to be down after the last event it got.       *)
LastDown == DOMAIN Touch!Unreleased(last.points)

TouchTypes ==
  /\ activeTouches \subseteq Touches /\ qtDown \subseteq Touches /\ grabbed \subseteq qtDown
  /\ touchEvents \in Seq(Touch!Named(Touch!States))
  /\ surface \in Surfaces \cup { NoSurface } /\ liveToTouch \subseteq Surfaces
  /\ heldTouches \in [ Surfaces -> SUBSET Touches ] /\ last.type \in Touch!Types

(* Each event on its way continues the one before it, and Mir's next event  *)
(* the last one.                                                            *)
Chained ==
  /\ \A i \in DOMAIN touchEvents : Touch!Stream!Sane(Touch!Stream!Before(i, touchEvents), touchEvents[i])
  /\ activeTouches = Touch!Stream!Before(Len(touchEvents) + 1, touchEvents)

(* A client that missed nothing holds what its item takes to be down, which *)
(* is what the item has grabbed unless another took that; the other clients *)
(* hold nothing; and between sequences there is nothing down.               *)
HeldIsGrabbed ==
  /\ surface \in Surfaces \ missedEnd =>
       heldTouches[surface] = LastDown /\ (grabbed = {} \/ grabbed = LastDown)
  /\ \A s \in Surfaces \ (missedEnd \cup { surface }) : heldTouches[s] = {}
  /\ last.type \in { "none", "end" } => LastDown = {} /\ grabbed = {}

TouchInv == TouchTypes /\ Chained /\ HeldIsGrabbed

LEMMA TouchInit == Touch!Init => TouchInv
<1> SUFFICES ASSUME Touch!Init PROVE TouchInv
  OBVIOUS
<1>1. TouchTypes
  BY DEF Touch!Init, TouchTypes, Touch!Types
<1>2. Chained
  <2>1. touchEvents = << >> /\ Len(touchEvents) = 0 /\ DOMAIN touchEvents = {} /\ qtDown = {} /\ activeTouches = {}
    BY DEF Touch!Init
  <2> QED
    BY <2>1 DEF Chained, Touch!Stream!Before
<1>3. HeldIsGrabbed
  BY DEF Touch!Init, HeldIsGrabbed, LastDown, Touch!Unreleased, Touch!Only, Touch!NoPoints
<1> QED
  BY <1>1, <1>2, <1>3 DEF TouchInv

LEMMA TouchStreamInit == Touch!Init => Touch!Stream!Init
BY DEF Touch!Init, Touch!Stream!Init

(* The touches that are active once the first of an order were released.    *)
Left(order, i) == activeTouches \ { order[j] : j \in 1 .. i }

(* The releases of touches that are missing, one by one, each continue what *)
(* is there, and leave the touches that are not.                            *)
LEMMA TouchReleases ==
  ASSUME TouchTypes, NEW k \in Nat, NEW missing \in SUBSET activeTouches,
         NEW order \in Touch!Bijection(1 .. k, missing),
         NEW r, r = Touch!Releases(order)
  PROVE  /\ r \in Seq(Touch!Named(Touch!States)) /\ Len(r) = k /\ DOMAIN r = 1 .. k
         /\ \A i \in 1 .. k :
              Touch!Stream!Sane(Left(order, i - 1), r[i]) /\ Touch!Stream!After(r[i]) = Left(order, i)
         /\ Left(order, 0) = activeTouches /\ Left(order, k) = activeTouches \ missing
<1>1. /\ order \in [ 1 .. k -> missing ]
      /\ \A i \in 1 .. k, j \in 1 .. k : order[i] = order[j] => i = j
      /\ \A t \in missing : \E i \in 1 .. k : order[i] = t
  BY DEF Touch!Bijection, Touch!Injection, Touch!Surjection, Touch!IsInjective
<1>2. ASSUME NEW i \in 1 .. k
      PROVE  /\ r[i] \in Touch!Named(Touch!States)
             /\ Touch!Stream!Sane(Left(order, i - 1), r[i]) /\ Touch!Stream!After(r[i]) = Left(order, i)
  <2> DEFINE before == activeTouches \ { order[j] : j \in 1 .. i - 1 }
             after == activeTouches \ { order[j] : j \in 1 .. i }
  <2>1. r[i] = [ u \in before |-> IF u = order[i] THEN "released" ELSE "stationary" ]
    BY <1>1 DEF Touch!Releases, Touch!ActiveTouchRelease
  <2>2. order[i] \in before
    BY <1>1
  <2>3. after = before \ { order[i] }
    <3>1. \A j \in 1 .. i : j = i \/ j \in 1 .. i - 1
      OBVIOUS
    <3>2. \A j \in 1 .. i - 1 : j \in 1 .. i
      OBVIOUS
    <3>3. i \in 1 .. i
      OBVIOUS
    <3> QED
      BY <3>1, <3>2, <3>3
  <2>4. before \in SUBSET Touches
    BY DEF TouchTypes
  <2> HIDE DEF before, after
  <2>5. r[i] \in [ before -> Touch!States ] /\ DOMAIN r[i] = before
    BY <2>1 DEF Touch!States
  <2>6. r[i] \in Touch!Named(Touch!States)
    BY <2>4, <2>5 DEF Touch!Named
  <2>7. Touch!Stream!With(r[i], "pressed") = {} /\ Touch!Stream!With(r[i], "released") = { order[i] }
    BY <2>1, <2>2 DEF Touch!Stream!With
  <2>8. Touch!Stream!Sane(before, r[i])
    BY <2>2, <2>5, <2>7 DEF Touch!Stream!Sane
  <2>9. Touch!Stream!After(r[i]) = after
    BY <2>3, <2>5, <2>7 DEF Touch!Stream!After
  <2> QED
    BY <2>6, <2>8, <2>9 DEF before, after, Left
<1>3. DOMAIN r = 1 .. k
  BY <1>1 DEF Touch!Releases
<1>4. r = [ i \in 1 .. k |-> r[i] ]
  BY <1>1 DEF Touch!Releases
<1>5. r \in [ 1 .. k -> Touch!Named(Touch!States) ]
  BY <1>2, <1>4
<1>6. r \in Seq(Touch!Named(Touch!States)) /\ Len(r) = k
  BY <1>3, <1>5
<1>7. Left(order, 0) = activeTouches /\ Left(order, k) = activeTouches \ missing
  BY <1>1 DEF Left
<1> QED
  BY <1>2, <1>3, <1>6, <1>7

(* What is sent of an event continues what the touches that it lacks leave. *)
LEMMA TouchValid ==
  ASSUME TouchTypes, NEW points \in Touch!Named({ "pressed", "moved", "released" }), NEW valid,
         valid = [ t \in DOMAIN points \ Touch!Discarded(points) |-> Touch!Validated(points[t], t) ]
  PROVE  /\ valid \in Touch!Named(Touch!States)
         /\ Touch!With(valid, "pressed") = DOMAIN valid \ activeTouches
<1>1. PICK T \in SUBSET Touches : points \in [ T -> { "pressed", "moved", "released" } ]
  BY DEF Touch!Named
<1>2. DOMAIN valid \in SUBSET Touches /\ DOMAIN valid \in SUBSET T
  BY <1>1
<1>3. ASSUME NEW t \in DOMAIN valid
      PROVE  valid[t] \in Touch!States /\ (valid[t] = "pressed" <=> t \notin activeTouches)
  <2>1. points[t] \in { "pressed", "moved", "released" } /\ valid[t] = Touch!Validated(points[t], t)
    BY <1>1, <1>2
  <2>2. points[t] = "released" => t \in activeTouches
    BY <1>1, <1>2 DEF Touch!Discarded, Touch!With
  <2> QED
    BY <2>1, <2>2 DEF Touch!Validated, Touch!States
<1>4. valid = [ t \in DOMAIN valid |-> valid[t] ]
  OBVIOUS
<1>5. valid \in [ DOMAIN valid -> Touch!States ]
  BY <1>3, <1>4
<1>6. valid \in Touch!Named(Touch!States)
  BY <1>2, <1>5 DEF Touch!Named
<1>7. Touch!With(valid, "pressed") = DOMAIN valid \ activeTouches
  BY <1>3 DEF Touch!With
<1> QED
  BY <1>6, <1>7

LEMMA TouchJoined ==
  ASSUME NEW S, NEW a \in Seq(S), NEW b \in Seq(S), NEW q, q = a \o b
  PROVE  /\ q \in Seq(S) /\ Len(a) \in Nat /\ Len(b) \in Nat /\ Len(q) = Len(a) + Len(b)
         /\ \A i \in 1 .. Len(a) : q[i] = a[i]
         /\ \A i \in 1 .. Len(b) : q[Len(a) + i] = b[i]
<1>1. q \in Seq(S) /\ Len(q) = Len(a) + Len(b)
  BY ConcatProperties
<1>2. ASSUME NEW i \in 1 .. Len(a)
      PROVE  q[i] = a[i]
  BY ConcatProperties
<1>3. ASSUME NEW i \in 1 .. Len(b)
      PROVE  q[Len(a) + i] = b[i]
  BY ConcatProperties
<1> QED
  BY <1>1, <1>2, <1>3

(* The finite sets of TouchInput are those of the library's theorems.       *)
LEMMA TouchSets ==
  ASSUME NEW S
  PROVE  (Touch!IsFiniteSet(S) <=> IsFiniteSet(S)) /\ Touch!Cardinality(S) = Cardinality(S)
BY DEF Touch!IsFiniteSet, IsFiniteSet, Touch!Cardinality, Cardinality

(* What QtEventFeeder puts into Qt's queue continues what is there, and     *)
(* leaves the touches down that it takes to be active.                      *)
LEMMA TouchDispatched ==
  ASSUME Touch!TouchAssumption, TouchTypes, Chained,
         NEW points \in Touch!Named({ "pressed", "moved", "released" }), Touch!DispatchTouch(points),
         NEW n, n = Len(touchEvents), NEW q, q = touchEvents'
  PROVE  /\ q \in Seq(Touch!Named(Touch!States)) /\ n \in Nat /\ Len(q) \in Nat /\ Len(q) >= n
         /\ \A i \in 1 .. n : q[i] = touchEvents[i]
         /\ \A i \in n + 1 .. Len(q) : Touch!Stream!Sane(Touch!Stream!Before(i, q), q[i])
         /\ activeTouches' \subseteq Touches /\ activeTouches' = Touch!Stream!Before(Len(q) + 1, q)
<1>1. PICK valid : valid = [ t \in DOMAIN points \ Touch!Discarded(points) |-> Touch!Validated(points[t], t) ]
  OBVIOUS
<1>2. PICK missing : missing = activeTouches \ DOMAIN valid
  OBVIOUS
<1>3. PICK k : k = Touch!Cardinality(missing)
  OBVIOUS
<1>4. k \in Nat
  <2>1. missing \subseteq Touches /\ Touch!IsFiniteSet(Touches)
    BY <1>2 DEF TouchTypes, Touch!TouchAssumption
  <2> QED
    BY <1>3, <2>1, TouchSets, FS_Subset, FS_CardinalityType
<1>5. PICK order \in Touch!Bijection(1 .. k, missing) :
        touchEvents' = touchEvents \o Touch!Releases(order) \o Touch!Sent(valid)
    BY <1>1, <1>2, <1>3 DEF Touch!DispatchTouch
<1>6. activeTouches' = DOMAIN valid \ Touch!With(valid, "released")
  BY <1>1 DEF Touch!DispatchTouch
<1>7. PICK r : r = Touch!Releases(order)
  OBVIOUS
<1>8. /\ r \in Seq(Touch!Named(Touch!States)) /\ Len(r) = k
      /\ \A i \in 1 .. k : Touch!Stream!Sane(Left(order, i - 1), r[i]) /\ Touch!Stream!After(r[i]) = Left(order, i)
      /\ Left(order, k) = activeTouches \ missing
  <2>1. missing \in SUBSET activeTouches
    BY <1>2
  <2>2. r \in Seq(Touch!Named(Touch!States)) /\ Len(r) = k
    BY <1>4, <1>7, <2>1, TouchReleases
  <2>3. ASSUME NEW i \in 1 .. k
        PROVE  Touch!Stream!Sane(Left(order, i - 1), r[i]) /\ Touch!Stream!After(r[i]) = Left(order, i)
    BY <1>4, <1>7, <2>1, TouchReleases
  <2>4. Left(order, k) = activeTouches \ missing
    BY <1>4, <1>7, <2>1, TouchReleases
  <2> QED
    BY <2>2, <2>3, <2>4
<1>9. Left(order, 0) = activeTouches
  <2>1. missing \in SUBSET activeTouches
    BY <1>2
  <2> QED
    BY <1>4, <1>7, <2>1, TouchReleases
<1>10. valid \in Touch!Named(Touch!States) /\ Touch!With(valid, "pressed") = DOMAIN valid \ activeTouches
  BY <1>1, TouchValid
<1>11. PICK s : s = Touch!Sent(valid)
  OBVIOUS
<1>12. /\ s \in Seq(Touch!Named(Touch!States)) /\ Len(s) = IF DOMAIN valid = {} THEN 0 ELSE 1
       /\ DOMAIN valid # {} => s[1] = valid
  BY <1>10, <1>11 DEF Touch!Sent
<1>13. PICK p : p = touchEvents \o r
  OBVIOUS
<1>14. q = p \o s
  BY <1>5, <1>7, <1>11, <1>13
<1>15. touchEvents \in Seq(Touch!Named(Touch!States))
  BY DEF TouchTypes
<1>16. /\ p \in Seq(Touch!Named(Touch!States)) /\ n \in Nat /\ Len(p) = n + k
       /\ \A i \in 1 .. n : p[i] = touchEvents[i]
       /\ \A i \in 1 .. k : p[n + i] = r[i]
  <2>1. /\ p \in Seq(Touch!Named(Touch!States)) /\ Len(touchEvents) \in Nat /\ Len(r) \in Nat /\ Len(p) = Len(touchEvents) + Len(r)
        /\ \A i \in 1 .. Len(touchEvents) : p[i] = touchEvents[i]
        /\ \A i \in 1 .. Len(r) : p[Len(touchEvents) + i] = r[i]
    <3>1. r \in Seq(Touch!Named(Touch!States))
      BY <1>8
    <3> QED
      BY <1>13, <1>15, <3>1, TouchJoined
  <2>2. Len(touchEvents) = n /\ Len(r) = k
    BY <1>8
  <2> QED
    BY <2>1, <2>2
<1>17. /\ q \in Seq(Touch!Named(Touch!States)) /\ Len(q) = n + k + Len(s)
       /\ \A i \in 1 .. n + k : q[i] = p[i]
       /\ \A i \in 1 .. Len(s) : q[n + k + i] = s[i]
  <2>1. /\ q \in Seq(Touch!Named(Touch!States)) /\ Len(p) \in Nat /\ Len(s) \in Nat /\ Len(q) = Len(p) + Len(s)
        /\ \A i \in 1 .. Len(p) : q[i] = p[i]
        /\ \A i \in 1 .. Len(s) : q[Len(p) + i] = s[i]
    <3>1. p \in Seq(Touch!Named(Touch!States)) /\ s \in Seq(Touch!Named(Touch!States))
      BY <1>12, <1>16
    <3> QED
      BY <1>14, <3>1, TouchJoined
  <2>2. Len(p) = n + k
    BY <1>16
  <2> QED
    BY <2>1, <2>2
<1>18. n \in Nat /\ k \in Nat /\ Len(q) = IF DOMAIN valid = {} THEN n + k ELSE n + k + 1
  <2>1. n \in Nat /\ Len(q) = n + k + Len(s)
    BY <1>16, <1>17
  <2>2. Len(s) = IF DOMAIN valid = {} THEN 0 ELSE 1
    BY <1>12
  <2> QED
    BY <1>4, <2>1, <2>2
<1>19. ASSUME NEW i \in 1 .. n
       PROVE  q[i] = touchEvents[i]
  BY <1>4, <1>16, <1>17
<1>20. ASSUME NEW i \in 1 .. k
       PROVE  q[n + i] = r[i]
  <2>1. n + i \in 1 .. n + k
    BY <1>4, <1>16
  <2> QED
    BY <1>16, <1>17, <2>1
<1>21. DOMAIN valid # {} => q[n + k + 1] = valid
  BY <1>12, <1>17
<1>22. ASSUME NEW i \in 0 .. k
       PROVE  Touch!Stream!Before(n + i + 1, q) = Left(order, i)
  <2>1. CASE i = 0
    <3>1. activeTouches = Touch!Stream!Before(n + 1, touchEvents)
      BY DEF Chained
    <3>2. n # 0 => n \in 1 .. n /\ n + 1 # 1 /\ n + 1 - 1 = n
      BY <1>16
    <3> QED
      BY <1>9, <1>16, <1>19, <2>1, <3>1, <3>2 DEF Touch!Stream!Before
  <2>2. CASE i # 0
    <3>1. i \in 1 .. k /\ n + i + 1 # 1 /\ n + i + 1 - 1 = n + i
      BY <1>4, <1>16, <2>2
    <3>2. q[n + i] = r[i] /\ Touch!Stream!After(r[i]) = Left(order, i)
      BY <1>8, <1>20, <3>1
    <3> QED
      BY <3>1, <3>2 DEF Touch!Stream!Before
  <2> QED
    BY <2>1, <2>2
<1>23. Left(order, k) = activeTouches \cap DOMAIN valid
  BY <1>2, <1>8
<1>24. ASSUME NEW i \in n + 1 .. Len(q)
       PROVE  Touch!Stream!Sane(Touch!Stream!Before(i, q), q[i])
  <2>1. CASE i <= n + k
    <3>1. PICK m \in 1 .. k : i = n + m
      <4>1. i - n \in 1 .. k /\ i = n + (i - n)
        BY <1>18, <2>1
      <4> QED
        BY <4>1
    <3>2. m - 1 \in 0 .. k /\ n + (m - 1) + 1 = i
      BY <1>4, <1>16, <3>1
    <3>3. Touch!Stream!Before(i, q) = Left(order, m - 1)
      BY <1>22, <3>2
    <3>4. Touch!Stream!Sane(Left(order, m - 1), r[m])
      BY <1>8, <3>1
    <3>5. q[i] = r[m]
      <4>1. q[n + m] = r[m]
        BY <1>20
      <4> QED
        BY <3>1, <4>1
    <3> QED
      BY <3>3, <3>4, <3>5, Zenon
  <2>2. CASE ~ i <= n + k
    <3>1. Len(q) \in Nat /\ i \in Nat /\ i >= n + 1 /\ i <= Len(q) /\ ~ (i <= n + k)
      BY <1>18, <2>2
    <3>2. i = n + k + 1 /\ DOMAIN valid # {}
      <4>1. DOMAIN valid # {}
        BY <1>18, <3>1
      <4> QED
        BY <1>18, <3>1, <4>1
    <3>3. q[i] = valid
      BY <1>21, <3>2
    <3>4. Touch!Stream!Before(i, q) = Left(order, k)
      BY <1>4, <1>22, <3>2
    <3> QED
      BY <1>10, <1>23, <3>2, <3>3, <3>4 DEF Touch!Stream!Sane, Touch!Stream!With, Touch!With
  <2> QED
    BY <2>1, <2>2
<1>25. activeTouches' = Touch!Stream!Before(Len(q) + 1, q)
  <2>1. CASE DOMAIN valid = {}
    <3>1. Touch!Stream!Before(Len(q) + 1, q) = Left(order, k)
      BY <1>18, <1>22, <2>1
    <3> QED
      BY <1>6, <1>23, <2>1, <3>1
  <2>2. CASE DOMAIN valid # {}
    <3>1. Len(q) = n + k + 1 /\ Len(q) + 1 # 1 /\ Len(q) + 1 - 1 = Len(q)
      BY <1>18, <2>2
    <3>2. Touch!Stream!Before(Len(q) + 1, q) = Touch!Stream!After(q[Len(q)])
      BY <3>1 DEF Touch!Stream!Before
    <3>3. Touch!Stream!Before(Len(q) + 1, q) = Touch!Stream!After(valid)
      BY <1>21, <2>2, <3>1, <3>2
    <3> QED
      BY <1>6, <3>3 DEF Touch!Stream!After, Touch!Stream!With, Touch!With
  <2> QED
    BY <2>1, <2>2
<1>26. activeTouches' \subseteq Touches
  BY <1>1, <1>6 DEF Touch!Named
<1> QED
  BY <1>4, <1>16, <1>17, <1>18, <1>19, <1>24, <1>25, <1>26

(* What Qt takes of its queue continues what it took before.                *)
LEMMA TouchTaken ==
  ASSUME TouchTypes, Chained, touchEvents # << >>, touchEvents' = Tail(touchEvents),
         qtDown' = (qtDown \cup DOMAIN Head(touchEvents)) \ Touch!With(Head(touchEvents), "released"),
         UNCHANGED activeTouches
  PROVE  /\ Chained' /\ touchEvents' \in Seq(Touch!Named(Touch!States)) /\ qtDown' \subseteq Touches
         /\ Touch!Stream!Take /\ Touch!Stream!Sane(qtDown, Head(touchEvents)) /\ qtDown' = Touch!Stream!After(Head(touchEvents))
<1>1. PICK n : n = Len(touchEvents)
  OBVIOUS
<1>2. n \in Nat /\ n # 0 /\ DOMAIN touchEvents = 1 .. n /\ touchEvents \in Seq(Touch!Named(Touch!States))
  BY <1>1 DEF TouchTypes
<1>3. PICK q : q = touchEvents'
  OBVIOUS
<1>4. q \in Seq(Touch!Named(Touch!States)) /\ Len(q) = n - 1 /\ DOMAIN q = 1 .. n - 1
  BY <1>1, <1>2, <1>3
<1>5. \A i \in 1 .. n - 1 : q[i] = touchEvents[i + 1]
  BY <1>1, <1>2, <1>3
<1>6. PICK event : event = Head(touchEvents) /\ event = touchEvents[1]
  BY <1>2
<1>7. event \in Touch!Named(Touch!States)
  BY <1>2, <1>6
<1>8. Touch!Stream!Sane(qtDown, event)
  <2>1. Touch!Stream!Before(1, touchEvents) = qtDown /\ 1 \in DOMAIN touchEvents
    BY <1>2 DEF Touch!Stream!Before
  <2> QED
    BY <1>6, <2>1 DEF Chained
<1>9. qtDown' = Touch!Stream!After(event)
  BY <1>6, <1>8 DEF Touch!Stream!After, Touch!Stream!Sane, Touch!Stream!With, Touch!With
<1>10. qtDown' \subseteq Touches
  BY <1>7, <1>9 DEF Touch!Stream!After, Touch!Named
<1>11. Touch!Stream!Take
  BY <1>6, <1>9 DEF Touch!Stream!Take
<1> DEFINE before(i) == IF i = 1 THEN qtDown' ELSE Touch!Stream!After(q[i - 1])
<1>12. ASSUME NEW i \in 1 .. n
       PROVE  before(i) = Touch!Stream!Before(i + 1, touchEvents)
  <2>1. i + 1 # 1 /\ i + 1 - 1 = i
    OBVIOUS
  <2>2. Touch!Stream!Before(i + 1, touchEvents) = Touch!Stream!After(touchEvents[i])
    BY <2>1 DEF Touch!Stream!Before
  <2>3. CASE i = 1
    BY <1>6, <1>9, <2>2, <2>3
  <2>4. CASE i # 1
    <3>1. i - 1 \in 1 .. n - 1 /\ i - 1 + 1 = i
      BY <1>2, <2>4
    <3>2. q[i - 1] = touchEvents[i]
      BY <1>5, <3>1
    <3> QED
      BY <2>2, <2>4, <3>2
  <2> QED
    BY <2>3, <2>4
<1>13. ASSUME NEW i \in 1 .. n - 1
       PROVE  Touch!Stream!Sane(before(i), q[i])
  <2>1. i \in 1 .. n /\ i + 1 \in DOMAIN touchEvents
    BY <1>2
  <2>2. Touch!Stream!Sane(Touch!Stream!Before(i + 1, touchEvents), touchEvents[i + 1])
    BY <2>1 DEF Chained
  <2>3. before(i) = Touch!Stream!Before(i + 1, touchEvents)
    BY <1>12, <2>1
  <2>4. q[i] = touchEvents[i + 1]
    BY <1>5
  <2> HIDE DEF before
  <2> QED
    BY <2>2, <2>3, <2>4, Zenon
<1>14. activeTouches' = before(n)
  <2>1. n \in 1 .. n
    BY <1>2
  <2>2. before(n) = Touch!Stream!Before(n + 1, touchEvents)
    BY <2>1, <1>12
  <2> HIDE DEF before
  <2> QED
    BY <1>1, <2>2 DEF Chained
<1>15. Len(q) + 1 = n
  BY <1>2, <1>4
<1>16. Chained'
  BY <1>3, <1>4, <1>13, <1>14, <1>15 DEF Chained, Touch!Stream!Before
<1> QED
  BY <1>3, <1>4, <1>6, <1>8, <1>9, <1>10, <1>11, <1>16

(* What the item does with an event keeps what it grabs, what it takes to   *)
(* be down and what the client holds the same.                              *)
LEMMA TouchHandled ==
  ASSUME Touch!TouchAssumption, TouchTypes, Chained, HeldIsGrabbed,
         NEW over \in SUBSET Touches, NEW inside \in BOOLEAN, Touch!QtHandles(over, inside)
  PROVE  TouchTypes' /\ Chained' /\ HeldIsGrabbed' /\ Touch!Stream!Take
<1>1. PICK event : event = Head(touchEvents)
  OBVIOUS
<1>2. PICK mine : mine = grabbed \cup over
  OBVIOUS
<1>3. PICK points : points = Touch!Only(event, mine)
  OBVIOUS
<1>4. PICK accepted \in BOOLEAN : accepted = Touch!Accepts(Touch!TypeOf(points), inside)
  BY DEF Touch!Accepts
<1>5. /\ touchEvents # << >> /\ touchEvents' = Tail(touchEvents)
      /\ qtDown' = (qtDown \cup DOMAIN event) \ Touch!With(event, "released")
      /\ UNCHANGED << activeTouches, surface, consumesInput >>
      /\ over \subseteq Touch!With(event, "pressed")
  BY <1>1 DEF Touch!QtHandles
<1>6. grabbed' = (grabbed \cup (IF accepted THEN over ELSE {})) \ Touch!With(event, "released")
  BY <1>1, <1>2, <1>3, <1>4 DEF Touch!QtHandles
<1>7. \/ (\A t \in mine : event[t] = "stationary") /\ UNCHANGED << last, Touch!clientVars >>
      \/ /\ \E t \in mine : event[t] # "stationary"
         /\ IF accepted THEN Touch!Deliver(Touch!TypeOf(points), points) ELSE Touch!Drop(points)
  BY <1>1, <1>2, <1>3, <1>4 DEF Touch!QtHandles
<1>8. /\ Chained' /\ touchEvents' \in Seq(Touch!Named(Touch!States)) /\ qtDown' \subseteq Touches
      /\ Touch!Stream!Take /\ Touch!Stream!Sane(qtDown, event) /\ qtDown' = Touch!Stream!After(event)
  BY <1>1, <1>5, TouchTaken
<1>9. /\ qtDown \subseteq DOMAIN event /\ DOMAIN event \subseteq Touches
      /\ \A t \in DOMAIN event : event[t] = "pressed" <=> t \notin qtDown
  <2>1. event \in Touch!Named(Touch!States)
    BY <1>1, <1>5 DEF TouchTypes
  <2> QED
    BY <1>8, <2>1 DEF Touch!Stream!Sane, Touch!Stream!With, Touch!Named
<1>10. /\ mine \subseteq DOMAIN event /\ grabbed \subseteq mine
       /\ \A t \in mine : (event[t] = "pressed" <=> t \in over) /\ (t \in grabbed <=> t \notin over)
  BY <1>2, <1>5, <1>9 DEF Touch!With, TouchTypes
<1>11. /\ DOMAIN points = mine /\ \A t \in mine : points[t] = event[t]
       /\ Touch!With(points, "pressed") = over
       /\ Touch!With(points, "released") = mine \cap Touch!With(event, "released")
       /\ DOMAIN Touch!Unreleased(points) = mine \ Touch!With(event, "released")
  <2>1. DOMAIN points = mine /\ \A t \in mine : points[t] = event[t]
    BY <1>3 DEF Touch!Only
  <2> QED
    <3>1. Touch!With(points, "pressed") = over
      BY <1>2, <1>10, <2>1 DEF Touch!With
    <3>2. Touch!With(points, "released") = mine \cap Touch!With(event, "released")
      BY <1>10, <2>1 DEF Touch!With
    <3>3. DOMAIN Touch!Unreleased(points) = mine \ Touch!With(points, "released")
      BY <2>1 DEF Touch!Unreleased, Touch!Only
    <3> QED
      BY <2>1, <3>1, <3>2, <3>3
<1>12. grabbed' \subseteq qtDown'
  BY <1>2, <1>5, <1>6, <1>10
<1>13. ASSUME UNCHANGED << last, heldTouches >>, missedEnd \subseteq missedEnd', Touch!With(points, "released") = {} \/ surface \notin Surfaces \ missedEnd',
              accepted => over = {}
       PROVE  HeldIsGrabbed' /\ heldTouches' \in [ Surfaces -> SUBSET Touches ]
  <2>1. LastDown' = LastDown
    BY <1>13 DEF LastDown
  <2>2. surface \in Surfaces \ missedEnd' => grabbed' = grabbed
    BY <1>6, <1>10, <1>11, <1>13 DEF TouchTypes
  <2>3. grabbed' \subseteq grabbed
    BY <1>6, <1>13
  <2>4. heldTouches' = heldTouches /\ surface' = surface /\ last' = last
    BY <1>5, <1>13
  <2> QED
    BY <1>13, <2>1, <2>2, <2>3, <2>4 DEF HeldIsGrabbed, TouchTypes
<1>14. CASE (\A t \in mine : event[t] = "stationary") /\ UNCHANGED << last, Touch!clientVars >>
  <2>1. over = {}
    <3>1. \A t \in over : t \in mine /\ event[t] = "pressed"
      BY <1>2, <1>10
    <3> QED
      BY <1>14, <3>1
  <2>2. Touch!With(points, "released") = {}
    BY <1>11, <1>14 DEF Touch!With
  <2>3. HeldIsGrabbed' /\ heldTouches' \in [ Surfaces -> SUBSET Touches ] /\ liveToTouch' = liveToTouch
    BY <1>13, <1>14, <2>1, <2>2 DEF Touch!clientVars
  <2>4. last' = last
    BY <1>14
  <2> QED
    BY <1>5, <1>8, <1>12, <2>3, <2>4 DEF TouchTypes
<1>15. CASE ~ accepted /\ Touch!Drop(points)
  <2>1. UNCHANGED << last, liveToTouch, heldTouches >> /\ missedEnd \subseteq missedEnd'
    BY <1>15 DEF Touch!Drop
  <2>2. Touch!With(points, "released") = {} \/ surface \notin Surfaces \ missedEnd'
    BY <1>15 DEF Touch!Drop, Touch!TouchAssumption
  <2>3. HeldIsGrabbed' /\ heldTouches' \in [ Surfaces -> SUBSET Touches ]
    <3>1. UNCHANGED << last, heldTouches >> /\ missedEnd \subseteq missedEnd'
      BY <2>1
    <3>2. accepted => over = {}
      BY <1>15
    <3> QED
      BY <1>13, <2>2, <3>1, <3>2, Zenon
  <2>4. last'.type \in Touch!Types
    BY <2>1 DEF TouchTypes
  <2> QED
    BY <1>5, <1>8, <1>12, <2>1, <2>3, <2>4 DEF TouchTypes
<1>16. CASE accepted /\ (\E t \in mine : event[t] # "stationary") /\ Touch!Deliver(Touch!TypeOf(points), points)
  <2>1. surface \in Surfaces
    BY <1>4, <1>16 DEF Touch!Accepts, TouchTypes
  <2>2. PICK still : still = IF Touch!TypeOf(points) = "begin" /\ last.type \notin { "none", "end" }
                               THEN Touch!EndCurrentTouchSequence ELSE heldTouches[surface]
    OBVIOUS
  <2>3. PICK holds : holds = (still \cup over) \ Touch!With(points, "released")
    OBVIOUS
  <2>4. PICK left : left = mine \ Touch!With(event, "released")
    OBVIOUS
  <2>5. /\ last' = [ type |-> Touch!TypeOf(points), points |-> points ]
        /\ heldTouches' = [ heldTouches EXCEPT ![surface] = holds ]
        /\ missedEnd' = IF holds = left THEN missedEnd \ { surface } ELSE missedEnd
        /\ liveToTouch' = liveToTouch
    BY <1>11, <1>16, <2>2, <2>3, <2>4 DEF Touch!Deliver
  <2>6. LastDown' = left /\ grabbed' = left
    BY <1>2, <1>6, <1>11, <1>16, <2>4, <2>5 DEF LastDown
  <2>7. Touch!TypeOf(points) = "begin" => grabbed = {}
    <3>1. ASSUME NEW t \in grabbed
          PROVE  Touch!TypeOf(points) # "begin"
      <4>1. points[t] # "pressed" /\ t \in DOMAIN points
        BY <1>10, <1>11
      <4>2. points[t] \in { points[u] : u \in DOMAIN points }
        BY <4>1
      <4> QED
        BY <4>1, <4>2 DEF Touch!TypeOf
    <3> QED
      BY <3>1
  <2>8. grabbed = {} => Touch!TypeOf(points) = "begin"
    <3>1. ASSUME grabbed = {}
          PROVE  { points[u] : u \in DOMAIN points } = { "pressed" }
      <4>1. \A u \in DOMAIN points : points[u] = "pressed"
        BY <1>10, <1>11, <3>1
      <4>2. PICK t \in DOMAIN points : points[t] = "pressed"
        BY <1>11, <1>16, <4>1
      <4> QED
        BY <4>1, <4>2
    <3> QED
      BY <3>1 DEF Touch!TypeOf
  <2>9. Touch!TypeOf(points) \in { "none", "end" } => left = {}
    <3>1. ASSUME Touch!TypeOf(points) \in { "none", "end" }
          PROVE  left = {}
      <4>1. { points[u] : u \in DOMAIN points } = { "released" }
        BY <3>1 DEF Touch!TypeOf
      <4>2. \A u \in DOMAIN points : points[u] = "released"
        BY <4>1
      <4> QED
        BY <1>11, <2>4, <4>2 DEF Touch!With
    <3> QED
      BY <3>1
  <2>10. ASSUME surface \notin missedEnd
         PROVE  holds = left
    <3>1. heldTouches[surface] = LastDown /\ (grabbed = {} \/ grabbed = LastDown)
      BY <1>16, <2>1, <2>10 DEF HeldIsGrabbed
    <3>2. last.type \in { "none", "end" } => LastDown = {}
      BY DEF HeldIsGrabbed
    <3>3. CASE grabbed = {}
      <4>1. still = {}
        BY <2>2, <2>8, <3>1, <3>2, <3>3 DEF Touch!EndCurrentTouchSequence, LastDown
      <4>2. mine = over
        BY <1>2, <3>3
      <4> QED
        BY <1>11, <2>3, <2>4, <4>1, <4>2
    <3>4. CASE grabbed # {}
      <4>1. still = grabbed
        BY <2>2, <2>7, <3>1, <3>4
      <4> QED
        BY <1>2, <1>11, <2>3, <2>4, <4>1
    <3> QED
      BY <3>3, <3>4
  <2>11. heldTouches' \in [ Surfaces -> SUBSET Touches ]
    <3>1. heldTouches[surface] \subseteq Touches
      BY <2>1 DEF TouchTypes
    <3>2. holds \subseteq Touches
      BY <2>2, <2>3, <3>1 DEF Touch!EndCurrentTouchSequence
    <3> QED
      BY <2>5, <3>2 DEF TouchTypes
  <2>12. last'.type \in Touch!Types
    BY <2>5 DEF Touch!TypeOf, Touch!Types
  <2>13. HeldIsGrabbed'
    <3>1. surface' = surface /\ heldTouches'[surface] = holds
      BY <1>5, <2>1, <2>5 DEF TouchTypes
    <3>2. surface \notin missedEnd' => holds = left
      BY <2>5, <2>10
    <3>3. ASSUME NEW s \in Surfaces \ (missedEnd' \cup { surface })
          PROVE  heldTouches'[s] = {}
      <4>1. s \in Surfaces \ (missedEnd \cup { surface })
        BY <2>5, <3>3
      <4>2. heldTouches'[s] = heldTouches[s]
        BY <2>5, <4>1 DEF TouchTypes
      <4> QED
        BY <4>1, <4>2 DEF HeldIsGrabbed
    <3>4. last'.type = Touch!TypeOf(points)
      BY <2>5
    <3> QED
      BY <2>6, <2>9, <3>1, <3>2, <3>3, <3>4 DEF HeldIsGrabbed
  <2> QED
    BY <1>5, <1>8, <1>12, <2>5, <2>11, <2>13, <2>12 DEF TouchTypes
<1>17. TouchTypes' /\ HeldIsGrabbed'
  BY <1>7, <1>14, <1>15, <1>16
<1> QED
  BY <1>8, <1>17

(* Every step keeps the invariant, and is one of the stream's or none.      *)
LEMMA TouchKept ==
  ASSUME Touch!TouchAssumption, TouchInv, [Touch!Next]_touchVars
  PROVE  TouchInv' /\ [Touch!Stream!Send \/ Touch!Stream!Take]_<< touchEvents, qtDown >>
<1> USE DEF TouchInv
<1>1. ASSUME NEW points \in Touch!Named({ "pressed", "moved", "released" }), Touch!DispatchTouch(points)
      PROVE  TouchInv' /\ (Touch!Stream!Send \/ UNCHANGED << touchEvents, qtDown >>)
  <2>1. PICK n : n = Len(touchEvents)
    OBVIOUS
  <2>2. PICK q : q = touchEvents'
    OBVIOUS
  <2>3. /\ q \in Seq(Touch!Named(Touch!States)) /\ n \in Nat /\ Len(q) \in Nat /\ Len(q) >= n
        /\ \A i \in 1 .. n : q[i] = touchEvents[i]
        /\ \A i \in n + 1 .. Len(q) : Touch!Stream!Sane(Touch!Stream!Before(i, q), q[i])
        /\ activeTouches' \subseteq Touches /\ activeTouches' = Touch!Stream!Before(Len(q) + 1, q)
    BY <1>1, <2>1, <2>2, TouchDispatched
  <2>4. UNCHANGED << qtDown, grabbed, Touch!itemVars, Touch!clientVars >>
    BY <1>1 DEF Touch!DispatchTouch
  <2>5. TouchTypes'
    BY <2>2, <2>3, <2>4 DEF TouchTypes, Touch!itemVars, Touch!clientVars
  <2>6. ASSUME NEW i \in DOMAIN q
        PROVE  Touch!Stream!Sane(Touch!Stream!Before(i, q), q[i])
    <3>1. DOMAIN q = 1 .. Len(q)
      BY <2>3
    <3>2. CASE i \in 1 .. n
      <4>1. Touch!Stream!Sane(Touch!Stream!Before(i, touchEvents), touchEvents[i])
        BY <2>1, <3>2 DEF Chained, TouchTypes
      <4>2. i # 1 => i - 1 \in 1 .. n
        BY <2>3, <3>2
      <4>3. Touch!Stream!Before(i, q) = Touch!Stream!Before(i, touchEvents) /\ q[i] = touchEvents[i]
        BY <2>3, <3>2, <4>2 DEF Touch!Stream!Before
      <4> QED
        BY <4>1, <4>3, Zenon
    <3>3. CASE i \notin 1 .. n
      <4>1. i \in n + 1 .. Len(q)
        BY <2>3, <3>1, <3>3
      <4> QED
        BY <2>3, <4>1
    <3> QED
      BY <3>2, <3>3
  <2>7. Chained'
    BY <2>2, <2>3, <2>4, <2>6 DEF Chained, Touch!Stream!Before
  <2>8. HeldIsGrabbed'
    BY <2>4 DEF HeldIsGrabbed, LastDown, Touch!itemVars, Touch!clientVars
  <2>9. CASE Len(q) = n
    <3>1. q = touchEvents
      BY <2>1, <2>3, <2>9 DEF TouchTypes
    <3> QED
      BY <2>2, <2>4, <2>5, <2>7, <2>8, <3>1
  <2>10. CASE Len(q) # n
    <3>1. Len(q) > n
      BY <2>3, <2>10
    <3>2. SubSeq(q, 1, n) = touchEvents
      BY <2>1, <2>3 DEF TouchTypes
    <3>3. /\ Len(touchEvents') > Len(touchEvents) /\ SubSeq(touchEvents', 1, Len(touchEvents)) = touchEvents
          /\ \A i \in Len(touchEvents) + 1 .. Len(touchEvents') : Touch!Stream!Sane(Touch!Stream!Before(i, q), q[i])
      BY <2>1, <2>2, <2>3, <3>1, <3>2
    <3>4. Touch!Stream!Send
      BY <2>2, <2>4, <3>3 DEF Touch!Stream!Send
    <3> QED
      BY <2>5, <2>7, <2>8, <3>4
  <2> QED
    BY <2>9, <2>10
<1>2. ASSUME NEW over \in SUBSET Touches, NEW inside \in BOOLEAN, Touch!QtHandles(over, inside)
      PROVE  TouchInv' /\ Touch!Stream!Take
  BY <1>2, TouchHandled
<1>3. ASSUME UNCHANGED << activeTouches, touchEvents, qtDown >>
      PROVE  Chained'
  BY <1>3 DEF Chained, Touch!Stream!Before
<1>4. CASE Touch!QtSteals
  <2>1. grabbed' = {} /\ UNCHANGED << activeTouches, touchEvents, qtDown, Touch!itemVars, Touch!clientVars >>
    BY <1>4 DEF Touch!QtSteals
  <2> QED
    BY <1>3, <2>1 DEF TouchTypes, HeldIsGrabbed, LastDown, Touch!itemVars, Touch!clientVars
<1>5. ASSUME NEW s \in Surfaces \cup { NoSurface }, Touch!SetSurface(s)
      PROVE  TouchInv' /\ UNCHANGED << touchEvents, qtDown >>
  <2>1. /\ surface' = s /\ s # surface
        /\ UNCHANGED << activeTouches, Touch!qtVars, consumesInput, last, liveToTouch, heldTouches >>
        /\ missedEnd' = IF last.type \in { "begin", "update" }
                       THEN missedEnd \cup ({ s, surface } \ { NoSurface }) ELSE missedEnd
    BY <1>5 DEF Touch!SetSurface
  <2>2. last.type \notin { "begin", "update" } => LastDown = {} /\ grabbed = {}
    BY DEF HeldIsGrabbed, TouchTypes, Touch!Types
  <2>3. TouchTypes' /\ UNCHANGED << touchEvents, qtDown >>
    BY <2>1 DEF TouchTypes, Touch!qtVars
  <2>4. LastDown' = LastDown /\ UNCHANGED << grabbed, heldTouches, last >>
    BY <2>1 DEF LastDown, Touch!qtVars
  <2>5. CASE last.type \in { "begin", "update" }
    <3>1. missedEnd' = missedEnd \cup ({ s, surface } \ { NoSurface })
      BY <2>1, <2>5
    <3>2. last.type \notin { "none", "end" }
      BY <2>5
    <3>3. surface' \notin Surfaces \ missedEnd'
      BY <2>1, <3>1, Touch!TouchAssumption DEF Touch!TouchAssumption
    <3>4. ASSUME NEW r \in Surfaces \ (missedEnd' \cup { surface' })
          PROVE  heldTouches'[r] = {}
      <4>1. r \in Surfaces \ (missedEnd \cup { surface })
        BY <2>1, <3>1, <3>4, Touch!TouchAssumption DEF Touch!TouchAssumption
      <4> QED
        BY <2>4, <4>1 DEF HeldIsGrabbed
    <3>5. HeldIsGrabbed'
      BY <2>4, <3>2, <3>3, <3>4 DEF HeldIsGrabbed
    <3> QED
      BY <1>3, <2>1, <2>3, <3>5
  <2>6. CASE last.type \notin { "begin", "update" }
    <3>1. missedEnd' = missedEnd
      BY <2>1, <2>6
    <3>2. \A r \in Surfaces \ missedEnd : heldTouches[r] = {}
      BY <2>2, <2>6 DEF HeldIsGrabbed
    <3>3. HeldIsGrabbed'
      BY <2>2, <2>4, <2>6, <3>1, <3>2 DEF HeldIsGrabbed
    <3> QED
      BY <1>3, <2>1, <2>3, <3>3
  <2> QED
    BY <2>5, <2>6
<1>6. ASSUME NEW s \in Surfaces, Touch!SurfaceDies(s)
      PROVE  TouchInv' /\ UNCHANGED << touchEvents, qtDown >>
  <2>1. /\ liveToTouch' = liveToTouch \ { s } /\ missedEnd' = missedEnd \cup { s }
        /\ heldTouches' = [ heldTouches EXCEPT ![s] = {} ]
        /\ UNCHANGED << activeTouches, Touch!qtVars, Touch!itemVars >>
    BY <1>6 DEF Touch!SurfaceDies
  <2>2. TouchTypes'
    BY <2>1 DEF TouchTypes, Touch!qtVars, Touch!itemVars
  <2>3. \A r \in Surfaces \ missedEnd' : heldTouches'[r] = heldTouches[r]
    BY <2>1 DEF TouchTypes
  <2>4. HeldIsGrabbed'
    BY <2>1, <2>3 DEF HeldIsGrabbed, LastDown, Touch!qtVars, Touch!itemVars
  <2> QED
    BY <1>3, <2>1, <2>2, <2>4 DEF Touch!qtVars
<1>7. CASE (\E value \in BOOLEAN : Touch!SetConsumesInput(value)) \/ UNCHANGED touchVars
  <2>1. UNCHANGED << activeTouches, Touch!qtVars, surface, last, Touch!clientVars >>
    BY <1>7 DEF Touch!SetConsumesInput, touchVars, Touch!itemVars, Touch!qtVars, Touch!clientVars
  <2> QED
    BY <1>3, <2>1 DEF TouchTypes, HeldIsGrabbed, LastDown, Touch!qtVars, Touch!clientVars
<1>8. CASE Touch!Next
  BY <1>1, <1>2, <1>4, <1>5, <1>6, <1>7, <1>8 DEF Touch!Next, Touch!QtSteals
<1> QED
  BY <1>7, <1>8

LEMMA TouchInvRemembers == TouchInv => Touch!HeldIsRemembered
BY DEF TouchInv, HeldIsGrabbed, Touch!HeldIsRemembered, LastDown

(* Whatever Mir sends, for any touches and any length of Qt's queue,        *)
(* QtEventFeeder gives Qt a stream it can bear: each step is one of         *)
(* TouchStream's, or none.                                                  *)
THEOREM TouchStreamKept == InputSpec => KeepsTouchStream
<1> DEFINE Step == [Touch!Stream!Send \/ Touch!Stream!Take]_<< touchEvents, qtDown >>
           Inv == part = "touch" => TouchInv
<1> USE TouchAssumption
<1>1. InputInit => Touch!Stream!Init
  BY TouchStreamInit DEF InputInit
<1>2. InputInit => Inv
  BY TouchInit DEF InputInit
<1>3. Inv /\ [UNCHANGED part /\ InputNext]_<< part, inputVars >> => Inv' /\ Step
  <2>1. ASSUME Inv, UNCHANGED part, InputNext
        PROVE  Inv' /\ Step
    <3>1. CASE part = "touch"
      <4>1. TouchInv /\ [Touch!Next]_touchVars
        BY <2>1, <3>1 DEF InputNext
      <4> QED
        BY <4>1, TouchKept
    <3>2. CASE part # "touch"
      BY <2>1, <3>2 DEF InputNext, touchVars
    <3> QED
      BY <3>1, <3>2
  <2>2. ASSUME Inv, UNCHANGED << part, inputVars >>
        PROVE  Inv' /\ Step
    <3>1. [Touch!Next]_touchVars /\ UNCHANGED << touchEvents, qtDown >>
      BY <2>2 DEF inputVars, touchVars
    <3> QED
      BY <2>2, <3>1, TouchKept
  <2> QED
    BY <2>1, <2>2
<1> QED
  BY <1>1, <1>2, <1>3, PTL DEF InputSpec, KeepsTouchStream, Touch!KeepsTouchStream,
     Touch!Stream!Spec

(* And a client that missed nothing holds down what its item would release: *)
(* see TouchInput.                                                          *)
THEOREM TouchesRemembered == InputSpec => []HeldIsRemembered
<1> DEFINE Inv == part = "touch" => TouchInv
<1> USE TouchAssumption
<1>1. InputInit => Inv
  BY TouchInit DEF InputInit
<1>2. Inv /\ [UNCHANGED part /\ InputNext]_<< part, inputVars >> => Inv'
  BY TouchKept DEF InputNext, inputVars
<1>3. Inv => HeldIsRemembered
  BY TouchInvRemembers DEF HeldIsRemembered
<1> QED
  BY <1>1, <1>2, <1>3, PTL DEF InputSpec

------------------------------------------------------------------------------
(* Keys: see KeyInput.                                                      *)

KeyTypes ==
  /\ keyEvents \in Seq(Key!KeyEvents) /\ focusNotices \in Seq(Key!FocusNotices)
  /\ qmlFocus \in Surfaces \cup { NoSurface } /\ keyWindow \in Surfaces \cup { NoSurface }
  /\ liveToKeys \subseteq Surfaces
  /\ pressedKeys \in [ Surfaces -> Seq(Keys) ] /\ heldKeys \in [ Surfaces -> SUBSET Keys ]

(* A key is recorded once, as long as the assertion holds: if it were twice,*)
(* to forget it when it is released would leave it recorded.                *)
RecordedOnce == ~ pressedTwice => \A s \in Surfaces : Key!IsInjective(pressedKeys[s])

KeyInv == KeyTypes /\ RecordedOnce /\ Key!HeldIsRecorded

LEMMA KeyInit == Key!Init => KeyInv
<1> SUFFICES ASSUME Key!Init PROVE KeyInv
  OBVIOUS
<1>1. KeyTypes
  BY DEF Key!Init, KeyTypes
<1>2. RecordedOnce /\ Key!HeldIsRecorded
  BY DEF Key!Init, RecordedOnce, Key!HeldIsRecorded, Key!IsInjective, Key!Range
<1> QED
  BY <1>1, <1>2 DEF KeyInv

(* What is recorded once a key is appended, and once one is removed.        *)
LEMMA KeyAppended ==
  ASSUME NEW q \in Seq(Keys), NEW key \in Keys
  PROVE  /\ Append(q, key) \in Seq(Keys) /\ Key!Range(Append(q, key)) = Key!Range(q) \cup { key }
         /\ Key!IsInjective(q) /\ key \notin Key!Range(q) => Key!IsInjective(Append(q, key))
<1>1. Append(q, key) \in Seq(Keys) /\ Len(q) \in Nat /\ DOMAIN q = 1 .. Len(q)
  OBVIOUS
<1>2. PICK r \in Seq(Keys) : r = Append(q, key)
  BY <1>1
<1>3. PICK k \in Nat : k = Len(q) /\ DOMAIN q = 1 .. k
  BY <1>1
<1>4. /\ DOMAIN r = 1 .. k + 1 /\ r[k + 1] = key
      /\ \A i \in 1 .. k : r[i] = q[i]
  BY <1>2, <1>3
<1>5. \A i \in DOMAIN r : i = k + 1 \/ i \in DOMAIN q
  BY <1>3, <1>4
<1>6. Key!Range(r) = Key!Range(q) \cup { key }
  BY <1>3, <1>4, <1>5 DEF Key!Range
<1>7. ASSUME Key!IsInjective(q), key \notin Key!Range(q), NEW i \in DOMAIN r, NEW j \in DOMAIN r, r[i] = r[j]
      PROVE  i = j
  BY <1>3, <1>4, <1>5, <1>7 DEF Key!IsInjective, Key!Range
<1> QED
  BY <1>2, <1>6, <1>7 DEF Key!IsInjective

LEMMA KeyPart ==
  ASSUME NEW q \in Seq(Keys), NEW m \in Nat \ { 0 }, NEW n \in Nat, m <= n + 1, n <= Len(q)
  PROVE  /\ SubSeq(q, m, n) \in Seq(Keys) /\ Len(SubSeq(q, m, n)) = n - m + 1
         /\ \A j \in 1 .. n - m + 1 : SubSeq(q, m, n)[j] = q[m + j - 1]
<1>1. \A j \in m .. n : q[j] \in Keys
  OBVIOUS
<1>2. /\ SubSeq(q, m, n) \in Seq(Keys)
      /\ Len(SubSeq(q, m, n)) = IF m <= n THEN n - m + 1 ELSE 0
      /\ \A j \in 1 .. n - m + 1 : SubSeq(q, m, n)[j] = q[m + j - 1]
  BY <1>1, SubSeqProperties
<1>3. (IF m <= n THEN n - m + 1 ELSE 0) = n - m + 1
  OBVIOUS
<1> QED
  BY <1>2, <1>3

Skipping(i, n) == IF n < i THEN n ELSE n + 1

LEMMA KeySkipped ==
  ASSUME NEW q \in Seq(Keys), NEW i \in DOMAIN q
  PROVE  LET r == SubSeq(q, 1, i - 1) \o SubSeq(q, i + 1, Len(q)) IN
         /\ r \in Seq(Keys) /\ DOMAIN r = 1 .. Len(q) - 1
         /\ \A n \in 1 .. Len(q) - 1 : r[n] = q[Skipping(i, n)]
<1>1. PICK k \in Nat : k = Len(q)
  OBVIOUS
<1>2. i \in 1 .. k /\ i \in Nat \ { 0 }
  BY <1>1
<1>3. /\ SubSeq(q, 1, i - 1) \in Seq(Keys) /\ Len(SubSeq(q, 1, i - 1)) = (i - 1) - 1 + 1
      /\ \A n \in 1 .. (i - 1) - 1 + 1 : SubSeq(q, 1, i - 1)[n] = q[1 + n - 1]
  BY <1>1, <1>2, KeyPart
<1>4. /\ SubSeq(q, i + 1, k) \in Seq(Keys) /\ Len(SubSeq(q, i + 1, k)) = k - (i + 1) + 1
      /\ \A n \in 1 .. k - (i + 1) + 1 : SubSeq(q, i + 1, k)[n] = q[(i + 1) + n - 1]
  <2>1. i + 1 \in Nat \ { 0 } /\ i + 1 <= k + 1
    BY <1>2
  <2> QED
    BY <1>1, <2>1, KeyPart
<1>5. PICK a \in Seq(Keys) : a = SubSeq(q, 1, i - 1)
  BY <1>3
<1>6. PICK b \in Seq(Keys) : b = SubSeq(q, i + 1, k)
  BY <1>4
<1>7. Len(a) = i - 1 /\ Len(b) = k - i
  <2>1. Len(a) = (i - 1) - 1 + 1 /\ Len(b) = k - (i + 1) + 1
    BY <1>3, <1>4, <1>5, <1>6
  <2> QED
    BY <1>2, <2>1
<1>8. ASSUME NEW n \in 1 .. i - 1
      PROVE  a[n] = q[n]
  <2>1. n \in 1 .. (i - 1) - 1 + 1 /\ 1 + n - 1 = n
    BY <1>2
  <2> QED
    BY <1>3, <1>5, <2>1
<1>9. ASSUME NEW n \in 1 .. k - i
      PROVE  b[n] = q[i + n]
  <2>1. n \in 1 .. k - (i + 1) + 1 /\ (i + 1) + n - 1 = i + n
    BY <1>2
  <2> QED
    BY <1>4, <1>6, <2>1
<1>10. PICK r : r = a \o b
  OBVIOUS
<1>11. /\ r \in Seq(Keys) /\ Len(r) = Len(a) + Len(b)
       /\ \A n \in 1 .. Len(a) + Len(b) : r[n] = IF n <= Len(a) THEN a[n] ELSE b[n - Len(a)]
  BY <1>10, ConcatProperties
<1>12. DOMAIN r = 1 .. k - 1
  <2>1. Len(r) = k - 1
    <3>1. Len(r) = Len(a) + Len(b)
      BY <1>11
    <3> QED
      BY <1>2, <1>7, <3>1
  <2> QED
    BY <1>11, <2>1
<1>13. ASSUME NEW n \in 1 .. k - 1
      PROVE  r[n] = IF n <= i - 1 THEN a[n] ELSE b[n - (i - 1)]
  <2>1. n \in 1 .. Len(a) + Len(b)
    BY <1>2, <1>7
  <2> QED
    BY <1>7, <1>11, <2>1
<1>14. ASSUME NEW n \in 1 .. k - 1
       PROVE  r[n] = q[Skipping(i, n)]
  <2>1. CASE n < i
    <3>1. n \in 1 .. i - 1 /\ n <= i - 1
      BY <1>2, <2>1
    <3> QED
      BY <1>8, <1>13, <2>1, <3>1 DEF Skipping
  <2>2. CASE ~ n < i
    <3>1. ~ (n <= i - 1) /\ n - (i - 1) \in 1 .. k - i /\ i + (n - (i - 1)) = n + 1
      BY <1>2, <2>2
    <3>2. r[n] = b[n - (i - 1)]
      BY <1>13, <3>1
    <3>3. b[n - (i - 1)] = q[i + (n - (i - 1))]
      BY <1>9, <3>1
    <3> QED
      BY <2>2, <3>1, <3>2, <3>3 DEF Skipping
  <2> QED
    BY <2>1, <2>2
<1> QED
  BY <1>1, <1>5, <1>6, <1>10, <1>11, <1>12, <1>14

LEMMA KeyRemoved ==
  ASSUME NEW q \in Seq(Keys), NEW i \in DOMAIN q, Key!IsInjective(q)
  PROVE  LET r == SubSeq(q, 1, i - 1) \o SubSeq(q, i + 1, Len(q)) IN
         r \in Seq(Keys) /\ Key!IsInjective(r) /\ Key!Range(r) = Key!Range(q) \ { q[i] }
<1>1. PICK k \in Nat : k = Len(q) /\ DOMAIN q = 1 .. k /\ i \in 1 .. k
  <2>1. Len(q) \in Nat /\ DOMAIN q = 1 .. Len(q)
    OBVIOUS
  <2> QED
    BY <2>1
<1>2. PICK r : r = SubSeq(q, 1, i - 1) \o SubSeq(q, i + 1, Len(q))
  OBVIOUS
<1>3. /\ r \in Seq(Keys) /\ DOMAIN r = 1 .. k - 1
      /\ \A n \in 1 .. k - 1 : r[n] = q[Skipping(i, n)]
  BY <1>1, <1>2, KeySkipped
<1>4. ASSUME NEW n \in 1 .. k - 1
      PROVE  Skipping(i, n) \in 1 .. k /\ Skipping(i, n) # i
  BY <1>1 DEF Skipping
<1>5. ASSUME NEW m \in 1 .. k - 1, NEW n \in 1 .. k - 1, Skipping(i, m) = Skipping(i, n)
      PROVE  m = n
  BY <1>1, <1>5 DEF Skipping
<1>6. ASSUME NEW m \in 1 .. k, m # i
      PROVE  \E n \in 1 .. k - 1 : Skipping(i, n) = m
  <2>1. CASE m < i
    <3>1. m \in 1 .. k - 1 /\ Skipping(i, m) = m
      BY <1>1, <2>1 DEF Skipping
    <3> QED
      BY <3>1
  <2>2. CASE ~ m < i
    <3>1. m - 1 \in 1 .. k - 1 /\ Skipping(i, m - 1) = m
      BY <1>1, <1>6, <2>2 DEF Skipping
    <3> QED
      BY <3>1
  <2> QED
    BY <2>1, <2>2
<1>7. ASSUME NEW m \in DOMAIN r, NEW n \in DOMAIN r, r[m] = r[n]
      PROVE  m = n
  <2>1. m \in 1 .. k - 1 /\ n \in 1 .. k - 1
    BY <1>3
  <2>2. q[Skipping(i, m)] = q[Skipping(i, n)]
    BY <1>3, <1>7, <2>1
  <2>3. Skipping(i, m) = Skipping(i, n)
    BY <1>1, <1>4, <2>1, <2>2 DEF Key!IsInjective
  <2> QED
    BY <1>5, <2>1, <2>3
<1>8. ASSUME NEW n \in DOMAIN r
      PROVE  r[n] \in Key!Range(q) \ { q[i] }
  BY <1>1, <1>3, <1>4 DEF Key!IsInjective, Key!Range
<1>9. ASSUME NEW m \in DOMAIN q, q[m] # q[i]
      PROVE  q[m] \in Key!Range(r)
  <2>1. PICK n \in 1 .. k - 1 : Skipping(i, n) = m
    BY <1>1, <1>6, <1>9
  <2> QED
    BY <1>3, <2>1 DEF Key!Range
<1>10. Key!IsInjective(r)
  BY <1>7 DEF Key!IsInjective
<1>11. Key!Range(r) = Key!Range(q) \ { q[i] }
  BY <1>8, <1>9 DEF Key!Range
<1> QED
  BY <1>2, <1>3, <1>10, <1>11

(* A key event or a notice that is taken from its queue.                    *)
LEMMA KeyTaken ==
  ASSUME KeyTypes
  PROVE  /\ keyEvents # << >> => /\ Tail(keyEvents) \in Seq(Key!KeyEvents) /\ Head(keyEvents) \in Key!KeyEvents
                            /\ Head(keyEvents)[2] \in Keys
         /\ focusNotices # << >> => /\ Tail(focusNotices) \in Seq(Key!FocusNotices)
                               /\ Head(focusNotices)[1] \in Surfaces
<1>1. keyEvents # << >> => Tail(keyEvents) \in Seq(Key!KeyEvents) /\ Head(keyEvents) \in Key!KeyEvents
  BY DEF KeyTypes
<1>2. focusNotices # << >> => Tail(focusNotices) \in Seq(Key!FocusNotices) /\ Head(focusNotices) \in Key!FocusNotices
  BY DEF KeyTypes
<1> QED
  BY <1>1, <1>2 DEF Key!KeyEvents, Key!FocusNotices

LEMMA KeySelects ==
  ASSUME KeyTypes, NEW s \in Surfaces \cup { NoSurface }, Key!Select(s)
  PROVE  keyWindow' \in Surfaces \cup { NoSurface } /\ focusNotices' \in Seq(Key!FocusNotices)
<1> DEFINE lost == IF keyWindow = NoSurface THEN << >> ELSE << << keyWindow, FALSE >> >>
           gained == IF s = NoSurface THEN << >> ELSE << << s, TRUE >> >>
<1>1. lost \in Seq(Key!FocusNotices)
  <2>1. keyWindow # NoSurface => << keyWindow, FALSE >> \in Key!FocusNotices
    BY DEF KeyTypes, Key!FocusNotices
  <2> QED
    BY <2>1
<1>2. gained \in Seq(Key!FocusNotices)
  <2>1. s # NoSurface => << s, TRUE >> \in Key!FocusNotices
    BY DEF Key!FocusNotices
  <2> QED
    BY <2>1
<1>3. focusNotices \in Seq(Key!FocusNotices) /\ focusNotices' = (focusNotices \o lost) \o gained
  BY DEF KeyTypes, Key!Select
<1> HIDE DEF lost, gained
<1>4. focusNotices' \in Seq(Key!FocusNotices)
  BY <1>1, <1>2, <1>3
<1> QED
  BY <1>4 DEF Key!Select

LEMMA KeyPressed ==
  ASSUME KeyInv, NEW s \in Surfaces, NEW key \in Keys, Key!KeyPressEvent(s, key), ~ pressedTwice
  PROVE  /\ pressedKeys' \in [ Surfaces -> Seq(Keys) ] /\ heldKeys' \in [ Surfaces -> SUBSET Keys ]
         /\ RecordedOnce' /\ Key!HeldIsRecorded'
<1> USE DEF KeyInv
<1>1. /\ pressedTwice' = (pressedTwice \/ key \in Key!Range(pressedKeys[s]))
      /\ pressedKeys' = [ pressedKeys EXCEPT ![s] = Append(pressedKeys[s], key) ]
      /\ heldKeys' = [ heldKeys EXCEPT ![s] = heldKeys[s] \cup { key } ]
  BY DEF Key!KeyPressEvent, Key!IsKeyPressed
<1>2. PICK q \in Seq(Keys) : q = pressedKeys[s]
  BY DEF KeyTypes
<1>3. PICK r \in Seq(Keys) : /\ r = Append(q, key) /\ Key!Range(r) = Key!Range(q) \cup { key }
                             /\ Key!IsInjective(q) /\ key \notin Key!Range(q) => Key!IsInjective(r)
  BY KeyAppended
<1>4. pressedKeys' = [ pressedKeys EXCEPT ![s] = r ]
  BY <1>1, <1>2, <1>3
<1>5. pressedKeys' \in [ Surfaces -> Seq(Keys) ] /\ heldKeys' \in [ Surfaces -> SUBSET Keys ]
  BY <1>1, <1>4 DEF KeyTypes
<1>6. ASSUME ~ pressedTwice', NEW t \in Surfaces
      PROVE  Key!IsInjective(pressedKeys'[t])
  <2>1. Key!IsInjective(r)
    BY <1>1, <1>2, <1>3, <1>6 DEF RecordedOnce
  <2> QED
    BY <1>4, <2>1 DEF RecordedOnce, KeyTypes
<1>7. ASSUME NEW t \in Surfaces
      PROVE  heldKeys'[t] = Key!Range(pressedKeys'[t])
  <2>1. heldKeys[s] \cup { key } = Key!Range(r)
    BY <1>2, <1>3 DEF Key!HeldIsRecorded
  <2> QED
    BY <1>1, <1>4, <2>1 DEF Key!HeldIsRecorded, KeyTypes
<1> QED
  BY <1>5, <1>6, <1>7 DEF RecordedOnce, Key!HeldIsRecorded

LEMMA KeyReleased ==
  ASSUME KeyInv, NEW s \in Surfaces, NEW key \in Keys, Key!KeyReleaseEvent(s, key), ~ pressedTwice
  PROVE  /\ pressedKeys' \in [ Surfaces -> Seq(Keys) ] /\ heldKeys' \in [ Surfaces -> SUBSET Keys ]
         /\ RecordedOnce' /\ Key!HeldIsRecorded'
<1> USE DEF KeyInv
<1>1. CASE ~ Key!IsKeyPressed(s, key)
  BY <1>1 DEF Key!KeyReleaseEvent, KeyTypes, RecordedOnce, Key!HeldIsRecorded
<1>2. CASE Key!IsKeyPressed(s, key)
  <2>1. /\ Key!ForgetPressedKey(s, key) /\ heldKeys' = [ heldKeys EXCEPT ![s] = heldKeys[s] \ { key } ]
        /\ UNCHANGED pressedTwice
    BY <1>2 DEF Key!KeyReleaseEvent
  <2>2. PICK i \in DOMAIN pressedKeys[s] :
          /\ pressedKeys[s][i] = key
          /\ pressedKeys' = [ pressedKeys EXCEPT ![s] =
               SubSeq(pressedKeys[s], 1, i - 1) \o SubSeq(pressedKeys[s], i + 1, Len(pressedKeys[s])) ]
    BY <2>1 DEF Key!ForgetPressedKey
  <2>3. PICK q \in Seq(Keys) : q = pressedKeys[s]
    BY DEF KeyTypes
  <2>4. PICK r : r = SubSeq(q, 1, i - 1) \o SubSeq(q, i + 1, Len(q))
    OBVIOUS
  <2>5. Key!IsInjective(q)
    BY <2>3 DEF RecordedOnce
  <2>6. r \in Seq(Keys) /\ Key!IsInjective(r) /\ Key!Range(r) = Key!Range(q) \ { key }
    <3>1. i \in DOMAIN q /\ q[i] = key
      BY <2>2, <2>3
    <3> QED
      BY <2>4, <2>5, <3>1, KeyRemoved
  <2>7. pressedKeys' = [ pressedKeys EXCEPT ![s] = r ]
    BY <2>2, <2>3, <2>4
  <2>8. pressedKeys' \in [ Surfaces -> Seq(Keys) ] /\ heldKeys' \in [ Surfaces -> SUBSET Keys ]
    BY <2>1, <2>6, <2>7 DEF KeyTypes
  <2>9. RecordedOnce'
    BY <2>1, <2>6, <2>7 DEF RecordedOnce, KeyTypes
  <2>10. ASSUME NEW t \in Surfaces
         PROVE  heldKeys'[t] = Key!Range(pressedKeys'[t])
    <3>1. heldKeys[s] \ { key } = Key!Range(r)
      BY <2>3, <2>6 DEF Key!HeldIsRecorded
    <3> QED
      BY <2>1, <2>7, <3>1 DEF Key!HeldIsRecorded, KeyTypes
  <2> QED
    BY <2>8, <2>9, <2>10 DEF Key!HeldIsRecorded
<1> QED
  BY <1>1, <1>2

LEMMA KeyAllReleased ==
  ASSUME KeyInv, NEW s \in Surfaces, Key!ReleaseAllPressedKeys(s), UNCHANGED pressedTwice
  PROVE  /\ pressedKeys' \in [ Surfaces -> Seq(Keys) ] /\ heldKeys' \in [ Surfaces -> SUBSET Keys ]
         /\ RecordedOnce' /\ Key!HeldIsRecorded'
<1> USE DEF KeyInv
<1>1. /\ pressedKeys' = [ pressedKeys EXCEPT ![s] = << >> ]
      /\ heldKeys' = [ heldKeys EXCEPT ![s] = heldKeys[s] \ Key!Range(pressedKeys[s]) ]
  BY DEF Key!ReleaseAllPressedKeys
<1>2. heldKeys[s] \ Key!Range(pressedKeys[s]) = {}
  BY DEF Key!HeldIsRecorded
<1>3. Key!Range(<< >>) = {} /\ Key!IsInjective(<< >>)
  BY DEF Key!Range, Key!IsInjective
<1>4. pressedKeys' \in [ Surfaces -> Seq(Keys) ] /\ heldKeys' \in [ Surfaces -> SUBSET Keys ]
  BY <1>1 DEF KeyTypes
<1>5. RecordedOnce' /\ Key!HeldIsRecorded'
  BY <1>1, <1>2, <1>3 DEF RecordedOnce, Key!HeldIsRecorded, KeyTypes
<1> QED
  BY <1>4, <1>5

LEMMA KeyKept ==
  ASSUME Key!KeyAssumption, KeyInv, [Key!Next]_keyVars
  PROVE  KeyInv'
<1> USE DEF KeyInv
<1>1. ASSUME NEW key \in Keys, NEW type \in { "press", "repeat", "release" }, Key!DispatchKey(type, key)
      PROVE  KeyInv'
  <2>1. << type, key >> \in Key!KeyEvents
    BY DEF Key!KeyEvents
  <2>2. /\ keyEvents' = Append(keyEvents, << type, key >>)
        /\ UNCHANGED << qmlFocus, liveToKeys, Key!focusVars, Key!surfaceVars >>
    BY <1>1 DEF Key!DispatchKey
  <2>3. KeyTypes'
    BY <2>1, <2>2 DEF KeyTypes, Key!focusVars, Key!surfaceVars
  <2> QED
    BY <2>2, <2>3 DEF RecordedOnce, Key!HeldIsRecorded, Key!surfaceVars
<1>2. CASE Key!QtHandlesKey
  <2>1. /\ keyEvents' \in Seq(Key!KeyEvents) /\ Head(keyEvents)[2] \in Keys /\ ~ pressedTwice
        /\ UNCHANGED << qmlFocus, liveToKeys >>
    BY <1>2, KeyTaken DEF Key!QtHandlesKey
  <2>2. PICK key \in Keys : key = Head(keyEvents)[2]
    BY <2>1
  <2>3. \/ qmlFocus \in liveToKeys /\ Key!KeyPressEvent(qmlFocus, key)
        \/ qmlFocus \in liveToKeys /\ Key!KeyReleaseEvent(qmlFocus, key)
        \/ UNCHANGED << Key!focusVars, pressedKeys, heldKeys, pressedTwice >>
    BY <1>2, <2>2 DEF Key!QtHandlesKey, Key!KeyRepeatEvent
  <2>4. keyWindow' \in Surfaces \cup { NoSurface } /\ focusNotices' \in Seq(Key!FocusNotices)
    <3>1. CASE qmlFocus \in liveToKeys /\ Key!KeyPressEvent(qmlFocus, key)
      BY <3>1, KeySelects DEF Key!KeyPressEvent, Key!EnsureWindowIsActive, KeyTypes, Key!focusVars
    <3>2. CASE UNCHANGED Key!focusVars
      BY <3>2 DEF KeyTypes, Key!focusVars
    <3> QED
      BY <2>3, <3>1, <3>2 DEF Key!KeyReleaseEvent
  <2>5. /\ pressedKeys' \in [ Surfaces -> Seq(Keys) ] /\ heldKeys' \in [ Surfaces -> SUBSET Keys ]
        /\ RecordedOnce' /\ Key!HeldIsRecorded'
    <3>1. CASE UNCHANGED << pressedKeys, heldKeys, pressedTwice >>
      BY <3>1 DEF KeyTypes, RecordedOnce, Key!HeldIsRecorded
    <3>2. qmlFocus \in liveToKeys => qmlFocus \in Surfaces
      BY DEF KeyTypes
    <3> QED
      BY <2>1, <2>3, <3>1, <3>2, KeyPressed, KeyReleased
  <2> QED
    BY <2>1, <2>4, <2>5 DEF KeyTypes
<1>3. CASE Key!FocusHeard
  <2>1. /\ Head(focusNotices)[1] \in Surfaces /\ focusNotices' \in Seq(Key!FocusNotices)
        /\ UNCHANGED << keyEvents, qmlFocus, liveToKeys, keyWindow, pressedTwice >>
    BY <1>3, KeyTaken DEF Key!FocusHeard
  <2>2. PICK s \in Surfaces : s = Head(focusNotices)[1]
    BY <2>1
  <2>3. Key!ReleaseAllPressedKeys(s) \/ UNCHANGED << pressedKeys, heldKeys >>
    BY <1>3, <2>2 DEF Key!FocusHeard
  <2>4. /\ pressedKeys' \in [ Surfaces -> Seq(Keys) ] /\ heldKeys' \in [ Surfaces -> SUBSET Keys ]
        /\ RecordedOnce' /\ Key!HeldIsRecorded'
    <3>1. CASE UNCHANGED << pressedKeys, heldKeys >>
      BY <2>1, <3>1 DEF KeyTypes, RecordedOnce, Key!HeldIsRecorded
    <3> QED
      BY <2>1, <2>3, <3>1, KeyAllReleased
  <2> QED
    BY <2>1, <2>4 DEF KeyTypes
<1>4. ASSUME NEW s \in Surfaces \cup { NoSurface }, Key!ActiveWindowChanges(s)
      PROVE  KeyInv'
  <2>1. Key!Select(s) /\ UNCHANGED << down, keyEvents, qmlFocus, liveToKeys, Key!surfaceVars >>
    BY <1>4 DEF Key!ActiveWindowChanges
  <2>2. KeyTypes'
    BY <2>1, KeySelects DEF KeyTypes, Key!surfaceVars
  <2> QED
    BY <2>1, <2>2 DEF RecordedOnce, Key!HeldIsRecorded, Key!surfaceVars
<1>5. ASSUME NEW s \in Surfaces \cup { NoSurface }, Key!QmlFocusMoves(s)
      PROVE  KeyInv'
  BY <1>5 DEF Key!QmlFocusMoves, KeyTypes, RecordedOnce, Key!HeldIsRecorded, Key!focusVars,
     Key!surfaceVars
<1>6. ASSUME NEW s \in Surfaces, Key!SurfaceDies(s)
      PROVE  KeyInv'
  BY <1>6 DEF Key!SurfaceDies, KeyTypes, RecordedOnce, Key!HeldIsRecorded, Key!focusVars,
     Key!surfaceVars
<1>7. CASE UNCHANGED keyVars
  BY <1>7 DEF keyVars, KeyTypes, RecordedOnce, Key!HeldIsRecorded, Key!focusVars, Key!surfaceVars
<1> QED
  BY <1>1, <1>2, <1>3, <1>4, <1>5, <1>6, <1>7 DEF Key!Next

(* As long as no key is recorded twice, a client holds no key down that its *)
(* surface would not release, whatever keys are pressed and however focus   *)
(* moves: see KeyInput.                                                     *)
THEOREM KeysRecorded == InputSpec => []HeldIsRecorded
<1> DEFINE Inv == part = "key" => KeyInv
<1> USE KeyAssumption
<1>1. InputInit => Inv
  BY KeyInit DEF InputInit
<1>2. Inv /\ [UNCHANGED part /\ InputNext]_<< part, inputVars >> => Inv'
  BY KeyKept DEF InputNext, inputVars
<1>3. Inv => HeldIsRecorded
  BY DEF KeyInv, HeldIsRecorded
<1> QED
  BY <1>1, <1>2, <1>3, PTL DEF InputSpec

------------------------------------------------------------------------------
(* Events: see PointerInput.                                                *)

Infos == [ stamp : Nat, mir : Pointer!MirEvents \cup { Pointer!NoEvent } ]
OnTheirWay ==
  [ kind : Pointer!Kinds, stamp : Nat, mir : Pointer!MirEvents, age : Nat, reset : BOOLEAN ]

BuilderTypes ==
  /\ startTime \in Nat
  /\ ring \in [ 0 .. RingSize - 1 -> Infos ]
  /\ nextIndex \in 0 .. RingSize - 1 /\ count \in 0 .. RingSize /\ fresh \in 0 .. count
  /\ visible \in BOOLEAN

(* How many events were stored since an entry of the ring was.              *)
AgeOf(i) == IF i < nextIndex THEN nextIndex - 1 - i ELSE nextIndex - 1 - i + RingSize

(* Those stored since the start time was reset have a stamp of that time.   *)
FreshAreRight ==
  /\ count < RingSize => nextIndex = count
  /\ startTime = 0 => count = 0
  /\ \A i \in 0 .. count - 1 :
       AgeOf(i) < fresh => ring[i].mir.time = startTime + ring[i].stamp

(* An event on its way has such a stamp as well if it was not reset since,  *)
(* and its entry is in the ring until that has gone round.                  *)
IsKept(e) ==
  /\ startTime # 0
  /\ ~ e.reset => e.mir.time = startTime + e.stamp
  /\ e.age < RingSize => \E i \in 0 .. count - 1 : AgeOf(i) = e.age /\ ring[i].stamp = e.stamp

KeptEvents == { e \in OnTheirWay : IsKept(e) }

QueuesKept == toPointer \in Seq(KeptEvents) /\ pointerEvents \in Seq(KeptEvents)

PointerInv == BuilderTypes /\ FreshAreRight /\ QueuesKept /\ Pointer!InfoKept

LEMMA PointerInit == Pointer!RingAssumption /\ Pointer!Init => PointerInv
<1> SUFFICES ASSUME Pointer!RingAssumption, Pointer!Init PROVE PointerInv
  OBVIOUS
<1>1. BuilderTypes
  <2>1. [ stamp |-> 0, mir |-> Pointer!NoEvent ] \in Infos
    BY DEF Infos
  <2>2. ring \in [ 0 .. RingSize - 1 -> Infos ]
    BY <2>1 DEF Pointer!Init
  <2>3. /\ startTime \in Nat /\ visible \in BOOLEAN
        /\ nextIndex \in 0 .. RingSize - 1 /\ count \in 0 .. RingSize /\ fresh \in 0 .. count
    BY DEF Pointer!Init, Pointer!RingAssumption
  <2> QED
    BY <2>2, <2>3 DEF BuilderTypes
<1>2. FreshAreRight /\ QueuesKept /\ Pointer!InfoKept
  BY DEF Pointer!Init, FreshAreRight, QueuesKept, Pointer!InfoKept
<1> QED
  BY <1>1, <1>2 DEF PointerInv

LEMMA PointerRound ==
  ASSUME Pointer!RingAssumption, NEW n \in 0 .. RingSize - 1
  PROVE  (n + 1) % RingSize = IF n + 1 = RingSize THEN 0 ELSE n + 1
BY DEF Pointer!RingAssumption

(* What store() does to what was stored, and to the start time.             *)
LEMMA PointerStored ==
  ASSUME Pointer!RingAssumption, Pointer!BoundAssumption, BuilderTypes, FreshAreRight, NEW mir \in Pointer!MirEvents, Pointer!Store(mir),
         NEW at, at = nextIndex
  PROVE  /\ UNCHANGED visible => BuilderTypes'
         /\ FreshAreRight' /\ startTime' # 0 /\ Pointer!Compressed(mir.time) \in Nat
         /\ mir.time = startTime' + Pointer!Compressed(mir.time)
         /\ startTime # 0 /\ ~ Pointer!MustReset(mir.time) => startTime' = startTime
         /\ at \in 0 .. count' - 1 /\ AgeOf(at)' = 0
         /\ ring'[at].stamp = Pointer!Compressed(mir.time)
         /\ \A i \in 0 .. count - 1 :
              i # at => AgeOf(i)' = AgeOf(i) + 1 /\ ring'[i] = ring[i] /\ i \in 0 .. count' - 1
         /\ count = RingSize => AgeOf(at) = RingSize - 1
<1> USE DEF BuilderTypes, Pointer!RingAssumption
<1>1. mir.time \in Nat /\ mir.time # 0
  BY DEF Pointer!MirEvents, Pointer!BoundAssumption
<1>2. PICK stamp \in Nat : stamp = Pointer!Compressed(mir.time)
  BY <1>1 DEF Pointer!Compressed, Pointer!MustReset, Pointer!StartTime
<1>3. /\ startTime' \in Nat /\ startTime' # 0 /\ mir.time = startTime' + stamp
      /\ startTime # 0 /\ ~ Pointer!MustReset(mir.time) => startTime' = startTime
  BY <1>1, <1>2 DEF Pointer!Store, Pointer!Compressed, Pointer!MustReset, Pointer!StartTime
<1>4. ring' = [ ring EXCEPT ![at] = [ stamp |-> stamp, mir |-> mir ] ]
  BY <1>2 DEF Pointer!Store
<1>5. ring' \in [ 0 .. RingSize - 1 -> Infos ] /\ ring'[at] = [ stamp |-> stamp, mir |-> mir ]
  <2>1. [ stamp |-> stamp, mir |-> mir ] \in Infos
    BY DEF Infos
  <2> QED
    BY <1>4, <2>1
<1>6. nextIndex' = IF at + 1 = RingSize THEN 0 ELSE at + 1
  BY PointerRound DEF Pointer!Store
<1>7. count' = IF count < RingSize THEN count + 1 ELSE count
  BY DEF Pointer!Store
<1>8. fresh' = IF Pointer!MustReset(mir.time) THEN 1 ELSE IF fresh < RingSize THEN fresh + 1 ELSE fresh
  BY DEF Pointer!Store
<1>9. count < RingSize => at = count
  BY DEF FreshAreRight
<1>10. /\ nextIndex' \in 0 .. RingSize - 1 /\ count' \in 0 .. RingSize
       /\ at \in 0 .. count' - 1
       /\ count' < RingSize => nextIndex' = count'
  BY <1>6, <1>7, <1>9
<1>11. AgeOf(at)' = 0
  BY <1>6, <1>9 DEF AgeOf
<1>12. fresh' \in 0 .. count'
  BY <1>7, <1>8, <1>10
<1>13. ASSUME NEW i \in 0 .. count - 1, i # at
       PROVE  AgeOf(i)' = AgeOf(i) + 1 /\ ring'[i] = ring[i] /\ i \in 0 .. count' - 1
  <2>1. AgeOf(i)' = AgeOf(i) + 1
    BY <1>6, <1>9, <1>13 DEF AgeOf
  <2>2. i \in 0 .. RingSize - 1 /\ i \in 0 .. count' - 1
    BY <1>7
  <2> QED
    BY <1>4, <1>13, <2>1, <2>2
<1>14. ASSUME NEW i \in 0 .. count' - 1, AgeOf(i)' < fresh'
       PROVE  ring'[i].mir.time = startTime' + ring'[i].stamp
  <2>1. CASE i = at
    BY <1>3, <1>5, <2>1
  <2>2. CASE i # at
    <3>1. i \in 0 .. count - 1
      BY <1>7, <1>9, <2>2
    <3>2. AgeOf(i)' = AgeOf(i) + 1 /\ ring'[i] = ring[i]
      BY <1>13, <2>2, <3>1
    <3>3. AgeOf(i) \in Nat
      BY <3>1 DEF AgeOf
    <3>4. ~ Pointer!MustReset(mir.time) /\ AgeOf(i) < fresh
      BY <1>8, <1>14, <3>2, <3>3
    <3>5. startTime # 0
      BY <3>1 DEF FreshAreRight
    <3> QED
      BY <1>3, <3>1, <3>2, <3>4, <3>5 DEF FreshAreRight
  <2> QED
    BY <2>1, <2>2
<1>15. FreshAreRight'
  BY <1>3, <1>10, <1>14 DEF FreshAreRight
<1>16. count = RingSize => AgeOf(at) = RingSize - 1
  BY DEF AgeOf
<1>17. UNCHANGED visible => BuilderTypes'
  BY <1>3, <1>5, <1>10, <1>12
<1>18. /\ Pointer!Compressed(mir.time) \in Nat /\ mir.time = startTime' + Pointer!Compressed(mir.time)
       /\ ring'[at].stamp = Pointer!Compressed(mir.time)
  <2>1. ring'[at].stamp = stamp
    BY <1>5
  <2> QED
    BY <1>2, <1>3, <2>1, Zenon
<1> HIDE DEF BuilderTypes, Pointer!RingAssumption
<1>19. \A i \in 0 .. count - 1 :
         i # at => AgeOf(i)' = AgeOf(i) + 1 /\ ring'[i] = ring[i] /\ i \in 0 .. count' - 1
  BY <1>13
<1>20. FreshAreRight' /\ startTime' # 0 /\ AgeOf(at)' = 0 /\ at \in 0 .. count' - 1
  BY <1>3, <1>10, <1>11, <1>15
<1>21. startTime # 0 /\ ~ Pointer!MustReset(mir.time) => startTime' = startTime
  BY <1>3
<1> QED
  BY <1>16, <1>17, <1>18, <1>19, <1>20, <1>21, Zenon

(* An event that was on its way is a store older, and one that is new is    *)
(* the one that was stored.                                                 *)
LEMMA PointerAged ==
  ASSUME Pointer!RingAssumption, Pointer!BoundAssumption, BuilderTypes, FreshAreRight, NEW mir \in Pointer!MirEvents, Pointer!Store(mir),
         NEW queue \in Seq(KeptEvents)
  PROVE  Pointer!Aged(queue, Pointer!MustReset(mir.time)) \in Seq(KeptEvents')
<1> PICK at : at = nextIndex
  OBVIOUS
<1>1. /\ startTime' # 0
      /\ startTime # 0 /\ ~ Pointer!MustReset(mir.time) => startTime' = startTime
      /\ \A i \in 0 .. count - 1 :
           i # at => AgeOf(i)' = AgeOf(i) + 1 /\ ring'[i] = ring[i] /\ i \in 0 .. count' - 1
      /\ count = RingSize => AgeOf(at) = RingSize - 1
  BY PointerStored
<1>2. ASSUME NEW e \in KeptEvents
      PROVE  [ e EXCEPT !.age = @ + 1, !.reset = @ \/ Pointer!MustReset(mir.time) ] \in KeptEvents'
  <2>1. PICK f : f = [ e EXCEPT !.age = @ + 1, !.reset = @ \/ Pointer!MustReset(mir.time) ]
    OBVIOUS
  <2>2. e \in OnTheirWay /\ IsKept(e)
    BY DEF KeptEvents
  <2>3. Pointer!MustReset(mir.time) \in BOOLEAN
    BY DEF Pointer!MustReset
  <2>4. /\ e.kind \in Pointer!Kinds /\ e.stamp \in Nat /\ e.mir \in Pointer!MirEvents /\ e.age \in Nat
        /\ e = [ kind |-> e.kind, stamp |-> e.stamp, mir |-> e.mir, age |-> e.age, reset |-> e.reset ]
    BY <2>2 DEF OnTheirWay
  <2>5. f = [ kind |-> e.kind, stamp |-> e.stamp, mir |-> e.mir, age |-> e.age + 1,
                reset |-> e.reset \/ Pointer!MustReset(mir.time) ]
    BY <2>1, <2>4
  <2>6. f.mir = e.mir /\ f.stamp = e.stamp /\ f.age = e.age + 1
    BY <2>5
  <2>7. f \in OnTheirWay
    <3>1. e.age + 1 \in Nat
      BY <2>4
    <3>2. (e.reset \/ Pointer!MustReset(mir.time)) \in BOOLEAN
      OBVIOUS
    <3> QED
      BY <2>4, <2>5, <3>1, <3>2, Zenon DEF OnTheirWay
  <2>8. ~ f.reset => ~ e.reset /\ ~ Pointer!MustReset(mir.time)
    BY <2>1, <2>2 DEF OnTheirWay
  <2>9. ~ f.reset => f.mir.time = startTime' + f.stamp
    BY <1>1, <2>2, <2>6, <2>8 DEF IsKept
  <2>10. ASSUME f.age < RingSize
        PROVE  \E i \in 0 .. count' - 1 : AgeOf(i)' = f.age /\ ring'[i].stamp = f.stamp
    <3>1. e.age < RingSize - 1 /\ e.age < RingSize
      BY <2>4, <2>6, <2>10 DEF Pointer!RingAssumption
    <3>2. PICK i \in 0 .. count - 1 : AgeOf(i) = e.age /\ ring[i].stamp = e.stamp
      BY <2>2, <3>1 DEF IsKept
    <3>3. i # at
      BY <1>1, <3>1, <3>2 DEF FreshAreRight, BuilderTypes, Pointer!RingAssumption
    <3>4. i \in 0 .. count' - 1 /\ AgeOf(i)' = f.age /\ ring'[i].stamp = f.stamp
      BY <1>1, <2>6, <3>2, <3>3
    <3> QED
      BY <3>4
  <2>11. IsKept(f)'
    BY <1>1, <2>9, <2>10 DEF IsKept
  <2>12. f \in KeptEvents'
    BY <2>7, <2>11 DEF KeptEvents
  <2> QED
    BY <2>1, <2>12
<1> DEFINE older(e) == [ e EXCEPT !.age = @ + 1, !.reset = @ \/ Pointer!MustReset(mir.time) ]
<1>3. \A e \in KeptEvents : older(e) \in KeptEvents'
  BY <1>2
<1>4. Pointer!Aged(queue, Pointer!MustReset(mir.time)) = [ i \in DOMAIN queue |-> older(queue[i]) ]
  BY DEF Pointer!Aged
<1> HIDE DEF older
<1>5. Len(queue) \in Nat /\ DOMAIN queue = 1 .. Len(queue) /\ \A i \in DOMAIN queue : queue[i] \in KeptEvents
  OBVIOUS
<1>6. [ i \in DOMAIN queue |-> older(queue[i]) ] \in [ 1 .. Len(queue) -> KeptEvents' ]
  BY <1>3, <1>5
<1>7. [ i \in DOMAIN queue |-> older(queue[i]) ] \in Seq(KeptEvents')
  BY <1>5, <1>6
<1> QED
  BY <1>4, <1>7

LEMMA PointerQueued ==
  ASSUME Pointer!RingAssumption, Pointer!BoundAssumption, BuilderTypes, FreshAreRight, NEW mir \in Pointer!MirEvents, Pointer!Store(mir),
         NEW kinds \in Seq(Pointer!Kinds)
  PROVE  Pointer!Queued(kinds, mir) \in Seq(KeptEvents')
<1> PICK at : at = nextIndex
  OBVIOUS
<1>1. /\ startTime' # 0 /\ Pointer!Compressed(mir.time) \in Nat /\ mir.time = startTime' + Pointer!Compressed(mir.time)
      /\ at \in 0 .. count' - 1 /\ AgeOf(at)' = 0 /\ ring'[at].stamp = Pointer!Compressed(mir.time)
  BY PointerStored
<1> DEFINE new(kind) == [ kind |-> kind, stamp |-> Pointer!Compressed(mir.time), mir |-> mir, age |-> 0, reset |-> FALSE ]
<1>2. ASSUME NEW kind \in Pointer!Kinds
      PROVE  new(kind) \in KeptEvents'
  <2>1. PICK f : f = new(kind)
    OBVIOUS
  <2>2. f \in OnTheirWay /\ f.age = 0 /\ f.mir = mir /\ f.stamp = Pointer!Compressed(mir.time)
    BY <1>1, <2>1 DEF OnTheirWay
  <2>3. IsKept(f)'
    BY <1>1, <2>2 DEF IsKept
  <2>4. f \in KeptEvents'
    BY <2>2, <2>3 DEF KeptEvents
  <2> QED
    BY <2>1, <2>4
<1>3. Pointer!Queued(kinds, mir) = [ i \in DOMAIN kinds |-> new(kinds[i]) ]
  BY DEF Pointer!Queued
<1> HIDE DEF new
<1>4. Len(kinds) \in Nat /\ DOMAIN kinds = 1 .. Len(kinds) /\ \A i \in DOMAIN kinds : kinds[i] \in Pointer!Kinds
  OBVIOUS
<1>5. [ i \in DOMAIN kinds |-> new(kinds[i]) ] \in [ 1 .. Len(kinds) -> KeptEvents' ]
  BY <1>2, <1>4
<1>6. [ i \in DOMAIN kinds |-> new(kinds[i]) ] \in Seq(KeptEvents')
  BY <1>4, <1>5
<1> QED
  BY <1>3, <1>6

(* Of some numbers below a bound, one is the least.                         *)
LEMMA PointerLeast ==
  ASSUME NEW n \in Nat, NEW numbers \in SUBSET (0 .. n), numbers # {}
  PROVE  \E j \in numbers : \A k \in numbers : j <= k
<1> DEFINE initials == { 0 .. j : j \in numbers }
<1>1. IsWellFoundedOn(StrictSubsetOrdering(0 .. n), FiniteSubsetsOf(0 .. n))
  BY FS_StrictSubsetOrderingWellFounded
<1>2. IsFiniteSet(0 .. n)
  BY FS_Interval
<1>3. FiniteSubsetsOf(0 .. n) = SUBSET (0 .. n)
  BY <1>2, FS_FiniteSubsetsOfFinite
<1>4. initials \subseteq SUBSET (0 .. n) /\ initials # {}
  <2>1. PICK some \in numbers : TRUE
    OBVIOUS
  <2>2. 0 .. some \in initials
    OBVIOUS
  <2>3. ASSUME NEW j \in numbers
        PROVE  0 .. j \in SUBSET (0 .. n)
    OBVIOUS
  <2>4. ASSUME NEW x \in initials
        PROVE  x \in SUBSET (0 .. n)
    BY <2>3
  <2> QED
    BY <2>2, <2>4
<1>5. PICK x \in initials : \A y \in initials : ~ (<< y, x >> \in StrictSubsetOrdering(0 .. n))
  BY <1>1, <1>3, <1>4, WFMin
<1>6. PICK j \in numbers : x = 0 .. j
  BY <1>5
<1>7. ASSUME NEW k \in numbers
      PROVE  j <= k
  <2>1. CASE k < j
    <3>1. 0 .. k \in SUBSET (0 .. n) /\ 0 .. j \in SUBSET (0 .. n)
      BY <1>6
    <3>2. 0 .. k \subseteq 0 .. j /\ 0 .. k # 0 .. j
      BY <1>6, <2>1
    <3>3. << 0 .. k, 0 .. j >> \in StrictSubsetOrdering(0 .. n)
      BY <3>1, <3>2, Zenon DEF StrictSubsetOrdering
    <3>4. 0 .. k \in initials
      OBVIOUS
    <3> QED
      BY <1>5, <1>6, <3>3, <3>4
  <2> QED
    BY <1>6, <2>1
<1> QED
  BY <1>6, <1>7

(* findInfo() finds an entry with the stamp if there is one.                *)
LEMMA PointerFinds ==
  ASSUME Pointer!RingAssumption, BuilderTypes, NEW stamp \in Nat, NEW i \in 0 .. count - 1, ring[i].stamp = stamp
  PROVE  \E j \in 0 .. count - 1 : ring[j].stamp = stamp /\ Pointer!FindInfo(stamp) = ring[j].mir
<1> DEFINE found == { j \in 0 .. count - 1 : ring[j].stamp = stamp }
<1>1. \E j \in found : \A k \in found : j <= k
  <2>1. PICK all : all = found
    OBVIOUS
  <2>2. all \subseteq 0 .. RingSize /\ i \in all
    BY <2>1 DEF BuilderTypes, Pointer!RingAssumption
  <2> QED
    BY <2>1, <2>2, PointerLeast DEF Pointer!RingAssumption
<1>2. PICK j \in found : j = CHOOSE m \in found : \A k \in found : m <= k
  BY <1>1
<1>3. Pointer!FindInfo(stamp) = ring[j].mir
  BY <1>2 DEF Pointer!FindInfo
<1> QED
  BY <1>3

(* The client is told what is kept of the event.                            *)
LEMMA PointerDelivered ==
  ASSUME Pointer!RingAssumption, BuilderTypes, FreshAreRight, NEW e \in KeptEvents, told' = Pointer!MirEvent(e)
  PROVE  Pointer!InfoKept'
<1>1. e \in OnTheirWay /\ IsKept(e)
  BY DEF KeptEvents
<1>2. /\ told'.time = startTime + e.stamp /\ told'.by = e /\ told'.mixed = (fresh < count)
      /\ e.stamp # 0 => told'.info = Pointer!FindInfo(e.stamp)
  BY DEF Pointer!MirEvent
<1>3. ASSUME ~ e.reset
      PROVE  told'.time = e.mir.time
  BY <1>1, <1>2, <1>3 DEF IsKept
<1>4. ASSUME ~ e.reset, e.age < RingSize, e.stamp # 0, ~ fresh < count
      PROVE  told'.info.time = e.mir.time
  <2>1. PICK i \in 0 .. count - 1 : ring[i].stamp = e.stamp
    BY <1>1, <1>4 DEF IsKept
  <2>2. PICK j \in 0 .. count - 1 : ring[j].stamp = e.stamp /\ Pointer!FindInfo(e.stamp) = ring[j].mir
    BY <1>1, <2>1, PointerFinds DEF OnTheirWay
  <2>3. fresh = count /\ (count < RingSize => nextIndex = count)
    BY <1>4 DEF BuilderTypes, FreshAreRight, Pointer!RingAssumption
  <2>4. AgeOf(j) < fresh
    BY <2>3 DEF BuilderTypes, AgeOf, Pointer!RingAssumption
  <2> QED
    BY <1>1, <1>2, <1>4, <2>2, <2>4 DEF FreshAreRight, IsKept
<1> QED
  BY <1>2, <1>3, <1>4 DEF Pointer!InfoKept

LEMMA PointerInvKept ==
  ASSUME Pointer!RingAssumption, Pointer!BoundAssumption, PointerInv, [Pointer!Next]_pointerVars
  PROVE  PointerInv'
<1> USE DEF PointerInv
<1>1. ASSUME NEW mir \in Pointer!MirEvents, NEW kinds \in Seq(Pointer!Kinds), Pointer!DispatchPointer(kinds, mir)
      PROVE  PointerInv'
  <2>1. Pointer!Store(mir) /\ UNCHANGED << visible, told >>
    BY <1>1 DEF Pointer!DispatchPointer, Pointer!Arrives
  <2>2. PICK new \in Seq(KeptEvents') : new = Pointer!Queued(kinds, mir)
    BY <2>1, PointerQueued
  <2>3. PICK a \in Seq(KeptEvents') : a = Pointer!Aged(toPointer, Pointer!MustReset(mir.time))
    BY <2>1, PointerAged DEF QueuesKept
  <2>4. PICK b \in Seq(KeptEvents') : b = Pointer!Aged(pointerEvents, Pointer!MustReset(mir.time))
    BY <2>1, PointerAged DEF QueuesKept
  <2>5. PICK c : c = Pointer!HandledByCursor(new) /\ c \in Seq(KeptEvents')
    <3>1. << >> \in Seq(KeptEvents')
      OBVIOUS
    <3>2. Pointer!HandledByCursor(new) \in Seq(KeptEvents')
      BY <3>1, Zenon DEF Pointer!HandledByCursor
    <3> QED
      BY <3>2
  <2>6. PICK d \in Seq(KeptEvents') : d = IF c = << >> THEN new ELSE << >>
    <3>1. << >> \in Seq(KeptEvents')
      OBVIOUS
    <3> QED
      BY <3>1, Zenon
  <2>7. toPointer' = a \o c /\ pointerEvents' = b \o d
    BY <1>1, <2>2, <2>3, <2>4, <2>5, <2>6 DEF Pointer!DispatchPointer
  <2>8. QueuesKept'
    BY <2>5, <2>7 DEF QueuesKept
  <2>9. BuilderTypes' /\ FreshAreRight'
    BY <2>1, PointerStored
  <2>10. Pointer!InfoKept'
    BY <2>1 DEF Pointer!InfoKept
  <2> QED
    BY <2>8, <2>9, <2>10
<1>2. ASSUME NEW mir \in Pointer!MirEvents, NEW kind \in { "key", "touch" }, Pointer!DispatchOther(kind, mir)
      PROVE  PointerInv'
  <2>1. Pointer!Store(mir) /\ UNCHANGED << visible, told >>
    BY <1>2 DEF Pointer!DispatchOther, Pointer!Arrives
  <2>2. PICK kinds \in { << >>, << kind >> } :
          pointerEvents' = Pointer!Aged(pointerEvents, Pointer!MustReset(mir.time)) \o Pointer!Queued(kinds, mir)
    BY <1>2 DEF Pointer!DispatchOther
  <2>3. kind \in Pointer!Kinds
    BY DEF Pointer!Kinds
  <2>4. kinds \in Seq(Pointer!Kinds)
    <3>1. << >> \in Seq(Pointer!Kinds) /\ << kind >> \in Seq(Pointer!Kinds)
      BY <2>3
    <3> QED
      BY <3>1, <2>2
  <2>5. PICK new \in Seq(KeptEvents') : new = Pointer!Queued(kinds, mir)
    BY <2>1, <2>4, PointerQueued
  <2>6. PICK a \in Seq(KeptEvents') : a = Pointer!Aged(toPointer, Pointer!MustReset(mir.time))
    BY <2>1, PointerAged DEF QueuesKept
  <2>7. PICK b \in Seq(KeptEvents') : b = Pointer!Aged(pointerEvents, Pointer!MustReset(mir.time))
    BY <2>1, PointerAged DEF QueuesKept
  <2>8. toPointer' = a /\ pointerEvents' = b \o new
    BY <1>2, <2>2, <2>5, <2>6, <2>7 DEF Pointer!DispatchOther
  <2>9. QueuesKept'
    BY <2>8 DEF QueuesKept
  <2> QED
    BY <2>1, <2>9, PointerStored DEF Pointer!InfoKept
<1>3. ASSUME UNCHANGED Pointer!builderVars
      PROVE  KeptEvents' = KeptEvents /\ FreshAreRight' /\ (UNCHANGED visible => BuilderTypes')
  BY <1>3 DEF Pointer!builderVars, KeptEvents, IsKept, AgeOf, FreshAreRight, BuilderTypes
<1>4. CASE Pointer!PointerForwards
  <2>1. /\ toPointer # << >> /\ toPointer' = Tail(toPointer) /\ pointerEvents' = Append(pointerEvents, Head(toPointer))
        /\ UNCHANGED << Pointer!builderVars, visible, told >>
    BY <1>4 DEF Pointer!PointerForwards
  <2>2. toPointer' \in Seq(KeptEvents) /\ pointerEvents' \in Seq(KeptEvents)
    BY <2>1 DEF QueuesKept
  <2> QED
    BY <1>3, <2>1, <2>2 DEF QueuesKept, Pointer!InfoKept
<1>5. CASE Pointer!QtHandles
  <2>1. /\ pointerEvents # << >> /\ pointerEvents' = Tail(pointerEvents) /\ UNCHANGED << Pointer!builderVars, visible, toPointer >>
        /\ told' = Pointer!MirEvent(Head(pointerEvents)) \/ UNCHANGED told
    BY <1>5 DEF Pointer!QtHandles, Pointer!Deliver
  <2>2. pointerEvents' \in Seq(KeptEvents) /\ Head(pointerEvents) \in KeptEvents
    BY <2>1 DEF QueuesKept
  <2>3. PICK e \in KeptEvents : e = Head(pointerEvents)
    BY <2>2
  <2>4. Pointer!InfoKept'
    <3>1. CASE told' = Pointer!MirEvent(e)
      BY <3>1, PointerDelivered
    <3>2. CASE UNCHANGED told
      BY <3>2 DEF Pointer!InfoKept
    <3> QED
      BY <2>1, <2>3, <3>1, <3>2
  <2> QED
    BY <1>3, <2>1, <2>2, <2>4 DEF QueuesKept
<1>6. CASE \/ Pointer!ActiveWindowChanges \/ \E value \in BOOLEAN : Pointer!PointerShows(value)
           \/ UNCHANGED pointerVars
  <2>1. UNCHANGED << Pointer!builderVars, Pointer!queues, told >> /\ visible' \in BOOLEAN
    BY <1>6 DEF Pointer!ActiveWindowChanges, Pointer!PointerShows, pointerVars,
       Pointer!builderVars, Pointer!queues, BuilderTypes
  <2>2. BuilderTypes'
    BY <2>1 DEF Pointer!builderVars, BuilderTypes
  <2> QED
    BY <1>3, <2>1, <2>2 DEF QueuesKept, Pointer!InfoKept, Pointer!queues
<1>7. ASSUME NEW mir \in Pointer!MirEvents,
             NEW kinds \in { << "press" >>, << "motion" >>, << "wheel", "motion" >> }, Pointer!DispatchPointer(kinds, mir)
      PROVE  PointerInv'
  <2>1. "press" \in Pointer!Kinds /\ "motion" \in Pointer!Kinds /\ "wheel" \in Pointer!Kinds
    BY DEF Pointer!Kinds
  <2>2. << "press" >> \in Seq(Pointer!Kinds) /\ << "motion" >> \in Seq(Pointer!Kinds) /\ << "wheel", "motion" >> \in Seq(Pointer!Kinds)
    BY <2>1
  <2>3. kinds \in Seq(Pointer!Kinds)
    BY <2>2
  <2> QED
    BY <1>1, <1>7, <2>3
<1> QED
  BY <1>2, <1>4, <1>5, <1>6, <1>7 DEF Pointer!Next

(* For a ring of any size and any times, a client is told of an event what  *)
(* Mir said of it as long as the ring has it and has been filled since the  *)
(* start time was reset: see PointerInput.                                  *)
THEOREM InfoIsKept == InputSpec => []InfoKept
<1> DEFINE Inv == part = "pointer" => PointerInv
<1> USE PointerAssumption
<1>1. InputInit => Inv
  BY PointerInit DEF InputInit
<1>2. Inv /\ [UNCHANGED part /\ InputNext]_<< part, inputVars >> => Inv'
  BY PointerInvKept DEF InputNext, inputVars
<1>3. Inv => InfoKept
  BY DEF PointerInv, InfoKept
<1> QED
  BY <1>1, <1>2, <1>3, PTL DEF InputSpec
==============================================================================

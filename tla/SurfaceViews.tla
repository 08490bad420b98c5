---------------------------- MODULE SurfaceViews -----------------------------
(***************************************************************************)
(* The items that show a MirSurface, its views, and what its client and    *)
(* the shell are told of being seen.                                       *)
(*                                                                         *)
(* Each MirSurfaceItem registers itself with the surface it shows and      *)
(* tells it whether it can be seen and whether it has the scene's focus.   *)
(* The surface tells the client, once that has drawn, that it is exposed   *)
(* if any view is; and it works out whether it is visible from its state   *)
(* and from Mir's surface. Mir's threads change both, and post notices of  *)
(* it that the main thread handles in order.                               *)
(***************************************************************************)
EXTENDS Naturals, Sequences

CONSTANTS
  Items,          (* items that may show the surface                        *)
  MaxNotices      (* a bound: notices of Mir's threads on their way         *)

BoundAssumption == MaxNotices \in Nat \ {0}

VARIABLES
  hidden,         (* Mir: the surface is hidden                             *)
  drawn,          (* Mir: it has a frame, without which it is not visible   *)
  state,          (* MirAL: the window's state                              *)
  exposed,        (* Mir: mir_window_attrib_visibility, told to the client  *)
  notices,        (* events of Mir's threads posted to the main thread      *)
  stage,          (* how far the constructor has come                       *)
  live,           (* m_live                                                 *)
  ready,          (* m_ready                                                *)
  surfaceVisible, (* m_visible                                              *)
  surfaceState,   (* m_state                                                *)
  views,          (* m_views, the items registered                          *)
  exposedViews,   (* those whose View is exposed                            *)
  activeViews,    (* m_activelyFocusedViews                                 *)
  seen,           (* the items that isVisible() says can be seen            *)
  sceneFocus,     (* the item with the scene's active focus, if one         *)
  consuming,      (* the items whose m_consumesInput is set                 *)
  missed          (* history: hidden changed while nothing listened         *)

mirVars == << hidden, drawn, state, notices >>
surfaceVars == << exposed, stage, live, ready, surfaceVisible, surfaceState, missed >>
viewVars == << views, exposedViews, activeViews >>
itemVars == << seen, sceneFocus, consuming >>
vars == << mirVars, surfaceVars, viewVars, itemVars >>

States == { "restored", "minimized" }

TypeOK ==
  /\ hidden \in BOOLEAN /\ drawn \in BOOLEAN /\ state \in States /\ exposed \in BOOLEAN
  /\ notices \in Seq(States \cup { "ready", "hidden" })
  /\ stage \in { "new", "visibility read", "listening" }
  /\ live \in BOOLEAN /\ ready \in BOOLEAN /\ missed \in BOOLEAN
  /\ surfaceVisible \in BOOLEAN /\ surfaceState \in States
  /\ views \subseteq Items /\ exposedViews \subseteq views /\ activeViews \subseteq Items
  /\ seen \subseteq Items /\ consuming \subseteq Items
  /\ sceneFocus \in { {} } \cup { { i } : i \in Items }

(* The window was new to Mir a while ago.                                   *)
Init ==
  /\ hidden \in BOOLEAN /\ drawn = FALSE /\ state \in States /\ notices = << >>
  /\ exposed \in BOOLEAN /\ stage = "new" /\ live = TRUE /\ ready = FALSE
  /\ surfaceVisible = FALSE /\ surfaceState = state /\ missed = FALSE
  /\ views = {} /\ exposedViews = {} /\ activeViews = {}
  /\ seen = {} /\ sceneFocus = {} /\ consuming = {}

------------------------------------------------------------------------------
(* Mir's threads.                                                           *)

Post(notice) == Len(notices) < MaxNotices /\ notices' = Append(notices, notice)

(* hidden_set_to(), which only reaches a surface that listens.              *)
MirSetsHidden ==
  /\ hidden' = ~ hidden
  /\ IF stage = "listening" THEN Post("hidden") ELSE UNCHANGED notices
  /\ missed' = (missed \/ stage = "visibility read")
  /\ UNCHANGED << drawn, state, exposed, stage, live, ready, surfaceVisible, surfaceState,
                  viewVars, itemVars >>

(* The first frame, and handle_window_ready().                              *)
MirDraws ==
  /\ ~ drawn
  /\ drawn' = TRUE
  /\ Post("ready")
  /\ UNCHANGED << hidden, state, surfaceVars, viewVars, itemVars >>

(* advise_state_change().                                                   *)
MirChangesState(s) ==
  /\ state # s
  /\ state' = s
  /\ Post(s)
  /\ UNCHANGED << hidden, drawn, surfaceVars, viewVars, itemVars >>

------------------------------------------------------------------------------
(* MirSurface, in the main thread.                                          *)

(* The constructor reads is_visible(), then has an observer added.          *)
ReadVisible ==
  /\ stage = "new"
  /\ stage' = "visibility read"
  /\ surfaceVisible' = (surfaceState # "minimized" /\ ~ hidden /\ drawn)
  /\ UNCHANGED << mirVars, exposed, live, ready, surfaceState, missed, viewVars, itemVars >>

Listen ==
  /\ stage = "visibility read"
  /\ stage' = "listening"
  /\ UNCHANGED << mirVars, exposed, live, ready, surfaceVisible, surfaceState, missed,
                  viewVars, itemVars >>

UpdateVisible ==
  /\ surfaceVisible' = (surfaceState' # "minimized" /\ ~ hidden /\ drawn)
  /\ missed' = FALSE

UpdateExposure ==
  exposed' = IF ready' THEN exposedViews' # {} ELSE exposed

Handle(notice) ==
  /\ stage = "listening" /\ notices # << >> /\ Head(notices) = notice
  /\ notices' = Tail(notices)
  /\ UNCHANGED << hidden, drawn, state, stage, live, viewVars, itemVars >>

SetReady ==
  /\ Handle("ready")
  /\ ready' = TRUE
  /\ UNCHANGED surfaceState
  /\ UpdateVisible
  /\ UpdateExposure

HiddenChanged ==
  /\ Handle("hidden")
  /\ UNCHANGED << surfaceState, ready, exposed >>
  /\ UpdateVisible

UpdateState(s) ==
  /\ Handle(s)
  /\ surfaceState' = s
  /\ IF s # surfaceState THEN UpdateVisible ELSE UNCHANGED << surfaceVisible, missed >>
  /\ UNCHANGED << ready, exposed >>

SetLive ==
  /\ stage = "listening" /\ live
  /\ live' = FALSE
  /\ UNCHANGED << mirVars, exposed, stage, ready, surfaceVisible, surfaceState, missed,
                  viewVars, itemVars >>

------------------------------------------------------------------------------
(* The items, in the main thread.                                           *)

(* updateMirSurfaceActiveFocus() and updateMirSurfaceExposure() of the      *)
(* items in I, that show the surface.                                       *)
HasActiveFocus(I) == { i \in I : i \in consuming' /\ i \in sceneFocus' }
UpdateActiveFocus(I) ==
  activeViews' = IF live THEN (activeViews \ I) \cup HasActiveFocus(I) ELSE activeViews
UpdateViewExposure(I) ==
  /\ exposedViews' = IF live THEN (exposedViews \ I) \cup (I \cap seen') ELSE exposedViews
  /\ UpdateExposure

UnchangedButViews == UNCHANGED << mirVars, stage, live, ready, surfaceVisible, surfaceState, missed >>

(* setSurface() of the surface.                                             *)
RegisterView(i) ==
  /\ stage = "listening" /\ i \notin views
  /\ views' = views \cup { i }
  /\ UnchangedButViews /\ UNCHANGED itemVars
  /\ UpdateViewExposure({ i })
  /\ UpdateActiveFocus({ i })

(* A fault: a view that goes is not counted out of the exposure.            *)
UnregisterViewOnly(i) ==
  /\ i \in views
  /\ views' = views \ { i } /\ exposedViews' = exposedViews \ { i }
  /\ activeViews' = activeViews \ { i }
  /\ UnchangedButViews
  /\ UNCHANGED << exposed, itemVars >>

(* setSurface() of another one, or of none as the item is destroyed.        *)
UnregisterView(i) ==
  /\ i \in views
  /\ views' = views \ { i } /\ exposedViews' = exposedViews \ { i }
  /\ activeViews' = activeViews \ { i }
  /\ UnchangedButViews
  /\ UpdateExposure
  /\ UNCHANGED itemVars

(* visibleChanged.                                                          *)
ItemSeen(i) ==
  /\ seen' = IF i \in seen THEN seen \ { i } ELSE seen \cup { i }
  /\ UnchangedButViews /\ UNCHANGED << views, activeViews, sceneFocus, consuming >>
  /\ UpdateViewExposure({ i } \cap views)

(* activeFocusChanged, of the item that loses the focus or that gains it.   *)
ItemFocus(i) ==
  /\ \/ sceneFocus = { i } /\ sceneFocus' = {}
     \/ sceneFocus = {} /\ sceneFocus' = { i }
  /\ UnchangedButViews /\ UNCHANGED << views, exposedViews, exposed, seen, consuming >>
  /\ UpdateActiveFocus({ i } \cap views)

SetConsumesInput(i) ==
  /\ consuming' = IF i \in consuming THEN consuming \ { i } ELSE consuming \cup { i }
  /\ UnchangedButViews /\ UNCHANGED << views, exposedViews, exposed, seen, sceneFocus >>
  /\ UpdateActiveFocus({ i } \cap views)

Next ==
  \/ MirSetsHidden \/ MirDraws \/ ReadVisible \/ Listen
  \/ SetReady \/ HiddenChanged \/ SetLive
  \/ \E s \in States : MirChangesState(s) \/ UpdateState(s)
  \/ \E i \in Items : RegisterView(i) \/ UnregisterView(i) \/ ItemSeen(i)
                        \/ ItemFocus(i) \/ SetConsumesInput(i)

Spec == Init /\ [][Next]_vars

------------------------------------------------------------------------------
(* A client that draws is exposed if and only if an item shows its surface  *)
(* that can be seen, and its surface has active focus if and only if such   *)
(* an item takes its input and has the scene's, whatever views came and     *)
(* went, and in whichever order they were seen, focused and set to consume. *)
ClientAgrees ==
  live =>
    /\ ready => exposed = (views \cap seen # {})
    /\ activeViews = views \cap consuming \cap sceneFocus

(* The shell takes a surface for visible when it is, once Mir's notices     *)
(* have been handled. The exception is a surface that Mir hid or showed     *)
(* after the constructor had read is_visible() and before it listened,      *)
(* until the next notice has it looked at again.                            *)
ShellAgrees ==
  stage = "listening" /\ notices = << >> =>
    surfaceVisible = (state # "minimized" /\ ~ hidden /\ drawn) \/ missed

(* Whoever asks is told that the surface is seen when it is: the client by  *)
(* its exposure, the shell by visible. Of the focus the surface keeps       *)
(* account, but nobody is told (mirsurface.cpp:522).                        *)
ViewsAgree == ClientAgrees /\ ShellAgrees
==============================================================================

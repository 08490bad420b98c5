------------------------------ MODULE KeyInput -------------------------------
(***************************************************************************)
(* A key on its way from Mir to a client.                                  *)
(*                                                                         *)
(* QtEventFeeder puts the events of the keyboard into the queue of Qt's    *)
(* window system; Qt gives them to the item that has the active focus of   *)
(* the scene, and the surface of that item to its client. The window of a  *)
(* key that goes down is made the active one by the policy, which posts a  *)
(* notice to the main thread of every change of the focus; a surface that  *)
(* hears it has got the focus releases the keys that hang around in it.    *)
(* The active focus of the scene and the focus of the window manager are   *)
(* not the same thing.                                                     *)
(***************************************************************************)
EXTENDS Naturals, Sequences, Functions

CONSTANTS
  Keys,           (* native virtual keys                                    *)
  Surfaces,       (* surfaces in items of the scene that consume input      *)
  NoSurface,      (* none of them; the shell's own items                    *)
  MaxQueued,      (* a bound: key events on their way when Mir sends one    *)
  MaxNotices      (* a bound: notices on their way when the focus changes   *)

KeyAssumption == NoSurface \notin Surfaces
BoundAssumption == MaxQueued \in Nat /\ MaxNotices \in Nat

KeyEvents == { "press", "repeat", "release" } \X Keys
FocusNotices == Surfaces \X BOOLEAN

VARIABLES
  down,           (* the keys that are down, as Mir's events say            *)
  toQt,           (* QWindowSystemInterface: key events yet to be handled   *)
  qmlFocus,       (* the surface of the item with the active focus          *)
  live,           (* the surfaces whose m_live is set                       *)
  active,         (* MirAL: active_window()                                 *)
  notices,        (* windowFocusChanged() on its way                        *)
  focused,        (* m_focused                                              *)
  pressedKeys,    (* m_pressedKeys                                          *)
  held,           (* the keys each client was told are down                 *)
  pressedTwice    (* history: the assertion of keyPressEvent() failed       *)

focusVars == << active, notices >>
surfaceVars == << focused, pressedKeys, held, pressedTwice >>
vars == << down, toQt, qmlFocus, live, focusVars, surfaceVars >>

TypeOK ==
  /\ down \subseteq Keys
  /\ toQt \in Seq(KeyEvents)
  /\ qmlFocus \in Surfaces \cup { NoSurface }
  /\ live \subseteq Surfaces
  /\ active \in Surfaces \cup { NoSurface }
  /\ notices \in Seq(FocusNotices)
  /\ focused \in [ Surfaces -> BOOLEAN ]
  /\ pressedKeys \in [ Surfaces -> Seq(Keys) ]
  /\ held \in [ Surfaces -> SUBSET Keys ]
  /\ pressedTwice \in BOOLEAN

Init ==
  /\ down = {} /\ toQt = << >> /\ qmlFocus = NoSurface /\ live = Surfaces
  /\ active = NoSurface /\ notices = << >>
  /\ focused = [ s \in Surfaces |-> FALSE ]
  /\ pressedKeys = [ s \in Surfaces |-> << >> ]
  /\ held = [ s \in Surfaces |-> {} ]
  /\ pressedTwice = FALSE

------------------------------------------------------------------------------
(* dispatchKey(), of a keyboard that presses keys that are up and repeats   *)
(* and releases keys that are down.                                         *)
DispatchKey(type, key) ==
  /\ Len(toQt) < MaxQueued
  /\ \/ type = "press" /\ key \notin down /\ down' = down \cup { key }
     \/ type = "repeat" /\ key \in down /\ UNCHANGED down
     \/ type = "release" /\ key \in down /\ down' = down \ { key }
  /\ toQt' = Append(toQt, << type, key >>)
  /\ UNCHANGED << qmlFocus, live, focusVars, surfaceVars >>

(* select_active_window(), for any reason.                                  *)
Select(s) ==
  /\ active' = s
  /\ notices' = notices
       \o (IF active = NoSurface THEN << >> ELSE << << active, FALSE >> >>)
       \o (IF s = NoSurface THEN << >> ELSE << << s, TRUE >> >>)

ActiveWindowChanges(s) ==
  /\ s # active /\ Len(notices) < MaxNotices
  /\ Select(s)
  /\ UNCHANGED << down, toQt, qmlFocus, live, surfaceVars >>

EnsureWindowIsActive(s) == IF active = s THEN UNCHANGED focusVars ELSE Select(s)

------------------------------------------------------------------------------
(* MirSurface, in the main thread.                                          *)

IsKeyPressed(s, key) == key \in Range(pressedKeys[s])

(* keyPressEvent() and deliver_keyboard_event(); the program ends where the *)
(* assertion fails.                                                         *)
KeyPressEvent(s, key) ==
  /\ pressedTwice' = (pressedTwice \/ IsKeyPressed(s, key))
  /\ pressedKeys' = [ pressedKeys EXCEPT ![s] = Append(@, key) ]
  /\ held' = [ held EXCEPT ![s] = @ \cup { key } ]
  /\ EnsureWindowIsActive(s)

(* A repetition is passed on and not recorded.                              *)
KeyRepeatEvent == UNCHANGED << focusVars, pressedKeys, held, pressedTwice >>

(* A fault: the key that is released stays recorded.                        *)
KeyReleaseEventOnly(s, key) ==
  /\ held' = IF IsKeyPressed(s, key) THEN [ held EXCEPT ![s] = @ \ { key } ] ELSE held
  /\ UNCHANGED << pressedKeys, focusVars, pressedTwice >>

(* The first record of the key goes.                                        *)
ForgetPressedKey(s, key) ==
  \E i \in DOMAIN pressedKeys[s] :
    /\ pressedKeys[s][i] = key /\ \A j \in 1 .. i - 1 : pressedKeys[s][j] # key
    /\ pressedKeys' =
         [ pressedKeys EXCEPT ![s] = SubSeq(@, 1, i - 1) \o SubSeq(@, i + 1, Len(@)) ]

(* keyReleaseEvent(): only of a key whose press was passed on.              *)
KeyReleaseEvent(s, key) ==
  /\ IF IsKeyPressed(s, key)
       THEN ForgetPressedKey(s, key) /\ held' = [ held EXCEPT ![s] = @ \ { key } ]
       ELSE UNCHANGED << pressedKeys, held >>
  /\ UNCHANGED << focusVars, pressedTwice >>

(* Qt gives an event to the item with the active focus, which ignores it    *)
(* unless its surface is live.                                              *)
QtHandlesKey ==
  LET type == Head(toQt)[1]  key == Head(toQt)[2] IN
  /\ toQt # << >> /\ ~ pressedTwice /\ Len(notices) <= MaxNotices
  /\ toQt' = Tail(toQt)
  /\ \/ /\ qmlFocus \in live
        /\ \/ type = "press" /\ KeyPressEvent(qmlFocus, key)
           \/ type = "repeat" /\ KeyRepeatEvent
           \/ type = "release" /\ KeyReleaseEvent(qmlFocus, key)
     \/ /\ qmlFocus \notin live
        /\ UNCHANGED << focusVars, pressedKeys, held, pressedTwice >>
  /\ UNCHANGED << down, qmlFocus, live, focused >>

ReleaseAllPressedKeys(s) ==
  /\ pressedKeys' = [ pressedKeys EXCEPT ![s] = << >> ]
  /\ held' = [ held EXCEPT ![s] = @ \ Range(pressedKeys[s]) ]

(* setFocused(): when the focus comes.                                      *)
FocusHeard ==
  LET s == Head(notices)[1]  value == Head(notices)[2] IN
  /\ notices # << >>
  /\ notices' = Tail(notices)
  /\ focused' = [ focused EXCEPT ![s] = value ]
  /\ IF value /\ ~ focused[s] THEN ReleaseAllPressedKeys(s)
                              ELSE UNCHANGED << pressedKeys, held >>
  /\ UNCHANGED << down, toQt, qmlFocus, live, active, pressedTwice >>

(* The scene's focus goes where the shell wants it.                         *)
QmlFocusMoves(s) ==
  /\ s # qmlFocus
  /\ qmlFocus' = s
  /\ UNCHANGED << down, toQt, live, focusVars, surfaceVars >>

SurfaceDies(s) ==
  /\ s \in live
  /\ live' = live \ { s }
  /\ UNCHANGED << down, toQt, qmlFocus, focusVars, surfaceVars >>

Next ==
  \/ \E key \in Keys : \E type \in { "press", "repeat", "release" } : DispatchKey(type, key)
  \/ QtHandlesKey \/ FocusHeard
  \/ \E s \in Surfaces \cup { NoSurface } : ActiveWindowChanges(s) \/ QmlFocusMoves(s)
  \/ \E s \in Surfaces : SurfaceDies(s)

Spec == Init /\ [][Next]_vars

------------------------------------------------------------------------------
(* The keys a surface thinks are pressed are those its client was told are  *)
(* down, so that releasing them all when the focus comes back leaves no key *)
(* hanging.                                                                 *)
HeldIsRecorded == \A s \in Surfaces : held[s] = Range(pressedKeys[s])
==============================================================================

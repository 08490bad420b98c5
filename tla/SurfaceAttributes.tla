-------------------------- MODULE SurfaceAttributes --------------------------
(***************************************************************************)
(* What MirAL and the client set of a window, on its way to the shell.     *)
(*                                                                         *)
(* NewWindow carries a copy of MirAL's WindowInfo to the main thread,      *)
(* where MirSurface takes the name, the limits and the chrome from it, and *)
(* only then has its observer registered and connected. From then on,      *)
(* handle_modify_window() in a thread of Mir has the observer tell of what *)
(* was modified, and Mir tells it of the cursor; either is posted to       *)
(* MirSurface. An item has the cursor of the surface that it shows, and Qt *)
(* has the screen's Cursor show that of the item that the pointer is over. *)
(***************************************************************************)
EXTENDS Naturals, Sequences

CONSTANTS
  Values,         (* values of an attribute and of a cursor                 *)
  Default,        (* the one it has if nothing else is said: Qt::ArrowCursor*)
  None,           (* no value: an empty cursor name, no pointer             *)
  Names,          (* names of cursors that the shell sets                   *)
  Modified,       (* attributes of a window that MirAL modifies: its name,  *)
                  (* the sizes it may have, the shell's chrome, its input   *)
                  (* bounds (its confinement of the pointer is not kept)    *)
  Copied,         (* those in the copy: all but the input bounds            *)
  Cursor,         (* and the cursor of its client                           *)
  MaxNotices      (* a bound: signals posted to MirSurface when one is sent *)

ValuesAssumption == Default \in Values /\ None \notin Values \cup Names
AttributesAssumption == Copied \subseteq Modified /\ Cursor \notin Modified
BoundAssumption == MaxNotices \in Nat

Attributes == Modified \cup { Cursor }

VARIABLES
  info,           (* MirAL and Mir: each attribute of the window            *)
  modifying,      (* those that handle_modify_window() has yet to tell of   *)
  connected,      (* MirSurface is there, and connected to its observer     *)
  copy,           (* NewWindow's: its WindowInfo                            *)
  posted,         (* the observer's signals posted to MirSurface            *)
  attr,           (* MirSurface's                                           *)
  late,           (* history: what was set after the copy was taken, and so *)
                  (* early that nobody has told MirSurface of it            *)
  shows,          (* the item's m_surface is this one                       *)
  itemCursor,     (* the item's QQuickItem::cursor()                        *)
  hovered,        (* Qt: the pointer is over the item                       *)
  qtCursor,       (* Cursor's m_qtCursorName                                *)
  mirCursor,      (* Cursor's m_mirCursorName                               *)
  cursorName,     (* Mir::cursorName()                                      *)
  pointer,        (* the name that m_mousePointer shows, if there is one    *)
  unheard         (* history: another cursor was forgotten, for there was   *)
                  (* no pointer, or another Cursor, when it was told last   *)

surfaceVars == << connected, copy, attr >>
itemVars == << shows, itemCursor >>
cursorVars == << hovered, qtCursor, mirCursor, cursorName, pointer, unheard >>
vars == << info, modifying, posted, late, surfaceVars, itemVars, cursorVars >>

TypeOK ==
  /\ info \in [ Attributes -> Values ] /\ copy \in [ Copied -> Values ]
  /\ modifying \subseteq Modified /\ late \subseteq Attributes
  /\ connected \in BOOLEAN
  /\ posted \in Seq([ attribute : Attributes, value : Values ])
  /\ attr \in [ Attributes -> Values ]
  /\ shows \in BOOLEAN /\ hovered \in BOOLEAN
  /\ itemCursor \in Values
  /\ qtCursor \in Values \cup { None }
  /\ { mirCursor, cursorName } \subseteq Names \cup { None }
  /\ pointer \in Values \cup Names \cup { None }
  /\ unheard \in BOOLEAN

(* The client asked for a window, and advise_new_window() has copied it.    *)
Init ==
  /\ info \in [ Attributes -> Values ]
  /\ modifying = {} /\ connected = FALSE
  /\ copy = [ a \in Copied |-> info[a] ]
  /\ posted = << >>
  /\ attr = [ a \in Attributes |-> Default ]
  /\ late = {}
  /\ shows = FALSE /\ itemCursor = Default
  /\ hovered = FALSE /\ unheard = FALSE
  /\ qtCursor = None /\ mirCursor = None /\ cursorName = None /\ pointer = None

------------------------------------------------------------------------------
(* Mir's threads.                                                           *)

Set(a, v) ==
  /\ info' = [ info EXCEPT ![a] = v ]
  /\ late' = late \ { a }

(* handle_modify_window(), as far as CanonicalWindowManagerPolicy's.        *)
HandleModifyWindow(a, v) ==
  /\ modifying = {} /\ Len(posted) <= MaxNotices
  /\ Set(a, v)
  /\ modifying' = { a }
  /\ UNCHANGED << posted, surfaceVars, itemVars, cursorVars >>

Emit(a, v) ==
  posted' = IF connected THEN Append(posted, [ attribute |-> a, value |-> v ])
                                   ELSE posted

(* Its end: the observer that observerForSurface() finds emits a signal,    *)
(* which is posted if MirSurface has been connected to it.                  *)
NotifySurfaceModifications ==
  \E a \in modifying :
    /\ Emit(a, info[a])
    /\ modifying' = modifying \ { a }
    /\ UNCHANGED << info, late, surfaceVars, itemVars, cursorVars >>

(* The shapes that the observer has for a cursor's name, of Mir's protocol  *)
(* or of a theme; it sends the default one for any other name. A cursor     *)
(* that is an image is one more value.                                      *)
Shapes == Values

(* cursor_image_set_to() and cursor_image_removed().                        *)
CursorImageSetTo(v) ==
  /\ Len(posted) <= MaxNotices
  /\ Set(Cursor, v)
  /\ Emit(Cursor, v)
  /\ UNCHANGED << modifying, surfaceVars, itemVars, cursorVars >>

------------------------------------------------------------------------------
(* Cursor, in the main thread.                                              *)

(* A custom cursor, a name, or the shape's; the pointer's own by default.   *)
Shown(qt, mir) == IF mir # None THEN mir ELSE IF qt # None THEN qt ELSE Default

UpdateMousePointerCursorName(qt, mir) ==
  pointer' = IF pointer = None THEN None ELSE Shown(qt, mir)

(* changeCursor() forgets what it is told while it has no pointer.          *)
ChangeCursor(c) ==
  /\ IF pointer = None
       THEN UNCHANGED << qtCursor, pointer >>
       ELSE qtCursor' = c /\ UpdateMousePointerCursorName(c, mirCursor)
  /\ unheard' = (pointer = None /\ c # qtCursor)
  /\ UNCHANGED << mirCursor, cursorName >>

(* Qt: the item has another cursor, which the window's is if it is hovered. *)
SetItemCursor(c) ==
  /\ itemCursor' = c
  /\ IF hovered /\ c # itemCursor THEN ChangeCursor(c)
                                  ELSE UNCHANGED << qtCursor, mirCursor, cursorName, pointer, unheard >>
  /\ UNCHANGED hovered

(* Qt: the pointer gets to the item, or leaves it for one without a cursor. *)
Hover ==
  /\ hovered' = ~ hovered
  /\ ChangeCursor(IF hovered THEN None ELSE itemCursor)
  /\ UNCHANGED << info, modifying, posted, late, surfaceVars, itemVars >>

(* Mir::setCursorName() and setMirCursorName().                             *)
SetCursorName(n) ==
  /\ n # cursorName
  /\ cursorName' = n /\ mirCursor' = n
  /\ UpdateMousePointerCursorName(qtCursor, n)
  /\ UNCHANGED << info, modifying, posted, late, surfaceVars, itemVars, hovered, qtCursor, unheard >>

(* The MousePointer that the shell has on the screen, and its removal.      *)
SetMousePointer ==
  /\ pointer' = IF pointer = None THEN Shown(qtCursor, mirCursor) ELSE None
  /\ UNCHANGED << info, modifying, posted, late, surfaceVars, itemVars, hovered, qtCursor,
                  mirCursor, cursorName, unheard >>

(* Another screen, of which the Cursor does not ask what Mir's name is.     *)
NewCursor ==
  /\ pointer = None
  /\ qtCursor' = None /\ mirCursor' = None
  /\ unheard' = hovered
  /\ UNCHANGED << info, modifying, posted, late, surfaceVars, itemVars, hovered, cursorName, pointer >>

------------------------------------------------------------------------------
(* MirSurface and its item, in the main thread.                             *)

Copy(a) == IF a \in Copied THEN copy[a] ELSE Default

(* The constructor, which reads nothing but the copy: what was told before  *)
(* its observer is registered and connected makes no difference to it.      *)
NewSurface ==
  /\ ~ connected /\ connected' = TRUE
  /\ attr' = [ a \in Attributes |-> Copy(a) ]
  /\ late' = { a \in Attributes \ modifying : info[a] # Copy(a) }
  /\ UNCHANGED << info, modifying, posted, copy, itemVars, cursorVars >>

(* setCursor(), of which the item hears.                                    *)
SetCursor(c) ==
  /\ attr' = [ attr EXCEPT ![Cursor] = c ]
  /\ IF shows THEN SetItemCursor(c) ELSE UNCHANGED << itemCursor, cursorVars >>

(* onNameChanged() and the like, setInputBounds().                          *)
SetAttribute(a, v) ==
  /\ attr' = [ attr EXCEPT ![a] = v ]
  /\ UNCHANGED << itemCursor, cursorVars >>

Hear ==
  /\ posted # << >> /\ posted' = Tail(posted)
  /\ LET p == Head(posted) IN
       IF p.attribute = Cursor THEN SetCursor(p.value) ELSE SetAttribute(p.attribute, p.value)
  /\ UNCHANGED << info, modifying, late, connected, copy, shows >>

(* A fault: the item has a cursor once its surface's changes.               *)
ShowSurfaceAsIs ==
  /\ connected /\ ~ shows
  /\ shows' = TRUE
  /\ UNCHANGED << info, modifying, posted, late, connected, copy, attr, itemCursor, cursorVars >>

(* setSurface(), with this surface.                                         *)
ShowSurface ==
  /\ connected /\ ~ shows
  /\ shows' = TRUE
  /\ IF attr[Cursor] # Default THEN SetItemCursor(attr[Cursor])
                                 ELSE UNCHANGED << itemCursor, cursorVars >>
  /\ UNCHANGED << info, modifying, posted, late, connected, copy, attr >>

(* setSurface(), with no surface.                                           *)
UnshowSurface ==
  /\ shows /\ shows' = FALSE
  /\ SetItemCursor(Default)
  /\ UNCHANGED << info, modifying, posted, late, surfaceVars >>

Next ==
  \/ \E a \in Modified, v \in Values : HandleModifyWindow(a, v)
  \/ NotifySurfaceModifications
  \/ \E v \in Shapes : CursorImageSetTo(v)
  \/ \E n \in Names \cup { None } : SetCursorName(n)
  \/ Hover \/ SetMousePointer \/ NewCursor
  \/ NewSurface \/ Hear \/ ShowSurface \/ UnshowSurface

Spec == Init /\ [][Next]_vars

------------------------------------------------------------------------------
(* All that was posted is heard.                                            *)
Heard(a) == connected /\ a \notin modifying /\ \A i \in DOMAIN posted : posted[i].attribute # a

(* What a window can be seen to have: what MirAL and the client have set    *)
(* last, or the copy's if that came when nobody could tell MirSurface.      *)
Told(a) == IF a \in late THEN Copy(a) ELSE info[a]

SurfaceAgrees == \A a \in Attributes : Heard(a) => attr[a] = Told(a)

(* The item has its surface's cursor.                                       *)
ItemAgrees == shows => itemCursor = attr[Cursor]

(* The pointer shows the cursor of the client that it is over, if the shell *)
(* has not set another, and unless the Cursor has forgotten what it was     *)
(* told of it.                                                              *)
PointerAgrees ==
  pointer # None /\ hovered /\ shows /\ cursorName = None /\ ~ unheard /\ Heard(Cursor) =>
    pointer = Told(Cursor)

(* From MirAL's window to the pointer, each has what it was told last. Two  *)
(* changes are lost, and no others are: what was told before the observer   *)
(* was connected, of which MirSurface keeps the copy until the next change  *)
(* (late), and a cursor told to a Cursor that has no pointer or is replaced *)
(* (unheard).                                                               *)
AttributesAgree == SurfaceAgrees /\ ItemAgrees /\ PointerAgrees
==============================================================================

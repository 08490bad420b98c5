----------------------------- MODULE TouchInput ------------------------------
(***************************************************************************)
(* A touch on its way from Mir to a client.                                *)
(*                                                                         *)
(* QtEventFeeder is called in a thread of Mir with each event of the touch *)
(* screen, makes of it a stream Qt can bear, and puts that into the queue  *)
(* of Qt's window system. Qt, in the main thread, gives each item of the   *)
(* scene the touches it has grabbed. A MirSurfaceItem gives them to its    *)
(* surface, MirSurface to the client's window, and WindowManagementPolicy  *)
(* makes that the active one.                                              *)
(***************************************************************************)
EXTENDS Naturals, Sequences, FiniteSets, Functions

CONSTANTS
  Touches,        (* ids of touches                                         *)
  Surfaces,       (* surfaces an item may show                              *)
  NoSurface,      (* none of them                                           *)
  MaxQueued       (* a bound: events on their way to Qt when Mir sends one  *)

TouchAssumption == NoSurface \notin Surfaces /\ IsFiniteSet(Touches)
QueueAssumption == MaxQueued \in Nat

(* A touch event: what state each of its touches is in.                     *)
Named(states) == UNION { [ T -> states ] : T \in SUBSET Touches }
States == { "pressed", "moved", "stationary", "released" }
NoPoints == [ t \in {} |-> "released" ]

With(points, state) == { t \in DOMAIN points : points[t] = state }
Only(points, T) == [ t \in T |-> points[t] ]

(* A TouchEvent of the item; "none": m_lastTouchEvent is null.              *)
Types == { "none", "begin", "update", "end" }
LastEvent == [ type : Types, points : Named(States) ]

VARIABLES
  activeTouches,  (* mActiveTouches                                         *)
  toQt,           (* QWindowSystemInterface: events yet to be handled       *)
  qtDown,         (* Qt: the touches that are down                          *)
  grabbed,        (* Qt: those whose events the item gets                   *)
  surface,        (* m_surface                                              *)
  consumesInput,  (* m_consumesInput                                        *)
  live,           (* the surfaces whose m_live is set                       *)
  last,           (* m_lastTouchEvent                                       *)
  held,           (* the touches each client was told are down              *)
  missed          (* history: surfaces whose client missed the end of one   *)

qtVars == << toQt, qtDown, grabbed >>
itemVars == << surface, consumesInput, last >>
clientVars == << live, held, missed >>
vars == << activeTouches, qtVars, itemVars, clientVars >>

TypeOK ==
  /\ activeTouches \subseteq Touches
  /\ toQt \in Seq(Named(States))
  /\ qtDown \subseteq Touches /\ grabbed \subseteq qtDown
  /\ surface \in Surfaces \cup { NoSurface }
  /\ consumesInput \in BOOLEAN
  /\ live \subseteq Surfaces
  /\ last \in LastEvent
  /\ held \in [ Surfaces -> SUBSET Touches ]
  /\ missed \subseteq Surfaces

Init ==
  /\ activeTouches = {} /\ toQt = << >> /\ qtDown = {} /\ grabbed = {}
  /\ surface = NoSurface /\ consumesInput = FALSE /\ live = Surfaces
  /\ last = [ type |-> "none", points |-> NoPoints ]
  /\ held = [ s \in Surfaces |-> {} ]
  /\ missed = {}

------------------------------------------------------------------------------
(* QtEventFeeder, in Mir's thread.                                          *)

(* validateTouch(): what becomes of a touch; one that is released without   *)
(* having been pressed is discarded.                                        *)
Discarded(points) == With(points, "released") \ activeTouches
(* (ValidatedPressOnly is a fault: a touch may move that is not down.)      *)
ValidatedPressOnly(state, t) ==
  IF state = "pressed" /\ t \in activeTouches THEN "moved" ELSE state
Validated(state, t) ==
  CASE state = "pressed" /\ t \in activeTouches -> "moved"
    [] state = "moved" /\ t \notin activeTouches -> "pressed"
    [] OTHER -> state

(* sendActiveTouchRelease() for each touch that is missing, in an order of  *)
(* the hash table's.                                                        *)
ActiveTouchRelease(t, stillActive) ==
  [ u \in stillActive |-> IF u = t THEN "released" ELSE "stationary" ]
Releases(order) ==
  [ i \in DOMAIN order |->
      ActiveTouchRelease(order[i], activeTouches \ { order[j] : j \in 1 .. i - 1 }) ]

(* handleTouchEvent(), to which an event without touches is nothing.        *)
Sent(event) == IF DOMAIN event = {} THEN << >> ELSE << event >>

(* An event with a touch and a window under its first one.                  *)
DispatchTouch(points) ==
  LET valid == [ t \in DOMAIN points \ Discarded(points) |-> Validated(points[t], t) ]
      missing == activeTouches \ DOMAIN valid
  IN
  /\ Len(toQt) < MaxQueued
  /\ \E order \in Bijection(1 .. Cardinality(missing), missing) :
       toQt' = toQt \o Releases(order) \o Sent(valid)
  /\ activeTouches' = DOMAIN valid \ With(valid, "released")
  /\ UNCHANGED << qtDown, grabbed, itemVars, clientVars >>

------------------------------------------------------------------------------
(* MirSurfaceItem, in the main thread.                                      *)

TypeOf(points) ==
  LET states == { points[t] : t \in DOMAIN points } IN
  CASE states = { "released" } -> "end"
    [] states = { "pressed" } -> "begin"
    [] OTHER -> "update"

Unreleased(points) == Only(points, DOMAIN points \ With(points, "released"))

(* endCurrentTouchSequence(): the touches that are left, released one by    *)
(* one, each with those that are to follow in the state they had.           *)
EndCurrentTouchSequence == held[surface] \ DOMAIN Unreleased(last.points)

(* A fault: an event is passed on whatever came before it.                  *)
DeliverAsIs(type, points) ==
  /\ last' = [ type |-> type, points |-> points ]
  /\ held' = [ held EXCEPT ![surface] =
                (@ \cup With(points, "pressed")) \ With(points, "released") ]
  /\ missed' = IF held'[surface] = DOMAIN Unreleased(points)
                 THEN missed \ { surface } ELSE missed
  /\ UNCHANGED live

(* validateAndDeliverTouchEvent(), MirSurface::touchEvent() and             *)
(* deliver_touch_event(). (That it may change MirAL's active window, as a   *)
(* pointer's event does, is part of PointerInput.)                          *)
Deliver(type, points) ==
  LET unfinished == type = "begin" /\ last.type \notin { "none", "end" }
      still == IF unfinished THEN EndCurrentTouchSequence ELSE held[surface]
      holds == (still \cup With(points, "pressed")) \ With(points, "released")
  IN
  /\ last' = [ type |-> type, points |-> points ]
  /\ held' = [ held EXCEPT ![surface] = holds ]
  /\ missed' = IF holds = DOMAIN Unreleased(points) THEN missed \ { surface } ELSE missed
  /\ UNCHANGED live

Accepts(type, inside) ==
  /\ consumesInput /\ surface \in live
  /\ type = "begin" => inside

(* A dropped event matters to a client in a sequence.                       *)
Drop(points) ==
  /\ missed' = IF surface # NoSurface /\ With(points, "released") # {}
                 THEN missed \cup { surface } ELSE missed
  /\ UNCHANGED << last, live, held >>

(* Qt handles an event; over: the new touches that are above the item,      *)
(* inside: whether one of them is in the input area of the surface.         *)
QtHandles(over, inside) ==
  LET event == Head(toQt)
      mine == grabbed \cup over
      points == Only(event, mine)
      accepted == Accepts(TypeOf(points), inside)
  IN
  /\ toQt # << >> /\ over \subseteq With(event, "pressed")
  /\ toQt' = Tail(toQt)
  /\ qtDown' = (qtDown \cup DOMAIN event) \ With(event, "released")
  /\ grabbed' = (grabbed \cup (IF accepted THEN over ELSE {})) \ With(event, "released")
  /\ \/ /\ \A t \in mine : event[t] = "stationary"
        /\ UNCHANGED << last, clientVars >>
     \/ /\ \E t \in mine : event[t] # "stationary"
        /\ IF accepted THEN Deliver(TypeOf(points), points) ELSE Drop(points)
  /\ UNCHANGED << activeTouches, surface, consumesInput >>

(* Another item takes the touches, and the sequence goes on without an end. *)
QtSteals ==
  /\ grabbed # {}
  /\ grabbed' = {}
  /\ UNCHANGED << activeTouches, toQt, qtDown, itemVars, clientVars >>

(* setSurface(): m_lastTouchEvent is not reset.                             *)
SetSurface(s) ==
  /\ s # surface
  /\ surface' = s
  /\ missed' = IF last.type \in { "begin", "update" }
                 THEN missed \cup ({ s, surface } \ { NoSurface }) ELSE missed
  /\ UNCHANGED << activeTouches, qtVars, consumesInput, last, live, held >>

SetConsumesInput(value) ==
  /\ value # consumesInput
  /\ consumesInput' = value
  /\ UNCHANGED << activeTouches, qtVars, surface, last, clientVars >>

(* A window is removed: what its client held does not matter any more.      *)
SurfaceDies(s) ==
  /\ s \in live
  /\ live' = live \ { s } /\ missed' = missed \cup { s }
  /\ held' = [ held EXCEPT ![s] = {} ]
  /\ UNCHANGED << activeTouches, qtVars, itemVars >>

Next ==
  \/ \E points \in Named({ "pressed", "moved", "released" }) :
       points # NoPoints /\ DispatchTouch(points)
  \/ \E over \in SUBSET Touches, inside \in BOOLEAN : QtHandles(over, inside)
  \/ QtSteals
  \/ \E s \in Surfaces \cup { NoSurface } : SetSurface(s)
  \/ \E value \in BOOLEAN : SetConsumesInput(value)
  \/ \E s \in Surfaces : SurfaceDies(s)

Spec == Init /\ [][Next]_vars

------------------------------------------------------------------------------
(* "Qt needs a happy, sane stream of touch events": whatever Mir sends,     *)
(* QtEventFeeder puts nothing into Qt's queue that TouchStream does not     *)
(* allow.                                                                   *)
Stream == INSTANCE TouchStream WITH stream <- toQt, down <- qtDown
KeepsTouchStream == Stream!Spec

(* The touches a client holds down are those that the item would release if *)
(* Qt began another sequence without an end to this one; except with a      *)
(* client that missed events, of an item that was given another surface or  *)
(* whose consumption of input changed while it was touched.                 *)
HeldIsRemembered ==
  surface \in Surfaces \ missed => held[surface] = DOMAIN Unreleased(last.points)
==============================================================================

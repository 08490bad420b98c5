----------------------------- MODULE PointerInput ----------------------------
(***************************************************************************)
(* An event of a pointer on its way from Mir to a client, and what is kept *)
(* meanwhile of each event, a pointer's or not.                            *)
(*                                                                         *)
(* Qt's events have no room for all that Mir's have. EventBuilder stores   *)
(* the rest (device, cookie, relative movement) in a ring, in Mir's        *)
(* thread, under the event's timestamp in milliseconds since the first     *)
(* event; in the main thread, MirSurface makes an event for the client of  *)
(* Qt's and of what the ring has for its timestamp.                        *)
(***************************************************************************)
EXTENDS Integers, Sequences, FiniteSets

CONSTANTS
  RingSize,       (* EventBuilder's m_eventInfoVector.size()                *)
  MaxStamp,       (* Timestamp::max()                                       *)
  Devices,        (* ids of input devices                                   *)
  MaxTime,        (* a bound: the time of the last event, in milliseconds   *)
  MaxEvents,      (* a bound: events of Mir                                 *)
  MaxQueued       (* a bound: events on their way when Mir sends one        *)

RingAssumption == RingSize \in Nat \ {0} /\ MaxStamp \in Nat
BoundAssumption == MaxTime \in Nat /\ MaxEvents \in Nat /\ MaxQueued \in Nat

MirEvents == [ time : 1 .. MaxTime, device : Devices ]
NoEvent == [ time |-> 0, device |-> 0 ]                     (* a null pointer *)
Kinds == { "press", "motion", "wheel", "key", "touch" }

(* A Qt event; history: the event of Mir it was made of, how many events    *)
(* were stored since, and whether the start time was reset since.           *)
QtEvents ==
  [ kind : Kinds, stamp : 0 .. MaxTime, mir : MirEvents, age : 0 .. MaxEvents, reset : BOOLEAN ]
EventInfos == [ stamp : 0 .. MaxTime, mir : MirEvents \cup { NoEvent } ]

VARIABLES
  now,            (* the time of the last event of Mir                      *)
  sent,           (* how many there were                                    *)
  startTime,      (* appStartTime                                           *)
  ring,           (* m_eventInfoVector                                      *)
  nextIndex,      (* m_nextIndex                                            *)
  count,          (* m_count                                                *)
  visible,        (* a screen's MousePointer is there and visible           *)
  toPointer,      (* calls of MousePointer::handleMouseEvent on their way   *)
  toQt,           (* QWindowSystemInterface: events yet to be handled       *)
  active,         (* MirAL: whether the client's window is the active one   *)
  told,           (* what the client was told last                          *)
  fresh           (* history: the entries of the ring that were stored      *)
                  (* since the start time was reset, if it ever was         *)

queues == << toPointer, toQt >>
builderVars == << startTime, ring, nextIndex, count, fresh >>
vars == << now, sent, builderVars, visible, queues, active, told >>

NotTold == [ time |-> 0, info |-> NoEvent, by |-> [ mir |-> NoEvent ],
             mixed |-> FALSE ]

TypeOK ==
  /\ now \in 0 .. MaxTime /\ sent \in 0 .. MaxEvents
  /\ startTime \in 0 .. MaxTime
  /\ ring \in [ 0 .. RingSize - 1 -> EventInfos ]
  /\ nextIndex \in 0 .. RingSize - 1 /\ count \in 0 .. RingSize /\ fresh \in 0 .. count
  /\ visible \in BOOLEAN /\ active \in BOOLEAN
  /\ toPointer \in Seq(QtEvents) /\ toQt \in Seq(QtEvents)
  /\ told = NotTold \/ (told.info \in MirEvents \cup { NoEvent } /\ told.by \in QtEvents)

Init ==
  /\ now = 0 /\ sent = 0 /\ startTime = 0
  /\ ring = [ i \in 0 .. RingSize - 1 |-> [ stamp |-> 0, mir |-> NoEvent ] ]
  /\ nextIndex = 0 /\ count = 0 /\ fresh = 0
  /\ visible = FALSE /\ toPointer = << >> /\ toQt = << >>
  /\ active = FALSE /\ told = NotTold

------------------------------------------------------------------------------
(* In Mir's thread.                                                         *)

(* compressTimestamp(): the start time is set by the first event, and again *)
(* by one that is too late for a Timestamp or before the start.             *)
StartTime(time) == IF startTime = 0 THEN time ELSE startTime
MustReset(time) == time - StartTime(time) > MaxStamp \/ time < StartTime(time)
Compressed(time) == IF MustReset(time) THEN 0 ELSE time - StartTime(time)

(* EventBuilder::store().                                                   *)
Store(mir) ==
  /\ startTime' = IF MustReset(mir.time) THEN mir.time ELSE StartTime(mir.time)
  /\ ring' = [ ring EXCEPT ![nextIndex] = [ stamp |-> Compressed(mir.time), mir |-> mir ] ]
  /\ nextIndex' = (nextIndex + 1) % RingSize
  /\ count' = IF count < RingSize THEN count + 1 ELSE count
  /\ fresh' = IF MustReset(mir.time) THEN 1
              ELSE IF fresh < RingSize THEN fresh + 1 ELSE fresh

(* The events of a queue once another was stored, and new ones.             *)
Aged(queue, reset) ==
  [ i \in DOMAIN queue |->
      [ queue[i] EXCEPT !.age = @ + 1, !.reset = @ \/ reset ] ]

Queued(kinds, mir) ==
  [ i \in DOMAIN kinds |->
      [ kind |-> kinds[i], stamp |-> Compressed(mir.time), mir |-> mir, age |-> 0,
        reset |-> FALSE ] ]

(* An event of a device; a clock of Mir's may go back.                      *)
Arrives(mir) ==
  /\ Len(toPointer \o toQt) < MaxQueued /\ sent < MaxEvents
  /\ sent' = sent + 1 /\ now' = mir.time
  /\ mir.time >= now - 1
  /\ Store(mir)

(* Cursor::handleMouseEvent() and handleWheelEvent(): what a screen's       *)
(* pointer takes of these events, if it is there and shows.                 *)
HandledByCursor(events) == IF visible THEN events ELSE << >>

(* dispatchPointer(): a wheel's event goes before that of the mouse it is   *)
(* part of, and both to the pointer of the first screen that shows one.     *)
DispatchPointer(kinds, mir) ==
  LET reset == MustReset(mir.time)  new == Queued(kinds, mir) IN
  /\ Arrives(mir)
  /\ toPointer' = Aged(toPointer, reset) \o HandledByCursor(new)
  /\ toQt' = Aged(toQt, reset) \o (IF HandledByCursor(new) = << >> THEN new ELSE << >>)
  /\ UNCHANGED << visible, active, told >>

(* dispatchKey() or dispatchTouch(); the events TouchInput shows that reach *)
(* no queue are stored all the same, as are a pointer's other actions.      *)
DispatchOther(kind, mir) ==
  LET reset == MustReset(mir.time) IN
  /\ Arrives(mir)
  /\ toPointer' = Aged(toPointer, reset)
  /\ \E kinds \in { << >>, << kind >> } : toQt' = Aged(toQt, reset) \o Queued(kinds, mir)
  /\ UNCHANGED << visible, active, told >>

------------------------------------------------------------------------------
(* In the main thread.                                                      *)

(* The shell's pointer moves and passes the event on.                       *)
PointerForwards ==
  /\ toPointer # << >>
  /\ toPointer' = Tail(toPointer)
  /\ toQt' = Append(toQt, Head(toPointer))
  /\ UNCHANGED << now, sent, builderVars, visible, active, told >>

PointerShows(value) ==
  /\ visible' = value /\ value # visible
  /\ UNCHANGED << now, sent, builderVars, queues, active, told >>

(* A fault: the last entry is not looked at.                                *)
FindInfoButLast(stamp) ==
  LET found == { i \in 0 .. count - 2 : ring[i].stamp = stamp } IN
  IF found = {} THEN NoEvent
  ELSE ring[CHOOSE i \in found : \A j \in found : i <= j].mir

(* findInfo(): the first entry of the ring.                                 *)
FindInfo(stamp) ==
  LET found == { i \in 0 .. count - 1 : ring[i].stamp = stamp } IN
  IF found = {} THEN NoEvent
  ELSE ring[CHOOSE i \in found : \A j \in found : i <= j].mir

(* makeMirEvent(): an event without a timestamp is a synthetic one.         *)
(* History: whether the ring had entries of two start times.                *)
MirEvent(event) ==
  [ time |-> startTime + event.stamp,
    info |-> IF event.stamp # 0 THEN FindInfo(event.stamp) ELSE NoEvent,
    by |-> event, mixed |-> fresh < count ]

(* deliver_pointer_event() and its like: a press, a touch or a key that     *)
(* goes down makes the window the active one.                               *)
EnsureWindowIsActive(kind) ==
  \/ kind \in { "press", "touch", "key" } /\ active' = TRUE
  \/ kind \in { "motion", "wheel", "key" } /\ UNCHANGED active

(* MirSurface's handlers.                                                   *)
Deliver(event) ==
  /\ told' = MirEvent(event)
  /\ EnsureWindowIsActive(event.kind)

(* Another item may be under the pointer, or the surface not live.          *)
QtHandles ==
  /\ toQt # << >>
  /\ toQt' = Tail(toQt)
  /\ Deliver(Head(toQt)) \/ UNCHANGED << active, told >>
  /\ UNCHANGED << now, sent, builderVars, visible, toPointer >>

ActiveWindowChanges ==
  /\ active /\ active' = FALSE
  /\ UNCHANGED << now, sent, builderVars, visible, queues, told >>

Next ==
  \/ \E mir \in MirEvents :
       \/ \E kinds \in { << "press" >>, << "motion" >>, << "wheel", "motion" >> } :
            DispatchPointer(kinds, mir)
       \/ \E kind \in { "key", "touch" } : DispatchOther(kind, mir)
  \/ PointerForwards \/ QtHandles \/ ActiveWindowChanges
  \/ \E value \in BOOLEAN : PointerShows(value)

Spec == Init /\ [][Next]_vars

------------------------------------------------------------------------------
(* A client is told the time of the event it is told of if the start time   *)
(* was not reset since; and it has the device and the cookie of one that    *)
(* came at that time, as long as the ring has not gone round since and has  *)
(* no entry of before the start time was reset, which may have the same     *)
(* stamp. The event the start time was set by passes for a synthetic one.   *)
InfoKept ==
  told # NotTold /\ ~ told.by.reset =>
    /\ told.time = told.by.mir.time
    /\ told.by.age < RingSize /\ told.by.stamp # 0 /\ ~ told.mixed =>
         told.info.time = told.by.mir.time
==============================================================================

-------------------------------- MODULE MCInput ------------------------------
(* Mir's input on its way to a client, of touches, keys and a pointer: a    *)
(* behaviour is one of one of them, and the others stay as they are.        *)
EXTENDS Integers, Sequences, FiniteSets, MCPart

CONSTANTS Touches, Keys, Surfaces, NoSurface, MaxTouchEvents, MaxKeyEvents, MaxFocusNotices,
          RingSize, MaxStamp, Devices, MaxTime, MaxEvents, MaxQueued

VARIABLES activeTouches, touchEvents, qtDown, grabbed, surface, consumesInput, liveToTouch,
          last, heldTouches, missedEnd,
          down, keyEvents, qmlFocus, liveToKeys, keyWindow, focusNotices, focused,
          pressedKeys, heldKeys, pressedTwice,
          now, sent, startTime, ring, nextIndex, count, visible, toPointer, pointerEvents,
          pointerActive, told, fresh

Touch == INSTANCE TouchInput WITH
           MaxQueued <- MaxTouchEvents, toQt <- touchEvents, live <- liveToTouch,
           held <- heldTouches, missed <- missedEnd
Key == INSTANCE KeyInput WITH
         MaxQueued <- MaxKeyEvents, MaxNotices <- MaxFocusNotices, toQt <- keyEvents,
         live <- liveToKeys, active <- keyWindow, notices <- focusNotices, held <- heldKeys
Pointer == INSTANCE PointerInput WITH toQt <- pointerEvents, active <- pointerActive

ASSUME TouchAssumption == Touch!TouchAssumption /\ Touch!QueueAssumption
ASSUME KeyAssumption == Key!KeyAssumption /\ Key!BoundAssumption
ASSUME PointerAssumption == Pointer!RingAssumption /\ Pointer!BoundAssumption

touchVars == << activeTouches, touchEvents, qtDown, grabbed, surface, consumesInput,
                liveToTouch, last, heldTouches, missedEnd >>
keyVars == << down, keyEvents, qmlFocus, liveToKeys, keyWindow, focusNotices, focused,
              pressedKeys, heldKeys, pressedTwice >>
pointerVars == << now, sent, startTime, ring, nextIndex, count, visible, toPointer,
                  pointerEvents, pointerActive, told, fresh >>
inputVars == << touchVars, keyVars, pointerVars >>

InputParts == { "touch", "key", "pointer" }

InputInit == Touch!Init /\ Key!Init /\ Pointer!Init

InputNext ==
  \/ part = "touch" /\ Touch!Next /\ UNCHANGED << keyVars, pointerVars >>
  \/ part = "key" /\ Key!Next /\ UNCHANGED << touchVars, pointerVars >>
  \/ part = "pointer" /\ Pointer!Next /\ UNCHANGED << touchVars, keyVars >>

InputSpec == InputInit /\ [][UNCHANGED part /\ InputNext]_<< part, inputVars >>

(* Qt's queue only ever gets the touches that TouchStream allows.           *)
KeepsTouchStream == Touch!KeepsTouchStream

(* What a client holds down, the item remembers: see TouchInput.            *)
HeldIsRemembered == part = "touch" => Touch!HeldIsRemembered

(* What a client holds down, its surface has recorded: see KeyInput.        *)
HeldIsRecorded == part = "key" => Key!HeldIsRecorded

(* A client is told of an event what Mir said of it: see PointerInput.      *)
InfoKept == part = "pointer" => Pointer!InfoKept
==============================================================================

----------------------------- MODULE Orientation -----------------------------
(***************************************************************************)
(* How a device is held, and what its screens tell Qt of that.             *)
(*                                                                         *)
(* OrientationSensor has a sensor of QtSensors once the compositor started *)
(* and there is a screen that is built into the device, whichever comes    *)
(* first; the compositor, and the display's power over D-Bus, start and    *)
(* stop it, and so does a screen that comes later. A reading is posted to  *)
(* each Screen that is built in, which turns it into an orientation of its *)
(* own.                                                                    *)
(***************************************************************************)
EXTENDS Naturals, Sequences, FiniteSets, Functions

CONSTANTS
  Screens,        (* Screen objects                                         *)
  Internal,       (* those of an LVDS or eDP output                         *)
  Wide,           (* those that are wider than they are high when made      *)
  None,           (* not a screen                                           *)
  MaxEvents       (* a bound: events posted to screens when a reading comes *)

ScreensAssumption ==
  IsFiniteSet(Screens) /\ Internal \subseteq Screens /\ Wide \subseteq Screens /\ None \notin Screens
BoundAssumption == MaxEvents \in Nat

(* Quarter turns of a device: its top, left, bottom or right up; and those  *)
(* of what it shows: portrait, landscape and the two of them inverted.      *)
Turns == 0 .. 3
Flat == 4         (* on its face or its back, or QtSensors does not know    *)
Readings == Turns \cup { Flat }

VARIABLES
  device,         (* how the device is held                                 *)
  reading,        (* the sensor's last reading                              *)
  sensor,         (* m_orientationSensor: none, not active, active          *)
  enabled,        (* m_enabled                                              *)
  started,        (* m_started                                              *)
  on,             (* m_compositing                                          *)
  present,        (* the screens that there are                             *)
  orientation,    (* each one's m_currentOrientation                        *)
  events,         (* OrientationReadingEvents posted to screens             *)
  since,          (* history: what else started or stopped the sensor since *)
                  (* the compositor did                                     *)
  upright,        (* history: the last reading that was not flat            *)
  heard           (* history: the screens that were present for it          *)

sensorVars == << sensor, enabled, started, since >>
screenVars == << present, orientation >>
readingVars == << reading, events, upright >>
vars == << device, on, heard, sensorVars, screenVars, readingVars >>

TypeOK ==
  /\ device \in Readings /\ reading \in Readings /\ upright \in Readings
  /\ sensor \in { "none", "idle", "active" }
  /\ enabled \in BOOLEAN /\ started \in BOOLEAN /\ on \in BOOLEAN
  /\ since \in { "nothing", "darkened", "woken" }
  /\ present \subseteq Screens /\ heard \subseteq present \cap Internal
  /\ orientation \in [ Screens -> Turns ]
  /\ events \in Seq((Screens \cup { None }) \X Readings)

(* How what is on a screen stands if the device is turned.                  *)
Mapped(s, turn) == IF s \in Wide THEN (turn + 1) % 4 ELSE turn

Init ==
  /\ device \in Readings /\ reading = Flat /\ upright = Flat /\ on = FALSE
  /\ sensor = "none" /\ enabled = FALSE /\ started = FALSE /\ since = "nothing"
  /\ present = {} /\ heard = {} /\ events = << >>
  /\ orientation = [ s \in Screens |-> Mapped(s, 0) ]

------------------------------------------------------------------------------
(* OrientationSensor.                                                       *)

StartIfNeeded == sensor' = IF sensor # "none" \/ (enabled' /\ started') THEN "active" ELSE "none"
StopSensor == sensor' = IF sensor = "active" THEN "idle" ELSE sensor

OnCompositorStarting ==
  /\ ~ on /\ on' = TRUE
  /\ started' = TRUE /\ UNCHANGED enabled /\ StartIfNeeded
  /\ since' = "nothing"
  /\ UNCHANGED << device, heard, screenVars, readingVars >>

OnCompositorStopping ==
  /\ on /\ on' = FALSE
  /\ StopSensor
  /\ since' = "nothing"
  /\ UNCHANGED << device, heard, enabled, started, screenVars, readingVars >>

(* onDisplayPowerStateChanged(), for which it listens once it has a sensor. *)
OnDisplayPowerStateChanged(status) ==
  /\ sensor # "none"
  /\ IF status THEN started' = TRUE /\ UNCHANGED enabled /\ StartIfNeeded
               ELSE StopSensor /\ UNCHANGED << enabled, started >>
  /\ since' = IF status THEN "woken" ELSE "darkened"
  /\ UNCHANGED << device, on, heard, screenVars, readingVars >>

(* Screen's constructor; enable() starts a sensor that was stopped as well. *)
New(s) ==
  /\ present' = present \cup { s }
  /\ orientation' = [ orientation EXCEPT ![s] = Mapped(s, 0) ]

(* A fault: a screen that comes while the compositor runs enables a sensor  *)
(* that only the compositor's start creates.                                *)
NewScreenOnly(s) ==
  /\ s \notin present /\ New(s)
  /\ enabled' = (enabled \/ s \in Internal) /\ UNCHANGED << started, sensor, since >>
  /\ UNCHANGED << device, on, heard, readingVars >>

NewScreen(s) ==
  /\ s \notin present /\ New(s)
  /\ IF s \in Internal
       THEN enabled' = TRUE /\ UNCHANGED started /\ StartIfNeeded /\ since' = "woken"
       ELSE UNCHANGED sensorVars
  /\ UNCHANGED << device, on, heard, readingVars >>

(* What was posted to the screen, nobody gets; the sensor stays enabled.    *)
DeleteScreen(s) ==
  /\ s \in present /\ present' = present \ { s } /\ heard' = heard \ { s }
  /\ events' = [ i \in DOMAIN events |-> IF events[i][1] = s THEN << None, Flat >> ELSE events[i] ]
  /\ UNCHANGED << device, on, orientation, reading, upright, sensorVars >>

------------------------------------------------------------------------------
(* Someone turns the device; QtSensors has a reading that is another one.   *)
Turn(t) ==
  /\ device' = t
  /\ UNCHANGED << on, heard, sensorVars, screenVars, readingVars >>

OnOrientationReadingChanged ==
  /\ sensor = "active" /\ device # reading /\ Len(events) <= MaxEvents
  /\ reading' = device
  /\ \E order \in Bijection(1 .. Cardinality(present \cap Internal), present \cap Internal) :
       events' = events \o [ i \in DOMAIN order |-> << order[i], device >> ]
  /\ IF device # Flat THEN upright' = device /\ heard' = present \cap Internal
                      ELSE UNCHANGED << upright, heard >>
  /\ UNCHANGED << device, on, sensorVars, screenVars >>

(* Screen::customEvent(), which keeps the orientation if the device is flat.*)
CustomEvent ==
  /\ events # << >> /\ events' = Tail(events)
  /\ LET s == Head(events)[1]
         turn == Head(events)[2]
     IN  orientation' = IF turn = Flat THEN orientation
                                       ELSE [ orientation EXCEPT ![s] = Mapped(s, turn) ]
  /\ UNCHANGED << device, on, heard, present, reading, upright, sensorVars >>

Next ==
  \/ OnCompositorStarting \/ OnCompositorStopping \/ OnOrientationReadingChanged \/ CustomEvent
  \/ \E status \in BOOLEAN : OnDisplayPowerStateChanged(status)
  \/ \E s \in Screens : NewScreen(s) \/ DeleteScreen(s)
  \/ \E t \in Readings \ { device } : Turn(t)

Spec == Init /\ [][Next]_vars

------------------------------------------------------------------------------
(* The sensor works while the compositor does, if there is a screen that is *)
(* built in, until the display's power goes off; and it rests while the     *)
(* compositor does, until the power comes on or such a screen comes.        *)
SensorAgrees ==
  /\ on /\ present \cap Internal # {} /\ since # "darkened" => sensor = "active"
  /\ ~ on /\ since # "woken" => sensor # "active"

(* Once its events are handled, a screen stands as the device was last read *)
(* to, unless the screen came later: nobody tells it then.                  *)
ScreensAgree ==
  \A s \in present \cap Internal :
    (\A i \in DOMAIN events : events[i][1] # s) =>
      orientation[s] = Mapped(s, IF s \in heard THEN upright ELSE 0)

(* Each screen follows how the device is held while it is to.               *)
FollowsDevice == SensorAgrees /\ ScreensAgree
==============================================================================

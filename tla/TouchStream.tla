----------------------------- MODULE TouchStream -----------------------------
(***************************************************************************)
(* What Qt expects of whoever feeds it touches: a stream of events, each   *)
(* of which names every touch that is down, those that were not as pressed *)
(* and those that were as anything else.                                   *)
(***************************************************************************)
EXTENDS Naturals, Sequences

VARIABLES
  stream,         (* the events on their way: functions of touches          *)
  down            (* the touches that the events taken have left down       *)

With(event, state) == { t \in DOMAIN event : event[t] = state }

(* What an event leaves down, which names all that were down before it.     *)
After(event) == DOMAIN event \ With(event, "released")

Before(i, events) == IF i = 1 THEN down ELSE After(events[i - 1])

Sane(d, event) ==
  /\ DOMAIN event # {}
  /\ d \subseteq DOMAIN event
  /\ With(event, "pressed") = DOMAIN event \ d

Init == stream = << >> /\ down = {}

Send ==
  LET n == Len(stream) IN
  /\ Len(stream') > n /\ SubSeq(stream', 1, n) = stream
  /\ \A i \in n + 1 .. Len(stream') : Sane(Before(i, stream'), stream'[i])
  /\ UNCHANGED down

Take ==
  /\ stream # << >>
  /\ stream' = Tail(stream)
  /\ down' = After(Head(stream))

Spec == Init /\ [][Send \/ Take]_<< stream, down >>
==============================================================================

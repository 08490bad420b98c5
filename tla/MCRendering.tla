----------------------------- MODULE MCRendering -----------------------------
(* The two parts in which the main thread must keep a thread of Mir's going *)
(* while nothing may be rendered: the frames of a client, and the screens   *)
(* of a server that has its outputs configured and is stopped. A behaviour  *)
(* is one of either; the other one stays as it is.                          *)
EXTENDS Naturals, Sequences

CONSTANTS Items, Buffers, MaxNotices, Outputs, Windows, NoWindow, Incarnations

VARIABLES part,
          client, place, drawn, pending, observer, notices, timer, startQueued, textureUpdated,
          holding, showing, providing, dirty, fresh, unheard, blank,
          neglected,
          config, mir, queue, connected, gui, compositing, screens, listed, old, windows, raced

Frames == INSTANCE SurfaceFrames
Screen == INSTANCE ScreensModel

ASSUME FramesAssumption == Frames!BuffersAssumption /\ Frames!BoundAssumption
ASSUME ScreensAssumption == Screen!WindowsAssumption /\ Screen!BoundAssumption

frameVars == << client, place, drawn, pending, observer, notices, timer, startQueued,
                textureUpdated, holding, showing, providing, dirty, fresh, unheard, blank,
                neglected >>
screenVars == << config, mir, queue, connected, gui, compositing, screens, listed, old,
                 windows, raced >>

(* The part that is not chosen starts in one of its initial states.         *)
Init ==
  /\ part \in { "frames", "screens" }
  /\ Frames!Init /\ Screen!Init
  /\ part # "frames" => pending = 0
  /\ part # "screens" => \A o \in Outputs : config.outputs[o] = "lit"

Next ==
  /\ UNCHANGED part
  /\ \/ part = "frames" /\ Frames!Next /\ UNCHANGED screenVars
     \/ part = "screens" /\ Screen!Next /\ UNCHANGED frameVars

Spec == Init /\ [][Next]_<< part, frameVars, screenVars >>

(* Of the screens nothing that is fair can happen before others have acted. *)
FairSpec == Spec /\ Screen!Fairness /\ (part = "frames" => Frames!Fairness)

(* Every frame is painted, or will be: see SurfaceFrames.                   *)
NoFrameMissed == Frames!NoFrameMissed

(* A client that waits for a free buffer gets one: see SurfaceFrames.       *)
ClientGetsBuffer == Frames!ClientGetsBuffer

(* A window renders into a buffer that there is: see ScreensModel.          *)
RendersOnBuffer == Screen!RendersOnBuffer

(* QMirServer::stop() returns, and Mir's thread is no more: ScreensModel.   *)
StopReturns == Screen!StopReturns
==============================================================================

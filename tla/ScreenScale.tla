---------------------------- MODULE ScreenScale ----------------------------
(***************************************************************************)
(* The scale of a screen, of which each of the shell's windows has a copy. *)
(*                                                                         *)
(* Mir's configuration gives each output a scale, which its Screen gets    *)
(* when ScreensModel updates it, in the GUI thread or in one of Mir's. A   *)
(* QQuickScreenWindow reads the scale of the screen that its platform      *)
(* window is on when it is asked for it first, when it is put on a screen, *)
(* and when NativeInterface says that it changed, which a Screen has it    *)
(* say of the one window that it knows. A window may have Mir's            *)
(* configuration changed. The scale and the form factor that comes with it *)
(* are one value here. Outputs that come and go are in ScreensModel.       *)
(***************************************************************************)
EXTENDS Naturals, Sequences, FiniteSets, Functions

CONSTANTS
  Windows,        (* QQuickScreenWindows                                    *)
  Screens,        (* Screens, each with its output                          *)
  Scales,         (* scales, with form factors                              *)
  None,           (* no window, no screen, an m_scale that was not read     *)
  MaxNotices      (* a bound: signals posted when Mir's thread updates      *)

ScalesAssumption == IsFiniteSet(Windows) /\ None \notin Windows \cup Screens \cup Scales
BoundAssumption == MaxNotices \in Nat

VARIABLES
  mirScale,       (* Mir's configuration of each output                     *)
  scale,          (* each Screen's m_scale                                  *)
  screenWindow,   (* its m_screenWindow                                     *)
  on,             (* the screen of each window's handle(), if there is one  *)
  kept,           (* each window's m_scale                                  *)
  posted,         (* windowPropertyChanged() for the GUI thread             *)
  unheard         (* history: windows that were created anew since they     *)
                  (* read, or that their screen did not know when it changed*)

vars == << mirScale, scale, screenWindow, on, kept, posted, unheard >>

TypeOK ==
  /\ mirScale \in [ Screens -> Scales ] /\ scale \in [ Screens -> Scales ]
  /\ screenWindow \in [ Screens -> Windows \cup { None } ]
  /\ on \in [ Windows -> Screens \cup { None } ]
  /\ kept \in [ Windows -> Scales \cup { None } ]
  /\ posted \in Seq(Windows \cup { None }) /\ unheard \subseteq Windows

Init ==
  /\ mirScale \in [ Screens -> Scales ] /\ scale = mirScale
  /\ screenWindow = [ s \in Screens |-> None ] /\ on = [ w \in Windows |-> None ]
  /\ kept = [ w \in Windows |-> None ]
  /\ posted = << >> /\ unheard = {}

(* windowProperty() of a window's handle, or what the window has if there   *)
(* is none.                                                                 *)
WindowProperty(w) == IF on[w] = None THEN kept[w] ELSE scale[on[w]]

------------------------------------------------------------------------------
(* Mir: its settings, or a client's, give an output another scale.          *)
Configure(s, v) ==
  /\ v # mirScale[s]
  /\ mirScale' = [ mirScale EXCEPT ![s] = v ]
  /\ UNCHANGED << scale, screenWindow, on, kept, posted, unheard >>

(* setMirDisplayConfiguration() of each screen, whose windows are told, at  *)
(* once or later.                                                           *)
Changed == { s \in Screens : scale[s] # mirScale[s] }
Told == { w \in Windows : \E s \in Changed : screenWindow[s] = w }
NotTold == { w \in Windows : on[w] \in Changed } \ Told

UpdateInGuiThread ==
  /\ Changed # {} /\ scale' = mirScale
  /\ kept' = [ w \in Windows |-> IF w \in Told THEN mirScale[on[w]] ELSE kept[w] ]
  /\ unheard' = (unheard \ Told) \cup NotTold
  /\ UNCHANGED << mirScale, screenWindow, on, posted >>

UpdateInMirThread ==
  /\ Changed # {} /\ scale' = mirScale
  /\ Len(posted) <= MaxNotices
  /\ \E order \in Bijection(1 .. Cardinality(Told), Told) : posted' = posted \o order
  /\ unheard' = unheard \cup NotTold
  /\ UNCHANGED << mirScale, screenWindow, on, kept >>

------------------------------------------------------------------------------
(* The GUI thread.                                                          *)

(* What was posted of a handle that is no more, no window takes for its own.*)
NotOf(w) == [ i \in DOMAIN posted |-> IF posted[i] = w THEN None ELSE posted[i] ]

(* createPlatformWindow(): the constructor has the window's properties      *)
(* change, but the window does not have it for its handle yet.              *)
CreatePlatformWindow(w, s) ==
  /\ on[w] = None
  /\ on' = [ on EXCEPT ![w] = s ]
  /\ screenWindow' = [ screenWindow EXCEPT ![s] = w ]
  /\ unheard' = IF kept[w] = None THEN unheard ELSE unheard \cup { w }
  /\ UNCHANGED << mirScale, scale, kept, posted >>

DestroyPlatformWindow(w) ==
  /\ on[w] # None
  /\ on' = [ on EXCEPT ![w] = None ]
  /\ screenWindow' = [ screenWindow EXCEPT ![on[w]] = None ]
  /\ posted' = NotOf(w)
  /\ UNCHANGED << mirScale, scale, kept, unheard >>

(* The first time that it is asked for; it stays invalid without a handle.  *)
Scale(w) ==
  /\ kept[w] = None
  /\ kept' = [ kept EXCEPT ![w] = WindowProperty(w) ]
  /\ UNCHANGED << mirScale, scale, screenWindow, on, posted, unheard >>

NativePropertyChanged ==
  /\ posted # << >> /\ posted' = Tail(posted)
  /\ LET w == Head(posted) IN
       /\ IF w = None THEN UNCHANGED kept ELSE kept' = [ kept EXCEPT ![w] = WindowProperty(w) ]
       /\ unheard' = unheard \ { w }
  /\ UNCHANGED << mirScale, scale, screenWindow, on >>

(* Qt has the handle made anew if it is for another screen.                 *)
Recreate(w, s) ==
  IF s = on[w] THEN UNCHANGED << on, screenWindow, posted >>
  ELSE /\ on' = [ on EXCEPT ![w] = s ]
       /\ screenWindow' = [ screenWindow EXCEPT ![on[w]] = None, ![s] = w ]
       /\ posted' = NotOf(w)

(* A fault: it relies on being told.                                        *)
SetScreenOnly(w, s) ==
  /\ on[w] # None
  /\ Recreate(w, s)
  /\ unheard' = unheard \ { w }
  /\ UNCHANGED << mirScale, scale, kept >>

SetScreen(w, s) ==
  /\ on[w] # None
  /\ Recreate(w, s)
  /\ kept' = [ kept EXCEPT ![w] = scale[s] ]
  /\ unheard' = unheard \ { w }
  /\ UNCHANGED << mirScale, scale >>

(* ScreensController's configuration(), of what the screens have, and       *)
(* setConfiguration(), of all that is in it.                                *)
Configuration == scale
SetConfiguration(c) == mirScale' = c

SetScaleAndFormFactor(w, v) ==
  /\ on[w] # None /\ v # kept[w]
  /\ SetConfiguration([ Configuration EXCEPT ![on[w]] = v ])
  /\ UNCHANGED << scale, screenWindow, on, kept, posted, unheard >>

Next ==
  \/ UpdateInGuiThread \/ UpdateInMirThread \/ NativePropertyChanged
  \/ \E s \in Screens, v \in Scales : Configure(s, v)
  \/ \E w \in Windows :
       \/ DestroyPlatformWindow(w) \/ Scale(w)
       \/ \E s \in Screens : CreatePlatformWindow(w, s) \/ SetScreen(w, s)
       \/ \E v \in Scales : SetScaleAndFormFactor(w, v)

Spec == Init /\ [][Next]_vars

------------------------------------------------------------------------------
(* What a window says of the scale is that of the screen it is on, once all *)
(* that was posted is heard; unless its handle was made anew, which does    *)
(* not make it read again, or its screen knows another window.              *)
ScaleAgrees ==
  \A w \in Windows :
    on[w] # None /\ kept[w] # None /\ w \notin Range(posted) /\ w \notin unheard =>
      kept[w] = scale[on[w]]
=============================================================================

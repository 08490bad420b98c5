------------------------------- MODULE MCShell -------------------------------
(* What the main thread makes of MirAL's windows and of Mir's input, in one *)
(* run: the model of the windows, and what MCSurfaces and MCInput put side  *)
(* by side.                                                                 *)
EXTENDS SequencesExt, Confinement, MCSurfaces, MCInput

CONSTANTS Changing, InputMethods, NoWindow, MaxNotices

VARIABLES stack, inputWindows, readyWindows, active, mirState, extraState, previousState,
          notices, request, overtaken, rows, shown, inputMethod

Model == INSTANCE WindowModel

ASSUME ModelAssumption == Model!WindowsAssumption /\ Model!BoundAssumption

(* onWindowsRaised() by moves of rows is a raise, for up to five windows.   *)
ASSUME MovesAreARaise ==
  \A n \in 1 .. 5 : \A t \in SeqOf(1 .. n, n) :
    LET s == [ i \in 1 .. n |-> i ] IN
    IsInjective(t) => Model!Moved(s, t) = Model!OnTop(s, t)

(* A window that a child moves with stays within the confinement regions.   *)
Intervals == { i \in (-3 .. 6) \X (-3 .. 6) : i[1] <= i[2] }

ASSUME MovesAreConfined ==
  \A region, other \in { i \in Intervals : i[1] >= 0 }, geom \in Intervals, move \in -4 .. 4 :
    /\ MovesWithin(<< >>, geom, move)
    /\ MovesWithin(<< region >>, geom, move)
    /\ other[1] > region[2] => MovesWithin(<< region, other >>, geom, move)

modelVars == << stack, inputWindows, readyWindows, active, mirState, extraState,
                previousState, notices, request, overtaken, rows, shown, inputMethod >>

Init ==
  /\ part \in { "model" } \cup SurfaceParts \cup InputParts
  /\ Model!Init /\ SurfacesInit /\ InputInit

Next ==
  /\ UNCHANGED part
  /\ \/ part = "model" /\ Model!Next /\ UNCHANGED << surfacesVars, inputVars >>
     \/ SurfacesNext /\ UNCHANGED << modelVars, inputVars >>
     \/ InputNext /\ UNCHANGED << modelVars, surfacesVars >>

Spec == Init /\ [][Next]_<< part, modelVars, surfacesVars, inputVars >>

(* The rows are MirAL's stack once the notices are heard: see WindowModel.  *)
InSync == part = "model" => Model!InSync

(* The rows only ever change as a stack of windows does: see WindowStack.   *)
KeepsStacking == Model!KeepsStacking
==============================================================================

----------------------------- MODULE WindowModel -----------------------------
(***************************************************************************)
(* The windows of the window manager and the model of them the shell draws.*)
(*                                                                         *)
(* WindowManagementPolicy is told by MirAL, in one of Mir's threads and    *)
(* under MirAL's lock, what happens to the windows; each advice becomes a  *)
(* notice of WindowModelNotifier, and WindowModel hears the notices in the *)
(* main thread, later and in order. The shell asks for windows to be       *)
(* activated, raised or brought into a state in the main thread, through   *)
(* WindowController and the policy, under MirAL's lock but for the state a *)
(* window has, which requestState() reads and writes without it.           *)
(*                                                                         *)
(* Positions and sizes are left out: notices about them overwrite a value. *)
(***************************************************************************)
EXTENDS Integers, Sequences, SequencesExt, FiniteSets, Rows

CONSTANTS
  Windows,        (* windows that are stacked                               *)
  Changing,       (* a bound: those of them whose state changes             *)
  InputMethods,   (* windows of the type inputmethod                        *)
  NoWindow,       (* no window                                              *)
  MaxNotices      (* a bound: notices on their way when something happens   *)

WindowsAssumption ==
  /\ Windows \cap InputMethods = {}
  /\ NoWindow \notin Windows \cup InputMethods
  /\ Changing \subseteq Windows
BoundAssumption == MaxNotices \in Nat

(* Mir::State; Left: MaximizedLeftState, one of those MirWindowState has no *)
(* value for.                                                               *)
States == { "Unknown", "Restored", "Minimized", "Left" }
MirStates == { "unknown", "restored", "minimized" }

ToMirState == [ Unknown |-> "unknown", Restored |-> "restored",
                Minimized |-> "minimized", Left |-> "restored" ]
ToQtState == [ unknown |-> "Unknown", restored |-> "Restored",
               minimized |-> "Minimized" ]

Orders == { s \in Seq(Windows) : IsInjective(s) }

Notices ==
  { "added", "removed", "ready" } \X (Windows \cup InputMethods)
    \cup { "focus" } \X Windows \X BOOLEAN
    \cup { "state" } \X Windows \X States
    \cup { "raised" } \X Orders

(* What a MirSurface of the model knows of its window.                      *)
SurfaceRecord == [ ready : BOOLEAN, focused : BOOLEAN, state : States ]

(* A request of the shell that has read and set a state and is yet to tell  *)
(* Mir or the model; activate: the window is then activated.                *)
RequestRecord ==
  [ window : Windows \cup { NoWindow }, state : States,
    same : BOOLEAN, activate : BOOLEAN ]
NoRequest ==
  [ window |-> NoWindow, state |-> "Unknown", same |-> FALSE, activate |-> FALSE ]

VARIABLES
  stack,          (* MirAL: the windows, the highest last                   *)
  inputWindows,   (* MirAL: the windows of input methods                    *)
  readyWindows,   (* MirAL: those that have drawn something                 *)
  active,         (* MirAL: active_window()                                 *)
  mirState,       (* MirAL: WindowInfo::state()                             *)
  extraState,     (* ExtraWindowInfo::state                                 *)
  previousState,  (* ExtraWindowInfo::previousState                         *)
  notices,        (* queued signals of WindowModelNotifier                  *)
  request,        (* requestState() in progress in the main thread          *)
  overtaken,      (* history: windows whose state Mir last changed during a *)
                  (* request for it                                         *)
  rows,           (* m_windowModel                                          *)
  shown,          (* the MirSurfaces of the rows                            *)
  inputMethod     (* m_inputMethodSurface                                   *)

mirVars == << stack, inputWindows, readyWindows, active, mirState >>
stateVars == << mirState, extraState, previousState, overtaken >>
modelVars == << rows, shown, inputMethod >>
vars == << stack, inputWindows, readyWindows, active, stateVars, notices,
           request, modelVars >>

TypeOK ==
  /\ stack \in Orders /\ rows \in Orders
  /\ inputWindows \subseteq InputMethods
  /\ readyWindows \subseteq Windows
  /\ active \in Windows \cup { NoWindow }
  /\ mirState \in [ Windows -> MirStates ]
  /\ extraState \in [ Windows -> States ]
  /\ previousState \in [ Windows -> States ]
  /\ notices \in Seq(Notices)
  /\ request \in RequestRecord
  /\ overtaken \subseteq Windows
  /\ shown \in [ Windows -> SurfaceRecord ]
  /\ inputMethod \in InputMethods \cup { NoWindow }

NewSurface == [ ready |-> FALSE, focused |-> FALSE, state |-> "Restored" ]

Init ==
  /\ stack = << >> /\ inputWindows = {} /\ readyWindows = {} /\ active = NoWindow
  /\ mirState = [ w \in Windows |-> "restored" ]
  /\ extraState = [ w \in Windows |-> "Unknown" ]
  /\ previousState = [ w \in Windows |-> "Unknown" ]
  /\ notices = << >> /\ request = NoRequest /\ overtaken = {}
  /\ rows = << >> /\ shown = [ w \in Windows |-> NewSurface ]
  /\ inputMethod = NoWindow

------------------------------------------------------------------------------
(* The policy, called by MirAL.                                             *)

Existing == ToSet(stack) \cup inputWindows

MayHappen == Len(notices) < MaxNotices

PostOutOfOrder(new) ==               (* fault: not a queued connection      *)
  notices' = new \o notices

Post(new) ==
  notices' = notices \o new

(* Nothing on its way names w, so that its address may be that of a new one.*)
Forgotten(w) ==
  \A i \in 1 .. Len(notices) :
    /\ notices[i][1] \in { "added", "removed", "ready", "focus", "state" } => notices[i][2] # w
    /\ notices[i][1] = "raised" => ~ Contains(notices[i][2], w)

(* advise_new_window(): a stacked window, then one of an input method.      *)
AdviseNewWindow(w) ==
  /\ MayHappen /\ w \notin Existing /\ Forgotten(w) /\ request.window # w
  /\ \/ /\ w \in Windows
        /\ stack' = Append(stack, w)
        /\ mirState' = [ mirState EXCEPT ![w] = "restored" ]
        /\ extraState' = [ extraState EXCEPT ![w] = "Restored" ]
        /\ previousState' = [ previousState EXCEPT ![w] = "Unknown" ]
        /\ UNCHANGED inputWindows
     \/ /\ w \in InputMethods
        /\ inputWindows' = inputWindows \cup { w }
        /\ UNCHANGED << stack, mirState, extraState, previousState >>
  /\ Post(<< << "added", w >> >>)
  /\ overtaken' = overtaken \ { w }
  /\ UNCHANGED << readyWindows, active, request, modelVars >>

(* handle_window_ready(), of one of the rows.                               *)
HandleWindowReady(w) ==
  /\ MayHappen /\ w \in ToSet(stack) \ readyWindows
  /\ readyWindows' = readyWindows \cup { w }
  /\ Post(<< << "ready", w >> >>)
  /\ UNCHANGED << stack, inputWindows, active, stateVars, request, modelVars >>

(* The WindowInfo of w goes, and the ExtraWindowInfo it owns.               *)
Forget(w) ==
  /\ w \in Windows =>
       /\ mirState' = [ mirState EXCEPT ![w] = "restored" ]
       /\ extraState' = [ extraState EXCEPT ![w] = "Unknown" ]
       /\ previousState' = [ previousState EXCEPT ![w] = "Unknown" ]
  /\ w \notin Windows => UNCHANGED << mirState, extraState, previousState >>
  /\ overtaken' = overtaken \ { w }

(* The window that had the focus loses it without an advice.                *)
AdviseDeleteWindow(w) ==
  /\ MayHappen /\ w \in Existing
  /\ stack' = Without(stack, { w })
  /\ inputWindows' = inputWindows \ { w }
  /\ readyWindows' = readyWindows \ { w }
  /\ active' = IF active = w THEN NoWindow ELSE active
  /\ Post(<< << "removed", w >> >>)
  /\ Forget(w)
  /\ UNCHANGED << request, modelVars >>

(* tree: a window and those that go with it, in the order MirAL names them. *)
Trees(w) ==
  { t \in SeqOf(ToSet(stack), Len(stack)) : IsInjective(t) /\ t # << >> /\ t[1] = w }

OnTop(s, t) == Without(s, ToSet(t)) \o Kept(t, ToSet(s))

AdviseRaise(t) ==
  /\ stack' = OnTop(stack, t)
  /\ Post(<< << "raised", t >> >>)

(* select_active_window(): the focus goes, comes, and with it the window.   *)
Select(w, t, before) ==
  /\ active' = w
  /\ stack' = OnTop(stack, t)
  /\ Post(before
          \o (IF active \in { w, NoWindow } THEN << >>
              ELSE << << "focus", active, FALSE >> >>)
          \o << << "focus", w, TRUE >>, << "raised", t >> >>)

SelectNone ==
  /\ MayHappen /\ active # NoWindow
  /\ active' = NoWindow
  /\ Post(<< << "focus", active, FALSE >> >>)
  /\ UNCHANGED << stack, inputWindows, readyWindows, stateVars, request, modelVars >>

(* What advise_state_change() leaves in extraState: a state MirWindowState  *)
(* has no value for stays when Mir reports its placeholder.                 *)
AdvisedState(w, s) ==
  IF s = "restored" /\ extraState[w] # "Restored" /\ ToMirState[extraState[w]] = s
    THEN extraState[w] ELSE ToQtState[s]

AdviseStateChange(w, s) ==
  /\ mirState' = [ mirState EXCEPT ![w] = s ]
  /\ extraState' = [ extraState EXCEPT ![w] = AdvisedState(w, s) ]

(* The client asks MirAL for a state (sizes and hints are left out).        *)
HandleModifyWindow(w, s) ==
  /\ MayHappen /\ w \in Changing \cap ToSet(stack) /\ mirState[w] # s
  /\ AdviseStateChange(w, s)
  /\ Post(<< << "state", w, AdvisedState(w, s) >> >>)
  /\ overtaken' = IF request.window = w THEN overtaken \cup { w } ELSE overtaken \ { w }
  /\ UNCHANGED << stack, inputWindows, readyWindows, active, previousState, request,
                  modelVars >>

------------------------------------------------------------------------------
(* The policy, called by the shell in the main thread; between the handlers *)
(* of notices.                                                              *)

ShellMayCall == MayHappen /\ request = NoRequest

Activate(w) ==
  /\ ShellMayCall /\ w \in ToSet(stack) /\ mirState[w] # "minimized"
  /\ \E t \in Trees(w) : Select(w, t, << >>)
  /\ UNCHANGED << inputWindows, readyWindows, stateVars, request, modelVars >>

RaiseWindow(w) ==
  /\ ShellMayCall /\ w \in ToSet(stack)
  /\ \E t \in Trees(w) : AdviseRaise(t)
  /\ UNCHANGED << inputWindows, readyWindows, active, stateVars, request, modelVars >>

(* requestState() up to its last test; what it has decided is carried out   *)
(* by FinishRequest.                                                        *)
BeginRequest(w, s, activate) ==
  /\ previousState' = [ previousState EXCEPT ![w] = extraState[w] ]
  /\ extraState' = [ extraState EXCEPT ![w] = s ]
  /\ request' = [ window |-> w, state |-> s, same |-> ToMirState[s] = mirState[w],
                  activate |-> activate ]

RequestState(w, s) ==
  /\ ShellMayCall /\ w \in Changing \cap ToSet(stack) /\ extraState[w] # s
  /\ BeginRequest(w, s, FALSE)
  /\ UNCHANGED << mirVars, notices, overtaken, modelVars >>

(* A minimized window is first brought to its previous state, unless that   *)
(* is the one it has.                                                       *)
ActivateMinimized(w) ==
  /\ ShellMayCall /\ w \in ToSet(stack) /\ mirState[w] = "minimized"
  /\ \/ /\ extraState[w] # previousState[w]
        /\ BeginRequest(w, previousState[w], TRUE)
        /\ UNCHANGED << stack, active, notices >>
     \/ /\ extraState[w] = previousState[w]
        /\ \E t \in Trees(w) : Select(w, t, << >>)
        /\ UNCHANGED << previousState, extraState, request >>
  /\ UNCHANGED << inputWindows, readyWindows, mirState, overtaken, modelVars >>

(* The notice of the new state, or MirAL's advice of it if it applies one   *)
(* that differs.                                                            *)
FinishRequest ==
  LET w == request.window  s == ToMirState[request.state]
      after(told) ==
        IF request.activate
          THEN \E t \in Trees(w) : Select(w, t, told)
          ELSE Post(told) /\ UNCHANGED << stack, active >>
  IN
  /\ request # NoRequest
  /\ request' = NoRequest
  /\ \/ /\ w \in ToSet(stack) /\ request.same
        /\ after(<< << "state", w, request.state >> >>)
        /\ UNCHANGED << mirState, extraState, overtaken >>
     \/ /\ w \in ToSet(stack) /\ ~ request.same /\ mirState[w] # s
        /\ AdviseStateChange(w, s)
        /\ after(<< << "state", w, AdvisedState(w, s) >> >>)
        /\ overtaken' = overtaken \ { w }
     \/ /\ w \in ToSet(stack) /\ ~ request.same /\ mirState[w] = s
        /\ after(<< >>)
        /\ UNCHANGED << mirState, extraState, overtaken >>
     \/ /\ w \notin ToSet(stack)
        /\ UNCHANGED << stack, active, mirState, extraState, overtaken, notices >>
  /\ UNCHANGED << inputWindows, readyWindows, previousState, modelVars >>

------------------------------------------------------------------------------
(* WindowModel, the notices handled in the main thread.                     *)

IndexIn(s, w) == SelectInSeq(s, LAMBDA v : v = w)        (* 0: not there    *)
FindIndexOf(w) == IndexIn(rows, w)

OnWindowAddedBelow(w) ==             (* fault: a new window is lowest       *)
  /\ w \in Windows
  /\ rows' = << w >> \o rows
  /\ shown' = [ shown EXCEPT ![w] = NewSurface ]
  /\ UNCHANGED inputMethod

(* The old one is deleted.                                                  *)
AddInputMethodWindow(w) ==
  /\ inputMethod' = w
  /\ UNCHANGED << rows, shown >>

(* Whichever input method's window was removed.                             *)
RemoveInputMethodWindow ==
  /\ inputMethod' = NoWindow
  /\ UNCHANGED << rows, shown >>

OnWindowAdded(w) ==
  \/ w \in InputMethods /\ AddInputMethodWindow(w)
  \/ /\ w \in Windows
     /\ rows' = Append(rows, w)
     /\ shown' = [ shown EXCEPT ![w] = NewSurface ]
     /\ UNCHANGED inputMethod

OnWindowRemoved(w) ==
  \/ w \in InputMethods /\ RemoveInputMethodWindow
  \/ /\ w \in Windows
     /\ rows' = RemoveAt(rows, FindIndexOf(w))
     /\ shown' = [ shown EXCEPT ![w] = NewSurface ]
     /\ UNCHANGED inputMethod

(* A row that find() knows changes.                                         *)
Show(w, surface) ==
  /\ shown' = IF FindIndexOf(w) # 0 THEN [ shown EXCEPT ![w] = surface ] ELSE shown
  /\ UNCHANGED << rows, inputMethod >>

OnWindowReady(w) == Show(w, [ shown[w] EXCEPT !.ready = TRUE ])

(* onWindowsRaised(): the moves are all computed of s, before the first is  *)
(* made, from the highest window down, each from-index corrected by the     *)
(* windows below it that are moved before it.                               *)
MoveOf(s, ws, i) ==
  LET from == IndexIn(s, ws[i])
      moved == Cardinality({ j \in i + 1 .. Len(ws) : IndexIn(s, ws[j]) < from })
  IN  << from - moved, Len(s) - Len(ws) + i >>

MoveRow(r, move) ==
  IF move[1] = move[2] THEN r ELSE InsertAt(RemoveAt(r, move[1]), move[2], r[move[1]])

Moved(s, ws) ==
  LET after[k \in 0 .. Len(ws)] ==
        IF k = 0 THEN s ELSE MoveRow(after[k - 1], MoveOf(s, ws, Len(ws) + 1 - k))
  IN  after[Len(ws)]

OnWindowsRaised(ws) ==
  /\ rows' = Moved(rows, ws)
  /\ UNCHANGED << shown, inputMethod >>

Handle(notice) ==
  LET kind == notice[1]  w == notice[2] IN
  \/ kind = "added" /\ OnWindowAdded(w)
  \/ kind = "removed" /\ OnWindowRemoved(w)
  \/ kind = "ready" /\ OnWindowReady(w)
  \/ kind = "focus" /\ Show(w, [ shown[w] EXCEPT !.focused = notice[3] ])
  \/ kind = "state" /\ Show(w, [ shown[w] EXCEPT !.state = notice[3] ])
  \/ kind = "raised" /\ OnWindowsRaised(w)

Deliver ==
  /\ request = NoRequest /\ notices # << >>
  /\ notices' = Tail(notices)
  /\ Handle(Head(notices))
  /\ UNCHANGED << mirVars, extraState, previousState, request, overtaken >>

Next ==
  \/ \E w \in Windows \cup InputMethods :
       AdviseNewWindow(w) \/ HandleWindowReady(w) \/ AdviseDeleteWindow(w)
  \/ \E w \in Windows, s \in MirStates \ { "unknown" } : HandleModifyWindow(w, s)
  \/ \E w \in Windows : Activate(w) \/ RaiseWindow(w) \/ ActivateMinimized(w)
  \/ \E w \in Windows, s \in States \ { "Unknown" } : RequestState(w, s)
  \/ SelectNone \/ FinishRequest \/ Deliver

Spec == Init /\ [][Next]_vars

------------------------------------------------------------------------------
(* What the model will show once the notices on their way are heard, by     *)
(* what each of them means and not by how it is handled.                    *)

Meant(view, notice) ==
  LET kind == notice[1]  w == notice[2] IN
  CASE kind = "added" /\ w \in Windows ->
         [ view EXCEPT !.stack = Append(@, w), !.ready = @ \ { w },
                       !.focused = @ \ { w }, !.state[w] = "Restored" ]
    [] kind = "removed" /\ w \in Windows ->
         [ view EXCEPT !.stack = Without(@, { w }), !.ready = @ \ { w },
                       !.focused = @ \ { w }, !.state[w] = "Restored" ]
    [] kind = "added" /\ w \in InputMethods -> [ view EXCEPT !.inputMethod = w ]
    [] kind = "removed" /\ w \in InputMethods -> [ view EXCEPT !.inputMethod = NoWindow ]
    [] kind = "ready" /\ Contains(view.stack, w) ->
         [ view EXCEPT !.ready = @ \cup { w } ]
    [] kind = "focus" /\ Contains(view.stack, w) ->
         [ view EXCEPT !.focused = IF notice[3] THEN @ \cup { w } ELSE @ \ { w } ]
    [] kind = "state" /\ Contains(view.stack, w) -> [ view EXCEPT !.state[w] = notice[3] ]
    [] kind = "raised" -> [ view EXCEPT !.stack = OnTop(@, w) ]
    [] OTHER -> view

Seen ==
  [ stack |-> rows,
    ready |-> { w \in Windows : shown[w].ready },
    focused |-> { w \in Windows : shown[w].focused },
    state |-> [ w \in Windows |-> shown[w].state ],
    inputMethod |-> inputMethod ]

Foreseen ==
  LET heard[n \in 0 .. Len(notices)] ==
        IF n = 0 THEN Seen ELSE Meant(heard[n - 1], notices[n])
  IN  heard[Len(notices)]

(* Whatever notices are still to be heard, hearing them makes the model the *)
(* window manager's: its windows in its order, the ready ones ready, no     *)
(* other than the active one focused, each in a state that is Mir's, unless *)
(* Mir changed that while the shell was asking for another; and no input    *)
(* method's surface is shown but that of a window there is.                 *)
InSync ==
  LET there == ToSet(stack) IN
  /\ Foreseen.stack = stack
  /\ Foreseen.ready \cap there = readyWindows
  /\ Foreseen.focused \cap there = there \cap { active }
  /\ request = NoRequest =>
       \A w \in there \ overtaken : ToMirState[Foreseen.state[w]] = mirState[w]
  /\ Foreseen.inputMethod \in inputWindows \cup { NoWindow }

(* WindowModel is a list of windows as WindowStack describes it: what       *)
(* onWindowsRaised() does by moves of single rows raises the windows named, *)
(* in their order, and leaves all others in theirs.                         *)
Stacking == INSTANCE WindowStack WITH stack <- rows
KeepsStacking == Stacking!Spec
==============================================================================

---------------------------- MODULE ScreensModel -----------------------------
(***************************************************************************)
(* Screens and the windows on them, as Mir stops its compositor, has its   *)
(* outputs configured and starts it again, and as the server is stopped.   *)
(*                                                                         *)
(* Mir's thread asks the GUI thread to stop rendering and waits for it     *)
(* (BlockingQueuedConnection); it only posts that rendering may start      *)
(* again. ScreensModel::update() matches its Screens with Mir's outputs    *)
(* and its buffers. The GUI thread calls it for both, and Mir's thread for *)
(* the window manager's advise_output_*(), with nothing that keeps the two *)
(* apart: an update is two steps here, taking the old list and making the  *)
(* new one.                                                                *)
(***************************************************************************)
EXTENDS Naturals, Sequences, FiniteSets

CONSTANTS
  Outputs,        (* outputs of the display configuration                   *)
  Windows,        (* windows of the shell                                   *)
  NoWindow,       (* no window                                              *)
  Incarnations    (* a bound: Screen objects of one output at a time        *)

WindowsAssumption == NoWindow \notin Windows
BoundAssumption == Incarnations \in Nat /\ Incarnations >= 3

VARIABLES
  config,         (* Mir: what each output is, and whether all show the same*)
  mir,            (* Mir's thread: where it is                              *)
  queue,          (* the compositor's signals posted to the GUI thread      *)
  connected,      (* the compositor's signals are connected                 *)
  gui,            (* the GUI thread: the handler it is in                   *)
  compositing,    (* m_compositing                                          *)
  screens,        (* the Screen objects there are                           *)
  listed,         (* those in m_screenList                                  *)
  old,            (* oldScreenList of the update() of each thread           *)
  windows,        (* each window's ScreenWindow: its screen, m_exposed      *)
  raced           (* history: two threads were in update() at a time        *)

vars == << config, mir, queue, connected, gui, compositing, screens, listed, old, windows, raced >>

Threads == { "gui", "mir" }
NoScreen == << >>
Ids == Outputs \X (1 .. Incarnations)
NotCreated == [ screen |-> NoScreen, exposed |-> FALSE ]

TypeOK ==
  /\ config \in [ outputs : [ Outputs -> { "unused", "dark", "lit" } ], cloned : BOOLEAN ]
  /\ mir \in { "started", "stopping", "stopped", "advising", "updating", "terminated",
               "shutting", "ended", "killed" }
  /\ queue \in Seq({ "starting", "stopping" })
  /\ gui \in { "idle", "starting", "stopping", "waiting", "ended" }
  /\ connected \in BOOLEAN /\ compositing \in BOOLEAN /\ raced \in BOOLEAN
  /\ DOMAIN screens \subseteq Ids
  /\ \A s \in DOMAIN screens :
       screens[s] \in [ lit : BOOLEAN, buffer : { "none", "current", "freed" },
                        window : Windows \cup { NoWindow } ]
  /\ listed \subseteq DOMAIN screens /\ old \in [ Threads -> SUBSET DOMAIN screens ]
  /\ windows \in [ Windows -> [ screen : DOMAIN screens \cup { NoScreen }, exposed : BOOLEAN ] ]

(* Mir has started: its first update() is done, and starting() is posted.   *)
Init ==
  /\ config \in [ outputs : [ Outputs -> { "unused", "lit" } ], cloned : { FALSE } ]
  /\ mir = "started" /\ queue = << "starting" >> /\ connected = TRUE
  /\ gui = "idle" /\ compositing = FALSE /\ raced = FALSE
  /\ listed = { s \in Ids : s[2] = 1 /\ config.outputs[s[1]] = "lit" }
  /\ screens = [ s \in listed |-> [ lit |-> TRUE, buffer |-> "current", window |-> NoWindow ] ]
  /\ old = [ t \in Threads |-> {} ]
  /\ windows = [ w \in Windows |-> NotCreated ]

------------------------------------------------------------------------------
(* update(), in two steps.                                                  *)

Updating(t) == IF t = "gui" THEN gui \in { "starting", "stopping" } ELSE mir = "updating"

UpdateBegins(t) ==
  /\ old' = [ old EXCEPT ![t] = listed ]
  /\ listed' = {}
  /\ raced' = (raced \/ \E u \in Threads \ { t } : Updating(u))

OutputOf(s) == s[1]
Used == { o \in Outputs : config.outputs[o] # "unused" }
Of(S, o) == { s \in S : OutputOf(s) = o }

(* A Screen is kept if its output is still used: canUpdateExistingScreen()  *)
(* always says that it can be, and no window is ever moved to another one.  *)
KeptOf(S) ==
  { K \in SUBSET { s \in S : OutputOf(s) \in Used } :
      \A o \in Used : Cardinality(Of(K, o)) = IF Of(S, o) = {} THEN 0 ELSE 1 }

CreateScreens(S) ==
  { << o, CHOOSE n \in 1 .. Incarnations : << o, n >> \notin DOMAIN screens >> :
      o \in { u \in Used : Of(S, u) = {} } }

(* The only way to match is by geometry: of screens that have the same, one *)
(* gets the buffer. A display that is dark has none.                        *)
Geometry(o) == IF config.cloned THEN "shared" ELSE o
Lit == { Geometry(o) : o \in { u \in Outputs : config.outputs[u] = "lit" } }
Matched(S) ==
  { M \in SUBSET { s \in S : Geometry(OutputOf(s)) \in Lit } :
      \A g \in { Geometry(OutputOf(s)) : s \in S } \cap Lit :
        Cardinality({ s \in M : Geometry(OutputOf(s)) = g }) = 1 }

NewScreen == [ lit |-> FALSE, buffer |-> "none", window |-> NoWindow ]

Screen(s, updated, matched) ==
  LET was == IF s \in DOMAIN screens THEN screens[s] ELSE NewScreen IN
  [ lit |-> IF s \in updated THEN config.outputs[OutputOf(s)] = "lit" ELSE was.lit,
    buffer |-> IF s \in matched THEN "current" ELSE was.buffer,
    window |-> was.window ]

(* setExposed() starts or stops the renderer of a window at once.           *)
SetExposed(w, exposed) == [ windows[w] EXCEPT !.exposed = exposed ]

(* Whichever screen is not kept goes, and the platform windows on it. Once  *)
(* the screens are up to date, the windows of the lit ones may be exposed.  *)
UpdateEnds(t, startRenderer) ==
  \E kept \in KeptOf(old[t]) :
    LET created == CreateScreens(old[t])
        gone == old[t] \ kept
        there == (DOMAIN screens \ gone) \cup created
    IN  /\ listed' = listed \cup kept \cup created
        /\ \E matched \in Matched(listed') :
             screens' = [ s \in there |-> Screen(s, kept \cup created, matched) ]
        /\ old' = [ old EXCEPT ![t] = {} ]
        /\ windows' =
             [ w \in Windows |->
                 IF windows[w].screen \in gone THEN NotCreated
                 ELSE IF startRenderer
                           /\ \E s \in listed' : screens'[s].lit /\ screens'[s].window = w
                        THEN SetExposed(w, TRUE)
                        ELSE windows[w] ]

------------------------------------------------------------------------------
(* The GUI thread.                                                          *)

OnCompositorStarting ==
  /\ gui = "idle" /\ queue # << >> /\ Head(queue) = "starting"
  /\ queue' = Tail(queue) /\ gui' = "starting"
  /\ compositing' = TRUE
  /\ UpdateBegins("gui")
  /\ UNCHANGED << config, mir, connected, screens, windows >>

StartRenderer ==
  /\ gui = "starting"
  /\ gui' = "idle"
  /\ UpdateEnds("gui", TRUE)
  /\ UNCHANGED << config, mir, queue, connected, compositing, raced >>

(* haltRenderer(), of the windows that the screens in the list know.        *)
HaltRenderer ==
  windows' = [ w \in Windows |->
                 IF \E s \in listed : screens[s].window = w THEN SetExposed(w, FALSE)
                                                           ELSE windows[w] ]

(* A fault: windows that are created meanwhile are exposed.                 *)
OnCompositorStoppingStill ==
  /\ gui = "idle" /\ queue # << >> /\ Head(queue) = "stopping"
  /\ queue' = Tail(queue) /\ gui' = "stopping"
  /\ HaltRenderer
  /\ UpdateBegins("gui")
  /\ UNCHANGED << config, mir, connected, compositing, screens >>

OnCompositorStopping ==
  /\ gui = "idle" /\ queue # << >> /\ Head(queue) = "stopping"
  /\ queue' = Tail(queue) /\ gui' = "stopping"
  /\ compositing' = FALSE
  /\ HaltRenderer
  /\ UpdateBegins("gui")
  /\ UNCHANGED << config, mir, connected, screens >>

(* The handler is done, and Mir's thread goes on.                           *)
CompositorStopped ==
  /\ gui = "stopping"
  /\ gui' = "idle" /\ mir' = "stopped"
  /\ UpdateEnds("gui", FALSE)
  /\ UNCHANGED << config, queue, connected, compositing, raced >>

SetWindow(s, w) == [ screens EXCEPT ![s].window = w ]

(* setExposed() is the caller's: ScreenWindow's constructor leaves it out.  *)
NewScreenWindow(s) == [ screen |-> s, exposed |-> FALSE ]

(* createPlatformWindow(), of a window that overwrites the one that the     *)
(* screen had.                                                              *)
CreatePlatformWindow(w, s) ==
  /\ gui = "idle" /\ windows[w] = NotCreated /\ s \in listed
  /\ windows' = [ windows EXCEPT ![w] = [ NewScreenWindow(s) EXCEPT !.exposed = compositing ] ]
  /\ screens' = SetWindow(s, w)
  /\ UNCHANGED << config, mir, queue, connected, gui, compositing, listed, old, raced >>

(* ~ScreenWindow(), after which the screen has no window, whosever it was.  *)
DestroyWindow(w) ==
  /\ gui = "idle" /\ windows[w] # NotCreated
  /\ windows' = [ windows EXCEPT ![w] = NotCreated ]
  /\ screens' = SetWindow(windows[w].screen, NoWindow)
  /\ UNCHANGED << config, mir, queue, connected, gui, compositing, listed, old, raced >>

(* QMirServer::stop(), as the application quits.                            *)
Stop ==
  /\ gui = "idle"
  /\ gui' = "waiting"
  /\ UNCHANGED << config, mir, queue, connected, compositing, screens, listed, old, windows, raced >>

StopReturnsOnly ==
  /\ gui = "waiting" /\ mir = "ended"
  /\ gui' = "ended"
  /\ UNCHANGED << config, mir, queue, connected, compositing, screens, listed, old, windows, raced >>

(* wait() returns as Mir's thread ends, or after 10 s, which that thread    *)
(* does not take unless it waits for the GUI thread in its turn. Then it is *)
(* told to terminate, which nobody waits for.                               *)
Wait ==
  /\ gui = "waiting" /\ mir \in { "ended", "stopping", "shutting" }
  /\ gui' = "ended"
  /\ UNCHANGED << config, mir, queue, connected, compositing, screens, listed, old, windows, raced >>

------------------------------------------------------------------------------
(* Mir's thread.                                                            *)

(* stopping(), which Mir's thread waits to be handled if anything hears it. *)
EmitStopping(waits, goesOn) ==
  IF connected
    THEN queue' = Append(queue, "stopping") /\ mir' = waits
    ELSE queue' = queue /\ mir' = goesOn

StopCompositor ==
  /\ mir = "started"
  /\ EmitStopping("stopping", "stopped")
  /\ UNCHANGED << config, connected, gui, compositing, screens, listed, old, windows, raced >>

(* The outputs change, and the buffers that there were are freed.           *)
Configure ==
  /\ mir = "stopped"
  /\ config' \in [ outputs : [ Outputs -> { "unused", "dark", "lit" } ], cloned : BOOLEAN ]
  /\ screens' = [ s \in DOMAIN screens |->
                    IF screens[s].buffer = "current" THEN [ screens[s] EXCEPT !.buffer = "freed" ]
                                                     ELSE screens[s] ]
  /\ queue' = Append(queue, "starting")
  /\ mir' = "advising"
  /\ UNCHANGED << connected, gui, compositing, listed, old, windows, raced >>

(* advise_output_create(), _update() and _delete(), if outputs changed.     *)
AdviseOutput ==
  /\ mir = "advising"
  /\ \/ mir' = "updating" /\ UpdateBegins("mir")
     \/ mir' = "started" /\ UNCHANGED << listed, old, raced >>
  /\ UNCHANGED << config, queue, connected, gui, compositing, screens, windows >>

OutputAdvised ==
  /\ mir = "updating"
  /\ mir' = "started"
  /\ UpdateEnds("mir", FALSE)
  /\ UNCHANGED << config, queue, connected, gui, compositing, raced >>

(* The runner's stop callback, before the server shuts down.                *)
Terminate ==
  /\ gui = "waiting" /\ mir = "started"
  /\ connected' = FALSE /\ mir' = "terminated"
  /\ UNCHANGED << config, queue, gui, compositing, screens, listed, old, windows, raced >>

(* The server stops its compositor, and the thread ends.                    *)
Shutdown ==
  /\ mir = "terminated"
  /\ EmitStopping("shutting", "ended")
  /\ UNCHANGED << config, connected, gui, compositing, screens, listed, old, windows, raced >>

(* Where it waits for the GUI thread, terminate() ends it sooner or later.  *)
Killed ==
  /\ gui = "ended" /\ mir \in { "stopping", "shutting" }
  /\ mir' = "killed"
  /\ UNCHANGED << config, queue, connected, gui, compositing, screens, listed, old, windows, raced >>

Next ==
  \/ OnCompositorStarting \/ StartRenderer \/ OnCompositorStopping \/ CompositorStopped
  \/ Stop \/ Wait
  \/ \E w \in Windows : DestroyWindow(w) \/ \E s \in listed : CreatePlatformWindow(w, s)
  \/ StopCompositor \/ Configure \/ AdviseOutput \/ OutputAdvised \/ Terminate \/ Shutdown
  \/ Killed

Spec == Init /\ [][Next]_vars

(* Either thread goes on while it can; Mir's gets to the stop that it was   *)
(* asked for, in its main loop's queue, however often outputs change.       *)
Fairness ==
  /\ WF_vars(StartRenderer) /\ WF_vars(CompositorStopped) /\ WF_vars(Wait)
  /\ WF_vars(Configure) /\ WF_vars(AdviseOutput) /\ WF_vars(OutputAdvised)
  /\ SF_vars(Terminate) /\ WF_vars(Shutdown)
FairSpec == Spec /\ Fairness

------------------------------------------------------------------------------
(* A window renders into a buffer of its screen's that there is: Mir frees  *)
(* none while windows render, and none renders before the screens have been *)
(* matched with the buffers there are. The exceptions: two threads in       *)
(* update() at a time; outputs that show the same, of which one screen gets *)
(* the buffer; a window that is created, and exposed, on a screen that is   *)
(* dark; one that was overwritten by another window of its screen, so that  *)
(* nothing halts it.                                                        *)
RendersOnBuffer ==
  \A w \in Windows :
    windows[w].exposed /\ mir # "ended" =>
      LET s == screens[windows[w].screen] IN
      s.buffer = "current" \/ raced \/ config.cloned \/ ~ s.lit \/ s.window # w

(* stop() returns, also when Mir's thread waits for the GUI thread to stop  *)
(* rendering while that one waits in stop(). Unless it is caught like that, *)
(* the thread has ended by then: terminate() of ScreensModel, in the stop   *)
(* callback, has cut it off from the GUI thread, for which it would wait    *)
(* again as it shuts down.                                                  *)
StopReturns == gui = "waiting" ~> gui = "ended" /\ mir \in { "ended", "stopping" }
==============================================================================

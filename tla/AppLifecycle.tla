---------------------------- MODULE AppLifecycle ----------------------------
(***************************************************************************)
(* The life of one application in the shell: the handlers of module        *)
(* Application, driven by the shell (requestedState, close), by the timers *)
(* of the application and of its sessions, by Mir (sessions and surfaces   *)
(* coming and going) and by ubuntu-app-launch (what it tells of the        *)
(* process), in any order these independent parties can produce.           *)
(***************************************************************************)
EXTENDS Application

CONSTANTS
  MaxClients,        (* how many sessions are connected at a time           *)
  SessionsStopFirst  (* TRUE: Mir reports the end of every session of a     *)
                     (* dead process before ubuntu-app-launch reports the   *)
                     (* end of the process, as setProcessState() assumes    *)

ASSUME ClientsAssumption == MaxClients \in Nat
ASSUME OrderAssumption == SessionsStopFirst \in BOOLEAN

VARIABLES
  app,      (* the Application with its sessions and its process           *)
  deleted   (* the Application object was deleted                          *)

vars == << app, deleted >>

(* Every handler starts with no assertion failed. *)
a0 == [ app EXCEPT !.failed = {} ]

Live(s) == app.session[s].attached /\ app.session[s].live

(* Application's constructor, and how the process is there: started by      *)
(* startApplication() or connecting on its own (authorizeSession()).        *)
Init ==
  /\ deleted = FALSE
  /\ \E how \in { "job", "byHand", "unknown" } :
       app = [ state |-> "Starting", requested |-> "Running",
               processState |-> "Unknown", closing |-> FALSE,
               stopTimer |-> FALSE, exempt |-> FALSE, wakelock |-> ~Dash,
               listed |-> "applications", deleteLater |-> FALSE,
               startQueued |-> FALSE,
               session |-> [ s \in Sessions |-> NoSession ],
               process |-> IF how = "job" THEN "launching" ELSE "alive",
               launch |-> how, stopAsked |-> FALSE,
               notices |-> IF how = "job" THEN << "Starting" >> ELSE << >>,
               failed |-> {} ]

-----------------------------------------------------------------------------
(* The shell *)

(* A fault: the request is stored, and nothing done about it. *)
StoreRequestedState(value) ==
  /\ ~deleted
  /\ app.requested # value
  /\ app' = [ a0 EXCEPT !.requested = value ]
  /\ UNCHANGED deleted

SetRequestedState(value) ==
  /\ ~deleted
  /\ app.requested # value
  /\ app' = UpdateState([ a0 EXCEPT !.requested = value ])
  /\ UNCHANGED deleted

SetExemptFromLifecycle(value) ==
  /\ ~deleted
  /\ app.exempt # value
  /\ app' = [ a0 EXCEPT !.exempt = value ]
  /\ UNCHANGED deleted

(* ApplicationManager::stopApplication() finds only what is in              *)
(* m_applications.                                                          *)
StopApplication ==
  /\ ~deleted
  /\ app.listed = "applications"
  /\ app' = Close(a0)
  /\ UNCHANGED deleted

-----------------------------------------------------------------------------
(* Timers and posted events of the main thread *)

(* The timeout of m_stopTimer, a single shot of 1000 ms. *)
StopTimeout ==
  /\ ~deleted
  /\ app.stopTimer
  /\ app' = Stop([ a0 EXCEPT !.stopTimer = FALSE ])
  /\ UNCHANGED deleted

(* Session::doSuspend(), the timeout of m_suspendTimer: it runs exactly     *)
(* while the session is Suspending.                                         *)
SuspendTimeout(s) ==
  /\ ~deleted
  /\ app.session[s].attached
  /\ app.session[s].state = "Suspending"
  /\ app' = SetSessionState(a0, s, "Suspended")
  /\ UNCHANGED deleted

(* The queued slot of startProcessRequested. ubuntu-app-launch starts a     *)
(* process unless it has one.                                               *)
RunQueuedStart ==
  /\ app.startQueued
  /\ app' = IF app.process = "dead" /\ app.launch = "job"
            THEN [ a0 EXCEPT !.startQueued = FALSE, !.process = "launching",
                             !.notices = Append(@, "Starting") ]
            ELSE [ a0 EXCEPT !.startQueued = FALSE ]
  /\ UNCHANGED deleted

(* The destructor of a session whose deletion was posted. *)
SessionDeleted(s) ==
  /\ ~deleted
  /\ app.session[s].zombie
  /\ app' = RemoveSession(a0, s)
  /\ UNCHANGED deleted

(* The destructor of the application takes its sessions with it. *)
ApplicationDeleted ==
  /\ ~deleted
  /\ app.deleteLater
  /\ deleted' = TRUE
  /\ app' = [ a0 EXCEPT !.session = [ s \in Sessions |-> NoSession ],
                        !.stopTimer = FALSE, !.listed = "none" ]

-----------------------------------------------------------------------------
(* Mir: sessions and surfaces *)

(* A client connects: authorizeSession() let its pid in while the app was   *)
(* in m_applications, and onSessionStarting() looks the app up again.       *)
SessionStarting(s) ==
  /\ ~deleted
  /\ app.listed = "applications"
  /\ app.process = "alive"
  /\ ~app.session[s].attached
  /\ Cardinality({ t \in Sessions : Live(t) }) < MaxClients
  /\ app' = AddSession(a0, s)
  /\ UNCHANGED deleted

(* TaskController::onSessionStopping(): the client disconnected or died. *)
SessionStopping(s) ==
  /\ ~deleted
  /\ Live(s)
  /\ app.process \in { "alive", "dead" }
  /\ app' = SessionDies(a0, s)
  /\ UNCHANGED deleted

SurfaceReady(s, f) ==
  /\ ~deleted
  /\ Live(s)
  /\ app.process = "alive"
  /\ f \notin app.session[s].list \cup app.session[s].closing
  /\ app' = PrependSurface(a0, s, f)
  /\ UNCHANGED deleted

(* MirSurface::close(), by the shell. *)
SurfaceClose(s, f) ==
  /\ ~deleted
  /\ app.session[s].attached
  /\ f \in app.session[s].list
  /\ app' = CloseSurface(a0, s, f)
  /\ UNCHANGED deleted

(* MirSurface::onCloseTimedOut(), 3 s after close(): an application that is *)
(* not closing as a whole is terminated.                                    *)
SurfaceCloseOverdue(s, f) ==
  /\ ~deleted
  /\ Live(s)
  /\ f \in app.session[s].closing
  /\ ~app.closing
  /\ app' = TaskStop(a0)
  /\ UNCHANGED deleted

(* A surface goes: its client destroyed it, or died and nothing displays it *)
(* any more.                                                                *)
SurfaceDestroyed(s, f) ==
  /\ ~deleted
  /\ app.session[s].attached
  /\ f \in app.session[s].list \cup app.session[s].closing
  /\ app.process = "alive" \/ app.process = "dead" \/ ~app.session[s].live
  /\ app' = RemoveSurface(a0, s, f)
  /\ UNCHANGED deleted

-----------------------------------------------------------------------------
(* The process and ubuntu-app-launch *)

(* The process ends: killed or crashed (reported as a failure, then as      *)
(* stopped), or by its own exit or our SIGTERM (reported as stopped).       *)
ProcessEnds(how) ==
  /\ app.process # "dead"
  /\ how = "exit" => app.process = "alive"
  /\ how = "terminated" => app.stopAsked
  /\ app' = [ a0 EXCEPT
                !.process = "dead",
                !.stopAsked = FALSE,
                !.notices = IF app.launch # "job" THEN @
                            ELSE IF how = "killed" THEN @ \o << "Failed", "Stopped" >>
                            ELSE Append(@, "Stopped") ]
  /\ UNCHANGED deleted

(* ApplicationManager::onProcessStarting(), -Suspended(), -Failed() and     *)
(* -Stopped() for this application: all look in m_applications, only the    *)
(* last also among the closing ones.                                        *)
Heed(a, n) ==
  CASE n = "Starting" /\ a.listed = "applications" ->
         SetProcessState(a, "Running", Update)
    [] n \in { "Suspended", "Failed" } /\ a.listed = "applications" ->
         SetProcessState(a, n, Update)
    [] n = "Stopped" /\ a.listed # "none" /\ a.processState # "Failed" ->
         SetProcessState(a, "Stopped", Update)
    [] OTHER -> a

Noticed ==
  /\ app.notices # << >>
  /\ LET n == Head(app.notices)
         b == [ a0 EXCEPT
                  !.notices = Tail(@),
                  !.process = IF n = "Starting" /\ @ = "launching"
                              THEN "alive" ELSE @ ]
     IN /\ SessionsStopFirst /\ n \in { "Failed", "Stopped" }
             => \A s \in Sessions : ~Live(s)
        /\ app' = IF deleted THEN b ELSE Heed(b, n)
  /\ UNCHANGED deleted

-----------------------------------------------------------------------------
Next ==
  \/ \E v \in RequestedState : SetRequestedState(v)
  \/ \E v \in BOOLEAN : SetExemptFromLifecycle(v)
  \/ StopApplication
  \/ StopTimeout
  \/ \E s \in Sessions : SuspendTimeout(s)
  \/ RunQueuedStart
  \/ \E s \in Sessions : SessionDeleted(s)
  \/ ApplicationDeleted
  \/ \E s \in Sessions : SessionStarting(s) \/ SessionStopping(s)
  \/ \E s \in Sessions, f \in Surfaces :
       SurfaceReady(s, f) \/ SurfaceClose(s, f)
       \/ SurfaceCloseOverdue(s, f) \/ SurfaceDestroyed(s, f)
  \/ \E how \in { "killed", "exit", "terminated" } : ProcessEnds(how)
  \/ Noticed

Spec == Init /\ [][Next]_vars

(* Qt timers fire, posted events are delivered, Mir and ubuntu-app-launch   *)
(* report what happened, a process dies of a SIGTERM or of the SIGKILL that *)
(* follows. Nothing is assumed of the shell, of what a client does, or of   *)
(* how long a dead surface stays on screen. All of it is weak fairness; for *)
(* the actions that run updateState() the guard is written out in place of  *)
(* ENABLED, which TLC would evaluate by running updateState() again.        *)
Fairness ==
  /\ WF_vars(ApplicationDeleted)
  /\ WF_vars(ProcessEnds("terminated"))
  /\ <>[](~deleted /\ app.stopTimer /\ app.state = "Closing")
       => []<><< StopTimeout >>_vars
  /\ \A s \in Sessions :
       <>[](~deleted /\ app.session[s].state = "Suspending")
         => []<><< SuspendTimeout(s) >>_vars
  /\ \A s \in Sessions :
       <>[](~deleted /\ Live(s) /\ app.process = "dead")
         => []<><< SessionStopping(s) >>_vars
  /\ <>[](/\ app.notices # << >>
          /\ SessionsStopFirst => \A s \in Sessions : ~Live(s)
                                     \/ Head(app.notices) \notin { "Failed", "Stopped" })
       => []<><< Noticed >>_vars

FairSpec == Spec /\ Fairness

-----------------------------------------------------------------------------
(* Type correctness *)

(* Every field keeps its type.                                              *)
TypeOK ==
  /\ deleted \in BOOLEAN
  /\ app \in AppRecord

-----------------------------------------------------------------------------
(* Safety *)

(* The wakelock keeps the device awake as long as the app has something to  *)
(* finish: while it starts, runs or closes, and until both its session and  *)
(* its process have confirmed that they are suspended; and no longer.       *)
WakelockUntilSuspended ==
  app.wakelock <=>
    /\ ~Dash
    /\ app.state \in { "Starting", "Running", "SuspendingWaitSession",
                       "SuspendingWaitProcess", "Closing" }

(* A process is SIGSTOPped only while its application is on its way to      *)
(* Suspended, there, or gone: every path back to work (setRequestedState(), *)
(* a close request, a new surface) has woken it first.                      *)
NeverFrozenAtWork ==
  app.process = "frozen" =>
    app.state \in { "SuspendingWaitProcess", "Suspended", "Stopped" }

(* The process is stopped only after its clients had the time that          *)
(* m_suspendTimer gives them to react to will_suspend.                      *)
FrozenAfterSessions ==
  app.process = "frozen" =>
    \A s \in Sessions : Live(s) => app.session[s].state = "Suspended"

(* When all handlers have returned, an application that is not closing and  *)
(* has not lost its surfaces is where the shell wants it, or waits for      *)
(* something that will take it there. No path may end without the           *)
(* updateState() this needs.                                                *)
RequestHeeded ==
  ~deleted /\ ~app.closing /\ ~LostAllSurfaces(app) =>
    /\ app.requested = "Running" =>
         app.state \notin { "RunningInBackground", "SuspendingWaitSession",
                            "Suspended", "StoppedResumable" }
    /\ app.requested = "Suspended" /\ app.state = "Running" =>
         \/ app.processState # "Running"
         \/ \E s \in Sessions : IsSingle(app, s) /\ HasClosingSurfaces(app, s)

(* The stop timer never runs against an application that still shows a      *)
(* surface and is not being closed.                                         *)
StopTimerSparesSurfaces ==
  app.stopTimer /\ ~app.closing =>
    \A s \in Sessions : Live(s) => ListEmpty(app, s)

(* The assertions that hold of every application when Mir reports the end   *)
(* of the sessions before ubuntu-app-launch reports that of the process:    *)
(* application.cpp:334, 369, 407, 606, 611, 617, 645 and 646; and           *)
(* updateState() calls itself no deeper than Application unrolls it.        *)
SureAssertionsHold ==
  app.failed \cap { "closing not meant", "running while closing",
                    "suspended while closing", "suspend when not running",
                    "suspend without sessions", "suspended not awaited",
                    "failed before its sessions", "failed in that state",
                    "nested too deep" } = {}

(* Under the same condition, with those of l.396, 623 and 633 of an         *)
(* application that ubuntu-app-launch knows (of another one, stop() takes   *)
(* the process for stopped while its sessions still run), and that of l.780 *)
(* with one client at a time (the first of two can be suspended already     *)
(* when another one ends or is). Two are not among them: l.314, which       *)
(* NeverClosingWhileStarting is about, and l.335, which fails of a client   *)
(* that outlasts the stop timer.                                            *)
AssertionsHold ==
  /\ SureAssertionsHold
  /\ app.launch # "unknown" =>
       app.failed \cap { "suspend without process", "stopped before its sessions",
                         "stopped in that state" } = {}
  /\ MaxClients <= 1 => "session not awaited" \notin app.failed

(* A session whose client is gone is deleted once its last surface is, and  *)
(* never before.                                                            *)
DeadSessionsCollected ==
  \A s \in Sessions : app.session[s].attached =>
    (app.session[s].zombie <=> ~app.session[s].live /\ ListEmpty(app, s))

-----------------------------------------------------------------------------
(* What assertions of the source say and the code does not keep *)

(* "can't be", says applyClosing() of being called in state Starting. It is *)
(* when the dead surface of a StoppedResumable application is closed: the   *)
(* first signal of the closing respawns the application, the second closes  *)
(* what has just become Starting.                                           *)
NeverClosingWhileStarting == "closing while starting" \notin app.failed

-----------------------------------------------------------------------------
(* Action properties *)

(* Once an application is to be closed it stays so: no later request, late  *)
(* notice or new surface can have it respawned or kept as resumable.        *)
ClosingIsFinal ==
  [][ app.closing => /\ app'.closing
                     /\ app'.startQueued => app.startQueued
                     /\ app'.state # "StoppedResumable" ]_vars

(* Stopped is a dead end: whatever comes late, the object only waits for    *)
(* its deletion, in no list a lookup for a running app would search.        *)
StoppedIsDeadEnd ==
  [][ app.state = "Stopped" => /\ app'.state = "Stopped"
                               /\ app'.deleteLater
                               /\ app'.listed # "applications" ]_vars

-----------------------------------------------------------------------------
(* Refinement *)

Phase ==
  IF deleted THEN "Deleted"
  ELSE CASE app.state = "Stopped" -> "Gone"
         [] app.state = "StoppedResumable" -> "Resumable"
         [] OTHER -> PublicState(app)

Promise == INSTANCE PublicLifecycle WITH phase <- Phase, doomed <- app.closing

(* What happens inside is, to the shell, the lifecycle of PublicLifecycle.  *)
KeepsPromise == Promise!Spec

-----------------------------------------------------------------------------
(* Liveness *)

(* A suspension that began ends, in one way or another, so the device does  *)
(* not stay awake on its account.                                           *)
SuspensionEnds ==
  app.state \in { "SuspendingWaitSession", "SuspendingWaitProcess" } ~>
    app.state \notin { "SuspendingWaitSession", "SuspendingWaitProcess" }

(* An application that is closing goes away even if its client ignores the  *)
(* request: the stop timer sees to it.                                      *)
ClosingEnds ==
  app.state = "Closing" /\ app.launch # "byHand" ~> deleted

=============================================================================

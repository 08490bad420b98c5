---------------------------- MODULE Application ----------------------------
(***************************************************************************)
(* The handlers of qtmir::Application and of the qtmir::Session objects it *)
(* owns (src/modules/Unity/Application/application.cpp, session.cpp), as   *)
(* functions from the state of one application to its state afterwards.    *)
(*                                                                         *)
(* All of this code runs to completion in the Qt main thread: a setter     *)
(* emits a signal, the slots connected to it run before the setter goes    *)
(* on, and every one of them may call Application::updateState() again.    *)
(* Each operator below is one C++ function and performs all of that.       *)
(* updateState() is the knot of the recursion: the operators that reach it *)
(* take it as their argument update, a function from states to states, and *)
(* Update ties the knot by unrolling it four times. A call nested deeper   *)
(* would be recorded in the field failed, as "nested too deep".            *)
(*                                                                         *)
(* A failed Q_ASSERT is recorded in the field failed and execution goes    *)
(* on, as it does in a release build.                                      *)
(***************************************************************************)
EXTENDS Naturals, Sequences, FiniteSets

CONSTANTS
  Sessions,   (* the Session objects that can belong to the application     *)
  Surfaces,   (* the toplevel surfaces one session can have at a time       *)
  Dash        (* TRUE for the app "unity8-dash", which takes no wakelock    *)

ASSUME DashAssumption == Dash \in BOOLEAN

InternalState ==
  { "Starting", "Running", "RunningInBackground", "SuspendingWaitSession",
    "SuspendingWaitProcess", "Suspended", "Closing", "StoppedResumable",
    "Stopped" }
RequestedState == { "Running", "Suspended" }
ProcessState == { "Unknown", "Running", "Suspended", "Failed", "Stopped" }
SessionState == { "Running", "Starting", "Suspending", "Suspended", "Stopped" }

(* What ubuntu-app-launch tells about the process, in the order told.      *)
Notice == { "Starting", "Suspended", "Failed", "Stopped" }

(* The assertions of application.cpp that are not true of every state by     *)
(* what its callers just did, and that of this model.                       *)
Assertion ==
  { "suspended not awaited", "failed before its sessions",
    "failed in that state", "stopped before its sessions",
    "stopped in that state", "suspend when not running",
    "suspend without sessions", "suspend without process",
    "closing while starting", "closing not meant", "closing without its timer",
    "running while closing", "suspended while closing", "session not awaited",
    "nested too deep" }

(* One Session: whether it is in Application::m_sessions, its m_state and   *)
(* m_live, m_surfaceList, m_closingSurfaces, m_hadSurface, and whether      *)
(* deleteLater() was called on it.                                          *)
SessionRecord ==
  [ attached : BOOLEAN, state : SessionState, live : BOOLEAN,
    list : SUBSET Surfaces, closing : SUBSET Surfaces,
    hadSurface : BOOLEAN, zombie : BOOLEAN ]

(* One Application and what it reaches: stopTimer says if m_stopTimer runs, *)
(* wakelock if the app is an owner of the SharedWakelock, listed which list *)
(* of ApplicationManager holds it, deleteLater if its deletion is posted,   *)
(* startQueued if the queued slot of startProcessRequested is pending.      *)
(* process is the real process, stopAsked that it was sent a SIGTERM,       *)
(* notices what is still to be told of it, launch how it came about: as a   *)
(* "job" of ubuntu-app-launch, "byHand" (found by its desktop_file_hint:    *)
(* ubuntu-app-launch knows the app but has no instance of it), or as an app *)
(* "unknown" to ubuntu-app-launch by now.                                   *)
AppRecord ==
  [ state : InternalState, requested : RequestedState,
    processState : ProcessState, closing : BOOLEAN, stopTimer : BOOLEAN,
    exempt : BOOLEAN, wakelock : BOOLEAN,
    listed : { "applications", "closing", "none" }, deleteLater : BOOLEAN,
    startQueued : BOOLEAN, session : [ Sessions -> SessionRecord ],
    process : { "launching", "alive", "frozen", "dead" },
    launch : { "job", "byHand", "unknown" },
    stopAsked : BOOLEAN, notices : Seq(Notice),
    failed : SUBSET Assertion ]

NoSession ==
  [ attached |-> FALSE, state |-> "Stopped", live |-> FALSE, list |-> {},
    closing |-> {}, hadSurface |-> FALSE, zombie |-> FALSE ]

NewSession ==
  [ attached |-> TRUE, state |-> "Starting", live |-> TRUE, list |-> {},
    closing |-> {}, hadSurface |-> FALSE, zombie |-> FALSE ]

-----------------------------------------------------------------------------
(* State functions *)

QAssert(a, holds, name) ==
  IF holds THEN a ELSE [ a EXCEPT !.failed = @ \cup { name } ]

Attached(a) == { s \in Sessions : a.session[s].attached }

(* The local singleSession of updateState(). *)
IsSingle(a, s) == Attached(a) = { s }

ListEmpty(a, s) == a.session[s].list = {}
HasClosingSurfaces(a, s) == a.session[s].closing # {}

(* The public state() that the shell sees. *)
PublicState(a) ==
  CASE a.state = "Starting" -> "Starting"
    [] a.state \in { "Running", "RunningInBackground", "Closing" } -> "Running"
    [] a.state \in { "SuspendingWaitSession", "SuspendingWaitProcess",
                     "Suspended" } -> "Suspended"
    [] OTHER -> "Stopped"

Liveliness ==
  [ Running |-> 4, Starting |-> 3, Suspending |-> 2, Suspended |-> 1,
    Stopped |-> 0 ]

(* combinedSessionState(): the liveliest state of any session. *)
CombinedIs(a, st) ==
  /\ \E s \in Attached(a) : a.session[s].state = st
  /\ \A s \in Attached(a) : Liveliness[a.session[s].state] <= Liveliness[st]

(* What the assertions of setProcessState() say of the sessions. *)
SessionsStopped(a) == \A s \in Attached(a) : a.session[s].state = "Stopped"

-----------------------------------------------------------------------------
(* TaskController, as upstart/taskcontroller.cpp drives ubuntu-app-launch. *)

(* instance->pause(): SIGSTOP, and the paused observer is told later. *)
TaskSuspend(a) ==
  IF a.launch = "job" /\ a.process = "alive"
  THEN [ a EXCEPT !.process = "frozen", !.notices = Append(@, "Suspended") ]
  ELSE a

(* A fault: the process is never woken. *)
TaskResumeLost(a) == a

(* instance->resume(): SIGCONT. *)
TaskResume(a) ==
  IF a.process = "frozen" THEN [ a EXCEPT !.process = "alive" ] ELSE a

(* A fault: the request to stop reaches no process. *)
TaskStopLost(a) == a

(* instance->stop(), or Application::terminate(): a SIGTERM, and a SIGKILL  *)
(* to a process that does not heed it.                                      *)
TaskStop(a) ==
  [ a EXCEPT !.stopAsked = @ \/ a.process # "dead" ]

-----------------------------------------------------------------------------
(* Application: state changes *)

(* A fault: the wakelock is let go as soon as a suspension begins. *)
WakelockAtWork(st, held) == ~Dash /\ st \in { "Starting", "Running", "Closing" }

(* Whether the wakelock is held once in state st: the two transitory states *)
(* leave it as it is.                                                       *)
WakelockIn(st, held) ==
  CASE st \in { "Starting", "Running", "Closing" } -> ~Dash
    [] st \in { "RunningInBackground", "Suspended", "StoppedResumable",
                "Stopped" } -> FALSE
    [] OTHER -> held

(* A fault: an application that stops is not removed. *)
ListedTooLong(st, list) ==
  IF st = "Closing" /\ list = "applications" THEN "closing" ELSE list

(* What the slots of closing() and stopped() make of m_applications and     *)
(* m_closingApplications; both are disconnected by remove().                *)
ListedIn(st, list) ==
  CASE st = "Closing" /\ list = "applications" -> "closing"
    [] st = "Stopped" /\ list = "applications" -> "none"
    [] OTHER -> list

(* setInternalState() up to its call of updateState(). *)
Enter(a, st) ==
  [ a EXCEPT !.state = st,
             !.wakelock = WakelockIn(st, @),
             !.listed = ListedIn(st, @),
             !.deleteLater = @ \/ st = "Stopped" ]

SetInternalState(a, st, update) ==
  IF a.state = st THEN a ELSE update[Enter(a, st)]

(* setProcessState(). *)
ProcessSwitch(a, p, update) ==
  CASE p = "Running" ->
         IF a.state = "StoppedResumable"
         THEN SetInternalState(a, "Starting", update)
         ELSE a
    [] p = "Suspended" ->
         SetInternalState(
           QAssert(a, a.state = "SuspendingWaitProcess", "suspended not awaited"),
           "Suspended", update)
    [] p = "Failed" ->
         LET b == QAssert(a, SessionsStopped(a), "failed before its sessions")
         IN IF b.state = "Starting"
            THEN SetInternalState(b, "Stopped", update)
            ELSE QAssert(b, b.state \in { "Stopped", "StoppedResumable" },
                        "failed in that state")
    [] p = "Stopped" ->
         LET b == QAssert(a, SessionsStopped(a), "stopped before its sessions")
         IN IF b.state \in { "Starting", "StoppedResumable", "Closing" }
            THEN SetInternalState(b, "Stopped", update)
            ELSE QAssert(b, b.state = "Stopped", "stopped in that state")

SetProcessState(a, p, update) ==
  IF a.processState = p
  THEN a
  ELSE update[ProcessSwitch([ a EXCEPT !.processState = p ], p, update)]

(* A fault: a session with nothing to show is not asked to suspend. *)
SuspendShownSessions(a) ==
  [ a EXCEPT !.session = [ s \in Sessions |->
      IF @[s].attached /\ @[s].state = "Running" /\ @[s].list # {}
      THEN [ @[s] EXCEPT !.state = "Suspending" ]
      ELSE @[s] ] ]

(* Session::suspend() on every session. Only a Running session reacts. The  *)
(* application is SuspendingWaitSession, in which onSessionStateChanged()   *)
(* ignores every combined state that this can produce.                      *)
SuspendSessions(a) ==
  [ a EXCEPT !.session = [ s \in Sessions |->
      IF @[s].attached /\ @[s].state = "Running"
      THEN [ @[s] EXCEPT !.state = "Suspending" ]
      ELSE @[s] ] ]

(* Session::resume() on every session. The combined state becomes Running,  *)
(* of which onSessionStateChanged() takes no notice unless Starting.        *)
ResumeSessions(a) ==
  [ a EXCEPT !.session = [ s \in Sessions |->
      IF @[s].attached /\ @[s].state \in { "Suspending", "Suspended" }
      THEN [ @[s] EXCEPT !.state = "Running" ]
      ELSE @[s] ] ]

Suspend(a, update) ==
  LET b == QAssert(QAssert(a, a.state = "Running", "suspend when not running"),
                  Attached(a) # {}, "suspend without sessions")
  IN IF b.exempt
     THEN SetInternalState(b, "RunningInBackground", update)
     ELSE SuspendSessions(SetInternalState(b, "SuspendingWaitSession", update))

Resume(a, update) ==
  CASE a.state \in { "Suspended", "SuspendingWaitProcess" } ->
         LET b == SetInternalState(TaskResume(a), "Running", update)
             c == IF b.processState = "Suspended"
                  THEN SetProcessState(b, "Running", update)
                  ELSE b
         IN ResumeSessions(c)
    [] a.state = "SuspendingWaitSession" ->
         ResumeSessions(SetInternalState(a, "Running", update))
    [] a.state = "RunningInBackground" ->
         SetInternalState(a, "Running", update)
    [] OTHER -> a

(* respawn(): startProcessRequested is connected with a queued connection. *)
Respawn(a, update) ==
  [ SetInternalState(a, "Starting", update) EXCEPT !.startQueued = TRUE ]

-----------------------------------------------------------------------------
(* Application::updateState() and the three functions it dispatches to *)

ApplyClosing(a, update) ==
  CASE a.state = "Starting" ->
         QAssert(a, FALSE, "closing while starting")
    [] a.state \in { "Running", "RunningInBackground" } ->
         LET b == [ a EXCEPT !.stopTimer = TRUE ]
         IN IF b.closing THEN SetInternalState(b, "Closing", update) ELSE b
    [] a.state \in { "SuspendingWaitSession", "Suspended" } ->
         Resume(a, update)
    [] a.state = "Closing" ->
         QAssert(QAssert(a, a.closing, "closing not meant"),
                a.stopTimer, "closing without its timer")
    [] a.state = "StoppedResumable" ->
         SetInternalState(a, "Stopped", update)
    [] OTHER -> a

ApplyRequestedRunning(a, update) ==
  LET b == [ a EXCEPT !.stopTimer = FALSE ]
  IN CASE b.state \in { "RunningInBackground", "SuspendingWaitSession",
                        "Suspended" } ->
            Resume(b, update)
       [] b.state = "Closing" ->
            QAssert(b, FALSE, "running while closing")
       [] b.state = "StoppedResumable" ->
            Respawn(b, update)
       [] OTHER -> b

ApplyRequestedSuspended(a, update) ==
  LET b == [ a EXCEPT !.stopTimer = FALSE ]
  IN CASE b.state = "Running" ->
            IF b.processState = "Running"
            THEN Suspend(b, update)
            ELSE QAssert(b, b.processState = "Unknown", "suspend without process")
       [] b.state = "Closing" ->
            QAssert(b, FALSE, "suspended while closing")
       [] OTHER -> b

(* A fault: the intent to close is not stored. *)
IsClosingNow(a) ==
  \/ Attached(a) = {} /\ a.state \notin { "Starting", "StoppedResumable" }
  \/ \E s \in Sessions : /\ IsSingle(a, s)
                         /\ ListEmpty(a, s)
                         /\ HasClosingSurfaces(a, s)

(* The application is being closed: it ran out of sessions, or its only     *)
(* session has closed its last surface.                                     *)
IsClosing(a) ==
  \/ a.closing
  \/ Attached(a) = {} /\ a.state \notin { "Starting", "StoppedResumable" }
  \/ \E s \in Sessions : /\ IsSingle(a, s)
                         /\ ListEmpty(a, s)
                         /\ HasClosingSurfaces(a, s)

(* A fault: having had a surface once is taken for having lost them all. *)
LostAnySurface(a) ==
  \E s \in Sessions : /\ IsSingle(a, s)
                      /\ a.session[s].hadSurface
                      /\ ~HasClosingSurfaces(a, s)

(* The only session lost its surfaces without being asked to. *)
LostAllSurfaces(a) ==
  \E s \in Sessions : /\ IsSingle(a, s)
                      /\ ListEmpty(a, s)
                      /\ a.session[s].hadSurface
                      /\ ~HasClosingSurfaces(a, s)

WantsRunning(a) ==
  \/ a.requested = "Running"
  \/ \E s \in Sessions : IsSingle(a, s) /\ HasClosingSurfaces(a, s)

UpdateOnce(a, update) ==
  LET b == [ a EXCEPT !.closing = IsClosing(a) ]
  IN IF b.closing \/ (LostAllSurfaces(a) /\ a.state # "StoppedResumable")
     THEN ApplyClosing(b, update)
     ELSE IF WantsRunning(a)
          THEN ApplyRequestedRunning(b, update)
          ELSE ApplyRequestedSuspended(b, update)

(* The deepest nesting of updateState() within itself is                    *)
(* Suspended -> Running -> Closing: three calls inside the first.           *)
Update0 == [ a \in AppRecord |-> QAssert(a, FALSE, "nested too deep") ]
Update1 == [ a \in AppRecord |-> UpdateOnce(a, Update0) ]
Update2 == [ a \in AppRecord |-> UpdateOnce(a, Update1) ]
Update3 == [ a \in AppRecord |-> UpdateOnce(a, Update2) ]
Update == [ a \in AppRecord |-> UpdateOnce(a, Update3) ]

UpdateState(a) == Update[a]

-----------------------------------------------------------------------------
(* Application: the rest of its slots and methods *)

(* stop(). The slot of stopProcessRequested asks the task controller to     *)
(* stop every instance of the app; when that fails it terminates the        *)
(* process itself and takes it for stopped.                                 *)
Stop(a) ==
  CASE a.launch = "job"     -> TaskStop(a)
    [] a.launch = "byHand"  -> a
    [] a.launch = "unknown" -> SetProcessState(TaskStop(a), "Stopped", Update)

(* A fault: whoever did not ask for it to stop wants it back, even if it    *)
(* crashed on startup.                                                      *)
OnSessionStoppedKeeping(a) ==
  IF a.state \in { "Closing", "StoppedResumable", "Stopped" }
  THEN SetInternalState(a, "Stopped", Update)
  ELSE SetInternalState(a, "StoppedResumable", Update)

OnSessionStopped(a) ==
  CASE a.state \in { "Starting", "Running", "Closing" } ->
         SetInternalState(a, "Stopped", Update)
    [] a.state = "RunningInBackground" ->
         SetInternalState(a, IF a.processState = "Failed"
                             THEN "StoppedResumable" ELSE "Stopped",
                          Update)
    [] a.state \in { "SuspendingWaitSession", "SuspendingWaitProcess" } ->
         IF a.processState = "Failed"
         THEN SetInternalState(a, "StoppedResumable", Update)
         ELSE SetInternalState(Stop(a), "Stopped", Update)
    [] a.state = "Suspended" ->
         SetInternalState(a, IF a.processState # "Unknown"
                             THEN "StoppedResumable" ELSE "Stopped",
                          Update)
    [] OTHER -> a

(* A fault: the first session to be suspended speaks for all. *)
OnFirstSessionChanged(a) ==
  CASE CombinedIs(a, "Stopped") -> OnSessionStopped(a)
    [] \E s \in Attached(a) : a.session[s].state = "Suspended" ->
         TaskSuspend(SetInternalState(a, "SuspendingWaitProcess", Update))
    [] CombinedIs(a, "Running") /\ a.state = "Starting" ->
         SetInternalState(a, "Running", Update)
    [] OTHER -> a

OnSessionStateChanged(a) ==
  CASE CombinedIs(a, "Running") ->
         IF a.state = "Starting"
         THEN SetInternalState(a, "Running", Update)
         ELSE a
    [] CombinedIs(a, "Suspended") ->
         TaskSuspend(
           SetInternalState(
             QAssert(a, a.state = "SuspendingWaitSession", "session not awaited"),
             "SuspendingWaitProcess", Update))
    [] CombinedIs(a, "Stopped") -> OnSessionStopped(a)
    [] OTHER -> a

(* Session::setState(), with its stateChanged() signal. *)
SetSessionState(a, s, st) ==
  IF a.session[s].state = st
  THEN a
  ELSE OnSessionStateChanged([ a EXCEPT !.session[s].state = st ])

(* Session::deleteIfZombieAndEmpty() *)
DeleteIfZombieAndEmpty(a, s) ==
  [ a EXCEPT !.session[s].zombie =
      @ \/ (~a.session[s].live /\ ListEmpty(a, s)) ]

(* Every listed surface of the sessions S is closed, one after the other:   *)
(* it joins m_closingSurfaces, the first of them signals                    *)
(* hasClosingSurfacesChanged, then it leaves the list, and the last one     *)
(* signals emptyChanged. updateState() sees of a session only whether these *)
(* are empty, so the closing of the ones in between changes nothing.        *)
CloseListed(a, S) ==
  LET hasList == { s \in S : a.session[s].list # {} }
      marked  == [ a EXCEPT !.session = [ s \in Sessions |->
                     IF s \in hasList
                     THEN [ a.session[s] EXCEPT
                              !.closing = @ \cup a.session[s].list ]
                     ELSE a.session[s] ] ]
      heeded  == IF \E s \in hasList : ~HasClosingSurfaces(a, s)
                 THEN UpdateState(marked)
                 ELSE marked
      cleared == [ heeded EXCEPT !.session = [ s \in Sessions |->
                     IF s \in hasList THEN [ @[s] EXCEPT !.list = {} ]
                                      ELSE @[s] ] ]
  IN IF hasList = {} THEN a ELSE UpdateState(cleared)

Close(a) ==
  CASE a.state = "Starting" ->
         SetInternalState(Stop(a), "Stopped", Update)
    [] a.state \in { "Running", "RunningInBackground", "SuspendingWaitSession",
                     "SuspendingWaitProcess", "Suspended" } ->
         CloseListed(a, { s \in Attached(a) : a.session[s].state # "Stopped" })
    [] a.state = "StoppedResumable" ->
         SetInternalState(a, "Stopped", Update)
    [] OTHER -> a

(* addSession(): the new session is Starting, so resume() and suspend() do  *)
(* nothing to it; the signals are connected after that.                     *)
AddSession(a, s) ==
  [ a EXCEPT !.session[s] =
      IF a.state \in { "Stopped", "StoppedResumable" }
      THEN [ NewSession EXCEPT !.state = "Stopped" ]
      ELSE NewSession ]

RemoveSession(a, s) == [ a EXCEPT !.session[s] = NoSession ]

-----------------------------------------------------------------------------
(* Session: surfaces *)

(* prependSurface(), for a surface that has drawn its first frame. *)
PrependSurface(a, s, f) ==
  LET b == [ a EXCEPT !.session[s].list = @ \cup { f } ]
      c == IF ListEmpty(a, s) THEN UpdateState(b) ELSE b
      d == [ c EXCEPT !.session[s].hadSurface = TRUE ]
  IN IF d.session[s].state = "Starting"
     THEN SetSessionState(d, s, "Running")
     ELSE d

(* The slot of closeRequested. *)
CloseSurface(a, s, f) ==
  LET b == [ a EXCEPT !.session[s].closing = @ \cup { f } ]
      c == IF HasClosingSurfaces(a, s) THEN b ELSE UpdateState(b)
      d == [ c EXCEPT !.session[s].list = @ \ { f } ]
  IN IF ListEmpty(d, s)
     THEN UpdateState(DeleteIfZombieAndEmpty(d, s))
     ELSE d

(* A fault: no one looks if the session outlived its client. *)
RemoveSurfaceOnly(a, s, f) ==
  LET b == [ a EXCEPT !.session[s].list = @ \ { f } ]
      c == IF ListEmpty(b, s) /\ ~ListEmpty(a, s) THEN UpdateState(b) ELSE b
      d == [ c EXCEPT !.session[s].closing = @ \ { f } ]
  IN IF HasClosingSurfaces(c, s) /\ ~HasClosingSurfaces(d, s)
     THEN UpdateState(d)
     ELSE d

(* removeSurface(), when the surface is destroyed. *)
RemoveSurface(a, s, f) ==
  LET b == [ a EXCEPT !.session[s].list = @ \ { f } ]
      c == IF ListEmpty(b, s) /\ ~ListEmpty(a, s)
           THEN UpdateState(DeleteIfZombieAndEmpty(b, s))
           ELSE b
      d == [ c EXCEPT !.session[s].closing = @ \ { f } ]
  IN IF HasClosingSurfaces(c, s) /\ ~HasClosingSurfaces(d, s)
     THEN UpdateState(d)
     ELSE d

(* setLive(false), when Mir reports that the session ended. *)
SessionDies(a, s) ==
  LET b == SetSessionState([ a EXCEPT !.session[s].live = FALSE ], s, "Stopped")
  IN DeleteIfZombieAndEmpty(b, s)

=============================================================================

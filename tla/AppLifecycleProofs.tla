------------------------- MODULE AppLifecycleProofs -------------------------
(***************************************************************************)
(* Theorems about AppLifecycle, for any sets of sessions and surfaces, any *)
(* number of clients and any order of the reports.                         *)
(***************************************************************************)
EXTENDS AppLifecycle, FiniteSetTheorems, TLAPS

FrozenStates == { "SuspendingWaitProcess", "Suspended", "Stopped" }

(* The states the wakelock is taken in, and those it may be held in.        *)
AtWork == { "Starting", "Running", "Closing" }
Busy == AtWork \cup { "SuspendingWaitSession", "SuspendingWaitProcess" }

(* What can be said of the wakelock in a state, whatever led to it.         *)
Fitting(held, st) == (held => ~ Dash /\ st \in Busy) /\ (~ Dash /\ st \in AtWork => held)

(* A session is in state Stopped before and after its time.                 *)
SaneSession == { r \in SessionRecord : r.attached \/ r.state = "Stopped" }

(* The states of an application between two handlers: well typed, its       *)
(* process frozen and the wakelock held only where they may be, and held    *)
(* wherever there is work.                                                  *)
Sane ==
  { a \in AppRecord : /\ a.process = "frozen" => a.state \in FrozenStates
                      /\ Fitting(a.wakelock, a.state)
                      /\ a.session \in [ Sessions -> SaneSession ] }

-----------------------------------------------------------------------------
(* What the building blocks of the handlers preserve. *)

(* Recording a failed assertion changes nothing else. *)
LEMMA FailedSane ==
  ASSUME NEW a \in Sane, NEW name \in Assertion
  PROVE  /\ [ a EXCEPT !.failed = @ \cup { name } ] \in Sane
         /\ [ a EXCEPT !.failed = @ \cup { name } ].state = a.state
         /\ [ a EXCEPT !.failed = @ \cup { name } ].process = a.process
BY DEF Sane, AppRecord

(* Entering a state with a process that is not frozen is always safe. *)
LEMMA EnterSane ==
  ASSUME NEW a \in Sane, NEW st \in InternalState,
         a.process = "frozen" => st \in FrozenStates
  PROVE  /\ Enter(a, st) \in Sane
         /\ Enter(a, st).state = st
<1>0. /\ a \in AppRecord /\ a.session \in [ Sessions -> SaneSession ]
      /\ a.wakelock \in BOOLEAN /\ Fitting(a.wakelock, a.state)
  BY DEF Sane, AppRecord
<1>1. /\ WakelockIn(st, a.wakelock) \in BOOLEAN
      /\ Fitting(WakelockIn(st, a.wakelock), st)
  BY <1>0, DashAssumption DEF Fitting, WakelockIn, InternalState, Busy, AtWork
<1>2. ListedIn(st, a.listed) \in { "applications", "closing", "none" }
  BY <1>0 DEF ListedIn, AppRecord
<1>3. (a.deleteLater \/ st = "Stopped") \in BOOLEAN
  OBVIOUS
<1>4. Enter(a, st) \in AppRecord
  BY <1>0, <1>1, <1>2, <1>3 DEF Enter, AppRecord
<1>5. /\ Enter(a, st).state = st
      /\ Enter(a, st).process = a.process
      /\ Enter(a, st).session = a.session
      /\ Enter(a, st).wakelock = WakelockIn(st, a.wakelock)
  BY <1>0 DEF Enter, AppRecord
<1> QED
  BY <1>0, <1>1, <1>4, <1>5 DEF Sane

(* Flags and timers are beside the point. *)
LEMMA FlagsSane ==
  ASSUME NEW a \in Sane, NEW b \in BOOLEAN
  PROVE  /\ [ a EXCEPT !.closing = b ] \in Sane
         /\ [ a EXCEPT !.stopTimer = b ] \in Sane
         /\ [ a EXCEPT !.startQueued = b ] \in Sane
         /\ [ a EXCEPT !.exempt = b ] \in Sane
         /\ [ a EXCEPT !.stopAsked = b ] \in Sane
BY DEF Sane, AppRecord

(* So is what becomes of the sessions. *)
LEMMA SessionsSane ==
  ASSUME NEW a \in Sane, NEW f \in [ Sessions -> SaneSession ]
  PROVE  [ a EXCEPT !.session = f ] \in Sane
<1>1. f \in [ Sessions -> SessionRecord ]
  BY DEF SaneSession
<1> QED
  BY <1>1 DEF Sane, AppRecord

(* Stopping a process cannot freeze it, waking it leaves it not frozen. *)
LEMMA TaskSane ==
  ASSUME NEW a \in Sane
  PROVE  /\ TaskStop(a) \in Sane
         /\ TaskResume(a) \in Sane
         /\ TaskResume(a).process # "frozen"
<1>1. (a.stopAsked \/ a.process # "dead") \in BOOLEAN
  OBVIOUS
<1>2. TaskStop(a) \in Sane
  BY <1>1, FlagsSane DEF TaskStop
<1>3. TaskResume(a) \in Sane /\ TaskResume(a).process # "frozen"
  <2>1. [ a EXCEPT !.process = "alive" ] \in AppRecord
    BY DEF Sane, AppRecord
  <2>2. /\ [ a EXCEPT !.process = "alive" ].process = "alive"
        /\ [ a EXCEPT !.process = "alive" ].session = a.session
        /\ [ a EXCEPT !.process = "alive" ].state = a.state
        /\ [ a EXCEPT !.process = "alive" ].wakelock = a.wakelock
    BY DEF Sane, AppRecord
  <2>3. [ a EXCEPT !.process = "alive" ] \in Sane
    BY <2>1, <2>2 DEF Sane
  <2> QED
    BY <2>2, <2>3 DEF TaskResume
<1> QED
  BY <1>2, <1>3

(* Freezing the process of an application that waits for it. *)
LEMMA TaskSuspendSane ==
  ASSUME NEW a \in Sane, a.state \in FrozenStates
  PROVE  TaskSuspend(a) \in Sane
<1>1. CASE a.launch = "job" /\ a.process = "alive"
  <2>1. Append(a.notices, "Suspended") \in Seq(Notice)
    BY DEF Sane, AppRecord, Notice
  <2> QED
    BY <1>1, <2>1 DEF TaskSuspend, Sane, AppRecord
<1>2. CASE ~(a.launch = "job" /\ a.process = "alive")
  BY <1>2 DEF TaskSuspend
<1> QED
  BY <1>1, <1>2

(* suspend() and resume() of the sessions. *)
LEMMA SuspendResumeSane ==
  ASSUME NEW a \in Sane
  PROVE  SuspendSessions(a) \in Sane /\ ResumeSessions(a) \in Sane
<1>1. a.session \in [ Sessions -> SaneSession ]
  BY DEF Sane, AppRecord
<1>2. ASSUME NEW s \in Sessions, NEW st \in SessionState,
             a.session[s].attached
      PROVE  [ a.session[s] EXCEPT !.state = st ] \in SaneSession
  <2>1. a.session[s] \in SessionRecord
    BY <1>1 DEF SaneSession
  <2>2. [ a.session[s] EXCEPT !.state = st ] \in SessionRecord
    BY <2>1 DEF SessionRecord
  <2>3. [ a.session[s] EXCEPT !.state = st ].attached = a.session[s].attached
    BY <2>1 DEF SessionRecord
  <2> QED
    BY <1>2, <2>2, <2>3 DEF SaneSession
<1>3. { "Suspending", "Running" } \subseteq SessionState
  BY DEF SessionState
<1>4. [ s \in Sessions |->
          IF a.session[s].attached /\ a.session[s].state = "Running"
          THEN [ a.session[s] EXCEPT !.state = "Suspending" ]
          ELSE a.session[s] ] \in [ Sessions -> SaneSession ]
  BY <1>1, <1>2, <1>3
<1>5. [ s \in Sessions |->
          IF /\ a.session[s].attached
             /\ a.session[s].state \in { "Suspending", "Suspended" }
          THEN [ a.session[s] EXCEPT !.state = "Running" ]
          ELSE a.session[s] ] \in [ Sessions -> SaneSession ]
  BY <1>1, <1>2, <1>3
<1>6. SuspendSessions(a) \in Sane
  BY <1>4, SessionsSane DEF SuspendSessions
<1>7. ResumeSessions(a) \in Sane
  BY <1>5, SessionsSane DEF ResumeSessions
<1> QED
  BY <1>6, <1>7

-----------------------------------------------------------------------------
(* The recursion of updateState(): each function of Application that calls  *)
(* it keeps an application sane if that call does.                          *)

Keeps(update) == \A x \in Sane : update[x] \in Sane

(* setInternalState(). *)
LEMMA SetInternalStateSane ==
  ASSUME NEW update, Keeps(update), NEW a \in Sane, NEW st \in InternalState,
         a.process = "frozen" => st \in FrozenStates
  PROVE  SetInternalState(a, st, update) \in Sane
<1> QED
  BY EnterSane DEF SetInternalState, Keeps

(* setProcessState(): only Suspended takes a frozen process along, and to a *)
(* state it may be frozen in.                                               *)
LEMMA SetProcessStateSane ==
  ASSUME NEW update, Keeps(update), NEW a \in Sane, NEW p \in ProcessState \ { "Unknown" }
  PROVE  SetProcessState(a, p, update) \in Sane
<1> DEFINE b == [ a EXCEPT !.processState = p ]
<1>1. b \in Sane
  BY DEF Sane, AppRecord
<1> HIDE DEF b
<1>2. ASSUME NEW c \in Sane, NEW st \in { "Starting", "Suspended", "Stopped" },
             st = "Starting" => c.state = "StoppedResumable"
      PROVE  SetInternalState(c, st, update) \in Sane
  <2>1. st \in InternalState
    BY DEF InternalState
  <2>2. c.process = "frozen" => st \in FrozenStates
    BY <1>2 DEF Sane, FrozenStates
  <2> QED
    BY <2>1, <2>2, SetInternalStateSane
<1>3. ProcessSwitch(b, p, update) \in Sane
  <2>1. CASE p = "Running"
    BY <1>1, <1>2, <2>1 DEF ProcessSwitch
  <2>2. CASE p = "Suspended"
    BY <1>1, <1>2, <2>2, FailedSane DEF ProcessSwitch, QAssert, Assertion
  <2>3. CASE p = "Failed"
    <3> DEFINE c == QAssert(b, SessionsStopped(b), "failed before its sessions")
    <3>1. c \in Sane
      BY <1>1, FailedSane DEF QAssert, Assertion
    <3>2. SetInternalState(c, "Stopped", update) \in Sane
      BY <1>2, <3>1
    <3>3. QAssert(c, c.state \in { "Stopped", "StoppedResumable" },
                  "failed in that state") \in Sane
      BY <3>1, FailedSane DEF QAssert, Assertion
    <3> QED
      BY <2>3, <3>2, <3>3 DEF ProcessSwitch
  <2>4. CASE p = "Stopped"
    <3> DEFINE c == QAssert(b, SessionsStopped(b), "stopped before its sessions")
    <3>1. c \in Sane
      BY <1>1, FailedSane DEF QAssert, Assertion
    <3>2. SetInternalState(c, "Stopped", update) \in Sane
      BY <1>2, <3>1
    <3>3. QAssert(c, c.state = "Stopped", "stopped in that state") \in Sane
      BY <3>1, FailedSane DEF QAssert, Assertion
    <3> QED
      BY <2>4, <3>2, <3>3 DEF ProcessSwitch
  <2> QED
    BY <2>1, <2>2, <2>3, <2>4 DEF ProcessState
<1> QED
  BY <1>3 DEF SetProcessState, Keeps, b

(* suspend(), of an application whose process is not frozen. *)
LEMMA SuspendSane ==
  ASSUME NEW update, Keeps(update), NEW a \in Sane, a.process # "frozen"
  PROVE  Suspend(a, update) \in Sane
<1> DEFINE b == QAssert(QAssert(a, a.state = "Running", "suspend when not running"),
                        Attached(a) # {}, "suspend without sessions")
<1>1. b \in Sane /\ b.process # "frozen"
  <2> DEFINE c == QAssert(a, a.state = "Running", "suspend when not running")
  <2>1. c \in Sane /\ c.process # "frozen"
    BY FailedSane DEF QAssert, Assertion
  <2> HIDE DEF c
  <2>2. QAssert(c, Attached(a) # {}, "suspend without sessions") \in Sane
        /\ QAssert(c, Attached(a) # {}, "suspend without sessions").process # "frozen"
    BY <2>1, FailedSane DEF QAssert, Assertion
  <2> QED
    BY <2>2 DEF c
<1> HIDE DEF b
<1>2. SetInternalState(b, "RunningInBackground", update) \in Sane
  BY <1>1, SetInternalStateSane DEF InternalState
<1>3. SetInternalState(b, "SuspendingWaitSession", update) \in Sane
  BY <1>1, SetInternalStateSane DEF InternalState
<1>4. SuspendSessions(SetInternalState(b, "SuspendingWaitSession", update)) \in Sane
  BY <1>3, SuspendResumeSane
<1> QED
  BY <1>2, <1>4 DEF Suspend, b

(* resume() wakes the process before it goes back to work. *)
LEMMA ResumeSane ==
  ASSUME NEW update, Keeps(update), NEW a \in Sane
  PROVE  Resume(a, update) \in Sane
<1>1. CASE a.state \in { "Suspended", "SuspendingWaitProcess" }
  <2> DEFINE b == SetInternalState(TaskResume(a), "Running", update)
             c == IF b.processState = "Suspended"
                  THEN SetProcessState(b, "Running", update)
                  ELSE b
  <2>1. b \in Sane
    BY TaskSane, SetInternalStateSane DEF InternalState
  <2> HIDE DEF b
  <2>2. c \in Sane
    BY <2>1, SetProcessStateSane DEF ProcessState
  <2> HIDE DEF c
  <2>3. ResumeSessions(c) \in Sane
    BY <2>2, SuspendResumeSane
  <2> QED
    BY <1>1, <2>3 DEF Resume, c, b
<1>2. CASE a.state = "SuspendingWaitSession"
  <2>1. SetInternalState(a, "Running", update) \in Sane
    BY <1>2, SetInternalStateSane DEF InternalState, Sane, FrozenStates
  <2> QED
    BY <1>2, <2>1, SuspendResumeSane DEF Resume
<1>3. CASE a.state = "RunningInBackground"
  <2>1. SetInternalState(a, "Running", update) \in Sane
    BY <1>3, SetInternalStateSane DEF InternalState, Sane, FrozenStates
  <2> QED
    BY <1>3, <2>1 DEF Resume
<1>4. CASE a.state \notin { "Suspended", "SuspendingWaitProcess",
                          "SuspendingWaitSession", "RunningInBackground" }
  BY <1>4 DEF Resume
<1> QED
  BY <1>1, <1>2, <1>3, <1>4

(* applyClosing(). *)
LEMMA ApplyClosingSane ==
  ASSUME NEW update, Keeps(update), NEW a \in Sane
  PROVE  ApplyClosing(a, update) \in Sane
<1>1. CASE a.state = "Starting"
  BY <1>1, FailedSane DEF ApplyClosing, QAssert, Assertion
<1>2. CASE a.state \in { "Running", "RunningInBackground" }
  <2> DEFINE b == [ a EXCEPT !.stopTimer = TRUE ]
  <2>1. b \in Sane /\ b.process # "frozen"
    BY <1>2 DEF Sane, AppRecord, FrozenStates
  <2> HIDE DEF b
  <2>2. SetInternalState(b, "Closing", update) \in Sane
    BY <2>1, SetInternalStateSane DEF InternalState
  <2> QED
    BY <1>2, <2>1, <2>2 DEF ApplyClosing, b
<1>3. CASE a.state \in { "SuspendingWaitSession", "Suspended" }
  BY <1>3, ResumeSane DEF ApplyClosing
<1>4. CASE a.state = "Closing"
  <2> DEFINE b == QAssert(a, a.closing, "closing not meant")
  <2>1. b \in Sane
    BY FailedSane DEF QAssert, Assertion
  <2> HIDE DEF b
  <2>2. QAssert(b, a.stopTimer, "closing without its timer") \in Sane
    BY <2>1, FailedSane DEF QAssert, Assertion
  <2> QED
    BY <1>4, <2>2 DEF ApplyClosing, b
<1>5. CASE a.state = "StoppedResumable"
  <2>1. SetInternalState(a, "Stopped", update) \in Sane
    BY <1>5, SetInternalStateSane DEF InternalState, FrozenStates
  <2> QED
    BY <1>5, <2>1 DEF ApplyClosing
<1>6. CASE a.state \in { "SuspendingWaitProcess", "Stopped" }
  BY <1>6 DEF ApplyClosing
<1> QED
  BY <1>1, <1>2, <1>3, <1>4, <1>5, <1>6 DEF Sane, AppRecord, InternalState

(* applyRequestedRunning(). *)
LEMMA ApplyRequestedRunningSane ==
  ASSUME NEW update, Keeps(update), NEW a \in Sane
  PROVE  ApplyRequestedRunning(a, update) \in Sane
<1> DEFINE b == [ a EXCEPT !.stopTimer = FALSE ]
<1>1. b \in Sane
  BY FlagsSane
<1> HIDE DEF b
<1>2. Resume(b, update) \in Sane
  BY <1>1, ResumeSane
<1>3. QAssert(b, FALSE, "running while closing") \in Sane
  BY <1>1, FailedSane DEF QAssert, Assertion
<1>4. CASE b.state = "StoppedResumable"
  <2>1. SetInternalState(b, "Starting", update) \in Sane
    BY <1>1, <1>4, SetInternalStateSane DEF InternalState, Sane, FrozenStates
  <2>2. Respawn(b, update) \in Sane
    BY <2>1, FlagsSane DEF Respawn
  <2> QED
    BY <1>4, <2>2 DEF ApplyRequestedRunning, b
<1>5. CASE b.state # "StoppedResumable"
  BY <1>1, <1>2, <1>3, <1>5 DEF ApplyRequestedRunning, b
<1> QED
  BY <1>4, <1>5

(* applyRequestedSuspended(). *)
LEMMA ApplyRequestedSuspendedSane ==
  ASSUME NEW update, Keeps(update), NEW a \in Sane
  PROVE  ApplyRequestedSuspended(a, update) \in Sane
<1> DEFINE b == [ a EXCEPT !.stopTimer = FALSE ]
<1>1. b \in Sane
  BY FlagsSane
<1> HIDE DEF b
<1>2. b.state = "Running" => Suspend(b, update) \in Sane
  BY <1>1, SuspendSane DEF Sane, FrozenStates
<1>3. QAssert(b, b.processState = "Unknown", "suspend without process") \in Sane
  BY <1>1, FailedSane DEF QAssert, Assertion
<1>4. QAssert(b, FALSE, "suspended while closing") \in Sane
  BY <1>1, FailedSane DEF QAssert, Assertion
<1> QED
  BY <1>1, <1>2, <1>3, <1>4 DEF ApplyRequestedSuspended, b

(* updateState(), one call of it. *)
LEMMA UpdateOnceSane ==
  ASSUME NEW update, Keeps(update), NEW a \in Sane
  PROVE  UpdateOnce(a, update) \in Sane
<1> DEFINE b == [ a EXCEPT !.closing = IsClosing(a) ]
<1>1. b \in Sane
  <2>1. IsClosing(a) \in BOOLEAN
    BY DEF IsClosing, Sane, AppRecord
  <2> QED
    BY <2>1, FlagsSane
<1> HIDE DEF b
<1>2. /\ ApplyClosing(b, update) \in Sane
      /\ ApplyRequestedRunning(b, update) \in Sane
      /\ ApplyRequestedSuspended(b, update) \in Sane
  BY <1>1, ApplyClosingSane, ApplyRequestedRunningSane, ApplyRequestedSuspendedSane
<1> QED
  BY <1>2 DEF UpdateOnce, b

(* updateState(), with all the calls nested in it. *)
LEMMA UpdateSane == Keeps(Update)
<1>1. Sane \subseteq AppRecord
  BY DEF Sane
<1>2. Keeps(Update0)
  BY <1>1, FailedSane DEF Keeps, Update0, QAssert, Assertion
<1>3. Keeps(Update1)
  BY <1>1, <1>2, UpdateOnceSane DEF Keeps, Update1
<1>4. Keeps(Update2)
  BY <1>1, <1>3, UpdateOnceSane DEF Keeps, Update2
<1>5. Keeps(Update3)
  BY <1>1, <1>4, UpdateOnceSane DEF Keeps, Update3
<1> QED
  BY <1>1, <1>5, UpdateOnceSane DEF Keeps, Update

(* An application that waits for its process to be frozen is left alone. *)
LEMMA UpdateWaits ==
  ASSUME NEW a \in Sane, a.state = "SuspendingWaitProcess"
  PROVE  Update[a].state = "SuspendingWaitProcess"
<1> DEFINE b == [ a EXCEPT !.closing = IsClosing(a) ]
<1>1. b.state = "SuspendingWaitProcess" /\ b \in AppRecord
  <2>1. IsClosing(a) \in BOOLEAN
    BY DEF IsClosing, Sane, AppRecord
  <2> QED
    BY <2>1 DEF Sane, AppRecord
<1> HIDE DEF b
<1>2. ApplyClosing(b, Update3).state = "SuspendingWaitProcess"
  BY <1>1 DEF ApplyClosing
<1>3. [ b EXCEPT !.stopTimer = FALSE ].state = "SuspendingWaitProcess"
  BY <1>1 DEF AppRecord
<1>4. ApplyRequestedRunning(b, Update3).state = "SuspendingWaitProcess"
  BY <1>3 DEF ApplyRequestedRunning
<1>5. ApplyRequestedSuspended(b, Update3).state = "SuspendingWaitProcess"
  BY <1>3 DEF ApplyRequestedSuspended
<1>6. UpdateOnce(a, Update3).state = "SuspendingWaitProcess"
  BY <1>2, <1>4, <1>5 DEF UpdateOnce, b
<1> QED
  BY <1>6 DEF Update, Sane

-----------------------------------------------------------------------------
(* The slots and methods that are called from outside. *)

(* stop(). *)
LEMMA StopSane ==
  ASSUME NEW a \in Sane
  PROVE  Stop(a) \in Sane
<1>1. SetProcessState(TaskStop(a), "Stopped", Update) \in Sane
  BY TaskSane, UpdateSane, SetProcessStateSane DEF ProcessState
<1> QED
  BY <1>1, TaskSane DEF Stop, Sane, AppRecord

(* onSessionStopped(), when the process is not frozen: a frozen client      *)
(* cannot disconnect.                                                       *)
LEMMA OnSessionStoppedSane ==
  ASSUME NEW a \in Sane, a.process # "frozen"
  PROVE  OnSessionStopped(a) \in Sane
<1>1. \A st \in { "Stopped", "StoppedResumable" } : SetInternalState(a, st, Update) \in Sane
  BY UpdateSane, SetInternalStateSane DEF InternalState
<1>2. SetInternalState(Stop(a), "Stopped", Update) \in Sane
  BY UpdateSane, StopSane, SetInternalStateSane DEF InternalState, FrozenStates
<1> QED
  BY <1>1, <1>2 DEF OnSessionStopped

(* onSessionStateChanged(). *)
LEMMA OnSessionStateChangedSane ==
  ASSUME NEW a \in Sane, CombinedIs(a, "Stopped") => a.process # "frozen"
  PROVE  OnSessionStateChanged(a) \in Sane
<1>1. a.state = "Starting" => SetInternalState(a, "Running", Update) \in Sane
  BY UpdateSane, SetInternalStateSane DEF InternalState, Sane, FrozenStates
<1>2. CombinedIs(a, "Stopped") => OnSessionStopped(a) \in Sane
  BY OnSessionStoppedSane
<1> DEFINE b == QAssert(a, a.state = "SuspendingWaitSession", "session not awaited")
           c == SetInternalState(b, "SuspendingWaitProcess", Update)
<1>3. b \in Sane
  BY FailedSane DEF QAssert, Assertion
<1> HIDE DEF b
<1>4. c \in Sane
  BY <1>3, UpdateSane, SetInternalStateSane DEF InternalState, FrozenStates
<1>5. c.state = "SuspendingWaitProcess"
  <2>1. /\ Enter(b, "SuspendingWaitProcess") \in Sane
        /\ Enter(b, "SuspendingWaitProcess").state = "SuspendingWaitProcess"
    BY <1>3, EnterSane DEF InternalState, FrozenStates
  <2> QED
    BY <2>1, UpdateWaits DEF SetInternalState
<1> HIDE DEF c
<1>6. TaskSuspend(c) \in Sane
  BY <1>4, <1>5, TaskSuspendSane DEF FrozenStates
<1> QED
  BY <1>1, <1>2, <1>6 DEF OnSessionStateChanged, c, b

(* Session::setState(): with the process frozen, a session is not stopped.  *)
LEMMA SetSessionStateSane ==
  ASSUME NEW a \in Sane, NEW s \in Sessions, NEW st \in SessionState,
         a.session[s].attached, st # "Stopped" \/ a.process # "frozen"
  PROVE  SetSessionState(a, s, st) \in Sane
<1> DEFINE b == [ a EXCEPT !.session[s].state = st ]
<1>1. a.session \in [ Sessions -> SaneSession ]
  BY DEF Sane, AppRecord
<1>2. [ a.session EXCEPT ![s].state = st ] \in [ Sessions -> SaneSession ]
  BY <1>1 DEF SaneSession, SessionRecord
<1>3. b \in Sane
  BY <1>2, SessionsSane
<1>4. b.process = a.process /\ b.session[s].attached /\ b.session[s].state = st
  BY <1>1 DEF Sane, AppRecord, SaneSession, SessionRecord
<1> HIDE DEF b
<1>5. CombinedIs(b, "Stopped") => st = "Stopped"
  BY <1>4 DEF CombinedIs, Attached, Liveliness, SessionState
<1>6. OnSessionStateChanged(b) \in Sane
  BY <1>3, <1>4, <1>5, OnSessionStateChangedSane
<1> QED
  BY <1>6 DEF SetSessionState, b

(* The flags and surfaces of one session. *)
LEMMA OneSessionSane ==
  ASSUME NEW a \in Sane, NEW s \in Sessions,
         NEW F \in SUBSET Surfaces, NEW b \in BOOLEAN
  PROVE  /\ [ a EXCEPT !.session[s].list = F ] \in Sane
         /\ [ a EXCEPT !.session[s].closing = F ] \in Sane
         /\ [ a EXCEPT !.session[s].hadSurface = b ] \in Sane
         /\ [ a EXCEPT !.session[s].zombie = b ] \in Sane
         /\ [ a EXCEPT !.session[s].live = b ] \in Sane
<1>1. a.session \in [ Sessions -> SaneSession ]
  BY DEF Sane, AppRecord
<1>2. /\ [ a.session EXCEPT ![s].list = F ] \in [ Sessions -> SaneSession ]
      /\ [ a.session EXCEPT ![s].closing = F ] \in [ Sessions -> SaneSession ]
      /\ [ a.session EXCEPT ![s].hadSurface = b ] \in [ Sessions -> SaneSession ]
      /\ [ a.session EXCEPT ![s].zombie = b ] \in [ Sessions -> SaneSession ]
      /\ [ a.session EXCEPT ![s].live = b ] \in [ Sessions -> SaneSession ]
  BY <1>1 DEF SaneSession, SessionRecord
<1> QED
  BY <1>2, SessionsSane

LEMMA SessionTypes ==
  ASSUME NEW a \in Sane, NEW s \in Sessions
  PROVE  /\ a.session[s] \in SaneSession
         /\ a.session[s].list \subseteq Surfaces
         /\ a.session[s].closing \subseteq Surfaces
         /\ a.session[s].zombie \in BOOLEAN
         /\ a.session[s].live \in BOOLEAN
BY DEF Sane, AppRecord, SaneSession, SessionRecord

LEMMA UpdateStateSane ==
  ASSUME NEW a \in Sane
  PROVE  UpdateState(a) \in Sane
BY UpdateSane DEF UpdateState, Keeps

(* deleteIfZombieAndEmpty(). *)
LEMMA ZombieSane ==
  ASSUME NEW a \in Sane, NEW s \in Sessions
  PROVE  DeleteIfZombieAndEmpty(a, s) \in Sane
<1>1. (a.session[s].zombie \/ (~a.session[s].live /\ ListEmpty(a, s))) \in BOOLEAN
  OBVIOUS
<1> QED
  BY <1>1, OneSessionSane DEF DeleteIfZombieAndEmpty

(* Application::close(). *)
LEMMA CloseSane ==
  ASSUME NEW a \in Sane
  PROVE  Close(a) \in Sane
<1>1. ASSUME NEW S \in SUBSET Sessions
      PROVE  CloseListed(a, S) \in Sane
  <2> DEFINE hasList == { s \in S : a.session[s].list # {} }
             marked  == [ a EXCEPT !.session = [ s \in Sessions |->
                            IF s \in hasList
                            THEN [ a.session[s] EXCEPT
                                     !.closing = @ \cup a.session[s].list ]
                            ELSE a.session[s] ] ]
             heeded  == IF \E s \in hasList : ~HasClosingSurfaces(a, s)
                        THEN UpdateState(marked)
                        ELSE marked
             cleared == [ heeded EXCEPT !.session = [ s \in Sessions |->
                            IF s \in hasList THEN [ @[s] EXCEPT !.list = {} ]
                                             ELSE @[s] ] ]
  <2>1. marked \in Sane
    <3>1. \A s \in Sessions :
            [ a.session[s] EXCEPT !.closing = @ \cup a.session[s].list ] \in SaneSession
      BY SessionTypes DEF SaneSession, SessionRecord
    <3> HIDE DEF hasList
    <3>2. [ s \in Sessions |->
              IF s \in hasList
              THEN [ a.session[s] EXCEPT !.closing = @ \cup a.session[s].list ]
              ELSE a.session[s] ] \in [ Sessions -> SaneSession ]
      BY <3>1, SessionTypes
    <3> QED
      BY <3>2, SessionsSane
  <2> HIDE DEF marked
  <2>2. heeded \in Sane
    BY <2>1, UpdateStateSane
  <2> HIDE DEF heeded
  <2>3. cleared \in Sane
    <3>1. \A s \in Sessions : [ heeded.session[s] EXCEPT !.list = {} ] \in SaneSession
      BY <2>2, SessionTypes DEF SaneSession, SessionRecord
    <3>2. \A s \in Sessions : heeded.session[s] \in SaneSession
      BY <2>2, SessionTypes
    <3> HIDE DEF hasList
    <3>3. [ s \in Sessions |->
              IF s \in hasList THEN [ heeded.session[s] EXCEPT !.list = {} ]
                               ELSE heeded.session[s] ] \in [ Sessions -> SaneSession ]
      BY <3>1, <3>2
    <3> QED
      BY <2>2, <3>3, SessionsSane
  <2> HIDE DEF cleared
  <2>4. UpdateState(cleared) \in Sane
    BY <2>3, UpdateStateSane
  <2> QED
    BY <2>4 DEF CloseListed, cleared, heeded, marked
<1>2. a.state = "Starting" => SetInternalState(Stop(a), "Stopped", Update) \in Sane
  BY UpdateSane, StopSane, SetInternalStateSane DEF InternalState, FrozenStates
<1>3. SetInternalState(a, "Stopped", Update) \in Sane
  BY UpdateSane, SetInternalStateSane DEF InternalState, FrozenStates
<1>4. { s \in Attached(a) : a.session[s].state # "Stopped" } \in SUBSET Sessions
  BY DEF Attached
<1>5. CloseListed(a, { s \in Attached(a) : a.session[s].state # "Stopped" }) \in Sane
  BY <1>1, <1>4
<1> QED
  BY <1>2, <1>3, <1>5 DEF Close

(* addSession(), removeSession(). *)
LEMMA AddRemoveSane ==
  ASSUME NEW a \in Sane, NEW s \in Sessions
  PROVE  AddSession(a, s) \in Sane /\ RemoveSession(a, s) \in Sane
<1>1. /\ NewSession \in SaneSession
      /\ NoSession \in SaneSession
      /\ [ NewSession EXCEPT !.state = "Stopped" ] \in SaneSession
  BY DEF NewSession, NoSession, SaneSession, SessionRecord, SessionState
<1>2. ASSUME NEW r \in SaneSession
      PROVE  [ a EXCEPT !.session[s] = r ] \in Sane
  <2>1. [ a.session EXCEPT ![s] = r ] \in [ Sessions -> SaneSession ]
    BY DEF Sane, AppRecord
  <2> QED
    BY <2>1, SessionsSane
<1> QED
  BY <1>1, <1>2 DEF AddSession, RemoveSession

-----------------------------------------------------------------------------
(* Surfaces and sessions coming and going. *)

(* prependSurface(). *)
LEMMA PrependSurfaceSane ==
  ASSUME NEW a \in Sane, NEW s \in Sessions, NEW f \in Surfaces
  PROVE  PrependSurface(a, s, f) \in Sane
<1> DEFINE b == [ a EXCEPT !.session[s].list = @ \cup { f } ]
           c == IF ListEmpty(a, s) THEN UpdateState(b) ELSE b
           d == [ c EXCEPT !.session[s].hadSurface = TRUE ]
<1>1. b \in Sane
  <2>1. a.session[s].list \cup { f } \in SUBSET Surfaces
    BY SessionTypes
  <2> QED
    BY <2>1, OneSessionSane
<1> HIDE DEF b
<1>2. c \in Sane
  BY <1>1, UpdateStateSane
<1> HIDE DEF c
<1>3. d \in Sane
  BY <1>2, OneSessionSane
<1> HIDE DEF d
<1>4. d.session[s].state = "Starting" => d.session[s].attached
  BY <1>3 DEF Sane, SaneSession
<1>5. d.session[s].state = "Starting" => SetSessionState(d, s, "Running") \in Sane
  BY <1>3, <1>4, SetSessionStateSane DEF SessionState
<1> QED
  BY <1>3, <1>5 DEF PrependSurface, d, c, b

(* The slot of closeRequested. *)
LEMMA CloseSurfaceSane ==
  ASSUME NEW a \in Sane, NEW s \in Sessions, NEW f \in Surfaces
  PROVE  CloseSurface(a, s, f) \in Sane
<1> DEFINE b == [ a EXCEPT !.session[s].closing = @ \cup { f } ]
           c == IF HasClosingSurfaces(a, s) THEN b ELSE UpdateState(b)
           d == [ c EXCEPT !.session[s].list = @ \ { f } ]
<1>1. b \in Sane
  <2>1. a.session[s].closing \cup { f } \in SUBSET Surfaces
    BY SessionTypes
  <2> QED
    BY <2>1, OneSessionSane
<1> HIDE DEF b
<1>2. c \in Sane
  BY <1>1, UpdateStateSane
<1> HIDE DEF c
<1>3. d \in Sane
  <2>1. c.session[s].list \ { f } \in SUBSET Surfaces
    BY <1>2, SessionTypes
  <2> QED
    BY <1>2, <2>1, OneSessionSane
<1> HIDE DEF d
<1>4. UpdateState(DeleteIfZombieAndEmpty(d, s)) \in Sane
  BY <1>3, ZombieSane, UpdateStateSane
<1> QED
  BY <1>3, <1>4 DEF CloseSurface, d, c, b

(* removeSurface(). *)
LEMMA RemoveSurfaceSane ==
  ASSUME NEW a \in Sane, NEW s \in Sessions, NEW f \in Surfaces
  PROVE  RemoveSurface(a, s, f) \in Sane
<1> DEFINE b == [ a EXCEPT !.session[s].list = @ \ { f } ]
           c == IF ListEmpty(b, s) /\ ~ListEmpty(a, s)
                THEN UpdateState(DeleteIfZombieAndEmpty(b, s))
                ELSE b
           d == [ c EXCEPT !.session[s].closing = @ \ { f } ]
<1>1. b \in Sane
  <2>1. a.session[s].list \ { f } \in SUBSET Surfaces
    BY SessionTypes
  <2> QED
    BY <2>1, OneSessionSane
<1> HIDE DEF b
<1>2. c \in Sane
  BY <1>1, ZombieSane, UpdateStateSane
<1> HIDE DEF c
<1>3. d \in Sane
  <2>1. c.session[s].closing \ { f } \in SUBSET Surfaces
    BY <1>2, SessionTypes
  <2> QED
    BY <1>2, <2>1, OneSessionSane
<1> HIDE DEF d
<1>4. UpdateState(d) \in Sane
  BY <1>3, UpdateStateSane
<1> QED
  BY <1>3, <1>4 DEF RemoveSurface, d, c, b

(* setLive(false), of a client whose process is not frozen. *)
LEMMA SessionDiesSane ==
  ASSUME NEW a \in Sane, NEW s \in Sessions,
         a.session[s].attached, a.process # "frozen"
  PROVE  SessionDies(a, s) \in Sane
<1> DEFINE b == [ a EXCEPT !.session[s].live = FALSE ]
<1>1. b \in Sane
  BY OneSessionSane
<1>2. b.session[s].attached /\ b.process # "frozen"
  BY DEF Sane, AppRecord, SessionRecord
<1> HIDE DEF b
<1>3. SetSessionState(b, s, "Stopped") \in Sane
  BY <1>1, <1>2, SetSessionStateSane DEF SessionState
<1> QED
  BY <1>3, ZombieSane DEF SessionDies, b

(* What is told of the process. *)
LEMMA HeedSane ==
  ASSUME NEW a \in Sane, NEW n \in Notice
  PROVE  Heed(a, n) \in Sane
<1>1. \A p \in { "Running", "Suspended", "Failed", "Stopped" } :
        SetProcessState(a, p, Update) \in Sane
  BY UpdateSane, SetProcessStateSane DEF ProcessState
<1> QED
  BY <1>1 DEF Heed, Notice

-----------------------------------------------------------------------------
(* The inductive invariant. *)

Inv == deleted \in BOOLEAN /\ app \in Sane

LEMMA InitInv == Init => Inv
<1> SUFFICES ASSUME Init PROVE Inv
  OBVIOUS
<1>1. NoSession \in SaneSession /\ NoSession \in SessionRecord
  BY DEF NoSession, SaneSession, SessionRecord, SessionState
<1>2. app.process # "frozen" /\ app.session \in [ Sessions -> SaneSession ]
  BY <1>1 DEF Init
<1>3. app \in AppRecord
  <2> DEFINE wakelock     == ~Dash
             session      == [ s \in Sessions |-> NoSession ]
             process(how) == IF how = "job" THEN "launching" ELSE "alive"
             notices(how) == IF how = "job" THEN << "Starting" >> ELSE << >>
  <2>1. PICK how \in { "job", "byHand", "unknown" } :
          app = [ state |-> "Starting", requested |-> "Running",
                  processState |-> "Unknown", closing |-> FALSE,
                  stopTimer |-> FALSE, exempt |-> FALSE,
                  wakelock |-> wakelock,
                  listed |-> "applications", deleteLater |-> FALSE,
                  startQueued |-> FALSE,
                  session |-> session, process |-> process(how),
                  launch |-> how, stopAsked |-> FALSE,
                  notices |-> notices(how), failed |-> {} ]
    BY DEF Init
  <2>2. notices(how) \in Seq(Notice)
    <3>1. << "Starting" >> \in Seq(Notice) /\ << >> \in Seq(Notice)
      BY DEF Notice
    <3> QED
      BY <3>1
  <2>3. session \in [ Sessions -> SessionRecord ]
    BY <1>1
  <2>4. wakelock \in BOOLEAN
    BY DashAssumption
  <2>5. process(how) \in { "launching", "alive", "frozen", "dead" }
    OBVIOUS
  <2> HIDE DEF wakelock, session, process, notices
  <2> QED
    BY <2>1, <2>2, <2>3, <2>4, <2>5
    DEF AppRecord, InternalState, RequestedState, ProcessState
<1>4. app.state = "Starting" /\ app.wakelock = ~ Dash
  BY DEF Init
<1>5. deleted \in BOOLEAN
  BY DEF Init
<1> QED
  BY <1>2, <1>3, <1>4, <1>5 DEF Inv, Sane, Fitting, Busy, AtWork

(* Every handler starts with no assertion failed. *)
LEMMA StartSane ==
  ASSUME app \in Sane
  PROVE  /\ a0 \in Sane
         /\ a0.state = app.state
         /\ a0.process = app.process
         /\ a0.session = app.session
         /\ a0.notices = app.notices
<1>1. {} \in SUBSET Assertion
  OBVIOUS
<1> QED
  BY <1>1 DEF a0, Sane, AppRecord

(* What happens outside the shell to the process and to what will be told.  *)
LEMMA OutsideSane ==
  ASSUME NEW a \in Sane, NEW p \in { "launching", "alive", "dead" },
         NEW n \in Seq(Notice), NEW b \in BOOLEAN, NEW c \in BOOLEAN
  PROVE  /\ [ a EXCEPT !.startQueued = b, !.process = p, !.notices = n ] \in Sane
         /\ [ a EXCEPT !.process = p, !.stopAsked = c, !.notices = n ] \in Sane
         /\ [ a EXCEPT !.notices = n, !.process = p ] \in Sane
         /\ [ a EXCEPT !.notices = n ] \in Sane
BY DEF Sane, AppRecord

LEMMA NextInv == Inv /\ [Next]_vars => Inv'
<1> SUFFICES ASSUME Inv, [Next]_vars PROVE Inv'
  OBVIOUS
<1> USE DEF Inv
<1>0. /\ a0 \in Sane
      /\ a0.state = app.state
      /\ a0.process = app.process
      /\ a0.session = app.session
      /\ a0.notices = app.notices
  BY StartSane
<1>1. ASSUME NEW v \in RequestedState, SetRequestedState(v)
      PROVE  Inv'
  <2>1. [ a0 EXCEPT !.requested = v ] \in Sane
    BY <1>0 DEF Sane, AppRecord
  <2> QED
    BY <1>1, <2>1, UpdateStateSane DEF SetRequestedState
<1>2. ASSUME NEW v \in BOOLEAN, SetExemptFromLifecycle(v)
      PROVE  Inv'
  BY <1>0, <1>2, FlagsSane DEF SetExemptFromLifecycle
<1>3. CASE StopApplication
  BY <1>0, <1>3, CloseSane DEF StopApplication
<1>4. CASE StopTimeout
  <2>1. [ a0 EXCEPT !.stopTimer = FALSE ] \in Sane
    BY <1>0, FlagsSane
  <2> QED
    BY <1>4, <2>1, StopSane DEF StopTimeout
<1>5. ASSUME NEW s \in Sessions, SuspendTimeout(s)
      PROVE  Inv'
  BY <1>0, <1>5, SetSessionStateSane DEF SuspendTimeout, SessionState
<1>6. CASE RunQueuedStart
  <2>1. Append(a0.notices, "Starting") \in Seq(Notice)
    BY <1>0 DEF Sane, AppRecord, Notice
  <2> QED
    BY <1>0, <1>6, <2>1, OutsideSane, FlagsSane DEF RunQueuedStart
<1>7. ASSUME NEW s \in Sessions, SessionDeleted(s)
      PROVE  Inv'
  BY <1>0, <1>7, AddRemoveSane DEF SessionDeleted
<1>8. CASE ApplicationDeleted
  <2>1. [ s \in Sessions |-> NoSession ] \in [ Sessions -> SaneSession ]
    BY DEF NoSession, SaneSession, SessionRecord, SessionState
  <2> DEFINE b == [ a0 EXCEPT !.session = [ s \in Sessions |-> NoSession ] ]
  <2>2. b \in Sane
    BY <1>0, <2>1, SessionsSane
  <2>3. app' = [ b EXCEPT !.stopTimer = FALSE, !.listed = "none" ]
    BY <1>8 DEF ApplicationDeleted
  <2> HIDE DEF b
  <2>4. app' \in Sane
    BY <2>2, <2>3 DEF Sane, AppRecord
  <2> QED
    BY <1>8, <2>4 DEF ApplicationDeleted
<1>9. ASSUME NEW s \in Sessions, SessionStarting(s)
      PROVE  Inv'
  BY <1>0, <1>9, AddRemoveSane DEF SessionStarting
<1>10. ASSUME NEW s \in Sessions, SessionStopping(s)
       PROVE  Inv'
  BY <1>0, <1>10, SessionDiesSane DEF SessionStopping, Live
<1>11. ASSUME NEW s \in Sessions, NEW f \in Surfaces, SurfaceReady(s, f)
       PROVE  Inv'
  BY <1>0, <1>11, PrependSurfaceSane DEF SurfaceReady
<1>12. ASSUME NEW s \in Sessions, NEW f \in Surfaces, SurfaceClose(s, f)
       PROVE  Inv'
  BY <1>0, <1>12, CloseSurfaceSane DEF SurfaceClose
<1>13. ASSUME NEW s \in Sessions, NEW f \in Surfaces, SurfaceCloseOverdue(s, f)
       PROVE  Inv'
  BY <1>0, <1>13, TaskSane DEF SurfaceCloseOverdue
<1>14. ASSUME NEW s \in Sessions, NEW f \in Surfaces, SurfaceDestroyed(s, f)
       PROVE  Inv'
  BY <1>0, <1>14, RemoveSurfaceSane DEF SurfaceDestroyed
<1>15. ASSUME NEW how \in { "killed", "exit", "terminated" }, ProcessEnds(how)
       PROVE  Inv'
  <2>1. /\ a0.notices \in Seq(Notice)
        /\ a0.notices \o << "Failed", "Stopped" >> \in Seq(Notice)
        /\ Append(a0.notices, "Stopped") \in Seq(Notice)
    BY <1>0 DEF Sane, AppRecord, Notice
  <2> QED
    BY <1>0, <1>15, <2>1, OutsideSane DEF ProcessEnds
<1>16. CASE Noticed
  <2> DEFINE n == Head(app.notices)
             b == [ a0 EXCEPT
                      !.notices = Tail(@),
                      !.process = IF n = "Starting" /\ @ = "launching"
                                  THEN "alive" ELSE @ ]
  <2>1. n \in Notice /\ Tail(a0.notices) \in Seq(Notice)
    BY <1>0, <1>16 DEF Noticed, Sane, AppRecord
  <2>2. b \in Sane
    BY <1>0, <2>1 DEF Sane, AppRecord
  <2>3. app' = IF deleted THEN b ELSE Heed(b, n)
    BY <1>16 DEF Noticed
  <2> HIDE DEF b, n
  <2>4. app' \in Sane
    BY <2>1, <2>2, <2>3, HeedSane
  <2> QED
    BY <1>16, <2>4 DEF Noticed
<1>17. CASE UNCHANGED vars
  BY <1>17 DEF vars
<1> QED
  BY <1>1, <1>2, <1>3, <1>4, <1>5, <1>6, <1>7, <1>8, <1>9, <1>10, <1>11,
     <1>12, <1>13, <1>14, <1>15, <1>16, <1>17 DEF Next

-----------------------------------------------------------------------------
(* The theorems. *)

(* No handler takes a field of the application out of its type. *)
THEOREM TypeCorrect == Spec => []TypeOK
<1>1. Inv => TypeOK
  BY DEF Inv, Sane, TypeOK
<1> QED
  BY <1>1, InitInv, NextInv, PTL DEF Spec

(* Whatever the shell, the clients, the timers and the system do, a process *)
(* is frozen only while its application is about to be suspended, is        *)
(* suspended, or is gone: none that the user may see at work is frozen.     *)
THEOREM NeverFrozen == Spec => []NeverFrozenAtWork
<1>1. Inv => NeverFrozenAtWork
  BY DEF Inv, Sane, NeverFrozenAtWork, FrozenStates
<1> QED
  BY <1>1, InitInv, NextInv, PTL DEF Spec

(* Whatever is done, an application never holds the wakelock that is        *)
(* suspended, stopped or left in the background, and never works without.   *)
(* It is only while it is being suspended that this says nothing, which     *)
(* WakelockKept does for one client at a time.                              *)
THEOREM WakelockFitsState ==
  Spec => [](/\ app.wakelock => ~ Dash /\ app.state \in Busy
             /\ ~ Dash /\ app.state \in AtWork => app.wakelock)
<1>1. Inv => /\ app.wakelock => ~ Dash /\ app.state \in Busy
             /\ ~ Dash /\ app.state \in AtWork => app.wakelock
  BY DEF Inv, Sane, Fitting
<1> QED
  BY <1>1, InitInv, NextInv, PTL DEF Spec


------------------------------------------------------------------------------
(***************************************************************************)
(* What a call of Application::updateState() does, however deep it nests,  *)
(* and what the state of an application keeps through it.                  *)
(*                                                                         *)
(* The first part shows that Update, the function that ties the knot of    *)
(* the recursion, has the outcome that Outcome describes in one step: the  *)
(* state it settles in, the timer, the lists and the process. The lemmas   *)
(* follow the nesting: calls that stay, calls with one change of state     *)
(* (UpdateNear), calls that resume first (UpdateFar), each for any         *)
(* function that already does so for the calls nested in it.               *)
(*                                                                         *)
(* The second part states the invariant of the third by its parts          *)
(* and shows which of them updateState(), setInternalState(),              *)
(* setProcessState() and stop() keep, and which they establish.            *)
(***************************************************************************)

-----------------------------------------------------------------------------
(* The outcome of updateState(). *)

(* The states that updateState() may leave by way of Running.               *)
Moving == { "SuspendingWaitSession", "Suspended" }

(* The case of applyClosing().                                              *)
Leaves(a) == IsClosing(a) \/ (LostAllSurfaces(a) /\ a.state # "StoppedResumable")

(* Where a call of updateState() leads, whatever it runs through on its     *)
(* way.                                                                     *)
Settled(a) ==
  CASE IsClosing(a) /\ a.state \in { "Running", "RunningInBackground" } \cup Moving -> "Closing"
    [] IsClosing(a) /\ a.state = "StoppedResumable" -> "Stopped"
    [] ~ IsClosing(a) /\ LostAllSurfaces(a) /\ a.state \in Moving -> "Running"
    [] /\ ~ IsClosing(a) /\ ~ LostAllSurfaces(a) /\ WantsRunning(a)
       /\ a.state \in { "RunningInBackground" } \cup Moving -> "Running"
    [] ~ IsClosing(a) /\ WantsRunning(a) /\ a.state = "StoppedResumable" -> "Starting"
    [] /\ ~ IsClosing(a) /\ ~ LostAllSurfaces(a) /\ ~ WantsRunning(a)
       /\ a.state = "Running" /\ a.processState = "Running" ->
         IF a.exempt THEN "RunningInBackground" ELSE "SuspendingWaitSession"
    [] OTHER -> a.state

(* The stop timer, when updateState() returns. *)
Timer(a) ==
  CASE Leaves(a) ->
         a.stopTimer \/ a.state \in { "Running", "RunningInBackground" } \cup Moving
    [] OTHER -> FALSE

(* All but the state of a session is the same. *)
SameSurfaces(a, b) ==
  \A s \in Sessions :
    /\ b.session[s].attached = a.session[s].attached /\ b.session[s].live = a.session[s].live
    /\ b.session[s].list = a.session[s].list /\ b.session[s].closing = a.session[s].closing
    /\ b.session[s].hadSurface = a.session[s].hadSurface
    /\ b.session[s].zombie = a.session[s].zombie

(* What updateState() does not touch.                                       *)
SameOutside(a, b) ==
  /\ b.requested = a.requested /\ b.exempt = a.exempt /\ b.launch = a.launch
  /\ b.stopAsked = a.stopAsked /\ b.notices = a.notices

(* What the states of sessions may become. *)
Asked(a, b) ==
  \A s \in Sessions :
    LET old == a.session[s].state  new == b.session[s].state IN
    IF Settled(a) = a.state \/ a.state \notin { "Running" } \cup Moving \/ Settled(a) = "RunningInBackground"
       \/ (a.state = "Running" /\ Settled(a) = "Closing")
    THEN new = old
    ELSE IF a.state = "Running"
    THEN new = IF a.session[s].attached /\ old = "Running" THEN "Suspending" ELSE old
    ELSE new = IF a.session[s].attached /\ old \in { "Suspending", "Suspended" }
               THEN "Running" ELSE old

(* The assertions that updateState() can find not to hold.                  *)
Harmless == { "closing while starting", "closing without its timer", "suspend without process" }

(* What updateState() makes of a, in full.                                  *)
Outcome(a, b) ==
  /\ b.state = Settled(a)
  /\ b.closing <=> IsClosing(a)
  /\ b.stopTimer <=> Timer(a)
  /\ SameSurfaces(a, b) /\ SameOutside(a, b) /\ Asked(a, b)
  /\ b.wakelock <=> IF b.state = a.state THEN a.wakelock ELSE WakelockIn(b.state, a.wakelock)
  /\ b.listed = IF b.state = a.state THEN a.listed ELSE ListedIn(b.state, a.listed)
  /\ b.deleteLater <=> a.deleteLater \/ (b.state # a.state /\ b.state = "Stopped")
  /\ b.startQueued <=> a.startQueued \/ (a.state = "StoppedResumable" /\ b.state = "Starting")
  /\ b.processState = IF a.state = "Suspended" /\ b.state # "Suspended" /\ a.processState = "Suspended"
                      THEN "Running" ELSE a.processState
  /\ b.process = IF a.state = "Suspended" /\ b.state # "Suspended" /\ a.process = "frozen"
                 THEN "alive" ELSE a.process
  /\ (a.state = "Closing" => a.closing) => b.failed \subseteq a.failed \cup Harmless

(* updateState() looks at a session's surfaces only. *)
LEMMA SameView ==
  ASSUME NEW a \in Sane, NEW b \in Sane, SameSurfaces(a, b)
  PROVE  /\ Attached(b) = Attached(a)
         /\ \A s \in Sessions : /\ IsSingle(b, s) <=> IsSingle(a, s)
                                /\ ListEmpty(b, s) <=> ListEmpty(a, s)
                                /\ HasClosingSurfaces(b, s) <=> HasClosingSurfaces(a, s)
         /\ LostAllSurfaces(b) <=> LostAllSurfaces(a)
         /\ b.requested = a.requested => (WantsRunning(b) <=> WantsRunning(a))
         /\ /\ b.closing <=> IsClosing(a)
            /\ b.state \in { "Starting", "StoppedResumable" } <=>
                 a.state \in { "Starting", "StoppedResumable" }
            => (IsClosing(b) <=> IsClosing(a))
         /\ /\ b.closing <=> IsClosing(a)
            /\ IsClosing(a)
            => IsClosing(b)
<1>1. Attached(b) = Attached(a)
  BY DEF Attached, SameSurfaces
<1>2. \A s \in Sessions : /\ IsSingle(b, s) <=> IsSingle(a, s)
                          /\ ListEmpty(b, s) <=> ListEmpty(a, s)
                          /\ HasClosingSurfaces(b, s) <=> HasClosingSurfaces(a, s)
                          /\ b.session[s].hadSurface = a.session[s].hadSurface
  BY <1>1 DEF IsSingle, ListEmpty, HasClosingSurfaces, SameSurfaces
<1>3. LostAllSurfaces(b) <=> LostAllSurfaces(a)
  BY <1>2 DEF LostAllSurfaces
<1>4. b.requested = a.requested => (WantsRunning(b) <=> WantsRunning(a))
  BY <1>2 DEF WantsRunning
<1>5. ASSUME b.closing <=> IsClosing(a),
             b.state \in { "Starting", "StoppedResumable" } <=>
                 a.state \in { "Starting", "StoppedResumable" }
      PROVE  IsClosing(b) <=> IsClosing(a)
  BY <1>1, <1>2, <1>5 DEF IsClosing
<1>6. b.closing => IsClosing(b)
  BY DEF IsClosing
<1> QED
  BY <1>1, <1>2, <1>3, <1>4, <1>5, <1>6

(* All but the flags that updateState() sets first.                         *)
SameRest(a, b) ==
  /\ b.state = a.state /\ b.processState = a.processState /\ b.wakelock = a.wakelock
  /\ b.listed = a.listed /\ b.deleteLater = a.deleteLater /\ b.startQueued = a.startQueued
  /\ b.session = a.session /\ b.process = a.process /\ SameOutside(a, b)

(* Writing m_closing writes nothing else.                                   *)
LEMMA ClosingSet ==
  ASSUME NEW a \in Sane, NEW c \in BOOLEAN, NEW b, b = [ a EXCEPT !.closing = c ]
  PROVE  /\ b \in Sane /\ SameRest(a, b)
         /\ b.closing = c /\ b.stopTimer = a.stopTimer /\ b.failed = a.failed
<1>1. b \in Sane
  BY FlagsSane
<1> QED
  BY <1>1, Zenon DEF Sane, AppRecord, SameRest, SameOutside

(* Nor does writing m_stopTimer.                                            *)
LEMMA TimerSet ==
  ASSUME NEW a \in Sane, NEW c \in BOOLEAN, NEW b, b = [ a EXCEPT !.stopTimer = c ]
  PROVE  /\ b \in Sane /\ SameRest(a, b)
         /\ b.stopTimer = c /\ b.closing = a.closing /\ b.failed = a.failed
<1>1. b \in Sane
  BY FlagsSane
<1> QED
  BY <1>1, Zenon DEF Sane, AppRecord, SameRest, SameOutside

(* Nor does an assertion that fails.                                        *)
LEMMA AssertFails ==
  ASSUME NEW a \in Sane, NEW name \in Assertion,
         NEW b, b = [ a EXCEPT !.failed = @ \cup { name } ]
  PROVE  /\ b \in Sane /\ SameRest(a, b)
         /\ b.stopTimer = a.stopTimer /\ b.closing = a.closing
         /\ b.failed = a.failed \cup { name }
<1>2. b \in Sane
  BY FailedSane
<1>3. /\ SameRest(a, b) /\ b.stopTimer = a.stopTimer /\ b.closing = a.closing
      /\ b.failed = a.failed \cup { name }
  BY Zenon DEF Sane, AppRecord, SameRest, SameOutside
<1> QED
  BY <1>2, <1>3

(* What setInternalState() writes before it calls updateState().            *)
Entered(a, st, b) ==
  /\ b.state = st /\ b.processState = a.processState /\ b.startQueued = a.startQueued
  /\ b.wakelock = WakelockIn(st, a.wakelock) /\ b.listed = ListedIn(st, a.listed)
  /\ b.deleteLater = (a.deleteLater \/ st = "Stopped")
  /\ b.session = a.session /\ b.process = a.process /\ SameOutside(a, b)
  /\ b.stopTimer = a.stopTimer /\ b.closing = a.closing /\ b.failed = a.failed

(* Enter() does that.                                                       *)
LEMMA EnterSet ==
  ASSUME NEW a \in Sane, NEW st \in InternalState, a.process = "frozen" => st \in FrozenStates,
         NEW b, b = Enter(a, st)
  PROVE  b \in Sane /\ Entered(a, st, b)
<1>1. b \in Sane
  BY EnterSane DEF Sane
<1>2. b = [ a EXCEPT !.state = st, !.wakelock = WakelockIn(st, a.wakelock),
                      !.listed = ListedIn(st, a.listed),
                      !.deleteLater = a.deleteLater \/ st = "Stopped" ]
  BY DEF Enter
<1>3. /\ DOMAIN b = DOMAIN a
      /\ b.state = st /\ b.wakelock = WakelockIn(st, a.wakelock)
      /\ b.listed = ListedIn(st, a.listed) /\ b.deleteLater = (a.deleteLater \/ st = "Stopped")
  BY <1>2, Zenon DEF Sane, AppRecord
<1>4. /\ b.processState = a.processState /\ b.startQueued = a.startQueued
      /\ b.session = a.session /\ b.process = a.process /\ SameOutside(a, b)
      /\ b.stopTimer = a.stopTimer /\ b.closing = a.closing /\ b.failed = a.failed
  BY <1>2, Zenon DEF Sane, AppRecord, SameOutside
<1> QED
  BY <1>1, <1>3, <1>4, Zenon DEF Entered

(* The three cases of one call.                                             *)
LEMMA UpdateUnfolds ==
  ASSUME NEW update, NEW a \in Sane
  PROVE  \E b \in Sane :
           /\ SameRest(a, b) /\ (b.closing <=> IsClosing(a))
           /\ b.stopTimer = a.stopTimer /\ b.failed = a.failed
           /\ Leaves(a) => UpdateOnce(a, update) = ApplyClosing(b, update)
           /\ ~ Leaves(a) /\ WantsRunning(a) =>
                UpdateOnce(a, update) = ApplyRequestedRunning(b, update)
           /\ ~ Leaves(a) /\ ~ WantsRunning(a) =>
                UpdateOnce(a, update) = ApplyRequestedSuspended(b, update)
<1> DEFINE b == [ a EXCEPT !.closing = IsClosing(a) ]
<1>1. IsClosing(a) \in BOOLEAN
  BY DEF IsClosing, Sane, AppRecord
<1>2. PICK c \in BOOLEAN : c = IsClosing(a)
  BY <1>1
<1>3. b = [ a EXCEPT !.closing = c ]
  BY <1>2
<1> HIDE DEF b
<1>4. /\ b \in Sane /\ SameRest(a, b) /\ b.closing = c
      /\ b.stopTimer = a.stopTimer /\ b.failed = a.failed
  BY <1>3, ClosingSet
<1>5. b.closing <=> IsClosing(a)
  BY <1>2, <1>4, Zenon
<1>6. /\ Leaves(a) => UpdateOnce(a, update) = ApplyClosing(b, update)
      /\ ~ Leaves(a) /\ WantsRunning(a) =>
           UpdateOnce(a, update) = ApplyRequestedRunning(b, update)
      /\ ~ Leaves(a) /\ ~ WantsRunning(a) =>
           UpdateOnce(a, update) = ApplyRequestedSuspended(b, update)
  BY <1>5 DEF UpdateOnce, Leaves, b
<1> QED
  BY <1>4, <1>5, <1>6

(* An outcome in which the state stays.                                     *)
LEMMA StillOutcome ==
  ASSUME NEW a \in Sane, NEW b \in Sane, Settled(a) = a.state, SameRest(a, b),
         b.closing <=> IsClosing(a), b.stopTimer <=> Timer(a),
         (a.state = "Closing" => a.closing) => b.failed \subseteq a.failed \cup Harmless
  PROVE  Outcome(a, b)
<1>1. SameSurfaces(a, b) /\ SameOutside(a, b) /\ Asked(a, b)
  <2>1. b.session = a.session /\ SameOutside(a, b)
    BY DEF SameRest
  <2>2. SameSurfaces(a, b)
    BY <2>1 DEF SameSurfaces
  <2>3. Asked(a, b)
    <3>1. \A s \in Sessions : b.session[s].state = a.session[s].state
      BY <2>1
    <3>2. Settled(a) = a.state
      OBVIOUS
    <3> QED
      BY <3>1, <3>2, SMT DEF Asked
  <2> QED
    BY <2>1, <2>2, <2>3
<1> QED
  BY <1>1 DEF Outcome, SameRest

(* A call that stays in its state calls nothing.                            *)
LEMMA UpdateStays ==
  ASSUME NEW update, NEW a \in Sane, Settled(a) = a.state
  PROVE  Outcome(a, UpdateOnce(a, update))
<1> DEFINE r == UpdateOnce(a, update)
<1>1. PICK b \in Sane :
           /\ SameRest(a, b) /\ (b.closing <=> IsClosing(a))
           /\ b.stopTimer = a.stopTimer /\ b.failed = a.failed
           /\ Leaves(a) => UpdateOnce(a, update) = ApplyClosing(b, update)
           /\ ~ Leaves(a) /\ WantsRunning(a) =>
                UpdateOnce(a, update) = ApplyRequestedRunning(b, update)
           /\ ~ Leaves(a) /\ ~ WantsRunning(a) =>
                UpdateOnce(a, update) = ApplyRequestedSuspended(b, update)
  BY UpdateUnfolds
<1> HIDE DEF r
<1>2. a.state \in InternalState /\ b.state = a.state /\ a.closing \in BOOLEAN
      /\ a.stopTimer \in BOOLEAN
  BY <1>1 DEF Sane, AppRecord, SameRest
<1>3. SUFFICES /\ r \in Sane /\ SameRest(b, r) /\ r.closing = b.closing
               /\ r.stopTimer <=> Timer(a)
               /\ (a.state = "Closing" => a.closing) => r.failed \subseteq b.failed \cup Harmless
  <2>1. SameRest(a, r) /\ (r.closing <=> IsClosing(a))
    BY <1>1, <1>3, Zenon DEF SameRest, SameOutside
  <2> QED
    BY <1>1, <1>3, <2>1, StillOutcome DEF r
<1>4. CASE Leaves(a)
  <2>1. r = ApplyClosing(b, update)
    BY <1>1, <1>4 DEF r
  <2>2. CASE a.state = "Starting"
    <3>1. r = QAssert(b, FALSE, "closing while starting")
      BY <1>2, <2>1, <2>2 DEF ApplyClosing
    <3>2. /\ r \in Sane /\ SameRest(b, r) /\ r.stopTimer = b.stopTimer /\ r.closing = b.closing
          /\ r.failed = b.failed \cup { "closing while starting" }
      BY <3>1, AssertFails DEF Assertion, QAssert
    <3>3. r.stopTimer <=> Timer(a)
      BY <1>1, <1>4, <2>2, <3>2 DEF Timer, Moving
    <3> QED
      BY <3>2, <3>3 DEF Harmless
  <2>3. CASE a.state \in { "Running", "RunningInBackground" }
    <3>1. ~ IsClosing(a)
      BY <2>3 DEF Settled, Moving
    <3> DEFINE d == [ b EXCEPT !.stopTimer = TRUE ]
    <3>2. /\ d \in Sane /\ SameRest(b, d)
          /\ d.stopTimer = TRUE /\ d.closing = b.closing /\ d.failed = b.failed
      BY TimerSet
    <3> HIDE DEF d
    <3>3. r = d
      BY <1>1, <1>2, <2>1, <2>3, <3>1, <3>2 DEF ApplyClosing, d
    <3>4. Timer(a)
      BY <1>4, <2>3 DEF Timer
    <3> QED
      BY <3>2, <3>3, <3>4
  <2>4. CASE a.state \in Moving \/ a.state = "StoppedResumable"
    BY <1>2, <1>4, <2>4 DEF Settled, Leaves, Moving
  <2>5. CASE a.state = "Closing"
    <3>1. PICK d \in Sane : /\ SameRest(b, d) /\ d.stopTimer = b.stopTimer /\ d.closing = b.closing
                            /\ (b.closing => d = b) /\ d = QAssert(b, b.closing, "closing not meant")
      <4>1. CASE b.closing
        BY <4>1, Zenon DEF QAssert, SameRest, SameOutside
      <4>2. CASE ~ b.closing
        <5>1. QAssert(b, b.closing, "closing not meant") = QAssert(b, FALSE, "closing not meant")
          BY <4>2 DEF QAssert
        <5> QED
          BY <4>2, <5>1, AssertFails DEF Assertion, QAssert
      <4> QED
        BY <4>1, <4>2
    <3>2. r = IF d.stopTimer THEN d ELSE QAssert(d, FALSE, "closing without its timer")
      BY <1>2, <2>1, <2>5, <3>1 DEF ApplyClosing, QAssert
    <3>3. /\ r \in Sane /\ SameRest(d, r) /\ r.stopTimer = d.stopTimer /\ r.closing = d.closing
          /\ r.failed \subseteq d.failed \cup { "closing without its timer" }
      <4>1. CASE d.stopTimer
        BY <3>1, <3>2, <4>1, Zenon DEF SameRest, SameOutside
      <4>2. CASE ~ d.stopTimer
        <5>1. PICK name \in Assertion : name = "closing without its timer"
          BY DEF Assertion
        <5>2. r = [ d EXCEPT !.failed = @ \cup { name } ]
          BY <3>2, <4>2, <5>1 DEF QAssert
        <5>3. /\ r \in Sane /\ SameRest(d, r) /\ r.stopTimer = d.stopTimer
              /\ r.closing = d.closing
          BY <5>2, AssertFails
        <5>4. r.failed = d.failed \cup { name }
          BY <5>2, AssertFails
        <5> QED
          BY <5>1, <5>3, <5>4
      <4> QED
        BY <4>1, <4>2
    <3>4. a.closing => IsClosing(a)
      BY DEF IsClosing
    <3>5. r.stopTimer <=> Timer(a)
      BY <1>1, <1>4, <2>5, <3>1, <3>3 DEF Timer, Moving
    <3>6. SameRest(b, r) /\ r.closing = b.closing
      BY <3>1, <3>3, Zenon DEF SameRest, SameOutside
    <3> QED
      BY <1>1, <2>5, <3>1, <3>3, <3>4, <3>5, <3>6 DEF Harmless
  <2>6. CASE a.state \in { "SuspendingWaitProcess", "Stopped" }
    <3>1. r = b
      BY <1>2, <2>1, <2>6 DEF ApplyClosing
    <3>2. r.stopTimer <=> Timer(a)
      BY <1>1, <1>4, <2>6, <3>1 DEF Timer, Moving
    <3> QED
      BY <3>1, <3>2 DEF SameRest, SameOutside
  <2> QED
    BY <1>2, <2>2, <2>3, <2>4, <2>5, <2>6 DEF InternalState, Moving
<1>5. CASE ~ Leaves(a)
  <2> DEFINE d == [ b EXCEPT !.stopTimer = FALSE ]
  <2>1. /\ d \in Sane /\ SameRest(b, d)
        /\ d.stopTimer = FALSE /\ d.closing = b.closing /\ d.failed = b.failed
    BY TimerSet
  <2> HIDE DEF d
  <2>2. ~ Timer(a)
    BY <1>5 DEF Timer
  <2>3. d.state = a.state /\ d.processState = a.processState
    BY <1>1, <2>1 DEF SameRest
  <2>4. a.state = "Closing" => ~ a.closing
    BY <1>5 DEF Leaves, IsClosing
  <2>5. SUFFICES r = d \/ \E name \in Assertion : r = QAssert(d, FALSE, name) /\ (a.state = "Closing" \/ name \in Harmless)
    <3>1. CASE r = d
      BY <2>1, <2>2, <3>1
    <3>2. ASSUME NEW name \in Assertion, r = QAssert(d, FALSE, name), a.state = "Closing" \/ name \in Harmless
          PROVE  /\ r \in Sane /\ SameRest(b, r) /\ r.closing = b.closing
                 /\ r.stopTimer <=> Timer(a)
                 /\ (a.state = "Closing" => a.closing) => r.failed \subseteq b.failed \cup Harmless
      <4>1. /\ r \in Sane /\ SameRest(d, r) /\ r.stopTimer = d.stopTimer /\ r.closing = d.closing
            /\ r.failed = d.failed \cup { name }
        BY <2>1, <3>2, AssertFails DEF QAssert
      <4>2. SameRest(b, r) /\ r.closing = b.closing
        BY <2>1, <4>1, Zenon DEF SameRest, SameOutside
      <4> QED
        BY <2>1, <2>2, <2>4, <3>2, <4>1, <4>2
    <3> QED
      BY <2>5, <3>1, <3>2
  <2>6. CASE WantsRunning(a)
    <3>1. r = ApplyRequestedRunning(b, update)
      BY <1>1, <1>5, <2>6 DEF r
    <3>2. a.state \notin { "RunningInBackground", "StoppedResumable" } \cup Moving
      BY <1>2, <1>5, <2>6 DEF Settled, Leaves, Moving
    <3>3. r = IF a.state = "Closing" THEN QAssert(d, FALSE, "running while closing") ELSE d
      BY <1>2, <2>3, <3>1, <3>2 DEF ApplyRequestedRunning, Moving, d
    <3> QED
      BY <3>3 DEF Assertion
  <2>7. CASE ~ WantsRunning(a)
    <3>1. r = ApplyRequestedSuspended(b, update)
      BY <1>1, <1>5, <2>7 DEF r
    <3>2. a.state = "Running" => a.processState # "Running"
      BY <1>2, <1>5, <2>7 DEF Settled, Leaves, Moving
    <3>3. r = CASE d.state = "Running" -> QAssert(d, d.processState = "Unknown", "suspend without process")
                [] d.state = "Closing" -> QAssert(d, FALSE, "suspended while closing")
                [] OTHER -> d
      BY <2>3, <3>1, <3>2 DEF ApplyRequestedSuspended, d
    <3>4. CASE a.state = "Running" /\ d.processState # "Unknown"
      BY <2>3, <3>3, <3>4 DEF Assertion, Harmless, QAssert
    <3>5. CASE a.state = "Running" /\ d.processState = "Unknown"
      BY <2>3, <3>3, <3>5 DEF QAssert
    <3>6. CASE a.state = "Closing"
      BY <2>3, <3>3, <3>6 DEF Assertion
    <3>7. CASE a.state \notin { "Running", "Closing" }
      BY <2>3, <3>3, <3>7
    <3> QED
      BY <3>4, <3>5, <3>6, <3>7
  <2> QED
    BY <2>6, <2>7
<1> QED
  BY <1>4, <1>5

(* The types of the fields that are most often needed.                      *)
LEMMA SessionTypesOf ==
  ASSUME NEW a \in Sane
  PROVE  /\ a.state \in InternalState /\ a.closing \in BOOLEAN /\ a.stopTimer \in BOOLEAN
         /\ a.wakelock \in BOOLEAN /\ a.deleteLater \in BOOLEAN /\ a.startQueued \in BOOLEAN
         /\ a.exempt \in BOOLEAN
         /\ (a.process = "frozen" => a.state \in FrozenStates)
BY DEF Sane, AppRecord

(* From a to state st in one step of updateState(), which changes no more. *)
HopTo(a, st, e) ==
  /\ e.state = st /\ (e.closing <=> IsClosing(a))
  /\ SameSurfaces(a, e) /\ SameOutside(a, e)
  /\ \A s \in Sessions : e.session[s].state = a.session[s].state
  /\ e.wakelock <=> WakelockIn(st, a.wakelock)
  /\ e.listed = ListedIn(st, a.listed)
  /\ e.deleteLater <=> a.deleteLater \/ st = "Stopped"
  /\ e.startQueued <=> a.startQueued
  /\ e.processState = a.processState /\ e.process = a.process
  /\ e.failed \subseteq a.failed \cup Harmless

(* updateState() called from within sees what its caller saw.               *)
LEMMA HopView ==
  ASSUME NEW a \in Sane, NEW d \in Sane, SameRest(a, d), d.closing <=> IsClosing(a),
         NEW st \in InternalState, NEW c \in Sane, Entered(d, st, c),
         \/ IsClosing(a)
         \/ st \in { "Starting", "StoppedResumable" } <=>
              a.state \in { "Starting", "StoppedResumable" }
  PROVE  /\ c.state = st /\ c.stopTimer = d.stopTimer /\ SameSurfaces(a, c)
         /\ c.closing <=> IsClosing(a)
         /\ IsClosing(c) <=> IsClosing(a)
         /\ LostAllSurfaces(c) <=> LostAllSurfaces(a)
         /\ WantsRunning(c) <=> WantsRunning(a)
         /\ c.processState = a.processState /\ c.exempt = a.exempt
<1>1. /\ c.state = st /\ c.closing = d.closing /\ c.session = a.session
      /\ SameOutside(a, c) /\ c.stopTimer = d.stopTimer
      /\ c.processState = a.processState /\ c.exempt = a.exempt /\ c.requested = a.requested
  BY DEF SameRest, Entered, SameOutside
<1>2. SameSurfaces(a, c)
  BY <1>1 DEF SameSurfaces
<1>3. c.closing <=> IsClosing(a)
  BY <1>1, Zenon
<1> QED
  BY <1>1, <1>2, <1>3, SameView

(* Entering the state that updateState() leads to, its call within changes  *)
(* nothing more.                                                            *)
LEMMA Hop ==
  ASSUME NEW a \in Sane, NEW d \in Sane, SameRest(a, d), d.closing <=> IsClosing(a),
         d.failed = a.failed,
         NEW st \in InternalState, NEW c \in Sane, Entered(d, st, c),
         IsClosing(c) <=> IsClosing(a), c.closing <=> IsClosing(a), st = "Closing" => IsClosing(a),
         NEW e \in Sane, Outcome(c, e), Settled(c) = st
  PROVE  HopTo(a, st, e) /\ (e.stopTimer <=> Timer(c))
<1>1. /\ c.state = st /\ c.session = a.session
      /\ SameOutside(a, c) /\ c.processState = a.processState /\ c.process = a.process
      /\ c.failed = a.failed /\ c.listed = ListedIn(st, a.listed)
  BY DEF SameRest, Entered, SameOutside
<1>2. /\ c.wakelock = WakelockIn(st, a.wakelock)
      /\ c.deleteLater = (a.deleteLater \/ st = "Stopped")
      /\ c.startQueued = a.startQueued
  BY Zenon DEF SameRest, Entered, SameOutside
<1>3. e.state = st /\ e.listed = c.listed /\ e.processState = c.processState /\ e.process = c.process
  BY <1>1 DEF Outcome
<1>4. /\ (e.closing <=> IsClosing(c)) /\ (e.stopTimer <=> Timer(c))
      /\ SameSurfaces(c, e) /\ SameOutside(c, e) /\ Asked(c, e)
  BY DEF Outcome
<1>5. e.wakelock <=> c.wakelock
  BY <1>1, <1>3 DEF Outcome
<1>6. e.deleteLater <=> c.deleteLater
  BY <1>1, <1>3 DEF Outcome
<1>7. e.startQueued <=> c.startQueued
  BY <1>1, <1>3 DEF Outcome
<1>8. e.failed \subseteq c.failed \cup Harmless
  BY <1>1 DEF Outcome
<1>9. \A s \in Sessions : e.session[s].state = a.session[s].state
  BY <1>1, <1>4 DEF Asked
<1>10. SameSurfaces(a, e) /\ SameOutside(a, e)
  BY <1>1, <1>4 DEF SameSurfaces, SameOutside
<1>11. (e.wakelock <=> WakelockIn(st, a.wakelock))
  BY <1>2, <1>5, Zenon
<1>12. e.deleteLater <=> a.deleteLater \/ st = "Stopped"
  BY <1>2, <1>6, Zenon
<1>13. e.startQueued <=> a.startQueued
  BY <1>2, <1>7, Zenon
<1>14. e.closing <=> IsClosing(a)
  BY <1>4
<1> QED
  BY <1>1, <1>3, <1>4, <1>8, <1>9, <1>10, <1>11, <1>12, <1>13, <1>14 DEF HopTo

(* A hop to where updateState() leads is all of its outcome. *)
LEMMA HopOutcome ==
  ASSUME NEW a \in Sane, NEW st, NEW e \in Sane, HopTo(a, st, e), Settled(a) = st, a.state # st,
         a.state \notin Moving, st # "Starting", st # "SuspendingWaitSession",
         e.stopTimer <=> Timer(a)
  PROVE  Outcome(a, e)
<1>1. a.state = "Running" => st \in { "Closing", "RunningInBackground", "SuspendingWaitSession" }
  BY DEF Settled, Moving
<1>2. Asked(a, e)
  BY <1>1 DEF HopTo, Asked
<1>3. e.wakelock <=> IF e.state = a.state THEN a.wakelock ELSE WakelockIn(e.state, a.wakelock)
  BY DEF HopTo
<1>4. e.deleteLater <=> a.deleteLater \/ (e.state # a.state /\ e.state = "Stopped")
  BY DEF HopTo
<1>5. e.startQueued <=> a.startQueued \/ (a.state = "StoppedResumable" /\ e.state = "Starting")
  BY DEF HopTo
<1> QED
  BY <1>2, <1>3, <1>4, <1>5 DEF HopTo, Outcome, Moving

(* A function that does what updateState() should, where it stays.          *)
Good(update) == \A x \in Sane : Settled(x) = x.state => Outcome(x, update[x])

(* c is to updateState() what a is.                                         *)
AsSeen(a, c) ==
  /\ IsClosing(c) <=> IsClosing(a)
  /\ LostAllSurfaces(c) <=> LostAllSurfaces(a)
  /\ WantsRunning(c) <=> WantsRunning(a)
  /\ c.processState = a.processState /\ c.exempt = a.exempt

(* One change of state, with the call of updateState() within it.           *)
LEMMA HopBy ==
  ASSUME NEW update, Keeps(update), Good(update),
         NEW a \in Sane, NEW d \in Sane, SameRest(a, d), d.closing <=> IsClosing(a),
         d.failed = a.failed,
         NEW st \in InternalState, a.state # st, a.process # "frozen",
         \/ IsClosing(a)
         \/ st \in { "Starting", "StoppedResumable" } <=>
              a.state \in { "Starting", "StoppedResumable" },
         st = "Closing" => IsClosing(a),
         \A c \in Sane : c.state = st /\ AsSeen(a, c) => Settled(c) = st,
         NEW e, e = SetInternalState(d, st, update)
  PROVE  /\ e \in Sane /\ HopTo(a, st, e)
         /\ e.stopTimer <=>
              /\ IsClosing(a) \/ (LostAllSurfaces(a) /\ st # "StoppedResumable")
              /\ d.stopTimer \/ st \in { "Running", "RunningInBackground" } \cup Moving
<1>1. d.state = a.state /\ d.process = a.process
  BY DEF SameRest
<1>2. PICK c : c = Enter(d, st)
  OBVIOUS
<1>3. c \in Sane /\ Entered(d, st, c)
  BY <1>1, <1>2, EnterSet
<1>4. /\ c.state = st /\ c.stopTimer = d.stopTimer /\ AsSeen(a, c)
      /\ c.closing <=> IsClosing(a)
  BY <1>3, HopView DEF AsSeen
<1>5. Settled(c) = st
  BY <1>3, <1>4
<1>6. e = update[c]
  BY <1>1, <1>2 DEF SetInternalState
<1>7. e \in Sane /\ Outcome(c, e)
  BY <1>3, <1>4, <1>5, <1>6 DEF Keeps, Good
<1>8. HopTo(a, st, e) /\ (e.stopTimer <=> Timer(c))
  BY <1>3, <1>4, <1>5, <1>7, Hop DEF AsSeen
<1>9. Timer(c) <=>
        /\ IsClosing(a) \/ (LostAllSurfaces(a) /\ st # "StoppedResumable")
        /\ d.stopTimer \/ st \in { "Running", "RunningInBackground" } \cup Moving
  <2>1. Leaves(c) <=> IsClosing(a) \/ (LostAllSurfaces(a) /\ st # "StoppedResumable")
    BY <1>4 DEF Leaves, AsSeen
  <2> QED
    BY <1>4, <2>1 DEF Timer
<1> QED
  BY <1>7, <1>8, <1>9

(* The fields of an application after suspend() or resume() of its sessions. *)
LEMMA SessionsSet ==
  ASSUME NEW a \in Sane, NEW f \in [ Sessions -> SaneSession ],
         NEW b, b = [ a EXCEPT !.session = f ]
  PROVE  /\ b \in Sane /\ b.session = f
         /\ b.state = a.state /\ b.processState = a.processState /\ b.wakelock = a.wakelock
         /\ b.listed = a.listed /\ b.deleteLater = a.deleteLater
         /\ b.startQueued = a.startQueued /\ b.process = a.process /\ SameOutside(a, b)
         /\ b.closing = a.closing /\ b.stopTimer = a.stopTimer /\ b.failed = a.failed
<1>1. b \in Sane
  BY SessionsSane
<1> QED
  BY <1>1, Zenon DEF Sane, AppRecord, SameOutside

(* A session in state st.                                                   *)
WithState(r, st) == [ r EXCEPT !.state = st ]

(* Its other fields are those it had.                                       *)
LEMMA StateSet ==
  ASSUME NEW r \in SaneSession, NEW st \in SessionState, r.attached = TRUE
  PROVE  /\ WithState(r, st) \in SaneSession /\ WithState(r, st).state = st
         /\ WithState(r, st).attached = r.attached /\ WithState(r, st).live = r.live
         /\ WithState(r, st).list = r.list /\ WithState(r, st).closing = r.closing
         /\ WithState(r, st).hadSurface = r.hadSurface
         /\ WithState(r, st).zombie = r.zombie
<1>1. SUFFICES ASSUME NEW x, x = [ r EXCEPT !.state = st ]
               PROVE  /\ x \in SaneSession /\ x.state = st
                      /\ x.attached = r.attached /\ x.live = r.live /\ x.list = r.list
                      /\ x.closing = r.closing /\ x.hadSurface = r.hadSurface
                      /\ x.zombie = r.zombie
  BY DEF WithState
<1>2. x \in SessionRecord
  BY <1>1, Zenon DEF SaneSession, SessionRecord
<1>3. /\ x.state = st
      /\ x.attached = r.attached /\ x.live = r.live /\ x.list = r.list
      /\ x.closing = r.closing /\ x.hadSurface = r.hadSurface /\ x.zombie = r.zombie
  BY <1>1, Zenon DEF SaneSession, SessionRecord
<1> QED
  BY <1>2, <1>3, Zenon DEF SaneSession

(* All but the sessions is the same.                                        *)
SameBut(a, b) ==
  /\ b.state = a.state /\ b.processState = a.processState /\ b.wakelock = a.wakelock
  /\ b.listed = a.listed /\ b.deleteLater = a.deleteLater
  /\ b.startQueued = a.startQueued /\ b.process = a.process /\ SameOutside(a, b)
  /\ b.closing = a.closing /\ b.stopTimer = a.stopTimer /\ b.failed = a.failed
  /\ SameSurfaces(a, b)

(* Session::suspend() on every session writes their states only.            *)
LEMMA SuspendSet ==
  ASSUME NEW a \in Sane, NEW b, b = SuspendSessions(a)
  PROVE  /\ b \in Sane /\ SameBut(a, b)
         /\ \A s \in Sessions :
              b.session[s].state = IF a.session[s].attached /\ a.session[s].state = "Running"
                                   THEN "Suspending" ELSE a.session[s].state
<1> DEFINE f == [ s \in Sessions |->
                    IF a.session[s].attached /\ a.session[s].state = "Running"
                    THEN [ a.session[s] EXCEPT !.state = "Suspending" ]
                    ELSE a.session[s] ]
<1>1. a.session \in [ Sessions -> SaneSession ]
  BY DEF Sane
<1>2. ASSUME NEW s \in Sessions
      PROVE  /\ f[s] \in SaneSession
             /\ f[s].state = IF a.session[s].attached /\ a.session[s].state = "Running"
                             THEN "Suspending" ELSE a.session[s].state
             /\ f[s].attached = a.session[s].attached /\ f[s].live = a.session[s].live
             /\ f[s].list = a.session[s].list /\ f[s].closing = a.session[s].closing
             /\ f[s].hadSurface = a.session[s].hadSurface /\ f[s].zombie = a.session[s].zombie
  <2>1. a.session[s] \in SaneSession /\ "Suspending" \in SessionState
    BY <1>1 DEF SessionState
  <2>2. CASE a.session[s].attached /\ a.session[s].state = "Running"
    <3>1. f[s] = WithState(a.session[s], "Suspending")
      BY <2>2 DEF WithState
    <3> HIDE DEF f
    <3>2. PICK r \in SaneSession : r = a.session[s]
      BY <2>1
    <3>3. r.attached = TRUE
      BY <2>2, <3>2 DEF SaneSession, SessionRecord
    <3>4. /\ WithState(r, "Suspending") \in SaneSession /\ WithState(r, "Suspending").state = "Suspending"
          /\ WithState(r, "Suspending").attached = r.attached /\ WithState(r, "Suspending").live = r.live
          /\ WithState(r, "Suspending").list = r.list /\ WithState(r, "Suspending").closing = r.closing
          /\ WithState(r, "Suspending").hadSurface = r.hadSurface
          /\ WithState(r, "Suspending").zombie = r.zombie
      BY <2>1, <3>3, StateSet
    <3> QED
      BY <2>2, <3>1, <3>2, <3>4
  <2>3. CASE ~ (a.session[s].attached /\ a.session[s].state = "Running")
    <3>1. f[s] = a.session[s]
      BY <2>3
    <3> HIDE DEF f
    <3> QED
      BY <2>1, <2>3, <3>1
  <2> QED
    BY <2>2, <2>3
<1>3. f \in [ Sessions -> SaneSession ]
  BY <1>2
<1>4. b = [ a EXCEPT !.session = f ]
  BY DEF SuspendSessions
<1> HIDE DEF f
<1>5. /\ b \in Sane /\ b.session = f
      /\ b.state = a.state /\ b.processState = a.processState /\ b.wakelock = a.wakelock
      /\ b.listed = a.listed /\ b.deleteLater = a.deleteLater
      /\ b.startQueued = a.startQueued /\ b.process = a.process /\ SameOutside(a, b)
      /\ b.closing = a.closing /\ b.stopTimer = a.stopTimer /\ b.failed = a.failed
  BY <1>3, <1>4, SessionsSet
<1>6. SameSurfaces(a, b)
  BY <1>2, <1>5 DEF SameSurfaces
<1> QED
  BY <1>2, <1>5, <1>6 DEF SameBut

(* So does Session::resume().                                               *)
LEMMA ResumeSet ==
  ASSUME NEW a \in Sane, NEW b, b = ResumeSessions(a)
  PROVE  /\ b \in Sane /\ SameBut(a, b)
         /\ \A s \in Sessions :
              b.session[s].state =
                IF a.session[s].attached /\ a.session[s].state \in { "Suspending", "Suspended" }
                THEN "Running" ELSE a.session[s].state
<1> DEFINE f == [ s \in Sessions |->
                    IF a.session[s].attached /\ a.session[s].state \in { "Suspending", "Suspended" }
                    THEN [ a.session[s] EXCEPT !.state = "Running" ]
                    ELSE a.session[s] ]
<1>1. a.session \in [ Sessions -> SaneSession ]
  BY DEF Sane
<1>2. ASSUME NEW s \in Sessions
      PROVE  /\ f[s] \in SaneSession
             /\ f[s].state =
                  IF a.session[s].attached /\ a.session[s].state \in { "Suspending", "Suspended" }
                  THEN "Running" ELSE a.session[s].state
             /\ f[s].attached = a.session[s].attached /\ f[s].live = a.session[s].live
             /\ f[s].list = a.session[s].list /\ f[s].closing = a.session[s].closing
             /\ f[s].hadSurface = a.session[s].hadSurface /\ f[s].zombie = a.session[s].zombie
  <2>1. a.session[s] \in SaneSession /\ "Running" \in SessionState
    BY <1>1 DEF SessionState
  <2>2. CASE a.session[s].attached /\ a.session[s].state \in { "Suspending", "Suspended" }
    <3>1. f[s] = WithState(a.session[s], "Running")
      BY <2>2 DEF WithState
    <3> HIDE DEF f
    <3>2. PICK r \in SaneSession : r = a.session[s]
      BY <2>1
    <3>3. r.attached = TRUE
      BY <2>2, <3>2 DEF SaneSession, SessionRecord
    <3>4. /\ WithState(r, "Running") \in SaneSession /\ WithState(r, "Running").state = "Running"
          /\ WithState(r, "Running").attached = r.attached /\ WithState(r, "Running").live = r.live
          /\ WithState(r, "Running").list = r.list /\ WithState(r, "Running").closing = r.closing
          /\ WithState(r, "Running").hadSurface = r.hadSurface
          /\ WithState(r, "Running").zombie = r.zombie
      BY <2>1, <3>3, StateSet
    <3> QED
      BY <2>2, <3>1, <3>2, <3>4
  <2>3. CASE ~ (a.session[s].attached /\ a.session[s].state \in { "Suspending", "Suspended" })
    <3>1. f[s] = a.session[s]
      BY <2>3
    <3> HIDE DEF f
    <3> QED
      BY <2>1, <2>3, <3>1
  <2> QED
    BY <2>2, <2>3
<1>3. f \in [ Sessions -> SaneSession ]
  BY <1>2
<1>4. b = [ a EXCEPT !.session = f ]
  BY DEF ResumeSessions
<1> HIDE DEF f
<1>5. /\ b \in Sane /\ b.session = f
      /\ b.state = a.state /\ b.processState = a.processState /\ b.wakelock = a.wakelock
      /\ b.listed = a.listed /\ b.deleteLater = a.deleteLater
      /\ b.startQueued = a.startQueued /\ b.process = a.process /\ SameOutside(a, b)
      /\ b.closing = a.closing /\ b.stopTimer = a.stopTimer /\ b.failed = a.failed
  BY <1>3, <1>4, SessionsSet
<1>6. SameSurfaces(a, b)
  BY <1>2, <1>5 DEF SameSurfaces
<1> QED
  BY <1>2, <1>5, <1>6 DEF SameBut

(* Application::suspend(), put together.                                    *)
LEMMA SuspendOutcome ==
  ASSUME NEW a \in Sane, a.state = "Running", Settled(a) = "SuspendingWaitSession", ~ Timer(a),
         NEW e \in Sane, HopTo(a, "SuspendingWaitSession", e), ~ e.stopTimer,
         NEW r, r = SuspendSessions(e)
  PROVE  Outcome(a, r)
<1>1. /\ r \in Sane /\ SameBut(e, r)
      /\ \A s \in Sessions :
           r.session[s].state = IF e.session[s].attached /\ e.session[s].state = "Running"
                                THEN "Suspending" ELSE e.session[s].state
  BY SuspendSet
<1>2. /\ r.state = "SuspendingWaitSession" /\ r.listed = ListedIn("SuspendingWaitSession", a.listed)
      /\ r.processState = a.processState /\ r.process = a.process
      /\ r.failed \subseteq a.failed \cup Harmless
      /\ SameSurfaces(a, r) /\ SameOutside(a, r)
  BY <1>1 DEF HopTo, SameBut, SameSurfaces, SameOutside
<1>3. /\ r.closing <=> IsClosing(a)
      /\ r.wakelock <=> WakelockIn("SuspendingWaitSession", a.wakelock)
      /\ r.deleteLater <=> a.deleteLater
      /\ r.startQueued <=> a.startQueued
      /\ ~ r.stopTimer
  BY <1>1, Zenon DEF HopTo, SameBut
<1>4. \A s \in Sessions : /\ e.session[s].state = a.session[s].state
                          /\ e.session[s].attached = a.session[s].attached
  BY DEF HopTo, SameSurfaces
<1>5. Asked(a, r)
  BY <1>1, <1>4 DEF Asked
<1> QED
  BY <1>2, <1>3, <1>5 DEF Outcome

(* A call that starts where resume() has nothing to do.                     *)
LEMMA UpdateNear ==
  ASSUME NEW update, Keeps(update), Good(update), NEW a \in Sane, a.state \notin Moving
  PROVE  Outcome(a, UpdateOnce(a, update))
<1> DEFINE r == UpdateOnce(a, update)
<1>1. PICK b \in Sane :
           /\ SameRest(a, b) /\ (b.closing <=> IsClosing(a))
           /\ b.stopTimer = a.stopTimer /\ b.failed = a.failed
           /\ Leaves(a) => UpdateOnce(a, update) = ApplyClosing(b, update)
           /\ ~ Leaves(a) /\ WantsRunning(a) =>
                UpdateOnce(a, update) = ApplyRequestedRunning(b, update)
           /\ ~ Leaves(a) /\ ~ WantsRunning(a) =>
                UpdateOnce(a, update) = ApplyRequestedSuspended(b, update)
  BY UpdateUnfolds
<1> HIDE DEF r
<1>2. /\ a.state \in InternalState /\ b.state = a.state /\ a.closing \in BOOLEAN
      /\ a.stopTimer \in BOOLEAN /\ b.process = a.process /\ b.exempt = a.exempt
      /\ b.processState = a.processState
  BY <1>1, SessionTypesOf DEF SameRest, SameOutside
<1>3. a.state \in { "Running", "RunningInBackground", "StoppedResumable" } => a.process # "frozen"
  BY SessionTypesOf DEF FrozenStates
<1>4. CASE Settled(a) = a.state
  BY <1>4, UpdateStays
<1>5. CASE IsClosing(a) /\ a.state \in { "Running", "RunningInBackground" }
  <2> DEFINE d == [ b EXCEPT !.stopTimer = TRUE ]
  <2>1. /\ d \in Sane /\ SameRest(b, d)
        /\ d.stopTimer = TRUE /\ d.closing = b.closing /\ d.failed = b.failed
    BY TimerSet
  <2> HIDE DEF d
  <2>2. SameRest(a, d) /\ (d.closing <=> IsClosing(a)) /\ d.failed = a.failed
    BY <1>1, <2>1, Zenon DEF SameRest, SameOutside
  <2>3. r = SetInternalState(d, "Closing", update)
    BY <1>1, <1>2, <1>5, <2>1 DEF ApplyClosing, Leaves, d, r
  <2>4. \A c \in Sane : c.state = "Closing" /\ AsSeen(a, c) => Settled(c) = "Closing"
    BY DEF Settled, Moving
  <2>5. /\ r \in Sane /\ HopTo(a, "Closing", r) /\ (r.stopTimer <=> TRUE)
    BY <1>3, <1>5, <2>1, <2>2, <2>3, <2>4, HopBy DEF InternalState
  <2>6. Timer(a) /\ Settled(a) = "Closing"
    BY <1>5 DEF Timer, Leaves, Settled
  <2> QED
    BY <1>5, <2>5, <2>6, HopOutcome DEF r
<1>6. CASE IsClosing(a) /\ a.state = "StoppedResumable"
  <2>1. SameRest(a, b) /\ (b.closing <=> IsClosing(a)) /\ b.failed = a.failed
    BY <1>1
  <2>2. r = SetInternalState(b, "Stopped", update)
    BY <1>1, <1>2, <1>6 DEF ApplyClosing, Leaves, r
  <2>3. \A c \in Sane : c.state = "Stopped" /\ AsSeen(a, c) => Settled(c) = "Stopped"
    BY DEF Settled, Moving
  <2>4. /\ r \in Sane /\ HopTo(a, "Stopped", r) /\ (r.stopTimer <=> a.stopTimer)
    BY <1>1, <1>3, <1>6, <2>1, <2>2, <2>3, HopBy DEF InternalState, Moving
  <2>5. (Timer(a) <=> a.stopTimer) /\ Settled(a) = "Stopped"
    BY <1>6 DEF Timer, Leaves, Settled, Moving
  <2> QED
    BY <1>6, <2>4, <2>5, HopOutcome DEF r
<1> DEFINE d == [ b EXCEPT !.stopTimer = FALSE ]
<1>7. /\ d \in Sane /\ SameRest(b, d)
      /\ d.stopTimer = FALSE /\ d.closing = b.closing /\ d.failed = b.failed
  BY TimerSet
<1> HIDE DEF d
<1>8. /\ SameRest(a, d) /\ (d.closing <=> IsClosing(a)) /\ d.failed = a.failed
  BY <1>1, <1>7, Zenon DEF SameRest, SameOutside
<1>9. d.state = a.state /\ d.exempt = a.exempt /\ d.processState = a.processState /\ d.session = a.session
  BY <1>8 DEF SameRest, SameOutside
<1>10. CASE ~ Leaves(a) /\ WantsRunning(a) /\ a.state = "RunningInBackground"
  <2>1. r = SetInternalState(d, "Running", update)
    BY <1>1, <1>2, <1>9, <1>10 DEF ApplyRequestedRunning, Resume, d, r
  <2>2. \A c \in Sane : c.state = "Running" /\ AsSeen(a, c) => Settled(c) = "Running"
    BY <1>10 DEF Settled, Moving, AsSeen, Leaves
  <2>3. /\ r \in Sane /\ HopTo(a, "Running", r) /\ ~ r.stopTimer
    BY <1>3, <1>7, <1>8, <1>10, <2>1, <2>2, HopBy DEF InternalState, Moving, Leaves
  <2>4. ~ Timer(a) /\ Settled(a) = "Running"
    BY <1>10 DEF Timer, Leaves, Settled, Moving
  <2> QED
    BY <1>10, <2>3, <2>4, HopOutcome DEF r
<1>11. CASE ~ Leaves(a) /\ WantsRunning(a) /\ a.state = "StoppedResumable"
  <2>1. PICK e : e = SetInternalState(d, "Starting", update)
    OBVIOUS
  <2>2. r = [ e EXCEPT !.startQueued = TRUE ]
    BY <1>1, <1>2, <1>9, <1>11, <2>1 DEF ApplyRequestedRunning, Respawn, Resume, d, r
  <2>3. \A c \in Sane : c.state = "Starting" /\ AsSeen(a, c) => Settled(c) = "Starting"
    BY <1>11 DEF Settled, Moving, AsSeen, Leaves
  <2>4. /\ e \in Sane /\ HopTo(a, "Starting", e) /\ ~ e.stopTimer
    BY <1>3, <1>7, <1>8, <1>11, <2>1, <2>3, HopBy DEF InternalState, Moving, Leaves
  <2>5. /\ r.state = e.state /\ r.processState = e.processState /\ r.wakelock = e.wakelock
        /\ r.listed = e.listed /\ r.deleteLater = e.deleteLater /\ r.startQueued = TRUE
        /\ r.session = e.session /\ r.process = e.process /\ SameOutside(e, r)
        /\ r.closing = e.closing /\ r.stopTimer = e.stopTimer /\ r.failed = e.failed
    BY <2>2, <2>4, Zenon DEF Sane, AppRecord, SameOutside
  <2>6. ~ Timer(a) /\ Settled(a) = "Starting"
    BY <1>11 DEF Timer, Leaves, Settled, Moving
  <2>7. /\ r.state = "Starting" /\ r.listed = ListedIn("Starting", a.listed)
        /\ r.processState = a.processState /\ r.process = a.process
        /\ r.failed \subseteq a.failed \cup Harmless
        /\ SameSurfaces(a, r) /\ SameOutside(a, r)
        /\ \A s \in Sessions : r.session[s].state = a.session[s].state
    BY <2>4, <2>5 DEF HopTo, SameSurfaces, SameOutside
  <2>8. /\ r.closing <=> IsClosing(a)
        /\ r.wakelock <=> WakelockIn("Starting", a.wakelock)
        /\ r.deleteLater <=> a.deleteLater
        /\ r.startQueued /\ ~ r.stopTimer
    BY <2>4, <2>5, Zenon DEF HopTo
  <2>9. Asked(a, r)
    BY <1>11, <2>7 DEF Asked, Moving
  <2> QED
    BY <1>11, <2>6, <2>7, <2>8, <2>9 DEF Outcome, r
<1>12. CASE ~ Leaves(a) /\ ~ WantsRunning(a) /\ a.state = "Running" /\ a.processState = "Running"
  <2>1. Attached(a) # {}
    BY <1>12 DEF Leaves, IsClosing
  <2>2. Attached(d) # {}
    BY <1>9, <2>1 DEF Attached
  <2>3. r = IF a.exempt THEN SetInternalState(d, "RunningInBackground", update)
            ELSE SuspendSessions(SetInternalState(d, "SuspendingWaitSession", update))
    BY <1>1, <1>9, <1>12, <2>2 DEF ApplyRequestedSuspended, Suspend, QAssert, d, r
  <2>4. CASE a.exempt
    <3>1. \A c \in Sane : c.state = "RunningInBackground" /\ AsSeen(a, c)
            => Settled(c) = "RunningInBackground"
      BY <1>12 DEF Settled, Moving, AsSeen, Leaves
    <3>2. /\ r \in Sane /\ HopTo(a, "RunningInBackground", r) /\ ~ r.stopTimer
      BY <1>3, <1>7, <1>8, <1>12, <2>3, <2>4, <3>1, HopBy DEF InternalState, Moving, Leaves
    <3>3. ~ Timer(a) /\ Settled(a) = "RunningInBackground"
      BY <1>12, <2>4 DEF Timer, Leaves, Settled, Moving
    <3> QED
      BY <1>12, <3>2, <3>3, HopOutcome DEF r
  <2>5. CASE ~ a.exempt
    <3>1. PICK e : e = SetInternalState(d, "SuspendingWaitSession", update)
      OBVIOUS
    <3>2. r = SuspendSessions(e)
      BY <2>3, <2>5, <3>1
    <3>3. \A c \in Sane : c.state = "SuspendingWaitSession" /\ AsSeen(a, c)
            => Settled(c) = "SuspendingWaitSession"
      BY <1>12 DEF Settled, Moving, AsSeen, Leaves
    <3>4. /\ e \in Sane /\ HopTo(a, "SuspendingWaitSession", e) /\ ~ e.stopTimer
      BY <1>3, <1>7, <1>8, <1>12, <3>1, <3>3, HopBy DEF InternalState, Moving, Leaves
    <3>5. ~ Timer(a) /\ Settled(a) = "SuspendingWaitSession"
      BY <1>12, <2>5 DEF Timer, Leaves, Settled, Moving
    <3> QED
      BY <1>12, <3>2, <3>4, <3>5, SuspendOutcome DEF r
  <2> QED
    BY <2>4, <2>5
<1>13. Settled(a) # a.state =>
         \/ IsClosing(a) /\ a.state \in { "Running", "RunningInBackground" }
         \/ IsClosing(a) /\ a.state = "StoppedResumable"
         \/ ~ Leaves(a) /\ WantsRunning(a) /\ a.state = "RunningInBackground"
         \/ ~ Leaves(a) /\ WantsRunning(a) /\ a.state = "StoppedResumable"
         \/ ~ Leaves(a) /\ ~ WantsRunning(a) /\ a.state = "Running" /\ a.processState = "Running"
  BY DEF Settled, Leaves, Moving
<1> QED
  BY <1>4, <1>5, <1>6, <1>10, <1>11, <1>12, <1>13

(* From Suspended or SuspendingWaitSession back to work, or on to a close. *)
Back(a, p, ps, e) ==
  /\ e.state = Settled(a) /\ (e.closing <=> IsClosing(a)) /\ (e.stopTimer <=> Leaves(a))
  /\ SameSurfaces(a, e) /\ SameOutside(a, e)
  /\ \A s \in Sessions : e.session[s].state = a.session[s].state
  /\ e.wakelock <=> WakelockIn(e.state, a.wakelock)
  /\ e.listed = ListedIn(e.state, a.listed)
  /\ e.deleteLater <=> a.deleteLater
  /\ e.startQueued <=> a.startQueued
  /\ e.processState = ps /\ e.process = p
  /\ e.failed \subseteq a.failed \cup Harmless

(* A function that does what updateState() should, outside of Moving.       *)
Near(update) == \A x \in Sane : x.state \notin Moving => Outcome(x, update[x])

(* Back in Running, updateState() leads where it led from the start.        *)
LEMMA BackSettled ==
  ASSUME NEW a \in Sane, a.state \in Moving, Settled(a) # a.state,
         NEW c \in Sane, AsSeen(a, c), c.state = "Running"
  PROVE  /\ Settled(c) = Settled(a) /\ (Timer(c) <=> Leaves(a))
         /\ Settled(a) \in { "Running", "Closing" }
         /\ Settled(a) = "Closing" <=> IsClosing(a)
         /\ IsClosing(a) \/ LostAllSurfaces(a) \/ WantsRunning(a)
<1>1. IsClosing(a) \/ LostAllSurfaces(a) \/ WantsRunning(a)
  BY DEF Settled, Moving
<1>2. CASE IsClosing(a)
  BY <1>2 DEF Settled, Timer, Leaves, Moving, AsSeen
<1>3. CASE ~ IsClosing(a) /\ LostAllSurfaces(a)
  BY <1>3 DEF Settled, Timer, Leaves, Moving, AsSeen
<1>4. CASE ~ IsClosing(a) /\ ~ LostAllSurfaces(a)
  BY <1>1, <1>4 DEF Settled, Timer, Leaves, Moving, AsSeen
<1> QED
  BY <1>1, <1>2, <1>3, <1>4

(* setInternalState(Running) out of a suspended state.                      *)
LEMMA BackHop ==
  ASSUME NEW update, Keeps(update), Near(update),
         NEW a \in Sane, a.state \in Moving, Settled(a) # a.state, a.process # "frozen",
         NEW d \in Sane, SameRest(a, d), d.closing <=> IsClosing(a), d.failed = a.failed,
         NEW e, e = SetInternalState(d, "Running", update)
  PROVE  e \in Sane /\ Back(a, a.process, a.processState, e)
<1>1. d.state = a.state /\ d.process = a.process
  BY DEF SameRest
<1>2. PICK c : c = Enter(d, "Running")
  OBVIOUS
<1>3. c \in Sane /\ Entered(d, "Running", c)
  BY <1>1, <1>2, EnterSet DEF InternalState
<1>4. /\ c.state = "Running" /\ AsSeen(a, c) /\ SameSurfaces(a, c)
      /\ c.closing <=> IsClosing(a)
  <2>1. "Running" \in InternalState
        /\ ("Running" \in { "Starting", "StoppedResumable" } <=>
              a.state \in { "Starting", "StoppedResumable" })
    BY DEF InternalState, Moving
  <2> QED
    BY <1>3, <2>1, HopView DEF AsSeen
<1>5. /\ Settled(c) = Settled(a) /\ (Timer(c) <=> Leaves(a))
      /\ Settled(a) \in { "Running", "Closing" }
      /\ Settled(a) = "Closing" <=> IsClosing(a)
  BY <1>3, <1>4, BackSettled
<1>6. e = update[c]
  BY <1>1, <1>2 DEF SetInternalState, Moving
<1>7. e \in Sane /\ Outcome(c, e)
  BY <1>3, <1>4, <1>6 DEF Keeps, Near, Moving
<1>8. /\ c.session = a.session
      /\ SameOutside(a, c) /\ c.processState = a.processState /\ c.process = a.process
      /\ c.failed = a.failed /\ c.listed = ListedIn("Running", a.listed)
  BY <1>3 DEF SameRest, Entered, SameOutside
<1>9. /\ c.wakelock = WakelockIn("Running", a.wakelock)
      /\ c.deleteLater = (a.deleteLater \/ "Running" = "Stopped")
      /\ c.startQueued = a.startQueued
  BY <1>3, Zenon DEF SameRest, Entered, SameOutside
<1>10. e.state = Settled(a) /\ e.processState = a.processState /\ e.process = a.process
  BY <1>4, <1>5, <1>7, <1>8 DEF Outcome
<1>11. /\ (e.closing <=> IsClosing(a)) /\ (e.stopTimer <=> Leaves(a))
       /\ SameSurfaces(c, e) /\ SameOutside(c, e) /\ Asked(c, e)
  BY <1>4, <1>5, <1>7 DEF Outcome, AsSeen
<1>12. SameSurfaces(a, e) /\ SameOutside(a, e)
  BY <1>8, <1>11 DEF SameSurfaces, SameOutside
<1>13. \A s \in Sessions : e.session[s].state = a.session[s].state
  BY <1>4, <1>5, <1>8, <1>11 DEF Asked
<1>14. e.wakelock <=> WakelockIn(e.state, a.wakelock)
  <2>1. c.wakelock = ~ Dash
    BY <1>9 DEF WakelockIn
  <2>2. WakelockIn(e.state, a.wakelock) <=> ~ Dash
    BY <1>5, <1>10 DEF WakelockIn
  <2>3. e.wakelock <=> IF e.state = c.state THEN c.wakelock ELSE WakelockIn(e.state, c.wakelock)
    BY <1>7 DEF Outcome
  <2>4. e.state # c.state => (WakelockIn(e.state, c.wakelock) <=> ~ Dash)
    BY <1>4, <1>5, <1>10 DEF WakelockIn
  <2> QED
    BY <2>1, <2>2, <2>3, <2>4
<1>15. e.listed = ListedIn(e.state, a.listed)
  BY <1>4, <1>5, <1>7, <1>8, <1>10 DEF Outcome, ListedIn
<1>16. e.deleteLater <=> a.deleteLater
  <2>1. e.deleteLater <=> c.deleteLater
    BY <1>4, <1>5, <1>7, <1>10 DEF Outcome
  <2> QED
    BY <1>9, <2>1
<1>17. e.startQueued <=> a.startQueued
  <2>1. e.startQueued <=> c.startQueued
    BY <1>4, <1>5, <1>7, <1>10 DEF Outcome
  <2> QED
    BY <1>9, <2>1
<1>18. e.failed \subseteq a.failed \cup Harmless
  BY <1>4, <1>7, <1>8 DEF Outcome
<1> QED
  BY <1>7, <1>10, <1>11, <1>12, <1>13, <1>14, <1>15, <1>16, <1>17, <1>18 DEF Back

(* Application::resume(), put together.                                     *)
LEMMA BackOutcome ==
  ASSUME NEW a \in Sane, a.state \in Moving, Settled(a) # a.state,
         NEW p, NEW ps, NEW e \in Sane, Back(a, p, ps, e),
         ps = IF a.state = "Suspended" /\ a.processState = "Suspended"
              THEN "Running" ELSE a.processState,
         p = IF a.state = "Suspended" /\ a.process = "frozen" THEN "alive" ELSE a.process,
         NEW r, r = ResumeSessions(e)
  PROVE  Outcome(a, r)
<1>1. /\ r \in Sane /\ SameBut(e, r)
      /\ \A s \in Sessions :
           r.session[s].state =
             IF e.session[s].attached /\ e.session[s].state \in { "Suspending", "Suspended" }
             THEN "Running" ELSE e.session[s].state
  BY ResumeSet
<1>2. Settled(a) \in { "Running", "Closing" }
  BY DEF Settled, Moving
<1>3. /\ r.state = Settled(a) /\ r.listed = ListedIn(r.state, a.listed)
      /\ r.processState = ps /\ r.process = p
      /\ r.failed \subseteq a.failed \cup Harmless
      /\ SameSurfaces(a, r) /\ SameOutside(a, r)
  BY <1>1 DEF Back, SameBut, SameSurfaces, SameOutside
<1>4. /\ r.closing <=> IsClosing(a)
      /\ r.wakelock <=> WakelockIn(r.state, a.wakelock)
      /\ r.deleteLater <=> a.deleteLater
      /\ r.startQueued <=> a.startQueued
      /\ r.stopTimer <=> Leaves(a)
  <2>1. /\ r.closing = e.closing /\ r.wakelock = e.wakelock /\ r.deleteLater = e.deleteLater
        /\ r.startQueued = e.startQueued /\ r.stopTimer = e.stopTimer /\ r.state = e.state
    BY <1>1 DEF SameBut
  <2>2. /\ e.closing <=> IsClosing(a)
        /\ e.wakelock <=> WakelockIn(e.state, a.wakelock)
        /\ e.deleteLater <=> a.deleteLater
        /\ e.startQueued <=> a.startQueued
        /\ e.stopTimer <=> Leaves(a)
    BY DEF Back
  <2> QED
    BY <2>1, <2>2, Zenon
<1>5. Timer(a) <=> Leaves(a)
  BY DEF Timer
<1>6. \A s \in Sessions : /\ e.session[s].state = a.session[s].state
                          /\ e.session[s].attached = a.session[s].attached
  BY DEF Back, SameSurfaces
<1>7. Asked(a, r)
  BY <1>1, <1>2, <1>6 DEF Asked, Moving
<1> QED
  BY <1>2, <1>3, <1>4, <1>5, <1>7 DEF Outcome, Moving

(* Waking the process changes nothing else. *)
LEMMA ResumeTask ==
  ASSUME NEW a \in Sane, NEW b, b = TaskResume(a)
  PROVE  /\ b \in Sane /\ b.state = a.state /\ b.processState = a.processState
         /\ b.wakelock = a.wakelock /\ b.listed = a.listed /\ b.deleteLater = a.deleteLater
         /\ b.startQueued = a.startQueued /\ b.session = a.session /\ SameOutside(a, b)
         /\ b.closing = a.closing /\ b.stopTimer = a.stopTimer /\ b.failed = a.failed
         /\ b.process = IF a.process = "frozen" THEN "alive" ELSE a.process
<1>1. b \in Sane
  BY TaskSane
<1>2. CASE a.process = "frozen"
  <2>1. b = [ a EXCEPT !.process = "alive" ]
    BY <1>2 DEF TaskResume
  <2>2. b.process = "alive"
    BY <2>1, Zenon DEF Sane, AppRecord
  <2>3. /\ b.state = a.state /\ b.processState = a.processState
        /\ b.wakelock = a.wakelock /\ b.listed = a.listed /\ b.deleteLater = a.deleteLater
        /\ b.startQueued = a.startQueued /\ b.session = a.session /\ SameOutside(a, b)
        /\ b.closing = a.closing /\ b.stopTimer = a.stopTimer /\ b.failed = a.failed
    BY <2>1, Zenon DEF Sane, AppRecord, SameOutside
  <2> QED
    BY <1>1, <1>2, <2>2, <2>3
<1>3. CASE a.process # "frozen"
  BY <1>1, <1>3, Zenon DEF TaskResume, SameOutside
<1> QED
  BY <1>2, <1>3

(* Writing m_processState writes nothing else.                              *)
LEMMA ProcessStateSet ==
  ASSUME NEW a \in Sane, NEW ps \in ProcessState, NEW b, b = [ a EXCEPT !.processState = ps ]
  PROVE  /\ b \in Sane /\ b.state = a.state /\ b.processState = ps
         /\ b.wakelock = a.wakelock /\ b.listed = a.listed /\ b.deleteLater = a.deleteLater
         /\ b.startQueued = a.startQueued /\ b.session = a.session /\ SameOutside(a, b)
         /\ b.closing = a.closing /\ b.stopTimer = a.stopTimer /\ b.failed = a.failed
         /\ b.process = a.process
<1>1. b \in AppRecord
  BY Zenon DEF Sane, AppRecord
<1>2. /\ b.state = a.state /\ b.processState = ps
      /\ b.wakelock = a.wakelock /\ b.listed = a.listed /\ b.deleteLater = a.deleteLater
      /\ b.startQueued = a.startQueued /\ b.session = a.session /\ SameOutside(a, b)
      /\ b.closing = a.closing /\ b.stopTimer = a.stopTimer /\ b.failed = a.failed
      /\ b.process = a.process
  BY Zenon DEF Sane, AppRecord, SameOutside
<1> QED
  BY <1>1, <1>2 DEF Sane

(* The second updateState() of resume(): the process is taken for running. *)
LEMMA BackAgain ==
  ASSUME NEW update, Keeps(update), Near(update),
         NEW a \in Sane, a.state \in Moving, Settled(a) # a.state,
         NEW p, NEW ps, NEW e \in Sane, Back(a, p, ps, e), ps # "Running",
         NEW h, h = SetProcessState(e, "Running", update)
  PROVE  h \in Sane /\ Back(a, p, "Running", h)
<1>1. PICK g : g = [ e EXCEPT !.processState = "Running" ]
  OBVIOUS
<1>2. PICK rs \in ProcessState : rs = "Running"
  BY DEF ProcessState
<1>3. g = [ e EXCEPT !.processState = rs ]
  BY <1>1, <1>2
<1>4. /\ g \in Sane /\ g.state = e.state /\ g.processState = rs
      /\ g.listed = e.listed /\ g.session = e.session /\ SameOutside(e, g)
      /\ g.failed = e.failed /\ g.process = e.process
  BY <1>3, ProcessStateSet
<1>5. /\ g.wakelock = e.wakelock /\ g.deleteLater = e.deleteLater
      /\ g.startQueued = e.startQueued
      /\ g.closing = e.closing /\ g.stopTimer = e.stopTimer
  BY <1>3, ProcessStateSet
<1>6. e.state = Settled(a) /\ Settled(a) \in { "Running", "Closing" } /\ e.processState = ps
  BY DEF Back, Settled, Moving
<1>7. h = update[g]
  BY <1>1, <1>4, <1>6 DEF SetProcessState, ProcessSwitch
<1>8. h \in Sane /\ Outcome(g, h)
  BY <1>4, <1>6, <1>7 DEF Keeps, Near, Moving
<1>9. SameSurfaces(a, g) /\ SameOutside(a, g) /\ (g.closing <=> IsClosing(a))
  BY <1>4, <1>5 DEF Back, SameSurfaces, SameOutside
<1>10. /\ IsClosing(g) <=> IsClosing(a)
       /\ LostAllSurfaces(g) <=> LostAllSurfaces(a)
       /\ WantsRunning(g) <=> WantsRunning(a)
  <2>1. g.requested = a.requested
    BY <1>9 DEF SameOutside
  <2>2. g.state \in { "Starting", "StoppedResumable" } <=>
          a.state \in { "Starting", "StoppedResumable" }
    BY <1>4, <1>6 DEF Moving
  <2> QED
    BY <1>4, <1>9, <2>1, <2>2, SameView
<1>11. Settled(g) = g.state
  BY <1>4, <1>6, <1>10 DEF Settled, Moving
<1>12. Timer(g) <=> Leaves(a)
  <2>1. g.stopTimer <=> Leaves(a)
    BY <1>5 DEF Back
  <2>2. Leaves(g) <=> Leaves(a)
    BY <1>4, <1>6, <1>10 DEF Leaves, Moving
  <2> QED
    BY <2>1, <2>2 DEF Timer
<1>13. h.state = Settled(a) /\ h.processState = "Running" /\ h.process = p
       /\ h.listed = ListedIn(h.state, a.listed)
  BY <1>2, <1>4, <1>6, <1>8, <1>11 DEF Outcome, Back
<1>14. /\ (h.closing <=> IsClosing(a)) /\ (h.stopTimer <=> Leaves(a))
       /\ SameSurfaces(g, h) /\ SameOutside(g, h) /\ Asked(g, h)
  BY <1>8, <1>10, <1>12 DEF Outcome
<1>15. SameSurfaces(a, h) /\ SameOutside(a, h)
  BY <1>9, <1>14 DEF SameSurfaces, SameOutside
<1>16. \A s \in Sessions : h.session[s].state = a.session[s].state
  BY <1>4, <1>11, <1>14 DEF Asked, Back
<1>17. h.wakelock <=> WakelockIn(h.state, a.wakelock)
  <2>1. h.state = g.state
    BY <1>4, <1>6, <1>13
  <2>2. h.wakelock <=> g.wakelock
    BY <1>8, <2>1 DEF Outcome
  <2>3. e.wakelock <=> WakelockIn(e.state, a.wakelock)
    BY DEF Back
  <2> QED
    BY <1>4, <1>5, <2>1, <2>2, <2>3
<1>18. h.deleteLater <=> a.deleteLater
  <2>1. h.deleteLater <=> g.deleteLater
    BY <1>4, <1>6, <1>8, <1>13 DEF Outcome
  <2> QED
    BY <1>5, <2>1 DEF Back
<1>19. h.startQueued <=> a.startQueued
  <2>1. h.startQueued <=> g.startQueued
    BY <1>4, <1>6, <1>8, <1>13 DEF Outcome
  <2> QED
    BY <1>5, <2>1 DEF Back
<1>20. h.failed \subseteq a.failed \cup Harmless
  <2>1. g.state = "Closing" => g.closing
    BY <1>4, <1>6, <1>9 DEF Settled, Moving
  <2>2. h.failed \subseteq g.failed \cup Harmless
    BY <1>8, <2>1 DEF Outcome
  <2> QED
    BY <1>4, <2>2 DEF Back
<1> QED
  BY <1>8, <1>13, <1>14, <1>15, <1>16, <1>17, <1>18, <1>19, <1>20 DEF Back

(* resume() does what updateState() should from where it is called.         *)
LEMMA ResumeOutcome ==
  ASSUME NEW update, Keeps(update), Near(update),
         NEW a \in Sane, a.state \in Moving, Settled(a) # a.state,
         NEW d \in Sane, SameRest(a, d), d.closing <=> IsClosing(a), d.failed = a.failed,
         NEW r, r = Resume(d, update)
  PROVE  Outcome(a, r)
<1>1. d.state = a.state /\ d.process = a.process /\ d.processState = a.processState
  BY DEF SameRest
<1>2. CASE a.state = "SuspendingWaitSession"
  <2>1. PICK e : e = SetInternalState(d, "Running", update)
    OBVIOUS
  <2>2. r = ResumeSessions(e)
    BY <1>1, <1>2, <2>1 DEF Resume
  <2>3. a.process # "frozen"
    BY <1>2, SessionTypesOf DEF FrozenStates
  <2>4. e \in Sane /\ Back(a, a.process, a.processState, e)
    BY <2>1, <2>3, BackHop
  <2> QED
    BY <1>2, <2>2, <2>4, BackOutcome
<1>3. CASE a.state = "Suspended"
  <2>1. PICK x : x = TaskResume(a)
    OBVIOUS
  <2>2. PICK y : y = TaskResume(d)
    OBVIOUS
  <2>3. /\ x \in Sane /\ x.state = a.state /\ x.processState = a.processState
        /\ x.session = a.session /\ SameOutside(a, x)
        /\ x.failed = a.failed /\ x.listed = a.listed
        /\ x.process = IF a.process = "frozen" THEN "alive" ELSE a.process
    BY <2>1, ResumeTask
  <2>4. /\ x.wakelock = a.wakelock /\ x.deleteLater = a.deleteLater
        /\ x.startQueued = a.startQueued /\ x.closing = a.closing
        /\ x.stopTimer = a.stopTimer
    BY <2>1, ResumeTask
  <2>5. /\ y \in Sane /\ y.state = d.state /\ y.processState = d.processState
        /\ y.session = d.session /\ SameOutside(d, y)
        /\ y.failed = d.failed /\ y.listed = d.listed
        /\ y.process = IF d.process = "frozen" THEN "alive" ELSE d.process
    BY <2>2, ResumeTask
  <2>6. /\ y.wakelock = d.wakelock /\ y.deleteLater = d.deleteLater
        /\ y.startQueued = d.startQueued /\ y.closing = d.closing
        /\ y.stopTimer = d.stopTimer
    BY <2>2, ResumeTask
  <2>7. SameSurfaces(a, x) /\ x.requested = a.requested /\ x.exempt = a.exempt
    BY <2>3 DEF SameSurfaces, SameOutside
  <2>8. /\ Attached(x) = Attached(a)
        /\ LostAllSurfaces(x) <=> LostAllSurfaces(a)
        /\ WantsRunning(x) <=> WantsRunning(a)
    BY <2>3, <2>7, SameView
  <2>9. IsClosing(x) <=> IsClosing(a)
    <3>1. \A s \in Sessions : /\ IsSingle(x, s) <=> IsSingle(a, s)
                              /\ ListEmpty(x, s) <=> ListEmpty(a, s)
                              /\ HasClosingSurfaces(x, s) <=> HasClosingSurfaces(a, s)
      BY <2>3, <2>7, SameView
    <3> QED
      BY <2>3, <2>4, <2>8, <3>1 DEF IsClosing
  <2>10. Settled(x) = Settled(a) /\ (Leaves(x) <=> Leaves(a))
    BY <2>3, <2>7, <2>8, <2>9 DEF Settled, Leaves, Moving
  <2>11. SameRest(x, y)
    <3>1. /\ y.state = x.state /\ y.processState = x.processState
          /\ y.listed = x.listed /\ y.session = x.session /\ y.process = x.process
          /\ SameOutside(x, y)
      BY <2>3, <2>5 DEF SameRest, SameOutside
    <3>2. /\ y.wakelock = x.wakelock /\ y.deleteLater = x.deleteLater
          /\ y.startQueued = x.startQueued
      BY <2>4, <2>6, Zenon DEF SameRest
    <3> QED
      BY <3>1, <3>2 DEF SameRest
  <2>12. (y.closing <=> IsClosing(x)) /\ y.failed = x.failed /\ x.process # "frozen"
    BY <2>3, <2>5, <2>6, <2>9
  <2>13. PICK e : e = SetInternalState(y, "Running", update)
    OBVIOUS
  <2>14. e \in Sane /\ Back(x, x.process, x.processState, e)
    BY <1>3, <2>3, <2>5, <2>10, <2>11, <2>12, <2>13, BackHop
  <2>15. Back(a, x.process, a.processState, e)
    <3>1. /\ e.state = Settled(a) /\ (e.closing <=> IsClosing(a)) /\ (e.stopTimer <=> Leaves(a))
          /\ \A s \in Sessions : e.session[s].state = a.session[s].state
          /\ e.listed = ListedIn(e.state, a.listed)
          /\ e.processState = a.processState /\ e.process = x.process
          /\ e.failed \subseteq a.failed \cup Harmless
      BY <2>3, <2>9, <2>10, <2>14 DEF Back
    <3>2. SameSurfaces(a, e) /\ SameOutside(a, e)
      BY <2>3, <2>7, <2>14 DEF Back, SameSurfaces, SameOutside
    <3>3. /\ e.wakelock <=> WakelockIn(e.state, a.wakelock)
          /\ e.deleteLater <=> a.deleteLater
          /\ e.startQueued <=> a.startQueued
      BY <2>4, <2>14, Zenon DEF Back
    <3> QED
      BY <3>1, <3>2, <3>3 DEF Back
  <2>16. r = ResumeSessions(IF e.processState = "Suspended"
                            THEN SetProcessState(e, "Running", update) ELSE e)
    BY <1>1, <1>3, <2>2, <2>13 DEF Resume
  <2>17. e.processState = a.processState
    BY <2>15 DEF Back
  <2>18. CASE a.processState = "Suspended"
    <3>1. PICK h : h = SetProcessState(e, "Running", update)
      OBVIOUS
    <3>2. h \in Sane /\ Back(a, x.process, "Running", h)
      BY <2>14, <2>15, <2>18, <3>1, BackAgain
    <3>3. r = ResumeSessions(h)
      BY <2>16, <2>17, <2>18, <3>1
    <3> QED
      BY <1>3, <2>3, <2>18, <3>2, <3>3, BackOutcome
  <2>19. CASE a.processState # "Suspended"
    <3>1. r = ResumeSessions(e)
      BY <2>16, <2>17, <2>19
    <3> QED
      BY <1>3, <2>3, <2>14, <2>15, <2>19, <3>1, BackOutcome
  <2> QED
    BY <2>18, <2>19
<1> QED
  BY <1>2, <1>3 DEF Moving

(* A call that starts in one of the states Moving.                          *)
LEMMA UpdateFar ==
  ASSUME NEW update, Keeps(update), Near(update), NEW a \in Sane, a.state \in Moving
  PROVE  Outcome(a, UpdateOnce(a, update))
<1>1. CASE Settled(a) = a.state
  BY <1>1, UpdateStays
<1>2. CASE Settled(a) # a.state
  <2>1. PICK b \in Sane :
           /\ SameRest(a, b) /\ (b.closing <=> IsClosing(a))
           /\ b.stopTimer = a.stopTimer /\ b.failed = a.failed
           /\ Leaves(a) => UpdateOnce(a, update) = ApplyClosing(b, update)
           /\ ~ Leaves(a) /\ WantsRunning(a) =>
                UpdateOnce(a, update) = ApplyRequestedRunning(b, update)
           /\ ~ Leaves(a) /\ ~ WantsRunning(a) =>
                UpdateOnce(a, update) = ApplyRequestedSuspended(b, update)
    BY UpdateUnfolds
  <2>2. b.state = a.state
    BY <2>1 DEF SameRest
  <2>3. CASE Leaves(a)
    <3>1. UpdateOnce(a, update) = Resume(b, update)
      BY <2>1, <2>2, <2>3 DEF ApplyClosing, Moving
    <3> QED
      BY <1>2, <2>1, <3>1, ResumeOutcome
  <2>4. CASE ~ Leaves(a)
    <3>1. WantsRunning(a)
      BY <1>2, <2>4 DEF Settled, Leaves, Moving
    <3>2. PICK d : d = [ b EXCEPT !.stopTimer = FALSE ]
      OBVIOUS
    <3>3. /\ d \in Sane /\ SameRest(b, d)
          /\ d.closing = b.closing /\ d.failed = b.failed
      BY <3>2, TimerSet
    <3>4. SameRest(a, d) /\ (d.closing <=> IsClosing(a)) /\ d.failed = a.failed
      BY <2>1, <3>3, Zenon DEF SameRest, SameOutside
    <3>5. d.state = a.state
      BY <3>4 DEF SameRest
    <3>6. UpdateOnce(a, update) = Resume(d, update)
      BY <2>1, <2>4, <3>1, <3>2, <3>5 DEF ApplyRequestedRunning, Moving
    <3> QED
      BY <1>2, <3>3, <3>4, <3>6, ResumeOutcome
  <2> QED
    BY <2>3, <2>4
<1> QED
  BY <1>1, <1>2

(* updateState() settles the application, whatever it is nested in. *)
LEMMA UpdateSettles ==
  ASSUME NEW a \in Sane
  PROVE  Update[a] \in Sane /\ Outcome(a, Update[a])
<1>1. \A x \in Sane : x \in AppRecord
  BY DEF Sane
<1>2. /\ \A x \in Sane : Update1[x] = UpdateOnce(x, Update0)
      /\ \A x \in Sane : Update2[x] = UpdateOnce(x, Update1)
      /\ \A x \in Sane : Update3[x] = UpdateOnce(x, Update2)
      /\ \A x \in Sane : Update[x] = UpdateOnce(x, Update3)
  BY <1>1 DEF Update1, Update2, Update3, Update
<1>3. Keeps(Update0)
  BY <1>1, FailedSane DEF Keeps, Update0, QAssert, Assertion
<1>4. Keeps(Update1)
  BY <1>2, <1>3, UpdateOnceSane DEF Keeps
<1>5. Keeps(Update2)
  BY <1>2, <1>4, UpdateOnceSane DEF Keeps
<1>6. Keeps(Update3)
  BY <1>2, <1>5, UpdateOnceSane DEF Keeps
<1>7. Good(Update1)
  BY <1>2, UpdateStays DEF Good
<1>8. Near(Update2)
  BY <1>2, <1>4, <1>7, UpdateNear DEF Near
<1>9. \A x \in Sane : Outcome(x, Update3[x])
  <2> SUFFICES ASSUME NEW x \in Sane
               PROVE  Outcome(x, UpdateOnce(x, Update2))
    BY <1>2
  <2>1. Good(Update2)
    BY <1>2, UpdateStays DEF Good
  <2> QED
    BY <1>5, <1>8, <2>1, UpdateNear, UpdateFar
<1>10. Good(Update3) /\ Near(Update3)
  BY <1>9 DEF Good, Near
<1>11. Outcome(a, UpdateOnce(a, Update3))
  BY <1>6, <1>10, UpdateNear, UpdateFar
<1> QED
  BY <1>2, <1>6, <1>11, UpdateOnceSane

-----------------------------------------------------------------------------
(* The invariant of an application, and what keeps it. *)

(* The states of an application, and of its sessions, around a launch.      *)
Quiet == { "Starting", "Stopped" }

(* The three states in which the shell sees the application suspended.      *)
Waiting == { "SuspendingWaitSession", "SuspendingWaitProcess", "Suspended" }

(* n is among what is still to be told.                                     *)
Has(q, n) == \E i \in 1 .. Len(q) : q[i] = n

(* Only ends of processes are to be told.                                   *)
Ends(q) == \A i \in 1 .. Len(q) : q[i] \in { "Failed", "Stopped" }

(* No session has shown anything, or will again.                            *)
QuietSessions(a) ==
  \A s \in Sessions : a.session[s].attached => a.session[s].state \in Quiet

(* In which list ApplicationManager holds the application.                  *)
Filed(a) ==
  /\ a.listed = "applications" <=> a.state \notin { "Closing", "Stopped" }
  /\ a.deleteLater <=> a.state = "Stopped"
  /\ a.state = "Closing" => a.closing

(* A session is asked to suspend only by an application that waits for it.  *)
PausedIn(a, st) ==
  \A s \in Sessions : a.session[s].attached /\ a.session[s].state \in { "Suspending", "Suspended" }
                        => st \in Waiting

(* A session is Stopped exactly when its client is gone.                    *)
LiveOnes(a) ==
  \A s \in Sessions :
    a.session[s].attached => (a.session[s].live <=> a.session[s].state # "Stopped")

(* What can be still to be told of a process in state p: of one that runs,  *)
(* nothing.                                                                 *)
Fits(p, q) ==
  /\ p = "alive" => q = << >>
  /\ p = "frozen" => q = << >> \/ q = << "Suspended" >>
  /\ p = "launching" =>
       /\ q # << >> /\ q[Len(q)] = "Starting"
       /\ \A i \in 1 .. (Len(q) - 1) : q[i] \in { "Failed", "Stopped" }
  /\ \A i \in 1 .. Len(q) : q[i] = "Suspended" => i = 1

(* Only ubuntu-app-launch tells, and only of its jobs.                      *)
Told(a) == Fits(a.process, a.notices) /\ (a.launch # "job" => a.notices = << >>)

(* What is still to be told does not contradict state st of the             *)
(* application.                                                             *)
FollowsIn(a, st) ==
  /\ Has(a.notices, "Suspended") => st \in { "SuspendingWaitProcess", "Stopped" }
  /\ Has(a.notices, "Starting") => st \in Quiet /\ QuietSessions(a)
  /\ st = "StoppedResumable" \/ a.startQueued =>
       a.process = "dead" /\ Ends(a.notices) /\ QuietSessions(a) /\ a.launch = "job"
  /\ a.startQueued => st \in Quiet
  /\ st = "Suspended" => a.process \in { "frozen", "dead" } /\ a.launch = "job"
  /\ a.processState = "Failed" =>
       st = "Stopped" \/ (a.process \in { "dead", "launching" } /\ ~ Has(a.notices, "Suspended"))
  /\ a.launch # "job" => a.processState \notin { "Failed", "Suspended" }

(* The clients of a frozen process were given the time to react.            *)
Frozen(a) ==
  a.process = "frozen" =>
    \A s \in Sessions : a.session[s].attached => a.session[s].state \in { "Suspended", "Stopped" }

(* What holds even between two calls inside one handler.                    *)
Core(a) ==
  Filed(a) /\ PausedIn(a, a.state) /\ LiveOnes(a) /\ Told(a) /\ FollowsIn(a, a.state) /\ Frozen(a)

(* No session has a client any more.                                        *)
AllStopped(a) == \A s \in Sessions : a.session[s].attached => a.session[s].state = "Stopped"

(* An application without clients is one that starts, or one that is gone.  *)
Ended(a) == AllStopped(a) => a.state \in { "Starting", "StoppedResumable", "Stopped" }

(* When updateState() returns, an application to be closed is not in these  *)
(* states.                                                                  *)
Calm(a) ==
  a.closing => a.state \notin { "Running", "RunningInBackground", "SuspendingWaitSession",
                                "Suspended", "StoppedResumable" }

(* When it returns, the stop timer spares surfaces on screen.               *)
Timers(a) ==
  a.stopTimer /\ ~ a.closing =>
    \A s \in Sessions : a.session[s].attached => a.session[s].list = {}

(* Exactly the sessions without a client and without a surface are to be    *)
(* deleted.                                                                 *)
Zombies(a) ==
  \A s \in Sessions :
    a.session[s].attached =>
      (a.session[s].zombie <=> ~ a.session[s].live /\ a.session[s].list = {})

(* What any number of calls of updateState() may do. *)
Drifts(a, b) ==
  /\ a.closing => b.closing /\ (b.startQueued => a.startQueued)
  /\ a.state \in { "Starting", "Closing", "Stopped" } => b.state = a.state
  /\ a.state = "StoppedResumable" => b.state \in { "StoppedResumable", "Starting", "Stopped" }
  /\ a.state = "StoppedResumable" /\ a.closing => b.state \in { "StoppedResumable", "Stopped" }
  /\ a.state \in { "Running", "RunningInBackground" } \cup Waiting
       => b.state \in { "Running", "RunningInBackground", "Closing" } \cup Waiting
  /\ a.state = "SuspendingWaitProcess" <=> b.state = "SuspendingWaitProcess"
  /\ b.startQueued => a.startQueued \/ a.state = "StoppedResumable"

(* The assertions that no order of events rules out.                        *)
Allowed ==
  Harmless \cup { "stopped before its sessions", "stopped in that state", "session not awaited" }

(* From where to where updateState() leads.                                 *)
LEMMA SettledWhere ==
  ASSUME NEW a \in Sane
  PROVE  /\ a.state \in { "Starting", "SuspendingWaitProcess", "Closing", "Stopped" } => Settled(a) = a.state
         /\ a.state = "Running" =>
              Settled(a) \in { "Running", "Closing", "RunningInBackground", "SuspendingWaitSession" }
         /\ a.state = "RunningInBackground" =>
              Settled(a) \in { "Running", "Closing", "RunningInBackground" }
         /\ a.state \in Moving => Settled(a) \in { a.state, "Running", "Closing" }
         /\ a.state = "StoppedResumable" => Settled(a) \in { a.state, "Starting", "Stopped" }
         /\ a.state = "StoppedResumable" /\ Settled(a) = "Starting" => ~ IsClosing(a)
         /\ Settled(a) = "Closing" /\ a.state # "Closing" => IsClosing(a)
         /\ IsClosing(a) =>
              Settled(a) \notin { "Running", "RunningInBackground", "SuspendingWaitSession",
                                  "Suspended", "StoppedResumable" }
         /\ a.closing => IsClosing(a)
<1>1. a.state \in InternalState
  BY SessionTypesOf
<1>2. a.closing => IsClosing(a)
  BY DEF IsClosing
<1> QED
  BY <1>1, <1>2 DEF Settled, Moving, InternalState

(* updateState() keeps the core.                                            *)
LEMMA UpdateCore ==
  ASSUME NEW a \in Sane, Core(a), NEW b, b = Update[a]
  PROVE  b \in Sane /\ Core(b)
<1>1. b \in Sane /\ Outcome(a, b)
  BY UpdateSettles
<1>2. /\ b.state = Settled(a) /\ (b.closing <=> IsClosing(a))
      /\ SameSurfaces(a, b) /\ SameOutside(a, b) /\ Asked(a, b)
      /\ b.listed = IF b.state = a.state THEN a.listed ELSE ListedIn(b.state, a.listed)
  BY <1>1 DEF Outcome
<1>3. /\ b.deleteLater <=> a.deleteLater \/ (b.state # a.state /\ b.state = "Stopped")
      /\ b.startQueued <=> a.startQueued \/ (a.state = "StoppedResumable" /\ b.state = "Starting")
  BY <1>1 DEF Outcome
<1>4. /\ b.processState = IF a.state = "Suspended" /\ b.state # "Suspended" /\ a.processState = "Suspended"
                          THEN "Running" ELSE a.processState
      /\ b.process = IF a.state = "Suspended" /\ b.state # "Suspended" /\ a.process = "frozen"
                     THEN "alive" ELSE a.process
  BY <1>1 DEF Outcome
<1>5. a.state \in InternalState
  BY SessionTypesOf
<1>6. Filed(b)
  BY <1>2, <1>3, <1>5, SettledWhere DEF Core, Filed, ListedIn, InternalState, Moving
<1>7. \A s \in Sessions : b.session[s].attached = a.session[s].attached /\ b.session[s].live = a.session[s].live
  BY <1>2 DEF SameSurfaces
<1>8. PausedIn(b, b.state)
  <2>1. CASE b.state = a.state
    <3>1. \A s \in Sessions : b.session[s].state = a.session[s].state
      BY <1>2, <2>1 DEF Asked
    <3> QED
      BY <1>7, <2>1, <3>1 DEF Core, PausedIn
  <2>2. CASE b.state # a.state /\ a.state \in Moving
    <3>1. \A s \in Sessions :
            b.session[s].state =
              IF a.session[s].attached /\ a.session[s].state \in { "Suspending", "Suspended" }
              THEN "Running" ELSE a.session[s].state
      BY <1>2, <2>2, SettledWhere DEF Asked, Moving
    <3> QED
      BY <1>7, <3>1 DEF PausedIn
  <2>3. CASE b.state # a.state /\ a.state \notin Moving
    <3>1. a.state # "SuspendingWaitProcess"
      BY <1>2, <2>3, SettledWhere
    <3>2. \A s \in Sessions :
            a.session[s].attached => a.session[s].state \notin { "Suspending", "Suspended" }
      BY <2>3, <3>1 DEF Core, PausedIn, Waiting, Moving
    <3>3. CASE b.state = "SuspendingWaitSession"
      BY <3>3 DEF PausedIn, Waiting
    <3>4. CASE b.state # "SuspendingWaitSession"
      <4>1. \A s \in Sessions : b.session[s].state = a.session[s].state
        BY <1>2, <2>3, <3>4, SettledWhere DEF Asked, Moving
      <4> QED
        BY <1>7, <3>2, <4>1 DEF PausedIn
    <3> QED
      BY <3>3, <3>4
  <2> QED
    BY <2>1, <2>2, <2>3
<1>9. \A s \in Sessions : a.session[s].attached =>
        /\ b.session[s].state = "Stopped" <=> a.session[s].state = "Stopped"
        /\ a.session[s].state \in Quiet <=> b.session[s].state \in Quiet
  BY <1>2, SMT DEF Asked, Quiet
<1>10. LiveOnes(b)
  BY <1>7, <1>9 DEF Core, LiveOnes
<1>11. b.notices = a.notices /\ b.launch = a.launch
  BY <1>2 DEF SameOutside
<1>12. a.state = "Suspended" /\ a.process = "frozen" => a.notices = << >>
  <2>1. a.notices = << "Suspended" >> => Has(a.notices, "Suspended")
    BY DEF Has
  <2> QED
    BY <2>1 DEF Core, Told, Fits, FollowsIn
<1>13. Told(b)
  <2>1. CASE b.process = a.process
    BY <1>11, <2>1 DEF Core, Told
  <2>2. CASE b.process # a.process
    <3>1. b.process = "alive" /\ a.notices = << >>
      BY <1>4, <1>12, <2>2
    <3> QED
      BY <1>11, <3>1 DEF Core, Told, Fits
  <2> QED
    BY <2>1, <2>2
<1>14. QuietSessions(b) <=> QuietSessions(a)
  BY <1>7, <1>9 DEF QuietSessions
<1>15. FollowsIn(b, b.state)
  <2> USE DEF FollowsIn
  <2> DEFINE F == FollowsIn(a, a.state)
  <2>0. F
    BY DEF Core
  <2>1. Has(b.notices, "Suspended") => b.state \in { "SuspendingWaitProcess", "Stopped" }
    BY <1>2, <1>11, <2>0, SettledWhere
  <2>2. Has(b.notices, "Starting") => b.state \in Quiet /\ QuietSessions(b)
    BY <1>2, <1>11, <1>14, <2>0, SettledWhere DEF Quiet
  <2>3. b.state = "StoppedResumable" => a.state = "StoppedResumable"
    BY <1>2, <1>5, SettledWhere DEF InternalState, Moving
  <2>4. b.state = "StoppedResumable" \/ b.startQueued =>
          b.process = "dead" /\ Ends(b.notices) /\ QuietSessions(b) /\ b.launch = "job"
    BY <1>3, <1>4, <1>11, <1>14, <2>0, <2>3
  <2>5. b.startQueued => b.state \in Quiet
    BY <1>2, <1>3, <2>0, SettledWhere DEF Quiet
  <2>6. b.state = "Suspended" => a.state = "Suspended"
    BY <1>2, <1>5, SettledWhere DEF InternalState, Moving
  <2>7. b.state = "Suspended" => b.process \in { "frozen", "dead" } /\ b.launch = "job"
    BY <1>4, <1>11, <2>0, <2>6
  <2>8. b.processState = "Failed" =>
          b.state = "Stopped" \/ (b.process \in { "dead", "launching" } /\ ~ Has(b.notices, "Suspended"))
    BY <1>2, <1>4, <1>11, <2>0, SettledWhere
  <2>9. b.launch # "job" => b.processState \notin { "Failed", "Suspended" }
    BY <1>4, <1>11, <2>0
  <2> QED
    BY <2>1, <2>2, <2>4, <2>5, <2>7, <2>8, <2>9
<1>16. Frozen(b)
  <2> SUFFICES ASSUME b.process = "frozen" PROVE Frozen(b)
    BY DEF Frozen
  <2>1. a.process = "frozen" /\ (a.state = "Suspended" => b.state = "Suspended")
    BY <1>4
  <2>2. a.state \in { "SuspendingWaitProcess", "Suspended", "Stopped" }
    BY <2>1, SessionTypesOf DEF FrozenStates
  <2>3. Settled(a) = a.state
    BY <1>2, <2>1, <2>2, SettledWhere
  <2>4. \A s \in Sessions : b.session[s].state = a.session[s].state
    BY <1>2, <2>3 DEF Asked
  <2> QED
    BY <1>7, <2>1, <2>4 DEF Core, Frozen
<1> QED
  BY <1>1, <1>6, <1>8, <1>10, <1>13, <1>15, <1>16 DEF Core

(* And it establishes what holds when it returns.                           *)
LEMMA UpdateAfter ==
  ASSUME NEW a \in Sane, Core(a), NEW b, b = Update[a]
  PROVE  /\ Calm(b) /\ Timers(b) /\ Drifts(a, b)
         /\ Ended(a) => Ended(b)
         /\ Zombies(a) => Zombies(b)
         /\ b.failed \subseteq a.failed \cup Allowed
         /\ SameSurfaces(a, b)
         /\ b.state = Settled(a) /\ (b.closing <=> IsClosing(a))
         /\ \A s \in Sessions : b.session[s].state = "Stopped" <=> a.session[s].state = "Stopped"
         /\ a.state \in { "Starting", "SuspendingWaitProcess", "Closing", "Stopped", "StoppedResumable" }
              => /\ b.process = a.process /\ b.processState = a.processState
                 /\ \A s \in Sessions : b.session[s].state = a.session[s].state
         /\ b.notices = a.notices /\ b.launch = a.launch
<1>1. b \in Sane /\ Outcome(a, b)
  BY UpdateSettles
<1>2. /\ b.state = Settled(a) /\ (b.closing <=> IsClosing(a)) /\ (b.stopTimer <=> Timer(a))
      /\ SameSurfaces(a, b) /\ SameOutside(a, b) /\ Asked(a, b)
  BY <1>1 DEF Outcome
<1>3. b.startQueued <=> a.startQueued \/ (a.state = "StoppedResumable" /\ b.state = "Starting")
  BY <1>1 DEF Outcome
<1>4. Calm(b)
  BY <1>2, SettledWhere DEF Calm
<1>5. Timers(b)
  <2> SUFFICES ASSUME b.stopTimer, ~ b.closing PROVE Timers(b)
    BY DEF Timers
  <2>1. LostAllSurfaces(a)
    BY <1>2 DEF Timer, Leaves
  <2>2. PICK t \in Sessions : Attached(a) = { t } /\ a.session[t].list = {}
    BY <2>1 DEF LostAllSurfaces, IsSingle, ListEmpty
  <2>3. \A s \in Sessions : a.session[s].attached => s = t
    BY <2>2 DEF Attached
  <2> QED
    BY <1>2, <2>2, <2>3 DEF Timers, SameSurfaces
<1>6. Drifts(a, b)
  <2>1. /\ a.closing => b.closing /\ (b.startQueued => a.startQueued)
        /\ b.startQueued => a.startQueued \/ a.state = "StoppedResumable"
    BY <1>2, <1>3, SettledWhere
  <2>2. a.state \in InternalState
    BY SessionTypesOf
  <2>3. /\ a.state \in { "Starting", "Closing", "Stopped" } => b.state = a.state
        /\ a.state = "StoppedResumable" => b.state \in { "StoppedResumable", "Starting", "Stopped" }
        /\ a.state = "StoppedResumable" /\ a.closing => b.state \in { "StoppedResumable", "Stopped" }
    BY <1>2, SettledWhere
  <2>4. /\ a.state \in { "Running", "RunningInBackground" } \cup Waiting
           => b.state \in { "Running", "RunningInBackground", "Closing" } \cup Waiting
        /\ a.state = "SuspendingWaitProcess" <=> b.state = "SuspendingWaitProcess"
    BY <1>2, <2>2, SettledWhere DEF Moving, Waiting, InternalState
  <2> QED
    BY <2>1, <2>3, <2>4 DEF Drifts
<1>7. \A s \in Sessions : b.session[s].state = "Stopped" <=> a.session[s].state = "Stopped"
  BY <1>2, SMT DEF Asked
<1>8. Ended(a) => Ended(b)
  <2>1. AllStopped(b) => AllStopped(a)
    BY <1>2, <1>7 DEF AllStopped, SameSurfaces
  <2> QED
    BY <1>2, <2>1, SettledWhere DEF Ended
<1>9. Zombies(a) => Zombies(b)
  BY <1>2 DEF Zombies, SameSurfaces
<1>10. b.failed \subseteq a.failed \cup Allowed
  BY <1>1 DEF Outcome, Core, Filed, Allowed
<1>11. a.state \in { "Starting", "SuspendingWaitProcess", "Closing", "Stopped", "StoppedResumable" }
         => /\ b.process = a.process /\ b.processState = a.processState
            /\ \A s \in Sessions : b.session[s].state = a.session[s].state
  <2>1. a.state # "Suspended" => b.process = a.process /\ b.processState = a.processState
    BY <1>1 DEF Outcome
  <2> QED
    BY <1>2, <2>1, SMT DEF Asked, Moving
<1> QED
  BY <1>2, <1>4, <1>5, <1>6, <1>7, <1>8, <1>9, <1>10, <1>11 DEF SameOutside

(* setInternalState(), from where it may be called. *)
LEMMA EnterCore ==
  ASSUME NEW a \in Sane, Core(a), NEW st \in InternalState \ { "Closing" }, a.state # st,
         a.process = "frozen" => st \in FrozenStates,
         a.state \notin { "Closing", "Stopped" } \/ (a.state = "Closing" /\ st = "Stopped"),
         PausedIn(a, st), FollowsIn(a, st),
         NEW c, c = Enter(a, st)
  PROVE  /\ c \in Sane /\ Core(c) /\ Entered(a, st, c)
<1>1. c \in Sane /\ Entered(a, st, c)
  BY EnterSet
<1>2. /\ c.state = st /\ c.session = a.session /\ c.process = a.process
      /\ c.processState = a.processState /\ c.notices = a.notices /\ c.launch = a.launch
      /\ c.listed = ListedIn(st, a.listed)
  BY <1>1 DEF Entered, SameOutside
<1>3. /\ c.startQueued = a.startQueued /\ c.deleteLater = (a.deleteLater \/ st = "Stopped")
  BY <1>1 DEF Entered
<1>4. Filed(c)
  BY <1>2, <1>3 DEF Core, Filed, ListedIn
<1>5. PausedIn(c, c.state) /\ LiveOnes(c) /\ Told(c) /\ Frozen(c)
  BY <1>2 DEF Core, PausedIn, LiveOnes, Told, Frozen
<1>6. FollowsIn(c, c.state)
  BY <1>2, <1>3 DEF FollowsIn, QuietSessions
<1> QED
  BY <1>1, <1>4, <1>5, <1>6 DEF Core

(* Only the application's own record keeping tells e from a. *)
Kin(a, e) ==
  /\ SameSurfaces(a, e) /\ e.notices = a.notices /\ e.launch = a.launch
  /\ \A s \in Sessions : e.session[s].state = "Stopped" <=> a.session[s].state = "Stopped"
  /\ e.failed \subseteq a.failed \cup Allowed
  /\ a.closing => e.closing /\ (e.startQueued => a.startQueued)

(* setInternalState(), with the call of updateState() within it, keeps them *)
(* too.                                                                     *)
LEMMA SetCore ==
  ASSUME NEW a \in Sane, Core(a), NEW st \in InternalState \ { "Closing" }, a.state # st,
         a.process = "frozen" => st \in FrozenStates,
         a.state \notin { "Closing", "Stopped" } \/ (a.state = "Closing" /\ st = "Stopped"),
         PausedIn(a, st), FollowsIn(a, st),
         NEW e, e = SetInternalState(a, st, Update)
  PROVE  /\ e \in Sane /\ Core(e) /\ Calm(e) /\ Timers(e) /\ Kin(a, e)
         /\ (AllStopped(a) => st \in { "Starting", "StoppedResumable", "Stopped" }) => Ended(e)
         /\ st \in { "Starting", "SuspendingWaitProcess", "Stopped" } =>
              /\ e.state = st /\ e.process = a.process /\ e.processState = a.processState
              /\ \A s \in Sessions : e.session[s].state = a.session[s].state
         /\ st = "Running" =>
              e.state \in { "Running", "Closing", "RunningInBackground", "SuspendingWaitSession" }
         /\ st = "Suspended" => e.state \in { "Running", "Closing", "Suspended" }
         /\ st = "StoppedResumable" =>
              e.state \in { "Starting", "StoppedResumable", "Stopped" }
         /\ st = "StoppedResumable" /\ a.closing => e.state = "Stopped"
<1>1. PICK c : c = Enter(a, st)
  OBVIOUS
<1>2. c \in Sane /\ Core(c) /\ Entered(a, st, c)
  BY <1>1, EnterCore
<1>3. e = Update[c]
  BY <1>1 DEF SetInternalState
<1>4. e \in Sane /\ Core(e)
  BY <1>2, <1>3, UpdateCore
<1>5. /\ c.state = st /\ c.session = a.session /\ c.process = a.process
      /\ c.processState = a.processState /\ c.notices = a.notices /\ c.launch = a.launch
      /\ c.failed = a.failed
  BY <1>2 DEF Entered, SameOutside
<1>6. c.closing = a.closing /\ c.startQueued = a.startQueued
  BY <1>2 DEF Entered
<1>7. Calm(e) /\ Timers(e) /\ Drifts(c, e) /\ (Ended(c) => Ended(e))
  BY <1>2, <1>3, UpdateAfter
<1>8. /\ e.failed \subseteq c.failed \cup Allowed /\ SameSurfaces(c, e)
      /\ \A s \in Sessions : e.session[s].state = "Stopped" <=> c.session[s].state = "Stopped"
      /\ e.notices = c.notices /\ e.launch = c.launch /\ e.state = Settled(c)
  BY <1>2, <1>3, UpdateAfter
<1>9. Kin(a, e)
  <2>1. SameSurfaces(a, e)
    BY <1>5, <1>8 DEF SameSurfaces
  <2>2. a.closing => e.closing /\ (e.startQueued => a.startQueued)
    BY <1>6, <1>7 DEF Drifts
  <2> QED
    BY <1>5, <1>8, <2>1, <2>2 DEF Kin
<1>10. (AllStopped(a) => st \in { "Starting", "StoppedResumable", "Stopped" }) => Ended(e)
  BY <1>5, <1>7 DEF Ended, AllStopped
<1>11. st \in { "Starting", "SuspendingWaitProcess", "Stopped" } =>
              /\ e.state = st /\ e.process = a.process /\ e.processState = a.processState
              /\ \A s \in Sessions : e.session[s].state = a.session[s].state
  <2> SUFFICES ASSUME st \in { "Starting", "SuspendingWaitProcess", "Stopped" }
               PROVE  /\ e.state = st /\ e.process = a.process /\ e.processState = a.processState
                      /\ \A s \in Sessions : e.session[s].state = a.session[s].state
    OBVIOUS
  <2>1. /\ e.process = c.process /\ e.processState = c.processState
        /\ \A s \in Sessions : e.session[s].state = c.session[s].state
    BY <1>2, <1>3, <1>5, UpdateAfter
  <2>2. e.state = st
    BY <1>2, <1>5, <1>8, SettledWhere
  <2> QED
    BY <1>5, <2>1, <2>2
<1>12. /\ st = "Running" =>
              e.state \in { "Running", "Closing", "RunningInBackground", "SuspendingWaitSession" }
       /\ st = "Suspended" => e.state \in { "Running", "Closing", "Suspended" }
       /\ st = "StoppedResumable" =>
              e.state \in { "Starting", "StoppedResumable", "Stopped" }
  BY <1>2, <1>5, <1>8, SettledWhere DEF Moving
<1>13. st = "StoppedResumable" /\ a.closing => e.state = "Stopped"
  BY <1>5, <1>6, <1>7 DEF Drifts, Calm
<1> QED
  BY <1>4, <1>7, <1>9, <1>10, <1>11, <1>12, <1>13

(* What combinedSessionState() says of the sessions. *)
LEMMA Combined ==
  ASSUME NEW a \in Sane
  PROVE  /\ CombinedIs(a, "Running") =>
              \E s \in Sessions : a.session[s].attached /\ a.session[s].state = "Running"
         /\ CombinedIs(a, "Suspended") =>
              /\ \E s \in Sessions : a.session[s].attached /\ a.session[s].state = "Suspended"
              /\ \A s \in Sessions : a.session[s].attached =>
                                       a.session[s].state \in { "Suspended", "Stopped" }
         /\ CombinedIs(a, "Stopped") => AllStopped(a)
         /\ AllStopped(a) /\ (\E s \in Sessions : a.session[s].attached) => CombinedIs(a, "Stopped")
<1>1. \A st \in SessionState :
        Liveliness[st] = CASE st = "Running" -> 4 [] st = "Starting" -> 3 [] st = "Suspending" -> 2
                           [] st = "Suspended" -> 1 [] st = "Stopped" -> 0
  BY DEF Liveliness, SessionState
<1>2. \A s \in Sessions : a.session[s].state \in SessionState
  BY DEF Sane, AppRecord, SessionRecord
<1>3. \A s : s \in Attached(a) <=> s \in Sessions /\ a.session[s].attached
  BY DEF Attached
<1>4. CombinedIs(a, "Running") =>
              \E s \in Sessions : a.session[s].attached /\ a.session[s].state = "Running"
  BY <1>3 DEF CombinedIs
<1>5. CombinedIs(a, "Suspended") =>
              /\ \E s \in Sessions : a.session[s].attached /\ a.session[s].state = "Suspended"
              /\ \A s \in Sessions : a.session[s].attached =>
                                       a.session[s].state \in { "Suspended", "Stopped" }
  BY <1>1, <1>2, <1>3 DEF CombinedIs, SessionState
<1>6. CombinedIs(a, "Stopped") => AllStopped(a)
  BY <1>1, <1>2, <1>3 DEF CombinedIs, SessionState, AllStopped
<1>7. AllStopped(a) /\ (\E s \in Sessions : a.session[s].attached) => CombinedIs(a, "Stopped")
  BY <1>1, <1>3 DEF CombinedIs, SessionState, AllStopped
<1> QED
  BY <1>4, <1>5, <1>6, <1>7

(* What the shell sees of an internal state, and whether the application is *)
(* gone.                                                                    *)
Ph(st) ==
  CASE st = "Stopped" -> "Gone"
    [] st = "StoppedResumable" -> "Resumable"
    [] st = "Starting" -> "Starting"
    [] st \in Waiting -> "Suspended"
    [] OTHER -> "Running"

(* What PublicLifecycle lets the shell see. *)
Promised(a, b) ==
  LET p == Ph(a.state)  q == Ph(b.state)
  IN \/ q = p /\ (a.closing => b.closing)
     \/ /\ p = "Starting" /\ q \in { "Running", "Suspended" }
        /\ (b.closing => q = "Running") /\ (a.closing => b.closing)
     \/ p = "Running" /\ q = "Suspended" /\ ~ a.closing /\ ~ b.closing
     \/ p = "Suspended" /\ q = "Running" /\ (a.closing => b.closing)
     \/ p \in { "Running", "Suspended" } /\ q = "Resumable" /\ ~ a.closing /\ ~ b.closing
     \/ p \in { "Running", "Suspended", "Resumable" } /\ q = "Starting" /\ ~ a.closing
     \/ p # "Gone" /\ q = "Gone" /\ (a.closing => b.closing)

(* What updateState() does is what the shell was promised.                  *)
LEMMA DriftPromise ==
  ASSUME NEW a \in Sane, NEW b \in Sane, Drifts(a, b), Calm(a), Calm(b)
  PROVE  Promised(a, b)
<1>1. a.state \in InternalState /\ b.state \in InternalState
  BY SessionTypesOf
<1>2. a.closing => b.closing
  BY DEF Drifts
<1>3. CASE a.state \in { "Starting", "Closing", "Stopped" }
  BY <1>2, <1>3 DEF Drifts, Promised
<1>4. CASE a.state = "StoppedResumable"
  <2>1. b.state \in { "StoppedResumable", "Starting", "Stopped" }
    BY <1>4 DEF Drifts
  <2>2. ~ a.closing
    BY <1>4 DEF Calm
  <2>3. CASE b.state = "StoppedResumable"
    BY <1>2, <1>4, <2>3 DEF Promised
  <2>4. CASE b.state = "Starting"
    BY <1>4, <2>2, <2>4 DEF Promised, Ph
  <2>5. CASE b.state = "Stopped"
    <3>1. Ph(a.state) = "Resumable" /\ Ph(b.state) = "Gone"
      BY <1>4, <2>5 DEF Ph, Waiting
    <3> QED
      BY <1>2, <3>1 DEF Promised
  <2> QED
    BY <2>1, <2>3, <2>4, <2>5
<1>5. CASE a.state \in { "Running", "RunningInBackground" }
  <2>1. b.state \in { "Running", "RunningInBackground", "Closing", "SuspendingWaitSession", "Suspended" }
    BY <1>5 DEF Drifts, Waiting
  <2>2. CASE b.state \in { "SuspendingWaitSession", "Suspended" }
    BY <1>2, <1>5, <2>2 DEF Promised, Ph, Waiting, Calm
  <2>3. CASE b.state \in { "Running", "RunningInBackground", "Closing" }
    BY <1>2, <1>5, <2>3 DEF Promised, Ph, Waiting
  <2> QED
    BY <2>1, <2>2, <2>3
<1>6. CASE a.state \in Waiting
  <2>1. b.state \in { "Running", "RunningInBackground", "Closing" } \cup Waiting
    BY <1>6 DEF Drifts
  <2> QED
    BY <1>2, <1>6, <2>1 DEF Promised, Ph, Waiting
<1> QED
  BY <1>1, <1>3, <1>4, <1>5, <1>6 DEF InternalState, Waiting

(* Two calls one after the other do no more than one.                       *)
LEMMA DriftsOn ==
  ASSUME NEW a \in Sane, NEW b \in Sane, NEW c \in Sane, Drifts(a, b), Drifts(b, c)
  PROVE  Drifts(a, c)
<1>1. a.state \in InternalState
  BY SessionTypesOf
<1>2. a.closing => c.closing /\ (c.startQueued => a.startQueued)
  BY DEF Drifts
<1>3. b.state = "StoppedResumable" => a.state = "StoppedResumable"
  BY <1>1 DEF Drifts, Waiting, InternalState
<1>4. c.startQueued => a.startQueued \/ a.state = "StoppedResumable"
  BY <1>3 DEF Drifts
<1>5. a.state \in { "Starting", "Closing", "Stopped" } => c.state = a.state
  BY DEF Drifts
<1>6. a.state = "StoppedResumable" => c.state \in { "StoppedResumable", "Starting", "Stopped" }
  BY DEF Drifts
<1>7. a.state = "StoppedResumable" /\ a.closing => c.state \in { "StoppedResumable", "Stopped" }
  BY DEF Drifts
<1>8. a.state \in { "Running", "RunningInBackground" } \cup Waiting
       => c.state \in { "Running", "RunningInBackground", "Closing" } \cup Waiting
  BY DEF Drifts
<1>9. a.state = "SuspendingWaitProcess" <=> c.state = "SuspendingWaitProcess"
  BY DEF Drifts
<1> QED
  BY <1>2, <1>4, <1>5, <1>6, <1>7, <1>8, <1>9 DEF Drifts

(* Nor do two changes of state.                                             *)
LEMMA KinOn ==
  ASSUME NEW a, NEW b, NEW c, Kin(a, b), Kin(b, c)
  PROVE  Kin(a, c)
<1>1. SameSurfaces(a, c)
  BY DEF Kin, SameSurfaces
<1>2. a.closing => c.closing /\ (c.startQueued => a.startQueued)
  BY DEF Kin
<1> QED
  BY <1>1, <1>2 DEF Kin

(* What is said here of an application is said of these. *)
Alike(a, b) ==
  /\ b.state = a.state /\ b.processState = a.processState /\ b.closing = a.closing
  /\ b.stopTimer = a.stopTimer /\ b.listed = a.listed /\ b.deleteLater = a.deleteLater
  /\ b.startQueued = a.startQueued /\ b.session = a.session /\ b.process = a.process
  /\ b.launch = a.launch /\ b.notices = a.notices

(* Alike applications satisfy the same parts of the invariant.              *)
LEMMA AlikeHolds ==
  ASSUME NEW a, NEW b, Alike(a, b)
  PROVE  /\ Core(a) => Core(b)
         /\ Calm(a) => Calm(b)
         /\ Timers(a) => Timers(b)
         /\ Ended(a) => Ended(b)
         /\ Zombies(a) => Zombies(b)
         /\ b.failed \subseteq a.failed \cup Allowed => Kin(a, b)
         /\ AllStopped(b) <=> AllStopped(a)
<1>1. /\ b.state = a.state /\ b.processState = a.processState /\ b.closing = a.closing
      /\ b.listed = a.listed /\ b.deleteLater = a.deleteLater
      /\ b.startQueued = a.startQueued /\ b.session = a.session /\ b.process = a.process
      /\ b.launch = a.launch /\ b.notices = a.notices /\ b.stopTimer = a.stopTimer
  BY DEF Alike
<1>2. Filed(a) => Filed(b)
  BY <1>1 DEF Filed
<1>3. /\ PausedIn(a, a.state) => PausedIn(b, b.state)
      /\ LiveOnes(a) => LiveOnes(b)
      /\ Told(a) => Told(b)
      /\ Frozen(a) => Frozen(b)
  BY <1>1 DEF PausedIn, LiveOnes, Told, Frozen
<1>4. FollowsIn(a, a.state) => FollowsIn(b, b.state)
  BY <1>1 DEF FollowsIn, QuietSessions
<1>5. Calm(a) => Calm(b)
  BY <1>1 DEF Calm
<1>6. Timers(a) => Timers(b)
  BY <1>1 DEF Timers
<1>7. /\ Ended(a) => Ended(b)
      /\ Zombies(a) => Zombies(b)
      /\ AllStopped(b) <=> AllStopped(a)
  BY <1>1 DEF Ended, Zombies, AllStopped
<1>8. b.failed \subseteq a.failed \cup Allowed => Kin(a, b)
  BY <1>1 DEF Kin, SameSurfaces
<1> QED
  BY <1>2, <1>3, <1>4, <1>5, <1>6, <1>7, <1>8 DEF Core

(* Between the handlers, and in them where the sessions have their say. *)
Held(a) == a \in Sane /\ Core(a) /\ Calm(a) /\ Timers(a)

(* A failed assertion, a signal to the process. *)
LEMMA AlikeHeld ==
  ASSUME NEW a, Held(a), NEW b \in Sane, Alike(a, b), b.failed \subseteq a.failed \cup Allowed
  PROVE  /\ Held(b) /\ Kin(a, b) /\ (Ended(a) => Ended(b)) /\ (AllStopped(b) <=> AllStopped(a))
         /\ Promised(a, b)
<1>1. b.state = a.state /\ b.closing = a.closing
  BY DEF Alike
<1> QED
  BY <1>1, AlikeHolds DEF Held, Promised

(* An assertion that fails leaves all else as it is.                        *)
LEMMA AssertAlike ==
  ASSUME NEW a \in Sane, NEW holds \in BOOLEAN, NEW name \in Assertion,
         NEW b, b = QAssert(a, holds, name)
  PROVE  /\ b \in Sane /\ Alike(a, b)
         /\ b.failed \subseteq a.failed \cup { name }
         /\ holds => b.failed = a.failed
         /\ b.requested = a.requested /\ b.exempt = a.exempt
<1>1. CASE holds
  BY <1>1, Zenon DEF QAssert, Alike
<1>2. CASE ~ holds
  <2>1. b = [ a EXCEPT !.failed = @ \cup { name } ]
    BY <1>2 DEF QAssert
  <2>2. /\ b \in Sane /\ SameRest(a, b)
        /\ b.stopTimer = a.stopTimer /\ b.closing = a.closing
        /\ b.failed = a.failed \cup { name }
    BY <2>1, AssertFails
  <2>3. Alike(a, b)
    BY <2>2, Zenon DEF SameRest, SameOutside, Alike
  <2> QED
    BY <1>2, <2>2, <2>3 DEF SameRest, SameOutside
<1> QED
  BY <1>1, <1>2

(* The SIGTERM leaves all of this as it is.                                 *)
LEMMA StopAlike ==
  ASSUME NEW a \in Sane, NEW b, b = TaskStop(a)
  PROVE  b \in Sane /\ Alike(a, b) /\ b.failed = a.failed
<1>1. PICK c : c = (a.stopAsked \/ a.process # "dead")
  OBVIOUS
<1>2. b = [ a EXCEPT !.stopAsked = c ]
  BY <1>1 DEF TaskStop
<1>3. b \in Sane
  BY TaskSane
<1> QED
  BY <1>2, <1>3, Zenon DEF Sane, AppRecord, Alike

(* A handler that ends in updateState() or calls nothing else. *)
LEMMA UpdateHeld ==
  ASSUME NEW a \in Sane, Core(a), NEW b, b = Update[a]
  PROVE  /\ Held(b) /\ Kin(a, b) /\ Drifts(a, b)
         /\ (Ended(a) => Ended(b)) /\ (Calm(a) => Promised(a, b))
<1>1. b \in Sane /\ Core(b)
  BY UpdateCore
<1>2. Calm(b) /\ Timers(b) /\ Drifts(a, b) /\ (Ended(a) => Ended(b))
  BY UpdateAfter
<1>3. Kin(a, b)
  <2>1. /\ SameSurfaces(a, b) /\ b.notices = a.notices /\ b.launch = a.launch
        /\ b.failed \subseteq a.failed \cup Allowed
        /\ \A s \in Sessions : b.session[s].state = "Stopped" <=> a.session[s].state = "Stopped"
    BY UpdateAfter
  <2>2. a.closing => b.closing /\ (b.startQueued => a.startQueued)
    BY <1>2 DEF Drifts
  <2> QED
    BY <2>1, <2>2 DEF Kin
<1>4. Calm(a) => Promised(a, b)
  BY <1>1, <1>2, DriftPromise
<1> QED
  BY <1>1, <1>2, <1>3, <1>4 DEF Held

(* Where an application may always go. *)
LEMMA MayStop ==
  ASSUME NEW a \in Sane, Core(a)
  PROVE  /\ FollowsIn(a, "Stopped")
         /\ a.state \notin Waiting => PausedIn(a, "Stopped")
         /\ AllStopped(a) => PausedIn(a, "Stopped") /\ PausedIn(a, "StoppedResumable")
         /\ a.state \notin Waiting => PausedIn(a, "Starting") /\ PausedIn(a, "Running")
<1>1. FollowsIn(a, "Stopped")
  BY DEF Core, FollowsIn, Quiet
<1>2. a.state \notin Waiting => PausedIn(a, "Stopped")
  BY DEF Core, PausedIn
<1>3. AllStopped(a) => PausedIn(a, "Stopped") /\ PausedIn(a, "StoppedResumable")
  BY DEF AllStopped, PausedIn
<1>4. a.state \notin Waiting => PausedIn(a, "Starting") /\ PausedIn(a, "Running")
  BY DEF Core, PausedIn
<1> QED
  BY <1>1, <1>2, <1>3, <1>4

(* To Stopped, from any state but that. *)
LEMMA ToStopped ==
  ASSUME NEW a, Held(a), a.state \notin Waiting \/ AllStopped(a),
         NEW e, e = SetInternalState(a, "Stopped", Update)
  PROVE  /\ Held(e) /\ Kin(a, e) /\ Ended(e) /\ Promised(a, e) /\ e.state = "Stopped"
         /\ e.process = a.process /\ (e.processState = a.processState)
         /\ \A s \in Sessions : e.session[s].state = a.session[s].state
<1>1. CASE a.state = "Stopped"
  <2>1. e = a
    BY <1>1 DEF SetInternalState
  <2> QED
    BY <1>1, <2>1 DEF Held, Kin, SameSurfaces, Ended, Promised
<1>2. CASE a.state # "Stopped"
  <2>1. PICK st \in InternalState \ { "Closing" } : st = "Stopped"
    BY DEF InternalState
  <2>2. FollowsIn(a, st) /\ PausedIn(a, st) /\ st \in FrozenStates /\ a \in Sane /\ Core(a)
    BY <2>1, MayStop DEF Held, FrozenStates
  <2>3. a.state \notin { "Closing", "Stopped" } \/ (a.state = "Closing" /\ st = "Stopped")
    BY <1>2, <2>1
  <2>4. e = SetInternalState(a, st, Update) /\ a.state # st
    BY <1>2, <2>1
  <2>5. e \in Sane /\ Core(e) /\ Calm(e) /\ Timers(e) /\ Kin(a, e) /\ Ended(e)
    BY <2>1, <2>2, <2>3, <2>4, SetCore
  <2>6. /\ e.state = st /\ e.process = a.process /\ e.processState = a.processState
        /\ \A s \in Sessions : e.session[s].state = a.session[s].state
    BY <2>1, <2>2, <2>3, <2>4, SetCore
  <2>7. Promised(a, e)
    <3>1. Ph(e.state) = "Gone" /\ (a.closing => e.closing)
      BY <2>1, <2>5, <2>6 DEF Ph, Waiting, Kin
    <3>2. Ph(a.state) # "Gone"
      BY <1>2 DEF Ph, Waiting
    <3> QED
      BY <3>1, <3>2 DEF Promised
  <2> QED
    BY <2>1, <2>5, <2>6, <2>7 DEF Held
<1> QED
  BY <1>1, <1>2

(* What is pending tells of the process. *)
LEMMA Launching ==
  ASSUME NEW a \in Sane, Core(a)
  PROVE  /\ a.process = "launching" => Has(a.notices, "Starting")
         /\ ~ Has(a.notices, "Starting") /\ ~ Has(a.notices, "Suspended") => Ends(a.notices)
<1>1. a.notices \in Seq(Notice)
  BY DEF Sane, AppRecord
<1>2. PICK q \in Seq(Notice) : q = a.notices
  BY <1>1
<1>3. Len(q) \in Nat /\ (q # << >> => Len(q) > 0) /\ \A i \in 1 .. Len(q) : q[i] \in Notice
  BY <1>2
<1>4. a.process = "launching" => q # << >> /\ q[Len(q)] = "Starting"
  BY <1>2 DEF Core, Told, Fits
<1>5. a.process = "launching" => Has(q, "Starting")
  BY <1>3, <1>4 DEF Has
<1>6. ~ Has(q, "Starting") /\ ~ Has(q, "Suspended") => Ends(q)
  BY <1>3 DEF Has, Ends, Notice
<1> QED
  BY <1>2, <1>5, <1>6

(* To StoppedResumable, or on from there. *)
LEMMA ToResumable ==
  ASSUME NEW a, Held(a), AllStopped(a), a.process # "frozen",
         \/ a.state \in { "RunningInBackground", "SuspendingWaitSession", "SuspendingWaitProcess" }
            /\ a.processState = "Failed"
         \/ a.state = "Suspended",
         NEW e, e = SetInternalState(a, "StoppedResumable", Update)
  PROVE  Held(e) /\ Kin(a, e) /\ Ended(e) /\ Promised(a, e)
<1>1. a \in Sane /\ Core(a) /\ FollowsIn(a, a.state)
  BY DEF Held, Core
<1>2. a.state \notin Quiet
  BY DEF Quiet
<1>3. ~ Has(a.notices, "Starting") /\ ~ Has(a.notices, "Suspended") /\ ~ a.startQueued
  BY <1>1, <1>2 DEF FollowsIn
<1>4. a.process = "dead" /\ a.launch = "job"
  BY <1>1, <1>3, Launching DEF FollowsIn
<1>5. Ends(a.notices)
  BY <1>1, <1>3, Launching
<1>6. QuietSessions(a)
  BY DEF QuietSessions, AllStopped, Quiet
<1>7. FollowsIn(a, "StoppedResumable")
  BY <1>1, <1>3, <1>4, <1>5, <1>6 DEF FollowsIn
<1>8. PICK st \in InternalState \ { "Closing" } : st = "StoppedResumable"
  BY DEF InternalState
<1>9. /\ a.state # st /\ (a.process = "frozen" => st \in FrozenStates)
      /\ a.state \notin { "Closing", "Stopped" } \/ (a.state = "Closing" /\ st = "Stopped")
      /\ PausedIn(a, st) /\ FollowsIn(a, st)
  BY <1>1, <1>4, <1>7, <1>8, MayStop
<1>10. e = SetInternalState(a, st, Update)
  BY <1>8
<1>11. /\ e \in Sane /\ Core(e) /\ Calm(e) /\ Timers(e) /\ Kin(a, e)
       /\ (AllStopped(a) => st \in { "Starting", "StoppedResumable", "Stopped" }) => Ended(e)
  BY <1>1, <1>9, <1>10, SetCore
<1>12. /\ e.state \in { "Starting", "StoppedResumable", "Stopped" }
       /\ a.closing => e.state = "Stopped"
  BY <1>1, <1>8, <1>9, <1>10, SetCore
<1>13. Promised(a, e)
  <2>1. Ph(a.state) \in { "Running", "Suspended" }
    BY DEF Ph, Waiting
  <2>2. CASE e.state = "Starting"
    <3>1. Ph(e.state) = "Starting" /\ ~ a.closing
      BY <1>12, <2>2 DEF Ph, Waiting
    <3> QED
      BY <2>1, <3>1 DEF Promised
  <2>3. CASE e.state = "StoppedResumable"
    <3>1. Ph(e.state) = "Resumable" /\ ~ a.closing /\ ~ e.closing
      BY <1>11, <1>12, <2>3 DEF Ph, Waiting, Calm
    <3> QED
      BY <2>1, <3>1 DEF Promised
  <2>4. CASE e.state = "Stopped"
    <3>1. Ph(e.state) = "Gone" /\ (a.closing => e.closing)
      BY <1>11, <2>4 DEF Ph, Waiting, Kin
    <3> QED
      BY <2>1, <3>1 DEF Promised
  <2> QED
    BY <1>12, <2>2, <2>3, <2>4
<1> QED
  BY <1>8, <1>11, <1>13 DEF Held

(* What is known of the process, when it does not contradict the notices. *)
LEMMA ProcessStateHeld ==
  ASSUME NEW a, Held(a), NEW ps \in ProcessState,
         ps = "Failed" =>
           a.state = "Stopped" \/ (a.process \in { "dead", "launching" } /\ ~ Has(a.notices, "Suspended")),
         ps \in { "Failed", "Suspended" } => a.launch = "job",
         NEW b, b = [ a EXCEPT !.processState = ps ]
  PROVE  /\ Held(b) /\ Kin(a, b) /\ (Ended(a) => Ended(b)) /\ (AllStopped(b) <=> AllStopped(a))
         /\ b.state = a.state /\ b.closing = a.closing /\ b.processState = ps
         /\ b.notices = a.notices /\ b.process = a.process /\ b.session = a.session
         /\ b.launch = a.launch /\ b.listed = a.listed /\ b.failed = a.failed
<1>1. a \in Sane
  BY DEF Held
<1>2. /\ b \in Sane /\ b.state = a.state /\ b.processState = ps
      /\ b.listed = a.listed /\ b.session = a.session /\ SameOutside(a, b)
      /\ b.failed = a.failed /\ b.process = a.process
  BY <1>1, ProcessStateSet
<1>3. /\ b.deleteLater = a.deleteLater /\ b.startQueued = a.startQueued
      /\ b.closing = a.closing /\ b.stopTimer = a.stopTimer
  BY <1>1, ProcessStateSet
<1>4. b.notices = a.notices /\ b.launch = a.launch
  BY <1>2 DEF SameOutside
<1>5. Filed(b)
  BY <1>2, <1>3 DEF Held, Core, Filed
<1>6. PausedIn(b, b.state) /\ LiveOnes(b) /\ Told(b) /\ Frozen(b)
  BY <1>2, <1>4 DEF Held, Core, PausedIn, LiveOnes, Told, Frozen
<1>7. FollowsIn(b, b.state)
  <2>1. FollowsIn(a, a.state)
    BY DEF Held, Core
  <2>2. QuietSessions(b) <=> QuietSessions(a)
    BY <1>2 DEF QuietSessions
  <2> QED
    BY <1>2, <1>3, <1>4, <2>1, <2>2 DEF FollowsIn
<1>8. Calm(b) /\ Timers(b)
  BY <1>2, <1>3 DEF Held, Calm, Timers
<1>9. Kin(a, b)
  BY <1>2, <1>3, <1>4 DEF Kin, SameSurfaces
<1>10. (Ended(a) => Ended(b)) /\ (AllStopped(b) <=> AllStopped(a))
  BY <1>2 DEF Ended, AllStopped
<1> QED
  BY <1>2, <1>3, <1>4, <1>5, <1>6, <1>7, <1>8, <1>9, <1>10 DEF Held, Core

(* The assertions that do not hold of every report of the end. *)
LEMMA AssertHeld ==
  ASSUME NEW a, Held(a), NEW holds \in BOOLEAN, NEW name \in Assertion, holds \/ name \in Allowed,
         NEW b, b = QAssert(a, holds, name)
  PROVE  /\ Held(b) /\ Kin(a, b) /\ (Ended(a) => Ended(b)) /\ (AllStopped(b) <=> AllStopped(a))
         /\ Promised(a, b) /\ Alike(a, b)
<1>1. a \in Sane
  BY DEF Held
<1>2. b \in Sane /\ Alike(a, b) /\ b.failed \subseteq a.failed \cup { name }
      /\ (holds => b.failed = a.failed)
  BY <1>1, AssertAlike
<1>3. b.failed \subseteq a.failed \cup Allowed
  BY <1>2
<1> QED
  BY <1>2, <1>3, AlikeHeld

(* The assertion of setProcessState() in these words.                       *)
LEMMA AttachedStopped ==
  ASSUME NEW a
  PROVE  SessionsStopped(a) <=> AllStopped(a)
BY DEF SessionsStopped, AllStopped, Attached

(* setProcessState(Stopped).                                                *)
LEMMA ProcessStopped ==
  ASSUME NEW a, Held(a), NEW e, e = SetProcessState(a, "Stopped", Update)
  PROVE  /\ Held(e) /\ Kin(a, e) /\ (Ended(a) => Ended(e)) /\ Promised(a, e)
         /\ a.state \in { "Starting", "StoppedResumable", "Closing" } => e.state \in { a.state, "Stopped" }
<1>1. CASE a.processState = "Stopped"
  <2>1. e = a
    BY <1>1 DEF SetProcessState
  <2> QED
    BY <2>1 DEF Kin, SameSurfaces, Promised
<1>2. CASE a.processState # "Stopped"
  <2>1. PICK ps \in ProcessState : ps = "Stopped"
    BY DEF ProcessState
  <2>2. PICK b : b = [ a EXCEPT !.processState = ps ]
    OBVIOUS
  <2>3. ps # "Failed" /\ ps # "Suspended"
    BY <2>1
  <2>4. /\ Held(b) /\ Kin(a, b) /\ (Ended(a) => Ended(b)) /\ (AllStopped(b) <=> AllStopped(a))
        /\ b.state = a.state /\ b.closing = a.closing
    BY <2>2, <2>3, ProcessStateHeld
  <2>5. e = Update[ProcessSwitch(b, "Stopped", Update)]
    BY <1>2, <2>1, <2>2 DEF SetProcessState
  <2>6. PICK h \in BOOLEAN : h <=> SessionsStopped(b)
    BY DEF SessionsStopped
  <2>7. PICK c : c = QAssert(b, h, "stopped before its sessions")
    OBVIOUS
  <2>8. /\ Held(c) /\ Kin(b, c) /\ (Ended(b) => Ended(c)) /\ c.state = b.state
        /\ c.closing = b.closing
    <3>1. "stopped before its sessions" \in Assertion /\ "stopped before its sessions" \in Allowed
      BY DEF Assertion, Allowed
    <3>2. Held(c) /\ Kin(b, c) /\ (Ended(b) => Ended(c)) /\ Alike(b, c)
      BY <2>4, <2>7, <3>1, AssertHeld
    <3> QED
      BY <3>2 DEF Alike
  <2>9. QAssert(b, SessionsStopped(b), "stopped before its sessions") = c
    BY <2>6, <2>7 DEF QAssert
  <2>10. CASE a.state \in { "Starting", "StoppedResumable", "Closing" }
    <3>1. PICK x : x = SetInternalState(c, "Stopped", Update)
      OBVIOUS
    <3>2. e = Update[x]
      BY <2>4, <2>5, <2>8, <2>9, <2>10, <3>1 DEF ProcessSwitch
    <3>3. c.state \notin Waiting
      BY <2>4, <2>8, <2>10 DEF Waiting
    <3>4. Held(x) /\ Kin(c, x) /\ Ended(x) /\ x.state = "Stopped"
      BY <2>8, <3>1, <3>3, ToStopped
    <3>5. Held(e) /\ Kin(x, e) /\ Drifts(x, e) /\ Ended(e)
      BY <3>2, <3>4, UpdateHeld DEF Held
    <3>6. Kin(a, e)
      BY <2>4, <2>8, <3>4, <3>5, KinOn
    <3>7. e.state = "Stopped" /\ (a.closing => e.closing)
      BY <3>4, <3>5, <3>6 DEF Drifts, Kin
    <3>8. Ph(e.state) = "Gone" /\ Ph(a.state) # "Gone"
      BY <2>10, <3>7 DEF Ph, Waiting
    <3> QED
      BY <3>5, <3>6, <3>7, <3>8 DEF Promised
  <2>11. CASE a.state \notin { "Starting", "StoppedResumable", "Closing" }
    <3>1. PICK g \in BOOLEAN : g <=> c.state = "Stopped"
      OBVIOUS
    <3>2. PICK x : x = QAssert(c, g, "stopped in that state")
      OBVIOUS
    <3>3. e = Update[x]
      BY <2>4, <2>5, <2>8, <2>9, <2>11, <3>1, <3>2 DEF ProcessSwitch, QAssert
    <3>4. "stopped in that state" \in Assertion /\ "stopped in that state" \in Allowed
      BY DEF Assertion, Allowed
    <3>5. Held(x) /\ Kin(c, x) /\ (Ended(c) => Ended(x)) /\ Alike(c, x)
      BY <2>8, <3>2, <3>4, AssertHeld
    <3>6. Held(e) /\ Kin(x, e) /\ (Ended(x) => Ended(e)) /\ (Calm(x) => Promised(x, e))
      BY <3>3, <3>5, UpdateHeld DEF Held
    <3>7. Kin(a, e)
      BY <2>4, <2>8, <3>5, <3>6, KinOn
    <3>8. Promised(a, e)
      <4>1. x.state = a.state /\ x.closing = a.closing
        BY <2>4, <2>8, <3>5 DEF Alike
      <4>2. Promised(x, e)
        BY <3>5, <3>6 DEF Held
      <4> QED
        BY <4>1, <4>2 DEF Promised
    <3> QED
      BY <2>4, <2>8, <2>11, <3>5, <3>6, <3>7, <3>8
  <2> QED
    BY <2>10, <2>11
<1> QED
  BY <1>1, <1>2

(* Application::stop().                                                     *)
LEMMA StopHeld ==
  ASSUME NEW a, Held(a), NEW e, e = Stop(a)
  PROVE  /\ Held(e) /\ Kin(a, e) /\ (Ended(a) => Ended(e)) /\ Promised(a, e)
         /\ AllStopped(e) <=> AllStopped(a)
         /\ a.state \in { "Starting", "StoppedResumable", "Closing" } => e.state \in { a.state, "Stopped" }
<1>1. /\ Held(e) /\ Kin(a, e) /\ (Ended(a) => Ended(e)) /\ Promised(a, e)
      /\ a.state \in { "Starting", "StoppedResumable", "Closing" } => e.state \in { a.state, "Stopped" }
  <2>1. PICK x : x = TaskStop(a)
    OBVIOUS
  <2>2. x \in Sane /\ Alike(a, x) /\ x.failed = a.failed
    BY <2>1, StopAlike DEF Held
  <2>3. Held(x) /\ Kin(a, x) /\ (Ended(a) => Ended(x)) /\ Promised(a, x)
    BY <2>2, AlikeHeld
  <2>4. CASE a.launch = "job"
    BY <2>1, <2>2, <2>3, <2>4 DEF Stop, Alike
  <2>5. CASE a.launch = "byHand"
    <3>1. e = a
      BY <2>5 DEF Stop
    <3> QED
      BY <3>1 DEF Kin, SameSurfaces, Promised
  <2>6. CASE a.launch = "unknown"
    <3>1. e = SetProcessState(x, "Stopped", Update)
      BY <2>1, <2>6 DEF Stop
    <3>2. /\ Held(e) /\ Kin(x, e) /\ (Ended(x) => Ended(e)) /\ Promised(x, e)
          /\ x.state \in { "Starting", "StoppedResumable", "Closing" } =>
               e.state \in { x.state, "Stopped" }
      BY <2>3, <3>1, ProcessStopped
    <3>3. Kin(a, e)
      BY <2>3, <3>2, KinOn
    <3>4. Promised(a, e)
      BY <2>2, <3>2 DEF Alike, Promised
    <3> QED
      BY <2>2, <2>3, <3>2, <3>3, <3>4 DEF Alike
  <2> QED
    BY <2>4, <2>5, <2>6 DEF Held, Sane, AppRecord
<1>2. AllStopped(e) <=> AllStopped(a)
  BY <1>1 DEF Kin, AllStopped, SameSurfaces
<1> QED
  BY <1>1, <1>2

(* The slot of the combined state Stopped. *)
LEMMA SessionStoppedHeld ==
  ASSUME NEW a, Held(a), AllStopped(a), a.process # "frozen", NEW e, e = OnSessionStopped(a)
  PROVE  Held(e) /\ Kin(a, e) /\ Ended(e) /\ Promised(a, e)
<1>1. a.state \in InternalState
  BY SessionTypesOf DEF Held
<1>2. CASE a.state \in { "Starting", "Running", "Closing" }
  <2>1. e = SetInternalState(a, "Stopped", Update)
    BY <1>2 DEF OnSessionStopped
  <2> QED
    BY <2>1, ToStopped
<1>3. CASE a.state = "RunningInBackground"
  <2>1. e = IF a.processState = "Failed" THEN SetInternalState(a, "StoppedResumable", Update)
            ELSE SetInternalState(a, "Stopped", Update)
    BY <1>3 DEF OnSessionStopped
  <2> QED
    BY <1>3, <2>1, ToStopped, ToResumable
<1>4. CASE a.state \in { "SuspendingWaitSession", "SuspendingWaitProcess" }
  <2>1. CASE a.processState = "Failed"
    <3>1. e = SetInternalState(a, "StoppedResumable", Update)
      BY <1>4, <2>1 DEF OnSessionStopped
    <3> QED
      BY <1>4, <2>1, <3>1, ToResumable
  <2>2. CASE a.processState # "Failed"
    <3>1. PICK x : x = Stop(a)
      OBVIOUS
    <3>2. Held(x) /\ Kin(a, x) /\ AllStopped(x)
      BY <3>1, StopHeld
    <3>3. e = SetInternalState(x, "Stopped", Update)
      BY <1>4, <2>2, <3>1 DEF OnSessionStopped
    <3>4. Held(e) /\ Kin(x, e) /\ Ended(e) /\ e.state = "Stopped"
      BY <3>2, <3>3, ToStopped
    <3>5. Kin(a, e)
      BY <3>2, <3>4, KinOn
    <3>6. Promised(a, e)
      <4>1. Ph(e.state) = "Gone" /\ Ph(a.state) # "Gone" /\ (a.closing => e.closing)
        BY <1>4, <3>4, <3>5 DEF Ph, Waiting, Kin
      <4> QED
        BY <4>1 DEF Promised
    <3> QED
      BY <3>4, <3>5, <3>6
  <2> QED
    BY <2>1, <2>2
<1>5. CASE a.state = "Suspended"
  <2>1. e = IF a.processState # "Unknown" THEN SetInternalState(a, "StoppedResumable", Update)
            ELSE SetInternalState(a, "Stopped", Update)
    BY <1>5 DEF OnSessionStopped
  <2> QED
    BY <1>5, <2>1, ToStopped, ToResumable
<1>6. CASE a.state \in { "StoppedResumable", "Stopped" }
  <2>1. e = a
    BY <1>6 DEF OnSessionStopped
  <2> QED
    BY <1>6, <2>1 DEF Kin, SameSurfaces, Promised, Ended
<1> QED
  BY <1>1, <1>2, <1>3, <1>4, <1>5, <1>6 DEF InternalState

(* As Kin, when notices may have been added.                                *)
Akin(a, e) ==
  /\ SameSurfaces(a, e)
  /\ \A s \in Sessions : e.session[s].state = "Stopped" <=> a.session[s].state = "Stopped"
  /\ e.failed \subseteq a.failed \cup Allowed
  /\ a.closing => e.closing /\ (e.startQueued => a.startQueued)

(* Kin is the stronger.                                                     *)
LEMMA KinAkin ==
  ASSUME NEW a, NEW e, Kin(a, e)
  PROVE  Akin(a, e)
BY DEF Kin, Akin

(* Freezing the process that the application waits for. *)
LEMMA FreezeHeld ==
  ASSUME NEW x, Held(x), x.state = "SuspendingWaitProcess",
         \A s \in Sessions : x.session[s].attached => x.session[s].state \in { "Suspended", "Stopped" },
         NEW y, y = TaskSuspend(x)
  PROVE  /\ Held(y) /\ Akin(x, y) /\ (Ended(x) => Ended(y))
         /\ y.state = x.state /\ y.closing = x.closing
<1>0. x \in Sane
  BY DEF Held
<1>1. CASE ~ (x.launch = "job" /\ x.process = "alive")
  <2>1. y = x
    BY <1>1 DEF TaskSuspend
  <2> QED
    BY <2>1 DEF Akin, SameSurfaces
<1>2. CASE x.launch = "job" /\ x.process = "alive"
  <2>1. y = [ x EXCEPT !.process = "frozen", !.notices = Append(@, "Suspended") ]
    BY <1>2 DEF TaskSuspend
  <2>2. y \in Sane
    BY <1>0, TaskSuspendSane DEF FrozenStates
  <2>3. /\ y.process = "frozen" /\ y.notices = Append(x.notices, "Suspended")
        /\ y.state = x.state /\ y.processState = x.processState /\ y.closing = x.closing
        /\ y.stopTimer = x.stopTimer /\ y.listed = x.listed /\ y.deleteLater = x.deleteLater
        /\ y.startQueued = x.startQueued /\ y.session = x.session /\ y.launch = x.launch
        /\ y.failed = x.failed
    BY <1>0, <2>1, Zenon DEF Sane, AppRecord
  <2>4. x.notices = << >>
    BY <1>2 DEF Held, Core, Told, Fits
  <2>5. PICK q : q = y.notices
    OBVIOUS
  <2>6. q = << "Suspended" >>
    <3>1. y.notices = Append(x.notices, "Suspended")
      BY <2>3
    <3>2. Append(<< >>, "Suspended") = << "Suspended" >>
      OBVIOUS
    <3> QED
      BY <2>4, <2>5, <3>1, <3>2, Zenon
  <2>7. Fits("frozen", q) /\ ~ Has(q, "Starting")
    BY <2>6 DEF Fits, Has
  <2>8. Filed(y)
    BY <2>3 DEF Held, Core, Filed
  <2>9. PausedIn(y, y.state) /\ LiveOnes(y) /\ Frozen(y)
    BY <2>3 DEF Held, Core, PausedIn, LiveOnes, Frozen
  <2>10. Told(y)
    BY <1>2, <2>3, <2>5, <2>7 DEF Told
  <2>11. FollowsIn(y, y.state)
    <3>1. FollowsIn(x, x.state)
      BY DEF Held, Core
    <3>2. ~ x.startQueued /\ x.processState # "Failed"
      BY <1>2, <3>1 DEF FollowsIn, Quiet
    <3> QED
      BY <1>2, <2>3, <2>5, <2>7, <3>2 DEF FollowsIn
  <2>12. Calm(y) /\ Timers(y) /\ (Ended(x) => Ended(y))
    BY <2>3 DEF Held, Calm, Timers, Ended, AllStopped
  <2>13. Akin(x, y)
    BY <2>3 DEF Akin, SameSurfaces
  <2> QED
    BY <2>2, <2>3, <2>8, <2>9, <2>10, <2>11, <2>12, <2>13 DEF Held, Core
<1> QED
  BY <1>1, <1>2

(* Akin in a row.                                                           *)
LEMMA AkinOn ==
  ASSUME NEW a, NEW b, NEW c, Akin(a, b), Akin(b, c)
  PROVE  Akin(a, c)
<1>1. SameSurfaces(a, c)
  BY DEF Akin, SameSurfaces
<1>2. a.closing => c.closing /\ (c.startQueued => a.startQueued)
  BY DEF Akin
<1> QED
  BY <1>1, <1>2 DEF Akin

(* The slot of Session::stateChanged(). *)
LEMMA SessionChangedHeld ==
  ASSUME NEW a, Held(a), AllStopped(a) => a.process # "frozen",
         \E s \in Sessions : a.session[s].attached,
         NEW e, e = OnSessionStateChanged(a)
  PROVE  Held(e) /\ Akin(a, e) /\ Ended(e) /\ Promised(a, e)
<1>1. a \in Sane /\ Core(a) /\ FollowsIn(a, a.state) /\ PausedIn(a, a.state)
  BY DEF Held, Core
<1>2. Akin(a, a) /\ Promised(a, a)
  BY DEF Akin, SameSurfaces, Promised
<1>7. CombinedIs(a, "Running") => ~ CombinedIs(a, "Suspended") /\ ~ CombinedIs(a, "Stopped")
  BY <1>1, Combined DEF AllStopped
<1>3. CASE CombinedIs(a, "Running")
  <2>1. PICK t \in Sessions : a.session[t].attached /\ a.session[t].state = "Running"
    BY <1>1, <1>3, Combined
  <2>2. ~ AllStopped(a) /\ ~ QuietSessions(a)
    BY <2>1 DEF AllStopped, QuietSessions, Quiet
  <2>3. CASE a.state = "Starting"
    <3>1. e = SetInternalState(a, "Running", Update)
      BY <1>3, <1>7, <2>3 DEF OnSessionStateChanged
    <3>2. FollowsIn(a, "Running")
      BY <1>1, <2>2, <2>3 DEF FollowsIn
    <3>3. PICK st \in InternalState \ { "Closing" } : st = "Running"
      BY DEF InternalState
    <3>4. /\ a.state # st /\ (a.process = "frozen" => st \in FrozenStates)
          /\ a.state \notin { "Closing", "Stopped" } \/ (a.state = "Closing" /\ st = "Stopped")
          /\ FollowsIn(a, st)
      BY <1>1, <2>3, <3>2, <3>3, SessionTypesOf DEF FrozenStates
    <3>5. PausedIn(a, st) /\ e = SetInternalState(a, st, Update)
      BY <1>1, <2>3, <3>1, <3>3, MayStop DEF Waiting
    <3>6. /\ e \in Sane /\ Core(e) /\ Calm(e) /\ Timers(e) /\ Kin(a, e)
          /\ (AllStopped(a) => st \in { "Starting", "StoppedResumable", "Stopped" }) => Ended(e)
      BY <1>1, <3>4, <3>5, SetCore
    <3>7. e.state \in { "Running", "Closing", "RunningInBackground", "SuspendingWaitSession" }
      BY <1>1, <3>3, <3>4, <3>5, SetCore
    <3>8. Promised(a, e)
      <4>1. Ph(a.state) = "Starting" /\ (a.closing => e.closing)
        BY <2>3, <3>6 DEF Ph, Waiting, Kin
      <4>2. /\ Ph(e.state) \in { "Running", "Suspended" }
            /\ e.closing => Ph(e.state) = "Running"
        BY <3>6, <3>7 DEF Ph, Waiting, Calm
      <4> QED
        BY <4>1, <4>2 DEF Promised
    <3> QED
      BY <2>2, <3>6, <3>8, KinAkin DEF Held
  <2>4. CASE a.state # "Starting"
    <3>1. e = a
      BY <1>3, <1>7, <2>4 DEF OnSessionStateChanged
    <3> QED
      BY <1>2, <2>2, <3>1 DEF Ended
  <2> QED
    BY <2>3, <2>4
<1>4. CASE CombinedIs(a, "Suspended") /\ ~ CombinedIs(a, "Running")
  <2>1. PICK t \in Sessions : a.session[t].attached /\ a.session[t].state = "Suspended"
    BY <1>1, <1>4, Combined
  <2>2. \A s \in Sessions : a.session[s].attached => a.session[s].state \in { "Suspended", "Stopped" }
    BY <1>1, <1>4, Combined
  <2>3. ~ AllStopped(a) /\ a.state \in Waiting
    BY <1>1, <2>1 DEF AllStopped, PausedIn
  <2>4. PICK g \in BOOLEAN : g <=> a.state = "SuspendingWaitSession"
    OBVIOUS
  <2>5. PICK b : b = QAssert(a, g, "session not awaited")
    OBVIOUS
  <2>6. "session not awaited" \in Assertion /\ "session not awaited" \in Allowed
    BY DEF Assertion, Allowed
  <2>7. /\ Held(b) /\ Kin(a, b) /\ (AllStopped(b) <=> AllStopped(a)) /\ Alike(a, b)
    BY <2>5, <2>6, AssertHeld
  <2>8. PICK x : x = SetInternalState(b, "SuspendingWaitProcess", Update)
    OBVIOUS
  <2>9. e = TaskSuspend(x)
    <3>1. QAssert(a, a.state = "SuspendingWaitSession", "session not awaited") = b
      BY <2>4, <2>5 DEF QAssert
    <3> QED
      BY <1>1, <1>4, <2>3, <2>8, <3>1, Combined DEF OnSessionStateChanged
  <2>10. /\ b.state = a.state /\ b.session = a.session /\ b.closing = a.closing
         /\ b \in Sane /\ Core(b) /\ FollowsIn(b, b.state)
    BY <2>7 DEF Alike, Held, Core
  <2>11. /\ Held(x) /\ Kin(b, x) /\ Ended(x) /\ x.state = "SuspendingWaitProcess"
         /\ \A s \in Sessions : x.session[s].state = b.session[s].state
    <3>1. CASE b.state = "SuspendingWaitProcess"
      <4>1. x = b
        BY <2>8, <3>1 DEF SetInternalState
      <4> QED
        BY <2>3, <2>7, <3>1, <4>1 DEF Kin, SameSurfaces, Ended
    <3>2. CASE b.state # "SuspendingWaitProcess"
      <4>1. PICK st \in InternalState \ { "Closing" } : st = "SuspendingWaitProcess"
        BY DEF InternalState
      <4>2. b.state \in { "SuspendingWaitSession", "Suspended" }
        BY <2>3, <2>10, <3>2 DEF Waiting
      <4>3. FollowsIn(b, "SuspendingWaitProcess")
        BY <2>10, <4>2 DEF FollowsIn, Quiet
      <4>4. /\ b.state # st /\ (b.process = "frozen" => st \in FrozenStates)
            /\ b.state \notin { "Closing", "Stopped" } \/ (b.state = "Closing" /\ st = "Stopped")
            /\ FollowsIn(b, st) /\ PausedIn(b, st) /\ x = SetInternalState(b, st, Update)
        BY <2>8, <4>1, <4>2, <4>3 DEF FrozenStates, PausedIn, Waiting
      <4>5. /\ x \in Sane /\ Core(x) /\ Calm(x) /\ Timers(x) /\ Kin(b, x)
            /\ (AllStopped(b) => st \in { "Starting", "StoppedResumable", "Stopped" }) => Ended(x)
        BY <2>10, <4>4, SetCore
      <4>6. /\ x.state = st
            /\ \A s \in Sessions : x.session[s].state = b.session[s].state
        BY <2>10, <4>1, <4>4, SetCore
      <4> QED
        BY <2>3, <2>7, <4>1, <4>5, <4>6 DEF Held
    <3> QED
      BY <3>1, <3>2
  <2>12. \A s \in Sessions : x.session[s].attached => x.session[s].state \in { "Suspended", "Stopped" }
    BY <2>2, <2>10, <2>11 DEF Kin, SameSurfaces
  <2>13. /\ Held(e) /\ Akin(x, e) /\ (Ended(x) => Ended(e))
         /\ e.state = x.state /\ e.closing = x.closing
    BY <2>9, <2>11, <2>12, FreezeHeld
  <2>14. Akin(a, e)
    <3>1. Akin(a, b) /\ Akin(b, x)
      BY <2>7, <2>11, KinAkin
    <3> QED
      BY <2>13, <3>1, AkinOn
  <2>15. Promised(a, e)
    <3>1. Ph(a.state) = "Suspended" /\ Ph(e.state) = "Suspended"
      BY <2>3, <2>11, <2>13 DEF Ph, Waiting
    <3>2. a.closing => e.closing
      BY <2>14 DEF Akin
    <3> QED
      BY <3>1, <3>2 DEF Promised
  <2> QED
    BY <2>11, <2>13, <2>14, <2>15
<1>5. CASE CombinedIs(a, "Stopped") /\ ~ CombinedIs(a, "Running") /\ ~ CombinedIs(a, "Suspended")
  <2>1. e = OnSessionStopped(a)
    BY <1>5 DEF OnSessionStateChanged
  <2>2. AllStopped(a)
    BY <1>1, <1>5, Combined
  <2> QED
    BY <2>1, <2>2, SessionStoppedHeld, KinAkin
<1>6. CASE ~ CombinedIs(a, "Running") /\ ~ CombinedIs(a, "Suspended") /\ ~ CombinedIs(a, "Stopped")
  <2>1. e = a
    BY <1>6 DEF OnSessionStateChanged
  <2>2. ~ AllStopped(a)
    BY <1>1, <1>6, Combined
  <2> QED
    BY <1>2, <2>1, <2>2 DEF Ended
<1> QED
  BY <1>3, <1>4, <1>5, <1>6

------------------------------------------------------------------------------
(***************************************************************************)
(* The safety of one application in the shell: every handler keeps the     *)
(* invariant Whole, every step of the specification is one that the shell  *)
(* was promised, and what follows from both.                               *)
(***************************************************************************)

-----------------------------------------------------------------------------
(* Sessions, one at a time. *)

(* All but the sessions is the same, and so is what is to be told.          *)
Beside(a, b) ==
  /\ b.state = a.state /\ b.processState = a.processState /\ b.listed = a.listed
  /\ b.deleteLater = a.deleteLater /\ b.startQueued = a.startQueued /\ b.process = a.process
  /\ b.closing = a.closing /\ b.stopTimer = a.stopTimer /\ b.failed = a.failed
  /\ b.notices = a.notices /\ b.launch = a.launch
  /\ b.wakelock = a.wakelock /\ b.requested = a.requested

(* One session is put in the place of another. *)
Put(a, s, r, b) ==
  /\ Beside(a, b) /\ b.session[s] = r
  /\ \A t \in Sessions : t # s => b.session[t] = a.session[t]

(* The application with the sessions f.                                     *)
WithSessions(a, f) == [ a EXCEPT !.session = f ]

(* Its other fields are those it had.                                       *)
LEMMA WithSessionsSet ==
  ASSUME NEW a \in Sane, NEW f \in [ Sessions -> SaneSession ]
  PROVE  /\ WithSessions(a, f) \in Sane /\ WithSessions(a, f).session = f
         /\ Beside(a, WithSessions(a, f))
<1> SUFFICES ASSUME NEW b, b = [ a EXCEPT !.session = f ]
             PROVE  b \in Sane /\ b.session = f /\ Beside(a, b)
  BY DEF WithSessions
<1>1. b \in Sane /\ b.session = f
  BY SessionsSet
<1>2. /\ b.state = a.state /\ b.processState = a.processState /\ b.wakelock = a.wakelock
      /\ b.listed = a.listed /\ b.deleteLater = a.deleteLater
      /\ b.startQueued = a.startQueued /\ b.process = a.process /\ SameOutside(a, b)
      /\ b.closing = a.closing /\ b.stopTimer = a.stopTimer /\ b.failed = a.failed
  BY SessionsSet
<1> QED
  BY <1>1, <1>2, Zenon DEF Beside, SameOutside

(* Writing one session leaves the others as they are.                       *)
LEMMA PutSet ==
  ASSUME NEW a \in Sane, NEW s \in Sessions, NEW r \in SaneSession,
         NEW b, b = [ a EXCEPT !.session[s] = r ]
  PROVE  b \in Sane /\ Put(a, s, r, b)
<1>1. a.session \in [ Sessions -> SaneSession ]
  BY DEF Sane
<1>2. PICK f : f = [ a.session EXCEPT ![s] = r ]
  OBVIOUS
<1>3. /\ f \in [ Sessions -> SaneSession ] /\ f[s] = r
      /\ \A t \in Sessions : t # s => f[t] = a.session[t]
  BY <1>1, <1>2
<1>4. b = [ a EXCEPT !.session = f ]
  BY <1>2
<1>5. b = WithSessions(a, f)
  BY <1>4 DEF WithSessions
<1>6. b \in Sane /\ b.session = f /\ Beside(a, b)
  BY <1>3, <1>5, WithSessionsSet
<1> QED
  BY <1>3, <1>6, Zenon DEF Put

(* Of session s all but one field is as it was. *)
IsList(a, s, F, b) ==
  \E r \in SaneSession :
    /\ b \in Sane /\ Put(a, s, r, b)
    /\ r.attached = a.session[s].attached /\ r.state = a.session[s].state
    /\ r.live = a.session[s].live /\ r.list = F /\ r.closing = a.session[s].closing
    /\ r.hadSurface = a.session[s].hadSurface /\ r.zombie = a.session[s].zombie

(* b is a with F for the closing surfaces of session s.                     *)
IsClosings(a, s, F, b) ==
  \E r \in SaneSession :
    /\ b \in Sane /\ Put(a, s, r, b)
    /\ r.attached = a.session[s].attached /\ r.state = a.session[s].state
    /\ r.live = a.session[s].live /\ r.list = a.session[s].list /\ r.closing = F
    /\ r.hadSurface = a.session[s].hadSurface /\ r.zombie = a.session[s].zombie

(* The application with the surfaces F listed in session s.                 *)
NewList(a, s, F) == [ a EXCEPT !.session[s].list = F ]

(* Only this field is written.                                              *)
LEMMA ListPut ==
  ASSUME NEW a \in Sane, NEW s \in Sessions, NEW F \in SUBSET Surfaces,
         NEW b, b = NewList(a, s, F)
  PROVE  IsList(a, s, F, b)
<1>1. PICK o \in SaneSession : o = a.session[s]
  BY SessionTypes
<1>2. PICK r : r = [ o EXCEPT !.list = F ]
  OBVIOUS
<1>3. r \in SessionRecord
  BY <1>2, Zenon DEF SaneSession, SessionRecord
<1>4. /\ r.attached = o.attached /\ r.state = o.state /\ r.live = o.live /\ r.list = F
      /\ r.closing = o.closing /\ r.hadSurface = o.hadSurface /\ r.zombie = o.zombie
  BY <1>2, Zenon DEF SaneSession, SessionRecord
<1>5. r \in SaneSession
  BY <1>3, <1>4, Zenon DEF SaneSession
<1>6. b = [ a EXCEPT !.session[s] = r ]
  BY <1>1, <1>2 DEF NewList
<1> QED
  BY <1>1, <1>4, <1>5, <1>6, PutSet DEF IsList

(* The application with the surfaces F closing in session s.                *)
NewClosing(a, s, F) == [ a EXCEPT !.session[s].closing = F ]

(* Only this field is written.                                              *)
LEMMA ClosingPut ==
  ASSUME NEW a \in Sane, NEW s \in Sessions, NEW F \in SUBSET Surfaces,
         NEW b, b = NewClosing(a, s, F)
  PROVE  IsClosings(a, s, F, b)
<1>1. PICK o \in SaneSession : o = a.session[s]
  BY SessionTypes
<1>2. PICK r : r = [ o EXCEPT !.closing = F ]
  OBVIOUS
<1>3. r \in SessionRecord
  BY <1>2, Zenon DEF SaneSession, SessionRecord
<1>4. /\ r.attached = o.attached /\ r.state = o.state /\ r.live = o.live /\ r.list = o.list
      /\ r.closing = F /\ r.hadSurface = o.hadSurface /\ r.zombie = o.zombie
  BY <1>2, Zenon DEF SaneSession, SessionRecord
<1>5. r \in SaneSession
  BY <1>3, <1>4, Zenon DEF SaneSession
<1>6. b = [ a EXCEPT !.session[s] = r ]
  BY <1>1, <1>2 DEF NewClosing
<1> QED
  BY <1>1, <1>4, <1>5, <1>6, PutSet DEF IsClosings

(* The application with hadSurface written in session s.                    *)
NewHad(a, s, v) == [ a EXCEPT !.session[s].hadSurface = v ]

(* Only this field is written.                                              *)
LEMMA HadPut ==
  ASSUME NEW a \in Sane, NEW s \in Sessions, NEW v \in BOOLEAN,
         NEW b, b = NewHad(a, s, v)
  PROVE  \E r \in SaneSession :
           /\ b \in Sane /\ Put(a, s, r, b)
           /\ r.attached = a.session[s].attached /\ r.state = a.session[s].state
           /\ r.live = a.session[s].live /\ r.list = a.session[s].list
           /\ r.closing = a.session[s].closing
           /\ r.hadSurface = v /\ r.zombie = a.session[s].zombie
<1>1. PICK o \in SaneSession : o = a.session[s]
  BY SessionTypes
<1>2. PICK r : r = [ o EXCEPT !.hadSurface = v ]
  OBVIOUS
<1>3. r \in SessionRecord
  BY <1>2, Zenon DEF SaneSession, SessionRecord
<1>4. /\ r.attached = o.attached /\ r.state = o.state /\ r.live = o.live /\ r.list = o.list
      /\ r.closing = o.closing /\ r.hadSurface = v /\ r.zombie = o.zombie
  BY <1>2, Zenon DEF SaneSession, SessionRecord
<1>5. r \in SaneSession
  BY <1>3, <1>4, Zenon DEF SaneSession
<1>6. b = [ a EXCEPT !.session[s] = r ]
  BY <1>1, <1>2 DEF NewHad
<1> QED
  BY <1>1, <1>4, <1>5, <1>6, PutSet

(* deleteIfZombieAndEmpty() writes only that.                               *)
LEMMA ZombiePut ==
  ASSUME NEW a \in Sane, NEW s \in Sessions, NEW b, b = DeleteIfZombieAndEmpty(a, s)
  PROVE  \E r \in SaneSession :
           /\ b \in Sane /\ Put(a, s, r, b)
           /\ r.attached = a.session[s].attached /\ r.state = a.session[s].state
           /\ r.live = a.session[s].live /\ r.list = a.session[s].list
           /\ r.closing = a.session[s].closing /\ r.hadSurface = a.session[s].hadSurface
           /\ r.zombie <=> a.session[s].zombie \/ (~ a.session[s].live /\ a.session[s].list = {})
<1>1. PICK o \in SaneSession : o = a.session[s]
  BY SessionTypes
<1>0. PICK v \in BOOLEAN : v = (o.zombie \/ (~ o.live /\ o.list = {}))
  OBVIOUS
<1>2. PICK r : r = [ o EXCEPT !.zombie = v ]
  OBVIOUS
<1>3. r \in SessionRecord
  BY <1>2, Zenon DEF SaneSession, SessionRecord
<1>4. /\ r.attached = o.attached /\ r.state = o.state /\ r.live = o.live /\ r.list = o.list
      /\ r.closing = o.closing /\ r.hadSurface = o.hadSurface /\ r.zombie = v
  BY <1>2, Zenon DEF SaneSession, SessionRecord
<1>5. r \in SaneSession
  BY <1>3, <1>4, Zenon DEF SaneSession
<1>6. b = [ a EXCEPT !.session[s] = r ]
  BY <1>0, <1>1, <1>2 DEF DeleteIfZombieAndEmpty, ListEmpty
<1> QED
  BY <1>0, <1>1, <1>4, <1>5, <1>6, PutSet

-----------------------------------------------------------------------------
(* The invariant, and what a handler may do. *)

(* What a handler may do, as its caller sees it. *)
Tame(a, e) ==
  /\ Promised(a, e) /\ e.failed \subseteq a.failed \cup Allowed
  /\ a.closing => e.closing /\ (e.startQueued => a.startQueued)

(* The invariant, when all handlers have returned.                          *)
Whole(a) == Held(a) /\ Ended(a) /\ Zombies(a)

(* A session that lost surfaces, or was marked, changes nothing for the     *)
(* rest.                                                                    *)
LEMMA PutSame ==
  ASSUME NEW a \in Sane, Core(a), NEW s \in Sessions, NEW r, NEW b \in Sane, Put(a, s, r, b),
         r.attached = a.session[s].attached, r.state = a.session[s].state,
         r.live = a.session[s].live
  PROVE  /\ Core(b) /\ (Calm(a) => Calm(b)) /\ (Ended(a) => Ended(b))
         /\ Timers(a) /\ r.list \subseteq a.session[s].list => Timers(b)
         /\ Zombies(a) /\ (r.attached => (r.zombie <=> ~ r.live /\ r.list = {})) => Zombies(b)
         /\ Drifts(a, b) /\ b.failed = a.failed /\ b.process = a.process
<1>1. /\ b.state = a.state /\ b.processState = a.processState /\ b.listed = a.listed
      /\ b.deleteLater = a.deleteLater /\ b.startQueued = a.startQueued /\ b.process = a.process
      /\ b.closing = a.closing /\ b.stopTimer = a.stopTimer /\ b.failed = a.failed
      /\ b.notices = a.notices /\ b.launch = a.launch
  BY DEF Put, Beside
<1>2. \A t \in Sessions : /\ b.session[t].attached = a.session[t].attached
                          /\ b.session[t].state = a.session[t].state
                          /\ b.session[t].live = a.session[t].live
  BY DEF Put
<1>3. Filed(b)
  BY <1>1 DEF Core, Filed
<1>4. PausedIn(b, b.state) /\ LiveOnes(b) /\ Frozen(b)
  BY <1>1, <1>2 DEF Core, PausedIn, LiveOnes, Frozen
<1>5. Told(b)
  BY <1>1 DEF Core, Told
<1>6. FollowsIn(b, b.state)
  <2>1. QuietSessions(a) => QuietSessions(b)
    BY <1>2 DEF QuietSessions
  <2> QED
    BY <1>1, <2>1 DEF Core, FollowsIn
<1>7. (Calm(a) => Calm(b)) /\ (Ended(a) => Ended(b))
  BY <1>1, <1>2 DEF Calm, Ended, AllStopped
<1>8. ASSUME Timers(a), r.list \subseteq a.session[s].list PROVE Timers(b)
  <2>1. \A t \in Sessions : b.session[t].list \subseteq a.session[t].list
    BY <1>8 DEF Put
  <2> QED
    BY <1>1, <1>2, <1>8, <2>1 DEF Timers
<1>9. ASSUME Zombies(a), r.attached => (r.zombie <=> ~ r.live /\ r.list = {}) PROVE Zombies(b)
  <2>1. \A t \in Sessions : b.session[t].attached =>
          (b.session[t].zombie <=> ~ b.session[t].live /\ b.session[t].list = {})
    BY <1>9 DEF Put, Zombies
  <2> QED
    BY <2>1 DEF Zombies
<1>10. Drifts(a, b)
  BY <1>1 DEF Drifts
<1> QED
  BY <1>1, <1>3, <1>4, <1>5, <1>6, <1>7, <1>8, <1>9, <1>10 DEF Core

(* What updateState() does is tame.                                         *)
LEMMA DriftsTame ==
  ASSUME NEW a \in Sane, NEW b \in Sane, Drifts(a, b), Calm(a), Calm(b),
         b.failed \subseteq a.failed \cup Allowed
  PROVE  Tame(a, b)
<1>1. Promised(a, b)
  BY DriftPromise
<1>2. a.closing => b.closing /\ (b.startQueued => a.startQueued)
  BY DEF Drifts
<1> QED
  BY <1>1, <1>2 DEF Tame

(* Session::setState(), up to its signal and with it. *)
LEMMA PutState ==
  ASSUME NEW a, Held(a), NEW s \in Sessions, NEW r, NEW x \in Sane, Put(a, s, r, x),
         r.attached, r.live <=> r.state # "Stopped", r.list \subseteq a.session[s].list,
         a.session[s].attached,
         r.state \in { "Suspending", "Suspended" } => a.state \in Waiting,
         r.state \notin Quiet => a.session[s].state \notin Quiet \/ a.process = "alive",
         a.process = "frozen" => r.state = "Suspended",
         NEW e, e = OnSessionStateChanged(x)
  PROVE  /\ Held(x) /\ Held(e) /\ Ended(e) /\ Akin(x, e) /\ Promised(x, e)
         /\ Beside(a, x)
<1>1. /\ x.state = a.state /\ x.processState = a.processState /\ x.listed = a.listed
      /\ x.deleteLater = a.deleteLater /\ x.startQueued = a.startQueued /\ x.process = a.process
      /\ x.closing = a.closing /\ x.stopTimer = a.stopTimer /\ x.failed = a.failed
      /\ x.notices = a.notices /\ x.launch = a.launch /\ x.session[s] = r
  BY DEF Put, Beside
<1>2. \A t \in Sessions : t # s => x.session[t] = a.session[t]
  BY DEF Put
<1>3. Filed(x) /\ Told(x) /\ Calm(x)
  BY <1>1 DEF Held, Core, Filed, Told, Calm
<1>4. PausedIn(x, x.state)
  BY <1>1, <1>2 DEF Held, Core, PausedIn
<1>5. LiveOnes(x)
  BY <1>1, <1>2 DEF Held, Core, LiveOnes
<1>6. Frozen(x)
  BY <1>1, <1>2 DEF Held, Core, Frozen
<1>7. FollowsIn(x, x.state)
  <2>1. FollowsIn(a, a.state)
    BY DEF Held, Core
  <2>2. CASE r.state \in Quiet \/ a.session[s].state \notin Quiet
    <3>1. QuietSessions(a) => QuietSessions(x)
      BY <1>1, <1>2, <2>2 DEF QuietSessions
    <3> QED
      BY <1>1, <2>1, <3>1 DEF FollowsIn
  <2>3. CASE a.process = "alive"
    <3>1. a.notices = << >>
      BY <2>3 DEF Held, Core, Told, Fits
    <3>2. ~ Has(a.notices, "Starting")
      BY <3>1 DEF Has
    <3> QED
      BY <1>1, <2>1, <2>3, <3>2 DEF FollowsIn
  <2> QED
    BY <2>2, <2>3
<1>8. Timers(x)
  BY <1>1, <1>2 DEF Held, Timers
<1>9. Held(x)
  BY <1>3, <1>4, <1>5, <1>6, <1>7, <1>8 DEF Held, Core
<1>10. AllStopped(x) => x.process # "frozen"
  BY <1>1 DEF AllStopped
<1>11. \E t \in Sessions : x.session[t].attached
  BY <1>1
<1> QED
  BY <1>9, <1>10, <1>11, SessionChangedHeld DEF Put

(* updateState() wakes a process, and does nothing else to it.              *)
LEMMA UpdateProcess ==
  ASSUME NEW a \in Sane, a.process # "frozen"
  PROVE  Update[a].process = a.process
BY UpdateSettles DEF Outcome

(* One Running session makes the combined state Running.                    *)
LEMMA RunningFirst ==
  ASSUME NEW a \in Sane, NEW s \in Sessions, a.session[s].attached, a.session[s].state = "Running"
  PROVE  CombinedIs(a, "Running")
<1>1. \A t \in Sessions : a.session[t].state \in SessionState
  BY SessionTypes DEF SaneSession, SessionRecord
<1>2. \A st \in SessionState : Liveliness[st] <= Liveliness["Running"]
  BY DEF SessionState, Liveliness
<1> QED
  BY <1>1, <1>2 DEF CombinedIs, Attached

(* prependSurface(): the emptyChanged signal of a list that was empty.      *)
Grown(a, s, b) == IF ListEmpty(a, s) THEN UpdateState(b) ELSE b

(* prependSurface(): the first surface makes the session Running.           *)
Shown(d, s) == IF d.session[s].state = "Starting" THEN SetSessionState(d, s, "Running") ELSE d

(* prependSurface(), step by step.                                          *)
LEMMA PrependIs ==
  ASSUME NEW a, NEW s \in Sessions, NEW f \in Surfaces
  PROVE  PrependSurface(a, s, f) =
           Shown(NewHad(Grown(a, s, NewList(a, s, a.session[s].list \cup { f })), s, TRUE), s)
BY Zenon DEF PrependSurface, Shown, NewHad, Grown, NewList

(* prependSurface(). *)
LEMMA PrependKept ==
  ASSUME NEW a, Whole(a), NEW s \in Sessions, NEW f \in Surfaces, a.session[s].attached,
         a.session[s].live, a.process = "alive",
         NEW e, e = PrependSurface(a, s, f)
  PROVE  Whole(e) /\ Tame(a, e)
<1>0. a \in Sane /\ Core(a) /\ Calm(a) /\ Timers(a) /\ Ended(a) /\ Zombies(a)
  BY DEF Whole, Held
<1>1. PICK F \in SUBSET Surfaces : F = a.session[s].list \cup { f }
  BY <1>0, SessionTypes
<1>2. PICK b : b = NewList(a, s, F)
  OBVIOUS
<1>21. IsList(a, s, F, b)
  BY <1>0, <1>2, ListPut
<1>3. PICK r \in SaneSession :
           /\ b \in Sane /\ Put(a, s, r, b)
           /\ r.attached = a.session[s].attached /\ r.state = a.session[s].state
           /\ r.live = a.session[s].live /\ r.list = F /\ r.closing = a.session[s].closing
           /\ r.hadSurface = a.session[s].hadSurface /\ r.zombie = a.session[s].zombie
  BY <1>21 DEF IsList
<1>4. ~ r.zombie
  BY <1>0, <1>3 DEF Zombies
<1>5. Core(b) /\ Calm(b) /\ Ended(b) /\ Drifts(a, b) /\ b.failed = a.failed /\ b.process = a.process
  BY <1>0, <1>3, PutSame
<1>6. Zombies(b)
  BY <1>0, <1>3, <1>4, PutSame
<1>7. b.session[s].attached /\ b.session[s].live /\ b.session[s].state = a.session[s].state
  BY <1>3 DEF Put
<1>8. PICK c : c = Grown(a, s, b)
  OBVIOUS
<1>9. /\ Whole(c) /\ Drifts(a, c) /\ c.failed \subseteq a.failed \cup Allowed
      /\ c.session[s].attached /\ c.session[s].live /\ c.process = "alive"
  <2>1. CASE ListEmpty(a, s)
    <3>1. c = Update[b]
      BY <1>8, <2>1 DEF Grown, UpdateState
    <3>2. /\ Held(c) /\ Kin(b, c) /\ Drifts(b, c) /\ (Ended(b) => Ended(c))
      BY <1>3, <1>5, <3>1, UpdateHeld
    <3>3. Zombies(c)
      BY <1>6, <3>2 DEF Zombies, Kin, SameSurfaces
    <3>4. Drifts(a, c)
      BY <1>0, <1>3, <1>5, <3>2, DriftsOn DEF Held
    <3>5. c.process = "alive"
      BY <1>3, <1>5, <3>1, UpdateProcess
    <3> QED
      BY <1>5, <1>7, <3>2, <3>3, <3>4, <3>5 DEF Whole, Kin, SameSurfaces
  <2>2. CASE ~ ListEmpty(a, s)
    <3>1. c = b
      BY <1>8, <2>2 DEF Grown
    <3>2. ~ (a.stopTimer /\ ~ a.closing)
      BY <1>0, <2>2 DEF Timers, ListEmpty
    <3>3. Timers(b)
      BY <1>3, <3>2 DEF Timers, Put, Beside
    <3> QED
      BY <1>3, <1>5, <1>6, <1>7, <3>1, <3>3 DEF Whole, Held
  <2> QED
    BY <2>1, <2>2
<1>20. PICK v \in BOOLEAN : v = TRUE
  OBVIOUS
<1>10. PICK d : d = NewHad(c, s, v)
  OBVIOUS
<1>11. c \in Sane /\ Core(c) /\ Calm(c) /\ Timers(c) /\ Ended(c) /\ Zombies(c)
  BY <1>9 DEF Whole, Held
<1>12. PICK o \in SaneSession :
           /\ d \in Sane /\ Put(c, s, o, d)
           /\ o.attached = c.session[s].attached /\ o.state = c.session[s].state
           /\ o.live = c.session[s].live /\ o.list = c.session[s].list
           /\ o.closing = c.session[s].closing
           /\ o.hadSurface = v /\ o.zombie = c.session[s].zombie
  BY <1>10, <1>11, HadPut
<1>13. Core(d) /\ Calm(d) /\ Ended(d) /\ Drifts(c, d) /\ d.failed = c.failed /\ d.process = c.process
  BY <1>11, <1>12, PutSame
<1>14. Timers(d) /\ Zombies(d)
  <2>1. o.attached => (o.zombie <=> ~ o.live /\ o.list = {})
    BY <1>11, <1>12 DEF Zombies
  <2> QED
    BY <1>11, <1>12, <2>1, PutSame
<1>15. Whole(d) /\ Held(d)
  BY <1>12, <1>13, <1>14 DEF Whole, Held
<1>16. Drifts(a, d) /\ d.failed \subseteq a.failed \cup Allowed
  BY <1>0, <1>9, <1>11, <1>12, <1>13, DriftsOn
<1>17. e = IF d.session[s].state = "Starting" THEN SetSessionState(d, s, "Running") ELSE d
  <2>1. e = Shown(NewHad(Grown(a, s, NewList(a, s, a.session[s].list \cup { f })), s, TRUE), s)
    BY PrependIs
  <2>2. e = Shown(d, s)
    BY <1>1, <1>2, <1>8, <1>10, <1>20, <2>1
  <2> QED
    BY <2>2 DEF Shown
<1>18. CASE d.session[s].state # "Starting"
  BY <1>0, <1>12, <1>13, <1>15, <1>16, <1>17, <1>18, DriftsTame
<1>19. CASE d.session[s].state = "Starting"
  <2>1. PICK st \in SessionState : st = "Running"
    BY DEF SessionState
  <2>2. PICK x : x = [ d EXCEPT !.session[s].state = st ]
    OBVIOUS
  <2>3. d.session[s].attached /\ d.session[s].live /\ o = d.session[s]
    BY <1>9, <1>12 DEF Put
  <2>4. PICK p : p = WithState(o, st)
    OBVIOUS
  <2>5. /\ p \in SaneSession /\ p.state = st
        /\ p.attached = o.attached /\ p.live = o.live
        /\ p.list = o.list /\ p.closing = o.closing
        /\ p.hadSurface = o.hadSurface /\ p.zombie = o.zombie
    <3>1. o.attached = TRUE
      BY <2>3 DEF SaneSession, SessionRecord
    <3> QED
      BY <2>4, <3>1, StateSet
  <2>6. x \in Sane /\ Put(d, s, p, x)
    <3>1. x = [ d EXCEPT !.session[s] = p ]
      BY <2>2, <2>3, <2>4 DEF WithState
    <3> QED
      BY <1>12, <2>5, <3>1, PutSet
  <2>7. e = OnSessionStateChanged(x)
    BY <1>17, <1>19, <2>1, <2>2 DEF SetSessionState
  <2>8. d.process = "alive"
    BY <1>9, <1>13
  <2>9. /\ Held(x) /\ Held(e) /\ Ended(e) /\ Akin(x, e) /\ Promised(x, e) /\ Beside(d, x)
    <3>1. /\ p.attached /\ (p.live <=> p.state # "Stopped") /\ p.list \subseteq d.session[s].list
          /\ p.state \notin { "Suspending", "Suspended" }
      BY <2>1, <2>3, <2>5
    <3> QED
      BY <1>15, <2>3, <2>6, <2>7, <2>8, <3>1, PutState
  <2>10. Zombies(x)
    BY <1>14, <2>3, <2>5, <2>6 DEF Put, Zombies
  <2>11. Zombies(e)
    BY <2>9, <2>10 DEF Zombies, Akin, SameSurfaces
  <2>12. /\ x.state = d.state /\ x.closing = d.closing /\ x.failed = d.failed
         /\ x.startQueued = d.startQueued
    BY <2>9 DEF Beside
  <2>13. Tame(a, d)
    BY <1>0, <1>12, <1>13, <1>16, DriftsTame
  <2>14. CASE x.state = "Starting"
    <3>1. a.state # "StoppedResumable" /\ a.state \in InternalState
      BY <1>0, SessionTypesOf DEF Core, FollowsIn
    <3>2. a.state = "Starting"
      BY <1>16, <2>12, <2>14, <3>1 DEF Drifts, InternalState, Waiting
    <3>3. a.closing => x.closing /\ (x.startQueued => a.startQueued)
      BY <2>12, <2>13 DEF Tame
    <3>4. Promised(a, e)
      BY <2>9, <2>14, <3>2, <3>3 DEF Promised
    <3> QED
      BY <2>9, <2>11, <2>12, <2>13, <3>3, <3>4 DEF Tame, Whole, Akin
  <2>15. CASE x.state # "Starting"
    <3>1. x.session[s].attached /\ x.session[s].state = "Running"
      BY <2>1, <2>3, <2>5, <2>6 DEF Put
    <3>2. CombinedIs(x, "Running")
      BY <2>6, <3>1, RunningFirst
    <3>4. ~ CombinedIs(x, "Suspended") /\ ~ CombinedIs(x, "Stopped")
      BY <2>6, <3>1, Combined DEF AllStopped
    <3>3. e = x
      BY <2>7, <2>15, <3>2, <3>4 DEF OnSessionStateChanged
    <3> QED
      BY <2>9, <2>11, <2>12, <2>13, <3>3 DEF Tame, Whole, Promised
  <2> QED
    BY <2>14, <2>15
<1> QED
  BY <1>18, <1>19

-----------------------------------------------------------------------------
(* Surfaces that go: handlers with several calls of updateState(). *)

(* Where the steps of a handler have taken an application. *)
Runs(a, x) ==
  /\ x \in Sane /\ Core(x) /\ Calm(x) /\ Ended(x) /\ Drifts(a, x)
  /\ x.failed \subseteq a.failed \cup Allowed

(* Surfaces were moved about or removed, and nothing else.                  *)
Edited(a, b) ==
  /\ Beside(a, b)
  /\ \A t \in Sessions : /\ b.session[t].attached = a.session[t].attached
                         /\ b.session[t].state = a.session[t].state
                         /\ b.session[t].live = a.session[t].live

(* A handler begins so.                                                     *)
LEMMA WholeRuns ==
  ASSUME NEW a, Whole(a)
  PROVE  Runs(a, a)
BY DEF Whole, Held, Runs, Drifts

(* And, at the end, has kept the invariant.                                 *)
LEMMA RunsWhole ==
  ASSUME NEW a, Whole(a), NEW e, Runs(a, e), Timers(e), Zombies(e)
  PROVE  Whole(e) /\ Tame(a, e)
<1>1. Whole(e)
  BY DEF Whole, Held, Runs
<1>2. Tame(a, e)
  BY DriftsTame DEF Whole, Held, Runs
<1> QED
  BY <1>1, <1>2

(* Another updateState() on the way.                                        *)
LEMMA UpdateRuns ==
  ASSUME NEW a \in Sane, NEW x, Runs(a, x), NEW y, y = UpdateState(x)
  PROVE  /\ Runs(a, y) /\ Timers(y) /\ SameSurfaces(x, y) /\ (Zombies(x) => Zombies(y))
<1>1. x \in Sane /\ Core(x) /\ Calm(x) /\ Ended(x) /\ Drifts(a, x)
  BY DEF Runs
<1>2. y = Update[x]
  BY DEF UpdateState
<1>3. Held(y) /\ Kin(x, y) /\ Drifts(x, y) /\ Ended(y)
  BY <1>1, <1>2, UpdateHeld
<1>4. Drifts(a, y)
  BY <1>1, <1>3, DriftsOn DEF Held
<1>5. SameSurfaces(x, y) /\ y.failed \subseteq x.failed \cup Allowed
  BY <1>3 DEF Kin
<1>6. y.failed \subseteq a.failed \cup Allowed
  BY <1>5 DEF Runs
<1>7. Zombies(x) => Zombies(y)
  BY <1>5 DEF SameSurfaces, Zombies
<1> QED
  BY <1>3, <1>4, <1>5, <1>6, <1>7 DEF Runs, Held

(* Another surface moved on the way.                                        *)
LEMMA EditedRuns ==
  ASSUME NEW a \in Sane, NEW x, Runs(a, x), NEW y \in Sane, Edited(x, y)
  PROVE  /\ Runs(a, y)
         /\ Timers(x) /\ (\A t \in Sessions : y.session[t].list \subseteq x.session[t].list) => Timers(y)
<1>1. /\ y.state = x.state /\ y.processState = x.processState /\ y.listed = x.listed
      /\ y.deleteLater = x.deleteLater /\ y.startQueued = x.startQueued /\ y.process = x.process
      /\ y.closing = x.closing /\ y.stopTimer = x.stopTimer /\ y.failed = x.failed
      /\ y.notices = x.notices /\ y.launch = x.launch
  BY DEF Edited, Beside
<1>2. \A t \in Sessions : /\ y.session[t].attached = x.session[t].attached
                          /\ y.session[t].state = x.session[t].state
                          /\ y.session[t].live = x.session[t].live
  BY DEF Edited
<1>0. Core(x) /\ Calm(x) /\ Ended(x) /\ Drifts(a, x) /\ x \in Sane
  BY DEF Runs
<1>3. Filed(y)
  BY <1>0, <1>1 DEF Core, Filed
<1>4. PausedIn(y, y.state) /\ LiveOnes(y) /\ Frozen(y)
  BY <1>0, <1>1, <1>2 DEF Core, PausedIn, LiveOnes, Frozen
<1>5. Told(y)
  BY <1>0, <1>1 DEF Core, Told
<1>6. FollowsIn(y, y.state)
  <2>1. QuietSessions(x) => QuietSessions(y)
    BY <1>2 DEF QuietSessions
  <2> QED
    BY <1>0, <1>1, <2>1 DEF Core, FollowsIn
<1>7. Calm(y) /\ Ended(y)
  BY <1>0, <1>1, <1>2 DEF Calm, Ended, AllStopped
<1>8. ASSUME Timers(x), \A t \in Sessions : y.session[t].list \subseteq x.session[t].list
      PROVE  Timers(y)
  BY <1>1, <1>2, <1>8 DEF Timers
<1>9. Drifts(a, y)
  <2>1. Drifts(x, y)
    BY <1>1 DEF Drifts
  <2> QED
    BY <1>0, <2>1, DriftsOn
<1>10. y.failed \subseteq a.failed \cup Allowed
  BY <1>1 DEF Runs
<1> QED
  BY <1>3, <1>4, <1>5, <1>6, <1>7, <1>8, <1>9, <1>10 DEF Runs, Core

(* Session s without the surface f in its list.                             *)
Without(a, s, f) == NewList(a, s, a.session[s].list \ { f })

(* Of session s the list, the closing surfaces or the zombie flag are set. *)
OneEdit(a, s, b) ==
  /\ b \in Sane /\ Edited(a, b)
  /\ \A t \in Sessions : t # s => b.session[t] = a.session[t]

(* A session that only lost surfaces, or moved them, was edited.            *)
LEMMA PutEdited ==
  ASSUME NEW a, NEW s \in Sessions, NEW r, NEW b \in Sane, Put(a, s, r, b),
         r.attached = a.session[s].attached, r.state = a.session[s].state,
         r.live = a.session[s].live
  PROVE  OneEdit(a, s, b) /\ b.session[s] = r
<1>1. Beside(a, b) /\ b.session[s] = r /\ \A t \in Sessions : t # s => b.session[t] = a.session[t]
  BY DEF Put
<1>2. Edited(a, b)
  BY <1>1 DEF Edited
<1> QED
  BY <1>1, <1>2 DEF OneEdit

(* Taking a surface off the list is an edit.                                *)
LEMMA WithoutEdit ==
  ASSUME NEW a \in Sane, NEW s \in Sessions, NEW f \in Surfaces, NEW b, b = Without(a, s, f)
  PROVE  /\ OneEdit(a, s, b) /\ b.session[s].list = a.session[s].list \ { f }
         /\ b.session[s].zombie = a.session[s].zombie
<1>1. a.session[s].list \ { f } \in SUBSET Surfaces
  BY SessionTypes
<1>2. IsList(a, s, a.session[s].list \ { f }, b)
  BY <1>1, ListPut DEF Without
<1>3. PICK r \in SaneSession :
    /\ b \in Sane /\ Put(a, s, r, b)
    /\ r.attached = a.session[s].attached /\ r.state = a.session[s].state
    /\ r.live = a.session[s].live /\ r.list = a.session[s].list \ { f }
    /\ r.zombie = a.session[s].zombie
  BY <1>2 DEF IsList
<1> QED
  BY <1>3, PutEdited

(* So is a change of the closing surfaces.                                  *)
LEMMA ClosingEdit ==
  ASSUME NEW a \in Sane, NEW s \in Sessions, NEW F \in SUBSET Surfaces, NEW b, b = NewClosing(a, s, F)
  PROVE  /\ OneEdit(a, s, b) /\ b.session[s].list = a.session[s].list
         /\ b.session[s].zombie = a.session[s].zombie
<1>2. IsClosings(a, s, F, b)
  BY ClosingPut
<1>3. PICK r \in SaneSession :
    /\ b \in Sane /\ Put(a, s, r, b)
    /\ r.attached = a.session[s].attached /\ r.state = a.session[s].state
    /\ r.live = a.session[s].live /\ r.list = a.session[s].list
    /\ r.zombie = a.session[s].zombie
  BY <1>2 DEF IsClosings
<1> QED
  BY <1>3, PutEdited

(* And posting the deletion of the session.                                 *)
LEMMA ZombieEdit ==
  ASSUME NEW a \in Sane, NEW s \in Sessions, NEW b, b = DeleteIfZombieAndEmpty(a, s)
  PROVE  /\ OneEdit(a, s, b) /\ b.session[s].list = a.session[s].list
         /\ b.session[s].zombie <=>
              a.session[s].zombie \/ (~ a.session[s].live /\ a.session[s].list = {})
<1>3. PICK r \in SaneSession :
           /\ b \in Sane /\ Put(a, s, r, b)
           /\ r.attached = a.session[s].attached /\ r.state = a.session[s].state
           /\ r.live = a.session[s].live /\ r.list = a.session[s].list
           /\ r.zombie <=> a.session[s].zombie \/ (~ a.session[s].live /\ a.session[s].list = {})
  BY ZombiePut
<1> QED
  BY <1>3, PutEdited

(* closeRequested: the signal of the first closing surface.                 *)
Marked(a, s, b) == IF HasClosingSurfaces(a, s) THEN b ELSE UpdateState(b)

(* closeRequested: what follows when the list is empty.                     *)
Emptied(d, s) == IF ListEmpty(d, s) THEN UpdateState(DeleteIfZombieAndEmpty(d, s)) ELSE d

(* closeRequested, step by step.                                            *)
LEMMA CloseSurfaceIs ==
  ASSUME NEW a, NEW s \in Sessions, NEW f \in Surfaces
  PROVE  CloseSurface(a, s, f) =
           Emptied(Without(Marked(a, s, NewClosing(a, s, a.session[s].closing \cup { f })), s, f), s)
BY Zenon DEF CloseSurface, Emptied, Without, Marked, NewList, NewClosing

(* The slot of closeRequested. *)
LEMMA CloseSurfaceKept ==
  ASSUME NEW a, Whole(a), NEW s \in Sessions, NEW f \in Surfaces, a.session[s].attached,
         f \in a.session[s].list,
         NEW e, e = CloseSurface(a, s, f)
  PROVE  Whole(e) /\ Tame(a, e)
<1>1. a \in Sane /\ Runs(a, a) /\ Timers(a) /\ Zombies(a)
  BY WholeRuns DEF Whole, Held
<1>2. PICK b : b = NewClosing(a, s, a.session[s].closing \cup { f })
  OBVIOUS
<1>3. /\ OneEdit(a, s, b) /\ b.session[s].list = a.session[s].list
      /\ b.session[s].zombie = a.session[s].zombie
  <2>1. a.session[s].closing \cup { f } \in SUBSET Surfaces
    BY <1>1, SessionTypes
  <2> QED
    BY <1>1, <1>2, <2>1, ClosingEdit
<1>4. \A t \in Sessions :
        /\ b.session[t].list = a.session[t].list /\ b.session[t].zombie = a.session[t].zombie
        /\ b.session[t].live = a.session[t].live /\ b.session[t].attached = a.session[t].attached
  BY <1>3 DEF OneEdit, Edited
<1>5. Runs(a, b) /\ Timers(b)
  BY <1>1, <1>3, <1>4, EditedRuns DEF OneEdit
<1>6. Zombies(b)
  BY <1>1, <1>4 DEF Zombies
<1>7. PICK c : c = Marked(a, s, b)
  OBVIOUS
<1>8. Runs(a, c) /\ Timers(c) /\ Zombies(c) /\ SameSurfaces(b, c)
  <2>1. CASE HasClosingSurfaces(a, s)
    BY <1>5, <1>6, <1>7, <2>1 DEF Marked, SameSurfaces
  <2>2. CASE ~ HasClosingSurfaces(a, s)
    <3>1. c = UpdateState(b)
      BY <1>7, <2>2 DEF Marked
    <3> QED
      BY <1>1, <1>5, <1>6, <3>1, UpdateRuns
  <2> QED
    BY <2>1, <2>2
<1>9. /\ c \in Sane /\ c.session[s].attached /\ f \in c.session[s].list /\ ~ c.session[s].zombie
  <2>1. c.session[s].attached /\ f \in c.session[s].list
    BY <1>4, <1>8 DEF SameSurfaces
  <2> QED
    BY <1>8, <2>1 DEF Runs, Zombies
<1>10. PICK d : d = Without(c, s, f)
  OBVIOUS
<1>11. /\ OneEdit(c, s, d) /\ d.session[s].list = c.session[s].list \ { f }
       /\ d.session[s].zombie = c.session[s].zombie
  BY <1>9, <1>10, WithoutEdit
<1>12. Runs(a, d) /\ Timers(d)
  <2>1. \A t \in Sessions : d.session[t].list \subseteq c.session[t].list
    BY <1>11 DEF OneEdit
  <2> QED
    BY <1>1, <1>8, <1>11, <2>1, EditedRuns DEF OneEdit
<1>13. e = Emptied(d, s)
  BY <1>2, <1>7, <1>10, CloseSurfaceIs
<1>14. CASE ~ ListEmpty(d, s)
  <2>1. e = d
    BY <1>13, <1>14 DEF Emptied
  <2>2. Zombies(d)
    BY <1>8, <1>9, <1>11, <1>14 DEF Zombies, OneEdit, ListEmpty
  <2> QED
    BY <1>12, <2>1, <2>2, RunsWhole
<1>15. CASE ListEmpty(d, s)
  <2>1. PICK z : z = DeleteIfZombieAndEmpty(d, s)
    OBVIOUS
  <2>2. e = UpdateState(z)
    BY <1>13, <1>15, <2>1 DEF Emptied
  <2>3. /\ OneEdit(d, s, z) /\ z.session[s].list = d.session[s].list
        /\ z.session[s].zombie <=>
              d.session[s].zombie \/ (~ d.session[s].live /\ d.session[s].list = {})
    BY <1>12, <2>1, ZombieEdit DEF Runs
  <2>4. Runs(a, z)
    BY <1>1, <1>12, <2>3, EditedRuns DEF OneEdit
  <2>5. z.session[s].zombie <=> ~ z.session[s].live /\ z.session[s].list = {}
    BY <1>9, <1>11, <1>15, <2>3 DEF OneEdit, Edited, ListEmpty
  <2>6. \A t \in Sessions : t # s => z.session[t] = c.session[t]
    BY <1>11, <2>3 DEF OneEdit
  <2>7. Zombies(z)
    BY <1>8, <2>5, <2>6 DEF Zombies
  <2>8. Runs(a, e) /\ Timers(e) /\ Zombies(e)
    BY <1>1, <2>2, <2>4, <2>7, UpdateRuns
  <2> QED
    BY <2>8, RunsWhole
<1> QED
  BY <1>14, <1>15

(* removeSurface(): what follows when the list becomes empty.               *)
Dropped(a, s, b) ==
  IF ListEmpty(b, s) /\ ~ListEmpty(a, s) THEN UpdateState(DeleteIfZombieAndEmpty(b, s)) ELSE b

(* removeSurface(): the signal of the last closing surface.                 *)
Finished(c, s, d) ==
  IF HasClosingSurfaces(c, s) /\ ~HasClosingSurfaces(d, s) THEN UpdateState(d) ELSE d

(* removeSurface(), step by step.                                           *)
LEMMA RemoveSurfaceIs ==
  ASSUME NEW a, NEW s \in Sessions, NEW f \in Surfaces
  PROVE  RemoveSurface(a, s, f) =
           LET c == Dropped(a, s, Without(a, s, f))
           IN Finished(c, s, NewClosing(c, s, c.session[s].closing \ { f }))
BY Zenon DEF RemoveSurface, Dropped, Finished, Without, NewList, NewClosing

(* removeSurface(). *)
LEMMA RemoveSurfaceKept ==
  ASSUME NEW a, Whole(a), NEW s \in Sessions, NEW f \in Surfaces, a.session[s].attached,
         NEW e, e = RemoveSurface(a, s, f)
  PROVE  Whole(e) /\ Tame(a, e)
<1>1. a \in Sane /\ Runs(a, a) /\ Timers(a) /\ Zombies(a)
  BY WholeRuns DEF Whole, Held
<1>2. PICK b : b = Without(a, s, f)
  OBVIOUS
<1>3. /\ OneEdit(a, s, b) /\ b.session[s].list = a.session[s].list \ { f }
      /\ b.session[s].zombie = a.session[s].zombie
  BY <1>1, <1>2, WithoutEdit
<1>4. Runs(a, b) /\ Timers(b)
  <2>1. \A t \in Sessions : b.session[t].list \subseteq a.session[t].list
    BY <1>3 DEF OneEdit
  <2> QED
    BY <1>1, <1>3, <2>1, EditedRuns DEF OneEdit
<1>5. PICK c : c = Dropped(a, s, b)
  OBVIOUS
<1>6. Runs(a, c) /\ Timers(c) /\ Zombies(c)
  <2>1. CASE ListEmpty(b, s) /\ ~ ListEmpty(a, s)
    <3>1. PICK z : z = DeleteIfZombieAndEmpty(b, s)
      OBVIOUS
    <3>2. c = UpdateState(z)
      BY <1>5, <2>1, <3>1 DEF Dropped
    <3>3. /\ OneEdit(b, s, z) /\ z.session[s].list = b.session[s].list
          /\ z.session[s].zombie <=>
                b.session[s].zombie \/ (~ b.session[s].live /\ b.session[s].list = {})
      BY <1>4, <3>1, ZombieEdit DEF Runs
    <3>4. Runs(a, z)
      BY <1>1, <1>4, <3>3, EditedRuns DEF OneEdit
    <3>5. ~ a.session[s].zombie
      BY <1>1, <2>1 DEF Zombies, ListEmpty
    <3>6. z.session[s].zombie <=> ~ z.session[s].live /\ z.session[s].list = {}
      BY <1>3, <2>1, <3>3, <3>5 DEF OneEdit, Edited, ListEmpty
    <3>7. \A t \in Sessions : t # s => z.session[t] = a.session[t]
      BY <1>3, <3>3 DEF OneEdit
    <3>8. Zombies(z)
      BY <1>1, <3>6, <3>7 DEF Zombies
    <3> QED
      BY <1>1, <3>2, <3>4, <3>8, UpdateRuns
  <2>2. CASE ~ (ListEmpty(b, s) /\ ~ ListEmpty(a, s))
    <3>1. c = b
      BY <1>5, <2>2 DEF Dropped
    <3>2. b.session[s].list = {} <=> a.session[s].list = {}
      BY <1>3, <2>2 DEF ListEmpty
    <3>3. Zombies(b)
      BY <1>1, <1>3, <3>2 DEF Zombies, OneEdit, Edited
    <3> QED
      BY <1>4, <3>1, <3>3
  <2> QED
    BY <2>1, <2>2
<1>7. PICK d : d = NewClosing(c, s, c.session[s].closing \ { f })
  OBVIOUS
<1>8. /\ OneEdit(c, s, d) /\ d.session[s].list = c.session[s].list
      /\ d.session[s].zombie = c.session[s].zombie
  <2>1. c \in Sane
    BY <1>6 DEF Runs
  <2>2. c.session[s].closing \ { f } \in SUBSET Surfaces
    BY <2>1, SessionTypes
  <2> QED
    BY <1>7, <2>1, <2>2, ClosingEdit
<1>9. \A t \in Sessions :
        /\ d.session[t].list = c.session[t].list /\ d.session[t].zombie = c.session[t].zombie
        /\ d.session[t].live = c.session[t].live /\ d.session[t].attached = c.session[t].attached
  BY <1>8 DEF OneEdit, Edited
<1>10. Runs(a, d) /\ Timers(d)
  BY <1>1, <1>6, <1>8, <1>9, EditedRuns DEF OneEdit
<1>11. Zombies(d)
  BY <1>6, <1>9 DEF Zombies
<1>12. e = Finished(c, s, d)
  BY <1>2, <1>5, <1>7, RemoveSurfaceIs
<1>13. Runs(a, e) /\ Timers(e) /\ Zombies(e)
  <2>1. CASE HasClosingSurfaces(c, s) /\ ~ HasClosingSurfaces(d, s)
    <3>1. e = UpdateState(d)
      BY <1>12, <2>1 DEF Finished
    <3> QED
      BY <1>1, <1>10, <1>11, <3>1, UpdateRuns
  <2>2. CASE ~ (HasClosingSurfaces(c, s) /\ ~ HasClosingSurfaces(d, s))
    BY <1>10, <1>11, <1>12, <2>2 DEF Finished
  <2> QED
    BY <2>1, <2>2
<1> QED
  BY <1>13, RunsWhole

(* The sessions of S with a surface to close.                               *)
HasList(a, S) == { s \in S : a.session[s].list # {} }

(* All listed surfaces of a session are closing.                            *)
MarkedSession(r) == [ r EXCEPT !.closing = @ \cup r.list ]

(* None is listed any more.                                                 *)
ClearedSession(r) == [ r EXCEPT !.list = {} ]

(* That of every session in H.                                              *)
MarkAll(a, H) ==
  [ a EXCEPT !.session =
      [ s \in Sessions |-> IF s \in H THEN MarkedSession(a.session[s]) ELSE a.session[s] ] ]

(* The signal of the first closing surface.                                 *)
Heeded(a, H, m) == IF \E s \in H : ~HasClosingSurfaces(a, s) THEN UpdateState(m) ELSE m

(* This of every session in H.                                              *)
ClearAll(h, H) ==
  [ h EXCEPT !.session =
      [ s \in Sessions |-> IF s \in H THEN ClearedSession(h.session[s]) ELSE h.session[s] ] ]

(* CloseListed(), step by step.                                             *)
LEMMA CloseListedIs ==
  ASSUME NEW a, NEW S, NEW H, H = HasList(a, S), H # {}
  PROVE  CloseListed(a, S) = UpdateState(ClearAll(Heeded(a, H, MarkAll(a, H)), H))
BY Zenon DEF CloseListed, HasList, MarkAll, Heeded, ClearAll, MarkedSession, ClearedSession

(* With no surface there is nothing to do.                                  *)
LEMMA CloseNothing ==
  ASSUME NEW a, NEW S, HasList(a, S) = {}
  PROVE  CloseListed(a, S) = a
BY Zenon DEF CloseListed, HasList

(* MarkedSession() writes only the closing surfaces.                        *)
LEMMA MarkedIs ==
  ASSUME NEW r \in SaneSession
  PROVE  /\ MarkedSession(r) \in SaneSession
         /\ MarkedSession(r).attached = r.attached /\ MarkedSession(r).state = r.state
         /\ MarkedSession(r).live = r.live /\ MarkedSession(r).list = r.list
         /\ MarkedSession(r).zombie = r.zombie
<1> SUFFICES ASSUME NEW x, x = [ r EXCEPT !.closing = @ \cup r.list ]
             PROVE  /\ x \in SaneSession /\ x.attached = r.attached /\ x.state = r.state
                    /\ x.live = r.live /\ x.list = r.list /\ x.zombie = r.zombie
  BY DEF MarkedSession
<1>1. PICK F \in SUBSET Surfaces : F = r.closing \cup r.list
  BY DEF SaneSession, SessionRecord
<1>2. x = [ r EXCEPT !.closing = F ]
  BY <1>1
<1>3. x \in SessionRecord
  BY <1>2, Zenon DEF SaneSession, SessionRecord
<1>4. /\ x.attached = r.attached /\ x.state = r.state
      /\ x.live = r.live /\ x.list = r.list /\ x.zombie = r.zombie
  BY <1>2, Zenon DEF SaneSession, SessionRecord
<1> QED
  BY <1>3, <1>4, Zenon DEF SaneSession

(* ClearedSession() writes only the list.                                   *)
LEMMA ClearedIs ==
  ASSUME NEW r \in SaneSession
  PROVE  /\ ClearedSession(r) \in SaneSession
         /\ ClearedSession(r).attached = r.attached /\ ClearedSession(r).state = r.state
         /\ ClearedSession(r).live = r.live /\ ClearedSession(r).list = {}
         /\ ClearedSession(r).zombie = r.zombie
<1> SUFFICES ASSUME NEW x, x = [ r EXCEPT !.list = {} ]
             PROVE  /\ x \in SaneSession /\ x.attached = r.attached /\ x.state = r.state
                    /\ x.live = r.live /\ x.list = {} /\ x.zombie = r.zombie
  BY DEF ClearedSession
<1>1. PICK F \in SUBSET Surfaces : F = {}
  OBVIOUS
<1>2. x = [ r EXCEPT !.list = F ]
  BY <1>1
<1>3. x \in SessionRecord
  BY <1>2, Zenon DEF SaneSession, SessionRecord
<1>4. /\ x.attached = r.attached /\ x.state = r.state
      /\ x.live = r.live /\ x.list = F /\ x.zombie = r.zombie
  BY <1>2, Zenon DEF SaneSession, SessionRecord
<1> QED
  BY <1>1, <1>3, <1>4, Zenon DEF SaneSession

(* close() of a running application. *)
LEMMA CloseListedKept ==
  ASSUME NEW a, Whole(a), NEW S \in SUBSET Sessions,
         \A s \in S : a.session[s].attached /\ a.session[s].state # "Stopped",
         NEW e, e = CloseListed(a, S)
  PROVE  Whole(e) /\ Tame(a, e)
<1>1. a \in Sane /\ Runs(a, a) /\ Timers(a) /\ Zombies(a) /\ LiveOnes(a)
  BY WholeRuns DEF Whole, Held, Core
<1>2. PICK H \in SUBSET Sessions : H = HasList(a, S)
  BY DEF HasList
<1>3. CASE H = {}
  BY <1>1, <1>2, <1>3, CloseNothing, RunsWhole
<1>4. CASE H # {}
  <2>1. PICK m : m = MarkAll(a, H)
    OBVIOUS
  <2>2. \A s \in H : a.session[s].attached /\ a.session[s].live /\ ~ a.session[s].zombie
    BY <1>1, <1>2 DEF HasList, LiveOnes, Zombies
  <2>3. PICK g : g = [ s \in Sessions |-> IF s \in H THEN MarkedSession(a.session[s]) ELSE a.session[s] ]
    OBVIOUS
  <2>4. \A s \in Sessions :
          /\ g[s] \in SaneSession
          /\ g[s].attached = a.session[s].attached /\ g[s].state = a.session[s].state
          /\ g[s].live = a.session[s].live /\ g[s].list = a.session[s].list
          /\ g[s].zombie = a.session[s].zombie
    BY <1>1, <2>3, SessionTypes, MarkedIs
  <2>5. g \in [ Sessions -> SaneSession ]
    BY <2>3, <2>4
  <2>6. m = WithSessions(a, g)
    BY <2>1, <2>3 DEF MarkAll, WithSessions
  <2>7. m \in Sane /\ m.session = g /\ Beside(a, m)
    BY <1>1, <2>5, <2>6, WithSessionsSet
  <2>8. Edited(a, m)
    BY <2>4, <2>7 DEF Edited
  <2>9. Runs(a, m) /\ Timers(m)
    BY <1>1, <2>4, <2>7, <2>8, EditedRuns
  <2>10. Zombies(m)
    BY <1>1, <2>4, <2>7 DEF Zombies
  <2>11. PICK h : h = Heeded(a, H, m)
    OBVIOUS
  <2>12. Runs(a, h) /\ Zombies(h) /\ SameSurfaces(m, h)
    <3>1. CASE \E s \in H : ~ HasClosingSurfaces(a, s)
      <4>1. h = UpdateState(m)
        BY <2>11, <3>1 DEF Heeded
      <4> QED
        BY <1>1, <2>9, <2>10, <4>1, UpdateRuns
    <3>2. CASE ~ \E s \in H : ~ HasClosingSurfaces(a, s)
      <4>1. h = m
        BY <2>11, <3>2 DEF Heeded
      <4> QED
        BY <2>9, <2>10, <4>1 DEF SameSurfaces
    <3> QED
      BY <3>1, <3>2
  <2>13. h \in Sane /\ \A s \in H : h.session[s].attached /\ h.session[s].live /\ ~ h.session[s].zombie
    <3>1. \A s \in H : m.session[s].attached /\ m.session[s].live /\ ~ m.session[s].zombie
      BY <2>2, <2>4, <2>7
    <3> QED
      BY <2>12, <3>1 DEF Runs, SameSurfaces
  <2>14. PICK x : x = ClearAll(h, H)
    OBVIOUS
  <2>15. PICK k : k = [ s \in Sessions |-> IF s \in H THEN ClearedSession(h.session[s]) ELSE h.session[s] ]
    OBVIOUS
  <2>16. \A s \in Sessions :
          /\ k[s] \in SaneSession
          /\ k[s].attached = h.session[s].attached /\ k[s].state = h.session[s].state
          /\ k[s].live = h.session[s].live /\ k[s].zombie = h.session[s].zombie
          /\ k[s].list = IF s \in H THEN {} ELSE h.session[s].list
    BY <2>13, <2>15, SessionTypes, ClearedIs
  <2>17. k \in [ Sessions -> SaneSession ]
    BY <2>15, <2>16
  <2>18. x = WithSessions(h, k)
    BY <2>14, <2>15 DEF ClearAll, WithSessions
  <2>19. x \in Sane /\ x.session = k /\ Beside(h, x)
    BY <2>13, <2>17, <2>18, WithSessionsSet
  <2>20. Edited(h, x)
    BY <2>16, <2>19 DEF Edited
  <2>21. Runs(a, x)
    BY <1>1, <2>12, <2>19, <2>20, EditedRuns
  <2>22. Zombies(x)
    BY <2>12, <2>13, <2>16, <2>19 DEF Zombies
  <2>23. e = UpdateState(x)
    BY <1>2, <1>4, <2>1, <2>11, <2>14, CloseListedIs
  <2>24. Runs(a, e) /\ Timers(e) /\ Zombies(e)
    BY <1>1, <2>21, <2>22, <2>23, UpdateRuns
  <2> QED
    BY <2>24, RunsWhole
<1> QED
  BY <1>3, <1>4

-----------------------------------------------------------------------------
(* Handlers of the shell and of the sessions. *)

(* A change of state that keeps the parts keeps the whole.                  *)
LEMMA KinWhole ==
  ASSUME NEW a, Whole(a), NEW e, Held(e), Ended(e), Kin(a, e), Promised(a, e)
  PROVE  Whole(e) /\ Tame(a, e)
<1>1. Zombies(e)
  BY DEF Whole, Kin, SameSurfaces, Zombies
<1>2. Tame(a, e)
  BY DEF Kin, Tame
<1> QED
  BY <1>1, <1>2 DEF Whole

(* Application::close(). *)
LEMMA CloseKept ==
  ASSUME NEW a, Whole(a), NEW e, e = Close(a)
  PROVE  Whole(e) /\ Tame(a, e)
<1>1. a.state \in InternalState /\ Held(a) /\ Ended(a)
  BY SessionTypesOf DEF Whole, Held
<1>2. CASE a.state = "Starting"
  <2>1. PICK x : x = Stop(a)
    OBVIOUS
  <2>2. Held(x) /\ Kin(a, x) /\ x.state \in { "Starting", "Stopped" }
    BY <1>1, <1>2, <2>1, StopHeld
  <2>3. e = SetInternalState(x, "Stopped", Update)
    BY <1>2, <2>1 DEF Close
  <2>4. x.state \notin Waiting
    BY <2>2 DEF Waiting
  <2>5. Held(e) /\ Kin(x, e) /\ Ended(e) /\ e.state = "Stopped"
    BY <2>2, <2>3, <2>4, ToStopped
  <2>6. Kin(a, e)
    BY <2>2, <2>5, KinOn
  <2>7. Promised(a, e)
    <3>1. Ph(e.state) = "Gone" /\ Ph(a.state) # "Gone" /\ (a.closing => e.closing)
      BY <1>2, <2>5, <2>6 DEF Ph, Waiting, Kin
    <3> QED
      BY <3>1 DEF Promised
  <2> QED
    BY <2>5, <2>6, <2>7, KinWhole
<1>3. CASE a.state = "StoppedResumable"
  <2>1. e = SetInternalState(a, "Stopped", Update)
    BY <1>3 DEF Close
  <2>2. a.state \notin Waiting
    BY <1>3 DEF Waiting
  <2>3. Held(e) /\ Kin(a, e) /\ Ended(e) /\ Promised(a, e)
    BY <1>1, <2>1, <2>2, ToStopped
  <2> QED
    BY <2>3, KinWhole
<1>4. CASE a.state \in { "Closing", "Stopped" }
  <2>1. e = a
    BY <1>4 DEF Close
  <2> QED
    BY <2>1, WholeRuns, RunsWhole DEF Whole, Held
<1>5. CASE a.state \in { "Running", "RunningInBackground", "SuspendingWaitSession",
                         "SuspendingWaitProcess", "Suspended" }
  <2>1. PICK S \in SUBSET Sessions : S = { s \in Attached(a) : a.session[s].state # "Stopped" }
    BY DEF Attached
  <2>2. e = CloseListed(a, S)
    BY <1>5, <2>1 DEF Close
  <2>3. \A s \in S : a.session[s].attached /\ a.session[s].state # "Stopped"
    BY <2>1 DEF Attached
  <2> QED
    BY <2>2, <2>3, CloseListedKept
<1> QED
  BY <1>1, <1>2, <1>3, <1>4, <1>5 DEF InternalState

(* A handler that only sets flags of no consequence here. *)
LEMMA AlikeWhole ==
  ASSUME NEW a, Whole(a), NEW b \in Sane, Alike(a, b), b.failed \subseteq a.failed \cup Allowed
  PROVE  Whole(b) /\ Tame(a, b)
<1>1. Held(b) /\ Kin(a, b) /\ Ended(b) /\ Promised(a, b)
  BY AlikeHeld DEF Whole
<1> QED
  BY <1>1, KinWhole

(* The two inputs of the shell, and the record of failed assertions, matter *)
(* to none of this.                                                         *)
LEMMA FlagsAlike ==
  ASSUME NEW a \in Sane, NEW b,
         \/ \E v \in RequestedState : b = [ a EXCEPT !.requested = v ]
         \/ \E v \in BOOLEAN : b = [ a EXCEPT !.exempt = v ]
         \/ b = [ a EXCEPT !.failed = {} ]
  PROVE  b \in Sane /\ Alike(a, b) /\ b.failed \in { a.failed, {} }
<1>1. ASSUME NEW v \in RequestedState, b = [ a EXCEPT !.requested = v ]
      PROVE  b \in Sane /\ Alike(a, b) /\ b.failed = a.failed
  <2>1. b \in AppRecord
    BY <1>1, Zenon DEF Sane, AppRecord
  <2>2. Alike(a, b) /\ b.wakelock = a.wakelock /\ b.failed = a.failed
    BY <1>1, Zenon DEF Sane, AppRecord, Alike
  <2> QED
    BY <2>1, <2>2 DEF Sane, Alike
<1>2. ASSUME NEW v \in BOOLEAN, b = [ a EXCEPT !.exempt = v ]
      PROVE  b \in Sane /\ Alike(a, b) /\ b.failed = a.failed
  <2>1. b \in AppRecord
    BY <1>2, Zenon DEF Sane, AppRecord
  <2>2. Alike(a, b) /\ b.wakelock = a.wakelock /\ b.failed = a.failed
    BY <1>2, Zenon DEF Sane, AppRecord, Alike
  <2> QED
    BY <2>1, <2>2 DEF Sane, Alike
<1>3. ASSUME b = [ a EXCEPT !.failed = {} ]
      PROVE  b \in Sane /\ Alike(a, b) /\ b.failed = {}
  <2>0. {} \in SUBSET Assertion
    OBVIOUS
  <2>1. b \in AppRecord
    BY <1>3, <2>0, Zenon DEF Sane, AppRecord
  <2>2. Alike(a, b) /\ b.wakelock = a.wakelock /\ b.failed = {}
    BY <1>3, <2>0, Zenon DEF Sane, AppRecord, Alike
  <2> QED
    BY <2>1, <2>2 DEF Sane, Alike
<1> QED
  BY <1>1, <1>2, <1>3

(* setRequestedState(). *)
LEMMA RequestKept ==
  ASSUME NEW a, Whole(a), NEW v \in RequestedState,
         NEW e, e = UpdateState([ a EXCEPT !.requested = v ])
  PROVE  Whole(e) /\ Tame(a, e)
<1>1. PICK b : b = [ a EXCEPT !.requested = v ]
  OBVIOUS
<1>2. b \in Sane /\ Alike(a, b) /\ b.failed \subseteq a.failed \cup Allowed
  BY <1>1, FlagsAlike DEF Whole, Held
<1>3. Whole(b) /\ Tame(a, b)
  BY <1>2, AlikeWhole
<1>4. a \in Sane /\ Runs(a, a)
  BY WholeRuns DEF Whole, Held
<1>5. Runs(a, b)
  <2>1. Drifts(a, b)
    BY <1>2 DEF Alike, Drifts
  <2> QED
    BY <1>2, <1>3, <2>1 DEF Whole, Held, Runs
<1>6. Runs(a, e) /\ Timers(e) /\ Zombies(e)
  BY <1>1, <1>3, <1>4, <1>5, UpdateRuns DEF Whole
<1> QED
  BY <1>6, RunsWhole

(* The timeout of m_stopTimer. *)
LEMMA StopTimeoutKept ==
  ASSUME NEW a, Whole(a), NEW e, e = Stop([ a EXCEPT !.stopTimer = FALSE ])
  PROVE  Whole(e) /\ Tame(a, e)
<1>1. PICK v \in BOOLEAN : v = FALSE
  OBVIOUS
<1>2. PICK b : b = [ a EXCEPT !.stopTimer = v ]
  OBVIOUS
<1>3. /\ b \in Sane /\ SameRest(a, b) /\ b.stopTimer = v /\ b.closing = a.closing
      /\ b.failed = a.failed
  BY <1>2, TimerSet DEF Whole, Held
<1>4. Runs(a, a) /\ a \in Sane
  BY WholeRuns DEF Whole, Held
<1>5. b.state = a.state
  BY <1>3 DEF SameRest
<1>6. Core(b) /\ Calm(b) /\ Ended(b) /\ Zombies(b) /\ Timers(b) /\ Kin(a, b)
  <2>1. /\ b.state = a.state /\ b.processState = a.processState /\ b.listed = a.listed
        /\ b.deleteLater = a.deleteLater /\ b.startQueued = a.startQueued
        /\ b.process = a.process /\ b.closing = a.closing /\ b.session = a.session
        /\ b.notices = a.notices /\ b.launch = a.launch
    BY <1>3 DEF SameRest, SameOutside
  <2>2. Filed(b) /\ PausedIn(b, b.state) /\ LiveOnes(b) /\ Told(b) /\ Frozen(b)
    BY <1>4, <2>1 DEF Runs, Core, Filed, PausedIn, LiveOnes, Told, Frozen
  <2>3. FollowsIn(b, b.state)
    BY <1>4, <2>1 DEF Runs, Core, FollowsIn, QuietSessions
  <2>4. Calm(b) /\ Ended(b) /\ Zombies(b)
    BY <2>1 DEF Whole, Held, Calm, Ended, AllStopped, Zombies
  <2>5. Timers(b)
    BY <1>1, <1>3 DEF Timers
  <2>6. Kin(a, b)
    BY <1>3, <2>1 DEF Kin, SameSurfaces
  <2> QED
    BY <2>2, <2>3, <2>4, <2>5, <2>6 DEF Core
<1>7. e = Stop(b)
  BY <1>1, <1>2
<1>8. Held(e) /\ Kin(b, e) /\ Ended(e) /\ Promised(b, e)
  BY <1>3, <1>6, <1>7, StopHeld DEF Held
<1>9. Kin(a, e)
  BY <1>6, <1>8, KinOn
<1>10. Promised(a, e)
  BY <1>3, <1>5, <1>8 DEF Promised
<1> QED
  BY <1>8, <1>9, <1>10, KinWhole

(* Session s in state st.                                                   *)
NewState(a, s, st) == [ a EXCEPT !.session[s].state = st ]

(* Only this field is written.                                              *)
LEMMA StatePut ==
  ASSUME NEW a \in Sane, NEW s \in Sessions, NEW st \in SessionState, a.session[s].attached,
         NEW x, x = NewState(a, s, st)
  PROVE  \E p \in SaneSession :
           /\ x \in Sane /\ Put(a, s, p, x) /\ p.attached /\ p.state = st
           /\ p.live = a.session[s].live /\ p.list = a.session[s].list
           /\ p.closing = a.session[s].closing /\ p.hadSurface = a.session[s].hadSurface
           /\ p.zombie = a.session[s].zombie
<1>1. PICK o \in SaneSession : o = a.session[s]
  BY SessionTypes
<1>2. PICK p : p = WithState(o, st)
  OBVIOUS
<1>3. o.attached = TRUE
  BY <1>1 DEF SaneSession, SessionRecord
<1>4. /\ p \in SaneSession /\ p.state = st /\ p.attached = o.attached /\ p.live = o.live
      /\ p.list = o.list /\ p.closing = o.closing /\ p.hadSurface = o.hadSurface
      /\ p.zombie = o.zombie
  BY <1>2, <1>3, StateSet
<1>5. x = [ a EXCEPT !.session[s] = p ]
  BY <1>1, <1>2 DEF WithState, NewState
<1>6. x \in Sane /\ Put(a, s, p, x)
  BY <1>4, <1>5, PutSet
<1> QED
  BY <1>1, <1>4, <1>6

(* Session::doSuspend(). *)
LEMMA SuspendTimeoutKept ==
  ASSUME NEW a, Whole(a), NEW s \in Sessions, a.session[s].attached,
         a.session[s].state = "Suspending",
         NEW e, e = SetSessionState(a, s, "Suspended")
  PROVE  Whole(e) /\ Tame(a, e)
<1>1. a \in Sane /\ Held(a) /\ Zombies(a)
  BY DEF Whole, Held
<1>2. PICK st \in SessionState : st = "Suspended"
  BY DEF SessionState
<1>3. PICK x : x = NewState(a, s, st)
  OBVIOUS
<1>4. PICK p \in SaneSession :
           /\ x \in Sane /\ Put(a, s, p, x) /\ p.attached /\ p.state = st
           /\ p.live = a.session[s].live /\ p.list = a.session[s].list
           /\ p.zombie = a.session[s].zombie
  BY <1>1, <1>3, StatePut
<1>5. e = OnSessionStateChanged(x)
  BY <1>2, <1>3 DEF SetSessionState, NewState
<1>6. a.session[s].live /\ a.state \in Waiting
  BY <1>1 DEF Held, Core, LiveOnes, PausedIn
<1>7. /\ p.live <=> p.state # "Stopped"
      /\ p.list \subseteq a.session[s].list
      /\ p.state = "Suspended" /\ a.session[s].state \notin Quiet
  BY <1>2, <1>4, <1>6 DEF Quiet
<1>8. Held(e) /\ Ended(e) /\ Akin(x, e) /\ Promised(x, e) /\ Beside(a, x)
  BY <1>1, <1>4, <1>5, <1>6, <1>7, PutState
<1>9. Zombies(x)
  BY <1>1, <1>4 DEF Zombies, Put
<1>10. Zombies(e)
  BY <1>8, <1>9 DEF Zombies, Akin, SameSurfaces
<1>11. Tame(a, e)
  BY <1>8 DEF Tame, Akin, Beside, Promised
<1> QED
  BY <1>8, <1>10, <1>11 DEF Whole

(* setLive(false). *)
LEMMA SessionDiesKept ==
  ASSUME NEW a, Whole(a), NEW s \in Sessions, a.session[s].attached, a.session[s].live,
         a.process # "frozen",
         NEW e, e = SessionDies(a, s)
  PROVE  Whole(e) /\ Tame(a, e)
<1>1. a \in Sane /\ Held(a) /\ Zombies(a)
  BY DEF Whole, Held
<1>2. a.session[s].state # "Stopped" /\ ~ a.session[s].zombie
  BY <1>1 DEF Held, Core, LiveOnes, Zombies
<1>3. PICK o \in SaneSession : o = a.session[s]
  BY <1>1, SessionTypes
<1>4. PICK r : r = [ o EXCEPT !.live = FALSE ]
  OBVIOUS
<1>5. PICK y : y = [ a EXCEPT !.session[s] = r ]
  OBVIOUS
<1>6. /\ r \in SaneSession /\ r.attached = o.attached /\ r.state = o.state /\ ~ r.live
      /\ r.list = o.list /\ r.zombie = o.zombie
  <2>1. PICK v \in BOOLEAN : v = FALSE
    OBVIOUS
  <2>2. r = [ o EXCEPT !.live = v ]
    BY <1>4, <2>1
  <2>3. r \in SessionRecord
    BY <2>2, Zenon DEF SaneSession, SessionRecord
  <2>4. /\ r.attached = o.attached /\ r.state = o.state /\ r.live = v
        /\ r.list = o.list /\ r.zombie = o.zombie
    BY <2>2, Zenon DEF SaneSession, SessionRecord
  <2> QED
    BY <2>1, <2>3, <2>4, Zenon DEF SaneSession
<1>7. y \in Sane /\ Put(a, s, r, y)
  BY <1>1, <1>5, <1>6, PutSet
<1>8. PICK st \in SessionState : st = "Stopped"
  BY DEF SessionState
<1>9. PICK x : x = NewState(y, s, st)
  OBVIOUS
<1>10. PICK p \in SaneSession :
           /\ x \in Sane /\ Put(y, s, p, x) /\ p.attached /\ p.state = st
           /\ p.live = y.session[s].live /\ p.list = y.session[s].list
           /\ p.zombie = y.session[s].zombie
  <2>1. y.session[s].attached
    BY <1>3, <1>6, <1>7 DEF Put
  <2> QED
    BY <1>7, <1>9, <2>1, StatePut
<1>11. Put(a, s, p, x)
  BY <1>7, <1>10 DEF Put, Beside
<1>12. PICK z : z = OnSessionStateChanged(x)
  OBVIOUS
<1>13. e = DeleteIfZombieAndEmpty(z, s)
  <2>1. y = [ a EXCEPT !.session[s].live = FALSE ]
    BY <1>3, <1>4, <1>5
  <2>2. y.session[s].state # "Stopped"
    BY <1>2, <1>3, <1>6, <1>7 DEF Put
  <2>3. SetSessionState(y, s, "Stopped") = z
    BY <1>8, <1>9, <1>12, <2>2 DEF SetSessionState, NewState
  <2> QED
    BY <2>1, <2>3 DEF SessionDies
<1>14. /\ p.attached /\ ~ p.live /\ p.state = "Stopped" /\ ~ p.zombie
       /\ p.list = a.session[s].list
  BY <1>2, <1>3, <1>6, <1>7, <1>8, <1>10 DEF Put
<1>15. Held(z) /\ Ended(z) /\ Akin(x, z) /\ Promised(x, z) /\ Beside(a, x)
  <2>1. p.state \in Quiet
    BY <1>14 DEF Quiet
  <2> QED
    BY <1>1, <1>10, <1>11, <1>12, <1>14, <2>1, PutState
<1>16. /\ OneEdit(z, s, e) /\ e.session[s].list = z.session[s].list
       /\ e.session[s].zombie <=>
              z.session[s].zombie \/ (~ z.session[s].live /\ z.session[s].list = {})
  BY <1>13, <1>15, ZombieEdit DEF Held
<1>17. Runs(z, z) /\ z \in Sane
  BY <1>15 DEF Held, Runs, Drifts
<1>18. Runs(z, e) /\ Timers(e)
  <2>1. \A t \in Sessions : e.session[t].list \subseteq z.session[t].list
    BY <1>16 DEF OneEdit
  <2> QED
    BY <1>15, <1>16, <1>17, <2>1, EditedRuns DEF OneEdit, Held
<1>19. Zombies(e)
  <2>1. ~ z.session[s].zombie
    BY <1>11, <1>14, <1>15 DEF Put, Akin, SameSurfaces
  <2>2. \A t \in Sessions : t # s /\ x.session[t].attached =>
          (x.session[t].zombie <=> ~ x.session[t].live /\ x.session[t].list = {})
    BY <1>1, <1>11 DEF Put, Zombies
  <2>3. \A t \in Sessions : t # s /\ e.session[t].attached =>
          (e.session[t].zombie <=> ~ e.session[t].live /\ e.session[t].list = {})
    BY <1>15, <1>16, <2>2 DEF Akin, SameSurfaces, OneEdit
  <2>4. e.session[s].zombie <=> ~ e.session[s].live /\ e.session[s].list = {}
    BY <1>16, <2>1 DEF OneEdit, Edited
  <2> QED
    BY <2>3, <2>4 DEF Zombies
<1>20. Tame(a, z)
  BY <1>15 DEF Tame, Akin, Beside, Promised
<1>21. Tame(a, e)
  <2>1. e.state = z.state /\ e.closing = z.closing /\ e.failed = z.failed
        /\ e.startQueued = z.startQueued
    BY <1>16 DEF OneEdit, Edited, Beside
  <2> QED
    BY <1>20, <2>1 DEF Tame, Promised
<1> QED
  BY <1>18, <1>19, <1>21 DEF Runs, Whole, Held

(* addSession(). *)
LEMMA AddSessionKept ==
  ASSUME NEW a, Whole(a), NEW s \in Sessions, a.listed = "applications", a.process = "alive",
         NEW e, e = AddSession(a, s)
  PROVE  Whole(e) /\ Tame(a, e)
<1>1. a \in Sane /\ Core(a) /\ FollowsIn(a, a.state) /\ Filed(a)
  BY DEF Whole, Held, Core
<1>2. a.state \notin { "Stopped", "StoppedResumable" }
  BY <1>1 DEF Filed, FollowsIn
<1>3. e = [ a EXCEPT !.session[s] = NewSession ]
  BY <1>2 DEF AddSession
<1>4. /\ NewSession \in SaneSession /\ NewSession.attached /\ NewSession.state = "Starting"
      /\ NewSession.live /\ NewSession.list = {} /\ ~ NewSession.zombie
  BY DEF NewSession, SaneSession, SessionRecord, SessionState
<1>5. e \in Sane /\ Put(a, s, NewSession, e)
  BY <1>1, <1>3, <1>4, PutSet
<1>6. /\ e.state = a.state /\ e.processState = a.processState /\ e.listed = a.listed
      /\ e.deleteLater = a.deleteLater /\ e.startQueued = a.startQueued /\ e.process = a.process
      /\ e.closing = a.closing /\ e.stopTimer = a.stopTimer /\ e.failed = a.failed
      /\ e.notices = a.notices /\ e.launch = a.launch /\ e.session[s] = NewSession
  BY <1>5 DEF Put, Beside
<1>7. \A t \in Sessions : t # s => e.session[t] = a.session[t]
  BY <1>5 DEF Put
<1>8. Filed(e) /\ Told(e) /\ Frozen(e)
  BY <1>1, <1>6 DEF Core, Filed, Told, Frozen
<1>9. PausedIn(e, e.state) /\ LiveOnes(e)
  BY <1>1, <1>4, <1>6, <1>7 DEF Core, PausedIn, LiveOnes
<1>10. FollowsIn(e, e.state)
  <2>1. QuietSessions(a) => QuietSessions(e)
    BY <1>4, <1>6, <1>7 DEF QuietSessions, Quiet
  <2> QED
    BY <1>1, <1>6, <2>1 DEF FollowsIn
<1>11. Calm(e) /\ Ended(e)
  BY <1>4, <1>6 DEF Whole, Held, Calm, Ended, AllStopped
<1>12. Timers(e) /\ Zombies(e)
  BY <1>4, <1>6, <1>7 DEF Whole, Held, Timers, Zombies
<1>13. Tame(a, e)
  BY <1>6 DEF Tame, Promised
<1> QED
  BY <1>5, <1>8, <1>9, <1>10, <1>11, <1>12, <1>13 DEF Whole, Held, Core

(* removeSession(), in the destructor of the session. *)
LEMMA RemoveSessionKept ==
  ASSUME NEW a, Whole(a), NEW s \in Sessions, a.session[s].zombie,
         NEW e, e = RemoveSession(a, s)
  PROVE  Whole(e) /\ Tame(a, e)
<1>1. a \in Sane /\ Core(a) /\ Zombies(a)
  BY DEF Whole, Held
<1>2. a.session[s].attached => a.session[s].state = "Stopped"
  BY <1>1 DEF Core, Zombies, LiveOnes
<1>3. e = [ a EXCEPT !.session[s] = NoSession ]
  BY DEF RemoveSession
<1>4. NoSession \in SaneSession /\ ~ NoSession.attached
  BY DEF NoSession, SaneSession, SessionRecord, SessionState
<1>5. e \in Sane /\ Put(a, s, NoSession, e)
  BY <1>1, <1>3, <1>4, PutSet
<1>6. /\ e.state = a.state /\ e.processState = a.processState /\ e.listed = a.listed
      /\ e.deleteLater = a.deleteLater /\ e.startQueued = a.startQueued /\ e.process = a.process
      /\ e.closing = a.closing /\ e.stopTimer = a.stopTimer /\ e.failed = a.failed
      /\ e.notices = a.notices /\ e.launch = a.launch /\ ~ e.session[s].attached
  BY <1>4, <1>5 DEF Put, Beside
<1>7. \A t \in Sessions : t # s => e.session[t] = a.session[t]
  BY <1>5 DEF Put
<1>8. Filed(e) /\ Told(e) /\ Frozen(e)
  BY <1>1, <1>6, <1>7 DEF Core, Filed, Told, Frozen
<1>9. PausedIn(e, e.state) /\ LiveOnes(e)
  BY <1>1, <1>6, <1>7 DEF Core, PausedIn, LiveOnes
<1>10. FollowsIn(e, e.state)
  <2>1. QuietSessions(a) => QuietSessions(e)
    BY <1>6, <1>7 DEF QuietSessions
  <2> QED
    BY <1>1, <1>6, <2>1 DEF Core, FollowsIn
<1>11. Calm(e) /\ Ended(e)
  <2>1. AllStopped(e) => AllStopped(a)
    BY <1>2, <1>7 DEF AllStopped
  <2> QED
    BY <1>6, <2>1 DEF Whole, Held, Calm, Ended
<1>12. Timers(e) /\ Zombies(e)
  BY <1>6, <1>7 DEF Whole, Held, Timers, Zombies
<1>13. Tame(a, e)
  BY <1>6 DEF Tame, Promised
<1> QED
  BY <1>5, <1>8, <1>9, <1>10, <1>11, <1>12, <1>13 DEF Whole, Held, Core

-----------------------------------------------------------------------------
(* The process, and what is told of it. *)

(* What happens to the process, and is to be told of it. *)
Outside(a, b) ==
  /\ b.state = a.state /\ b.listed = a.listed /\ b.deleteLater = a.deleteLater
  /\ b.closing = a.closing /\ b.stopTimer = a.stopTimer /\ b.session = a.session
  /\ b.launch = a.launch /\ b.failed = a.failed
  /\ b.wakelock = a.wakelock /\ b.requested = a.requested

(* It is enough that what is to be told still fits.                         *)
LEMMA OutsideWhole ==
  ASSUME NEW a, Whole(a), NEW b \in Sane, Outside(a, b), Told(b), FollowsIn(b, b.state),
         b.process = "frozen" => a.process = "frozen", b.startQueued => a.startQueued
  PROVE  Whole(b) /\ Tame(a, b)
<1>1. /\ b.state = a.state /\ b.listed = a.listed /\ b.deleteLater = a.deleteLater
      /\ b.closing = a.closing /\ b.stopTimer = a.stopTimer /\ b.session = a.session
      /\ b.launch = a.launch /\ b.failed = a.failed
  BY DEF Outside
<1>2. Filed(b) /\ PausedIn(b, b.state) /\ LiveOnes(b) /\ Frozen(b)
  BY <1>1 DEF Whole, Held, Core, Filed, PausedIn, LiveOnes, Frozen
<1>3. Calm(b) /\ Timers(b) /\ Ended(b) /\ Zombies(b)
  BY <1>1 DEF Whole, Held, Calm, Timers, Ended, AllStopped, Zombies
<1>4. Tame(a, b)
  BY <1>1 DEF Tame, Promised
<1> QED
  BY <1>2, <1>3, <1>4 DEF Whole, Held, Core

(* A sequence with one more element.                                        *)
LEMMA Appended ==
  ASSUME NEW q \in Seq(Notice), NEW n \in Notice, NEW p, p = Append(q, n)
  PROVE  /\ p \in Seq(Notice) /\ Len(p) = Len(q) + 1 /\ p # << >> /\ p[Len(p)] = n
         /\ \A i \in 1 .. Len(q) : p[i] = q[i]
         /\ Len(q) \in Nat
         /\ \A m : Has(p, m) => Has(q, m) \/ m = n
<1>1. Len(q) \in Nat /\ p \in Seq(Notice) /\ Len(p) = Len(q) + 1
  OBVIOUS
<1>2. p[Len(p)] = n /\ \A i \in 1 .. Len(q) : p[i] = q[i]
  OBVIOUS
<1>3. p # << >>
  BY <1>1
<1>4. ASSUME NEW m, Has(p, m) PROVE Has(q, m) \/ m = n
  <2>1. PICK i \in 1 .. Len(p) : p[i] = m
    BY <1>4 DEF Has
  <2>2. CASE i = Len(p)
    BY <1>2, <2>1, <2>2
  <2>3. CASE i # Len(p)
    <3>1. i \in 1 .. Len(q)
      BY <1>1, <2>1, <2>3
    <3> QED
      BY <1>2, <2>1, <3>1 DEF Has
  <2> QED
    BY <2>2, <2>3
<1> QED
  BY <1>1, <1>2, <1>3, <1>4

(* Ends of processes only: no other notice.                                 *)
LEMMA EndsHas ==
  ASSUME NEW q, Ends(q)
  PROVE  ~ Has(q, "Starting") /\ ~ Has(q, "Suspended")
BY DEF Ends, Has

(* The states of a process that is not stopped by a signal.                 *)
Unfrozen == { "launching", "alive", "dead" }

(* ubuntu-app-launch is asked for the process.                              *)
Restarted(a, p, q) ==
  [ a EXCEPT !.startQueued = FALSE, !.process = p, !.notices = q ]

(* Only these three fields are written.                                     *)
LEMMA RestartedSet ==
  ASSUME NEW a \in Sane, NEW p \in Unfrozen, NEW q \in Seq(Notice),
         NEW b, b = Restarted(a, p, q)
  PROVE  /\ b \in Sane /\ Outside(a, b) /\ b.processState = a.processState
         /\ b.process = p /\ b.notices = q /\ ~ b.startQueued
<1>1. PICK v \in BOOLEAN : v = FALSE
  OBVIOUS
<1>2. b = [ a EXCEPT !.startQueued = v, !.process = p, !.notices = q ]
  BY <1>1 DEF Restarted
<1>3. p \in { "launching", "alive", "frozen", "dead" } /\ p # "frozen"
  BY DEF Unfrozen
<1>4. b \in AppRecord
  BY <1>2, <1>3, Zenon DEF Sane, AppRecord
<1>5. Outside(a, b) /\ b.processState = a.processState
  BY <1>2, Zenon DEF Sane, AppRecord, Outside
<1>6. b.process = p /\ b.notices = q /\ b.startQueued = v
  BY <1>2, Zenon DEF Sane, AppRecord
<1>7. b \in Sane
  BY <1>3, <1>4, <1>5, <1>6 DEF Sane, Outside
<1> QED
  BY <1>1, <1>5, <1>6, <1>7

(* The queued slot of startProcessRequested. *)
LEMMA RestartedKept ==
  ASSUME NEW a, Whole(a), a.startQueued, NEW n \in Notice, n = "Starting",
         NEW q \in Seq(Notice), q = a.notices, NEW w, w = Append(q, n),
         NEW e \in Sane, Outside(a, e), e.processState = a.processState,
         e.process = "launching", e.notices = w, ~ e.startQueued
  PROVE  Whole(e) /\ Tame(a, e) /\ e.closing = a.closing /\ e.state = a.state
<1>1. a \in Sane /\ FollowsIn(a, a.state) /\ Told(a)
  BY DEF Whole, Held, Core
<1>2. /\ a.process = "dead" /\ Ends(a.notices) /\ QuietSessions(a) /\ a.launch = "job"
      /\ a.state \in Quiet
  BY <1>1 DEF FollowsIn
<1>6. /\ w \in Seq(Notice) /\ Len(w) = Len(q) + 1 /\ w # << >> /\ w[Len(w)] = n
      /\ \A i \in 1 .. Len(q) : w[i] = q[i]
      /\ Len(q) \in Nat
  BY Appended
<1>9. /\ e \in Sane /\ Outside(a, e) /\ e.processState = a.processState
      /\ e.process = "launching" /\ e.notices = w /\ ~ e.startQueued
  OBVIOUS
<1>10. Ends(q)
  BY <1>2
<1>11. \A i \in 1 .. Len(q) : w[i] \in { "Failed", "Stopped" }
  BY <1>6, <1>10 DEF Ends
<1>12. Fits("launching", w)
  <2>1. \A i \in 1 .. (Len(w) - 1) : w[i] \in { "Failed", "Stopped" }
    BY <1>6, <1>11
  <2>2. \A i \in 1 .. Len(w) : w[i] # "Suspended"
    BY <1>6, <1>11
  <2> QED
    BY <1>6, <2>1, <2>2 DEF Fits
<1>13. Told(e)
  BY <1>2, <1>9, <1>12 DEF Told, Outside
<1>14. ~ Has(w, "Suspended")
  <2>1. \A i \in 1 .. Len(w) : w[i] # "Suspended"
    BY <1>6, <1>11
  <2> QED
    BY <2>1 DEF Has
<1>15. FollowsIn(e, e.state)
  <2>1. /\ e.state = a.state /\ e.launch = a.launch /\ e.session = a.session
    BY <1>9 DEF Outside
  <2>2. QuietSessions(e)
    BY <1>2, <2>1 DEF QuietSessions
  <2> QED
    BY <1>1, <1>2, <1>9, <1>14, <2>1, <2>2 DEF FollowsIn, Quiet
<1>16. e.process # "frozen"
  BY <1>9
<1>17. Whole(e) /\ Tame(a, e)
  BY <1>9, <1>13, <1>15, <1>16, OutsideWhole
<1> QED
  BY <1>9, <1>17 DEF Outside

(* Its two cases: the application that asked is the one without a process.  *)
LEMMA QueuedStartKept ==
  ASSUME NEW a, Whole(a), a.startQueued, NEW e,
         e = IF a.process = "dead" /\ a.launch = "job"
             THEN [ a EXCEPT !.startQueued = FALSE, !.process = "launching",
                             !.notices = Append(@, "Starting") ]
             ELSE [ a EXCEPT !.startQueued = FALSE ]
  PROVE  Whole(e) /\ Tame(a, e) /\ Outside(a, e) /\ e.processState = a.processState
<1>1. a \in Sane /\ FollowsIn(a, a.state)
  BY DEF Whole, Held, Core
<1>2. a.process = "dead" /\ a.launch = "job"
  BY <1>1 DEF FollowsIn
<1>3. PICK q \in Seq(Notice) : q = a.notices
  BY <1>1 DEF Sane, AppRecord
<1>4. PICK n \in Notice : n = "Starting"
  BY DEF Notice
<1>5. PICK w : w = Append(q, n)
  OBVIOUS
<1>6. w \in Seq(Notice)
  BY <1>5
<1>7. PICK p \in Unfrozen : p = "launching"
  BY DEF Unfrozen
<1>8. PICK c : c = Restarted(a, p, w)
  OBVIOUS
<1>9. /\ c \in Sane /\ Outside(a, c) /\ c.processState = a.processState
      /\ c.process = p /\ c.notices = w /\ ~ c.startQueued
  BY <1>1, <1>6, <1>8, RestartedSet
<1>10. Whole(c) /\ Tame(a, c)
  BY <1>3, <1>4, <1>5, <1>7, <1>9, RestartedKept
<1>11. e = c
  BY <1>2, <1>3, <1>4, <1>5, <1>7, <1>8 DEF Restarted
<1> QED
  BY <1>9, <1>10, <1>11

(* The process is gone, and q to be told.                                   *)
EndedWith(a, q) == [ a EXCEPT !.process = "dead", !.stopAsked = FALSE, !.notices = q ]

(* Only these three fields are written.                                     *)
LEMMA EndedWithSet ==
  ASSUME NEW a \in Sane, NEW q \in Seq(Notice), NEW b, b = EndedWith(a, q)
  PROVE  /\ b \in Sane /\ Outside(a, b) /\ b.processState = a.processState
         /\ b.process = "dead" /\ b.notices = q /\ b.startQueued = a.startQueued
<1>1. PICK v \in BOOLEAN : v = FALSE
  OBVIOUS
<1>2. PICK p \in { "launching", "alive", "dead" } : p = "dead"
  OBVIOUS
<1>3. b = [ a EXCEPT !.process = p, !.stopAsked = v, !.notices = q ]
  BY <1>1, <1>2 DEF EndedWith
<1>4. p \in { "launching", "alive", "frozen", "dead" }
  OBVIOUS
<1>5. b \in AppRecord
  BY <1>3, <1>4, Zenon DEF Sane, AppRecord
<1>6. Outside(a, b) /\ b.processState = a.processState
  BY <1>3, Zenon DEF Sane, AppRecord, Outside
<1>7. b.process = p /\ b.notices = q /\ b.startQueued = a.startQueued
  BY <1>3, Zenon DEF Sane, AppRecord
<1>8. b \in Sane
  BY <1>2, <1>5, <1>6, <1>7 DEF Sane, Outside
<1> QED
  BY <1>2, <1>6, <1>7, <1>8

(* The process ends; q is what will be told then. *)
LEMMA ProcessEndsKept ==
  ASSUME NEW a, Whole(a), a.process # "dead", NEW q \in Seq(Notice),
         a.launch # "job" => q = a.notices,
         Has(q, "Suspended") => Has(a.notices, "Suspended"),
         Has(q, "Starting") => Has(a.notices, "Starting"),
         \A i \in 1 .. Len(q) : q[i] = "Suspended" => i = 1,
         NEW e, e = EndedWith(a, q)
  PROVE  Whole(e) /\ Tame(a, e) /\ Outside(a, e) /\ e.processState = a.processState
<1>1. a \in Sane /\ FollowsIn(a, a.state) /\ Told(a)
  BY DEF Whole, Held, Core
<1>2. /\ e \in Sane /\ Outside(a, e) /\ e.processState = a.processState
      /\ e.process = "dead" /\ e.notices = q /\ e.startQueued = a.startQueued
  BY <1>1, EndedWithSet
<1>3. e.state = a.state /\ e.launch = a.launch /\ e.session = a.session
  BY <1>2 DEF Outside
<1>4. Fits("dead", q)
  BY DEF Fits
<1>5. Told(e)
  BY <1>1, <1>2, <1>3, <1>4 DEF Told
<1>6. ~ a.startQueued /\ a.state # "StoppedResumable"
  BY <1>1 DEF FollowsIn
<1>7. QuietSessions(a) => QuietSessions(e)
  BY <1>3 DEF QuietSessions
<1>8. FollowsIn(e, e.state)
  BY <1>1, <1>2, <1>3, <1>6, <1>7 DEF FollowsIn
<1>9. Whole(e) /\ Tame(a, e)
  BY <1>2, <1>5, <1>8, OutsideWhole
<1> QED
  BY <1>2, <1>9

(* Notices of the end of a process, added to what is to be told. *)
SuspendedFirst(q) == \A i \in 1 .. Len(q) : q[i] = "Suspended" => i = 1

(* p tells of nothing but ends what q does not tell.                        *)
Grows(q, p) ==
  /\ p \in Seq(Notice) /\ SuspendedFirst(p)
  /\ Has(p, "Suspended") => Has(q, "Suspended")
  /\ Has(p, "Starting") => Has(q, "Starting")

(* One more end.                                                            *)
LEMMA GrowsByOne ==
  ASSUME NEW q \in Seq(Notice), SuspendedFirst(q), NEW n \in Notice, n \in { "Failed", "Stopped" },
         NEW p, p = Append(q, n)
  PROVE  Grows(q, p)
<1>0. \A m : Has(p, m) => Has(q, m) \/ m = n
  BY Appended
<1>1. /\ p \in Seq(Notice) /\ Len(p) = Len(q) + 1 /\ p[Len(p)] = n
      /\ \A i \in 1 .. Len(q) : p[i] = q[i]
      /\ Len(q) \in Nat
  BY Appended
<1>2. SuspendedFirst(p)
  <2>1. ASSUME NEW i \in 1 .. Len(p), p[i] = "Suspended" PROVE i = 1
    <3>1. i # Len(p)
      BY <1>1, <2>1
    <3>2. i \in 1 .. Len(q)
      BY <1>1, <3>1
    <3> QED
      BY <1>1, <2>1, <3>2 DEF SuspendedFirst
  <2> QED
    BY <2>1 DEF SuspendedFirst
<1>3. Has(p, "Suspended") => Has(q, "Suspended")
  BY <1>0
<1>4. Has(p, "Starting") => Has(q, "Starting")
  BY <1>0
<1> QED
  BY <1>1, <1>2, <1>3, <1>4 DEF Grows

(* A failure, then the end.                                                 *)
LEMMA GrowsByTwo ==
  ASSUME NEW q \in Seq(Notice), SuspendedFirst(q), NEW p, p = q \o << "Failed", "Stopped" >>
  PROVE  Grows(q, p)
<1>1. PICK m \in Notice : m = "Failed"
  BY DEF Notice
<1>2. PICK n \in Notice : n = "Stopped"
  BY DEF Notice
<1>3. PICK r : r = Append(q, m)
  OBVIOUS
<1>4. Grows(q, r)
  BY <1>1, <1>3, GrowsByOne
<1>5. r \in Seq(Notice) /\ SuspendedFirst(r)
  BY <1>4 DEF Grows
<1>6. PICK w : w = Append(r, n)
  OBVIOUS
<1>7. Grows(r, w)
  BY <1>2, <1>5, <1>6, GrowsByOne
<1>8. p = w
  BY <1>1, <1>2, <1>3, <1>6
<1> QED
  BY <1>4, <1>7, <1>8 DEF Grows

(* What is to be told once the process has ended.                           *)
Told0(a, how) ==
  IF a.launch # "job" THEN a.notices
  ELSE IF how = "killed" THEN a.notices \o << "Failed", "Stopped" >>
  ELSE Append(a.notices, "Stopped")

(* However it ended.                                                        *)
LEMMA EndsKept ==
  ASSUME NEW a, Whole(a), a.process # "dead", NEW how,
         NEW e, e = EndedWith(a, Told0(a, how))
  PROVE  Whole(e) /\ Tame(a, e) /\ Outside(a, e) /\ e.processState = a.processState
<1>1. a \in Sane /\ Told(a)
  BY DEF Whole, Held, Core
<1>2. PICK q \in Seq(Notice) : q = a.notices
  BY <1>1 DEF Sane, AppRecord
<1>3. SuspendedFirst(q)
  BY <1>1, <1>2 DEF Told, Fits, SuspendedFirst
<1>4. PICK p : p = Told0(a, how)
  OBVIOUS
<1>5. Grows(q, p) /\ (a.launch # "job" => p = q)
  <2>1. CASE a.launch # "job"
    <3>1. p = q
      BY <1>2, <1>4, <2>1 DEF Told0
    <3> QED
      BY <1>3, <3>1 DEF Grows
  <2>2. CASE a.launch = "job" /\ how = "killed"
    <3>1. p = q \o << "Failed", "Stopped" >>
      BY <1>2, <1>4, <2>2 DEF Told0
    <3> QED
      BY <1>3, <2>2, <3>1, GrowsByTwo
  <2>3. CASE a.launch = "job" /\ how # "killed"
    <3>1. p = Append(q, "Stopped") /\ "Stopped" \in Notice
      BY <1>2, <1>4, <2>3 DEF Told0, Notice
    <3> QED
      BY <1>3, <2>3, <3>1, GrowsByOne
  <2> QED
    BY <2>1, <2>2, <2>3
<1>6. /\ p \in Seq(Notice) /\ (a.launch # "job" => p = a.notices)
      /\ Has(p, "Suspended") => Has(a.notices, "Suspended")
      /\ Has(p, "Starting") => Has(a.notices, "Starting")
      /\ \A i \in 1 .. Len(p) : p[i] = "Suspended" => i = 1
  BY <1>2, <1>5 DEF Grows, SuspendedFirst
<1>7. e = EndedWith(a, p)
  BY <1>4
<1> QED
  BY <1>6, <1>7, ProcessEndsKept

(* SurfaceCloseOverdue, setExemptFromLifecycle(), and what a handler starts from. *)
LEMMA TaskStopKept ==
  ASSUME NEW a, Whole(a), NEW e, e = TaskStop(a)
  PROVE  Whole(e) /\ Tame(a, e)
<1>1. a \in Sane
  BY DEF Whole, Held
<1>2. e \in Sane /\ Alike(a, e) /\ e.failed = a.failed
  BY <1>1, StopAlike
<1> QED
  BY <1>2, AlikeWhole

(* setExemptFromLifecycle().                                                *)
LEMMA ExemptKept ==
  ASSUME NEW a, Whole(a), NEW v \in BOOLEAN, NEW e, e = [ a EXCEPT !.exempt = v ]
  PROVE  Whole(e) /\ Tame(a, e)
<1>1. a \in Sane
  BY DEF Whole, Held
<1>2. e \in Sane /\ Alike(a, e) /\ e.failed \in { a.failed, {} }
  BY <1>1, FlagsAlike
<1> QED
  BY <1>2, AlikeWhole

(* What a handler starts from.                                              *)
LEMMA StartWhole ==
  ASSUME NEW a, Whole(a), NEW e, e = [ a EXCEPT !.failed = {} ]
  PROVE  /\ Whole(e) /\ e.failed = {} /\ e.state = a.state /\ e.closing = a.closing
         /\ e.startQueued = a.startQueued /\ e.process = a.process /\ e.notices = a.notices
         /\ e.session = a.session /\ e.listed = a.listed /\ e.launch = a.launch
         /\ e.stopTimer = a.stopTimer /\ e.requested = a.requested
         /\ e.processState = a.processState /\ e.deleteLater = a.deleteLater
<1>1. a \in Sane
  BY DEF Whole, Held
<1>2. e \in Sane /\ Alike(a, e) /\ e.failed \in { a.failed, {} }
  BY <1>1, FlagsAlike
<1>3. Whole(e)
  BY <1>2, AlikeWhole
<1>4. {} \in SUBSET Assertion
  OBVIOUS
<1>5. /\ e.failed = {} /\ e.state = a.state /\ e.closing = a.closing
      /\ e.startQueued = a.startQueued /\ e.process = a.process /\ e.notices = a.notices
      /\ e.session = a.session /\ e.listed = a.listed /\ e.launch = a.launch
      /\ e.stopTimer = a.stopTimer /\ e.requested = a.requested
      /\ e.processState = a.processState /\ e.deleteLater = a.deleteLater
  BY <1>1, <1>4, Zenon DEF Sane, AppRecord
<1> QED
  BY <1>3, <1>5

(* The first notice is told, and the state of the process becomes ps. *)
NowProcess(a) ==
  IF Head(a.notices) = "Starting" /\ a.process = "launching" THEN "alive" ELSE a.process

(* That happened to a, and nothing else.                                    *)
Popped(a, ps, c) ==
  /\ c \in Sane /\ Outside(a, c) /\ c.startQueued = a.startQueued
  /\ c.notices = Tail(a.notices) /\ c.processState = ps /\ c.process = NowProcess(a)

(* The first notice is taken.                                               *)
Pop(a) == [ a EXCEPT !.notices = Tail(a.notices), !.process = NowProcess(a) ]

(* m_processState is written.                                               *)
NewProcessState(b, ps) == [ b EXCEPT !.processState = ps ]

(* Pop() writes only these two fields.                                      *)
LEMMA PopSet ==
  ASSUME NEW a \in Sane, a.notices # << >>, NEW b, b = Pop(a)
  PROVE  Popped(a, a.processState, b) /\ b.failed = a.failed
<1>0. PICK o \in Seq(Notice) : o = a.notices
  BY DEF Sane, AppRecord
<1>1. PICK q \in Seq(Notice) : q = Tail(a.notices)
  <2>1. o # << >>
    BY <1>0
  <2>2. Tail(o) \in Seq(Notice)
    BY <2>1
  <2> QED
    BY <1>0, <2>2
<1>2. PICK p \in { "launching", "alive", "frozen", "dead" } : p = NowProcess(a)
  BY DEF NowProcess, Sane, AppRecord
<1>3. b = [ a EXCEPT !.notices = q, !.process = p ]
  BY <1>1, <1>2 DEF Pop
<1>4. b \in AppRecord
  BY <1>3, Zenon DEF Sane, AppRecord
<1>5. Outside(a, b) /\ b.processState = a.processState /\ b.startQueued = a.startQueued
  BY <1>3, Zenon DEF Sane, AppRecord, Outside
<1>6. b.process = p /\ b.notices = q
  BY <1>3, Zenon DEF Sane, AppRecord
<1>7. p = "frozen" => a.process = "frozen"
  BY <1>2 DEF NowProcess
<1>8. b \in Sane
  BY <1>4, <1>5, <1>6, <1>7 DEF Sane, Outside
<1>9. b.failed = a.failed
  BY <1>5 DEF Outside
<1> QED
  BY <1>1, <1>2, <1>5, <1>6, <1>8, <1>9 DEF Popped

(* And this only one.                                                       *)
LEMMA PopState ==
  ASSUME NEW a, NEW b, Popped(a, a.processState, b), NEW ps \in ProcessState,
         NEW c, c = NewProcessState(b, ps)
  PROVE  Popped(a, ps, c)
<1>1. b \in Sane /\ Outside(a, b) /\ b.startQueued = a.startQueued
      /\ b.notices = Tail(a.notices) /\ b.process = NowProcess(a)
  BY DEF Popped
<1>2. c = [ b EXCEPT !.processState = ps ]
  BY DEF NewProcessState
<1>3. c \in AppRecord
  BY <1>1, <1>2, Zenon DEF Sane, AppRecord
<1>4. Outside(b, c) /\ c.processState = ps /\ c.startQueued = b.startQueued
  BY <1>1, <1>2, Zenon DEF Sane, AppRecord, Outside
<1>5. c.process = b.process /\ c.notices = b.notices
  BY <1>1, <1>2, Zenon DEF Sane, AppRecord
<1>6. c \in Sane
  BY <1>1, <1>3, <1>4, <1>5 DEF Sane, Outside
<1>7. Outside(a, c)
  BY <1>1, <1>4 DEF Outside
<1> QED
  BY <1>1, <1>4, <1>5, <1>6, <1>7 DEF Popped

(* A sequence with a length has elements.                                   *)
LEMMA NotEmpty ==
  ASSUME NEW r, Len(r) >= 1
  PROVE  r # << >>
OBVIOUS

(* What is told next says of the process what it was when this was sent.    *)
LEMMA NextTold ==
  ASSUME NEW q \in Seq(Notice), q # << >>, NEW p, Fits(p, q),
         NEW r, r = Tail(q), NEW n, n = Head(q)
  PROVE  /\ p # "alive"
         /\ p = "frozen" => n = "Suspended" /\ r = << >>
         /\ p = "launching" /\ n = "Starting" => r = << >>
         /\ p = "launching" /\ n # "Starting" => n \in { "Failed", "Stopped" } /\ Fits(p, r)
         /\ \A i \in 1 .. Len(r) : r[i] # "Suspended"
         /\ \A m : Has(r, m) => Has(q, m)
         /\ Ends(q) => Ends(r)
         /\ Has(q, n) /\ n \in Notice
<1>1. /\ r \in Seq(Notice) /\ Len(q) \in Nat /\ Len(q) >= 1 /\ Len(r) = Len(q) - 1
      /\ n = q[1] /\ n \in Notice
  OBVIOUS
<1>2. \A i \in 1 .. Len(r) : r[i] = q[i + 1] /\ i + 1 \in 1 .. Len(q)
  OBVIOUS
<1>3. p # "alive"
  BY DEF Fits
<1>4. p = "frozen" => n = "Suspended" /\ r = << >>
  <2>1. ASSUME p = "frozen" PROVE q = << "Suspended" >>
    BY <2>1 DEF Fits
  <2>2. ASSUME q = << "Suspended" >> PROVE n = "Suspended" /\ r = << >>
    BY <2>2
  <2> QED
    BY <2>1, <2>2
<1>5. Has(q, n)
  BY <1>1 DEF Has
<1>6. \A i \in 1 .. Len(r) : r[i] # "Suspended"
  BY <1>1, <1>2 DEF Fits
<1>7. \A m : Has(r, m) => Has(q, m)
  BY <1>2 DEF Has
<1>8. Ends(q) => Ends(r)
  BY <1>2 DEF Ends
<1>9. ASSUME p = "launching"
      PROVE  /\ q[Len(q)] = "Starting"
             /\ \A i \in 1 .. (Len(q) - 1) : q[i] \in { "Failed", "Stopped" }
  BY <1>9 DEF Fits
<1>10. ASSUME p = "launching", n = "Starting" PROVE r = << >>
  <2>1. Len(q) = 1
    <3>1. ~ (1 \in 1 .. (Len(q) - 1))
      BY <1>1, <1>9, <1>10
    <3> QED
      BY <1>1, <3>1
  <2>2. Len(r) = 0
    BY <1>1, <2>1
  <2> QED
    BY <1>1, <2>2
<1>11. ASSUME p = "launching", n # "Starting"
       PROVE  n \in { "Failed", "Stopped" } /\ Fits(p, r)
  <2>1. Len(q) # 1
    BY <1>1, <1>9, <1>11
  <2>2. n \in { "Failed", "Stopped" }
    <3>1. 1 \in 1 .. (Len(q) - 1)
      BY <1>1, <2>1
    <3> QED
      BY <1>1, <1>9, <1>11, <3>1
  <2>3. Len(r) >= 1 /\ Len(r) \in 1 .. Len(r) /\ Len(r) + 1 = Len(q)
    BY <1>1, <2>1
  <2>4. r # << >> /\ r[Len(r)] = "Starting"
    <3>1. r[Len(r)] = q[Len(r) + 1]
      BY <1>2, <2>3
    <3>2. r[Len(r)] = "Starting"
      BY <1>9, <1>11, <2>3, <3>1
    <3>3. r # << >>
      BY <2>3, NotEmpty
    <3> QED
      BY <3>2, <3>3
  <2>5. \A i \in 1 .. (Len(r) - 1) : r[i] \in { "Failed", "Stopped" }
    <3>1. ASSUME NEW i \in 1 .. (Len(r) - 1)
          PROVE  i \in 1 .. Len(r) /\ i + 1 \in 1 .. (Len(q) - 1)
      BY <1>1, <3>1
    <3> QED
      BY <1>2, <1>9, <1>11, <3>1
  <2> QED
    BY <1>6, <1>11, <2>2, <2>4, <2>5 DEF Fits
<1> QED
  BY <1>1, <1>3, <1>4, <1>5, <1>6, <1>7, <1>8, <1>10, <1>11

(* Telling keeps the invariant; of a suspension it tells a process that is  *)
(* frozen or gone.                                                          *)
LEMMA PoppedKept ==
  ASSUME NEW a, Whole(a), a.notices # << >>, NEW ps \in ProcessState, NEW c, Popped(a, ps, c),
         ps = "Failed" => a.state = "Stopped" \/ c.process \in { "dead", "launching" }
  PROVE  /\ Whole(c) /\ Tame(a, c) /\ ~ Has(c.notices, "Suspended") /\ c.launch = "job"
         /\ Has(a.notices, Head(a.notices)) /\ Head(a.notices) \in Notice
         /\ Head(a.notices) = "Suspended" => c.process \in { "frozen", "dead" }
         /\ Head(a.notices) = "Failed" => c.process \in { "launching", "dead" }
         /\ Head(a.notices) # "Starting" => c.process = a.process
<1>1. a \in Sane /\ FollowsIn(a, a.state) /\ Told(a)
  BY DEF Whole, Held, Core
<1>2. a.launch = "job"
  BY <1>1 DEF Told, Sane, AppRecord
<1>3. PICK q \in Seq(Notice) : q = a.notices
  BY <1>1 DEF Sane, AppRecord
<1>4. PICK r : r = Tail(q)
  OBVIOUS
<1>5. PICK n : n = Head(q)
  OBVIOUS
<1>6. PICK p : p = a.process
  OBVIOUS
<1>7. Fits(p, q) /\ q # << >>
  BY <1>1, <1>3, <1>6 DEF Told
<1>8. /\ p # "alive"
      /\ p = "frozen" => n = "Suspended" /\ r = << >>
      /\ p = "launching" /\ n = "Starting" => r = << >>
      /\ p = "launching" /\ n # "Starting" => n \in { "Failed", "Stopped" } /\ Fits(p, r)
      /\ \A i \in 1 .. Len(r) : r[i] # "Suspended"
      /\ \A m : Has(r, m) => Has(q, m)
      /\ Ends(q) => Ends(r)
      /\ Has(q, n) /\ n \in Notice
  BY <1>4, <1>5, <1>7, NextTold
<1>9. /\ c \in Sane /\ Outside(a, c) /\ c.startQueued = a.startQueued
      /\ c.notices = r /\ c.processState = ps /\ c.process = NowProcess(a)
  BY <1>3, <1>4 DEF Popped
<1>10. c.process = IF n = "Starting" /\ p = "launching" THEN "alive" ELSE p
  BY <1>3, <1>5, <1>6, <1>9 DEF NowProcess
<1>11. /\ c.state = a.state /\ c.launch = a.launch /\ c.session = a.session
  BY <1>9 DEF Outside
<1>12. p \in { "launching", "frozen", "dead" }
  BY <1>1, <1>6, <1>8 DEF Sane, AppRecord
<1>13. Fits(c.process, r)
  <2>1. CASE p = "dead"
    BY <1>8, <1>10, <2>1 DEF Fits
  <2>2. CASE p = "frozen"
    <3>1. r = << >> /\ c.process = "frozen"
      BY <1>8, <1>10, <2>2
    <3> QED
      BY <3>1 DEF Fits
  <2>3. CASE p = "launching" /\ n = "Starting"
    <3>1. r = << >> /\ c.process = "alive"
      BY <1>8, <1>10, <2>3
    <3> QED
      BY <3>1 DEF Fits
  <2>4. CASE p = "launching" /\ n # "Starting"
    <3>1. c.process = p
      BY <1>10, <2>4
    <3> QED
      BY <1>8, <2>4, <3>1
  <2> QED
    BY <1>12, <2>1, <2>2, <2>3, <2>4
<1>14. Told(c)
  BY <1>2, <1>9, <1>11, <1>13 DEF Told
<1>15. ~ Has(r, "Suspended")
  BY <1>8 DEF Has
<1>16. Has(r, "Starting") => Has(a.notices, "Starting")
  BY <1>3, <1>8
<1>17. Ends(a.notices) => Ends(r)
  BY <1>3, <1>8
<1>18. QuietSessions(a) => QuietSessions(c)
  BY <1>11 DEF QuietSessions
<1>19. a.process = "dead" => c.process = "dead"
  BY <1>6, <1>10
<1>20. a.process = "frozen" => c.process = "frozen"
  BY <1>6, <1>10
<1>21. FollowsIn(c, c.state)
  <2>1. /\ Has(c.notices, "Starting") => c.state \in Quiet /\ QuietSessions(c)
        /\ ~ Has(c.notices, "Suspended")
    BY <1>1, <1>9, <1>11, <1>15, <1>16, <1>18 DEF FollowsIn
  <2>2. /\ c.state = "StoppedResumable" \/ c.startQueued =>
             c.process = "dead" /\ Ends(c.notices) /\ QuietSessions(c) /\ c.launch = "job"
        /\ c.startQueued => c.state \in Quiet
    BY <1>1, <1>9, <1>11, <1>17, <1>18, <1>19 DEF FollowsIn
  <2>3. c.state = "Suspended" => c.process \in { "frozen", "dead" } /\ c.launch = "job"
    BY <1>1, <1>11, <1>19, <1>20 DEF FollowsIn
  <2>4. c.processState = "Failed" =>
          c.state = "Stopped" \/ (c.process \in { "dead", "launching" } /\ ~ Has(c.notices, "Suspended"))
    BY <1>9, <1>11, <2>1
  <2> QED
    BY <1>2, <1>11, <2>1, <2>2, <2>3, <2>4 DEF FollowsIn
<1>22. c.process = "frozen" => a.process = "frozen"
  BY <1>6, <1>10
<1>23. Whole(c) /\ Tame(a, c)
  BY <1>9, <1>14, <1>21, <1>22, OutsideWhole
<1>24. n = "Suspended" => c.process \in { "frozen", "dead" }
  BY <1>8, <1>10, <1>12
<1>25. n = "Failed" => c.process \in { "launching", "dead" }
  BY <1>8, <1>10, <1>12
<1>26. n # "Starting" => c.process = a.process
  BY <1>6, <1>10
<1> QED
  BY <1>2, <1>3, <1>5, <1>8, <1>9, <1>11, <1>15, <1>23, <1>24, <1>25, <1>26

(* A step outside, and what a handler made of it. *)
LEMMA TameOn ==
  ASSUME NEW a, NEW c, Outside(a, c), c.startQueued = a.startQueued, NEW e, Tame(c, e)
  PROVE  Tame(a, e)
BY DEF Outside, Tame, Promised

(* A notice that nobody heeds.                                              *)
LEMMA Unchanging ==
  ASSUME NEW a, Whole(a), a.notices # << >>, NEW e, e = Pop(a),
         a.processState = "Failed" => a.state = "Stopped" \/ Head(a.notices) # "Starting"
  PROVE  Whole(e) /\ Tame(a, e) /\ Popped(a, a.processState, e) /\ e.failed = a.failed
<1>1. a \in Sane /\ FollowsIn(a, a.state) /\ Told(a)
  BY DEF Whole, Held, Core
<1>2. Popped(a, a.processState, e) /\ e.failed = a.failed
  BY <1>1, PopSet
<1>3. PICK ps \in ProcessState : ps = a.processState
  BY <1>1 DEF Sane, AppRecord
<1>4. ASSUME ps = "Failed" PROVE a.state = "Stopped" \/ e.process \in { "dead", "launching" }
  <2>1. a.state = "Stopped" \/ (a.process \in { "dead", "launching" } /\ Head(a.notices) # "Starting")
    BY <1>1, <1>3, <1>4 DEF FollowsIn
  <2>2. Head(a.notices) # "Starting" => e.process = a.process
    BY <1>2 DEF Popped, NowProcess
  <2> QED
    BY <2>1, <2>2
<1>5. Popped(a, ps, e)
  BY <1>2, <1>3
<1>6. Whole(e) /\ Tame(a, e)
  BY <1>4, <1>5, PoppedKept
<1> QED
  BY <1>2, <1>6

(* onProcessStarting().                                                     *)
LEMMA StartingTold ==
  ASSUME NEW a, Whole(a), a.notices # << >>, Head(a.notices) = "Starting", a.listed = "applications",
         NEW e, e = SetProcessState(Pop(a), "Running", Update)
  PROVE  Whole(e) /\ Tame(a, e)
<1>1. a \in Sane /\ FollowsIn(a, a.state) /\ Filed(a)
  BY DEF Whole, Held, Core
<1>2. PICK b : b = Pop(a)
  OBVIOUS
<1>3. Popped(a, a.processState, b)
  BY <1>1, <1>2, PopSet
<1>4. PICK ps \in ProcessState : ps = "Running"
  BY DEF ProcessState
<1>5. CASE b.processState = ps
  <2>1. e = b
    BY <1>2, <1>4, <1>5 DEF SetProcessState
  <2>2. a.processState # "Failed"
    BY <1>3, <1>4, <1>5 DEF Popped
  <2> QED
    BY <1>2, <2>1, <2>2, Unchanging
<1>6. CASE b.processState # ps
  <2>1. PICK c : c = NewProcessState(b, ps)
    OBVIOUS
  <2>2. Popped(a, ps, c)
    BY <1>3, <2>1, PopState
  <2>3. Whole(c) /\ Tame(a, c) /\ Has(a.notices, Head(a.notices))
    BY <1>4, <2>2, PoppedKept
  <2>4. a.state \in Quiet /\ a.state # "Stopped"
    BY <1>1, <2>3 DEF FollowsIn, Filed
  <2>5. Outside(a, c) /\ c.startQueued = a.startQueued
    BY <2>2 DEF Popped
  <2>6. c.state = "Starting"
    BY <2>4, <2>5 DEF Outside, Quiet
  <2>7. ProcessSwitch(c, ps, Update) = c
    BY <1>4, <2>6 DEF ProcessSwitch
  <2>8. e = Update[c]
    BY <1>2, <1>4, <1>6, <2>1, <2>7 DEF SetProcessState, NewProcessState
  <2>9. Held(e) /\ Kin(c, e) /\ (Ended(c) => Ended(e)) /\ (Calm(c) => Promised(c, e))
    BY <2>3, <2>8, UpdateHeld DEF Whole, Held
  <2>10. Whole(e) /\ Tame(c, e)
    BY <2>3, <2>9, KinWhole DEF Whole, Held
  <2> QED
    BY <2>5, <2>10, TameOn
<1> QED
  BY <1>5, <1>6

(* onProcessSuspended(): the application is the one that waits for it.      *)
LEMMA SuspendedTold ==
  ASSUME NEW a, Whole(a), a.notices # << >>, Head(a.notices) = "Suspended", a.listed = "applications",
         NEW e, e = SetProcessState(Pop(a), "Suspended", Update)
  PROVE  Whole(e) /\ Tame(a, e)
<1>1. a \in Sane /\ FollowsIn(a, a.state) /\ Filed(a)
  BY DEF Whole, Held, Core
<1>2. PICK b : b = Pop(a)
  OBVIOUS
<1>3. Popped(a, a.processState, b)
  BY <1>1, <1>2, PopSet
<1>4. PICK ps \in ProcessState : ps = "Suspended"
  BY DEF ProcessState
<1>5. CASE b.processState = ps
  <2>1. e = b
    BY <1>2, <1>4, <1>5 DEF SetProcessState
  <2>2. a.processState # "Failed"
    BY <1>3, <1>4, <1>5 DEF Popped
  <2> QED
    BY <1>2, <2>1, <2>2, Unchanging
<1>6. CASE b.processState # ps
  <2>1. PICK c : c = NewProcessState(b, ps)
    OBVIOUS
  <2>2. Popped(a, ps, c)
    BY <1>3, <2>1, PopState
  <2>3. /\ Whole(c) /\ Tame(a, c) /\ Has(a.notices, Head(a.notices))
        /\ ~ Has(c.notices, "Suspended") /\ c.launch = "job" /\ c.process \in { "frozen", "dead" }
    BY <1>4, <2>2, PoppedKept
  <2>4. a.state = "SuspendingWaitProcess"
    BY <1>1, <2>3 DEF FollowsIn, Filed
  <2>5. Outside(a, c) /\ c.startQueued = a.startQueued
    BY <2>2 DEF Popped
  <2>6. c.state = "SuspendingWaitProcess"
    BY <2>4, <2>5 DEF Outside
  <2>7. c \in Sane /\ Core(c) /\ Ended(c) /\ FollowsIn(c, c.state)
    BY <2>3 DEF Whole, Held, Core
  <2>8. PICK st \in InternalState \ { "Closing" } : st = "Suspended"
    BY DEF InternalState
  <2>9. PICK d : d = SetInternalState(c, st, Update)
    OBVIOUS
  <2>10. ProcessSwitch(c, ps, Update) = d
    BY <1>4, <2>6, <2>8, <2>9 DEF ProcessSwitch, QAssert
  <2>11. e = Update[d]
    BY <1>2, <1>4, <1>6, <2>1, <2>10 DEF SetProcessState, NewProcessState
  <2>12. PausedIn(c, st)
    BY <2>8 DEF PausedIn, Waiting
  <2>13. FollowsIn(c, st)
    BY <2>3, <2>6, <2>7, <2>8 DEF FollowsIn, Quiet
  <2>14. ~ AllStopped(c)
    BY <2>6, <2>7 DEF Ended
  <2>15. c.state # st /\ (c.process = "frozen" => st \in FrozenStates)
         /\ (c.state \notin { "Closing", "Stopped" } \/ (c.state = "Closing" /\ st = "Stopped"))
    BY <2>6, <2>8 DEF FrozenStates
  <2>16. /\ d \in Sane /\ Core(d) /\ Calm(d) /\ Timers(d) /\ Kin(c, d) /\ Ended(d)
         /\ d.state \in { "Running", "Closing", "Suspended" }
    BY <2>7, <2>8, <2>9, <2>12, <2>13, <2>14, <2>15, SetCore
  <2>17. Held(e) /\ Kin(d, e) /\ Drifts(d, e) /\ Ended(e) /\ e \in Sane
    BY <2>11, <2>16, UpdateHeld DEF Held
  <2>18. Kin(c, e)
    BY <2>16, <2>17, KinOn
  <2>19. e.state \in { "Running", "RunningInBackground", "Closing" } \cup Waiting
    BY <2>16, <2>17 DEF Drifts, Waiting
  <2>20. Promised(c, e)
    <3>1. Ph(c.state) = "Suspended"
      BY <2>6 DEF Ph, Waiting
    <3>2. Ph(e.state) \in { "Running", "Suspended" }
      BY <2>19 DEF Ph, Waiting
    <3>3. c.closing => e.closing
      BY <2>18 DEF Kin
    <3> QED
      BY <3>1, <3>2, <3>3 DEF Promised
  <2>21. Whole(e) /\ Tame(c, e)
    BY <2>3, <2>17, <2>18, <2>20, KinWhole
  <2> QED
    BY <2>5, <2>21, TameOn
<1> QED
  BY <1>5, <1>6

(* Without its assertions, which may fail here. *)
Mild(a, e) ==
  /\ Promised(a, e)
  /\ a.closing => e.closing /\ (e.startQueued => a.startQueued)

(* An assertion, whether it holds or not.                                   *)
LEMMA AssertWhole ==
  ASSUME NEW a, Whole(a), NEW holds \in BOOLEAN, NEW name \in Assertion,
         NEW b, b = QAssert(a, holds, name)
  PROVE  Whole(b) /\ Alike(a, b) /\ (holds \/ name \in Allowed => b.failed \subseteq a.failed \cup Allowed)
<1>1. a \in Sane
  BY DEF Whole, Held
<1>2. b \in Sane /\ Alike(a, b) /\ b.failed \subseteq a.failed \cup { name } /\ (holds => b.failed = a.failed)
  BY <1>1, AssertAlike
<1>3. Core(b) /\ Calm(b) /\ Timers(b) /\ Ended(b) /\ Zombies(b)
  BY <1>2, AlikeHolds DEF Whole, Held
<1> QED
  BY <1>2, <1>3 DEF Whole, Held

(* The case Failed of setProcessState().                                    *)
LEMMA FailedSwitch ==
  ASSUME NEW c, Whole(c), NEW d, d = ProcessSwitch(c, "Failed", Update)
  PROVE  /\ Whole(d) /\ Mild(c, d)
         /\ AllStopped(c) => d.failed \subseteq c.failed \cup Allowed
         /\ d.state \in { c.state, "Stopped" }
<1>0. c \in Sane
  BY DEF Whole, Held
<1>1. PICK stopped \in BOOLEAN : stopped <=> SessionsStopped(c)
  OBVIOUS
<1>2. PICK m \in Assertion : m = "failed before its sessions"
  BY DEF Assertion
<1>3. PICK b : b = QAssert(c, stopped, m)
  OBVIOUS
<1>4. /\ Whole(b) /\ Alike(c, b)
      /\ stopped \/ m \in Allowed => b.failed \subseteq c.failed \cup Allowed
  BY <1>3, AssertWhole
<1>5. b.state = c.state /\ b.closing = c.closing /\ b.startQueued = c.startQueued
  BY <1>4 DEF Alike
<1>6. AllStopped(c) <=> stopped
  BY <1>1, AttachedStopped
<1>7. AllStopped(c) => b.failed \subseteq c.failed \cup Allowed
  BY <1>4, <1>6
<1>8. AllStopped(b) <=> AllStopped(c)
  BY <1>4 DEF Alike, AllStopped
<1>9. CASE b.state = "Starting"
  <2>1. d = SetInternalState(b, "Stopped", Update)
    BY <1>1, <1>2, <1>3, <1>9 DEF ProcessSwitch, QAssert
  <2>2. Held(d) /\ Kin(b, d) /\ Ended(d) /\ Promised(b, d) /\ d.state = "Stopped"
    BY <1>4, <1>9, <2>1, ToStopped DEF Whole, Waiting
  <2>3. Whole(d) /\ Tame(b, d)
    BY <1>4, <2>2, KinWhole
  <2>4. Mild(c, d)
    BY <1>5, <2>3 DEF Mild, Tame, Promised
  <2>5. AllStopped(c) => d.failed \subseteq c.failed \cup Allowed
    BY <1>7, <2>3 DEF Tame
  <2> QED
    BY <2>2, <2>3, <2>4, <2>5
<1>10. CASE b.state # "Starting"
  <2>1. PICK there \in BOOLEAN : there <=> b.state \in { "Stopped", "StoppedResumable" }
    OBVIOUS
  <2>2. PICK n \in Assertion : n = "failed in that state"
    BY DEF Assertion
  <2>3. d = QAssert(b, there, n)
    BY <1>1, <1>2, <1>3, <1>10, <2>1, <2>2 DEF ProcessSwitch, QAssert
  <2>4. /\ Whole(d) /\ Alike(b, d)
        /\ there \/ n \in Allowed => d.failed \subseteq b.failed \cup Allowed
    BY <1>4, <2>3, AssertWhole
  <2>5. AllStopped(c) => there
    BY <1>4, <1>8, <1>10, <2>1 DEF Whole, Ended
  <2>6. AllStopped(c) => d.failed \subseteq c.failed \cup Allowed
    BY <1>7, <2>4, <2>5
  <2>7. Mild(c, d)
    BY <1>5, <2>4 DEF Mild, Alike, Promised
  <2>8. d.state = c.state
    BY <1>5, <2>4 DEF Alike
  <2> QED
    BY <2>4, <2>6, <2>7, <2>8
<1> QED
  BY <1>9, <1>10

(* onProcessFailed().                                                       *)
LEMMA FailedTold ==
  ASSUME NEW a, Whole(a), a.notices # << >>, Head(a.notices) = "Failed", a.listed = "applications",
         NEW e, e = SetProcessState(Pop(a), "Failed", Update)
  PROVE  /\ Whole(e) /\ Mild(a, e)
         /\ AllStopped(a) => e.failed \subseteq a.failed \cup Allowed
<1>1. a \in Sane /\ FollowsIn(a, a.state) /\ Filed(a)
  BY DEF Whole, Held, Core
<1>2. PICK b : b = Pop(a)
  OBVIOUS
<1>3. Popped(a, a.processState, b)
  BY <1>1, <1>2, PopSet
<1>4. PICK ps \in ProcessState : ps = "Failed"
  BY DEF ProcessState
<1>5. CASE b.processState = ps
  <2>1. e = b
    BY <1>2, <1>4, <1>5 DEF SetProcessState
  <2>2. Whole(e) /\ Tame(a, e) /\ e.failed = a.failed
    BY <1>2, <2>1, Unchanging
  <2> QED
    BY <2>2 DEF Tame, Mild
<1>6. CASE b.processState # ps
  <2>1. PICK c : c = NewProcessState(b, ps)
    OBVIOUS
  <2>2. Popped(a, ps, c)
    BY <1>3, <2>1, PopState
  <2>3. Told(a)
    BY DEF Whole, Held, Core
  <2>4. Outside(a, c) /\ c.startQueued = a.startQueued /\ c.process = NowProcess(a)
    BY <2>2 DEF Popped
  <2>5. c.process \in { "dead", "launching" }
    <3>1. a.process \in { "dead", "launching" }
      <4>1. PICK q \in Seq(Notice) : q = a.notices
        BY <1>1 DEF Sane, AppRecord
      <4>2. PICK r : r = Tail(q)
        OBVIOUS
      <4>3. PICK n : n = Head(q)
        OBVIOUS
      <4>4. PICK p : p = a.process
        OBVIOUS
      <4>5. q # << >> /\ Fits(p, q) /\ n = "Failed"
        BY <2>3, <4>1, <4>3, <4>4 DEF Told
      <4>6. p # "alive" /\ (p = "frozen" => n = "Suspended" /\ r = << >>)
        BY <4>2, <4>3, <4>5, NextTold
      <4>7. p \in { "launching", "alive", "frozen", "dead" }
        BY <1>1, <4>4 DEF Sane, AppRecord
      <4> QED
        BY <4>4, <4>5, <4>6, <4>7
    <3> QED
      BY <2>4, <3>1 DEF NowProcess
  <2>6. Whole(c) /\ Tame(a, c)
    BY <2>2, <2>5, PoppedKept
  <2>7. PICK d : d = ProcessSwitch(c, ps, Update)
    OBVIOUS
  <2>8. e = Update[d]
    BY <1>2, <1>4, <1>6, <2>1, <2>7 DEF SetProcessState, NewProcessState
  <2>9. /\ Whole(d) /\ Mild(c, d)
        /\ AllStopped(c) => d.failed \subseteq c.failed \cup Allowed
        /\ d.state \in { c.state, "Stopped" }
    BY <1>4, <2>6, <2>7, FailedSwitch
  <2>10. Held(e) /\ Kin(d, e) /\ Drifts(d, e) /\ (Ended(d) => Ended(e)) /\ (Calm(d) => Promised(d, e))
    BY <2>8, <2>9, UpdateHeld DEF Whole, Held
  <2>11. Whole(e) /\ Tame(d, e)
    BY <2>9, <2>10, KinWhole DEF Whole, Held
  <2>12. /\ c.state = a.state /\ c.closing = a.closing /\ c.failed = a.failed
         /\ c.session = a.session
    BY <2>4 DEF Outside
  <2>13. a.closing => d.closing /\ (d.startQueued => a.startQueued)
    BY <2>4, <2>9, <2>12 DEF Mild
  <2>14. a.closing => e.closing /\ (e.startQueued => a.startQueued)
    BY <2>11, <2>13 DEF Tame
  <2>15. Promised(a, e)
    <3>1. CASE d.state = a.state
      BY <2>11, <2>13, <3>1 DEF Tame, Promised
    <3>2. CASE d.state = "Stopped"
      <4>1. e.state = "Stopped"
        BY <2>10, <3>2 DEF Drifts
      <4>2. Ph(e.state) = "Gone"
        BY <4>1 DEF Ph, Waiting
      <4> QED
        BY <2>14, <4>2 DEF Promised
    <3> QED
      BY <2>9, <2>12, <3>1, <3>2
  <2>16. AllStopped(a) => e.failed \subseteq a.failed \cup Allowed
    <3>1. AllStopped(a) => AllStopped(c)
      BY <2>12 DEF AllStopped
    <3> QED
      BY <2>9, <2>11, <2>12, <3>1 DEF Tame
  <2> QED
    BY <2>11, <2>14, <2>15, <2>16 DEF Mild
<1> QED
  BY <1>5, <1>6

(* onProcessStopped().                                                      *)
LEMMA StoppedTold ==
  ASSUME NEW a, Whole(a), a.notices # << >>, a.processState # "Failed",
         NEW e, e = SetProcessState(Pop(a), "Stopped", Update)
  PROVE  Whole(e) /\ Tame(a, e)
<1>1. PICK b : b = Pop(a)
  OBVIOUS
<1>2. Whole(b) /\ Tame(a, b) /\ Popped(a, a.processState, b)
  BY <1>1, Unchanging
<1>3. Held(e) /\ Kin(b, e) /\ (Ended(b) => Ended(e)) /\ Promised(b, e)
  BY <1>1, <1>2, ProcessStopped DEF Whole
<1>4. Whole(e) /\ Tame(b, e)
  BY <1>2, <1>3, KinWhole DEF Whole
<1> QED
  BY <1>2, <1>4, TameOn DEF Popped

(* onProcessStarting() and its kin. *)
LEMMA HeedKept ==
  ASSUME NEW a, Whole(a), a.notices # << >>, NEW n, n = Head(a.notices),
         NEW e, e = Heed(Pop(a), n)
  PROVE  /\ Whole(e) /\ Mild(a, e)
         /\ (n \in { "Failed", "Stopped" } => AllStopped(a)) => e.failed \subseteq a.failed \cup Allowed
<1>1. a \in Sane /\ FollowsIn(a, a.state) /\ Filed(a)
  BY DEF Whole, Held, Core
<1>2. PICK b : b = Pop(a)
  OBVIOUS
<1>3. Popped(a, a.processState, b)
  BY <1>1, <1>2, PopSet
<1>4. b.listed = a.listed /\ b.processState = a.processState
  BY <1>3 DEF Popped, Outside
<1>5. Has(a.notices, n) /\ n \in Notice
  <2>1. PICK q \in Seq(Notice) : q = a.notices
    BY <1>1 DEF Sane, AppRecord
  <2>2. 1 \in 1 .. Len(q) /\ q[1] = n /\ n \in Notice
    BY <2>1
  <2> QED
    BY <2>1, <2>2 DEF Has
<1>6. CASE n = "Starting" /\ a.listed = "applications"
  <2>1. e = SetProcessState(b, "Running", Update)
    BY <1>2, <1>4, <1>6 DEF Heed
  <2>2. Whole(e) /\ Tame(a, e)
    BY <1>2, <1>6, <2>1, StartingTold
  <2> QED
    BY <2>2 DEF Tame, Mild
<1>7. CASE n = "Suspended" /\ a.listed = "applications"
  <2>1. e = SetProcessState(b, "Suspended", Update)
    BY <1>2, <1>4, <1>7 DEF Heed
  <2>2. Whole(e) /\ Tame(a, e)
    BY <1>2, <1>7, <2>1, SuspendedTold
  <2> QED
    BY <2>2 DEF Tame, Mild
<1>8. CASE n = "Failed" /\ a.listed = "applications"
  <2>1. e = SetProcessState(b, "Failed", Update)
    BY <1>2, <1>4, <1>8 DEF Heed
  <2> QED
    BY <1>2, <1>8, <2>1, FailedTold
<1>9. CASE n = "Stopped" /\ a.listed # "none" /\ a.processState # "Failed"
  <2>1. e = SetProcessState(b, "Stopped", Update)
    BY <1>2, <1>4, <1>9 DEF Heed
  <2>2. Whole(e) /\ Tame(a, e)
    BY <1>2, <1>9, <2>1, StoppedTold
  <2> QED
    BY <2>2 DEF Tame, Mild
<1>10. CASE /\ ~ (n \in { "Starting", "Suspended", "Failed" } /\ a.listed = "applications")
            /\ ~ (n = "Stopped" /\ a.listed # "none" /\ a.processState # "Failed")
  <2>1. e = b
    BY <1>2, <1>4, <1>10 DEF Heed
  <2>2. a.state = "Stopped" \/ n # "Starting"
    BY <1>1, <1>5, <1>10 DEF FollowsIn, Filed, Quiet
  <2>3. Whole(e) /\ Tame(a, e)
    BY <1>2, <2>1, <2>2, Unchanging
  <2> QED
    BY <2>3 DEF Tame, Mild
<1> QED
  BY <1>5, <1>6, <1>7, <1>8, <1>9, <1>10 DEF Notice

-----------------------------------------------------------------------------
(* The steps of the specification. *)

(* The destructor of the application. *)
NewDeleted(a, f) == [ a EXCEPT !.session = f, !.stopTimer = FALSE, !.listed = "none" ]

(* All of it goes: no session remains, and no timer.                        *)
LEMMA DeletedKept ==
  ASSUME NEW a, Whole(a), a.deleteLater, NEW f \in [ Sessions -> SaneSession ],
         \A s \in Sessions : ~ f[s].attached,
         NEW e, e = NewDeleted(a, f)
  PROVE  /\ Whole(e) /\ Tame(a, e) /\ e.closing = a.closing /\ a.state = "Stopped"
         /\ e.state = a.state /\ e.wakelock = a.wakelock /\ e.session = f
<1>1. a \in Sane /\ Core(a)
  BY DEF Whole, Held
<1>2. PICK v \in BOOLEAN : v = FALSE
  OBVIOUS
<1>3. PICK l \in { "applications", "closing", "none" } : l = "none"
  OBVIOUS
<1>4. PICK g \in [ Sessions -> SessionRecord ] : g = f
  BY DEF SaneSession
<1>5. e = [ a EXCEPT !.session = g, !.stopTimer = v, !.listed = l ]
  BY <1>2, <1>3, <1>4 DEF NewDeleted
<1>6. e \in AppRecord
  BY <1>1, <1>5, Zenon DEF Sane, AppRecord
<1>7. e.session = g /\ e.stopTimer = v /\ e.listed = l
  BY <1>1, <1>5, Zenon DEF Sane, AppRecord
<1>8. /\ e.state = a.state /\ e.processState = a.processState /\ e.closing = a.closing
      /\ e.deleteLater = a.deleteLater /\ e.startQueued = a.startQueued /\ e.process = a.process
      /\ e.launch = a.launch /\ e.notices = a.notices /\ e.failed = a.failed
      /\ e.wakelock = a.wakelock
  BY <1>1, <1>5, Zenon DEF Sane, AppRecord
<1>9. e \in Sane
  BY <1>1, <1>4, <1>6, <1>7, <1>8 DEF Sane
<1>10. a.state = "Stopped"
  BY <1>1 DEF Core, Filed
<1>11. \A s \in Sessions : ~ e.session[s].attached
  BY <1>4, <1>7
<1>12. Filed(e)
  BY <1>1, <1>3, <1>7, <1>8, <1>10 DEF Core, Filed
<1>13. PausedIn(e, e.state) /\ LiveOnes(e) /\ Frozen(e) /\ Zombies(e) /\ QuietSessions(e)
  BY <1>11 DEF PausedIn, LiveOnes, Frozen, Zombies, QuietSessions
<1>14. Told(e)
  BY <1>1, <1>8 DEF Core, Told
<1>15. FollowsIn(e, e.state)
  BY <1>1, <1>8, <1>10, <1>13 DEF Core, FollowsIn, Quiet
<1>16. Calm(e) /\ Timers(e) /\ Ended(e)
  BY <1>2, <1>7, <1>8, <1>10 DEF Calm, Timers, Ended
<1>17. Tame(a, e)
  BY <1>8 DEF Tame, Promised
<1> QED
  BY <1>4, <1>7, <1>8, <1>9, <1>10, <1>12, <1>13, <1>14, <1>15, <1>16, <1>17 DEF Whole, Held, Core

(* What every step keeps. *)
Fine(a, e) ==
  Whole(e) /\ Mild(a, e) /\ (SessionsStopFirst => e.failed \subseteq Allowed)

(* The inductive invariant of the specification.                            *)
AppInv ==
  /\ deleted \in BOOLEAN
  /\ Whole(app)
  /\ deleted => app.state = "Stopped"
  /\ SessionsStopFirst => app.failed \subseteq Allowed

(* b is the application when the handler begins. *)
Begun(a, b) ==
  /\ Whole(b) /\ b.failed = {} /\ b.state = a.state /\ b.closing = a.closing
  /\ b.startQueued = a.startQueued /\ b.process = a.process /\ b.notices = a.notices
  /\ b.session = a.session /\ b.listed = a.listed /\ b.launch = a.launch
  /\ b.deleteLater = a.deleteLater

(* a0 of module AppLifecycle is that.                                       *)
LEMMA BegunIs ==
  ASSUME NEW a, Whole(a), NEW b, b = [ a EXCEPT !.failed = {} ]
  PROVE  Begun(a, b)
BY StartWhole DEF Begun

(* A tame handler is a fine step.                                           *)
LEMMA TameFine ==
  ASSUME NEW a, NEW b, Begun(a, b), NEW e, Whole(e), Tame(b, e)
  PROVE  Fine(a, e)
BY DEF Begun, Tame, Fine, Mild, Promised

(* The handlers of what the shell and the stop timer ask for. *)
LEMMA ByShell ==
  ASSUME NEW a, NEW b, Begun(a, b), NEW e,
         \/ \E v \in RequestedState : e = UpdateState([ b EXCEPT !.requested = v ])
         \/ \E v \in BOOLEAN : e = [ b EXCEPT !.exempt = v ]
         \/ e = Close(b)
         \/ e = Stop([ b EXCEPT !.stopTimer = FALSE ])
         \/ e = TaskStop(b)
  PROVE  Fine(a, e)
<1>1. Whole(b)
  BY DEF Begun
<1>2. ASSUME NEW v \in RequestedState, e = UpdateState([ b EXCEPT !.requested = v ])
      PROVE  Whole(e) /\ Tame(b, e)
  BY <1>1, <1>2, RequestKept
<1>3. ASSUME NEW v \in BOOLEAN, e = [ b EXCEPT !.exempt = v ]
      PROVE  Whole(e) /\ Tame(b, e)
  BY <1>1, <1>3, ExemptKept
<1>4. e = Close(b) => Whole(e) /\ Tame(b, e)
  BY <1>1, CloseKept
<1>5. e = Stop([ b EXCEPT !.stopTimer = FALSE ]) => Whole(e) /\ Tame(b, e)
  BY <1>1, StopTimeoutKept
<1>6. e = TaskStop(b) => Whole(e) /\ Tame(b, e)
  BY <1>1, TaskStopKept
<1>7. Whole(e) /\ Tame(b, e)
  BY <1>2, <1>3, <1>4, <1>5, <1>6
<1> QED
  BY <1>7, TameFine

(* The handlers of what Mir and the timers of sessions report.              *)
LEMMA ByMir ==
  ASSUME NEW a, NEW b, Begun(a, b), NEW s \in Sessions, NEW e,
         \/ /\ a.session[s].attached /\ a.session[s].state = "Suspending"
            /\ e = SetSessionState(b, s, "Suspended")
         \/ a.session[s].zombie /\ e = RemoveSession(b, s)
         \/ /\ a.listed = "applications" /\ a.process = "alive"
            /\ e = AddSession(b, s)
         \/ /\ a.session[s].attached /\ a.session[s].live /\ a.process # "frozen"
            /\ e = SessionDies(b, s)
  PROVE  Fine(a, e)
<1>1. /\ Whole(b) /\ b.process = a.process /\ b.session = a.session /\ b.listed = a.listed
  BY DEF Begun
<1>2. /\ a.session[s].attached /\ a.session[s].state = "Suspending"
      /\ e = SetSessionState(b, s, "Suspended")
      => Whole(e) /\ Tame(b, e)
  BY <1>1, SuspendTimeoutKept
<1>3. a.session[s].zombie /\ e = RemoveSession(b, s) => Whole(e) /\ Tame(b, e)
  BY <1>1, RemoveSessionKept
<1>4. a.listed = "applications" /\ a.process = "alive" /\ e = AddSession(b, s)
      => Whole(e) /\ Tame(b, e)
  BY <1>1, AddSessionKept
<1>5. /\ a.session[s].attached /\ a.session[s].live /\ a.process # "frozen"
      /\ e = SessionDies(b, s)
      => Whole(e) /\ Tame(b, e)
  BY <1>1, SessionDiesKept
<1>6. Whole(e) /\ Tame(b, e)
  BY <1>2, <1>3, <1>4, <1>5
<1> QED
  BY <1>6, TameFine

(* The handlers of surfaces.                                                *)
LEMMA BySurface ==
  ASSUME NEW a, NEW b, Begun(a, b), NEW s \in Sessions, NEW f \in Surfaces, NEW e,
         a.session[s].attached,
         \/ a.session[s].live /\ a.process = "alive" /\ e = PrependSurface(b, s, f)
         \/ f \in a.session[s].list /\ e = CloseSurface(b, s, f)
         \/ e = RemoveSurface(b, s, f)
  PROVE  Fine(a, e)
<1>1. Whole(b) /\ b.process = a.process /\ b.session = a.session
  BY DEF Begun
<1>2. a.session[s].live /\ a.process = "alive" /\ e = PrependSurface(b, s, f)
      => Whole(e) /\ Tame(b, e)
  BY <1>1, PrependKept
<1>3. f \in a.session[s].list /\ e = CloseSurface(b, s, f) => Whole(e) /\ Tame(b, e)
  BY <1>1, CloseSurfaceKept
<1>4. e = RemoveSurface(b, s, f) => Whole(e) /\ Tame(b, e)
  BY <1>1, RemoveSurfaceKept
<1>5. Whole(e) /\ Tame(b, e)
  BY <1>2, <1>3, <1>4
<1> QED
  BY <1>5, TameFine

(* What is posted, and what happens to the process.                         *)
LEMMA BySystem ==
  ASSUME NEW a, NEW b, Begun(a, b), NEW e,
         \/ /\ a.startQueued
            /\ e = IF b.process = "dead" /\ b.launch = "job"
                   THEN [ b EXCEPT !.startQueued = FALSE, !.process = "launching",
                                   !.notices = Append(@, "Starting") ]
                   ELSE [ b EXCEPT !.startQueued = FALSE ]
         \/ a.process # "dead" /\ \E how : e = EndedWith(b, Told0(b, how))
         \/ a.deleteLater /\ e = NewDeleted(b, [ s \in Sessions |-> NoSession ])
  PROVE  Fine(a, e)
<1>1. Whole(b) /\ b.process = a.process /\ b.startQueued = a.startQueued
      /\ b.deleteLater = a.deleteLater
  BY DEF Begun
<1>2. /\ a.startQueued
      /\ e = IF b.process = "dead" /\ b.launch = "job"
             THEN [ b EXCEPT !.startQueued = FALSE, !.process = "launching",
                             !.notices = Append(@, "Starting") ]
             ELSE [ b EXCEPT !.startQueued = FALSE ]
      => Whole(e) /\ Tame(b, e)
  BY <1>1, QueuedStartKept
<1>3. ASSUME a.process # "dead", NEW how, e = EndedWith(b, Told0(b, how))
      PROVE  Whole(e) /\ Tame(b, e)
  BY <1>1, <1>3, EndsKept
<1>4. ASSUME a.deleteLater, e = NewDeleted(b, [ s \in Sessions |-> NoSession ])
      PROVE  Whole(e) /\ Tame(b, e)
  <2>1. PICK f : f = [ s \in Sessions |-> NoSession ]
    OBVIOUS
  <2>2. NoSession \in SaneSession /\ ~ NoSession.attached
    BY DEF NoSession, SaneSession, SessionRecord, SessionState
  <2>3. f \in [ Sessions -> SaneSession ] /\ \A s \in Sessions : ~ f[s].attached
    BY <2>1, <2>2
  <2>4. e = NewDeleted(b, f)
    BY <1>4, <2>1
  <2> QED
    BY <1>1, <1>4, <2>3, <2>4, DeletedKept
<1>5. Whole(e) /\ Tame(b, e)
  BY <1>2, <1>3, <1>4
<1> QED
  BY <1>5, TameFine

(* What ubuntu-app-launch tells.                                            *)
LEMMA ByNotice ==
  ASSUME NEW a, Whole(a), NEW b, Begun(a, b), a.notices # << >>,
         NEW n, n = Head(a.notices), NEW e,
         \/ e = Heed(Pop(b), n)
         \/ e = Pop(b) /\ a.state = "Stopped",
         SessionsStopFirst /\ n \in { "Failed", "Stopped" } => AllStopped(a)
  PROVE  Fine(a, e)
<1>1. /\ Whole(b) /\ b.notices = a.notices /\ b.session = a.session /\ b.failed = {}
      /\ b.state = a.state /\ b.closing = a.closing /\ b.startQueued = a.startQueued
  BY DEF Begun
<1>2. CASE e = Heed(Pop(b), n)
  <2>1. /\ Whole(e) /\ Mild(b, e)
        /\ (n \in { "Failed", "Stopped" } => AllStopped(b)) => e.failed \subseteq b.failed \cup Allowed
    BY <1>1, <1>2, HeedKept
  <2>2. SessionsStopFirst => (n \in { "Failed", "Stopped" } => AllStopped(b))
    BY <1>1 DEF AllStopped
  <2>3. SessionsStopFirst => e.failed \subseteq Allowed
    BY <1>1, <2>1, <2>2
  <2>4. Mild(a, e)
    BY <1>1, <2>1 DEF Mild, Promised
  <2> QED
    BY <2>1, <2>3, <2>4 DEF Fine
<1>3. CASE e = Pop(b) /\ a.state = "Stopped"
  <2>1. Whole(e) /\ Tame(b, e)
    BY <1>1, <1>3, Unchanging
  <2> QED
    BY <2>1, TameFine
<1> QED
  BY <1>2, <1>3

(* The steps of the specification are fine. *)
LEMMA NextKept ==
  ASSUME AppInv, [Next]_vars
  PROVE  Fine(app, app')
<1>1. PICK a : a = app
  OBVIOUS
<1>2. PICK e : e = app'
  OBVIOUS
<1>3. PICK b : b = a0
  OBVIOUS
<1>4. Whole(a) /\ (deleted => a.state = "Stopped") /\ (SessionsStopFirst => a.failed \subseteq Allowed)
      /\ deleted \in BOOLEAN
  BY <1>1 DEF AppInv
<1>5. Begun(a, b)
  <2>1. b = [ a EXCEPT !.failed = {} ]
    BY <1>1, <1>3 DEF a0
  <2> QED
    BY <1>4, <2>1, BegunIs
<1> SUFFICES Fine(a, e)
  BY <1>1, <1>2
<1>6. CASE \/ \E v \in RequestedState : SetRequestedState(v)
           \/ \E v \in BOOLEAN : SetExemptFromLifecycle(v)
           \/ StopApplication
           \/ StopTimeout
           \/ \E s \in Sessions, f \in Surfaces : SurfaceCloseOverdue(s, f)
  <2>1. \/ \E v \in RequestedState : e = UpdateState([ b EXCEPT !.requested = v ])
        \/ \E v \in BOOLEAN : e = [ b EXCEPT !.exempt = v ]
        \/ e = Close(b)
        \/ e = Stop([ b EXCEPT !.stopTimer = FALSE ])
        \/ e = TaskStop(b)
    BY <1>2, <1>3, <1>6 DEF SetRequestedState, SetExemptFromLifecycle, StopApplication, StopTimeout,
                            SurfaceCloseOverdue
  <2> QED
    BY <1>5, <2>1, ByShell, Zenon
<1>7. ASSUME NEW s \in Sessions,
             SuspendTimeout(s) \/ SessionDeleted(s) \/ SessionStarting(s) \/ SessionStopping(s)
      PROVE  Fine(a, e)
  <2>1. \/ /\ a.session[s].attached /\ a.session[s].state = "Suspending"
           /\ e = SetSessionState(b, s, "Suspended")
        \/ a.session[s].zombie /\ e = RemoveSession(b, s)
        \/ /\ a.listed = "applications" /\ a.process = "alive"
           /\ e = AddSession(b, s)
        \/ /\ a.session[s].attached /\ a.session[s].live /\ a.process # "frozen"
           /\ e = SessionDies(b, s)
    BY <1>1, <1>2, <1>3, <1>7 DEF SuspendTimeout, SessionDeleted, SessionStarting, SessionStopping, Live
  <2> QED
    BY <1>5, <2>1, ByMir
<1>8. ASSUME NEW s \in Sessions, NEW f \in Surfaces,
             SurfaceReady(s, f) \/ SurfaceClose(s, f) \/ SurfaceDestroyed(s, f)
      PROVE  Fine(a, e)
  <2>1. /\ a.session[s].attached
        /\ \/ a.session[s].live /\ a.process = "alive" /\ e = PrependSurface(b, s, f)
           \/ f \in a.session[s].list /\ e = CloseSurface(b, s, f)
           \/ e = RemoveSurface(b, s, f)
    BY <1>1, <1>2, <1>3, <1>8 DEF SurfaceReady, SurfaceClose, SurfaceDestroyed, Live
  <2> QED
    BY <1>5, <2>1, BySurface
<1>9. CASE RunQueuedStart \/ ApplicationDeleted
           \/ \E how \in { "killed", "exit", "terminated" } : ProcessEnds(how)
  <2>1. /\ a.launch = b.launch /\ a.process = b.process /\ a.notices = b.notices
    BY <1>5 DEF Begun
  <2>2. ASSUME RunQueuedStart
        PROVE  /\ a.startQueued
               /\ e = IF b.process = "dead" /\ b.launch = "job"
                      THEN [ b EXCEPT !.startQueued = FALSE, !.process = "launching",
                                      !.notices = Append(@, "Starting") ]
                      ELSE [ b EXCEPT !.startQueued = FALSE ]
    BY <1>1, <1>2, <1>3, <2>1, <2>2 DEF RunQueuedStart
  <2>3. ASSUME NEW how, ProcessEnds(how)
        PROVE  a.process # "dead" /\ e = EndedWith(b, Told0(b, how))
    BY <1>1, <1>2, <1>3, <2>1, <2>3 DEF ProcessEnds, EndedWith, Told0
  <2>4. ASSUME ApplicationDeleted
        PROVE  a.deleteLater /\ e = NewDeleted(b, [ s \in Sessions |-> NoSession ])
    BY <1>1, <1>2, <1>3, <2>4 DEF ApplicationDeleted, NewDeleted
  <2> QED
    <3>1. ASSUME RunQueuedStart PROVE Fine(a, e)
      BY <1>5, <2>2, <3>1, BySystem, Zenon
    <3>2. ASSUME NEW how, ProcessEnds(how) PROVE Fine(a, e)
      BY <1>5, <2>3, <3>2, BySystem, Zenon
    <3>3. ASSUME ApplicationDeleted PROVE Fine(a, e)
      BY <1>5, <2>4, <3>3, BySystem, Zenon
    <3> QED
      BY <1>9, <3>1, <3>2, <3>3, Zenon
<1>10. CASE Noticed
  <2>1. PICK n : n = Head(a.notices)
    OBVIOUS
  <2>2. b.notices = a.notices /\ b.process = a.process
    BY <1>5 DEF Begun
  <2>3. /\ a.notices # << >>
        /\ SessionsStopFirst /\ n \in { "Failed", "Stopped" } => \A s \in Sessions : ~ Live(s)
    BY <1>1, <1>10, <2>1 DEF Noticed
  <2>4. e = IF deleted THEN Pop(b) ELSE Heed(Pop(b), n)
    BY <1>1, <1>2, <1>3, <1>10, <2>1, <2>2 DEF Noticed, Pop, NowProcess
  <2>5. SessionsStopFirst /\ n \in { "Failed", "Stopped" } => AllStopped(a)
    BY <1>1, <1>4, <2>3 DEF Live, AllStopped, Whole, Held, Core, LiveOnes
  <2>6. \/ e = Heed(Pop(b), n)
        \/ e = Pop(b) /\ a.state = "Stopped"
    BY <1>4, <2>4
  <2> QED
    BY <1>4, <1>5, <2>1, <2>3, <2>5, <2>6, ByNotice, Zenon
<1>11. CASE UNCHANGED vars
  <2>1. e = a
    BY <1>1, <1>2, <1>11 DEF vars
  <2> QED
    <3>1. Mild(a, a)
      BY DEF Mild, Promised
    <3> QED
      BY <1>4, <2>1, <3>1 DEF Fine
<1> QED
  BY <1>6, <1>7, <1>8, <1>9, <1>10, <1>11, Zenon DEF Next

(* The application starts so.                                               *)
LEMMA AppInvInit == Init => AppInv
<1> SUFFICES ASSUME Init PROVE AppInv
  OBVIOUS
<1>1. app \in Sane
  BY InitInv DEF Inv
<1>2. PICK a : a = app
  OBVIOUS
<1>3. /\ a.state = "Starting" /\ a.processState = "Unknown" /\ a.closing = FALSE
      /\ a.stopTimer = FALSE /\ a.listed = "applications" /\ a.deleteLater = FALSE
      /\ a.startQueued = FALSE /\ a.failed = {}
      /\ a.session = [ s \in Sessions |-> NoSession ]
  BY <1>2 DEF Init
<1>4. \/ a.launch = "job" /\ a.process = "launching" /\ a.notices = << "Starting" >>
      \/ a.launch # "job" /\ a.process = "alive" /\ a.notices = << >>
  BY <1>2 DEF Init
<1>5. \A s \in Sessions : ~ a.session[s].attached
  BY <1>3 DEF NoSession
<1>6. Filed(a)
  BY <1>3 DEF Filed
<1>7. PausedIn(a, a.state) /\ LiveOnes(a) /\ Frozen(a) /\ Zombies(a) /\ QuietSessions(a)
  BY <1>5 DEF PausedIn, LiveOnes, Frozen, Zombies, QuietSessions
<1>8. Calm(a) /\ Timers(a) /\ Ended(a)
  BY <1>3 DEF Calm, Timers, Ended
<1>9. Told(a) /\ ~ Has(a.notices, "Suspended")
  <2>1. CASE a.launch = "job" /\ a.process = "launching" /\ a.notices = << "Starting" >>
    <3>1. PICK q : q = a.notices
      OBVIOUS
    <3>2. Len(q) = 1 /\ q[1] = "Starting" /\ q # << >>
      BY <2>1, <3>1
    <3>3. Fits("launching", q) /\ ~ Has(q, "Suspended")
      BY <3>2 DEF Fits, Has
    <3> QED
      BY <2>1, <3>1, <3>3 DEF Told
  <2>2. CASE a.launch # "job" /\ a.process = "alive" /\ a.notices = << >>
    <3>1. Fits("alive", << >>) /\ ~ Has(<< >>, "Suspended")
      BY DEF Fits, Has
    <3> QED
      BY <2>2, <3>1 DEF Told
  <2> QED
    BY <1>4, <2>1, <2>2
<1>10. FollowsIn(a, a.state)
  BY <1>3, <1>7, <1>9 DEF FollowsIn, Quiet
<1>11. Whole(a)
  BY <1>1, <1>2, <1>6, <1>7, <1>8, <1>9, <1>10 DEF Whole, Held, Core
<1>12. deleted = FALSE
  BY DEF Init
<1> QED
  BY <1>2, <1>3, <1>11, <1>12 DEF AppInv

(* From Stopped no fine step leads elsewhere.                               *)
LEMMA GoneStays ==
  ASSUME NEW a, NEW e, Fine(a, e), a.state = "Stopped"
  PROVE  e.state = "Stopped"
<1>1. Ph(a.state) = "Gone"
  BY DEF Ph, Waiting
<1>2. Ph(e.state) = "Gone"
  BY <1>1 DEF Fine, Mild, Promised
<1>3. e.state \in InternalState
  BY SessionTypesOf DEF Fine, Whole, Held
<1>4. e.state # "Stopped" => Ph(e.state) # "Gone"
  BY <1>3 DEF Ph, Waiting, InternalState
<1> QED
  BY <1>2, <1>4

(* Only the destructor of a stopped application deletes it.                 *)
LEMMA DeletedStep ==
  ASSUME AppInv, [Next]_vars
  PROVE  \/ deleted' = deleted
         \/ ~ deleted /\ deleted' = TRUE /\ app.state = "Stopped" /\ app'.closing = app.closing
<1>1. CASE ApplicationDeleted
  <2>1. app \in Sane /\ app.deleteLater /\ Filed(app)
    BY <1>1 DEF AppInv, Whole, Held, Core, ApplicationDeleted
  <2>2. app.state = "Stopped"
    BY <2>1 DEF Filed
  <2>3. ~ deleted /\ deleted' = TRUE
    BY <1>1 DEF ApplicationDeleted
  <2>4. PICK a : a = app
    OBVIOUS
  <2>5. PICK b : b = [ a EXCEPT !.failed = {} ]
    OBVIOUS
  <2>6. Whole(b) /\ b.deleteLater /\ b.closing = a.closing
    BY <2>1, <2>4, <2>5, StartWhole DEF AppInv
  <2>7. PICK f : f = [ s \in Sessions |-> NoSession ]
    OBVIOUS
  <2>8. NoSession \in SaneSession /\ ~ NoSession.attached
    BY DEF NoSession, SaneSession, SessionRecord, SessionState
  <2>9. f \in [ Sessions -> SaneSession ] /\ \A s \in Sessions : ~ f[s].attached
    BY <2>7, <2>8
  <2>10. PICK e : e = NewDeleted(b, f)
    OBVIOUS
  <2>11. e.closing = b.closing
    BY <2>6, <2>9, <2>10, DeletedKept
  <2>12. app' = e
    BY <1>1, <2>4, <2>5, <2>7, <2>10 DEF ApplicationDeleted, NewDeleted, a0
  <2> QED
    BY <2>2, <2>3, <2>4, <2>6, <2>11, <2>12
<1>2. CASE UNCHANGED vars
  BY <1>2 DEF vars
<1>3. CASE Next /\ ~ ApplicationDeleted
  BY <1>3 DEF Next, SetRequestedState, SetExemptFromLifecycle, StopApplication, StopTimeout,
     SuspendTimeout, RunQueuedStart, SessionDeleted, SessionStarting, SessionStopping,
     SurfaceReady, SurfaceClose, SurfaceCloseOverdue, SurfaceDestroyed, ProcessEnds, Noticed
<1> QED
  BY <1>1, <1>2, <1>3

(* The invariant is inductive.                                              *)
LEMMA AppInvNext ==
  ASSUME AppInv, [Next]_vars
  PROVE  AppInv'
<1>1. Fine(app, app')
  BY NextKept
<1>2. \/ deleted' = deleted
      \/ ~ deleted /\ deleted' = TRUE /\ app.state = "Stopped" /\ app'.closing = app.closing
  BY DeletedStep
<1>3. deleted' \in BOOLEAN /\ (deleted' => app.state = "Stopped")
  <2>1. deleted \in BOOLEAN /\ (deleted => app.state = "Stopped")
    BY DEF AppInv
  <2>2. CASE deleted' = deleted
    BY <2>1, <2>2
  <2>3. CASE deleted' = TRUE /\ app.state = "Stopped"
    BY <2>3
  <2> QED
    BY <1>2, <2>2, <2>3
<1>4. app.state = "Stopped" => app'.state = "Stopped"
  BY <1>1, GoneStays
<1>5. Whole(app') /\ (SessionsStopFirst => app'.failed \subseteq Allowed)
  BY <1>1 DEF Fine
<1> QED
  BY <1>3, <1>4, <1>5 DEF AppInv

-----------------------------------------------------------------------------
(* The theorems. *)

(* Stopped is a dead end: no notice, timer, session or surface that comes   *)
(* late takes the application out of it, or back into the list that is      *)
(* searched for running ones.                                               *)
THEOREM NoWayBack == Spec => StoppedIsDeadEnd
<1>1. AppInv /\ [Next]_vars => AppInv'
  BY AppInvNext
<1>2. AppInv /\ [Next]_vars =>
        [ app.state = "Stopped" => /\ app'.state = "Stopped"
                                   /\ app'.deleteLater
                                   /\ app'.listed # "applications" ]_vars
  <2> SUFFICES ASSUME AppInv, Next, app.state = "Stopped"
               PROVE  /\ app'.state = "Stopped" /\ app'.deleteLater /\ app'.listed # "applications"
    OBVIOUS
  <2>1. Fine(app, app')
    BY NextKept
  <2>2. app'.state = "Stopped"
    BY <2>1, GoneStays
  <2>3. Filed(app')
    BY <2>1 DEF Fine, Whole, Held, Core
  <2> QED
    BY <2>2, <2>3 DEF Filed
<1> QED
  BY AppInvInit, <1>1, <1>2, PTL DEF Spec, StoppedIsDeadEnd

(* An application to be closed stays so: nothing respawns it or keeps it as *)
(* resumable.                                                               *)
THEOREM CloseIsFinal == Spec => ClosingIsFinal
<1>1. AppInv /\ [Next]_vars => AppInv'
  BY AppInvNext
<1>2. AppInv /\ [Next]_vars =>
        [ app.closing => /\ app'.closing
                         /\ app'.startQueued => app.startQueued
                         /\ app'.state # "StoppedResumable" ]_vars
  <2> SUFFICES ASSUME AppInv, Next, app.closing
               PROVE  /\ app'.closing
                      /\ app'.startQueued => app.startQueued
                      /\ app'.state # "StoppedResumable"
    OBVIOUS
  <2>1. Fine(app, app')
    BY NextKept
  <2>2. app'.closing /\ (app'.startQueued => app.startQueued)
    BY <2>1 DEF Fine, Mild
  <2>3. app'.state # "StoppedResumable"
    BY <2>1, <2>2 DEF Fine, Whole, Held, Calm
  <2> QED
    BY <2>2, <2>3
<1> QED
  BY AppInvInit, <1>1, <1>2, PTL DEF Spec, ClosingIsFinal

(* A process is frozen only after each of its clients was told to suspend   *)
(* and had the time of m_suspendTimer to do so.                             *)
THEOREM FrozenLast == Spec => []FrozenAfterSessions
<1>1. AppInv /\ [Next]_vars => AppInv'
  BY AppInvNext
<1>2. AppInv => FrozenAfterSessions
  BY DEF AppInv, Whole, Held, Core, Frozen, LiveOnes, Live, FrozenAfterSessions
<1> QED
  BY AppInvInit, <1>1, <1>2, PTL DEF Spec

(* The stop timer never runs against an application that still shows a      *)
(* surface and is not being closed.                                         *)
THEOREM TimerSparesSurfaces == Spec => []StopTimerSparesSurfaces
<1>1. AppInv /\ [Next]_vars => AppInv'
  BY AppInvNext
<1>2. AppInv => StopTimerSparesSurfaces
  BY DEF AppInv, Whole, Held, Timers, Live, ListEmpty, StopTimerSparesSurfaces
<1> QED
  BY AppInvInit, <1>1, <1>2, PTL DEF Spec

(* Exactly the sessions whose client is gone and whose last surface is gone *)
(* too are to be deleted.                                                   *)
THEOREM SessionsCollected == Spec => []DeadSessionsCollected
<1>1. AppInv /\ [Next]_vars => AppInv'
  BY AppInvNext
<1>2. AppInv => DeadSessionsCollected
  BY DEF AppInv, Whole, Zombies, ListEmpty, DeadSessionsCollected
<1> QED
  BY AppInvInit, <1>1, <1>2, PTL DEF Spec

(* If Mir reports the end of the sessions first, the eight assertions of    *)
(* application.cpp that SureAssertionsHold names never fail, for any number *)
(* of clients, and updateState() never calls itself deeper than Application *)
(* unrolls it.                                                              *)
THEOREM AssertionsKept ==
  ASSUME SessionsStopFirst
  PROVE  Spec => []SureAssertionsHold
<1>1. AppInv /\ [Next]_vars => AppInv'
  BY AppInvNext
<1>2. AppInv => SureAssertionsHold
  <2> SUFFICES ASSUME AppInv PROVE SureAssertionsHold
    OBVIOUS
  <2>1. app.failed \subseteq Allowed
    BY DEF AppInv
  <2> QED
    BY <2>1 DEF SureAssertionsHold, Allowed, Harmless
<1> QED
  BY AppInvInit, <1>1, <1>2, PTL DEF Spec

(* The phases. *)
LEMMA PhaseIs ==
  ASSUME app.state \in InternalState
  PROVE  Phase = IF deleted THEN "Deleted" ELSE Ph(app.state)
BY DEF Phase, Ph, Waiting, InternalState, PublicState

(* Every step is one that PublicLifecycle allows, or none at all.           *)
LEMMA PromiseStep ==
  ASSUME AppInv, [Next]_vars
  PROVE  [Promise!Next]_<< Phase, app.closing >>
<1>1. AppInv' /\ Fine(app, app')
  BY AppInvNext, NextKept
<1>2. app.state \in InternalState /\ app'.state \in InternalState
  <2>1. app \in Sane /\ app' \in Sane
    BY <1>1 DEF AppInv, Fine, Whole, Held
  <2> QED
    BY <2>1, SessionTypesOf
<1>3. PICK a : a = app
  OBVIOUS
<1>4. PICK e : e = app'
  OBVIOUS
<1>5. PICK p : p = Ph(a.state)
  OBVIOUS
<1>6. PICK q : q = Ph(e.state)
  OBVIOUS
<1>7. Phase = IF deleted THEN "Deleted" ELSE p
  BY <1>2, <1>3, <1>5, PhaseIs
<1>8. Phase' = IF deleted' THEN "Deleted" ELSE q
  BY <1>2, <1>4, <1>6 DEF Phase, Ph, Waiting, InternalState, PublicState
<1>9. PICK c : c = a.closing
  OBVIOUS
<1>10. PICK d : d = e.closing
  OBVIOUS
<1>11. c \in BOOLEAN /\ d \in BOOLEAN /\ app.closing = c /\ app'.closing = d
  BY <1>1, <1>3, <1>4, <1>9, <1>10 DEF AppInv, Fine, Whole, Held, Sane, AppRecord
<1>12. \/ q = p /\ (c => d)
       \/ /\ p = "Starting" /\ q \in { "Running", "Suspended" }
          /\ (d => q = "Running") /\ (c => d)
       \/ p = "Running" /\ q = "Suspended" /\ ~ c /\ ~ d
       \/ p = "Suspended" /\ q = "Running" /\ (c => d)
       \/ p \in { "Running", "Suspended" } /\ q = "Resumable" /\ ~ c /\ ~ d
       \/ p \in { "Running", "Suspended", "Resumable" } /\ q = "Starting" /\ ~ c
       \/ p # "Gone" /\ q = "Gone" /\ (c => d)
  BY <1>1, <1>3, <1>4, <1>5, <1>6, <1>9, <1>10 DEF Fine, Mild, Promised
<1>13. p \in { "Starting", "Running", "Suspended", "Resumable", "Gone" }
  BY <1>2, <1>3, <1>5 DEF Ph
<1>14. \/ deleted' = deleted
       \/ ~ deleted /\ deleted' = TRUE /\ p = "Gone" /\ d = c
  <2>1. app.state = "Stopped" => p = "Gone"
    BY <1>3, <1>5 DEF Ph, Waiting
  <2> QED
    BY <1>3, <1>4, <1>9, <1>10, <2>1, DeletedStep
<1>15. CASE deleted' = deleted /\ (deleted \/ q = p) /\ (c => d)
  <2>1. Phase' = Phase
    BY <1>7, <1>8, <1>15
  <2>2. d = c \/ (~ c /\ d)
    BY <1>11, <1>15
  <2> QED
    BY <1>11, <2>1, <2>2 DEF Promise!Next, Promise!Doomed
<1>16. CASE deleted' = deleted /\ ~ deleted /\ q # p
  <2>1. Phase = p /\ Phase' = q
    BY <1>7, <1>8, <1>16
  <2> QED
    BY <1>11, <1>12, <1>13, <1>16, <2>1
    DEF Promise!Next, Promise!Started, Promise!Suspended, Promise!Resumed, Promise!Kept,
        Promise!Respawned, Promise!Stopped, Promise!Alive
<1>17. CASE ~ deleted /\ deleted' = TRUE /\ p = "Gone" /\ d = c
  <2>1. Phase = p /\ Phase' = "Deleted"
    BY <1>7, <1>8, <1>17
  <2> QED
    BY <1>11, <1>17, <2>1 DEF Promise!Next, Promise!Deleted
<1>18. c => d
  BY <1>1, <1>3, <1>4, <1>9, <1>10 DEF Fine, Mild
<1> QED
  BY <1>14, <1>15, <1>16, <1>17, <1>18

(* What an application does inside is to the shell the lifecycle that       *)
(* PublicLifecycle promises.                                                *)
THEOREM PromiseKept == Spec => KeepsPromise
<1>1. AppInv /\ [Next]_vars => AppInv' /\ [Promise!Next]_<< Phase, app.closing >>
  BY AppInvNext, PromiseStep
<1>2. Init => Promise!Init
  BY DEF Init, Promise!Init, Phase, PublicState
<1> QED
  BY AppInvInit, <1>1, <1>2, PTL DEF Spec, KeepsPromise, Promise!Spec

-----------------------------------------------------------------------------

(***************************************************************************)
(* The wakelock and the request of the shell. Both are about the end of a  *)
(* handler, and both need that one client is connected at a time. The      *)
(* wakelock is right wherever updateState() is called, too (Awake); the    *)
(* request is heeded by each call of updateState(), and what a handler     *)
(* does after its last call takes nothing back (Heeding).                  *)
(***************************************************************************)

-----------------------------------------------------------------------------
(* What updateState() makes right. *)

(* The wakelock is held in these.                                           *)
Awake(a) == a.wakelock <=> ~ Dash /\ a.state \in Busy

(* A suspend timer runs only while the application waits for its sessions.  *)
Pausing(a, st) ==
  \A s \in Sessions :
    a.session[s].attached /\ a.session[s].state = "Suspending" => st = "SuspendingWaitSession"

(* What holds between two calls inside one handler.                         *)
Alert(a) == a \in Sane /\ Awake(a) /\ Pausing(a, a.state)

(* An application to be kept suspended may run for this.                    *)
MayRun(a) ==
  \/ a.processState # "Running"
  \/ \E s \in Sessions : IsSingle(a, s) /\ HasClosingSurfaces(a, s)

(* An application that is not closing is where the shell wants it. One that *)
(* lost its surfaces need not be, unless it is to be respawned.             *)
Heeding(a) ==
  ~ a.closing =>
    /\ a.requested = "Running" => a.state # "StoppedResumable"
    /\ ~ LostAllSurfaces(a) =>
         /\ a.requested = "Running" =>
              a.state \notin { "RunningInBackground", "SuspendingWaitSession", "Suspended" }
         /\ a.requested = "Suspended" /\ a.state = "Running" => MayRun(a)

(* The same sessions, with the same clients and surfaces.                   *)
SamePeople(a, b) ==
  /\ SameSurfaces(a, b)
  /\ \A s \in Sessions : b.session[s].state = "Stopped" <=> a.session[s].state = "Stopped"

(* updateState() keeps the one, and sees to the other. *)
LEMMA UpdateAlert ==
  ASSUME NEW a, Alert(a), NEW b, b = Update[a]
  PROVE  Alert(b) /\ Heeding(b) /\ SamePeople(a, b)
<1>1. a \in Sane /\ Awake(a) /\ Pausing(a, a.state) /\ a.state \in InternalState
  BY SessionTypesOf DEF Alert
<1>2. b \in Sane /\ Outcome(a, b)
  BY <1>1, UpdateSettles
<1>3. /\ b.state = Settled(a) /\ (b.closing <=> IsClosing(a))
      /\ SameSurfaces(a, b) /\ SameOutside(a, b) /\ Asked(a, b)
      /\ b.wakelock <=> IF b.state = a.state THEN a.wakelock ELSE WakelockIn(b.state, a.wakelock)
  BY <1>2 DEF Outcome
<1>4. a.state # "Suspended" => b.processState = a.processState
  BY <1>2 DEF Outcome
<1>5. Awake(b)
  <2>1. CASE b.state = a.state
    BY <1>1, <1>3, <2>1 DEF Awake
  <2>2. CASE b.state # a.state
    <3>1. b.state # "SuspendingWaitProcess" /\ (b.state = "SuspendingWaitSession" => a.state = "Running")
      BY <1>1, <1>3, <2>2, SettledWhere DEF Moving, InternalState
    <3>2. b.wakelock <=> WakelockIn(b.state, a.wakelock)
      BY <1>3, <2>2
    <3>3. b.state \in InternalState
      BY <1>2, SessionTypesOf
    <3> QED
      BY <1>1, <3>1, <3>2, <3>3 DEF Awake, WakelockIn, Busy, AtWork, InternalState
  <2> QED
    BY <2>1, <2>2
<1>6. ASSUME NEW s \in Sessions, b.session[s].attached, b.session[s].state = "Suspending"
      PROVE  b.state = "SuspendingWaitSession"
  <2>1. a.session[s].attached
    BY <1>3, <1>6 DEF SameSurfaces
  <2>2. CASE a.session[s].state = "Suspending"
    <3>1. a.state = "SuspendingWaitSession"
      BY <1>1, <2>1, <2>2 DEF Pausing
    <3>2. Settled(a) = a.state
      <4>1. a.state \in Moving /\ a.state # "Running" /\ Settled(a) # "RunningInBackground"
        BY <1>1, <3>1, SettledWhere DEF Moving
      <4>2. Settled(a) # a.state => b.session[s].state = "Running"
        BY <1>3, <2>1, <2>2, <4>1, SMT DEF Asked
      <4> QED
        BY <1>6, <4>2
    <3> QED
      BY <1>3, <3>1, <3>2
  <2>3. CASE a.session[s].state # "Suspending"
    <3>1. /\ a.state = "Running" /\ Settled(a) # a.state
          /\ Settled(a) \notin { "RunningInBackground", "Closing" }
      BY <1>3, <1>6, <2>3, SMT DEF Asked, Moving
    <3> QED
      BY <1>1, <1>3, <3>1, SettledWhere
  <2> QED
    BY <2>2, <2>3
<1>7. SamePeople(a, b)
  BY <1>3, SMT DEF Asked, SamePeople
<1>8. Heeding(b)
  <2>1. /\ LostAllSurfaces(b) <=> LostAllSurfaces(a)
        /\ \A s \in Sessions : /\ IsSingle(b, s) <=> IsSingle(a, s)
                               /\ HasClosingSurfaces(b, s) <=> HasClosingSurfaces(a, s)
    BY <1>1, <1>2, <1>3, SameView
  <2>2. b.requested = a.requested
    BY <1>3 DEF SameOutside
  <2> SUFFICES ASSUME ~ IsClosing(a) PROVE Heeding(b)
    BY <1>3 DEF Heeding
  <2>3. a.requested = "Running" => WantsRunning(a)
    BY DEF WantsRunning
  <2>4. a.requested = "Running" => Settled(a) # "StoppedResumable"
    <3>1. a.requested = "Running" /\ a.state = "StoppedResumable" => Settled(a) = "Starting"
      BY <2>3 DEF Settled, Moving
    <3>2. a.state # "StoppedResumable" => Settled(a) # "StoppedResumable"
      BY <1>1, SettledWhere DEF Moving, InternalState
    <3> QED
      BY <3>1, <3>2
  <2>5. a.requested = "Running" /\ ~ LostAllSurfaces(a) =>
          Settled(a) \notin { "RunningInBackground", "SuspendingWaitSession", "Suspended" }
    BY <2>3 DEF Settled, Moving
  <2>6. ASSUME ~ LostAllSurfaces(a), a.requested = "Suspended", Settled(a) = "Running"
        PROVE  MayRun(b)
    <3>1. CASE WantsRunning(a)
      BY <2>1, <2>6, <3>1 DEF WantsRunning, MayRun
    <3>2. CASE ~ WantsRunning(a)
      <4>1. a.state = "Running" /\ a.processState # "Running"
        BY <2>6, <3>2 DEF Settled, Moving
      <4> QED
        BY <1>4, <4>1 DEF MayRun
    <3> QED
      BY <3>1, <3>2
  <2> QED
    BY <1>3, <2>1, <2>2, <2>4, <2>5, <2>6 DEF Heeding
<1> QED
  BY <1>2, <1>5, <1>6, <1>7, <1>8 DEF Alert, Pausing

(* What all of this depends on, but for the sessions. *)
SameCourse(a, b) ==
  /\ b.state = a.state /\ b.requested = a.requested /\ b.processState = a.processState
  /\ b.closing = a.closing /\ b.wakelock = a.wakelock

(* Nothing but the other fields was written.                                *)
LEMMA CourseKept ==
  ASSUME NEW a \in Sane, NEW b \in Sane, SameCourse(a, b), b.session = a.session
  PROVE  /\ Alert(a) => Alert(b)
         /\ Heeding(a) => Heeding(b)
         /\ SamePeople(a, b)
         /\ AllStopped(b) <=> AllStopped(a)
         /\ \A st : Pausing(b, st) <=> Pausing(a, st)
<1>1. SamePeople(a, b) /\ (AllStopped(b) <=> AllStopped(a)) /\ \A st : Pausing(b, st) <=> Pausing(a, st)
  BY DEF SamePeople, SameSurfaces, AllStopped, Pausing
<1>2. Alert(a) => Alert(b)
  BY <1>1 DEF Alert, Awake, SameCourse
<1>3. /\ LostAllSurfaces(b) <=> LostAllSurfaces(a)
      /\ \A s \in Sessions : /\ IsSingle(b, s) <=> IsSingle(a, s)
                             /\ HasClosingSurfaces(b, s) <=> HasClosingSurfaces(a, s)
  BY <1>1, SameView DEF SamePeople
<1>4. MayRun(a) => MayRun(b)
  BY <1>3 DEF MayRun, SameCourse
<1>5. Heeding(a) => Heeding(b)
  BY <1>3, <1>4 DEF Heeding, SameCourse
<1> QED
  BY <1>1, <1>2, <1>5

(* One after the other.                                                     *)
LEMMA PeopleOn ==
  ASSUME NEW a, NEW b, NEW c, SamePeople(a, b), SamePeople(b, c)
  PROVE  SamePeople(a, c)
BY DEF SamePeople, SameSurfaces

(* A failed assertion is none of this.                                      *)
LEMMA AssertCourse ==
  ASSUME NEW a \in Sane, NEW holds \in BOOLEAN, NEW name \in Assertion,
         NEW b, b = QAssert(a, holds, name)
  PROVE  b \in Sane /\ SameCourse(a, b) /\ b.session = a.session /\ b.process = a.process
<1>1. CASE holds
  BY <1>1, Zenon DEF QAssert, SameCourse
<1>2. CASE ~ holds
  <2>1. b = [ a EXCEPT !.failed = @ \cup { name } ]
    BY <1>2 DEF QAssert
  <2>2. b \in Sane /\ SameRest(a, b) /\ b.closing = a.closing
    BY <2>1, AssertFails
  <2> QED
    BY <2>2 DEF SameRest, SameOutside, SameCourse
<1> QED
  BY <1>1, <1>2

(* Nor is a signal to the process.                                          *)
LEMMA StopCourse ==
  ASSUME NEW a \in Sane, NEW b, b = TaskStop(a)
  PROVE  b \in Sane /\ SameCourse(a, b) /\ b.session = a.session /\ b.process = a.process
<1>1. PICK c : c = (a.stopAsked \/ a.process # "dead")
  OBVIOUS
<1>2. b = [ a EXCEPT !.stopAsked = c ]
  BY <1>1 DEF TaskStop
<1>3. b \in Sane
  BY TaskSane
<1> QED
  BY <1>2, <1>3, Zenon DEF Sane, AppRecord, SameCourse

(* Nor is a process that is stopped.                                        *)
LEMMA SuspendCourse ==
  ASSUME NEW a \in Sane, a.state \in FrozenStates, NEW b, b = TaskSuspend(a)
  PROVE  b \in Sane /\ SameCourse(a, b) /\ b.session = a.session
<1>1. b \in Sane
  BY TaskSuspendSane
<1>2. CASE a.launch = "job" /\ a.process = "alive"
  <2>1. PICK q, p : q = Append(a.notices, "Suspended") /\ p = "frozen"
    OBVIOUS
  <2>2. b = [ a EXCEPT !.process = p, !.notices = q ]
    BY <1>2, <2>1 DEF TaskSuspend
  <2> QED
    BY <1>1, <2>2, Zenon DEF Sane, AppRecord, SameCourse
<1>3. CASE ~ (a.launch = "job" /\ a.process = "alive")
  BY <1>3, Zenon DEF TaskSuspend, SameCourse
<1> QED
  BY <1>1, <1>2, <1>3

(* Only in one state can a suspend timer run.                               *)
LEMMA NoPause ==
  ASSUME NEW a, Alert(a), a.state # "SuspendingWaitSession"
  PROVE  \A st : Pausing(a, st)
BY DEF Alert, Pausing

(* setInternalState(): where updateState() is called, all of it is true.    *)
LEMMA SetAlert ==
  ASSUME NEW a, Alert(a), NEW st \in InternalState, a.process = "frozen" => st \in FrozenStates,
         Pausing(a, st),
         st \in { "SuspendingWaitSession", "SuspendingWaitProcess" } => a.state \in Busy,
         NEW e, e = SetInternalState(a, st, Update)
  PROVE  /\ Alert(e) /\ SamePeople(a, e)
         /\ a.state # st \/ Heeding(a) => Heeding(e)
<1>1. CASE a.state = st
  <2>1. e = a
    BY <1>1 DEF SetInternalState
  <2> QED
    BY <1>1, <2>1 DEF SamePeople, SameSurfaces
<1>2. CASE a.state # st
  <2>1. PICK b : b = Enter(a, st)
    OBVIOUS
  <2>2. b \in Sane /\ Entered(a, st, b)
    BY <2>1, EnterSet DEF Alert
  <2>3. e = Update[b]
    BY <1>2, <2>1 DEF SetInternalState
  <2>4. SamePeople(a, b) /\ Pausing(b, b.state)
    BY <2>2 DEF Entered, SamePeople, SameSurfaces, Pausing
  <2>5. Awake(b)
    <3>1. b.state = st /\ b.wakelock = WakelockIn(st, a.wakelock)
      BY <2>2 DEF Entered
    <3>2. b.wakelock \in BOOLEAN
      BY <2>2, SessionTypesOf
    <3> QED
      BY <3>1, <3>2, DashAssumption DEF Alert, Awake, WakelockIn, Busy, AtWork, InternalState
  <2>6. Alert(e) /\ Heeding(e) /\ SamePeople(b, e)
    BY <2>2, <2>3, <2>4, <2>5, UpdateAlert DEF Alert
  <2> QED
    BY <2>4, <2>6, PeopleOn
<1> QED
  BY <1>1, <1>2

(* Nothing but the state of the process was written.                        *)
LEMMA ProcessWritten ==
  ASSUME NEW a, Alert(a), NEW ps \in ProcessState, NEW b, b = NewProcessState(a, ps)
  PROVE  Alert(b) /\ SamePeople(a, b) /\ b.state = a.state /\ b.process = a.process
<1>1. b = [ a EXCEPT !.processState = ps ]
  BY DEF NewProcessState
<1>2. /\ b \in Sane /\ b.state = a.state /\ b.wakelock = a.wakelock /\ b.session = a.session
      /\ b.process = a.process
  BY <1>1, ProcessStateSet DEF Alert
<1> QED
  BY <1>2 DEF Alert, Awake, Pausing, SamePeople, SameSurfaces

(* setProcessState(). *)
LEMMA ProcessStateAlert ==
  ASSUME NEW a, Alert(a), NEW p \in ProcessState \ { "Unknown" },
         p = "Suspended" => a.state # "SuspendingWaitSession",
         NEW e, e = SetProcessState(a, p, Update)
  PROVE  Alert(e) /\ SamePeople(a, e) /\ (Heeding(a) => Heeding(e))
<1>1. CASE a.processState = p
  <2>1. e = a
    BY <1>1 DEF SetProcessState
  <2> QED
    BY <2>1 DEF SamePeople, SameSurfaces
<1>2. CASE a.processState # p
  <2>1. PICK b : b = NewProcessState(a, p)
    OBVIOUS
  <2>2. Alert(b) /\ SamePeople(a, b) /\ b.state = a.state /\ b.process = a.process
    BY <2>1, ProcessWritten
  <2>3. PICK c : c = ProcessSwitch(b, p, Update)
    OBVIOUS
  <2>4. e = Update[c]
    BY <1>2, <2>1, <2>3 DEF SetProcessState, NewProcessState
  <2>5. ASSUME NEW holds \in BOOLEAN, NEW name \in Assertion
        PROVE  Alert(QAssert(b, holds, name)) /\ SamePeople(b, QAssert(b, holds, name))
    <3>1. PICK d : d = QAssert(b, holds, name)
      OBVIOUS
    <3>2. d \in Sane /\ SameCourse(b, d) /\ d.session = b.session
      BY <2>2, <3>1, AssertCourse DEF Alert
    <3> QED
      BY <2>2, <3>1, <3>2, CourseKept DEF Alert
  <2>6. ASSUME NEW d, Alert(d), SamePeople(b, d), d.state = b.state,
               NEW st \in { "Starting", "Suspended", "Stopped" },
               st = "Starting" => d.state = "StoppedResumable",
               st = "Suspended" => d.state # "SuspendingWaitSession",
               st = "Stopped" => d.state \in { "Starting", "StoppedResumable", "Closing" }
        PROVE  /\ Alert(SetInternalState(d, st, Update))
               /\ SamePeople(b, SetInternalState(d, st, Update))
    <3>1. st \in InternalState /\ (d.process = "frozen" => st \in FrozenStates)
      <4>1. d.process = "frozen" => d.state \in FrozenStates
        BY <2>6, SessionTypesOf DEF Alert
      <4> QED
        BY <2>6, <4>1 DEF InternalState, FrozenStates
    <3>2. Pausing(d, st)
      BY <2>6, NoPause
    <3> QED
      BY <2>6, <3>1, <3>2, SetAlert, PeopleOn
  <2>7. Alert(c) /\ SamePeople(b, c)
    <3>1. CASE p = "Running"
      <4>1. c = IF b.state = "StoppedResumable" THEN SetInternalState(b, "Starting", Update) ELSE b
        BY <2>3, <3>1 DEF ProcessSwitch
      <4>2. SamePeople(b, b)
        BY DEF SamePeople, SameSurfaces
      <4> QED
        BY <2>2, <2>6, <4>1, <4>2
    <3>2. CASE p = "Suspended"
      <4>0. PICK h \in BOOLEAN, name \in Assertion :
              h = (b.state = "SuspendingWaitProcess") /\ name = "suspended not awaited"
        BY DEF Assertion
      <4>1. PICK d : d = QAssert(b, h, name)
        OBVIOUS
      <4>2. Alert(d) /\ SamePeople(b, d)
        BY <2>5, <4>1
      <4>3. d.state = b.state
        BY <2>2, <4>1, AssertCourse DEF Alert, SameCourse
      <4>4. c = SetInternalState(d, "Suspended", Update)
        BY <2>3, <3>2, <4>0, <4>1 DEF ProcessSwitch
      <4> QED
        BY <2>2, <2>6, <3>2, <4>2, <4>3, <4>4
    <3>3. ASSUME NEW name \in Assertion, NEW other \in Assertion,
                 NEW from \in SUBSET { "Starting", "StoppedResumable", "Closing" }, NEW h,
                 NEW d, d = QAssert(b, SessionsStopped(b), name), h \in BOOLEAN,
                 c = IF d.state \in from THEN SetInternalState(d, "Stopped", Update)
                     ELSE QAssert(d, h, other)
          PROVE  Alert(c) /\ SamePeople(b, c)
      <4>1. SessionsStopped(b) \in BOOLEAN
        BY DEF SessionsStopped
      <4>2. Alert(d) /\ SamePeople(b, d)
        BY <2>5, <3>3, <4>1
      <4>3. d.state = b.state
        BY <2>2, <3>3, <4>1, AssertCourse DEF Alert, SameCourse
      <4>4. CASE d.state \in from
        <5>1. c = SetInternalState(d, "Stopped", Update)
          BY <3>3, <4>4
        <5>2. d.state \in { "Starting", "StoppedResumable", "Closing" }
          BY <4>4
        <5> QED
          BY <2>6, <4>2, <4>3, <5>1, <5>2
      <4>5. CASE d.state \notin from
        <5>1. c = QAssert(d, h, other)
          BY <3>3, <4>5
        <5>2. c \in Sane /\ SameCourse(d, c) /\ c.session = d.session
          BY <3>3, <4>2, <5>1, AssertCourse DEF Alert
        <5>3. Alert(c) /\ SamePeople(d, c)
          BY <4>2, <5>2, CourseKept DEF Alert
        <5> QED
          BY <4>2, <5>3, PeopleOn
      <4> QED
        BY <4>4, <4>5
    <3>4. CASE p = "Failed"
      <4>1. PICK d : d = QAssert(b, SessionsStopped(b), "failed before its sessions")
        OBVIOUS
      <4>0. "failed before its sessions" \in Assertion /\ "failed in that state" \in Assertion
        BY DEF Assertion
      <4>2. PICK h \in BOOLEAN : h <=> d.state \in { "Stopped", "StoppedResumable" }
        OBVIOUS
      <4>3. c = IF d.state \in { "Starting" } THEN SetInternalState(d, "Stopped", Update)
                ELSE QAssert(d, h, "failed in that state")
        BY <2>3, <3>4, <4>1, <4>2 DEF ProcessSwitch
      <4> QED
        BY <3>3, <4>0, <4>1, <4>2, <4>3
    <3>5. CASE p = "Stopped"
      <4>1. PICK d : d = QAssert(b, SessionsStopped(b), "stopped before its sessions")
        OBVIOUS
      <4>0. "stopped before its sessions" \in Assertion /\ "stopped in that state" \in Assertion
        BY DEF Assertion
      <4>2. PICK h \in BOOLEAN : h = (d.state = "Stopped")
        OBVIOUS
      <4>3. c = IF d.state \in { "Starting", "StoppedResumable", "Closing" }
                THEN SetInternalState(d, "Stopped", Update)
                ELSE QAssert(d, h, "stopped in that state")
        BY <2>3, <3>5, <4>1, <4>2 DEF ProcessSwitch
      <4>4. PICK from \in SUBSET { "Starting", "StoppedResumable", "Closing" } :
              from = { "Starting", "StoppedResumable", "Closing" }
        OBVIOUS
      <4>5. c = IF d.state \in from THEN SetInternalState(d, "Stopped", Update)
                ELSE QAssert(d, h, "stopped in that state")
        BY <4>3, <4>4, Zenon
      <4> QED
        BY <3>3, <4>0, <4>1, <4>2, <4>5
    <3> QED
      BY <3>1, <3>2, <3>4, <3>5 DEF ProcessState
  <2>8. Alert(e) /\ Heeding(e) /\ SamePeople(c, e)
    BY <2>4, <2>7, UpdateAlert
  <2> QED
    BY <2>2, <2>7, <2>8, PeopleOn
<1> QED
  BY <1>1, <1>2

(* stop(). *)
LEMMA StopAlert ==
  ASSUME NEW a, Alert(a), NEW e, e = Stop(a)
  PROVE  Alert(e) /\ SamePeople(a, e) /\ (Heeding(a) => Heeding(e))
<1>1. PICK b : b = TaskStop(a)
  OBVIOUS
<1>2. Alert(b) /\ SamePeople(a, b) /\ (Heeding(a) => Heeding(b))
  <2>1. b \in Sane /\ SameCourse(a, b) /\ b.session = a.session
    BY <1>1, StopCourse DEF Alert
  <2> QED
    BY <2>1, CourseKept DEF Alert
<1>3. CASE a.launch = "job"
  BY <1>1, <1>2, <1>3 DEF Stop
<1>4. CASE a.launch = "byHand"
  <2>1. e = a
    BY <1>4 DEF Stop
  <2> QED
    BY <2>1 DEF SamePeople, SameSurfaces
<1>5. CASE a.launch = "unknown"
  <2>1. e = SetProcessState(b, "Stopped", Update)
    BY <1>1, <1>5 DEF Stop
  <2>2. Alert(e) /\ SamePeople(b, e) /\ (Heeding(b) => Heeding(e))
    BY <1>2, <2>1, ProcessStateAlert DEF ProcessState
  <2> QED
    BY <1>2, <2>2, PeopleOn
<1> QED
  BY <1>3, <1>4, <1>5 DEF Alert, Sane, AppRecord

(* onSessionStopped(). *)
LEMMA SessionStoppedAlert ==
  ASSUME NEW a, Alert(a), AllStopped(a), a.process # "frozen", NEW e, e = OnSessionStopped(a)
  PROVE  Alert(e) /\ SamePeople(a, e) /\ (Heeding(a) => Heeding(e))
<1>1. ASSUME NEW d, Alert(d), SamePeople(a, d), Heeding(a) => Heeding(d),
             NEW st \in { "Stopped", "StoppedResumable" },
             st = "Stopped" \/ d.process # "frozen",
             e = SetInternalState(d, st, Update)
      PROVE  Alert(e) /\ SamePeople(a, e) /\ (Heeding(a) => Heeding(e))
  <2>1. Pausing(d, st)
    BY <1>1 DEF AllStopped, SamePeople, SameSurfaces, Pausing
  <2>2. st \in InternalState /\ (d.process = "frozen" => st \in FrozenStates)
    BY <1>1 DEF InternalState, FrozenStates
  <2>3. Alert(e) /\ SamePeople(d, e) /\ (Heeding(d) => Heeding(e))
    BY <1>1, <2>1, <2>2, SetAlert
  <2> QED
    BY <1>1, <2>3, PeopleOn
<1>2. SamePeople(a, a)
  BY DEF SamePeople, SameSurfaces
<1>3. PICK d : d = Stop(a)
  OBVIOUS
<1>4. Alert(d) /\ SamePeople(a, d) /\ (Heeding(a) => Heeding(d))
  BY <1>3, StopAlert
<1>5. \/ e = a
      \/ \E st \in { "Stopped", "StoppedResumable" } : e = SetInternalState(a, st, Update)
      \/ e = SetInternalState(d, "Stopped", Update)
  BY <1>3 DEF OnSessionStopped
<1>6. CASE e = a
  BY <1>2, <1>6
<1>7. CASE \E st \in { "Stopped", "StoppedResumable" } : e = SetInternalState(a, st, Update)
  BY <1>1, <1>2, <1>7
<1>8. CASE e = SetInternalState(d, "Stopped", Update)
  BY <1>1, <1>4, <1>8
<1> QED
  BY <1>5, <1>6, <1>7, <1>8

(* onSessionStateChanged(): the process is stopped only by an application   *)
(* that holds the wakelock until then.                                      *)
LEMMA SessionChangedAlert ==
  ASSUME NEW a, Alert(a), CombinedIs(a, "Suspended") => a.state \in Busy,
         CombinedIs(a, "Stopped") => a.process # "frozen",
         NEW e, e = OnSessionStateChanged(a)
  PROVE  Alert(e) /\ SamePeople(a, e) /\ (Heeding(a) => Heeding(e))
<1>0. a \in Sane /\ SamePeople(a, a)
  BY DEF Alert, SamePeople, SameSurfaces
<1>1. CASE e = a
  BY <1>0, <1>1
<1>2. CASE a.state = "Starting" /\ e = SetInternalState(a, "Running", Update)
  <2>1. a.process # "frozen"
    BY <1>0, <1>2, SessionTypesOf DEF FrozenStates
  <2>2. Pausing(a, "Running")
    BY <1>2, NoPause
  <2> QED
    BY <1>2, <2>1, <2>2, SetAlert DEF InternalState
<1>3. CASE CombinedIs(a, "Stopped") /\ e = OnSessionStopped(a)
  BY <1>0, <1>3, Combined, SessionStoppedAlert
<1>8. PICK h \in BOOLEAN, name \in Assertion :
        h = (a.state = "SuspendingWaitSession") /\ name = "session not awaited"
  BY DEF Assertion
<1>4. PICK b : b = QAssert(a, h, name)
  OBVIOUS
<1>5. PICK c : c = SetInternalState(b, "SuspendingWaitProcess", Update)
  OBVIOUS
<1>6. CASE CombinedIs(a, "Suspended") /\ e = TaskSuspend(c)
  <2>1. b \in Sane /\ SameCourse(a, b) /\ b.session = a.session
    BY <1>0, <1>4, AssertCourse
  <2>2. Alert(b) /\ SamePeople(a, b) /\ (Heeding(a) => Heeding(b))
    BY <1>0, <2>1, CourseKept
  <2>3. Pausing(b, "SuspendingWaitProcess")
    BY <1>0, <1>6, <2>1, Combined DEF Pausing
  <2>4. Alert(c) /\ SamePeople(b, c) /\ (Heeding(b) => Heeding(c))
    <3>1. b.state \in Busy
      BY <1>6, <2>1 DEF SameCourse
    <3> QED
      BY <1>5, <2>2, <2>3, <3>1, SetAlert DEF InternalState, FrozenStates
  <2>5. c.state = "SuspendingWaitProcess"
    <3>1. CASE b.state = "SuspendingWaitProcess"
      BY <1>5, <3>1 DEF SetInternalState
    <3>2. CASE b.state # "SuspendingWaitProcess"
      <4>1. PICK d : d = Enter(b, "SuspendingWaitProcess")
        OBVIOUS
      <4>2. d \in Sane /\ Entered(b, "SuspendingWaitProcess", d)
        BY <2>1, <4>1, EnterSet DEF InternalState, FrozenStates
      <4> QED
        BY <1>5, <3>2, <4>1, <4>2, UpdateWaits DEF Entered, SetInternalState
    <3> QED
      BY <3>1, <3>2
  <2>6. e \in Sane /\ SameCourse(c, e) /\ e.session = c.session
    BY <1>6, <2>4, <2>5, SuspendCourse DEF Alert, FrozenStates
  <2>7. Alert(e) /\ SamePeople(c, e) /\ (Heeding(c) => Heeding(e))
    BY <2>4, <2>6, CourseKept DEF Alert
  <2>8. SamePeople(a, c)
    BY <2>2, <2>4, PeopleOn
  <2> QED
    BY <2>2, <2>4, <2>7, <2>8, PeopleOn
<1>7. \/ e = a
      \/ a.state = "Starting" /\ e = SetInternalState(a, "Running", Update)
      \/ CombinedIs(a, "Suspended") /\ e = TaskSuspend(c)
      \/ CombinedIs(a, "Stopped") /\ e = OnSessionStopped(a)
  <2>1. \/ e = a
        \/ a.state = "Starting" /\ e = SetInternalState(a, "Running", Update)
        \/ /\ CombinedIs(a, "Suspended")
           /\ e = TaskSuspend(SetInternalState(
                     QAssert(a, a.state = "SuspendingWaitSession", "session not awaited"),
                     "SuspendingWaitProcess", Update))
        \/ CombinedIs(a, "Stopped") /\ e = OnSessionStopped(a)
    <3>1. CombinedIs(a, "Running") => ~ CombinedIs(a, "Suspended") /\ ~ CombinedIs(a, "Stopped")
      BY <1>0, Combined DEF AllStopped
    <3>2. CombinedIs(a, "Suspended") => ~ CombinedIs(a, "Stopped")
      BY <1>0, Combined DEF AllStopped
    <3> QED
      BY <3>1, <3>2 DEF OnSessionStateChanged
  <2> QED
    BY <1>4, <1>5, <1>8, <2>1
<1> QED
  BY <1>1, <1>2, <1>3, <1>6, <1>7

-----------------------------------------------------------------------------
(* The same of the handlers. *)

(* No client is new. *)
NoneNew(a, b) ==
  \A s \in Sessions : b.session[s].attached /\ b.session[s].live
                        => a.session[s].attached /\ a.session[s].live

(* A handler that began with a left it as it has to.                        *)
Answered(a, e) == Alert(e) /\ Heeding(e) /\ NoneNew(a, e)

(* What updateState() sees of the sessions is the same.                     *)
LooksSame(a, b) ==
  \A s \in Sessions :
    /\ b.session[s].attached = a.session[s].attached
    /\ b.session[s].list = {} <=> a.session[s].list = {}
    /\ b.session[s].closing = {} <=> a.session[s].closing = {}
    /\ b.session[s].hadSurface = a.session[s].hadSurface \/ a.session[s].list # {}

(* The same sessions have the same clients.                                 *)
LEMMA PeopleNoneNew ==
  ASSUME NEW a, NEW b, SamePeople(a, b)
  PROVE  NoneNew(a, b)
BY DEF SamePeople, SameSurfaces, NoneNew

(* Surfaces may be moved about before updateState() is called.              *)
LEMMA EditedAlert ==
  ASSUME NEW a, Alert(a), NEW b \in Sane, Beside(a, b),
         \A t \in Sessions : /\ b.session[t].attached = a.session[t].attached
                             /\ b.session[t].state = "Suspending" => a.session[t].state = "Suspending"
  PROVE  Alert(b)
<1>1. b.state = a.state /\ b.wakelock = a.wakelock
  BY DEF Beside
<1> QED
  BY <1>1 DEF Alert, Awake, Pausing

(* It need not be called if it would not see that.                          *)
LEMMA EditedHeeding ==
  ASSUME NEW a, Heeding(a), NEW b, Beside(a, b), LooksSame(a, b)
  PROVE  Heeding(b)
<1>1. /\ b.state = a.state /\ b.requested = a.requested /\ b.closing = a.closing
      /\ b.processState = a.processState
  BY DEF Beside
<1>2. Attached(b) = Attached(a)
  BY DEF Attached, LooksSame
<1>3. \A s \in Sessions : /\ IsSingle(b, s) <=> IsSingle(a, s)
                          /\ ListEmpty(b, s) <=> ListEmpty(a, s)
                          /\ HasClosingSurfaces(b, s) <=> HasClosingSurfaces(a, s)
                          /\ ListEmpty(a, s) => b.session[s].hadSurface = a.session[s].hadSurface
  BY <1>2 DEF IsSingle, ListEmpty, HasClosingSurfaces, LooksSame
<1>4. LostAllSurfaces(b) <=> LostAllSurfaces(a)
  BY <1>3 DEF LostAllSurfaces
<1>5. MayRun(b) <=> MayRun(a)
  BY <1>1, <1>3 DEF MayRun
<1> QED
  BY <1>1, <1>4, <1>5 DEF Heeding

(* updateState() answers.                                                   *)
LEMMA UpdateAnswers ==
  ASSUME NEW a, NEW x, Alert(x), NoneNew(a, x), NEW e, e = UpdateState(x)
  PROVE  Answered(a, e) /\ SamePeople(x, e)
<1>1. Alert(e) /\ Heeding(e) /\ SamePeople(x, e)
  BY UpdateAlert DEF UpdateState
<1>2. NoneNew(x, e)
  BY <1>1, PeopleNoneNew
<1> QED
  BY <1>1, <1>2 DEF Answered, NoneNew

(* An edit is no answer, but does no harm.                                  *)
LEMMA EditAlert ==
  ASSUME NEW a, NEW x, Alert(x), NoneNew(a, x), NEW y \in Sane, Edited(x, y)
  PROVE  Alert(y) /\ NoneNew(a, y)
<1>1. Alert(y)
  BY EditedAlert DEF Edited
<1>2. NoneNew(x, y)
  BY DEF Edited, NoneNew
<1> QED
  BY <1>1, <1>2 DEF NoneNew

(* The flags that nothing here looks at.                                    *)
LEMMA FlagCourse ==
  ASSUME NEW a \in Sane, NEW b,
         \/ \E v \in BOOLEAN : b = [ a EXCEPT !.exempt = v ]
         \/ \E v \in BOOLEAN : b = [ a EXCEPT !.stopTimer = v ]
         \/ b = [ a EXCEPT !.failed = {} ]
  PROVE  b \in Sane /\ SameCourse(a, b) /\ b.session = a.session /\ b.process = a.process
<1>1. ASSUME NEW v \in BOOLEAN, b = [ a EXCEPT !.exempt = v ]
      PROVE  SameCourse(a, b) /\ b.session = a.session /\ b.process = a.process
  BY <1>1, Zenon DEF Sane, AppRecord, SameCourse
<1>2. ASSUME NEW v \in BOOLEAN, b = [ a EXCEPT !.stopTimer = v ]
      PROVE  /\ b \in Sane /\ SameCourse(a, b) /\ b.session = a.session /\ b.process = a.process
  <2>1. SameCourse(a, b) /\ b.session = a.session /\ b.process = a.process
    BY <1>2, Zenon DEF Sane, AppRecord, SameCourse
  <2> QED
    BY <1>2, <2>1, TimerSet
<1>3. ASSUME b = [ a EXCEPT !.failed = {} ]
      PROVE  SameCourse(a, b) /\ b.session = a.session /\ b.process = a.process
  <2>1. {} \in SUBSET Assertion
    OBVIOUS
  <2> QED
    BY <1>3, <2>1, Zenon DEF Sane, AppRecord, SameCourse
<1> QED
  BY <1>1, <1>2, <1>3, FlagsAlike

(* Writing one of them answers, too.                                        *)
LEMMA FlagAnswers ==
  ASSUME NEW a, Alert(a), Heeding(a), NEW e,
         \/ \E v \in BOOLEAN : e = [ a EXCEPT !.exempt = v ]
         \/ \E v \in BOOLEAN : e = [ a EXCEPT !.stopTimer = v ]
         \/ e = [ a EXCEPT !.failed = {} ]
  PROVE  Answered(a, e)
<1>1. e \in Sane /\ SameCourse(a, e) /\ e.session = a.session
  BY FlagCourse DEF Alert
<1> QED
  BY <1>1, CourseKept, PeopleNoneNew DEF Alert, Answered

(* setRequestedState(). *)
LEMMA RequestAnswered ==
  ASSUME NEW a, Alert(a), NEW v \in RequestedState,
         NEW e, e = UpdateState([ a EXCEPT !.requested = v ])
  PROVE  Answered(a, e)
<1>1. PICK b : b = [ a EXCEPT !.requested = v ]
  OBVIOUS
<1>2. b \in Sane
  BY <1>1, FlagsAlike DEF Alert
<1>3. b.state = a.state /\ b.wakelock = a.wakelock /\ b.session = a.session
  <2>1. a \in Sane
    BY DEF Alert
  <2> QED
    BY <1>1, <2>1, Zenon DEF Sane, AppRecord
<1>4. Alert(b) /\ NoneNew(a, b)
  BY <1>2, <1>3 DEF Alert, Awake, Pausing, NoneNew
<1> QED
  BY <1>1, <1>4, UpdateAnswers

(* SurfaceCloseOverdue. *)
LEMMA TaskStopAnswered ==
  ASSUME NEW a, Alert(a), Heeding(a), NEW e, e = TaskStop(a)
  PROVE  Answered(a, e)
<1>1. e \in Sane /\ SameCourse(a, e) /\ e.session = a.session
  BY StopCourse DEF Alert
<1> QED
  BY <1>1, CourseKept, PeopleNoneNew DEF Alert, Answered

(* The timeout of m_stopTimer. *)
LEMMA StopTimeoutAnswered ==
  ASSUME NEW a, Alert(a), Heeding(a), NEW e, e = Stop([ a EXCEPT !.stopTimer = FALSE ])
  PROVE  Answered(a, e)
<1>1. PICK v \in BOOLEAN : v = FALSE
  OBVIOUS
<1>2. PICK b : b = [ a EXCEPT !.stopTimer = v ]
  OBVIOUS
<1>3. Answered(a, b)
  BY <1>2, FlagAnswers
<1>4. e = Stop(b)
  BY <1>1, <1>2
<1>5. Alert(e) /\ SamePeople(b, e) /\ Heeding(e)
  BY <1>3, <1>4, StopAlert DEF Answered
<1>6. NoneNew(b, e)
  BY <1>5, PeopleNoneNew
<1> QED
  BY <1>3, <1>5, <1>6 DEF Answered, NoneNew

(* close() of a running application. *)
LEMMA CloseListedAnswered ==
  ASSUME NEW a, Alert(a), Heeding(a), NEW S \in SUBSET Sessions, NEW e, e = CloseListed(a, S)
  PROVE  Answered(a, e)
<1>0. a \in Sane /\ NoneNew(a, a)
  BY DEF Alert, NoneNew
<1>1. PICK H \in SUBSET Sessions : H = HasList(a, S)
  BY DEF HasList
<1>2. CASE H = {}
  BY <1>0, <1>1, <1>2, CloseNothing DEF Answered
<1>3. CASE H # {}
  <2>1. PICK m : m = MarkAll(a, H)
    OBVIOUS
  <2>2. PICK g : g = [ s \in Sessions |-> IF s \in H THEN MarkedSession(a.session[s]) ELSE a.session[s] ]
    OBVIOUS
  <2>3. \A s \in Sessions :
          /\ g[s] \in SaneSession
          /\ g[s].attached = a.session[s].attached /\ g[s].state = a.session[s].state
          /\ g[s].live = a.session[s].live
    BY <1>0, <2>2, SessionTypes, MarkedIs
  <2>4. g \in [ Sessions -> SaneSession ]
    BY <2>2, <2>3
  <2>5. m = WithSessions(a, g)
    BY <2>1, <2>2 DEF MarkAll, WithSessions
  <2>6. m \in Sane /\ m.session = g /\ Beside(a, m)
    BY <1>0, <2>4, <2>5, WithSessionsSet
  <2>7. Alert(m) /\ NoneNew(a, m)
    <3>1. Edited(a, m)
      BY <2>3, <2>6 DEF Edited
    <3> QED
      BY <1>0, <2>6, <3>1, EditAlert
  <2>8. PICK h : h = Heeded(a, H, m)
    OBVIOUS
  <2>9. Alert(h) /\ NoneNew(a, h)
    <3>1. CASE \E s \in H : ~ HasClosingSurfaces(a, s)
      BY <2>7, <2>8, <3>1, UpdateAnswers DEF Heeded, Answered
    <3>2. CASE ~ \E s \in H : ~ HasClosingSurfaces(a, s)
      BY <2>7, <2>8, <3>2 DEF Heeded
    <3> QED
      BY <3>1, <3>2
  <2>10. h \in Sane
    BY <2>9 DEF Alert
  <2>11. PICK x : x = ClearAll(h, H)
    OBVIOUS
  <2>12. PICK k : k = [ s \in Sessions |-> IF s \in H THEN ClearedSession(h.session[s]) ELSE h.session[s] ]
    OBVIOUS
  <2>13. \A s \in Sessions :
          /\ k[s] \in SaneSession
          /\ k[s].attached = h.session[s].attached /\ k[s].state = h.session[s].state
          /\ k[s].live = h.session[s].live
    BY <2>10, <2>12, SessionTypes, ClearedIs
  <2>14. k \in [ Sessions -> SaneSession ]
    BY <2>12, <2>13
  <2>15. x = WithSessions(h, k)
    BY <2>11, <2>12 DEF ClearAll, WithSessions
  <2>16. x \in Sane /\ x.session = k /\ Beside(h, x)
    BY <2>10, <2>14, <2>15, WithSessionsSet
  <2>17. Alert(x) /\ NoneNew(a, x)
    <3>1. Edited(h, x)
      BY <2>13, <2>16 DEF Edited
    <3> QED
      BY <2>9, <2>16, <3>1, EditAlert
  <2>18. e = UpdateState(x)
    BY <1>1, <1>3, <2>1, <2>8, <2>11, CloseListedIs
  <2> QED
    BY <2>17, <2>18, UpdateAnswers
<1> QED
  BY <1>2, <1>3

(* Application::close(). *)
LEMMA CloseAnswered ==
  ASSUME NEW a, Whole(a), Alert(a), Heeding(a), NEW e, e = Close(a)
  PROVE  Answered(a, e)
<1>0. a \in Sane /\ a.state \in InternalState /\ NoneNew(a, a) /\ SamePeople(a, a)
  BY SessionTypesOf DEF Alert, NoneNew, SamePeople, SameSurfaces
<1>1. ASSUME NEW x, Alert(x), Heeding(x), SamePeople(a, x), x.state # "SuspendingWaitSession",
             e = SetInternalState(x, "Stopped", Update)
      PROVE  Answered(a, e)
  <2>1. Pausing(x, "Stopped")
    BY <1>1, NoPause
  <2>2. Alert(e) /\ SamePeople(x, e) /\ Heeding(e)
    BY <1>1, <2>1, SetAlert DEF InternalState, FrozenStates
  <2>3. NoneNew(a, e)
    BY <1>1, <2>2, PeopleOn, PeopleNoneNew
  <2> QED
    BY <2>2, <2>3 DEF Answered
<1>2. CASE a.state = "Starting"
  <2>1. PICK x : x = Stop(a)
    OBVIOUS
  <2>2. Alert(x) /\ SamePeople(a, x) /\ Heeding(x)
    BY <2>1, StopAlert
  <2>3. e = SetInternalState(x, "Stopped", Update)
    BY <1>2, <2>1 DEF Close
  <2>4. x.state \in { "Starting", "Stopped" }
    BY <1>2, <2>1, StopHeld DEF Whole
  <2> QED
    BY <1>1, <2>2, <2>3, <2>4
<1>3. CASE a.state = "StoppedResumable"
  <2>1. e = SetInternalState(a, "Stopped", Update)
    BY <1>3 DEF Close
  <2> QED
    BY <1>0, <1>1, <1>3, <2>1
<1>4. CASE a.state \in { "Closing", "Stopped" }
  <2>1. e = a
    BY <1>4 DEF Close
  <2> QED
    BY <1>0, <2>1 DEF Answered
<1>5. CASE a.state \in { "Running", "RunningInBackground", "SuspendingWaitSession",
                         "SuspendingWaitProcess", "Suspended" }
  <2>1. PICK S \in SUBSET Sessions : S = { s \in Attached(a) : a.session[s].state # "Stopped" }
    BY DEF Attached
  <2>2. e = CloseListed(a, S)
    BY <1>5, <2>1 DEF Close
  <2> QED
    BY <2>2, CloseListedAnswered
<1> QED
  BY <1>0, <1>2, <1>3, <1>4, <1>5 DEF InternalState

(* A session was written in a way that updateState() need not see.          *)
LEMMA QuietEdit ==
  ASSUME NEW a, NEW x, Answered(a, x), NEW s \in Sessions, NEW r, NEW y \in Sane, Put(x, s, r, y),
         r.attached = x.session[s].attached, r.live => x.session[s].live,
         r.state = "Suspending" => x.session[s].state = "Suspending",
         r.list = {} <=> x.session[s].list = {}, r.closing = {} <=> x.session[s].closing = {},
         r.hadSurface = x.session[s].hadSurface \/ x.session[s].list # {}
  PROVE  Answered(a, y)
<1>1. Beside(x, y) /\ y.session[s] = r /\ \A t \in Sessions : t # s => y.session[t] = x.session[t]
  BY DEF Put
<1>2. LooksSame(x, y)
  BY <1>1 DEF LooksSame
<1>3. Alert(y)
  BY <1>1, EditedAlert DEF Answered
<1>4. Heeding(y)
  BY <1>1, <1>2, EditedHeeding DEF Answered
<1>5. NoneNew(a, y)
  BY <1>1 DEF Answered, NoneNew
<1> QED
  BY <1>3, <1>4, <1>5 DEF Answered

(* A handler may go on from where another one ended.                        *)
LEMMA AnsweredOn ==
  ASSUME NEW a, NEW x, Answered(a, x), NEW e, Alert(e), SamePeople(x, e), Heeding(x) => Heeding(e)
  PROVE  Answered(a, e)
<1>1. NoneNew(x, e)
  BY PeopleNoneNew
<1> QED
  BY <1>1 DEF Answered, NoneNew

(* prependSurface(). *)
LEMMA PrependAnswered ==
  ASSUME NEW a, Alert(a), Heeding(a), NEW s \in Sessions, NEW f \in Surfaces,
         a.session[s].attached, a.process = "alive", NEW e, e = PrependSurface(a, s, f)
  PROVE  Answered(a, e)
<1>0. a \in Sane /\ Answered(a, a)
  BY DEF Alert, Answered, NoneNew
<1>1. PICK F \in SUBSET Surfaces : F = a.session[s].list \cup { f }
  BY <1>0, SessionTypes
<1>2. PICK b : b = NewList(a, s, F)
  OBVIOUS
<1>3. IsList(a, s, F, b)
  BY <1>0, <1>2, ListPut
<1>4. PICK r \in SaneSession :
           /\ b \in Sane /\ Put(a, s, r, b)
           /\ r.attached = a.session[s].attached /\ r.state = a.session[s].state
           /\ r.live = a.session[s].live /\ r.list = F /\ r.closing = a.session[s].closing
           /\ r.hadSurface = a.session[s].hadSurface /\ r.zombie = a.session[s].zombie
  BY <1>3 DEF IsList
<1>5. b.session[s].attached /\ b.session[s].list # {} /\ b.process = "alive"
  BY <1>1, <1>4 DEF Put, Beside
<1>6. PICK c : c = Grown(a, s, b)
  OBVIOUS
<1>7. /\ Answered(a, c) /\ c.session[s].attached /\ c.session[s].list # {}
      /\ c.process = "alive"
  <2>1. CASE ListEmpty(a, s)
    <3>1. c = UpdateState(b)
      BY <1>6, <2>1 DEF Grown
    <3>2. Edited(a, b)
      BY <1>4, PutEdited DEF OneEdit
    <3>3. Alert(b) /\ NoneNew(a, b)
      BY <1>0, <1>4, <3>2, EditAlert DEF Answered
    <3>4. Answered(a, c) /\ SamePeople(b, c)
      BY <3>1, <3>3, UpdateAnswers
    <3>5. c.process = "alive"
      BY <1>4, <1>5, <3>1, UpdateProcess DEF UpdateState
    <3> QED
      BY <1>5, <3>4, <3>5 DEF SamePeople, SameSurfaces
  <2>2. CASE ~ ListEmpty(a, s)
    <3>1. c = b
      BY <1>6, <2>2 DEF Grown
    <3>2. a.session[s].list # {} /\ F # {}
      BY <1>1, <2>2 DEF ListEmpty
    <3>3. Answered(a, b)
      BY <1>0, <1>4, <3>2, QuietEdit
    <3> QED
      BY <1>5, <3>1, <3>3
  <2> QED
    BY <2>1, <2>2
<1>8. PICK v \in BOOLEAN : v = TRUE
  OBVIOUS
<1>9. PICK d : d = NewHad(c, s, v)
  OBVIOUS
<1>10. c \in Sane
  BY <1>7 DEF Answered, Alert
<1>11. PICK o \in SaneSession :
           /\ d \in Sane /\ Put(c, s, o, d)
           /\ o.attached = c.session[s].attached /\ o.state = c.session[s].state
           /\ o.live = c.session[s].live /\ o.list = c.session[s].list
           /\ o.closing = c.session[s].closing
           /\ o.hadSurface = v /\ o.zombie = c.session[s].zombie
  BY <1>9, <1>10, HadPut
<1>12. Answered(a, d)
  BY <1>7, <1>11, QuietEdit
<1>13. d.session[s].attached /\ d.process = "alive"
  BY <1>7, <1>11 DEF Put, Beside
<1>14. e = Shown(d, s)
  <2>1. e = Shown(NewHad(Grown(a, s, NewList(a, s, a.session[s].list \cup { f })), s, TRUE), s)
    BY PrependIs
  <2> QED
    BY <1>1, <1>2, <1>6, <1>8, <1>9, <2>1
<1>15. CASE d.session[s].state # "Starting"
  BY <1>12, <1>14, <1>15 DEF Shown
<1>16. CASE d.session[s].state = "Starting"
  <2>1. PICK st \in SessionState : st = "Running"
    BY DEF SessionState
  <2>2. PICK x : x = NewState(d, s, st)
    OBVIOUS
  <2>3. PICK p \in SaneSession :
           /\ x \in Sane /\ Put(d, s, p, x) /\ p.attached /\ p.state = st
           /\ p.live = d.session[s].live /\ p.list = d.session[s].list
           /\ p.closing = d.session[s].closing /\ p.hadSurface = d.session[s].hadSurface
    BY <1>11, <1>13, <2>2, StatePut
  <2>4. Answered(a, x)
    BY <1>12, <1>13, <2>1, <2>3, QuietEdit
  <2>5. e = OnSessionStateChanged(x)
    BY <1>14, <1>16, <2>1, <2>2 DEF Shown, SetSessionState, NewState
  <2>6. x.process = "alive" /\ x.session[s].attached /\ x.session[s].state = "Running"
    BY <1>13, <2>1, <2>3 DEF Put, Beside
  <2>7. ~ CombinedIs(x, "Suspended")
    BY <2>3, <2>6, Combined
  <2>8. Alert(e) /\ SamePeople(x, e) /\ (Heeding(x) => Heeding(e))
    BY <2>4, <2>5, <2>6, <2>7, SessionChangedAlert DEF Answered
  <2> QED
    BY <2>4, <2>8, AnsweredOn
<1> QED
  BY <1>15, <1>16

(* The slot of closeRequested. *)
LEMMA CloseSurfaceAnswered ==
  ASSUME NEW a, Alert(a), Heeding(a), NEW s \in Sessions, NEW f \in Surfaces,
         NEW e, e = CloseSurface(a, s, f)
  PROVE  Answered(a, e)
<1>0. a \in Sane /\ Answered(a, a)
  BY DEF Alert, Answered, NoneNew
<1>1. PICK F \in SUBSET Surfaces : F = a.session[s].closing \cup { f }
  BY <1>0, SessionTypes
<1>2. PICK b : b = NewClosing(a, s, F)
  OBVIOUS
<1>3. IsClosings(a, s, F, b)
  BY <1>0, <1>2, ClosingPut
<1>4. PICK r \in SaneSession :
           /\ b \in Sane /\ Put(a, s, r, b)
           /\ r.attached = a.session[s].attached /\ r.state = a.session[s].state
           /\ r.live = a.session[s].live /\ r.list = a.session[s].list /\ r.closing = F
           /\ r.hadSurface = a.session[s].hadSurface
  BY <1>3 DEF IsClosings
<1>5. PICK c : c = Marked(a, s, b)
  OBVIOUS
<1>6. Answered(a, c)
  <2>1. CASE HasClosingSurfaces(a, s)
    <3>1. c = b
      BY <1>5, <2>1 DEF Marked
    <3>2. a.session[s].closing # {} /\ F # {}
      BY <1>1, <2>1 DEF HasClosingSurfaces
    <3> QED
      BY <1>0, <1>4, <3>1, <3>2, QuietEdit
  <2>2. CASE ~ HasClosingSurfaces(a, s)
    <3>1. c = UpdateState(b)
      BY <1>5, <2>2 DEF Marked
    <3>2. Edited(a, b)
      BY <1>4, PutEdited DEF OneEdit
    <3>3. Alert(b) /\ NoneNew(a, b)
      BY <1>0, <1>4, <3>2, EditAlert DEF Answered
    <3> QED
      BY <3>1, <3>3, UpdateAnswers
  <2> QED
    BY <2>1, <2>2
<1>7. c \in Sane /\ Alert(c) /\ NoneNew(a, c)
  BY <1>6 DEF Answered, Alert
<1>8. PICK G \in SUBSET Surfaces : G = c.session[s].list \ { f }
  BY <1>7, SessionTypes
<1>9. PICK d : d = NewList(c, s, G)
  OBVIOUS
<1>10. IsList(c, s, G, d)
  BY <1>7, <1>9, ListPut
<1>11. PICK o \in SaneSession :
           /\ d \in Sane /\ Put(c, s, o, d)
           /\ o.attached = c.session[s].attached /\ o.state = c.session[s].state
           /\ o.live = c.session[s].live /\ o.list = G /\ o.closing = c.session[s].closing
           /\ o.hadSurface = c.session[s].hadSurface
  BY <1>10 DEF IsList
<1>12. e = Emptied(d, s)
  <2>1. d = Without(c, s, f)
    BY <1>8, <1>9 DEF Without
  <2>2. e = Emptied(Without(Marked(a, s, NewClosing(a, s, a.session[s].closing \cup { f })), s, f), s)
    BY CloseSurfaceIs
  <2> QED
    BY <1>1, <1>2, <1>5, <2>1, <2>2
<1>13. CASE ListEmpty(d, s)
  <2>1. PICK z : z = DeleteIfZombieAndEmpty(d, s)
    OBVIOUS
  <2>2. e = UpdateState(z)
    BY <1>12, <1>13, <2>1 DEF Emptied
  <2>3. Edited(c, d)
    BY <1>11, PutEdited DEF OneEdit
  <2>4. Alert(d) /\ NoneNew(a, d)
    BY <1>7, <1>11, <2>3, EditAlert
  <2>5. z \in Sane /\ Edited(d, z)
    BY <1>11, <2>1, ZombieEdit DEF OneEdit
  <2>6. Alert(z) /\ NoneNew(a, z)
    BY <2>4, <2>5, EditAlert
  <2> QED
    BY <2>2, <2>6, UpdateAnswers
<1>14. CASE ~ ListEmpty(d, s)
  <2>1. e = d
    BY <1>12, <1>14 DEF Emptied
  <2>2. G # {} /\ c.session[s].list # {}
    BY <1>8, <1>11, <1>14 DEF ListEmpty, Put
  <2> QED
    BY <1>6, <1>11, <2>1, <2>2, QuietEdit
<1> QED
  BY <1>13, <1>14

(* removeSurface(). *)
LEMMA RemoveSurfaceAnswered ==
  ASSUME NEW a, Alert(a), Heeding(a), NEW s \in Sessions, NEW f \in Surfaces,
         NEW e, e = RemoveSurface(a, s, f)
  PROVE  Answered(a, e)
<1>0. a \in Sane /\ Answered(a, a)
  BY DEF Alert, Answered, NoneNew
<1>1. PICK G \in SUBSET Surfaces : G = a.session[s].list \ { f }
  BY <1>0, SessionTypes
<1>2. PICK b : b = NewList(a, s, G)
  OBVIOUS
<1>3. IsList(a, s, G, b)
  BY <1>0, <1>2, ListPut
<1>4. PICK r \in SaneSession :
           /\ b \in Sane /\ Put(a, s, r, b)
           /\ r.attached = a.session[s].attached /\ r.state = a.session[s].state
           /\ r.live = a.session[s].live /\ r.list = G /\ r.closing = a.session[s].closing
           /\ r.hadSurface = a.session[s].hadSurface
  BY <1>3 DEF IsList
<1>5. PICK c : c = Dropped(a, s, b)
  OBVIOUS
<1>6. Answered(a, c)
  <2>1. CASE ListEmpty(b, s) /\ ~ ListEmpty(a, s)
    <3>1. PICK z : z = DeleteIfZombieAndEmpty(b, s)
      OBVIOUS
    <3>2. c = UpdateState(z)
      BY <1>5, <2>1, <3>1 DEF Dropped
    <3>3. Edited(a, b)
      BY <1>4, PutEdited DEF OneEdit
    <3>4. Alert(b) /\ NoneNew(a, b)
      BY <1>0, <1>4, <3>3, EditAlert DEF Answered
    <3>5. z \in Sane /\ Edited(b, z)
      BY <1>4, <3>1, ZombieEdit DEF OneEdit
    <3>6. Alert(z) /\ NoneNew(a, z)
      BY <3>4, <3>5, EditAlert
    <3> QED
      BY <3>2, <3>6, UpdateAnswers
  <2>2. CASE ~ (ListEmpty(b, s) /\ ~ ListEmpty(a, s))
    <3>1. c = b
      BY <1>5, <2>2 DEF Dropped
    <3>2. G = {} <=> a.session[s].list = {}
      BY <1>1, <1>4, <2>2 DEF ListEmpty, Put
    <3> QED
      BY <1>0, <1>4, <3>1, <3>2, QuietEdit
  <2> QED
    BY <2>1, <2>2
<1>7. c \in Sane /\ Alert(c) /\ NoneNew(a, c)
  BY <1>6 DEF Answered, Alert
<1>8. PICK F \in SUBSET Surfaces : F = c.session[s].closing \ { f }
  BY <1>7, SessionTypes
<1>9. PICK d : d = NewClosing(c, s, F)
  OBVIOUS
<1>10. IsClosings(c, s, F, d)
  BY <1>7, <1>9, ClosingPut
<1>11. PICK o \in SaneSession :
           /\ d \in Sane /\ Put(c, s, o, d)
           /\ o.attached = c.session[s].attached /\ o.state = c.session[s].state
           /\ o.live = c.session[s].live /\ o.list = c.session[s].list /\ o.closing = F
           /\ o.hadSurface = c.session[s].hadSurface
  BY <1>10 DEF IsClosings
<1>12. e = Finished(c, s, d)
  <2>1. b = Without(a, s, f)
    BY <1>1, <1>2 DEF Without
  <2> QED
    BY <1>5, <1>8, <1>9, <2>1, RemoveSurfaceIs
<1>13. CASE HasClosingSurfaces(c, s) /\ ~ HasClosingSurfaces(d, s)
  <2>1. e = UpdateState(d)
    BY <1>12, <1>13 DEF Finished
  <2>2. Edited(c, d)
    BY <1>11, PutEdited DEF OneEdit
  <2>3. Alert(d) /\ NoneNew(a, d)
    BY <1>7, <1>11, <2>2, EditAlert
  <2> QED
    BY <2>1, <2>3, UpdateAnswers
<1>14. CASE ~ (HasClosingSurfaces(c, s) /\ ~ HasClosingSurfaces(d, s))
  <2>1. e = d
    BY <1>12, <1>14 DEF Finished
  <2>2. F = {} <=> c.session[s].closing = {}
    BY <1>8, <1>11, <1>14 DEF HasClosingSurfaces, Put
  <2> QED
    BY <1>6, <1>11, <2>1, <2>2, QuietEdit
<1> QED
  BY <1>13, <1>14

-----------------------------------------------------------------------------
(* One client at a time. *)

(* No two sessions have a client.                                           *)
OneClient(a) ==
  \A s, t \in Sessions :
    /\ a.session[s].attached /\ a.session[s].live
    /\ a.session[t].attached /\ a.session[t].live
    => s = t

(* What all of this amounts to, when all handlers have returned.            *)
Answering(a) == Alert(a) /\ Heeding(a) /\ OneClient(a)

(* With no new client there are no two.                                     *)
LEMMA NoneNewOne ==
  ASSUME NEW a, NEW e, Answered(a, e), OneClient(a)
  PROVE  Answering(e)
BY DEF Answered, NoneNew, OneClient, Answering

(* Session::doSuspend(). *)
LEMMA SuspendTimeoutAnswered ==
  ASSUME NEW a, Alert(a), Heeding(a), NEW s \in Sessions, a.session[s].attached,
         a.session[s].state = "Suspending", NEW e, e = SetSessionState(a, s, "Suspended")
  PROVE  Answered(a, e)
<1>1. a \in Sane /\ Answered(a, a) /\ a.state = "SuspendingWaitSession"
  BY DEF Alert, Answered, NoneNew, Pausing
<1>2. PICK st \in SessionState : st = "Suspended"
  BY DEF SessionState
<1>3. PICK x : x = NewState(a, s, st)
  OBVIOUS
<1>4. PICK p \in SaneSession :
           /\ x \in Sane /\ Put(a, s, p, x) /\ p.attached /\ p.state = st
           /\ p.live = a.session[s].live /\ p.list = a.session[s].list
           /\ p.closing = a.session[s].closing /\ p.hadSurface = a.session[s].hadSurface
  BY <1>1, <1>3, StatePut
<1>5. e = OnSessionStateChanged(x)
  BY <1>2, <1>3 DEF SetSessionState, NewState
<1>6. Answered(a, x)
  BY <1>1, <1>2, <1>4, QuietEdit
<1>7. x.state \in Busy /\ x.session[s].attached /\ x.session[s].state = "Suspended"
  BY <1>1, <1>2, <1>4 DEF Put, Beside, Busy, AtWork
<1>8. ~ CombinedIs(x, "Stopped")
  BY <1>4, <1>7, Combined DEF AllStopped
<1>9. Alert(e) /\ SamePeople(x, e) /\ (Heeding(x) => Heeding(e))
  BY <1>5, <1>6, <1>7, <1>8, SessionChangedAlert DEF Answered
<1> QED
  BY <1>6, <1>9, AnsweredOn

(* setLive(false): with one client, no other session is still to suspend.   *)
LEMMA SessionDiesAnswered ==
  ASSUME NEW a, Whole(a), Alert(a), Heeding(a), OneClient(a), NEW s \in Sessions,
         a.session[s].attached, a.session[s].live, a.process # "frozen",
         NEW e, e = SessionDies(a, s)
  PROVE  Answered(a, e)
<1>1. a \in Sane /\ Answered(a, a) /\ LiveOnes(a)
  BY DEF Alert, Answered, NoneNew, Whole, Held, Core
<1>2. a.session[s].state # "Stopped"
  BY <1>1 DEF LiveOnes
<1>3. PICK o \in SaneSession : o = a.session[s]
  BY <1>1, SessionTypes
<1>4. PICK v \in BOOLEAN : v = FALSE
  OBVIOUS
<1>5. PICK r : r = [ o EXCEPT !.live = v ]
  OBVIOUS
<1>6. /\ r \in SaneSession /\ r.attached = o.attached /\ r.state = o.state /\ r.live = v
      /\ r.list = o.list /\ r.closing = o.closing /\ r.hadSurface = o.hadSurface
  <2>1. r \in SessionRecord
    BY <1>5, Zenon DEF SaneSession, SessionRecord
  <2>2. /\ r.attached = o.attached /\ r.state = o.state /\ r.live = v
        /\ r.list = o.list /\ r.closing = o.closing /\ r.hadSurface = o.hadSurface
    BY <1>5, Zenon DEF SaneSession, SessionRecord
  <2> QED
    BY <2>1, <2>2, Zenon DEF SaneSession
<1>7. PICK y : y = [ a EXCEPT !.session[s] = r ]
  OBVIOUS
<1>8. y \in Sane /\ Put(a, s, r, y)
  BY <1>1, <1>6, <1>7, PutSet
<1>9. Answered(a, y)
  BY <1>1, <1>3, <1>4, <1>6, <1>8, QuietEdit
<1>10. PICK st \in SessionState : st = "Stopped"
  BY DEF SessionState
<1>11. PICK x : x = NewState(y, s, st)
  OBVIOUS
<1>12. y.session[s] = r /\ y.process = a.process /\ \A t \in Sessions : t # s => y.session[t] = a.session[t]
  BY <1>8 DEF Put, Beside
<1>13. PICK p \in SaneSession :
           /\ x \in Sane /\ Put(y, s, p, x) /\ p.attached /\ p.state = st
           /\ p.live = y.session[s].live /\ p.list = y.session[s].list
           /\ p.closing = y.session[s].closing /\ p.hadSurface = y.session[s].hadSurface
  BY <1>3, <1>6, <1>8, <1>11, <1>12, StatePut
<1>14. Answered(a, x)
  BY <1>3, <1>6, <1>9, <1>10, <1>12, <1>13, QuietEdit
<1>15. PICK z : z = OnSessionStateChanged(x)
  OBVIOUS
<1>16. e = DeleteIfZombieAndEmpty(z, s)
  <2>1. y = [ a EXCEPT !.session[s].live = FALSE ]
    BY <1>3, <1>4, <1>5, <1>7
  <2>2. y.session[s].state # "Stopped"
    BY <1>2, <1>3, <1>6, <1>12
  <2>3. SetSessionState(y, s, "Stopped") = z
    BY <1>10, <1>11, <1>15, <2>2 DEF SetSessionState, NewState
  <2> QED
    BY <2>1, <2>3 DEF SessionDies
<1>17. AllStopped(x) /\ x.process # "frozen"
  <2>1. \A t \in Sessions : t # s /\ a.session[t].attached => a.session[t].state = "Stopped"
    BY <1>1 DEF LiveOnes, OneClient
  <2> QED
    BY <1>10, <1>12, <1>13, <2>1 DEF AllStopped, Put, Beside
<1>18. ~ CombinedIs(x, "Suspended")
  BY <1>13, <1>17, Combined DEF AllStopped
<1>19. Alert(z) /\ SamePeople(x, z) /\ (Heeding(x) => Heeding(z))
  BY <1>14, <1>15, <1>17, <1>18, SessionChangedAlert DEF Answered
<1>20. Answered(a, z)
  BY <1>14, <1>19, AnsweredOn
<1>21. PICK q \in SaneSession :
           /\ e \in Sane /\ Put(z, s, q, e)
           /\ q.attached = z.session[s].attached /\ q.state = z.session[s].state
           /\ q.live = z.session[s].live /\ q.list = z.session[s].list
           /\ q.closing = z.session[s].closing /\ q.hadSurface = z.session[s].hadSurface
  BY <1>16, <1>19, ZombiePut DEF Alert
<1> QED
  BY <1>20, <1>21, QuietEdit

(* addSession(): without a client, an application that a client may connect *)
(* to is one that starts.                                                   *)
LEMMA AddSessionAnswered ==
  ASSUME NEW a, Whole(a), Alert(a), NEW s \in Sessions, a.listed = "applications",
         a.process = "alive",
         \A t \in Sessions : ~ (a.session[t].attached /\ a.session[t].live),
         NEW e, e = AddSession(a, s)
  PROVE  Answering(e)
<1>1. a \in Sane /\ Core(a) /\ FollowsIn(a, a.state) /\ Filed(a) /\ LiveOnes(a) /\ Ended(a)
  BY DEF Whole, Held, Core
<1>2. a.state = "Starting"
  <2>1. AllStopped(a)
    BY <1>1 DEF LiveOnes, AllStopped
  <2> QED
    BY <1>1, <2>1 DEF Ended, Filed, FollowsIn
<1>3. e = [ a EXCEPT !.session[s] = NewSession ]
  BY <1>2 DEF AddSession
<1>4. NewSession \in SaneSession /\ NewSession.state = "Starting"
  BY DEF NewSession, SaneSession, SessionRecord, SessionState
<1>5. e \in Sane /\ Put(a, s, NewSession, e)
  BY <1>1, <1>3, <1>4, PutSet
<1>6. e.state = "Starting" /\ e.wakelock = a.wakelock
  BY <1>2, <1>5 DEF Put, Beside
<1>7. Alert(e)
  <2>1. Awake(e)
    BY <1>2, <1>6 DEF Alert, Awake
  <2>2. Pausing(e, e.state)
    BY <1>2, <1>4, <1>5, <1>6 DEF Alert, Pausing, Put
  <2> QED
    BY <1>5, <2>1, <2>2 DEF Alert
<1>8. Heeding(e)
  BY <1>6 DEF Heeding
<1>9. OneClient(e)
  BY <1>5 DEF OneClient, Put
<1> QED
  BY <1>7, <1>8, <1>9 DEF Answering

(* removeSession(): with its last session an application has ended, and     *)
(* where another one remains the shell was answered for both.               *)
LEMMA RemoveSessionAnswered ==
  ASSUME NEW a, Whole(a), Alert(a), Heeding(a), NEW s \in Sessions, a.session[s].zombie,
         NEW e, e = RemoveSession(a, s)
  PROVE  Answered(a, e)
<1>1. a \in Sane /\ Zombies(a) /\ LiveOnes(a) /\ Ended(a) /\ a.state \in InternalState
  BY SessionTypesOf DEF Whole, Held, Core
<1>2. a.session[s].attached => a.session[s].state = "Stopped"
  BY <1>1 DEF Zombies, LiveOnes
<1>3. e = [ a EXCEPT !.session[s] = NoSession ]
  BY DEF RemoveSession
<1>4. NoSession \in SaneSession /\ ~ NoSession.attached
  BY DEF NoSession, SaneSession, SessionRecord, SessionState
<1>5. e \in Sane /\ Put(a, s, NoSession, e)
  BY <1>1, <1>3, <1>4, PutSet
<1>6. /\ e.state = a.state /\ e.processState = a.processState /\ e.wakelock = a.wakelock
      /\ e.closing = a.closing /\ e.requested = a.requested /\ ~ e.session[s].attached
  BY <1>4, <1>5 DEF Put, Beside
<1>7. \A t \in Sessions : t # s => e.session[t] = a.session[t]
  BY <1>5 DEF Put
<1>8. Alert(e) /\ NoneNew(a, e)
  BY <1>5, <1>6, <1>7 DEF Alert, Awake, Pausing, NoneNew
<1>9. CASE ~ a.session[s].attached
  <2>1. Attached(e) = Attached(a)
    BY <1>6, <1>7, <1>9 DEF Attached
  <2>2. \A t \in Sessions : IsSingle(a, t) => t # s
    BY <1>9 DEF IsSingle, Attached
  <2>3. \A t \in Sessions : /\ IsSingle(e, t) <=> IsSingle(a, t)
                            /\ IsSingle(a, t) => e.session[t] = a.session[t]
    BY <1>7, <2>1, <2>2 DEF IsSingle
  <2>4. LostAllSurfaces(e) <=> LostAllSurfaces(a)
    BY <2>3 DEF LostAllSurfaces, ListEmpty, HasClosingSurfaces
  <2>5. MayRun(a) => MayRun(e)
    BY <1>6, <2>3 DEF MayRun, HasClosingSurfaces
  <2>6. Heeding(e)
    BY <1>6, <2>4, <2>5 DEF Heeding
  <2> QED
    BY <1>8, <2>6 DEF Answered
<1>10. CASE IsSingle(a, s)
  <2>1. AllStopped(a)
    BY <1>2, <1>10 DEF AllStopped, IsSingle, Attached
  <2>2. a.state \in { "Starting", "StoppedResumable", "Stopped" }
    BY <1>1, <2>1 DEF Ended
  <2>3. Heeding(e)
    BY <1>6, <2>2 DEF Heeding
  <2> QED
    BY <1>8, <2>3 DEF Answered
<1>11. CASE a.session[s].attached /\ ~ IsSingle(a, s)
  <2>1. \A t \in Sessions : ~ IsSingle(a, t)
    BY <1>11 DEF IsSingle, Attached
  <2>2. ~ LostAllSurfaces(a) /\ (MayRun(a) => a.processState # "Running")
    BY <2>1 DEF LostAllSurfaces, MayRun
  <2>3. Heeding(e)
    BY <1>6, <2>2 DEF Heeding, MayRun
  <2> QED
    BY <1>8, <2>3 DEF Answered
<1> QED
  BY <1>9, <1>10, <1>11

(* What happens to the process, and is to be told of it, is answered later. *)
LEMMA OutsideAnswered ==
  ASSUME NEW a, Alert(a), Heeding(a), NEW e \in Sane, Outside(a, e), e.processState = a.processState
  PROVE  Answered(a, e)
<1>1. SameCourse(a, e) /\ e.session = a.session
  BY DEF Outside, SameCourse
<1>2. a \in Sane
  BY DEF Alert
<1> QED
  BY <1>1, <1>2, CourseKept, PeopleNoneNew DEF Answered

(* The destructor of an application that is gone.                           *)
LEMMA DeletedAnswered ==
  ASSUME NEW a, Alert(a), NEW e \in Sane, a.state = "Stopped", e.state = a.state,
         e.wakelock = a.wakelock, \A s \in Sessions : ~ e.session[s].attached
  PROVE  Answered(a, e)
<1>1. Alert(e)
  BY DEF Alert, Awake, Pausing
<1>2. Heeding(e)
  BY DEF Heeding
<1> QED
  BY <1>1, <1>2 DEF Answered, NoneNew

(* What ubuntu-app-launch tells: that the process is suspended only when    *)
(* the application waits for that.                                          *)
LEMMA HeedAnswered ==
  ASSUME NEW a, Whole(a), Alert(a), Heeding(a), a.notices # << >>, NEW n, n = Head(a.notices),
         NEW b, b = Pop(a), NEW e, e = Heed(b, n) \/ e = b
  PROVE  Answered(a, e)
<1>1. a \in Sane /\ FollowsIn(a, a.state)
  BY DEF Whole, Held, Core
<1>2. Popped(a, a.processState, b)
  BY <1>1, PopSet
<1>3. Answered(a, b) /\ b.state = a.state
  BY <1>2, OutsideAnswered DEF Popped, Outside
<1>4. CASE e = b
  BY <1>3, <1>4
<1>5. ASSUME NEW p \in ProcessState \ { "Unknown" }, p = "Suspended" => n = "Suspended",
             e = SetProcessState(b, p, Update)
      PROVE  Answered(a, e)
  <2>1. p = "Suspended" => b.state # "SuspendingWaitSession"
    <3>1. Has(a.notices, n)
      <4>1. PICK q \in Seq(Notice) : q = a.notices
        BY <1>1 DEF Sane, AppRecord
      <4>2. 1 \in 1 .. Len(q) /\ q[1] = n
        BY <4>1
      <4> QED
        BY <4>1, <4>2 DEF Has
    <3> QED
      BY <1>1, <1>3, <1>5, <3>1 DEF FollowsIn
  <2>2. Alert(e) /\ SamePeople(b, e) /\ (Heeding(b) => Heeding(e))
    BY <1>3, <1>5, <2>1, ProcessStateAlert DEF Answered
  <2> QED
    BY <1>3, <2>2, AnsweredOn
<1>6. CASE e = Heed(b, n)
  <2>1. \/ e = b
        \/ n = "Starting" /\ e = SetProcessState(b, "Running", Update)
        \/ n \in { "Suspended", "Failed" } /\ e = SetProcessState(b, n, Update)
        \/ n = "Stopped" /\ e = SetProcessState(b, "Stopped", Update)
    BY <1>6 DEF Heed
  <2> QED
    BY <1>4, <1>5, <2>1 DEF ProcessState
<1> QED
  BY <1>4, <1>6

(* The handlers, by the actions that call them. *)
LEMMA NextAnswered ==
  ASSUME MaxClients = 1, AppInv, Answering(app), [Next]_vars
  PROVE  Answering(app')
<1>1. PICK a : a = app
  OBVIOUS
<1>2. PICK e : e = app'
  OBVIOUS
<1>3. PICK b : b = a0
  OBVIOUS
<1>4. b = [ a EXCEPT !.failed = {} ]
  BY <1>1, <1>3 DEF a0
<1>5. Whole(a) /\ Alert(a) /\ Heeding(a) /\ OneClient(a)
  BY <1>1 DEF AppInv, Answering
<1>6. /\ Whole(b) /\ b.state = a.state /\ b.process = a.process /\ b.notices = a.notices
      /\ b.session = a.session /\ b.listed = a.listed /\ b.launch = a.launch
      /\ b.startQueued = a.startQueued /\ b.deleteLater = a.deleteLater
  BY <1>4, <1>5, BegunIs DEF Begun
<1>7. Alert(b) /\ Heeding(b) /\ OneClient(b)
  BY <1>4, <1>5, <1>6, FlagAnswers DEF Answered, OneClient
<1> SUFFICES Answering(e)
  BY <1>2
<1>8. Answered(b, e) => Answering(e)
  BY <1>7, NoneNewOne
<1>9. CASE \/ \E v \in RequestedState : SetRequestedState(v)
           \/ \E v \in BOOLEAN : SetExemptFromLifecycle(v)
           \/ StopApplication
           \/ StopTimeout
           \/ \E s \in Sessions, f \in Surfaces : SurfaceCloseOverdue(s, f)
  <2>1. \/ \E v \in RequestedState : e = UpdateState([ b EXCEPT !.requested = v ])
        \/ \E v \in BOOLEAN : e = [ b EXCEPT !.exempt = v ]
        \/ e = Close(b)
        \/ e = Stop([ b EXCEPT !.stopTimer = FALSE ])
        \/ e = TaskStop(b)
    BY <1>2, <1>3, <1>9 DEF SetRequestedState, SetExemptFromLifecycle, StopApplication, StopTimeout,
                            SurfaceCloseOverdue
  <2>2. ASSUME NEW v \in RequestedState, e = UpdateState([ b EXCEPT !.requested = v ])
        PROVE  Answered(b, e)
    BY <1>7, <2>2, RequestAnswered
  <2>3. ASSUME NEW v \in BOOLEAN, e = [ b EXCEPT !.exempt = v ]
        PROVE  Answered(b, e)
    BY <1>7, <2>3, FlagAnswers
  <2>4. e = Close(b) => Answered(b, e)
    BY <1>6, <1>7, CloseAnswered
  <2>5. e = Stop([ b EXCEPT !.stopTimer = FALSE ]) => Answered(b, e)
    BY <1>7, StopTimeoutAnswered
  <2>6. e = TaskStop(b) => Answered(b, e)
    BY <1>7, TaskStopAnswered
  <2> QED
    BY <1>8, <2>1, <2>2, <2>3, <2>4, <2>5, <2>6, Zenon
<1>10. ASSUME NEW s \in Sessions, SuspendTimeout(s)
       PROVE  Answering(e)
  <2>1. /\ b.session[s].attached /\ b.session[s].state = "Suspending"
        /\ e = SetSessionState(b, s, "Suspended")
    BY <1>1, <1>2, <1>3, <1>6, <1>10 DEF SuspendTimeout
  <2> QED
    BY <1>7, <1>8, <2>1, SuspendTimeoutAnswered
<1>11. ASSUME NEW s \in Sessions, SessionDeleted(s)
       PROVE  Answering(e)
  <2>1. b.session[s].zombie /\ e = RemoveSession(b, s)
    BY <1>1, <1>2, <1>3, <1>6, <1>11 DEF SessionDeleted
  <2> QED
    BY <1>6, <1>7, <1>8, <2>1, RemoveSessionAnswered
<1>12. ASSUME NEW s \in Sessions, SessionStarting(s)
       PROVE  Answering(e)
  <2>1. /\ b.listed = "applications" /\ b.process = "alive"
        /\ e = AddSession(b, s)
    BY <1>1, <1>2, <1>3, <1>6, <1>12 DEF SessionStarting
  <2>2. PICK T : T = { t \in Sessions : Live(t) }
    OBVIOUS
  <2>3. Cardinality(T) < 1
    BY <1>12, <2>2 DEF SessionStarting
  <2>4. \A t, u \in T : t = u
    BY <1>1, <1>5, <2>2 DEF Live, OneClient
  <2>5. T = {}
    <3> SUFFICES ASSUME NEW t \in T PROVE FALSE
      OBVIOUS
    <3>1. T = { t }
      BY <2>4
    <3> QED
      BY <2>3, <3>1, FS_Singleton
  <2>6. \A t \in Sessions : ~ (b.session[t].attached /\ b.session[t].live)
    BY <1>1, <1>6, <2>2, <2>5 DEF Live
  <2> QED
    BY <1>6, <1>7, <2>1, <2>6, AddSessionAnswered
<1>13. ASSUME NEW s \in Sessions, SessionStopping(s)
       PROVE  Answering(e)
  <2>1. /\ b.session[s].attached /\ b.session[s].live /\ b.process # "frozen"
        /\ e = SessionDies(b, s)
    BY <1>1, <1>2, <1>3, <1>6, <1>13 DEF SessionStopping, Live
  <2> QED
    BY <1>6, <1>7, <1>8, <2>1, SessionDiesAnswered
<1>14. ASSUME NEW s \in Sessions, NEW f \in Surfaces,
              SurfaceReady(s, f) \/ SurfaceClose(s, f) \/ SurfaceDestroyed(s, f)
       PROVE  Answering(e)
  <2>1. \/ b.session[s].attached /\ b.process = "alive" /\ e = PrependSurface(b, s, f)
        \/ e = CloseSurface(b, s, f)
        \/ e = RemoveSurface(b, s, f)
    BY <1>1, <1>2, <1>3, <1>6, <1>14 DEF SurfaceReady, SurfaceClose, SurfaceDestroyed, Live
  <2> QED
    BY <1>7, <1>8, <2>1, PrependAnswered, CloseSurfaceAnswered, RemoveSurfaceAnswered
<1>15. CASE RunQueuedStart
  <2>1. /\ b.startQueued
        /\ e = IF b.process = "dead" /\ b.launch = "job"
               THEN [ b EXCEPT !.startQueued = FALSE, !.process = "launching",
                               !.notices = Append(@, "Starting") ]
               ELSE [ b EXCEPT !.startQueued = FALSE ]
    BY <1>1, <1>2, <1>3, <1>6, <1>15 DEF RunQueuedStart
  <2>2. Whole(e) /\ Outside(b, e) /\ e.processState = b.processState
    BY <1>6, <2>1, QueuedStartKept
  <2>3. e \in Sane
    BY <2>2 DEF Whole, Held
  <2> QED
    BY <1>7, <1>8, <2>2, <2>3, OutsideAnswered
<1>16. ASSUME NEW how, ProcessEnds(how)
       PROVE  Answering(e)
  <2>1. b.process # "dead" /\ e = EndedWith(b, Told0(b, how))
    BY <1>1, <1>2, <1>3, <1>6, <1>16 DEF ProcessEnds, EndedWith, Told0
  <2>2. Whole(e) /\ Outside(b, e) /\ e.processState = b.processState
    BY <1>6, <2>1, EndsKept
  <2>3. e \in Sane
    BY <2>2 DEF Whole, Held
  <2> QED
    BY <1>7, <1>8, <2>2, <2>3, OutsideAnswered
<1>17. CASE ApplicationDeleted
  <2>1. PICK f : f = [ s \in Sessions |-> NoSession ]
    OBVIOUS
  <2>2. b.deleteLater /\ e = NewDeleted(b, f)
    BY <1>1, <1>2, <1>3, <1>6, <1>17, <2>1 DEF ApplicationDeleted, NewDeleted
  <2>3. NoSession \in SaneSession /\ ~ NoSession.attached
    BY DEF NoSession, SaneSession, SessionRecord, SessionState
  <2>4. f \in [ Sessions -> SaneSession ] /\ \A s \in Sessions : ~ f[s].attached
    BY <2>1, <2>3
  <2>5. /\ Whole(e) /\ b.state = "Stopped" /\ e.state = b.state /\ e.wakelock = b.wakelock
        /\ e.session = f
    BY <1>6, <2>2, <2>4, DeletedKept
  <2>6. e \in Sane
    BY <2>5 DEF Whole, Held
  <2> QED
    BY <1>7, <1>8, <2>4, <2>5, <2>6, DeletedAnswered
<1>18. CASE Noticed
  <2>1. PICK n : n = Head(b.notices)
    OBVIOUS
  <2>2. b.notices # << >>
    BY <1>1, <1>6, <1>18 DEF Noticed
  <2>3. e = IF deleted THEN Pop(b) ELSE Heed(Pop(b), n)
    BY <1>1, <1>2, <1>3, <1>6, <1>18, <2>1 DEF Noticed, Pop, NowProcess
  <2>4. PICK c : c = Pop(b)
    OBVIOUS
  <2>5. e = Heed(c, n) \/ e = c
    BY <2>3, <2>4
  <2> QED
    BY <1>6, <1>7, <1>8, <2>1, <2>2, <2>4, <2>5, HeedAnswered
<1>19. CASE UNCHANGED vars
  <2>1. e = a
    BY <1>1, <1>2, <1>19 DEF vars
  <2> QED
    BY <1>5, <2>1 DEF Answering
<1> QED
  BY <1>9, <1>10, <1>11, <1>12, <1>13, <1>14, <1>15, <1>16, <1>17, <1>18, <1>19, Zenon DEF Next

(* The application starts so.                                               *)
LEMMA AnsweringInit == Init => Answering(app)
<1> SUFFICES ASSUME Init PROVE Answering(app)
  OBVIOUS
<1>1. app \in Sane
  BY InitInv DEF Inv
<1>2. PICK a : a = app
  OBVIOUS
<1>3. /\ a.state = "Starting" /\ a.wakelock = ~ Dash
      /\ a.session = [ s \in Sessions |-> NoSession ]
  BY <1>2 DEF Init
<1>4. \A s \in Sessions : ~ a.session[s].attached
  BY <1>3 DEF NoSession
<1>5. Alert(a)
  BY <1>1, <1>2, <1>3, <1>4 DEF Alert, Awake, Pausing, Busy, AtWork
<1>6. Heeding(a) /\ OneClient(a)
  BY <1>3, <1>4 DEF Heeding, OneClient
<1> QED
  BY <1>2, <1>5, <1>6 DEF Answering

(* With one client at a time, the wakelock is held exactly while the        *)
(* application has something to finish: not one handler lets it go before   *)
(* session and process have confirmed that they are suspended, and none     *)
(* forgets it afterwards.                                                   *)
THEOREM WakelockKept ==
  ASSUME MaxClients = 1
  PROVE  Spec => []WakelockUntilSuspended
<1>1. AppInv /\ Answering(app) /\ [Next]_vars => AppInv' /\ Answering(app)'
  BY AppInvNext, NextAnswered
<1>2. Answering(app) => WakelockUntilSuspended
  BY DEF Answering, Alert, Awake, Busy, AtWork, WakelockUntilSuspended
<1>3. Init => AppInv /\ Answering(app)
  BY AppInvInit, AnsweringInit
<1> QED
  BY <1>1, <1>2, <1>3, PTL DEF Spec

(* With one client at a time, no handler ends without the updateState()     *)
(* that takes the application where the shell wants it.                     *)
THEOREM RequestsHeeded ==
  ASSUME MaxClients = 1
  PROVE  Spec => []RequestHeeded
<1>1. AppInv /\ Answering(app) /\ [Next]_vars => AppInv' /\ Answering(app)'
  BY AppInvNext, NextAnswered
<1>2. Answering(app) => RequestHeeded
  <2> SUFFICES ASSUME Heeding(app), ~ app.closing, ~ LostAllSurfaces(app)
               PROVE  /\ app.requested = "Running" =>
                           app.state \notin { "RunningInBackground", "SuspendingWaitSession",
                                              "Suspended", "StoppedResumable" }
                      /\ app.requested = "Suspended" /\ app.state = "Running" =>
                           \/ app.processState # "Running"
                           \/ \E s \in Sessions : IsSingle(app, s) /\ HasClosingSurfaces(app, s)
    BY DEF Answering, RequestHeeded
  <2>1. MayRun(app) => \/ app.processState # "Running"
                       \/ \E s \in Sessions : IsSingle(app, s) /\ HasClosingSurfaces(app, s)
    BY DEF MayRun
  <2> QED
    BY <2>1 DEF Heeding
<1>3. Init => AppInv /\ Answering(app)
  BY AppInvInit, AnsweringInit
<1> QED
  BY <1>1, <1>2, <1>3, PTL DEF Spec

============================================================================

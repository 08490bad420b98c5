------------------------- MODULE ApplicationManager -------------------------
(***************************************************************************)
(* The application manager: which Application objects there are, in which  *)
(* list, and which process, connection and report finds which of them.     *)
(*                                                                         *)
(* Four parties that know nothing of each other's progress act on it: the  *)
(* shell; Mir's threads, which ask for authorization and post what happens *)
(* to connections to the main thread; ubuntu-app-launch, which starts and  *)
(* stops processes and reports on them by application id; and the          *)
(* processes themselves, started by ubuntu-app-launch or by hand with a    *)
(* desktop file hint. Posted events are handled in order; reports come     *)
(* apart from them.                                                        *)
(*                                                                         *)
(* Of an Application only what the lists depend on is kept: the phases of  *)
(* PublicLifecycle, with those that lie between two reports put together.  *)
(***************************************************************************)
EXTENDS Integers, Sequences, FiniteSets

CONSTANTS
  AppIds,      (* short application ids that ubuntu-app-launch knows        *)
  Launched,    (* those that it starts, asked by the shell or by others     *)
  ByHand,      (* those whose processes are also started by hand            *)
  NoApp,       (* no application id                                         *)
  Clients,     (* processes; a bound on those that live at a time           *)
  NoClient,    (* no process                                                *)
  Objects,     (* a bound: Application objects that exist at a time         *)
  MaxPosted,   (* a bound: events posted when a session or a hint comes     *)
  MaxReports   (* a bound: reports on the way when an instance is launched  *)

ASSUME NamesAssumption == NoApp \notin AppIds /\ NoClient \notin Clients
ASSUME StartsAssumption == Launched \subseteq AppIds /\ ByHand \subseteq AppIds
ASSUME BoundsAssumption == MaxPosted \in Nat /\ MaxReports \in Nat

(* Working: Running to Suspended; Resumable: StoppedResumable; Gone:        *)
(* Stopped, its deletion posted.                                            *)
Phases == { "none", "Starting", "Working", "Resumable", "Closing", "Gone" }

ProcessStates == { "Unknown", "Running", "Suspended", "Failed", "Stopped" }

ObjectRecord ==
  [ appId : AppIds \cup { NoApp },
    phase : Phases,
    processState : ProcessStates,
    sessions : SUBSET Clients,
    restart : BOOLEAN ]     (* its destruction starts the application again *)

NoObject ==
  [ appId |-> NoApp, phase |-> "none", processState |-> "Unknown",
    sessions |-> {}, restart |-> FALSE ]

(* A process: launched, then with a connection Mir has authorized, then     *)
(* with a session; asked: it was sent a SIGTERM.                            *)
ClientRecord ==
  [ state : { "dead", "launched", "authorized", "connected" },
    appId : AppIds \cup { NoApp },
    asked : BOOLEAN ]

(* What is posted to the main thread, and what ubuntu-app-launch reports; a *)
(* stop with whether the process was asked to.                              *)
Events ==
  { "addApp", "start", "launch" } \X AppIds
    \cup { "sessionStarting", "sessionStopping" } \X Clients
    \cup { "delete" } \X Objects
Reports == { "starting", "failed", "stopped" } \X BOOLEAN

NoProcess == [ state |-> "dead", appId |-> NoApp, asked |-> FALSE ]

VARIABLES
  object,           (* the Application objects                              *)
  applications,     (* m_applications                                       *)
  closing,          (* m_closingApplications                                *)
  queuedStarts,     (* m_queuedStartApplications                            *)
  authorizedPids,   (* m_authorizedPids, the newest entry of a process      *)
  queue,            (* events posted to the main thread                     *)
  job,              (* outside: the instance ubuntu-app-launch runs         *)
  client,           (* outside: the processes                               *)
  reports           (* outside: reports on their way, by application        *)

vars == << object, applications, closing, queuedStarts, authorizedPids, queue,
           job, client, reports >>
lists == << applications, closing, queuedStarts >>
outside == << job, client, reports >>

Init ==
  /\ object = [ o \in Objects |-> NoObject ]
  /\ applications = << >>
  /\ closing = {}
  /\ queuedStarts = {}
  /\ authorizedPids = [ c \in Clients |-> NoApp ]
  /\ queue = << >>
  /\ job = [ a \in AppIds |-> NoClient ]
  /\ client = [ c \in Clients |-> NoProcess ]
  /\ reports = [ a \in AppIds |-> << >> ]

-----------------------------------------------------------------------------
(* Finding *)

Listed == { applications[i] : i \in DOMAIN applications }

(* findApplicationMutexHeld(): the first in the list. *)
HasApp(a) == \E o \in Listed : object[o].appId = a
FindApp(a) ==
  LET i == CHOOSE i \in DOMAIN applications :
             /\ object[applications[i]].appId = a
             /\ \A j \in 1..(i - 1) : object[applications[j]].appId # a
  IN  applications[i]

(* findClosingApplication() *)
ClosingApps(a) == { o \in closing : object[o].appId = a }

(* The object reports on a are for: onProcessStopped(). *)
FoundForStop(a) ==
  IF HasApp(a) THEN { FindApp(a) } ELSE ClosingApps(a)

(* removeAt() of what indexOf() finds, if it does.                          *)
Without(o) ==
  IF o \notin Listed THEN applications ELSE
  LET index == CHOOSE i \in DOMAIN applications : applications[i] = o
  IN  [ i \in 1..(Len(applications) - 1) |->
          applications[IF i < index THEN i ELSE i + 1] ]

-----------------------------------------------------------------------------
(* ubuntu-app-launch *)

(* A process that is over, its session too: its pid may come again. *)
Reusable(c) ==
  /\ client[c] = NoProcess
  /\ << "sessionStarting", c >> \notin { queue[i] : i \in DOMAIN queue }

(* start(): an application that has an instance is not started twice. *)
Launch(a) ==
  \/ /\ job[a] = NoClient
     /\ Len(reports[a]) <= MaxReports
     /\ \E c \in Clients :
          /\ Reusable(c)
          /\ job' = [ job EXCEPT ![a] = c ]
          /\ client' = [ client EXCEPT ![c] = [ NoProcess EXCEPT !.state = "launched",
                                                             !.appId = a ] ]
     /\ reports' = [ reports EXCEPT ![a] = Append(@, << "starting", FALSE >>) ]
  \/ /\ job[a] # NoClient
     /\ UNCHANGED outside

(* stop(): every instance; processes started by hand are none. *)
AskToStop(a) ==
  client' = [ c \in Clients |-> [ client[c] EXCEPT !.asked = @ \/ job[a] = c ] ]

-----------------------------------------------------------------------------
(* The lists *)

(* An object is left when those an event was posted for are made. *)
Room ==
  Cardinality({ i \in DOMAIN queue : queue[i][1] = "addApp" })
    < Cardinality({ o \in Objects : object[o] = NoObject })

(* add() of a new Application(). *)
Add(a, processState) ==
  \E o \in Objects :
    /\ object[o] = NoObject
    /\ object' = [ object EXCEPT ![o] = [ NoObject EXCEPT !.appId = a,
                                            !.phase = "Starting",
                                            !.processState = processState ] ]
    /\ applications' = Append(applications, o)

(* The object o, changed to r, where r.phase is Gone: the slots of          *)
(* stopped().                                                               *)
Remove(o, r) ==
  /\ object' = [ object EXCEPT ![o] = r ]
  /\ applications' = Without(o)
  /\ queue' = Append(queue, << "delete", o >>)

Replace(o, r) ==
  /\ object' = [ object EXCEPT ![o] = r ]
  /\ UNCHANGED << applications, queue >>

Become(o, r) ==
  IF r.phase = "Gone" /\ object[o].phase # "Gone" THEN Remove(o, r) ELSE Replace(o, r)

-----------------------------------------------------------------------------
(* The shell *)

(* A fault: the request is remembered, but nothing will act on it. *)
QueueWithoutTrigger(a, queued) ==
  /\ queuedStarts' = queued \cup { a }
  /\ UNCHANGED << object, applications, outside >>

(* startApplication() while its predecessor is closing. *)
QueueStart(a, queued) ==
  /\ queuedStarts' = queued \cup { a }
  /\ \E o \in ClosingApps(a) :
       object' = [ object EXCEPT ![o].restart = TRUE ]
  /\ UNCHANGED << applications, outside >>

(* startApplication(), given the starts queued at that time. *)
StartApplication(a, queued) ==
  \/ /\ HasApp(a) \/ a \in queued
     /\ queuedStarts' = queued
     /\ UNCHANGED << object, applications, outside >>
  \/ /\ ~HasApp(a) /\ a \notin queued /\ ClosingApps(a) # {}
     /\ QueueStart(a, queued)
  \/ /\ ~HasApp(a) /\ a \notin queued /\ ClosingApps(a) = {}
     /\ queuedStarts' = queued
     /\ \/ Room /\ Launch(a) /\ Add(a, "Unknown")
        \/ UNCHANGED << object, applications, outside >>  \* start() fails

ShellStarts(a) ==
  /\ a \in Launched
  /\ StartApplication(a, queuedStarts)
  /\ UNCHANGED << closing, authorizedPids, queue >>

(* stopApplication(), Application::close(): a Working one asks its surfaces *)
(* to close.                                                                *)
StopApplication(a) ==
  /\ HasApp(a)
  /\ LET o == FindApp(a) IN
     \/ /\ object[o].phase = "Starting"
        /\ AskToStop(a)
        /\ Remove(o, [ object[o] EXCEPT !.phase = "Gone" ])
     \/ /\ object[o].phase = "Resumable"
        /\ Remove(o, [ object[o] EXCEPT !.phase = "Gone" ])
        /\ UNCHANGED client
  /\ UNCHANGED << closing, queuedStarts, authorizedPids, job, reports >>

(* Application::respawn(), when the shell wants a resumable one again. *)
Respawn(o) ==
  /\ object[o].phase = "Resumable"
  /\ object' = [ object EXCEPT ![o].phase = "Starting" ]
  /\ queue' = Append(queue, << "launch", object[o].appId >>)
  /\ UNCHANGED << lists, authorizedPids, outside >>

-----------------------------------------------------------------------------
(* An Application on its own *)

(* Its first surface is ready. *)
Ready(o) ==
  /\ object[o].phase = "Starting"
  /\ object[o].sessions # {}
  /\ object' = [ object EXCEPT ![o].phase = "Working" ]
  /\ UNCHANGED << lists, authorizedPids, queue, outside >>

(* A fault: a closing application stays in the model. *)
StayListed(o) ==
  /\ object[o].phase = "Working"
  /\ object[o].sessions # {}
  /\ object' = [ object EXCEPT ![o].phase = "Closing" ]
  /\ closing' = closing \cup { o }
  /\ UNCHANGED << applications, queuedStarts, authorizedPids, queue, outside >>

(* Its last surface closes: onApplicationClosing(). *)
LastSurfaceCloses(o) ==
  /\ object[o].phase = "Working"
  /\ object[o].sessions # {}
  /\ object' = [ object EXCEPT ![o].phase = "Closing" ]
  /\ applications' = Without(o)
  /\ closing' = closing \cup { o }
  /\ UNCHANGED << queuedStarts, authorizedPids, queue, outside >>

(* Application::stop(), the timeout of m_stopTimer. *)
StopTimeout(o) ==
  /\ object[o].phase \in { "Working", "Closing" }
  /\ job[object[o].appId] # NoClient
  /\ ~client[job[object[o].appId]].asked
  /\ AskToStop(object[o].appId)
  /\ UNCHANGED << object, lists, authorizedPids, queue, job, reports >>

-----------------------------------------------------------------------------
(* Mir's threads *)

(* The loop of authorizeSession() over the applications that start. *)
StartingWith(c) ==
  { o \in Listed : object[o].phase = "Starting" /\ job[object[o].appId] = c }

Accept(c, a) ==
  /\ authorizedPids' = [ authorizedPids EXCEPT ![c] = a ]
  /\ client' = [ client EXCEPT ![c].state = "authorized" ]

(* A fault: a connection goes to any application that starts. *)
TakeAnyStarting(c) ==
  /\ client[c].state = "launched"
  /\ \E o \in { p \in Listed : object[p].phase = "Starting" } :
       Accept(c, object[o].appId)
  /\ UNCHANGED << object, lists, queue, job, reports >>

(* authorizeSession() of an instance of ubuntu-app-launch. *)
AuthorizeInstance(c) ==
  /\ client[c].state = "launched"
  /\ \E o \in StartingWith(c) : Accept(c, object[o].appId)
  /\ UNCHANGED << object, lists, queue, job, reports >>

(* authorizeSession() of a process with a desktop file hint: the object is  *)
(* made later, by the main thread.                                          *)
AuthorizeByHint(c) ==
  /\ client[c].state = "launched"
  /\ \A a \in AppIds : job[a] # c
  /\ HasApp(client[c].appId) \/ (Room /\ Len(queue) < MaxPosted)
  /\ Accept(c, client[c].appId)
  /\ queue' = IF HasApp(client[c].appId) THEN queue
              ELSE Append(queue, << "addApp", client[c].appId >>)
  /\ UNCHANGED << object, lists, job, reports >>

(* Mir has the session of an authorized connection. *)
SessionAdded(c) ==
  /\ client[c].state = "authorized"
  /\ Len(queue) < MaxPosted
  /\ client' = [ client EXCEPT ![c].state = "connected" ]
  /\ queue' = Append(queue, << "sessionStarting", c >>)
  /\ UNCHANGED << object, lists, authorizedPids, job, reports >>

-----------------------------------------------------------------------------
(* Posted events *)

Handle(type, x) ==
  /\ queue # << >>
  /\ Head(queue) = << type, x >>

(* addApp(): made without looking whether there is one by now. *)
AddApp(a) ==
  /\ Handle("addApp", a)
  /\ Add(a, "Unknown")
  /\ queue' = Tail(queue)
  /\ UNCHANGED << closing, queuedStarts, authorizedPids, outside >>

(* A fault: a session goes to the application last added. *)
AttachToLast(c) ==
  /\ Handle("sessionStarting", c)
  /\ queue' = Tail(queue)
  /\ authorizedPids' = [ authorizedPids EXCEPT ![c] = NoApp ]
  /\ object' = IF applications # << >>
               THEN [ object EXCEPT ![applications[Len(applications)]].sessions
                        = @ \cup { c } ]
               ELSE object
  /\ UNCHANGED << lists, outside >>

(* onSessionStarting(), addSession(): a session whose application is not in *)
(* the model has none.                                                      *)
SessionStarting(c) ==
  /\ Handle("sessionStarting", c)
  /\ queue' = Tail(queue)
  /\ authorizedPids' = [ authorizedPids EXCEPT ![c] = NoApp ]
  /\ LET a == authorizedPids[c] IN
     object' = IF a # NoApp /\ HasApp(a)
               THEN [ object EXCEPT ![FindApp(a)].sessions = @ \cup { c } ]
               ELSE object
  /\ UNCHANGED << lists, outside >>

(* What an Application becomes when its last session stops:                 *)
(* onSessionStopped(). Whether a Working one is kept depends on how far it  *)
(* was suspended, as its ProcessState tells.                                *)
AfterLastSession(r) ==
  LET gone == [ r EXCEPT !.phase = "Gone" ] IN
  CASE r.phase = "Working" /\ r.processState = "Unknown" -> { gone }
    [] r.phase = "Working" /\ r.processState = "Running" ->
         { gone, [ r EXCEPT !.phase = "Resumable", !.processState = "Suspended" ] }
    [] r.phase = "Working" /\ r.processState \notin { "Unknown", "Running" } ->
         { gone, [ r EXCEPT !.phase = "Resumable" ] }
    [] r.phase \in { "Starting", "Closing" } -> { gone }
    [] OTHER -> { r }

(* onSessionStopping(): a session some Application has leaves it. *)
SessionStopping(c) ==
  /\ Handle("sessionStopping", c)
  /\ \/ \E o \in Objects :
          /\ c \in object[o].sessions
          /\ LET less == [ object[o] EXCEPT !.sessions = @ \ { c } ] IN
             \E r \in IF less.sessions = {} THEN AfterLastSession(less) ELSE { less } :
               /\ object' = [ object EXCEPT ![o] = r ]
               /\ IF r.phase = "Gone" /\ object[o].phase # "Gone"
                  THEN /\ applications' = Without(o)
                       /\ queue' = Append(Tail(queue), << "delete", o >>)
                  ELSE UNCHANGED applications /\ queue' = Tail(queue)
     \/ /\ \A o \in Objects : c \notin object[o].sessions
        /\ queue' = Tail(queue)
        /\ UNCHANGED << object, applications >>
  /\ client' = IF client[c].state = "dead"
               THEN [ client EXCEPT ![c] = NoProcess ] ELSE client
  /\ UNCHANGED << closing, queuedStarts, authorizedPids, job, reports >>

(* A fault: the start that waited for this is not posted. *)
DeletedSilently(o) ==
  /\ Handle("delete", o)
  /\ object' = [ object EXCEPT ![o] = NoObject ]
  /\ closing' = closing \ { o }
  /\ queue' = Tail(queue)
  /\ UNCHANGED << applications, queuedStarts, authorizedPids, outside >>

(* The destructor of an Application, and the slots of destroyed(). *)
Deleted(o) ==
  /\ Handle("delete", o)
  /\ object' = [ object EXCEPT ![o] = NoObject ]
  /\ closing' = closing \ { o }
  /\ queue' = IF object[o].restart
              THEN Append(Tail(queue), << "start", object[o].appId >>)
              ELSE Tail(queue)
  /\ UNCHANGED << applications, queuedStarts, authorizedPids, outside >>

(* The queued slot of destroyed(). *)
QueuedStart(a) ==
  /\ Handle("start", a)
  /\ StartApplication(a, queuedStarts \ { a })
  /\ queue' = Tail(queue)
  /\ UNCHANGED << closing, authorizedPids >>

(* The queued slot of startProcessRequested(). *)
QueuedLaunch(a) ==
  /\ Handle("launch", a)
  /\ Launch(a) \/ UNCHANGED outside
  /\ queue' = Tail(queue)
  /\ UNCHANGED << object, lists, authorizedPids >>

-----------------------------------------------------------------------------
(* Reports of ubuntu-app-launch *)

Reported(what, a) ==
  /\ reports[a] # << >>
  /\ Head(reports[a])[1] = what
  /\ reports' = [ reports EXCEPT ![a] = Tail(@) ]

(* A fault: whoever starts is added. *)
AddWhoeverStarts(a) ==
  /\ Reported("starting", a)
  /\ Room
  /\ Add(a, "Running")
  /\ UNCHANGED << closing, queuedStarts, authorizedPids, queue, job, client >>

(* onProcessStarting(): of an unlisted one, unless it has no desktop file. *)
ProcessStarting(a) ==
  /\ Reported("starting", a)
  /\ \/ /\ ~HasApp(a)
        /\ \/ Room /\ Add(a, "Running")
           \/ UNCHANGED << object, applications >>
     \/ /\ HasApp(a)
        /\ LET o == FindApp(a) IN
           object' = [ object EXCEPT
             ![o].processState = "Running",
             ![o].phase = IF @ = "Resumable" /\ object[o].processState # "Running"
                          THEN "Starting" ELSE @ ]
        /\ UNCHANGED applications
  /\ UNCHANGED << closing, queuedStarts, authorizedPids, queue, job, client >>

(* onProcessFailed(): not for a closing application. *)
ProcessFailed(a) ==
  /\ Reported("failed", a)
  /\ \/ /\ ~HasApp(a)
        /\ UNCHANGED << object, applications, queue >>
     \/ /\ HasApp(a)
        /\ LET o == FindApp(a) IN
           Become(o, [ object[o] EXCEPT !.processState = "Failed",
             !.phase = IF @ = "Starting" /\ object[o].processState # "Failed"
                       THEN "Gone" ELSE @ ])
  /\ UNCHANGED << closing, queuedStarts, authorizedPids, job, client >>

(* onProcessStopped() *)
ProcessStopped(a) ==
  /\ Reported("stopped", a)
  /\ \/ /\ \/ FoundForStop(a) = {}
           \/ \E o \in FoundForStop(a) :
                object[o].processState \in { "Failed", "Stopped" }
        /\ UNCHANGED << object, applications, queue >>
     \/ \E o \in FoundForStop(a) :
          /\ object[o].processState \notin { "Failed", "Stopped" }
          /\ Become(o, [ object[o] EXCEPT !.processState = "Stopped",
               !.phase = IF @ \in { "Starting", "Resumable", "Closing" }
                         THEN "Gone" ELSE @ ])
  /\ UNCHANGED << closing, queuedStarts, authorizedPids, job, client >>

-----------------------------------------------------------------------------
(* Processes *)

(* Someone else has ubuntu-app-launch start an application. *)
StartedElsewhere(a) ==
  /\ a \in Launched
  /\ job[a] = NoClient
  /\ Launch(a)
  /\ UNCHANGED << object, lists, authorizedPids, queue >>

StartedByHand(c, a) ==
  /\ a \in ByHand
  /\ Reusable(c)
  /\ client' = [ client EXCEPT ![c] = [ NoProcess EXCEPT !.state = "launched",
                                                        !.appId = a ] ]
  /\ UNCHANGED << object, lists, authorizedPids, queue, job, reports >>

(* A process ends, and with it its connection and its instance. *)
Ends(c) ==
  /\ client[c].state # "dead"
  /\ \/ /\ client[c].state = "connected"
        /\ client' = [ client EXCEPT ![c].state = "dead" ]
        /\ queue' = Append(queue, << "sessionStopping", c >>)
        /\ UNCHANGED authorizedPids
     \/ /\ client[c].state # "connected"
        /\ client' = [ client EXCEPT ![c] = NoProcess ]
        /\ authorizedPids' = [ authorizedPids EXCEPT ![c] = NoApp ]
        /\ UNCHANGED queue
  /\ job' = [ a \in AppIds |-> IF job[a] = c THEN NoClient ELSE job[a] ]
  /\ \E last \in { << << "stopped", client[c].asked >> >>,
                   << << "failed", FALSE >>, << "stopped", client[c].asked >> >> } :
       reports' = [ a \in AppIds |-> IF job[a] = c THEN reports[a] \o last
                                     ELSE reports[a] ]
  /\ UNCHANGED << object, lists >>

-----------------------------------------------------------------------------

Event ==
  \/ \E a \in AppIds : AddApp(a) \/ QueuedStart(a) \/ QueuedLaunch(a)
  \/ \E c \in Clients : SessionStarting(c) \/ SessionStopping(c)
  \/ \E o \in Objects : Deleted(o)

Report(a) == ProcessStarting(a) \/ ProcessFailed(a) \/ ProcessStopped(a)

Next ==
  \/ \E a \in AppIds : \/ ShellStarts(a) \/ StopApplication(a)
                       \/ StartedElsewhere(a) \/ Report(a)
  \/ \E o \in Objects : \/ Respawn(o) \/ Ready(o) \/ LastSurfaceCloses(o)
                        \/ StopTimeout(o)
  \/ \E c \in Clients : \/ AuthorizeInstance(c) \/ AuthorizeByHint(c)
                        \/ SessionAdded(c) \/ Ends(c)
                        \/ \E a \in AppIds : StartedByHand(c, a)
  \/ Event

(* Posted events and reports are handled, stop timers fire, and a process   *)
(* that was sent a SIGTERM ends (ubuntu-app-launch kills it in the end).    *)
Fairness ==
  /\ WF_vars(Event)
  /\ \A a \in AppIds : WF_vars(Report(a))
  /\ \A o \in Objects : WF_vars(StopTimeout(o))
  /\ \A c \in Clients : WF_vars(client[c].asked /\ Ends(c))

Spec == Init /\ [][Next]_vars
FairSpec == Spec /\ Fairness

-----------------------------------------------------------------------------
(* Properties *)

TypeOK ==
  /\ object \in [ Objects -> ObjectRecord ]
  /\ applications \in Seq(Objects)
  /\ closing \subseteq Objects
  /\ queuedStarts \subseteq AppIds
  /\ authorizedPids \in [ Clients -> AppIds \cup { NoApp } ]
  /\ job \in [ AppIds -> Clients \cup { NoClient } ]
  /\ client \in [ Clients -> ClientRecord ]
  /\ queue \in Seq(Events)
  /\ reports \in [ AppIds -> Seq(Reports) ]

(* The model has no two entries of one application: startApplication()      *)
(* looks for one again before it adds, addApp() does not.                   *)
OnePerApplication ==
  \A i, j \in DOMAIN applications :
    object[applications[i]].appId = object[applications[j]].appId => i = j

(* It has none of those that are only started by ubuntu-app-launch, whatever *)
(* the shell, the reports on them and processes started by hand do meanwhile *)
(* (startApplication(), onProcessStarting(), addApp()).                      *)
OnePerLaunched ==
  \A i, j \in DOMAIN applications :
    /\ object[applications[i]].appId = object[applications[j]].appId
    /\ object[applications[i]].appId \notin ByHand
    => i = j

Posted(event) == \E i \in DOMAIN queue : queue[i] = event

(* A start asked for while the application is closing is not forgotten: the *)
(* destruction of what closes will post it, or has posted it, however the   *)
(* closing one ends (startApplication(), the slots of destroyed()).         *)
QueuedHasTrigger ==
  \A a \in queuedStarts :
    \/ \E o \in closing : object[o].appId = a /\ object[o].restart
    \/ Posted(<< "start", a >>)

(* An object is in the model, or closing, or its deletion is posted; never  *)
(* in the model and closing, and posted for deletion once, when it stopped  *)
(* (onApplicationClosing(), remove() and the slots of stopped()).           *)
EveryObjectKept ==
  \A o \in Objects :
    /\ object[o] # NoObject =>
         o \in Listed \cup closing \/ Posted(<< "delete", o >>)
    /\ o \in Listed => object[o].phase \in { "Starting", "Working", "Resumable" }
    /\ o \in closing => object[o].phase \in { "Closing", "Gone" }
    /\ Cardinality({ i \in DOMAIN queue : queue[i] = << "delete", o >> })
         = IF object[o].phase = "Gone" THEN 1 ELSE 0

(* A session is only in the application its process is an instance of,      *)
(* whichever applications started or went between authorizeSession() and    *)
(* onSessionStarting().                                                     *)
SessionsAtHome ==
  \A o \in Objects : \A c \in object[o].sessions :
    client[c].appId = object[o].appId

(* A start that startApplication() queued is carried out.                   *)
QueuedStartHappens ==
  \A a \in AppIds : a \in queuedStarts ~> a \notin queuedStarts

=============================================================================

# A verification project for qtmir

qtmir is the Qt platform plugin and the QML module with which the Unity8/Lomiri
shell becomes a Mir display server: it starts applications through
ubuntu-app-launch, authorizes their connections to Mir, shows their surfaces as
QML items, decides which of them run, are suspended, killed or kept for later,
and feeds input to them. This directory holds TLA+ models of its logic, checked
with TLC, and theorems about them, checked with TLAPS.

## The system

Three kinds of actors run in parallel:

* the Qt main thread: the QML module (`src/modules/Unity/Application`), the
  shell's QML, timers, queued signals, D-Bus and ubuntu-app-launch callbacks;
* Mir threads: session authorization, window management policy (under Mir's
  lock), input dispatch, compositing, display configuration. They reach the main
  thread through queued signals and the input queue of QWindowSystemInterface;
* the outside: client processes, Mir, ubuntu-app-launch, powerd on D-Bus.

| part | state it keeps | operations | hard about it |
|---|---|---|---|
| Application, Session (`application.cpp`, `session.cpp`) | internal state, requested state, process state, closing flag, stop timer, sessions with their surfaces, suspend timers | requests of the shell, reports on process, sessions, surfaces, timeouts | re-entrant `updateState()`, three unordered sources of reports, timers racing answers |
| SharedWakelock (`sharedwakelock.cpp`) | owners, D-Bus wakelock, cookie, cookie file | acquire, release, asynchronous reply, service loss, restart | reply after release, service restart, crash with a cookie on disk |
| ApplicationManager (`application_manager.cpp`) | the running, the closing and the queued applications, authorized pids | start, stop, reports, `authorizeSession()` from a Mir thread | check-then-act across threads, restart of what is still closing |
| TaskController (`taskcontroller.cpp`, `upstart/taskcontroller.cpp`) | list of sessions, prompt sessions | session and prompt session start/stop; start, stop, pause, resume of processes | reports by appId only |
| MirSurface, MirSurfaceItem | closing, views, exposure, focus, sizes, position, frame dropper, texture; touches and keys held down | show, hide, resize, move, close, input, frames | surface and client end independently, views come and go, sizes and frames cross |
| SurfaceManager, MirSurfaceListModel, sessions' lists | window to surface map; lists and lists of lists | window added, ready, raised, removed; sessions and prompt sessions start and stop | rows move in slots of their own signals; three owners of a surface end in any order |
| WindowModel | rows, the input method's surface | what WindowModelNotifier tells of windows, in order | the order of the rows against Mir's stack |
| WindowManagementPolicy (`windowmanagementpolicy.cpp`), WindowController | states and previous states, margins, input routing | placement, modification, raise, activate, events | runs in Mir's threads, against a main thread that lags |
| QtEventFeeder, EventBuilder | active touches, ring of events in flight | pointer, key, touch dispatch | touch sequences must be well formed after drops; ring overwritten |
| ScreensModel, Screen, ScreenWindow, QtCompositor | screens, windows, compositor on/off, scale | display changes, start and stop of compositing and of the server | Mir frees buffers while the GUI thread renders; both threads wait for each other |
| OrientationSensor, Screen | sensor started, enabled; orientation | compositor, D-Bus power, readings, screens that come | three parties start and stop one sensor |
| SurfaceObserver, Cursor | listener of a window; cursor names | what was modified, posted to the surface | the observer is connected later than Mir talks |
| SessionAuthorizer, QMirServer, clipboard, D-Bus focus info | little | start and stop of the server thread, authorization | blocking calls across threads |

What makes each of them correct:

* Application: an application is where the shell wants it or on its way; its
  process is frozen only when it may be, and after its clients had their time;
  what is being closed never comes back; what was killed unasked is kept; the
  wakelock covers every transition and no more; every transition ends.
* SharedWakelock: held while it has owners and powerd is there; given back once
  nobody owns it, also when requests overlap; no cookie forgotten; the file agrees
  with the cookie.
* ApplicationManager: one object per application, in one list at a time; a start
  asked while closing happens after the closing; an authorized connection finds
  its application.
* SurfaceManager and the lists: every list holds only what exists, a combined
  list what those it tracks hold, and everything that ended is deleted, once.
* WindowModel and the policy: the rows are the stack of Mir once all is heard.
* MirSurface: the client knows whether it is seen, has the size and is in the place
  asked for, always gets a buffer, and each of its frames is painted.
* Input: Qt sees, per touch, one press, moves and one release; what a client holds
  down is known to who must release it; an event keeps its time and its cookie.
* Screens: no window renders into a buffer Mir has freed, and stopping ends.

## Modules

The application and its process:

* `Application.tla` -- the handlers of `Application` and `Session` as operators
  on a record. Every C++ function is one operator of the same name; a signal is
  the call of the slots connected to it, in the order of the connections.
  `updateState()` is called by what it calls, through `setInternalState()`: the
  operators take it as an argument `update`, a function on states, and `Update`
  is that function unrolled four times. A call deeper than that would be
  recorded as the failed assertion `"nested too deep"`, and `AssertionsHold`
  shows that none occurs. A `Q_ASSERT` that does not hold is recorded in `failed`
  and execution goes on, as in a release build; which of them hold, and when, is
  said under "Assertions".
* `AppLifecycle.tla` -- one application with everything that acts on it. An
  action is one event of the main thread (a call of the shell, a timeout, a
  queued slot, a report) or a step of the outside (the process ends). The
  variable `app` is the Application with its sessions, its process, and the
  reports about the process that are still to come; `deleted` is the end of the
  object.
* `PublicLifecycle.tla` -- what the shell may rely on: six phases and a `doomed`
  flag. `AppLifecycle` implements it (`KeepsPromise`, by the mapping `Phase`).
* `SharedWakelock.tla` -- the wakelock all applications share: its owners, the
  asynchronous calls to powerd and their answers, powerd leaving and joining the
  bus, the file with the cookie, and a shell that is shut down, or crashes between
  two events or while it writes the file, and starts again. `enabled`, `cookie`, `file` and `available` are the `Wakelock`
  object and its file, `inbox` is what is under way to the shell, `calls` what is
  under way to powerd, `held` the locks powerd holds.
* `ApplicationManager.tla` -- which Application objects there are, in which list,
  and which process, session or report finds which of them. Of an Application
  only a phase is kept (its internal states, those between two reports put
  together), its process state and its sessions. The main thread's event queue,
  Mir's threads, ubuntu-app-launch and the processes act in any order.
* `MCAppLifecycle.tla`, `MCSharedWakelock.tla`, `MCApplicationManager.tla` -- the
  instances TLC checks.
* `AppLifecycleProofs.tla`, `SharedWakelockProofs.tla`,
  `ApplicationManagerProofs.tla` -- the theorems.

`AppLifecycle` uses the wakelock through `acquire()` and `release()`, which
cannot fail, and the manager through the list an application is in;
`SharedWakelock` and `ApplicationManager` are the other sides of these two
interfaces. Composed, they would only multiply their states: neither reads
anything else of the other.

Windows and surfaces:

* `Rows.tla` -- the part of a list that has some elements, written as a recursive
  function so that something can be proved of it; `SurfaceManager` and `WindowModel`
  use it.
* `SurfaceManager.tla` (checked through `MCSurfaceManager.tla`) -- surfaces,
  sessions, prompt sessions and all lists of them. A prompt provider is a client like
  any other and may ask for prompts itself: its prompts are rows of the prompt list
  of every session above it. The handlers are operators on a record `model`, because rows are moved and removed in slots of signals those
  changes emit; Mir's threads post notices, and windows, clients, prompt sessions
  and views end in any order.
* `WindowModel.tla` -- MirAL's windows under its lock, the policy's advices, the
  queued notices, `WindowModel`, and the shell's requests, of which
  `requestState()` reads and writes the state without the lock.
  `onWindowsRaised()` is its loop of row moves. What a queue of notices will make of
  the rows is `Foreseen`, notice by notice (`Meant`). `WindowStack.tla` is the
  abstract list of windows it implements.
* `SurfaceViews.tla` -- the items that show a surface, what the client is told of
  exposure, which views have the focus, and visibility as the shell sees it.
* `SurfaceSize.tla` -- sizes asked for by items, by the client, kept while the
  session sleeps; frames that answer an earlier request; the orientation angle.
* `SurfacePosition.tla` -- a chain of a window, its child and its child's child:
  MirAL moves the tree window by window, tells of it through the queue, and each
  surface works out its place relative to a parent read at that time.
* `SurfaceAttributes.tla` -- name, limits, chrome, input bounds and cursor of a
  window, from `handle_modify_window()` through NewWindow's copy and the observer
  to the surface, its item, and the cursor of the screen.
* `SurfaceFrames.tla` -- frames from the client to the texture: the observer, the
  main thread, the render thread, and the frame dropper.
* `Confinement.tla` -- `confirm_inherited_move()` and its helpers as operators on
  intervals.

Input:

* `TouchInput.tla` -- touches from Mir through QtEventFeeder's validation, Qt's
  queue and grab, and the item, to the client. `TouchStream.tla` is what Qt expects
  of the stream; `TouchInput` implements it.
* `KeyInput.tla` -- keys, the active focus of the scene, the window manager's
  focus and the keys a surface releases when it gets that.
* `PointerInput.tla` -- an event on its way, EventBuilder's ring and the event that
  is made anew of what the ring has for its timestamp, the pointer of the screen.

Screens:

* `ScreensModel.tla` -- Mir's thread and the GUI thread: compositor stop
  (blocking) and start (posted), configuration, `update()` by both threads, buffers,
  windows and their renderers, and `QMirServer::stop()`.
* `Orientation.tla`, `ScreenScale.tla` -- how the orientation sensor gets to the
  screens, and the scale of a screen to its windows and back.

`MCSurfaces.tla` puts the views, size, position, attributes, orientation and scale
side by side, `MCInput.tla` touches, keys and the pointer, and `MCRendering.tla`
frames and screens. `MCShell.tla` is one run of `WindowModel`, `MCSurfaces` and
`MCInput`. A behaviour chooses one `part` (`MCPart.tla`) at the beginning and the
others stay in an initial state, so that the states of the parts add up and do not
multiply. The parts share no variable: of what happens to a window in Mir (it is
added, moved, modified, focused) each has what it needs. Where they meet in the
code, in steps such as "the surface becomes ready", each has its side of the step
as an action that may happen at any time. `ShellPartsProofs.tla` proves theorems
about `MCSurfaces` and `MCInput`, `RenderingProofs.tla` about `MCRendering`,
`ShellProofs.tla` about `MCShell` and `Confinement`, `SurfaceManagerProofs.tla` about
`SurfaceManager`; `RowsProofs.tla` has the lemmas about lists they share. Every
behaviour of `MCShell` is, seen from the variables of `MCSurfaces` or of `MCInput`,
one of theirs (`ShellIsItsParts`), so what is proved of these two is what the run
`shell` checks of their parts.

Some operators begin with "A fault:". They are what a definition next to them
would be with a plausible bug in it, and no specification uses them. With the
fault in place of the definition TLC finds the property violated that
`PROJECT.json` names with it ("mutants"), which shows that the property is about
the code.

### How the state corresponds to the code

Variables have the names of the members they stand for where they have one, and
each declaration says what it is. Those that need a word more:

| model | code |
|---|---|
| `app.state`, `requested`, `processState`, `closing`, `exempt` | `m_state`, `m_requestedState`, `m_processState`, `m_closing`, `m_exemptFromLifecycle` |
| `app.stopTimer`; `session[s].state = "Suspending"` | `m_stopTimer` runs; `Session::m_suspendTimer` runs |
| `app.wakelock` | the application is in `SharedWakelock::m_owners` |
| `app.listed`, `deleteLater` | `m_applications`, `m_closingApplications`; a posted deletion |
| `session[s].list`, `closing`, `hadSurface`, `live`, `zombie` | `m_surfaceList`, `m_closingSurfaces`, `m_hadSurface`, `m_live`; a posted deletion |
| `process`, `stopAsked`, `notices`, `launch` | outside: the process, a SIGTERM sent, reports of ubuntu-app-launch under way, whether it knows the application |
| `SharedWakelock`: `owners`, `enabled`, `cookie`, `available`, `file` | `m_owners`, `m_wakelockEnabled`, `m_cookie`, `m_dbusInterface`, the cookie file |
| `ApplicationManager`: `applications`, `closing`, `queuedStarts`, `authorizedPids` | `m_applications`, `m_closingApplications`, `m_queuedStartApplications`, `m_authorizedPids` |
| `object[o].restart` | a slot of startApplication() is connected to `destroyed()` |
| `queue`, `notices`, `posted`, `events`, `toQt` | queued signals and slots, posted events and deletions, the queue of QWindowSystemInterface |
| `job`, `client`, `reports` | outside: the instance of an application, the processes, the reports on it |
| `SurfaceManager`: `surface[w]`, `model.rows`, `prompts`, `appRows`, `parent` | a MirSurface; the list of a session, of its prompt surfaces, of an Application; m_parentSession |
| `WindowModel`: `stack`, `mirState`; `extraState`, `previousState`; `rows` | MirAL's; `ExtraWindowInfo`; `m_windowModel` |
| `SurfaceFrames`: `pending`, `holding`, `dirty`, `fresh` | Mir's queue of frames; the texture has a buffer; items to be painted, items painted with it |
| `ScreensModel`: `mir`, `gui` | where each of the two threads is, and which waits for the other |

Variables marked "history" record what a property excepts or relates to; no guard
reads them, but for `pressedTwice` (KeyInput), after which a debug build is over.

Left out of the modules on `Application`: focus, fullscreen and size properties,
the roles of the model, frame droppers, and what a second application does. Left
out of `ApplicationManager`: focus and resume requests and `onProcessSuspended()`,
which change no list; connections that are rejected, or let in without an
application (maliit, QtWebProcess); long application ids; the synchronous call of
`onProcessStarting()` from `start()`, which the lookup after it turns into the
order start, report; a client that closes its connection and lives on, whose
session ends as that of a process that ended; older entries of `m_authorizedPids`
for the same pid, which are never looked at while there is a newer one, and those
of a process that ended without a session, since its next authorization puts a
newer one before it.

## Runs

| run | asks | instance |
|---|---|---|
| `app_one_client` | the wakelock is held exactly through the transitions (`WakelockUntilSuspended`); the request of the shell is heeded when all handlers have returned (`RequestHeeded`); twelve assertions of `application.cpp` hold (`AssertionsHold`, see below); closing is final; the lifecycle is the promised one (`KeepsPromise`) | two session objects, one client at a time, two surfaces |
| `app_two_clients` | what holds with two clients and no order between Mir's reports and those of ubuntu-app-launch: freezing, the stop timer, deletion of dead sessions, Stopped as a dead end | two sessions, two clients, two surfaces |
| `app_liveness` | suspensions and closings end | two session objects, one client, one surface |
| `app_closing_while_starting` | finding: applyClosing() reaches the case it says cannot be | one session, one surface |
| `wakelock` | the lock is held when it is believed to be (`EnabledMeansHeld`), nothing is held for nobody (`NothingHeldUnowned`), no cookie is lost on the way, the file is exact, powerd is called when it is there, a lock is not given back while owned | two owners, six cookies, five messages |
| `wakelock_reacquired` | finding: a request that powerd's departure breaks is never made again | one owner, four cookies, three messages |
| `manager` | lists, entries, sessions and queued starts stay consistent under every order of events | one application of ubuntu-app-launch, one started by hand; two processes, two objects |
| `manager_restart` | a start queued behind a closing application happens | one application, two processes, two objects |
| `manager_added_twice` | finding: addApp() does not look again | one application, started either way |
| `surfaces` | no list holds what was deleted, no surface is deleted while displayed (`NothingDangles`); combined lists agree with those they track, however prompt sessions nest (`ListsAgree`); what ended is reclaimed (`NothingLeaks`) | an application and two prompt providers, for it or for each other, that open two windows; or an application, one provider, two windows and an item that displays them |
| `shell` | ten parts, below | below |
| `rendering` | each frame is painted (`NoFrameMissed`); a client that waits for a buffer gets one (`ClientGetsBuffer`); no window renders into a buffer Mir freed (`RendersOnBuffer`); the server can be stopped (`StopReturns`) | one surface, two items, three buffers; two outputs, one window, three screens of an output at a time |

The parts of `shell`:

| part | property | instance |
|---|---|---|
| model | `InSync`: hearing what is queued makes the rows, their focus and state those of MirAL; `KeepsStacking`: refinement of `WindowStack` | two windows, one of which changes state, an input method's, two notices |
| views | `ViewsAgree`: exposure, focus and visibility are those of the views | two items |
| size | `GeometryAgrees`: the window has the size its item asks for, the surface its angle | three sizes, two angles |
| position | `GeometryAgrees`: a surface is where its window is | three generations, two pixels, four notices |
| attributes | `AttributesAgree`: surface, item and pointer have what was set last | one attribute that the copy carries and the cursor, two values |
| touch | `HeldIsRemembered`; `KeepsTouchStream`: refinement of `TouchStream` | two touches, two surfaces |
| key | `HeldIsRecorded` | two keys, two surfaces |
| pointer | `InfoKept`: an event told to a client is the one Mir sent | a ring of two, three events, two queued |
| device | `ScreensFollow`: the sensor works when it should, screens stand as it reads | two screens, one built in |
| scale | `ScreensFollow`: a window has its screen's scale | two windows, two screens, two scales |

`MCShell` assumes, and TLC so evaluates, two facts about pure algorithms: the moves of
rows `onWindowsRaised()` works out are a raise, whatever windows are named, in
whatever order, of up to five (`MovesAreARaise`), and a child that moves with its parent
stays within the regions it is confined to (`MovesAreConfined`, over all intervals
of ten pixels). `MovesRaise` and `MovesConfined` prove the same for all lists and all
integers; what TLC evaluates shows that the definitions say what they should before
anything is proved of them.

`SessionsStopFirst` states whether Mir reports the end of every session of a dead
process before ubuntu-app-launch reports the end of the process.
`setProcessState()` assumes it ("we assume the session always stop before the
process") and asserts it; nothing enforces it. `AssertionsHold` is checked under
it; everything in `app_two_clients` and `app_liveness` without it.

### Assertions

Of the assertions of `application.cpp` on its states, `AssertionsHold` says this, if
`SessionsStopFirst`:

* those of l.334, 369, 407, 606, 611, 617, 645 and 646 hold (`SureAssertionsHold`, which
  is proved for any number of clients);
* those of l.396 (suspended without a process), 623 and 633 (the process stops before
  its sessions, or in a state it cannot stop in) hold of an application that
  ubuntu-app-launch knows. Of one that it does not know, `stop()` takes the process for
  stopped at once, while its sessions still run, and they can fail;
* that of l.780 (the sessions are suspended unasked) holds with one client at a time.
  With two, the first may be suspended already when the other ends or is.

Two more hold by the calls alone: nobody calls `setProcessState()` with the value l.598
excludes, and `combinedSessionState()` is not asked without a session (l.751). Left
out are l.314, which is the finding `NeverClosingWhileStarting`, and l.335, which
fails of a client that outlasts the stop timer.

With two clients two properties of `app_one_client` do not hold in the code:
when one of two sessions dies while the application is Suspended, the combined
state of the sessions becomes Suspended once more, the application goes back to
SuspendingWaitProcess and waits there, without a wakelock, for a report that was
already given. They are therefore stated for one client, in the run and in the
theorems `WakelockKept` and `RequestsHeeded`. What is left of the first with any
number of clients is `WakelockFitsState`.

With `RestoredIsHeld` a shell that finds a cookie file finds the powerd that gave
the cookie, and its lock held, as the constructor takes for granted (lp:1409722).
Without it (powerd was restarted while no shell ran) `EnabledMeansHeld` and
`FileFollowsCookie` do not hold: the restored cookie is believed without asking.
So it is an assumption of the run. What is under way when a shell crashes is
lost; a lock whose answer was lost is no longer counted as the shell's. Nor is one whose
cookie was being written when the shell crashed: opening the file truncates it, and what
is written to it waits in a buffer (`sharedwakelock.cpp:142`). A shell that finds an
empty file believes in a lock of which it has no cookie, so that `RestoredIsHeld` rules
it out as well: it is the third case, with the two of a powerd restarted meanwhile, in
which the workaround for lp:1409722 does not do what it is for. There is no
liveness property of the wakelock: `NothingHeldUnowned` and `EnabledMeansHeld`
already say, of the states in which nothing is under way, what it should end in.

Deadlock is not checked in the four runs on one application (once it is deleted and
its process dead nothing is left to happen), in `rendering` (the server is
stopped in the end, and `StopReturns` says what must have happened by then) and in
`surfaces` (a window, a client and a prompt session come once, and when the bounded
number of them has come and gone nothing is left to happen). The other six are checked
for it.

### What the properties except

The agreement of two parties that talk through a queue often has an exception in
this code. Each is a history variable that the property names, so that it says
exactly when the agreement may fail:

| exception | what happens in the code |
|---|---|
| `overtaken` (WindowModel) | Mir changes the state of a window while `requestState()`, which reads it without MirAL's lock, asks for another |
| `missed` (SurfaceViews) | the surface is hidden or shown after the constructor read `is_visible()` and before it is connected to its observer |
| `crossed` (SurfaceSize) | a frame of another size than the window's was taken, or the client resized itself: a request for the size of that frame is dropped |
| `unasked` (SurfacePosition) | `setPosition()` asks the children only if the local position changed: a grandchild that stays where it is while its parent moves along with its own keeps a stale position, although the comment in `mirsurface.cpp` near line 600 has that case in mind; or a notice is heard before its move is made |
| `late` (SurfaceAttributes) | something is modified after NewWindow copied it, and told before the observer is connected: until its next change the surface has what the copy had, which the property states |
| `unheard` (SurfaceAttributes) | the cursor changes while the screen has no pointer, or the screen is replaced under the item: the Cursor forgets it |
| `since`, `heard` (Orientation) | `enable()`, or the display's power, starts a sensor the compositor had stopped, as `stop()` never resets `m_started`, or stops one; a new screen has the default orientation until the next reading |
| `unheard` (ScreenScale) | a platform window made anew, whose constructor tells of the scale before `handle()` is set; a window overwritten on its screen by another |
| `blank` (SurfaceFrames) | the last item lets go of a texture that was updated and not yet swapped: the next texture is not updated for that frame |
| `unheard` (SurfaceFrames) | frames posted before anything listened and never told again, though a comment near `mirsurface.cpp:240` counts on it |
| `neglected` (SurfaceFrames) | a surface is asked to close while its session is suspended, and has left the session's list when `doResume()` starts the frame droppers of those in it: its client may wait for a buffer until the close timer ends it |
| `raced`, cloned outputs, dark screen (ScreensModel) | `update()` runs in two threads; one screen of several gets a buffer; a window is made on a screen that is off |
| `reset`, `mixed`, age, stamp 0 (PointerInput) | the start time EventBuilder counts from was set anew since the event was stored; the ring still has entries of before that, one of which may have the same stamp; the ring has gone round; the event that set the start time gets the stamp of a synthetic one |
| `missed` (TouchInput) | the item is given another surface, or stops to consume input, while it is touched |

What else was met while modelling, and has no run of its own:
the previous state of a window may be minimized (`windowmanagementpolicy.cpp:305`);
`endCurrentTouchSequence()` sends a touch that was pressed as pressed once more
(`mirsurfaceitem.cpp:403`); `keyPressEvent()` asserts that a key is not
pressed twice, which a focus that comes and goes makes possible
(`mirsurface.cpp:755`; KeyInput has `pressedTwice` for it); `applyClosing()` asserts a
timer that may have fired (`application.cpp:335`), and three more assertions fail of an
application that ubuntu-app-launch does not know (l.396, 623, 633); the focus of a
surface's views is told to nobody, the call is commented out (`mirsurface.cpp:522`); a
report about an old instance
stops the new one (`application_manager.cpp:436`); the Cursor of a new Screen does not
read `Mir::cursorName`; nothing is connected to the change of an item's `name`;
`setScaleAndFormFactor()` writes the scale of all outputs from what the Screens
have, which may be older than Mir's.

### Bounds

Two surfaces show a list that is neither empty nor full, and "the last one
closes while another is closing". Two session objects allow a client that
reconnects while the session of the previous one still lingers as a zombie.
Nothing else is bounded: at most two reports are under way for a process, and a
process is started again only after it ended, so the state space is finite.

`SharedWakelock` has two bounds. `MaxMessages` limits what is under way, in the
guards of the owners and of the outside; five allow two requests, two answers and
the news that powerd left. Cookies are fresh, and six are as many as five
messages and the shell can know. It assumes that messages of one sender
stay in order, and that a call powerd did not get is answered by the bus.

`ApplicationManager`: `Objects` are two, so that one application can be on its
way out while its successor is there, or two run. Two processes are an old and a
new instance, or two that connect at once. `MaxReports` limits the reports under
way when an instance is launched, one that ends adds up to two to them;
`MaxPosted` limits the queue when an outsider posts to it (a session, a hint), so
that events of both are queued with deletions and starts. start() may fail in
the code; the model lets it fail when a bound is met. Of the two applications of
`manager` only one is started by ubuntu-app-launch, the other only by hand: one
that is started in both ways has two entries soon (`manager_added_twice`).

In `surfaces`, one notice may be under way when the next is posted (`MaxNotices`), which
lets every pair of events of different actors overlap; two windows are two surfaces of
one list or of a parent and a child session. `MaxMade` is how much may ever be made:
clients that connect and prompt sessions count one, windows two. Seven are three clients
in a chain of two prompt sessions and a window of any of them, two clients, a prompt
session and two windows, or three clients and two windows. To keep the run small, a behaviour (`MCSurfaceManager.tla`)
either displays nothing ("nested") or has no second provider and no prompts of a
provider ("displayed"). A window's object is used once: a window that ended does not come
back.

Of Mir, `SurfaceManager` takes two things for granted: a session asks for one prompt
session in its life, and a provider is connected for one prompt session, of a
session that was there before it, so that no chain of prompts closes to a ring.

In `shell` and `rendering` the queues hold one to four notices when another is
posted (`MaxNotices`, `MaxViewNotices`, `MaxTouchEvents`, `MaxKeyEvents`,
`MaxFocusNotices`, `MaxQueued`, `MaxPosted`, `MaxReadings`, `MaxMoves`,
`MaxScaleNotices`; each module says what its bound counts). The queues are in order, so
one notice behind another shows what a lag of any length does to a property about
a pair of events. Two windows suffice to exchange rows; for longer lists there are
`MovesAreARaise` and its proof. Three sizes are the one drawn, the one asked for, and
one asked for in between. Three windows in a row are what the recursion of
`setPosition()` needs. A ring of two events stands for one of ten:
`RingSize` is a constant, and a third event goes round. Time is bounded by
`MaxTime` and `MaxEvents`, the timestamps of Qt by `MaxStamp`. In `ScreensModel`,
`Incarnations` bounds how many Screen objects of an output there are at a time; the
instance has one window, so that the exception for an overwritten one is not met in it.

### Fairness

`AppLifecycle!Fairness` asks that timers fire, posted deletions happen, Mir
reports the end of the sessions of a dead process, ubuntu-app-launch's reports
arrive, and a process that was sent a SIGTERM dies (ubuntu-app-launch and
`terminate()` send a SIGKILL 5 s later). Nothing is asked of the shell, of
clients, or of when a dead surface leaves the screen. For actions that run
`updateState()` the guard stands in for ENABLED; the stop timer is relied upon
only in state Closing, where nothing stops it. `ClosingEnds` leaves out
applications started by hand: ubuntu-app-launch knows them, so `stop()` succeeds,
but it has no instance to stop, and `MirSurface::onCloseTimedOut()` leaves a
closing application alone.

In `ApplicationManager`, posted events and reports are handled, stop timers fire,
and a process that was sent a SIGTERM ends; nothing is asked of the shell, of
Mir's threads, or of processes nobody stopped. `QueuedStartHappens` says that the
start leaves the queue when it is carried out; ubuntu-app-launch may refuse it.

In `SurfaceFrames`, the main thread runs: the observer is connected, its signals
are heard, the frame dropper's timer fires and its posted start is carried out.
That anything is painted is not assumed, nor that an item shows the surface: this
is what the frame dropper is for.

In `ScreensModel`, each thread goes on while it can, weakly fair, since nothing but the
other thread stops either. `Terminate`, which ends Mir's main loop, is strongly fair: it
is in the queue of that loop, behind at most finitely many display changes. `Wait` is
the end of QMirServer's wait for the thread: it has ended, or is caught in a call to the
GUI thread, and the ten seconds are over. The thread is then ended by
`QThread::terminate()`, of which nobody hears the end, some time later (`Killed`): nothing
is asked of when. `StopReturns` allows it only of a thread that was caught before its
stop callback. One that got there must have ended by itself, since `terminate()` of
ScreensModel has cut it off from the GUI thread before it waits for that again. Nothing
is asked of displays and windows.

## Proofs

All theorems are about every value of the constants: any sets of sessions,
surfaces, clients, owners, windows, screens and touches, and any bounds on what
is under way. The assumptions used are those the modules name. They ask for
placeholders that are none of the values they stand for (`NamesAssumption`,
`CookieAssumption`, `NoneAssumption`, ...), for numbers to be numbers, for initial
values to be in their sets, for a ring of at least one event, and that a bound
leaves room for what a window or a screen begins with (`MaxNotices >= Depth`,
`Incarnations >= 3`). Where children, touches or windows are gone through one by one, the sets
are finite (`SessionsAssumption`, `TouchAssumption`, `ScalesAssumption`), as are the lists
they are kept in. `SessionsStopFirst`, `RestoredIsHeld` and `MaxClients = 1` are hypotheses of the
theorems that need them and of no others.

| theorem | says | in |
|---|---|---|
| `TypeCorrect`, `NeverFrozen` | `TypeOK`, `NeverFrozenAtWork` | `AppLifecycleProofs` |
| `WakelockFitsState` | the wakelock is held while the application starts, runs or closes, and never but then and while it is being suspended | `AppLifecycleProofs` |
| `NoWayBack`, `CloseIsFinal` | `StoppedIsDeadEnd`, `ClosingIsFinal` (action properties) | `AppLifecycleProofs` |
| `FrozenLast`, `TimerSparesSurfaces`, `SessionsCollected` | `FrozenAfterSessions`, `StopTimerSparesSurfaces`, `DeadSessionsCollected` | `AppLifecycleProofs` |
| `AssertionsKept` | `SureAssertionsHold`, the part of `AssertionsHold` on eight assertions and the depth of calls, if `SessionsStopFirst` | `AppLifecycleProofs` |
| `PromiseKept` | `KeepsPromise`: `AppLifecycle` implements `PublicLifecycle` | `AppLifecycleProofs` |
| `WakelockKept`, `RequestsHeeded` | `WakelockUntilSuspended`, `RequestHeeded`, if `MaxClients = 1` | `AppLifecycleProofs` |
| `TypeCorrect`, `LocksRemembered`, `InterfaceThere` | `TypeOK`, `NoCookieForgotten`, `CallsHaveInterface` | `SharedWakelockProofs` |
| `FileExact`, `LockIsReal`, `NoLockUnowned` | `FileFollowsCookie`, `EnabledMeansHeld`, `NothingHeldUnowned`, if `RestoredIsHeld` | `SharedWakelockProofs` |
| `LockOfOwnersKept` | `OwnedLockKept` (action property) | `SharedWakelockProofs` |
| `TypeCorrect`, `OneEntryEach`, `StartsTriggered`, `SessionsAreAtHome`, `ObjectsAreKept` | `TypeOK`, `OnePerLaunched`, `QueuedHasTrigger`, `SessionsAtHome`, `EveryObjectKept` | `ApplicationManagerProofs` |
| `ViewsTold`, `GeometryKept`, `AttributesTold`, `ScreensTold` | `ViewsAgree`, `GeometryAgrees`, `AttributesAgree`, `ScreensFollow` | `ShellPartsProofs` |
| `TouchStreamKept` | `KeepsTouchStream`: `TouchInput` implements `TouchStream` | `ShellPartsProofs` |
| `TouchesRemembered`, `KeysRecorded`, `InfoIsKept` | `HeldIsRemembered`, `HeldIsRecorded`, `InfoKept` | `ShellPartsProofs` |
| `ShellInSync`, `ShellKeepsStacking` | `InSync`; `KeepsStacking`: `WindowModel` implements `WindowStack` | `ShellProofs` |
| `MovesRaise` | the moves of rows of `onWindowsRaised()` are a raise, of any rows | `ShellProofs` |
| `MovesConfined` | `confirm_inherited_move()` keeps a child within its regions, for all integers | `ShellProofs` |
| `ShellIsItsParts` | a behaviour of `MCShell` is one of `MCSurfaces` and one of `MCInput` | `ShellProofs` |
| `SurfacesTyped`, `SurfacesStand`, `CombinedListsAgree`, `SurfacesAreReleased` | `TypeOK`, `NothingDangles`, `ListsAgree`, `NothingLeaks` | `SurfaceManagerProofs` |
| `FramesPainted`, `BuffersAreThere` | `NoFrameMissed`, `RendersOnBuffer` | `RenderingProofs` |

### One application

The first invariant of `AppLifecycleProofs` is `deleted \in BOOLEAN /\ app \in Sane`,
where `Sane` holds the well-typed states in which a frozen process has its application
in SuspendingWaitProcess, Suspended or Stopped, the wakelock fits the state, and a
session without an attachment is Stopped. The argument follows the code: a lemma per function,
`Keeps(update)` as the hypothesis about the recursive call of `updateState()`, and
a lemma that discharges it level by level.

What the other theorems need is more, and some of it does not hold in the middle
of a handler. The invariant `AppInv` is therefore layered:

* `Core` holds even between two calls inside a handler. `Filed`: the list an
  application is in, its deletion and `closing` follow its state. `PausedIn`: a
  session is suspending or suspended only if the application waits for it.
  `LiveOnes`: a session is Stopped exactly when its client is gone. `Told` and
  `FollowsIn`: which reports of ubuntu-app-launch can be under way at all, and that
  they contradict no state of the application -- "suspended" finds it in
  SuspendingWaitProcess or Stopped, "starting" finds quiet sessions, and no report
  but ends is under way for one that is to be started again. `Frozen`: the clients
  of a frozen process are suspended or gone.
* `Calm` and `Timers` hold when `updateState()` has returned: an application that is
  to be closed is in no state that it would leave, and the stop timer does not run
  against a surface on the screen.
* `Ended` and `Zombies` hold when the handler has returned.

`Told` and `FollowsIn` are what makes the rest inductive: without them a late report
could bring a stopped application back. That `updateState()` is called by what it
calls makes an induction over its depth necessary; `Settled` and `Outcome` say of
one call, in one step, what state it may leave, given that the inner calls do what
they say. `AssertionsKept` shows of the unrolled depth, too, that it is enough.
`PromiseKept` maps each event to a step of `PublicLifecycle` or a stutter, from
the same lemmas (`Promised`, which every function keeps and which composes).

`WakelockUntilSuspended` and `RequestHeeded` are about the end of a handler and need
another layer, `Answering`. `Alert` holds wherever `updateState()` is called: the
wakelock is right, and a suspend timer runs only while the application waits for its
sessions. `Heeding` is what each call of `updateState()` establishes, whatever it finds:
an application that is not closing is where the shell wants it. What a handler does
after its last call must then be a change that `updateState()` would not see
(`LooksSame`: which lists of surfaces are empty, which sessions are there), and this is
the substance of `RequestHeeded`: no path ends without the call it needs. `OneClient`
keeps the rest away. A client that dies leaves no other whose suspended session would
be taken for the application's, and a new client finds every other session dead.
Neither theorem needs `SessionsStopFirst`, under which the run checks them.

### The wakelock

The invariant `IInv` of `SharedWakelockProofs` adds to types and
`NoCookieForgotten` what the order of the bus gives: `AnswersInOrder`, an answer is
delivered when the shell takes powerd for what it was when the answer was sent;
`NoEndAfterLock`, no news that powerd left follows a lock it still holds; and
`NothingWhenGone`. They are needed because `onWakeLockAcquired()` and
`onServiceAvailableChanged()` look at different pieces of state: that one never
undoes the other is a fact about the order of their messages. `FInv` adds, for the
file, that a shell with a cookie wants the lock and takes powerd for there.

`LockIsReal` says of the end of every exchange that the lock is held. On the way,
`EnabledWillHold` says that a lock that is wanted is held, or that a request or an
answer is under way that leads to it. It survives the end of powerd because behind each
cookie of before the queue has news of that end (`EndIsToCome`), and
`clearSysState` because each cookie is in one place only (`OneOfEach`).

### The manager of applications

The invariant `IInv` of `ApplicationManagerProofs` has four parts. `ObjectsInv`:
each object is in the list its phase says, once, and posted for deletion once if it
has stopped. `ClientsInv`: what the queue has of a client is, in this order, the
start of its session and its stop, each once; the object with the session is the
one it was let in for; an entry of `authorizedPids` names the application of the
process it is about. `InstancesInv`: what `job` says agrees with the processes, and
`addApp()` is only posted of applications that are started by hand. `Singles`: one
entry of each application that ubuntu-app-launch alone starts. `SessionsAtHome` is
not inductive without them: between `authorizeSession()` in Mir's thread and
`onSessionStarting()` in the main thread the application may be stopped, deleted and
started again, and that the right one gets the session is a fact about pids and the
order of the queue. Most handlers change one object, which stays in its list or
leaves the model; the lemmas are about such a change (`Altered`), and say of the
queue only what it keeps (`Keeps`).

### Lists of surfaces

The invariant of `SurfaceManagerProofs` is `Whole`. `ModelRight` says of the sessions
that a list holds only ready surfaces of its session, so that the lists of different
sessions are disjoint, that a combined list has the elements of those it combines
with their order (`Comb`): the list of an application those of its sessions, a prompt
list those of all sessions `Below`, which are the children, theirs and so on. It
says that no session is above itself, and that a session that is gone has left no trace in any
list, registry or parent. `SurfacesRight` says that a surface has a session and
children only while it is there, `KeptAll` that a session that has died is kept by a
surface or a child, and `ViewsRight` who still has a surface: the manager, a client, or a
view. `Announced` and `Unheard` are about the order of Mir's notices: what is announced
is announced once and is not there yet, and of what Mir has not done nobody has heard.
Without these two a window announced twice would be in a list twice. `Provided` says that
the parent a session has or will get is the one Mir made it for, from which it follows that
a chain of prompts does not close.

That rows are removed in slots of the signals that removing them emits, makes the
intermediate states matter. Each lemma is about one such call, and says what it leaves
alone (`Steady`), so that the calls can be put together in the order of the
connections. What nests needs lemmas about `Above` and `Below`, which are
defined without recursion, as the least set closed under the parent: that a child that
is added brings what is below it under all that is above (`AboveGrown`), and that
deleting a session with all below it leaves the others where they were (`AboveCut`,
`GoneRight`). The rows of a prompt list are then those of a set of sessions before and
after, whatever the depth. TLC checked `Whole` on the instance of the run `surfaces`
before it was proved.

### The window model

`ModelInv` is about the queue of notices. `NoticesLead`: there are views, one for each
notice, that begin with what the shell has now, each following from the last by hearing
one notice (`Hearing`), such that each notice says something of the view it finds
(a window is removed or raised only if it is there, and added only if it is not), and
the last is MirAL's state (`Synced`). MirAL's steps add a view at the end, hearing
drops the first. `RequestIsRight` is about `requestState()`, which has read the state
of a window and is yet to tell of it: what it has read is still so, unless Mir changed the
state since (`overtaken`). `InSync` follows as `Foreseen` is the last of the views.

Refinement of `WindowStack` rests on `onWindowsRaised()`. It works out all moves of
rows before it makes the first, from where the rows are now, and corrects each for
those made before. `Halfway` says where every row is when the k highest are moved: those
on top in the order they were named, each other one lower by the number of the moved that
were under it, and in the old order. `MovesRaise` is the end of that induction, without
the bound of five rows that TLC has.

### Surfaces, screens and input

Each part has an invariant of its own, of the same shape: what the last notice of
a kind in the queue says, or the receiver has if there is none, is what the
sender has. The property is that for an empty queue.

* `ViewsInv`: exposure follows the views, the last state told of is Mir's, and what
  the surface says of its visibility is true or a notice will have it look again.
* `SizeInv`: a request that waits does so for a client that does not run.
  `PositionInv`: the last move of a window told of says where it is or is going, a
  surface of which and of whose parent nothing is queued is in its place, and a
  surface is made before its window's moves are heard.
* `AttributesInv`: before the observer is connected, nothing is posted; after, the last
  post of an attribute agrees, or what the surface has if there is none. Of an attribute
  that was set too early nothing is posted, and the surface has the copy's
  (`LateAgrees`). The theorem therefore says what is lost: two kinds of changes,
  `late` and `unheard`, which the code loses, and no others.
* For the device and the scale: what the screens have is what was read last, or it is
  posted.
* `TouchInv`: each event in Qt's queue continues the stream where the one before it
  left it, and `mActiveTouches` is where the last one leaves it (`Chained`): this is
  the refinement of `TouchStream`; what a client holds is what its item takes to be
  down, and the item has grabbed all of that or nothing.
* `KeyInv`: no key is recorded twice until the assertion fails.
* `PointerInv`: an entry of the ring that was stored since the start time was set
  has a stamp counted from it, an event on its way has its entry in the ring until
  that has gone round. The invariant showed that a ring with entries of before a
  reset may answer with another event of the same stamp; `mixed` is there for it.
* `FrameInv`: a surface has no item before it listens; what an item painted last is
  the texture's buffer while there is one.
* `ScreenInv`: `Handshake`, what the two threads agree on (Mir's thread waits with
  "stopping" in the queue until the GUI thread has handled it); and as long as
  `update()` never ran in both at a time, that one thread has the screens, a window
  that renders is the one its screen knows, none renders from when the compositor
  is stopped until the screens are matched (`Dark`), and outside of that time each
  lit screen has a buffer that is there (`Fresh`).

### Only model-checked

* Liveness: `SuspensionEnds`, `ClosingEnds`, `QueuedStartHappens`, `ClientGetsBuffer` and
  `StopReturns`. Fairness and ENABLED are out of the prover's reach.
* Of `AssertionsHold`, the assertions of l.396, 623, 633 and 780, with their conditions.
  All other properties of the passing runs are stated by a theorem.
* That the assumption a theorem names is met by the instances, and that what happens in
  a property happens at all: TLC evaluates the first, and the mutants show the second.
* The three findings, which are counterexamples.

Inductions are made over the number of elements, with the least number for which
something fails: recursive functions (`Rows`, `Foreseen`) are reached by it, folds and
recursive operators are not.

Types are proved where a theorem says so and no run repeats them; elsewhere they
are part of the invariants above.

## Not modelled

* Clipboard: a pass-through to the content hub service.
* Display configuration: modes and scales chosen from EDID data and a file, a pure
  function of what the devices say.
* D-Bus focus information: a query over the sessions, answered in one step.
* Processes, settings, time: reads of `/proc`, GSettings and clocks, whose outcomes
  are choices in `ApplicationManager`.
* Logging, conversions, plugin registration, demos and tests.

Of the parts modelled, these are left out: roles of the list models that only
repeat a member; the initial place and size of a window, which MirAL decides; the
keymap of a surface or of the devices (set, and forgotten); mouse, wheel and hover
events of an item, which are passed on; the fill mode and Qt's scene graph; the
table of key codes; sizes, formats and refresh rates of a screen; and the map of
observers, which two threads use under different locks
(`surfaceobserver.cpp`), an undefined behaviour whose outcomes are not those of any
model.

---------------------------- MODULE SurfaceManager ----------------------------
(***************************************************************************)
(* The surfaces of clients and the lists the shell has of them.            *)
(*                                                                         *)
(* Mir's threads post notices of sessions, windows and prompt sessions to  *)
(* the main thread. SurfaceManager makes a MirSurface of each window; a    *)
(* Session lists those of its client that have drawn, and hides those it   *)
(* was asked to close; the list of an Application combines those of its    *)
(* sessions, and the prompt list of a session those of its children and    *)
(* their prompt lists, as a prompt provider may ask for prompts itself.    *)
(* Items of the shell display surfaces, which may outlive window and       *)
(* session.                                                                *)
(***************************************************************************)
EXTENDS Integers, Sequences, SequencesExt, FiniteSets, Rows

CONSTANTS
  Windows,        (* windows of clients, and the MirSurface of each         *)
  Sessions,       (* sessions of clients, and the Session of each           *)
  Apps,           (* those that ApplicationManager finds an application for *)
  Providers,      (* those that are connected for a prompt session          *)
  Items,          (* MirSurfaceItems of the shell                           *)
  None,           (* none of any of these                                   *)
  MaxNotices,     (* a bound: notices on their way when Mir posts one       *)
  MaxMade         (* a bound: clients that connect, prompt sessions they    *)
                  (* start and windows, each counted twice, they open       *)

ASSUME NoneAssumption == None \notin Windows \cup Sessions
ASSUME SessionsAssumption == IsFiniteSet(Sessions)
ASSUME RolesAssumption == Apps \subseteq Sessions /\ Providers \subseteq Sessions
ASSUME BoundsAssumption == MaxNotices \in Nat /\ MaxMade \in Nat

VARIABLES
  window,         (* Mir: what has become of each window                    *)
  client,         (* Mir: what has become of the client of each session     *)
  prompt,         (* Mir: the prompt session that a session has asked for   *)
  provides,       (* Mir: the session whose prompts a provider was made for *)
  notices,        (* signals of Mir's threads, queued for the main thread   *)
  surface,        (* MirSurface: object, m_live, m_ready, whether           *)
                  (* m_closingState is set, m_session, m_views and          *)
                  (* m_childSurfaceList                                     *)
  known,          (* m_allSurfaces                                          *)
  taken,          (* history: surfaces displayed again while on their way out *)
  model           (* the sessions and all lists: see Model                  *)

mirVars == << window, client, prompt, provides, notices >>
surfaceVars == << surface, known, taken >>
vars == << mirVars, surfaceVars, model >>

(* A list without duplicates.                                               *)
Rows == { l \in Seq(Windows) : IsInjective(l) }

Surface ==
  [ object : { "none", "alive", "doomed", "gone" },
    live : BOOLEAN, ready : BOOLEAN, closing : BOOLEAN,
    session : Sessions \cup { None }, views : SUBSET Items, children : Rows ]

(* object: a "zombie" is a Session whose m_live is not set, a "doomed" one   *)
(* was asked to deleteLater(); known: m_sessionList of TaskController;      *)
(* rows, closing: m_surfaceList and m_closingSurfaces; parent: the session  *)
(* whose m_children has it; prompts: m_promptSurfaceList; attached:         *)
(* m_sessions of the Application, appRows and proxied its m_surfaceList and *)
(* the source of its m_proxyPromptSurfaceList; prompted: the sessions that  *)
(* m_mirPromptToSessionHash has for the prompt sessions they asked for,     *)
(* asking: those whose m_promptSessions has it; stopped: those in the state *)
(* Stopped.                                                                 *)
Model ==
  [ object : [ Sessions -> { "none", "live", "zombie", "doomed", "gone" } ],
    known : SUBSET Sessions,
    rows : [ Sessions -> Rows ], closing : [ Sessions -> SUBSET Windows ],
    parent : [ Sessions -> Sessions \cup { None } ], prompts : [ Sessions -> Seq(Windows) ],
    attached : SUBSET Sessions, appRows : Seq(Windows), proxied : Sessions \cup { None },
    prompted : SUBSET Sessions, asking : SUBSET Sessions, stopped : SUBSET Sessions ]

TypeOK ==
  /\ window \in [ Windows -> [ state : { "none", "new", "drawn", "closed" },
                              client : Sessions \cup { None } ] ]
  /\ client \in [ Sessions -> { "none", "running", "ended" } ]
  /\ prompt \in [ Sessions -> { "none", "running", "ended" } ]
  /\ provides \in [ Sessions -> Sessions \cup { None } ]
  /\ surface \in [ Windows -> Surface ]
  /\ known \subseteq Windows /\ taken \subseteq Windows
  /\ model \in Model

NoSurface ==
  [ object |-> "none", live |-> FALSE, ready |-> FALSE, closing |-> FALSE,
    session |-> None, views |-> {}, children |-> << >> ]

Init ==
  /\ window = [ w \in Windows |-> [ state |-> "none", client |-> None ] ]
  /\ client = [ s \in Sessions |-> "none" ]
  /\ prompt = [ s \in Sessions |-> "none" ]
  /\ provides = [ s \in Sessions |-> None ]
  /\ notices = << >>
  /\ surface = [ w \in Windows |-> NoSurface ]
  /\ known = {} /\ taken = {}
  /\ model =
       [ object |-> [ s \in Sessions |-> "none" ], known |-> {},
         rows |-> [ s \in Sessions |-> << >> ], closing |-> [ s \in Sessions |-> {} ],
         parent |-> [ s \in Sessions |-> None ], prompts |-> [ s \in Sessions |-> << >> ],
         attached |-> {}, appRows |-> << >>, proxied |-> None,
         prompted |-> {}, asking |-> {}, stopped |-> {} ]

Exists(m, s) == m.object[s] \in { "live", "zombie", "doomed" }
ChildrenOf(m, s) == { c \in Sessions : m.parent[c] = s }

(* The parent of a session, its parent and so on.                           *)
Upward(parent, family) == \A s \in family : parent[s] # None => parent[s] \in family

AboveIn(parent, s) ==
  IF parent[s] = None THEN {}
  ELSE { a \in Sessions : \A family \in SUBSET Sessions :
           parent[s] \in family /\ Upward(parent, family) => a \in family }

Above(m, s) == AboveIn(m.parent, s)
Below(m, s) == { d \in Sessions : s \in Above(m, d) }

------------------------------------------------------------------------------
(* MirSurfaceListModel.                                                     *)

Raised(rows, w) ==
  IF Contains(rows, w) THEN << w >> \o Without(rows, { w }) ELSE rows

(* prependSurface() on the list of a session, and prependSurfaces() on the  *)
(* lists that track it and on those that track these, by rowsInserted().    *)
PrependRow(m, s, w) ==
  [ m EXCEPT
      !.rows[s] = << w >> \o @,
      !.appRows = IF s \in m.attached THEN << w >> \o @ ELSE @,
      !.prompts = [ p \in Sessions |->
                      IF p \in Above(m, s) THEN << w >> \o m.prompts[p] ELSE m.prompts[p] ] ]

(* deleteIfZombieAndEmpty().                                                *)
DeleteIfZombieAndEmpty(m, s) ==
  IF m.object[s] = "zombie" /\ ChildrenOf(m, s) = {} /\ m.rows[s] = << >>
    THEN [ m EXCEPT !.object[s] = "doomed" ] ELSE m

(* removeSurface() on the list of a session: rowsAboutToBeRemoved() takes   *)
(* the row from the lists that track it and from those that track these,    *)
(* emptyChanged() may be the end of the session.                            *)
RemoveRow(m, s, w) ==
  IF ~ Contains(m.rows[s], w) THEN m
  ELSE DeleteIfZombieAndEmpty(
         [ m EXCEPT
             !.rows[s] = Without(@, { w }),
             !.appRows = IF s \in m.attached THEN Without(@, { w }) ELSE @,
             !.prompts = [ p \in Sessions |->
                             IF p \in Above(m, s) THEN Without(m.prompts[p], { w })
                                                  ELSE m.prompts[p] ] ], s)

(* focusedChanged(): every list that has the surface raises it.             *)
RaiseRows(m, w) ==
  [ m EXCEPT !.rows = [ s \in Sessions |-> Raised(m.rows[s], w) ],
             !.appRows = Raised(@, w),
             !.prompts = [ s \in Sessions |-> Raised(m.prompts[s], w) ] ]

------------------------------------------------------------------------------
(* Session and TaskController.                                              *)

(* The application's proxy shows the prompts of one of its sessions.        *)
SetSourceList(m, s) == [ m EXCEPT !.proxied = s ]

(* Application::addSession().                                               *)
Attach(m, s) ==
  SetSourceList(
    [ m EXCEPT !.attached = @ \cup { s }, !.appRows = m.rows[s] \o @ ], s)

(* onPromptSessionStopping(), of the prompt sessions of these sessions: one *)
(* that TaskController no longer has keeps its own.                         *)
PromptsStopped(m, askers) ==
  [ m EXCEPT !.asking = @ \ (askers \cap m.known), !.prompted = @ \ askers ]

(* stopPromptSessions(), of a session and of all below it, which Mir        *)
(* answers at once, on this thread.                                         *)
StopPromptSessions(m, s) == PromptsStopped(m, m.asking \cap ({ s } \cup Below(m, s)))

(* stop(), which goes on to the children of a session that it stops.        *)
Stop(m, s) ==
  IF s \in m.stopped THEN m
  ELSE [ StopPromptSessions(m, s) EXCEPT
           !.stopped = @ \cup { d \in { s } \cup Below(m, s) :
             \A b \in { d } \cup Above(m, d) : b \in Below(m, s) => b \notin m.stopped } ]

(* A fault: the prompts that the child has asked for are not taken over.    *)
AddChildAlone(m, s, c) ==
  LET added == [ m EXCEPT
        !.parent[c] = s,
        !.prompts = [ p \in Sessions |-> IF p \in { s } \cup Above(m, s)
                        THEN m.rows[c] \o m.prompts[p] ELSE m.prompts[p] ] ]
  IN IF s \in m.stopped THEN Stop(added, c) ELSE added

(* addChildSession(): the rows of the child and those of its own prompts.   *)
AddChild(m, s, c) ==
  LET added == [ m EXCEPT
        !.parent[c] = s,
        !.prompts = [ p \in Sessions |-> IF p \in { s } \cup Above(m, s)
                        THEN m.prompts[c] \o m.rows[c] \o m.prompts[p] ELSE m.prompts[p] ] ]
  IN IF s \in m.stopped THEN Stop(added, c) ELSE added

(* The lists that track those of sessions that go lose their rows.          *)
Gone(m, dying) ==
  LET lost == UNION { ToSet(m.rows[d]) : d \in dying } IN
  [ m EXCEPT
      !.object = [ d \in Sessions |-> IF d \in dying THEN "gone" ELSE @[d] ],
      !.known = @ \ dying,
      !.rows = [ d \in Sessions |-> IF d \in dying THEN << >> ELSE @[d] ],
      !.closing = [ d \in Sessions |-> IF d \in dying THEN {} ELSE @[d] ],
      !.parent = [ d \in Sessions |-> IF d \in dying THEN None ELSE @[d] ],
      !.prompts = [ p \in Sessions |-> IF p \in dying THEN << >> ELSE Without(@[p], lost) ],
      !.attached = @ \ dying,
      !.appRows = Without(@, lost),
      !.proxied = IF dying \cap m.attached = {} THEN @ ELSE None,
      !.asking = @ \ dying,
      !.stopped = @ \ dying ]

(* ~Session(), with removeSession() and removeChildSession(): the children, *)
(* whoever they belong to, and theirs are deleted with it.                  *)
DeleteSession(m, s) ==
  LET gone == Gone(StopPromptSessions(m, s), { s } \cup Below(m, s))
  IN IF m.parent[s] = None THEN gone ELSE DeleteIfZombieAndEmpty(gone, m.parent[s])

(* The QPointers to sessions that are gone.                                 *)
Cleared(m) ==
  [ w \in Windows |->
      IF surface[w].session # None /\ m.object[surface[w].session] = "gone"
        THEN [ surface[w] EXCEPT !.session = None ] ELSE surface[w] ]

(* setLive(false), for a session that is still live: so are its surfaces,   *)
(* those that close included, for the last time. It is Stopped.             *)
Died(m, s) ==
  IF m.object[s] # "live" THEN m
  ELSE DeleteIfZombieAndEmpty([ m EXCEPT !.object[s] = "zombie", !.stopped = @ \cup { s } ], s)

DiesWith(w, s) ==
  model.object[s] = "live" /\ (Contains(model.rows[s], w) \/ w \in model.closing[s])

SurfacesAfter(s) ==
  [ w \in Windows |-> IF DiesWith(w, s) THEN [ surface[w] EXCEPT !.live = FALSE ] ELSE surface[w] ]

------------------------------------------------------------------------------
(* Mir's threads.                                                           *)

Post(notice) ==
  /\ Len(notices) < MaxNotices
  /\ notices' = Append(notices, notice)
  /\ UNCHANGED << surfaceVars, model >>

Made ==
  Cardinality({ s \in Sessions : client[s] # "none" })
    + Cardinality({ s \in Sessions : prompt[s] # "none" })
    + 2 * Cardinality({ w \in Windows : window[w].state # "none" })

ClientConnects(s) ==
  /\ Made < MaxMade
  /\ client[s] = "none" /\ client' = [ client EXCEPT ![s] = "running" ]
  /\ Post([ kind |-> "appAdded", session |-> s ])
  /\ UNCHANGED << window, prompt, provides >>

ClientEnds(s) ==
  /\ client[s] = "running" /\ client' = [ client EXCEPT ![s] = "ended" ]
  /\ Post([ kind |-> "appRemoved", session |-> s ])
  /\ UNCHANGED << window, prompt, provides >>

(* A window, or a child of another window of the client.                    *)
WindowOpens(w, s, parent) ==
  /\ Made + 1 < MaxMade
  /\ window[w].state = "none" /\ client[s] = "running"
  /\ parent # None => window[parent].client = s
  /\ window' = [ window EXCEPT ![w] = [ state |-> "new", client |-> s ] ]
  /\ Post([ kind |-> "windowAdded", window |-> w, session |-> s, parent |-> parent ])
  /\ UNCHANGED << client, prompt, provides >>

WindowDraws(w) ==
  /\ window[w].state = "new" /\ window' = [ window EXCEPT ![w].state = "drawn" ]
  /\ Post([ kind |-> "windowReady", window |-> w ])
  /\ UNCHANGED << client, prompt, provides >>

(* A window gets the focus that another one had.                            *)
FocusChanges(w) ==
  /\ window[w].state = "drawn"
  /\ Post([ kind |-> "focus", window |-> w ])
  /\ UNCHANGED << window, client, prompt, provides >>

(* The client closes it, or has ended.                                      *)
WindowCloses(w) ==
  /\ window[w].state \in { "new", "drawn" }
  /\ window' = [ window EXCEPT ![w] = [ state |-> "closed", client |-> None ] ]
  /\ Post([ kind |-> "windowRemoved", window |-> w ])
  /\ UNCHANGED << client, prompt, provides >>

(* Any client may ask for prompts, a prompt provider too.                   *)
PromptStarts(s) ==
  /\ Made < MaxMade
  /\ prompt[s] = "none" /\ client[s] = "running"
  /\ prompt' = [ prompt EXCEPT ![s] = "running" ]
  /\ Post([ kind |-> "promptStarting", session |-> s ])
  /\ UNCHANGED << window, client, provides >>

(* A provider is connected for one prompt session, which was there before:  *)
(* none provides, by way of others, for itself.                             *)
ProviderJoins(s, asker) ==
  /\ prompt[asker] = "running" /\ client[s] = "running"
  /\ s \in Providers /\ provides[s] = None
  /\ s \notin { asker } \cup AboveIn(provides, asker)
  /\ provides' = [ provides EXCEPT ![s] = asker ]
  /\ Post([ kind |-> "providerAdded", session |-> s, of |-> asker ])
  /\ UNCHANGED << window, client, prompt >>

ProviderLeaves(s) ==
  /\ provides[s] # None /\ prompt[provides[s]] = "running"
  /\ Post([ kind |-> "providerRemoved", session |-> s ])
  /\ UNCHANGED << window, client, prompt, provides >>

PromptEnds(s) ==
  /\ prompt[s] = "running" /\ prompt' = [ prompt EXCEPT ![s] = "ended" ]
  /\ Post([ kind |-> "promptStopping", session |-> s ])
  /\ UNCHANGED << window, client, provides >>

------------------------------------------------------------------------------
(* SurfaceManager and TaskController, in the main thread.                   *)

(* onSessionStarting(), and ApplicationManager's onSessionStarting().       *)
SessionStarting(s) ==
  LET m == [ model EXCEPT !.object[s] = "live", !.known = @ \cup { s } ] IN
  /\ model' = IF s \in Apps THEN Attach(m, s) ELSE m
  /\ UNCHANGED surfaceVars

SessionStopping(s) ==
  /\ IF s \in model.known
       THEN /\ surface' = SurfacesAfter(s)
            /\ model' = Died([ model EXCEPT !.known = @ \ { s } ], s)
       ELSE UNCHANGED << surface, model >>
  /\ UNCHANGED << known, taken >>

(* onWindowAdded() and registerSurface().                                   *)
OnWindowAdded(w, s, parent) ==
  LET new == [ NoSurface EXCEPT !.object = "alive", !.live = TRUE,
                                !.session = IF s \in model.known THEN s ELSE None ]
  IN
  /\ surface' = [ v \in Windows |->
       IF v = w THEN new
       ELSE IF v = parent /\ v \in known
              THEN [ surface[v] EXCEPT !.children = << w >> \o @ ] ELSE surface[v] ]
  /\ known' = known \cup { w }
  /\ UNCHANGED << taken, model >>

(* onWindowReady() and setReady(): the session lists the surface.           *)
OnWindowReady(w) ==
  /\ IF w \in known
       THEN /\ surface' = [ surface EXCEPT ![w].ready = TRUE ]
            /\ model' = IF surface[w].session = None THEN model
                        ELSE PrependRow(model, surface[w].session, w)
       ELSE UNCHANGED << surface, model >>
  /\ UNCHANGED << known, taken >>

(* onWindowFocusChanged() and setFocused(), of a surface that had lost it.  *)
OnWindowFocused(w) ==
  /\ IF w \in known
       THEN /\ surface' = [ v \in Windows |->
                              [ surface[v] EXCEPT !.children = Raised(@, w) ] ]
            /\ model' = RaiseRows(model, w)
       ELSE UNCHANGED << surface, model >>
  /\ UNCHANGED << known, taken >>

(* A fault: the session goes on counting the surface as one that closes.    *)
DeleteSurfaceClosing(w) ==
  LET s == surface[w].session IN
  /\ surface' = [ v \in Windows |->
       IF v = w THEN [ NoSurface EXCEPT !.object = "gone", !.views = surface[w].views ]
       ELSE [ surface[v] EXCEPT !.children = Without(@, { w }) ] ]
  /\ model' = IF s = None \/ ~ surface[w].ready THEN model ELSE RemoveRow(model, s, w)

(* ~MirSurface(): its session and its parent's list forget it.              *)
DeleteSurface(w) ==
  LET s == surface[w].session IN
  /\ surface' = [ v \in Windows |->
       IF v = w THEN [ NoSurface EXCEPT !.object = "gone", !.views = surface[w].views ]
       ELSE [ surface[v] EXCEPT !.children = Without(@, { w }) ] ]
  /\ model' = IF s = None \/ ~ surface[w].ready THEN model
              ELSE [ RemoveRow(model, s, w) EXCEPT !.closing[s] = @ \ { w } ]

(* A fault: a surface that is displayed stays live.                         *)
OnWindowRemovedLive(w) ==
  /\ known' = known \ { w }
  /\ IF w \notin known \/ surface[w].views # {} THEN UNCHANGED << surface, model >>
     ELSE DeleteSurface(w)
  /\ UNCHANGED taken

OnWindowRemoved(w) ==
  /\ known' = known \ { w }
  /\ IF w \notin known THEN UNCHANGED << surface, model >>
     ELSE IF surface[w].views # {}
            THEN surface' = [ surface EXCEPT ![w].live = FALSE ] /\ UNCHANGED model
            ELSE DeleteSurface(w)
  /\ UNCHANGED taken

OnPromptSessionStarting(s) ==
  /\ model' = IF s \in model.known
                THEN [ model EXCEPT !.prompted = @ \cup { s }, !.asking = @ \cup { s } ] ELSE model
  /\ UNCHANGED surfaceVars

OnPromptSessionStopping(s) ==
  /\ model' = PromptsStopped(model, { s })
  /\ UNCHANGED surfaceVars

OnPromptProviderAdded(s, asker) ==
  /\ model' = IF asker \in model.prompted /\ s \in model.known
                THEN AddChild(model, asker, s) ELSE model
  /\ UNCHANGED surfaceVars

OnPromptProviderRemoved(s) ==
  /\ IF s \in model.known
       THEN surface' = SurfacesAfter(s) /\ model' = Died(model, s)
       ELSE UNCHANGED << surface, model >>
  /\ UNCHANGED << known, taken >>

Handle(n) ==
  \/ n.kind = "appAdded" /\ SessionStarting(n.session)
  \/ n.kind = "appRemoved" /\ SessionStopping(n.session)
  \/ n.kind = "windowAdded" /\ OnWindowAdded(n.window, n.session, n.parent)
  \/ n.kind = "windowReady" /\ OnWindowReady(n.window)
  \/ n.kind = "focus" /\ OnWindowFocused(n.window)
  \/ n.kind = "windowRemoved" /\ OnWindowRemoved(n.window)
  \/ n.kind = "promptStarting" /\ OnPromptSessionStarting(n.session)
  \/ n.kind = "providerAdded" /\ OnPromptProviderAdded(n.session, n.of)
  \/ n.kind = "providerRemoved" /\ OnPromptProviderRemoved(n.session)
  \/ n.kind = "promptStopping" /\ OnPromptSessionStopping(n.session)

Deliver ==
  /\ notices # << >> /\ notices' = Tail(notices)
  /\ Handle(Head(notices))
  /\ UNCHANGED << window, client, prompt, provides >>

DeferredDeleteSurface(w) ==
  /\ surface[w].object = "doomed"
  /\ DeleteSurface(w)
  /\ UNCHANGED << mirVars, known, taken >>

DeferredDeleteSession(s) ==
  /\ model.object[s] = "doomed"
  /\ model' = DeleteSession(model, s)
  /\ surface' = Cleared(model')
  /\ UNCHANGED << mirVars, known, taken >>

------------------------------------------------------------------------------
(* The shell.                                                               *)

Shown(i) == { w \in Windows : i \in surface[w].views }

(* unregisterView() and what onWindowAdded() connected to the last of them. *)
Unregistered(r, i) ==
  LET left == [ r EXCEPT !.views = @ \ { i } ] IN
  IF left.views = {} /\ (~ r.live \/ r.session = None)
    THEN [ left EXCEPT !.object = "doomed" ] ELSE left

(* MirSurfaceItem::setSurface(), of a surface that is still there.          *)
SetSurface(i, w) ==
  /\ w \notin Shown(i) /\ (w = None => Shown(i) # {})
  /\ w # None => surface[w].object \in { "alive", "doomed" }
  /\ \A v \in Shown(i) : surface[v].object # "gone"
  /\ surface' = [ v \in Windows |->
       IF v \in Shown(i) THEN Unregistered(surface[v], i)
       ELSE IF v = w THEN [ surface[v] EXCEPT !.views = @ \cup { i } ] ELSE surface[v] ]
  /\ known' = known \ { v \in Shown(i) : surface'[v].object = "doomed" }
  /\ taken' = IF w # None /\ surface[w].object = "doomed" THEN taken \cup { w } ELSE taken
  /\ UNCHANGED << mirVars, model >>

(* MirSurface::close() and closeRequested(), of a surface that has drawn:   *)
(* others are in no list that the shell closes surfaces of.                 *)
CloseSurface(w) ==
  LET s == surface[w].session IN
  /\ surface[w].object = "alive" /\ surface[w].ready /\ ~ surface[w].closing
  /\ surface' = [ surface EXCEPT ![w].closing = TRUE ]
  /\ model' = IF s = None THEN model
              ELSE RemoveRow([ model EXCEPT !.closing[s] = @ \cup { w } ], s, w)
  /\ UNCHANGED << mirVars, known, taken >>

Next ==
  \/ \E s \in Sessions :
       \/ ClientConnects(s) \/ ClientEnds(s)
       \/ PromptStarts(s) \/ PromptEnds(s) \/ ProviderLeaves(s)
       \/ \E asker \in Sessions : ProviderJoins(s, asker)
       \/ DeferredDeleteSession(s)
  \/ \E w \in Windows :
       \/ \E s \in Sessions, p \in Windows \cup { None } : WindowOpens(w, s, p)
       \/ WindowDraws(w) \/ FocusChanges(w) \/ WindowCloses(w)
       \/ DeferredDeleteSurface(w) \/ CloseSurface(w)
  \/ Deliver
  \/ \E i \in Items, w \in Windows \cup { None } : SetSurface(i, w)

Spec == Init /\ [][Next]_vars

------------------------------------------------------------------------------
(* Properties.                                                              *)

There(w) == surface[w].object \in { "alive", "doomed" }

(* No list of the shell, of SurfaceManager or of a session has a surface    *)
(* that was deleted; none is displayed that was, as ~MirSurface() asserts   *)
(* (mirsurface.cpp:265), unless an item took it when it was on its way out; *)
(* and no session is remembered that was deleted: whatever order windows,   *)
(* clients and views come and go in.                                        *)
NothingDangles ==
  /\ \A w \in known \cup ToSet(model.appRows) : There(w)
  /\ \A w \in Windows : There(w) => \A v \in ToSet(surface[w].children) : There(v)
  /\ \A s \in Sessions : Exists(model, s) =>
       /\ \A w \in ToSet(model.rows[s]) \cup ToSet(model.prompts[s]) \cup model.closing[s] :
            There(w)
       /\ model.parent[s] # None => Exists(model, model.parent[s])
  /\ \A w \in Windows \ taken : surface[w].object = "gone" => surface[w].views = {}
  /\ \A s \in model.known \cup model.attached \cup ({ model.proxied } \ { None })
               \cup model.prompted :
       Exists(model, s)

(* A combined list has every surface of the lists it tracks once, and those *)
(* of one list in the order they have there: "track changes done to those   *)
(* original models and reflect them appropriately".                         *)
Combines(rows, tracked) ==
  /\ IsInjective(rows)
  /\ ToSet(rows) = UNION { ToSet(model.rows[s]) : s \in tracked }
  /\ \A s \in tracked : Kept(rows, ToSet(model.rows[s])) = model.rows[s]

ListsAgree ==
  /\ Combines(model.appRows, model.attached)
  /\ \A s \in Sessions : Exists(model, s) => Combines(model.prompts[s], Below(model, s))

(* Nothing is kept for ever: a surface SurfaceManager has forgotten is      *)
(* displayed or on its way out, and a session that has died has a surface   *)
(* or a child left or is on its way out.                                    *)
NothingLeaks ==
  /\ \A w \in Windows :
       surface[w].object = "alive" /\ w \notin known => surface[w].views # {}
  /\ \A s \in Sessions :
       model.object[s] = "zombie" => model.rows[s] # << >> \/ ChildrenOf(model, s) # {}
==============================================================================

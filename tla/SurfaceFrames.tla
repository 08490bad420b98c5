---------------------------- MODULE SurfaceFrames ----------------------------
(***************************************************************************)
(* The frames a client draws into its surface, and the items that show it. *)
(*                                                                         *)
(* Mir tells MirSurface's observer of a frame in one of its threads; the   *)
(* surface hears of it in the main thread, restarts its frame dropper and  *)
(* has its items updated. The render thread updates the texture they share *)
(* when an item is painted, at most once until a window's buffers are      *)
(* swapped. Should nothing be painted, the frame dropper takes the frames, *)
(* lest the client wait for a free buffer for ever. Textures are updated   *)
(* under the surface's mutex, so that each of these steps is one here.     *)
(***************************************************************************)
EXTENDS Naturals, FiniteSets

CONSTANTS
  Items,          (* items that may show the surface                        *)
  Buffers,        (* how many buffers a client has to draw into             *)
  MaxNotices      (* a bound: framesPosted() on its way when a frame comes  *)

BuffersAssumption == Buffers \in Nat /\ Buffers >= 2
BoundAssumption == MaxNotices \in Nat \ {0}

VARIABLES
  client,         (* whether the session runs, is suspended or has stopped  *)
  place,          (* the session's m_surfaceList has the surface, or its    *)
                  (* m_closingSurfaces, or it has yet to be ready           *)
  drawn,          (* Mir: whether there was a frame                         *)
  pending,        (* Mir: buffers_ready_for_compositor()                    *)
  observer,       (* the observer's m_listener and m_framesPosted           *)
  notices,        (* framesPosted() on its way                              *)
  timer,          (* m_frameDropperTimer is active                          *)
  startQueued,    (* a call of its start() is on its way                    *)
  textureUpdated, (* m_textureUpdated                                       *)
  holding,        (* the texture has a buffer                               *)
  showing,        (* the items whose m_surface it is                        *)
  providing,      (* the items that hold the texture                        *)
  dirty,          (* the items to be painted, by update() or a single shot  *)
  fresh,          (* the items painted with the texture's present frame     *)
  unheard,        (* history: frames came that no thread told of            *)
  blank,          (* history: items painted without a buffer that was there *)
  neglected       (* history: the session was resumed while it closed, and  *)
                  (* its frame dropper left as it was, stopped              *)

surfaceVars == << timer, startQueued, textureUpdated, holding >>
itemVars == << showing, providing, dirty, fresh, blank >>
vars == << client, place, drawn, pending, observer, notices, surfaceVars, itemVars, unheard,
           neglected >>

TypeOK ==
  /\ client \in { "running", "suspended", "stopped" }
  /\ place \in { "unready", "listed", "closing" }
  /\ drawn \in BOOLEAN /\ pending \in 0 .. Buffers
  /\ observer \in [ listening : BOOLEAN, posted : BOOLEAN ]
  /\ notices \in 0 .. MaxNotices
  /\ << timer, startQueued, textureUpdated, holding >> \in BOOLEAN \X BOOLEAN \X BOOLEAN \X BOOLEAN
  /\ showing \subseteq Items /\ providing \subseteq Items /\ dirty \subseteq Items
  /\ fresh \subseteq Items /\ blank \subseteq Items
  /\ unheard \in BOOLEAN /\ neglected \in BOOLEAN

(* A client draws as soon as Mir has its surface, before MirSurface exists. *)
Init ==
  /\ client = "running" /\ place = "unready" /\ pending \in 0 .. Buffers /\ drawn = (pending > 0)
  /\ observer = [ listening |-> FALSE, posted |-> FALSE ] /\ notices = 0
  /\ timer = FALSE /\ startQueued = FALSE /\ textureUpdated = FALSE /\ holding = FALSE
  /\ showing = {} /\ providing = {} /\ dirty = {} /\ fresh = {} /\ blank = {}
  /\ unheard = drawn /\ neglected = FALSE

HasTexture == providing # {}

(* The client waits in swap_buffers().                                      *)
Blocked == pending + (IF holding THEN 1 ELSE 0) >= Buffers

------------------------------------------------------------------------------
(* The client and, in Mir's thread, the observer.                           *)

PostsFrame == client = "running" /\ ~ Blocked /\ drawn' = TRUE /\ pending' = pending + 1

FramePosted ==
  /\ PostsFrame
  /\ \/ /\ observer.listening /\ notices < MaxNotices
        /\ notices' = notices + 1
        /\ UNCHANGED observer
     \/ /\ ~ observer.listening
        /\ observer' = [ observer EXCEPT !.posted = TRUE ]
        /\ UNCHANGED notices
  /\ UNCHANGED << client, place, surfaceVars, itemVars, unheard, neglected >>

(* onFramesPostedObserved(), and the update() of the items.                 *)
FramesPosted ==
  /\ timer' = TRUE
  /\ dirty' = dirty \cup showing
  /\ unheard' = FALSE /\ neglected' = FALSE

(* The end of the constructor.                                              *)
SetListener ==
  /\ ~ observer.listening
  /\ observer' = [ observer EXCEPT !.listening = TRUE ]
  /\ IF observer.posted THEN FramesPosted
                        ELSE UNCHANGED << timer, dirty, unheard, neglected >>
  /\ UNCHANGED << client, place, drawn, pending, notices, startQueued, textureUpdated, holding,
                  showing, providing, fresh, blank >>

(* Neither thread sees yet what the other wrote into the observer.          *)
FramePostedUnheard ==
  /\ ~ observer.listening
  /\ PostsFrame
  /\ observer' = [ listening |-> TRUE, posted |-> TRUE ]
  /\ unheard' = TRUE
  /\ UNCHANGED << client, place, notices, surfaceVars, itemVars, neglected >>

HearFramesPosted ==
  /\ notices > 0 /\ observer.listening
  /\ notices' = notices - 1
  /\ FramesPosted
  /\ UNCHANGED << client, place, drawn, pending, observer, startQueued, textureUpdated, holding,
                  showing, providing, fresh, blank >>

------------------------------------------------------------------------------
(* The texture's buffer goes and the next one, or the last, takes its place;*)
(* the frame dropper is started from the main thread's queue for the rest.  *)
SetBuffer(painted) ==
  /\ pending' = IF pending > 0 THEN pending - 1 ELSE 0
  /\ holding' = TRUE /\ textureUpdated' = TRUE
  /\ startQueued' = (startQueued \/ pending' > 0)
  /\ fresh' = painted

(* The frame dropper, every 200 ms.                                         *)
DropPendingBuffer ==
  /\ timer
  /\ \/ /\ pending = 0
        /\ timer' = FALSE
        /\ UNCHANGED << pending, startQueued, textureUpdated, holding, fresh >>
     \/ /\ pending > 0 /\ HasTexture
        /\ SetBuffer({})
        /\ UNCHANGED timer
     \/ /\ pending > 0 /\ ~ HasTexture
        /\ pending' = pending - 1
        /\ textureUpdated' = FALSE
        /\ fresh' = {}
        /\ UNCHANGED << timer, startQueued, holding >>
  /\ UNCHANGED << client, place, drawn, observer, notices, showing, providing, dirty, blank,
                  unheard, neglected >>

StartFrameDropper ==
  /\ startQueued
  /\ startQueued' = FALSE /\ timer' = TRUE /\ neglected' = FALSE
  /\ UNCHANGED << client, place, drawn, pending, observer, notices, textureUpdated, holding,
                  itemVars, unheard >>

SessionChangesTo(state) ==
  /\ \/ client = "running" /\ state \in { "suspended", "stopped" }
     \/ client = "suspended" /\ state \in { "running", "stopped" }
  /\ client' = state
  /\ UNCHANGED << place, drawn, pending, observer, notices, startQueued, textureUpdated, holding,
                  itemVars, unheard >>

(* A fault: doResume() leaves the frame dropper as doSuspend() left it.     *)
SessionChangesOnly(state) ==
  /\ SessionChangesTo(state)
  /\ timer' = (timer /\ place # "listed")
  /\ UNCHANGED neglected

(* doSuspend() and stop(), which stop the frame dropper of a surface that   *)
(* is listed, doResume(), which starts it, and setLive(), which does not    *)
(* touch it. A surface that is being closed stays as it is.                 *)
SessionChanges(state) ==
  /\ SessionChangesTo(state)
  /\ \/ place = "listed" /\ timer' = (state = "running")
     \/ (place # "listed" \/ state = "stopped") /\ UNCHANGED timer
  /\ neglected' = (state = "running" /\ place = "closing" /\ ~ timer)

(* prependSurface(), once the window has drawn.                             *)
PrependSurface ==
  /\ place = "unready" /\ drawn /\ observer.listening
  /\ place' = "listed"
  /\ UNCHANGED << client, drawn, pending, observer, notices, surfaceVars, itemVars, unheard,
                  neglected >>

(* close(): the session's slot takes it from the list. It has three seconds.*)
Close ==
  /\ place = "listed" /\ place' = "closing"
  /\ UNCHANGED << client, drawn, pending, observer, notices, surfaceVars, itemVars, unheard,
                  neglected >>

------------------------------------------------------------------------------
(* MirSurfaceItem, in the main thread and in the render thread.             *)

SetSurface(i) ==
  /\ observer.listening
  /\ showing' = IF i \in showing THEN showing \ { i } ELSE showing \cup { i }
  /\ dirty' = dirty \cup { i }
  /\ blank' = blank \ { i }
  /\ UNCHANGED << client, place, drawn, pending, observer, notices, surfaceVars, providing, fresh,
                  unheard, neglected >>

(* The texture goes with the last item that holds it, and its buffer.       *)
Providing(S) ==
  /\ providing' = S
  /\ holding' = (holding /\ S # {})

(* updateTexture(), for item i: textures are updated once for all items.    *)
UpdateTexture(i) ==
  \/ /\ ~ textureUpdated /\ drawn /\ (pending > 0 \/ ~ holding)
     /\ SetBuffer({ i })
  \/ /\ textureUpdated \/ ~ drawn \/ (pending = 0 /\ holding)
     /\ fresh' = IF holding THEN fresh \cup { i } ELSE fresh \ { i }
     /\ UNCHANGED << pending, textureUpdated, holding, startQueued >>

(* updatePaintNode() without a surface: the texture goes, and the node.     *)
PaintNothing(i) ==
  /\ i \notin showing
  /\ Providing(providing \ { i })
  /\ dirty' = dirty \ { i } /\ fresh' = fresh \ { i }
  /\ UNCHANGED << pending, startQueued, textureUpdated, blank >>

(* A fault: frames that wait already are not painted after this one.        *)
UpdatePaintNodeOnce(i) ==
  /\ i \in dirty
  /\ \/ PaintNothing(i)
     \/ /\ i \in showing
        /\ providing' = providing \cup { i }
        /\ UpdateTexture(i)
        /\ dirty' = dirty \ { i }
        /\ blank' = IF drawn /\ ~ holding' THEN blank \cup { i } ELSE blank \ { i }
  /\ UNCHANGED << client, place, drawn, observer, notices, timer, showing, unheard, neglected >>

(* updatePaintNode(): with a surface, ensureTextureProvider(), and a single *)
(* shot for another update() when frames are left. A texture that has no    *)
(* buffer is not painted, and the node goes.                                *)
UpdatePaintNode(i) ==
  /\ i \in dirty
  /\ \/ PaintNothing(i)
     \/ /\ i \in showing
        /\ providing' = providing \cup { i }
        /\ UpdateTexture(i)
        /\ dirty' = IF holding' /\ pending' > 0 THEN dirty ELSE dirty \ { i }
        /\ blank' = IF drawn /\ ~ holding' THEN blank \cup { i } ELSE blank \ { i }
  /\ UNCHANGED << client, place, drawn, observer, notices, timer, showing, unheard, neglected >>

(* onCompositorSwappedBuffers(), of an item in the window that is swapped.  *)
CompositorSwappedBuffers ==
  /\ showing # {} /\ textureUpdated
  /\ textureUpdated' = FALSE
  /\ UNCHANGED << client, place, drawn, pending, observer, notices, timer, startQueued, holding,
                  itemVars, unheard, neglected >>

(* invalidateSceneGraph() and releaseResources(); Qt paints the item anew.  *)
ReleaseResources(i) ==
  /\ i \in providing
  /\ Providing(providing \ { i })
  /\ dirty' = dirty \cup { i } /\ fresh' = fresh \ { i }
  /\ UNCHANGED << client, place, drawn, pending, observer, notices, timer, startQueued,
                  textureUpdated, showing, blank, unheard, neglected >>

Next ==
  \/ FramePosted \/ SetListener \/ FramePostedUnheard \/ HearFramesPosted
  \/ DropPendingBuffer \/ StartFrameDropper
  \/ \E state \in { "running", "suspended", "stopped" } : SessionChanges(state)
  \/ PrependSurface \/ Close
  \/ \E i \in Items : SetSurface(i) \/ UpdatePaintNode(i) \/ ReleaseResources(i)
  \/ CompositorSwappedBuffers

Spec == Init /\ [][Next]_vars

(* The main thread runs: its timer fires and its queue is emptied. That     *)
(* anything is painted is not assumed.                                      *)
Fairness ==
  /\ WF_vars(SetListener) /\ WF_vars(HearFramesPosted)
  /\ WF_vars(DropPendingBuffer) /\ WF_vars(StartFrameDropper)
FairSpec == Spec /\ Fairness

------------------------------------------------------------------------------
(* Every frame is painted, or will be: an item that shows the surface and   *)
(* has not painted its latest frame is to be painted, or is about to hear   *)
(* of a frame. The exception is an item left blank: its surface was taken   *)
(* off the last item that had it after that one was painted and before the  *)
(* window's buffers were swapped, so that m_textureUpdated was still set    *)
(* for the new texture.                                                     *)
NoFrameMissed ==
  \A i \in showing :
    \/ drawn /\ pending = 0 /\ i \in fresh
    \/ ~ drawn \/ i \in dirty \/ notices > 0
    \/ i \in blank

(* A client that runs and waits for a free buffer gets one, though nothing  *)
(* be painted: of a surface that is hidden, or that no item shows, the      *)
(* frame dropper takes the frames. The exceptions are a client whose frames *)
(* the surface has not heard of, all of them drawn before it listened, and  *)
(* a surface that was asked to close while its session was suspended: when  *)
(* the session is resumed, its client may wait for as long as the close     *)
(* timer lets it live.                                                      *)
ClientGetsBuffer ==
  client = "running" /\ Blocked /\ ~ unheard ~>
    client # "running" \/ ~ Blocked \/ neglected
==============================================================================

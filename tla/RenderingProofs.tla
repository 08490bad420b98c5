---------------------------- MODULE RenderingProofs ----------------------------
(***************************************************************************)
(* Theorems about MCRendering: the frames of a client are painted, and the *)
(* windows of the shell render into buffers that are there. Each part has  *)
(* an inductive invariant of its own, of which it says nothing of the      *)
(* other.                                                                  *)
(***************************************************************************)
EXTENDS MCRendering, FiniteSets, SequenceTheorems, FiniteSetTheorems, TLAPS

------------------------------------------------------------------------------
(* Frames: see SurfaceFrames.                                               *)

FrameTypes ==
  /\ pending \in Nat /\ notices \in Nat
  /\ observer \in [ listening : BOOLEAN, posted : BOOLEAN ]

(* The surface has no item before it listens to its observer, so that no    *)
(* frame an item missed is one that nothing tells of.                       *)
HeardOnceShown == ~ observer.listening => showing = {}

(* What an item painted last is the texture's buffer while there is one.    *)
FreshIsHeld == fresh \subseteq providing /\ (~ holding => fresh = {})

FrameInv == FrameTypes /\ HeardOnceShown /\ FreshIsHeld /\ Frames!NoFrameMissed

LEMMA FramesInit == Frames!BuffersAssumption /\ Frames!Init => FrameInv
<1> SUFFICES ASSUME Frames!BuffersAssumption, Frames!Init
             PROVE  FrameInv
  OBVIOUS
<1>1. pending \in 0 .. Buffers /\ notices = 0
  BY Zenon DEF Frames!Init
<1>2. pending \in Nat /\ notices \in Nat
  BY <1>1 DEF Frames!BuffersAssumption
<1>3. observer \in [ listening : BOOLEAN, posted : BOOLEAN ]
  <2>1. observer = [ listening |-> FALSE, posted |-> FALSE ]
    BY Zenon DEF Frames!Init
  <2> QED
    BY <2>1
<1>4. HeardOnceShown /\ FreshIsHeld /\ Frames!NoFrameMissed
  <2>1. showing = {} /\ fresh = {} /\ providing = {}
    BY Zenon DEF Frames!Init
  <2> QED
    BY <2>1 DEF HeardOnceShown, FreshIsHeld, Frames!NoFrameMissed
<1> QED
  BY <1>2, <1>3, <1>4 DEF FrameInv, FrameTypes

(* The observer's two fields are set apart from each other.                 *)
LEMMA Listened ==
  ASSUME NEW o \in [ listening : BOOLEAN, posted : BOOLEAN ]
  PROVE  /\ [ o EXCEPT !.posted = TRUE ] \in [ listening : BOOLEAN, posted : BOOLEAN ]
         /\ [ o EXCEPT !.posted = TRUE ].listening = o.listening
         /\ [ o EXCEPT !.listening = TRUE ] \in [ listening : BOOLEAN, posted : BOOLEAN ]
         /\ [ o EXCEPT !.listening = TRUE ].listening
<1>1. [ o EXCEPT !.posted = TRUE ] \in [ listening : BOOLEAN, posted : BOOLEAN ]
  BY Zenon
<1>2. [ o EXCEPT !.listening = TRUE ] \in [ listening : BOOLEAN, posted : BOOLEAN ]
  BY Zenon
<1>3. [ o EXCEPT !.posted = TRUE ].listening = o.listening
  BY Zenon
<1>4. [ o EXCEPT !.listening = TRUE ].listening = TRUE
  BY Zenon
<1> QED
  BY <1>1, <1>3, <1>4, <1>2, Zenon

(* What SetBuffer() does, without the frame dropper's start.                *)
LEMMA BufferSet ==
  ASSUME NEW painted, Frames!SetBuffer(painted)
  PROVE  /\ pending' = IF pending > 0 THEN pending - 1 ELSE 0
         /\ holding' = TRUE
         /\ fresh' = painted
BY Zenon DEF Frames!SetBuffer

LEMMA FrameTypesKept ==
  ASSUME FrameTypes, [Frames!Next]_frameVars
  PROVE  FrameTypes'
<1> USE DEF FrameTypes
<1>1. CASE Frames!FramePosted
  <2>1. pending' \in Nat
    BY <1>1 DEF Frames!FramePosted, Frames!PostsFrame
  <2>2. notices' = notices + 1 \/ notices' = notices
    BY <1>1, Zenon DEF Frames!FramePosted
  <2>3. observer' = observer \/ observer' = [ observer EXCEPT !.posted = TRUE ]
    BY <1>1, Zenon DEF Frames!FramePosted
  <2>4. observer' \in [ listening : BOOLEAN, posted : BOOLEAN ]
    BY <2>3, Listened, Zenon
  <2> QED
    BY <2>1, <2>2, <2>4
<1>2. CASE Frames!SetListener
  <2>1. UNCHANGED << pending, notices >> /\ observer' = [ observer EXCEPT !.listening = TRUE ]
    BY <1>2, Zenon DEF Frames!SetListener
  <2>2. observer' \in [ listening : BOOLEAN, posted : BOOLEAN ]
    BY <2>1, Listened, Zenon
  <2> QED
    BY <2>1, <2>2
<1>3. CASE Frames!FramePostedUnheard
  BY <1>3 DEF Frames!FramePostedUnheard, Frames!PostsFrame, Frames!surfaceVars
<1>4. CASE Frames!HearFramesPosted
  BY <1>4 DEF Frames!HearFramesPosted
<1>5. CASE Frames!DropPendingBuffer
  <2>1. UNCHANGED << notices, observer >>
    BY <1>5, Zenon DEF Frames!DropPendingBuffer
  <2>2. \/ pending' = pending \/ (pending > 0 /\ pending' = pending - 1)
        \/ pending' = IF pending > 0 THEN pending - 1 ELSE 0
    BY <1>5, BufferSet, Zenon DEF Frames!DropPendingBuffer
  <2> QED
    BY <2>1, <2>2
<1>6. CASE Frames!StartFrameDropper \/ (\E state \in { "running", "suspended", "stopped" } : Frames!SessionChanges(state))
           \/ Frames!PrependSurface \/ Frames!Close \/ Frames!CompositorSwappedBuffers \/ UNCHANGED frameVars
  BY <1>6 DEF Frames!StartFrameDropper, Frames!SessionChanges, Frames!SessionChangesTo,
     Frames!PrependSurface, Frames!Close, Frames!CompositorSwappedBuffers,
     Frames!surfaceVars, frameVars
<1>7. ASSUME NEW i \in Items, Frames!SetSurface(i)
      PROVE  FrameTypes'
  BY <1>7 DEF Frames!SetSurface, Frames!surfaceVars
<1>8. ASSUME NEW i \in Items, Frames!ReleaseResources(i)
      PROVE  FrameTypes'
  BY <1>8 DEF Frames!ReleaseResources, Frames!Providing
<1>9. ASSUME NEW i \in Items, Frames!UpdatePaintNode(i)
      PROVE  FrameTypes'
  <2>1. UNCHANGED << observer, notices, drawn >>
    BY <1>9 DEF Frames!UpdatePaintNode
  <2>2. CASE Frames!PaintNothing(i)
    BY <2>1, <2>2 DEF Frames!PaintNothing, Frames!Providing
  <2>3. CASE Frames!UpdateTexture(i)
    <3>1. pending' = pending \/ pending' = IF pending > 0 THEN pending - 1 ELSE 0
      BY <2>3, BufferSet, Zenon DEF Frames!UpdateTexture
    <3> QED
      BY <2>1, <3>1
  <2> QED
    BY <1>9, <2>2, <2>3 DEF Frames!UpdatePaintNode
<1> QED
  BY <1>1, <1>2, <1>3, <1>4, <1>5, <1>6, <1>7, <1>8, <1>9 DEF Frames!Next

LEMMA FramesKept ==
  ASSUME FrameInv, [Frames!Next]_frameVars
  PROVE  FrameInv'
<1>1. FrameTypes'
  BY FrameTypesKept DEF FrameInv
<1> SUFFICES HeardOnceShown' /\ FreshIsHeld' /\ Frames!NoFrameMissed'
  BY <1>1 DEF FrameInv
<1> USE DEF FrameInv, FrameTypes, HeardOnceShown, FreshIsHeld
<1>2. CASE Frames!FramePosted
  <2>1. UNCHANGED << showing, providing, dirty, fresh, blank, holding >> /\ pending' > 0
    BY <1>2 DEF Frames!FramePosted, Frames!PostsFrame, Frames!surfaceVars, Frames!itemVars
  <2>2. observer'.listening = observer.listening
    BY <1>2, Listened, Zenon DEF Frames!FramePosted
  <2>3. CASE observer.listening
    <3>1. notices' > 0
      BY <1>2, <2>3 DEF Frames!FramePosted
    <3> QED
      BY <2>1, <2>2, <2>3, <3>1 DEF Frames!NoFrameMissed
  <2>4. CASE ~ observer.listening
    BY <2>1, <2>2, <2>4 DEF Frames!NoFrameMissed
  <2> QED
    BY <2>3, <2>4
<1>3. CASE Frames!SetListener
  <2>1. observer'.listening /\ showing = {} /\ UNCHANGED << showing, providing, fresh, holding >>
    BY <1>3, Listened, Zenon DEF Frames!SetListener
  <2> QED
    BY <2>1 DEF Frames!NoFrameMissed
<1>4. CASE Frames!FramePostedUnheard
  <2>1. observer'.listening /\ showing = {} /\ UNCHANGED << showing, providing, fresh, holding >>
    BY <1>4 DEF Frames!FramePostedUnheard, Frames!PostsFrame, Frames!surfaceVars, Frames!itemVars
  <2> QED
    BY <2>1 DEF Frames!NoFrameMissed
<1>5. CASE Frames!HearFramesPosted
  <2>1. /\ UNCHANGED << observer, showing, providing, fresh, holding >>
        /\ dirty' = dirty \cup showing
    BY <1>5 DEF Frames!HearFramesPosted, Frames!FramesPosted
  <2> QED
    BY <2>1 DEF Frames!NoFrameMissed
<1>6. CASE Frames!DropPendingBuffer
  <2>1. UNCHANGED << observer, showing, providing, dirty, blank, drawn, notices >>
    BY <1>6 DEF Frames!DropPendingBuffer
  <2>2. CASE pending = 0
    <3>1. UNCHANGED << pending, holding, fresh >>
      BY <1>6, <2>2 DEF Frames!DropPendingBuffer
    <3> QED
      BY <2>1, <3>1 DEF Frames!NoFrameMissed
  <2>3. CASE pending > 0
    <3>1. pending = 0 \/ fresh' = {}
      BY <1>6, BufferSet, Zenon DEF Frames!DropPendingBuffer
    <3> QED
      BY <2>1, <2>3, <3>1 DEF Frames!NoFrameMissed
  <2> QED
    BY <2>2, <2>3
<1>7. CASE Frames!StartFrameDropper \/ (\E state \in { "running", "suspended", "stopped" } : Frames!SessionChanges(state))
           \/ Frames!PrependSurface \/ Frames!Close \/ Frames!CompositorSwappedBuffers \/ UNCHANGED frameVars
  <2>1. /\ UNCHANGED << observer, showing, providing, dirty, fresh, blank >>
        /\ UNCHANGED << holding, drawn, pending, notices >>
    BY <1>7 DEF Frames!StartFrameDropper, Frames!SessionChanges, Frames!SessionChangesTo,
     Frames!PrependSurface, Frames!Close, Frames!CompositorSwappedBuffers,
       Frames!itemVars, Frames!surfaceVars, frameVars
  <2> QED
    BY <2>1 DEF Frames!NoFrameMissed
<1>8. ASSUME NEW i \in Items, Frames!SetSurface(i)
      PROVE  HeardOnceShown' /\ FreshIsHeld' /\ Frames!NoFrameMissed'
  BY <1>8 DEF Frames!SetSurface, Frames!surfaceVars, Frames!NoFrameMissed
<1>9. ASSUME NEW i \in Items, Frames!ReleaseResources(i)
      PROVE  HeardOnceShown' /\ FreshIsHeld' /\ Frames!NoFrameMissed'
  <2>1. /\ UNCHANGED << observer, showing, blank, drawn, pending, notices >>
        /\ fresh' = fresh \ { i } /\ dirty' = dirty \cup { i } /\ providing' = providing \ { i }
    BY <1>9 DEF Frames!ReleaseResources, Frames!Providing
  <2>2. FreshIsHeld'
    BY <2>1, <1>9 DEF Frames!ReleaseResources, Frames!Providing
  <2> QED
    BY <2>1, <2>2 DEF Frames!NoFrameMissed
<1>10. ASSUME NEW i \in Items, Frames!UpdatePaintNode(i)
      PROVE  HeardOnceShown' /\ FreshIsHeld' /\ Frames!NoFrameMissed'
  <2>1. UNCHANGED << observer, notices, showing, drawn >>
    BY <1>10 DEF Frames!UpdatePaintNode
  <2>2. CASE Frames!PaintNothing(i)
    <3>1. /\ UNCHANGED << pending, blank >> /\ i \notin showing
          /\ fresh' = fresh \ { i } /\ dirty' = dirty \ { i } /\ providing' = providing \ { i }
      BY <2>2 DEF Frames!PaintNothing, Frames!Providing
    <3>2. FreshIsHeld'
      BY <3>1, <2>2 DEF Frames!PaintNothing, Frames!Providing
    <3> QED
      BY <2>1, <3>1, <3>2 DEF Frames!NoFrameMissed
  <2>3. CASE /\ providing' = providing \cup { i }
             /\ Frames!UpdateTexture(i)
             /\ dirty' = IF holding' /\ pending' > 0 THEN dirty ELSE dirty \ { i }
             /\ blank' = IF drawn /\ ~ holding' THEN blank \cup { i } ELSE blank \ { i }
    <3>1. i \in dirty
      BY <1>10 DEF Frames!UpdatePaintNode
    <3>2. CASE ~ textureUpdated /\ drawn /\ (pending > 0 \/ ~ holding) /\ Frames!SetBuffer({ i })
      <4>1. /\ pending' = IF pending > 0 THEN pending - 1 ELSE 0
            /\ holding' = TRUE /\ fresh' = { i }
        BY <3>2, BufferSet, Zenon
      <4>2. /\ holding' = TRUE /\ fresh' = { i } /\ (pending' > 0 => i \in dirty')
            /\ pending' \in Nat /\ (pending = 0 => fresh = {})
        BY <2>3, <3>1, <3>2, <4>1
      <4>3. FreshIsHeld'
        BY <2>3, <4>2
      <4>4. ASSUME NEW j \in showing
            PROVE  \/ drawn' /\ pending' = 0 /\ j \in fresh'
                   \/ ~ drawn' \/ j \in dirty' \/ notices' > 0
                   \/ j \in blank'
        <5>1. CASE j = i
          BY <4>2, <5>1
        <5>2. CASE j # i
          <6>1. (j \in dirty => j \in dirty') /\ (j \in blank => j \in blank')
            BY <2>3, <5>2
          <6> QED
            BY <2>1, <4>2, <5>2, <6>1 DEF Frames!NoFrameMissed
        <5> QED
          BY <5>1, <5>2
      <4> QED
        BY <2>1, <4>3, <4>4 DEF Frames!NoFrameMissed
    <3>3. CASE /\ textureUpdated \/ ~ drawn \/ (pending = 0 /\ holding)
               /\ fresh' = IF holding THEN fresh \cup { i } ELSE fresh \ { i }
               /\ UNCHANGED << pending, textureUpdated, holding, startQueued >>
      <4>1. FreshIsHeld'
        BY <2>3, <3>3
      <4>2. ASSUME NEW j \in showing
            PROVE  \/ drawn' /\ pending' = 0 /\ j \in fresh'
                   \/ ~ drawn' \/ j \in dirty' \/ notices' > 0
                   \/ j \in blank'
        <5>1. CASE j = i
          <6>1. CASE holding
            BY <2>1, <2>3, <3>1, <3>3, <5>1, <6>1
          <6>2. CASE ~ holding
            BY <2>1, <2>3, <3>3, <5>1, <6>2
          <6> QED
            BY <6>1, <6>2
        <5>2. CASE j # i
          <6>1. /\ (j \in dirty => j \in dirty') /\ (j \in blank => j \in blank')
                /\ (j \in fresh => j \in fresh')
            BY <2>3, <3>3, <5>2
          <6> QED
            BY <2>1, <3>3, <6>1 DEF Frames!NoFrameMissed
        <5> QED
          BY <5>1, <5>2
      <4> QED
        BY <2>1, <4>1, <4>2 DEF Frames!NoFrameMissed
    <3> QED
      BY <2>3, <3>2, <3>3 DEF Frames!UpdateTexture
  <2> QED
    BY <1>10, <2>2, <2>3 DEF Frames!UpdatePaintNode
<1> QED
  BY <1>2, <1>3, <1>4, <1>5, <1>6, <1>7, <1>8, <1>9, <1>10 DEF Frames!Next

(* For any items, a client with any number of buffers, and any number of    *)
(* notices under way: an item that has not painted the latest frame will    *)
(* be painted, or hears of a frame, but for one that was left blank, as the *)
(* last texture went between its painting and the swap of the buffers: see  *)
(* SurfaceFrames.                                                           *)
THEOREM FramesPainted == Spec => []NoFrameMissed
<1> USE FramesAssumption
<1>1. Init => FrameInv
  BY FramesInit DEF Init
<1>2. FrameInv /\ [Next]_<< part, frameVars, screenVars >> => FrameInv'
  <2> SUFFICES ASSUME FrameInv, [Next]_<< part, frameVars, screenVars >>
               PROVE  FrameInv'
    OBVIOUS
  <2>1. [Frames!Next]_frameVars
    BY DEF Next, frameVars, screenVars
  <2> QED
    BY <2>1, FramesKept
<1>3. FrameInv => NoFrameMissed
  BY DEF FrameInv, NoFrameMissed
<1> QED
  BY <1>1, <1>2, <1>3, PTL DEF Spec

------------------------------------------------------------------------------
(* Screens: see ScreensModel.                                               *)

HeadStarting == queue # << >> /\ Head(queue) = "starting"
Record ==
  [ lit : BOOLEAN, buffer : { "none", "current", "freed" }, window : Windows \cup { NoWindow } ]

ScreenTypes ==
  /\ screens \in [ DOMAIN screens -> Record ]
  /\ windows \in [ Windows -> [ screen : DOMAIN screens \cup { Screen!NoScreen }, exposed : BOOLEAN ] ]
  /\ Screen!NoScreen \notin DOMAIN screens

(* What the two threads agree on: Mir's waits with "stopping" in the queue  *)
(* until the GUI thread has handled it, and is stopped with the queue empty.*)
Handshake ==
  /\ mir \in { "started", "stopping", "stopped", "advising", "updating", "terminated",
               "ended", "killed" }
  /\ mir = "terminated" => ~ connected
  /\ gui \in { "idle", "starting", "stopping", "waiting", "ended" }
  /\ mir \in { "started", "advising", "updating", "terminated", "ended" } =>
       queue \in { << >>, << "starting" >> } /\ gui # "stopping"
  /\ mir = "stopping" /\ gui # "stopping" =>
       queue \in { << "stopping" >>, << "starting", "stopping" >> }
  /\ gui = "starting" => queue \in { << >>, << "stopping" >> }
  /\ gui = "stopping" => mir = "stopping" /\ queue = << >>
  /\ mir = "stopped" => queue = << >> /\ gui \in { "idle", "waiting", "ended" }
  /\ mir = "killed" => gui = "ended"
  /\ mir \notin { "terminated", "ended" } => connected

(* One thread at a time is in update(), and it alone has a list then.       *)
Lists ==
  /\ old = [ t \in Screen!Threads |-> IF Screen!Updating(t) THEN DOMAIN screens ELSE {} ]
  /\ listed = IF Screen!Updating("gui") \/ Screen!Updating("mir") THEN {} ELSE DOMAIN screens
  /\ ~ (Screen!Updating("gui") /\ Screen!Updating("mir"))

OnePerOutput == \A r, s \in DOMAIN screens : Screen!OutputOf(r) = Screen!OutputOf(s) => r = s

(* The window that a screen knows is on that screen, and none is exposed    *)
(* without a screen.                                                        *)
WindowsKnown ==
  /\ \A s \in DOMAIN screens :
       screens[s].window # NoWindow => windows[screens[s].window].screen = s
  /\ \A w \in Windows : windows[w].exposed => windows[w].screen # Screen!NoScreen

(* A window that its screen knows renders; and none does from when Mir has  *)
(* its compositor stopped until the screens are matched with new buffers.   *)
Renders(w) == windows[w].exposed /\ screens[windows[w].screen].window = w
Halted == mir = "stopped" \/ gui = "stopping" \/ HeadStarting
Dark ==
  /\ compositing \in BOOLEAN /\ (Halted => compositing = FALSE)
  /\ Halted \/ gui = "starting" => \A w \in Windows : ~ Renders(w)
(* Outside of that time each lit screen has a buffer that is there.         *)
Fresh ==
  ~ config.cloned /\ ~ HeadStarting /\ gui # "starting" =>
    \A s \in DOMAIN screens : screens[s].lit => screens[s].buffer = "current"

(* All of it as long as no two threads were in update() at a time.          *)
OneUpdate == ScreenTypes /\ Lists /\ OnePerOutput /\ WindowsKnown /\ Dark /\ Fresh
ScreenInv == Handshake /\ (~ raced => OneUpdate)

LEMMA LitIsCurrent == ScreenInv => Screen!RendersOnBuffer
<1> SUFFICES ASSUME ScreenInv, NEW w \in Windows, windows[w].exposed, ~ raced, ~ config.cloned,
                    screens[windows[w].screen].lit, screens[windows[w].screen].window = w
             PROVE  screens[windows[w].screen].buffer = "current"
  BY DEF Screen!RendersOnBuffer
<1>1. OneUpdate
  BY DEF ScreenInv
<1>2. windows[w].screen \in DOMAIN screens
  BY <1>1 DEF OneUpdate, WindowsKnown, ScreenTypes
<1>3. ~ HeadStarting /\ gui # "starting"
  BY <1>1 DEF OneUpdate, Dark, Halted, Renders
<1> QED
  BY <1>1, <1>2, <1>3 DEF OneUpdate, Fresh

(* A sequence of two, appended to.                                          *)
LEMMA Ahead ==
  ASSUME NEW S, NEW s \in Seq(S), NEW e \in S
  PROVE  /\ Append(s, e) \in Seq(S)
         /\ Len(Append(s, e)) = Len(s) + 1
         /\ Append(s, e)[Len(s) + 1] = e
         /\ \A i \in 1..Len(s) : Append(s, e)[i] = s[i]
BY SMT

LEMMA TwoLong ==
  ASSUME NEW S, NEW q \in Seq(S), Len(q) = 2 PROVE q = << q[1], q[2] >>
OBVIOUS

LEMMA Pair ==
  ASSUME NEW a, NEW b PROVE Append(<< a >>, b) = << a, b >>
<1>1. << a >> \in Seq({ a, b }) /\ Len(<< a >>) = 1 /\ << a >>[1] = a
  OBVIOUS
<1>2. /\ Append(<< a >>, b) \in Seq({ a, b })
      /\ Len(Append(<< a >>, b)) = 2
      /\ Append(<< a >>, b)[1] = a
      /\ Append(<< a >>, b)[2] = b
  BY <1>1, Ahead
<1> QED
  BY <1>2, TwoLong

LEMMA HandshakeKept == Handshake /\ [Screen!Next]_screenVars => Handshake'
<1> SUFFICES ASSUME Handshake, [Screen!Next]_screenVars
             PROVE  Handshake'
  OBVIOUS
<1>1. /\ Append(<< >>, "stopping") = << "stopping" >>
      /\ Append(<< >>, "starting") = << "starting" >>
      /\ Append(<< "starting" >>, "stopping") = << "starting", "stopping" >>
  BY Pair
<1>2. /\ Head(<< "starting", "stopping" >>) = "starting"
      /\ Head(<< "starting" >>) = "starting" /\ Head(<< "stopping" >>) = "stopping"
  OBVIOUS
<1>3. /\ Tail(<< "starting", "stopping" >>) = << "stopping" >>
       /\ Tail(<< "starting" >>) = << >> /\ Tail(<< "stopping" >>) = << >>
  OBVIOUS
<1>4. CASE Screen!OnCompositorStarting
  BY <1>2, <1>3, <1>4 DEF Screen!OnCompositorStarting, Handshake
<1>5. CASE Screen!OnCompositorStopping
  BY <1>2, <1>3, <1>5 DEF Screen!OnCompositorStopping, Handshake
<1>6. CASE Screen!StartRenderer
  <2>1. gui = "starting" /\ gui' = "idle" /\ UNCHANGED << mir, queue, connected >>
    BY <1>6, Zenon DEF Screen!StartRenderer
  <2> QED
    BY <2>1 DEF Handshake
<1>13. CASE Screen!CompositorStopped
  <2>1. gui = "stopping" /\ gui' = "idle" /\ mir' = "stopped" /\ UNCHANGED << queue, connected >>
    BY <1>13, Zenon DEF Screen!CompositorStopped
  <2> QED
    BY <2>1 DEF Handshake
<1>7. CASE Screen!Stop \/ Screen!Wait \/ Screen!Killed \/ UNCHANGED screenVars
  BY <1>7 DEF Screen!Stop, Screen!Wait, Screen!Killed, screenVars, Handshake
<1>8. CASE \E w \in Windows : Screen!DestroyWindow(w) \/ \E s \in listed : Screen!CreatePlatformWindow(w, s)
  BY <1>8 DEF Screen!DestroyWindow, Screen!CreatePlatformWindow, Handshake
<1>9. CASE Screen!StopCompositor
  BY <1>1, <1>9 DEF Screen!StopCompositor, Screen!EmitStopping, Handshake
<1>10. CASE Screen!Configure
  BY <1>1, <1>10 DEF Screen!Configure, Handshake
<1>11. CASE Screen!AdviseOutput \/ Screen!OutputAdvised \/ Screen!Terminate
  BY <1>11 DEF Screen!AdviseOutput, Screen!OutputAdvised, Screen!Terminate, Handshake
<1>12. CASE Screen!Shutdown
  <2>1. /\ mir = "terminated" /\ UNCHANGED << gui, connected >>
        /\ Screen!EmitStopping("shutting", "ended")
    BY <1>12 DEF Screen!Shutdown
  <2>2. ~ connected
    BY <2>1 DEF Handshake
  <2>3. mir' = "ended" /\ UNCHANGED queue
    BY <2>1, <2>2, Zenon DEF Screen!EmitStopping
  <2> QED
    BY <2>1, <2>2, <2>3 DEF Handshake
<1> QED
  BY <1>4, <1>5, <1>6, <1>7, <1>8, <1>9, <1>10, <1>11, <1>12, <1>13 DEF Screen!Next

LEMMA ScreensInit == Screen!WindowsAssumption /\ Screen!BoundAssumption /\ Screen!Init => ScreenInv
<1> SUFFICES ASSUME Screen!WindowsAssumption, Screen!BoundAssumption, Screen!Init
             PROVE  ScreenInv
  OBVIOUS
<1>1. mir = "started" /\ queue = << "starting" >> /\ connected = TRUE /\ gui = "idle"
  BY Zenon DEF Screen!Init
<1>2. Handshake
  BY <1>1 DEF Handshake
<1>3. /\ listed \subseteq Screen!Ids /\ \A s \in listed : s[2] = 1
      /\ screens = [ s \in listed |-> [ lit |-> TRUE, buffer |-> "current", window |-> NoWindow ] ]
      /\ old = [ t \in Screen!Threads |-> {} ]
      /\ windows = [ w \in Windows |-> Screen!NotCreated ] /\ compositing = FALSE
  BY Zenon DEF Screen!Init
<1>4. DOMAIN screens = listed
  BY <1>3
<1>5. Screen!NoScreen \notin DOMAIN screens
  BY <1>3, <1>4 DEF Screen!Ids, Screen!NoScreen
<1>6. OnePerOutput
  BY <1>3, <1>4 DEF OnePerOutput, Screen!OutputOf, Screen!Ids
<1>7. [ lit |-> TRUE, buffer |-> "current", window |-> NoWindow ] \in Record
  BY Zenon DEF Record
<1>8. screens \in [ DOMAIN screens -> Record ]
  BY <1>3, <1>4, <1>7, Zenon
<1>9. Screen!NotCreated \in [ screen : DOMAIN screens \cup { Screen!NoScreen }, exposed : BOOLEAN ]
  BY Zenon DEF Screen!NotCreated
<1>10. windows \in [ Windows -> [ screen : DOMAIN screens \cup { Screen!NoScreen }, exposed : BOOLEAN ] ]
  BY <1>3, <1>9, Zenon
<1>11. Lists
  BY <1>1, <1>3, <1>4 DEF Lists, Screen!Updating
<1>12. WindowsKnown /\ \A w \in Windows : ~ Renders(w)
  BY <1>3, <1>4 DEF WindowsKnown, Renders, Screen!NotCreated
<1>13. HeadStarting
  BY <1>1 DEF HeadStarting
<1> QED
  BY <1>2, <1>3, <1>5, <1>6, <1>8, <1>10, <1>11, <1>12, <1>13 DEF ScreenInv, OneUpdate,
     ScreenTypes, Dark, Fresh

(* The fields of a screen that one of them is assigned to, and of a window. *)
LEMMA BufferFreed ==
  ASSUME NEW r \in Record, NEW x, x = [ r EXCEPT !.buffer = "freed" ]
  PROVE  x \in Record /\ x.window = r.window
BY Zenon DEF Record

LEMMA WindowSet ==
  ASSUME NEW r \in Record, NEW w \in Windows \cup { NoWindow },
         NEW x, x = [ r EXCEPT !.window = w ]
  PROVE  x \in Record /\ x.lit = r.lit /\ x.buffer = r.buffer /\ x.window = w
BY Zenon DEF Record

LEMMA WindowMade ==
  ASSUME NEW A, NEW s \in A, NEW on \in BOOLEAN, NEW x, x = [ screen |-> s, exposed |-> on ]
  PROVE  x \in [ screen : A, exposed : BOOLEAN ] /\ x.screen = s /\ x.exposed = on
<1>1. x.screen = s /\ x.exposed = on
  BY Zenon
<1>2. x \in [ screen : A, exposed : BOOLEAN ]
  BY Zenon
<1> QED
  BY <1>1, <1>2

LEMMA WindowOf ==
  ASSUME NEW A, NEW B, NEW r \in [ screen : A, exposed : BOOLEAN ], r.screen \in B
  PROVE  /\ r \in [ screen : B, exposed : BOOLEAN ]
         /\ [ r EXCEPT !.exposed = TRUE ] \in [ screen : B, exposed : BOOLEAN ]
         /\ [ r EXCEPT !.exposed = TRUE ].screen = r.screen
<1>1. r = [ screen |-> r.screen, exposed |-> r.exposed ] /\ r.exposed \in BOOLEAN
  BY Zenon
<1>2. r \in [ screen : B, exposed : BOOLEAN ]
  BY <1>1, Zenon
<1>3. /\ [ r EXCEPT !.exposed = TRUE ] \in [ screen : B, exposed : BOOLEAN ]
      /\ [ r EXCEPT !.exposed = TRUE ].screen = r.screen
  BY <1>2, Zenon
<1> QED
  BY <1>2, <1>3

(* What has one element is not empty.                                       *)
LEMMA NoneIsZero == Screen!Cardinality({}) = 0
BY FS_EmptySet DEF Screen!Cardinality, Cardinality

(* What update() comes to while no other thread is in it: outputs have one  *)
(* screen each, windows stay with theirs, and who is lit has a new buffer.  *)
LEMMA UpdateEnded ==
  ASSUME Screen!WindowsAssumption, ScreenTypes, OnePerOutput, WindowsKnown,
         NEW t \in Screen!Threads, old[t] = DOMAIN screens, listed = {},
         NEW b \in BOOLEAN, Screen!UpdateEnds(t, b)
  PROVE  /\ ScreenTypes' /\ OnePerOutput' /\ WindowsKnown'
         /\ listed' = DOMAIN screens'
         /\ old' = [ old EXCEPT ![t] = {} ]
         /\ ~ config.cloned => \A s \in DOMAIN screens' :
                                 screens'[s].lit => screens'[s].buffer = "current"
         /\ ~ b => \A w \in Windows : Renders(w)' => Renders(w)
<1> DEFINE S == DOMAIN screens
           created == Screen!CreateScreens(old[t])
<1>1. PICK kept \in Screen!KeptOf(old[t]) :
        LET gone == old[t] \ kept
            there == (DOMAIN screens \ gone) \cup created
        IN  /\ listed' = listed \cup kept \cup created
            /\ \E matched \in Screen!Matched(listed') :
                 screens' = [ s \in there |-> Screen!Screen(s, kept \cup created, matched) ]
            /\ old' = [ old EXCEPT ![t] = {} ]
            /\ windows' =
                 [ w \in Windows |->
                     IF windows[w].screen \in gone THEN Screen!NotCreated
                     ELSE IF b /\ \E s \in listed' : screens'[s].lit /\ screens'[s].window = w
                            THEN Screen!SetExposed(w, TRUE)
                            ELSE windows[w] ]
  BY Zenon DEF Screen!UpdateEnds
<1> DEFINE D == kept \cup created
<1>2. kept \subseteq S
  BY DEF Screen!KeptOf
<1>3. listed' = D
  BY <1>1
<1>4. PICK matched \in Screen!Matched(D) : screens' = [ s \in D |-> Screen!Screen(s, D, matched) ]
  <2>1. (DOMAIN screens \ (old[t] \ kept)) \cup created = D
    BY <1>2
  <2> QED
    BY <1>1, <1>3, <2>1, Zenon
<1> DEFINE Named(o) == << o, CHOOSE n \in 1 .. Incarnations : << o, n >> \notin DOMAIN screens >>
           Missing == { u \in Screen!Used : Screen!Of(S, u) = {} }
<1>5. created = { Named(o) : o \in Missing }
  BY Zenon DEF Screen!CreateScreens
<1>6. \A o : Screen!OutputOf(Named(o)) = o /\ Named(o) # Screen!NoScreen
  BY DEF Screen!NoScreen, Screen!OutputOf
<1>7. \A o \in Missing : \A r \in S : Screen!OutputOf(r) # o
  BY DEF Screen!Of
<1>8. \A s \in D : Screen!OutputOf(s) \in Outputs
  BY <1>5, <1>6 DEF Screen!KeptOf, Screen!Used
<1> HIDE DEF Named, Missing
<1>9. \A s \in created : Screen!NoScreen # s /\ \A r \in S : Screen!OutputOf(r) # Screen!OutputOf(s)
  BY <1>5, <1>6, <1>7
<1>10. \A r, s \in created : Screen!OutputOf(r) = Screen!OutputOf(s) => r = s
  BY <1>5, <1>6
<1>11. /\ Screen!NoScreen \notin D
      /\ \A r, s \in D : Screen!OutputOf(r) = Screen!OutputOf(s) => r = s
  BY <1>2, <1>9, <1>10 DEF ScreenTypes, OnePerOutput
<1>12. \A s \in created : s \notin S
  BY <1>9
<1> HIDE DEF created, D
<1>13. DOMAIN screens' = D
  BY <1>4
<1>14. ASSUME NEW s \in D
       PROVE  /\ screens'[s] \in Record
              /\ screens'[s].lit => config.outputs[Screen!OutputOf(s)] = "lit"
              /\ s \in matched => screens'[s].buffer = "current"
              /\ screens'[s].window = IF s \in S THEN screens[s].window ELSE NoWindow
  <2> DEFINE was == IF s \in S THEN screens[s] ELSE Screen!NewScreen
  <2>1. was \in Record
    <3>1. Screen!NewScreen \in Record
      BY Zenon DEF Screen!NewScreen, Record
    <3> QED
      BY <3>1 DEF ScreenTypes
  <2>2. was.window = IF s \in S THEN screens[s].window ELSE NoWindow
    BY DEF Screen!NewScreen
  <2> DEFINE lit == config.outputs[Screen!OutputOf(s)] = "lit"
             buffer == IF s \in matched THEN "current" ELSE was.buffer
  <2>3. screens'[s] = [ lit |-> lit, buffer |-> buffer, window |-> was.window ]
    BY <1>4, Zenon DEF Screen!Screen
  <2>4. was.window \in Windows \cup { NoWindow }
    BY <2>1, Zenon DEF Record
  <2>5. was.buffer \in { "none", "current", "freed" }
    BY <2>1, Zenon DEF Record
  <2>6. buffer \in { "none", "current", "freed" } /\ (s \in matched => buffer = "current")
    BY <2>5
  <2>7. lit \in BOOLEAN /\ (lit => config.outputs[Screen!OutputOf(s)] = "lit")
    OBVIOUS
  <2> HIDE DEF was, lit, buffer
  <2>8. /\ screens'[s] \in Record /\ screens'[s].lit = lit
        /\ screens'[s].buffer = buffer /\ screens'[s].window = was.window
    <3>1. PICK r : r = screens'[s]
      OBVIOUS
    <3>2. PICK window \in Windows \cup { NoWindow } : window = was.window
      BY <2>4
    <3>3. r = [ lit |-> lit, buffer |-> buffer, window |-> window ]
      BY <2>3, <3>1, <3>2
    <3>4. lit \in BOOLEAN /\ buffer \in { "none", "current", "freed" }
      BY <2>6, <2>7
    <3>5. r \in Record
      BY <3>3, <3>4, Zenon DEF Record
    <3>6. r.lit = lit
      BY <3>3, Zenon
    <3>7. r.buffer = buffer
      BY <3>3, Zenon
    <3>8. r.window = window
      BY <3>3, Zenon
    <3> QED
      BY <3>1, <3>2, <3>5, <3>6, <3>7, <3>8, Zenon
  <2> QED
    BY <2>2, <2>6, <2>7, <2>8, Zenon
<1>15. ASSUME NEW w \in Windows
       PROVE  /\ windows'[w] \in [ screen : D \cup { Screen!NoScreen }, exposed : BOOLEAN ]
              /\ windows'[w].screen = IF windows[w].screen \in S \ kept THEN Screen!NoScreen
                                                                    ELSE windows[w].screen
              /\ windows'[w].exposed =>
                   /\ windows[w].screen \notin S \ kept
                   /\ windows[w].exposed \/ (b /\ \E s \in D : screens'[s].window = w)
  <2> DEFINE Exposes == b /\ \E s \in listed' : screens'[s].lit /\ screens'[s].window = w
             Type == [ screen : D \cup { Screen!NoScreen }, exposed : BOOLEAN ]
  <2>1. windows'[w] = IF windows[w].screen \in S \ kept THEN Screen!NotCreated
                      ELSE IF Exposes THEN Screen!SetExposed(w, TRUE) ELSE windows[w]
    BY <1>1, Zenon
  <2>2. windows[w] \in [ screen : S \cup { Screen!NoScreen }, exposed : BOOLEAN ]
    BY DEF ScreenTypes
  <2>3. Screen!NotCreated \in Type /\ Screen!NotCreated.screen = Screen!NoScreen /\ ~ Screen!NotCreated.exposed
    BY Zenon DEF Screen!NotCreated
  <2>4. Screen!SetExposed(w, TRUE).screen = windows[w].screen
    BY <2>2, Zenon DEF Screen!SetExposed
  <2>5. CASE windows[w].screen \in S \ kept
    BY <2>1, <2>3, <2>5, Zenon
  <2>6. CASE windows[w].screen \notin S \ kept
    <3>1. windows[w].screen \in S \cup { Screen!NoScreen } /\ windows[w].exposed \in BOOLEAN
      BY <2>2, Zenon
    <3>2. windows[w].screen \in D \cup { Screen!NoScreen }
      BY <2>6, <3>1 DEF D
    <3>3. windows[w] \in Type /\ Screen!SetExposed(w, TRUE) \in Type
      BY <2>2, <3>2, WindowOf, Zenon DEF Screen!SetExposed
    <3>4. windows'[w] = Screen!SetExposed(w, TRUE) \/ windows'[w] = windows[w]
      BY <2>1, <2>6, Zenon
    <3>5. windows'[w] # windows[w] => b /\ \E s \in D : screens'[s].window = w
      BY <1>3, <2>1, <2>6
    <3> QED
      BY <2>4, <2>6, <3>3, <3>4, <3>5, Zenon
  <2> QED
    BY <2>5, <2>6
<1>16. ASSUME NEW s \in D, screens'[s].window # NoWindow
       PROVE  windows'[screens'[s].window].screen = s
  <2> DEFINE w == screens'[s].window
  <2>1. s \in S /\ w = screens[s].window
    BY <1>14, <1>16
  <2>2. w \in Windows
    BY <2>1, <1>16 DEF ScreenTypes, Record
  <2>3. windows[w].screen = s
    BY <2>1, <1>16 DEF WindowsKnown
  <2>4. s \in kept
    BY <1>12, <2>1 DEF D
  <2> HIDE DEF w
  <2>5. windows'[w].screen = s
    BY <1>15, <2>2, <2>3, <2>4
  <2> QED
    BY <2>5 DEF w
<1>17. ScreenTypes'
  <2>1. windows' = [ w \in Windows |-> windows'[w] ] /\ screens' = [ s \in D |-> screens'[s] ]
    BY <1>1, <1>4, Zenon
  <2>2. windows' \in [ Windows -> [ screen : D \cup { Screen!NoScreen }, exposed : BOOLEAN ] ]
    BY <1>15, <2>1, Zenon
  <2>3. screens' \in [ D -> Record ]
    BY <1>14, <2>1, Zenon
  <2> QED
    BY <1>11, <1>13, <2>2, <2>3 DEF ScreenTypes, Record, Screen!NoScreen
<1>18. OnePerOutput'
  BY <1>11, <1>13 DEF OnePerOutput, Screen!OutputOf
<1>19. WindowsKnown'
  <2>1. ASSUME NEW w \in Windows, windows'[w].exposed
        PROVE  windows'[w].screen # Screen!NoScreen
    <3>1. CASE windows[w].exposed /\ windows'[w].screen = windows[w].screen
      BY <3>1 DEF WindowsKnown
    <3>2. ASSUME NEW s \in D, screens'[s].window = w
          PROVE  windows'[w].screen # Screen!NoScreen
      BY <1>11, <1>16, <3>2, w # NoWindow DEF Screen!WindowsAssumption
    <3> QED
      BY <2>1, <3>1, <3>2, <1>15
  <2> QED
    BY <1>13, <1>16, <2>1 DEF WindowsKnown, Screen!NoScreen
<1>20. ASSUME ~ config.cloned, NEW s \in D, screens'[s].lit
       PROVE  screens'[s].buffer = "current"
  <2> DEFINE g == Screen!OutputOf(s)
             Mine == { r \in matched : Screen!Geometry(Screen!OutputOf(r)) = g }
  <2>1. \A o : Screen!Geometry(o) = o
    BY <1>20 DEF Screen!Geometry
  <2>2. g \in Screen!Lit
    BY <1>14, <1>20, <1>8, <2>1 DEF Screen!Lit
  <2>3. Screen!Cardinality(Mine) = 1
    BY <2>1, <2>2 DEF Screen!Matched
  <2>4. PICK r \in Mine : TRUE
    BY <2>3, NoneIsZero
  <2>5. r \in D /\ Screen!OutputOf(r) = Screen!OutputOf(s)
    BY <2>1, <2>4 DEF Screen!Matched
  <2>6. r = s
    BY <1>11, <2>5
  <2> QED
    BY <1>14, <2>4, <2>6
<1>21. ASSUME ~ b, NEW w \in Windows, Renders(w)'
       PROVE  Renders(w)
  <2>1. windows[w].exposed /\ windows'[w].screen # Screen!NoScreen
    BY <1>15, <1>19, <1>21 DEF Renders, WindowsKnown
  <2>2. windows'[w].screen = windows[w].screen /\ windows[w].screen \in D
    BY <1>15, <1>17, <1>13, <2>1 DEF ScreenTypes, Screen!NoScreen
  <2>3. screens'[windows[w].screen].window = w /\ w # NoWindow
    BY <1>21, <2>2 DEF Renders, Screen!WindowsAssumption
  <2> QED
    BY <1>14, <2>1, <2>2, <2>3 DEF Renders
<1> QED
  BY <1>1, <1>3, <1>13, <1>17, <1>18, <1>19, <1>20, <1>21

(* That two threads were in update() is not forgotten.                      *)
LEMMA RacedStays == raced /\ [Screen!Next]_screenVars => raced'
<1> SUFFICES ASSUME raced, [Screen!Next]_screenVars
             PROVE  raced'
  OBVIOUS
<1>1. CASE Screen!OnCompositorStarting \/ Screen!OnCompositorStopping
  BY <1>1, Zenon DEF Screen!OnCompositorStarting, Screen!OnCompositorStopping, Screen!UpdateBegins
<1>2. CASE Screen!AdviseOutput
  BY <1>2, Zenon DEF Screen!AdviseOutput, Screen!UpdateBegins
<1>3. CASE ~ (Screen!OnCompositorStarting \/ Screen!OnCompositorStopping \/ Screen!AdviseOutput)
  BY <1>3 DEF Screen!Next, Screen!StartRenderer, Screen!CompositorStopped, Screen!Stop,
     Screen!Wait, Screen!Killed, Screen!DestroyWindow,
     Screen!CreatePlatformWindow, Screen!StopCompositor, Screen!Configure, Screen!OutputAdvised, Screen!Terminate, Screen!Shutdown, screenVars
<1> QED
  BY <1>1, <1>2, <1>3

(* update() takes the list, while no other thread is in it.                 *)
LEMMA UpdateBegun ==
  ASSUME Lists, NEW t \in Screen!Threads, Screen!UpdateBegins(t), ~ raced', UNCHANGED screens,
         ~ Screen!Updating(t), Screen!Updating(t)',
         \A u \in Screen!Threads \ { t } : Screen!Updating(u)' = Screen!Updating(u)
  PROVE  Lists' /\ \A u \in Screen!Threads : ~ Screen!Updating(u)
<1>1. \A u \in Screen!Threads : ~ Screen!Updating(u)
  BY DEF Screen!UpdateBegins
<1>2. listed = DOMAIN screens /\ old = [ u \in Screen!Threads |-> {} ]
  BY <1>1 DEF Lists, Screen!Threads
<1>3. old' = [ u \in Screen!Threads |-> IF u = t THEN DOMAIN screens ELSE {} ]
  BY <1>2 DEF Screen!UpdateBegins
<1>4. \A u \in Screen!Threads : Screen!Updating(u)' <=> u = t
  BY <1>1
<1>5. old' = [ u \in Screen!Threads |-> IF Screen!Updating(u)' THEN DOMAIN screens ELSE {} ]
  BY <1>3, <1>4
<1>6. listed' = {} /\ (Screen!Updating("gui")' \/ Screen!Updating("mir")') /\ ~ (Screen!Updating("gui")' /\ Screen!Updating("mir")')
  BY <1>4 DEF Screen!UpdateBegins, Screen!Threads
<1> QED
  BY <1>1, <1>5, <1>6 DEF Lists

(* update() is through, and no thread is in it.                             *)
LEMMA UpdateDone ==
  ASSUME Screen!WindowsAssumption, OneUpdate, NEW t \in Screen!Threads, NEW b \in BOOLEAN, Screen!UpdateEnds(t, b),
         Screen!Updating(t), ~ Screen!Updating(t)',
         \A u \in Screen!Threads \ { t } : Screen!Updating(u)' = Screen!Updating(u)
  PROVE  /\ ScreenTypes' /\ Lists' /\ OnePerOutput' /\ WindowsKnown'
         /\ ~ config.cloned => \A s \in DOMAIN screens' :
                                 screens'[s].lit => screens'[s].buffer = "current"
         /\ ~ b => \A w \in Windows : Renders(w)' => Renders(w)
<1>1. old[t] = DOMAIN screens /\ listed = {} /\ \A u \in Screen!Threads \ { t } : ~ Screen!Updating(u)
  BY DEF OneUpdate, Lists, Screen!Threads
<1>2. old = [ u \in Screen!Threads |-> IF u = t THEN DOMAIN screens ELSE {} ]
  BY <1>1 DEF OneUpdate, Lists
<1>3. /\ ScreenTypes' /\ OnePerOutput' /\ WindowsKnown'
      /\ listed' = DOMAIN screens'
      /\ old' = [ old EXCEPT ![t] = {} ]
      /\ ~ config.cloned => \A s \in DOMAIN screens' :
                              screens'[s].lit => screens'[s].buffer = "current"
      /\ ~ b => \A w \in Windows : Renders(w)' => Renders(w)
  BY <1>1, UpdateEnded DEF OneUpdate
<1>4. old' = [ u \in Screen!Threads |-> {} ]
  BY <1>2, <1>3
<1>5. \A u \in Screen!Threads : ~ Screen!Updating(u)'
  BY <1>1
<1>6. Lists'
  BY <1>3, <1>4, <1>5 DEF Lists, Screen!Threads
<1> QED
  BY <1>3, <1>6


LEMMA ScreensKept ==
  ASSUME Screen!WindowsAssumption, ScreenInv, [Screen!Next]_screenVars
  PROVE  ScreenInv'
<1>1. Handshake'
  BY HandshakeKept DEF ScreenInv
<1> SUFFICES ASSUME ~ raced'
             PROVE  OneUpdate'
  BY <1>1 DEF ScreenInv
<1>2. Handshake /\ OneUpdate
  BY RacedStays DEF ScreenInv
<1>3. ScreenTypes /\ Lists /\ OnePerOutput /\ WindowsKnown /\ Dark /\ Fresh
  BY <1>2 DEF OneUpdate
<1>4. /\ Head(<< "starting", "stopping" >>) = "starting"
      /\ Head(<< "starting" >>) = "starting" /\ Head(<< "stopping" >>) = "stopping"
  OBVIOUS
<1>5. /\ Tail(<< "starting", "stopping" >>) = << "stopping" >>
      /\ Tail(<< "starting" >>) = << >> /\ Tail(<< "stopping" >>) = << >>
  OBVIOUS
<1>6. CASE Screen!OnCompositorStarting
  <2>1. Lists'
    <3>1. Screen!UpdateBegins("gui") /\ ~ Screen!Updating("gui") /\ Screen!Updating("gui")' /\ UNCHANGED << mir, screens >>
      BY <1>2, <1>6, <1>4 DEF Screen!OnCompositorStarting, Screen!Updating, Handshake
    <3>2. \A u \in Screen!Threads \ { "gui" } : Screen!Updating(u)' = Screen!Updating(u)
      BY <3>1 DEF Screen!Updating
    <3> QED
      BY <1>3, <3>1, <3>2, UpdateBegun DEF Screen!Threads
  <2>2. HeadStarting /\ queue' \in { << >>, << "stopping" >> } /\ mir' # "stopped" /\ gui' = "starting"
    BY <1>2, <1>4, <1>5, <1>6 DEF Screen!OnCompositorStarting, Handshake, HeadStarting
  <2>3. UNCHANGED << screens, windows >> /\ compositing' \in BOOLEAN
    BY <1>6 DEF Screen!OnCompositorStarting
  <2>4. ~ Halted' /\ \A w \in Windows : ~ Renders(w)'
    BY <1>3, <1>4, <2>2, <2>3 DEF Halted, HeadStarting, Dark, Renders
  <2> QED
    BY <1>3, <2>1, <2>2, <2>3, <2>4 DEF OneUpdate, ScreenTypes, OnePerOutput, WindowsKnown, Dark,
       Fresh
<1>7. CASE Screen!StartRenderer
  <2>1. Screen!UpdateEnds("gui", TRUE) /\ UNCHANGED << mir, queue, config, compositing >> /\ gui = "starting" /\ gui' = "idle"
    BY <1>7 DEF Screen!StartRenderer
  <2>2. Screen!Updating("gui") /\ ~ Screen!Updating("gui")' /\ \A u \in Screen!Threads \ { "gui" } : Screen!Updating(u)' = Screen!Updating(u)
    BY <2>1 DEF Screen!Updating
  <2>3. /\ ScreenTypes' /\ Lists' /\ OnePerOutput' /\ WindowsKnown'
        /\ ~ config.cloned => \A s \in DOMAIN screens' :
                                screens'[s].lit => screens'[s].buffer = "current"
    BY <1>2, <2>1, <2>2, UpdateDone DEF Screen!Threads
  <2>4. ~ Halted'
    BY <1>2, <1>4, <2>1 DEF Halted, HeadStarting, Handshake
  <2> QED
    BY <1>3, <2>1, <2>3, <2>4 DEF OneUpdate, Dark, Fresh
<1>8. CASE Screen!OnCompositorStopping
  <2>1. /\ Screen!UpdateBegins("gui") /\ Screen!HaltRenderer /\ UNCHANGED << mir, screens, config >>
        /\ gui = "idle" /\ gui' = "stopping" /\ mir = "stopping" /\ ~ HeadStarting
        /\ queue' = << >> /\ compositing' = FALSE
    BY <1>2, <1>4, <1>5, <1>8 DEF Screen!OnCompositorStopping, Handshake, HeadStarting
  <2>2. Lists' /\ listed = DOMAIN screens
    <3>1. ~ Screen!Updating("gui") /\ Screen!Updating("gui")' /\ \A u \in Screen!Threads \ { "gui" } : Screen!Updating(u)' = Screen!Updating(u)
      BY <2>1 DEF Screen!Updating
    <3> QED
      BY <1>3, <2>1, <3>1, UpdateBegun DEF Screen!Threads, Lists, Screen!Updating
  <2>3. ASSUME NEW w \in Windows
        PROVE  /\ windows'[w].screen = windows[w].screen
               /\ windows'[w] \in [ screen : DOMAIN screens \cup { Screen!NoScreen }, exposed : BOOLEAN ]
               /\ windows'[w].exposed => /\ windows[w].exposed
                                         /\ ~ \E s \in listed : screens[s].window = w
    <3> DEFINE Shown == \E s \in listed : screens[s].window = w
    <3>1. windows'[w] = IF Shown THEN Screen!SetExposed(w, FALSE) ELSE windows[w]
      BY <2>1, Zenon DEF Screen!HaltRenderer
    <3>2. windows[w] \in [ screen : DOMAIN screens \cup { Screen!NoScreen }, exposed : BOOLEAN ]
      BY <1>3, Zenon DEF ScreenTypes
    <3>3. /\ Screen!SetExposed(w, FALSE) \in [ screen : DOMAIN screens \cup { Screen!NoScreen }, exposed : BOOLEAN ]
          /\ Screen!SetExposed(w, FALSE).screen = windows[w].screen
      BY <3>2, Zenon DEF Screen!SetExposed
    <3>4. Screen!SetExposed(w, FALSE).exposed = FALSE
      BY <3>2, Zenon DEF Screen!SetExposed
    <3>5. CASE Shown
      BY <3>1, <3>3, <3>4, <3>5, Zenon
    <3>6. CASE ~ Shown
      BY <3>1, <3>2, <3>6, Zenon
    <3> QED
      BY <3>5, <3>6
  <2>4. ScreenTypes' /\ WindowsKnown'
    <3>1. windows' = [ w \in Windows |-> windows'[w] ]
      BY <2>1, Zenon DEF Screen!HaltRenderer
    <3>2. windows' \in [ Windows -> [ screen : DOMAIN screens \cup { Screen!NoScreen }, exposed : BOOLEAN ] ]
      BY <2>3, <3>1, Zenon
    <3>3. ScreenTypes'
      BY <1>3, <2>1, <3>2 DEF ScreenTypes, Record, Screen!NoScreen
    <3>4. \A s \in DOMAIN screens : screens[s].window \in Windows \cup { NoWindow }
      BY <1>3 DEF ScreenTypes, Record
    <3> QED
      BY <1>3, <2>1, <2>3, <3>3, <3>4 DEF WindowsKnown
  <2>5. ASSUME NEW w \in Windows
        PROVE  ~ Renders(w)'
    <3> SUFFICES ASSUME Renders(w)'
                 PROVE  FALSE
      OBVIOUS
    <3>1. /\ windows[w].exposed /\ ~ \E s \in listed : screens[s].window = w
          /\ windows'[w].screen = windows[w].screen /\ screens[windows[w].screen].window = w
      BY <2>1, <2>3 DEF Renders
    <3>2. windows[w].screen \in DOMAIN screens
      BY <1>3, <3>1 DEF ScreenTypes, WindowsKnown
    <3> QED
      BY <2>2, <3>1, <3>2
  <2> QED
    BY <1>3, <2>1, <2>2, <2>4, <2>5 DEF OneUpdate, OnePerOutput, Dark, Fresh
<1>9. CASE Screen!CompositorStopped
  <2>1. /\ Screen!UpdateEnds("gui", FALSE) /\ UNCHANGED << queue, config, compositing >>
        /\ gui = "stopping" /\ gui' = "idle" /\ mir' = "stopped" /\ mir = "stopping"
    BY <1>2, <1>9 DEF Screen!CompositorStopped, Handshake
  <2>2. Screen!Updating("gui") /\ ~ Screen!Updating("gui")' /\ \A u \in Screen!Threads \ { "gui" } : Screen!Updating(u)' = Screen!Updating(u)
    BY <2>1 DEF Screen!Updating, Screen!Threads
  <2>3. /\ ScreenTypes' /\ Lists' /\ OnePerOutput' /\ WindowsKnown'
        /\ ~ config.cloned => \A s \in DOMAIN screens' :
                                screens'[s].lit => screens'[s].buffer = "current"
        /\ \A w \in Windows : Renders(w)' => Renders(w)
    BY <1>2, <2>1, <2>2, UpdateDone DEF Screen!Threads
  <2> QED
    BY <1>3, <2>1, <2>3 DEF OneUpdate, Dark, Fresh, Halted
<1>10. CASE Screen!OutputAdvised
  <2>1. /\ Screen!UpdateEnds("mir", FALSE) /\ UNCHANGED << queue, config, compositing, gui >>
        /\ mir' = "started" /\ mir = "updating"
    BY <1>10 DEF Screen!OutputAdvised
  <2>2. Screen!Updating("mir") /\ ~ Screen!Updating("mir")' /\ \A u \in Screen!Threads \ { "mir" } : Screen!Updating(u)' = Screen!Updating(u)
    BY <2>1 DEF Screen!Updating, Screen!Threads
  <2>3. /\ ScreenTypes' /\ Lists' /\ OnePerOutput' /\ WindowsKnown'
        /\ ~ config.cloned => \A s \in DOMAIN screens' :
                                screens'[s].lit => screens'[s].buffer = "current"
        /\ \A w \in Windows : Renders(w)' => Renders(w)
    BY <1>2, <2>1, <2>2, UpdateDone DEF Screen!Threads
  <2> QED
    BY <1>3, <2>1, <2>3 DEF OneUpdate, Dark, Fresh, Halted, HeadStarting
<1>11. CASE Screen!AdviseOutput /\ mir' = "updating"
  <2>1. /\ Screen!UpdateBegins("mir") /\ mir = "advising"
        /\ UNCHANGED << config, queue, gui, compositing, screens, windows >>
    BY <1>11 DEF Screen!AdviseOutput
  <2>2. ~ Screen!Updating("mir") /\ Screen!Updating("mir")' /\ \A u \in Screen!Threads \ { "mir" } : Screen!Updating(u)' = Screen!Updating(u)
    BY <1>11, <2>1 DEF Screen!Updating, Screen!Threads
  <2>3. Lists'
    BY <1>3, <2>1, <2>2, UpdateBegun DEF Screen!Threads
  <2> QED
    BY <1>3, <1>11, <2>1, <2>3 DEF OneUpdate, ScreenTypes, OnePerOutput, WindowsKnown, Dark, Fresh,
       Halted, HeadStarting, Renders
<1>12. CASE Screen!Configure
  <2>1. /\ mir = "stopped" /\ mir' = "advising" /\ queue = << >> /\ queue' = << "starting" >>
        /\ UNCHANGED << gui, compositing, listed, old, windows >> /\ gui # "starting"
    BY <1>2, <1>12 DEF Screen!Configure, Handshake
  <2>2. /\ screens' = [ s \in DOMAIN screens |-> screens'[s] ]
        /\ \A s \in DOMAIN screens : \/ screens'[s] = screens[s]
                                     \/ screens'[s] = [ screens[s] EXCEPT !.buffer = "freed" ]
    BY <1>12, Zenon DEF Screen!Configure
  <2>3. ASSUME NEW s \in DOMAIN screens
        PROVE  screens'[s] \in Record /\ screens'[s].window = screens[s].window
    <3>1. screens[s] \in Record
      BY <1>3 DEF ScreenTypes
    <3> QED
      BY <2>2, <3>1, BufferFreed
  <2>4. DOMAIN screens' = DOMAIN screens
    BY <2>2
  <2>5. ScreenTypes' /\ OnePerOutput' /\ WindowsKnown'
    <3>1. screens' \in [ DOMAIN screens -> Record ]
      BY <2>2, <2>3, Zenon
    <3> QED
      BY <1>3, <2>1, <2>3, <2>4, <3>1 DEF ScreenTypes, Record, Screen!NoScreen, OnePerOutput,
         Screen!OutputOf, WindowsKnown
  <2>6. Lists'
    BY <1>3, <2>1, <2>4 DEF Lists, Screen!Updating, Screen!Threads
  <2>7. HeadStarting' /\ Halted
    BY <1>4, <2>1 DEF HeadStarting, Halted
  <2>8. \A w \in Windows : Renders(w)' => Renders(w)
    BY <1>3, <2>1, <2>3 DEF Renders, ScreenTypes, WindowsKnown
  <2> QED
    BY <1>3, <2>1, <2>5, <2>6, <2>7, <2>8 DEF OneUpdate, Dark, Fresh
<1>13. ASSUME NEW w \in Windows, NEW s \in listed, Screen!CreatePlatformWindow(w, s)
       PROVE  OneUpdate'
  <2>1. /\ windows[w] = Screen!NotCreated /\ s \in DOMAIN screens
        /\ UNCHANGED << config, mir, queue, gui, compositing, listed, old >>
        /\ gui # "starting"
    BY <1>3, <1>13 DEF Screen!CreatePlatformWindow, Lists
  <2>2. screens' = [ screens EXCEPT ![s] = [ screens[s] EXCEPT !.window = w ] ]
    BY <1>13 DEF Screen!CreatePlatformWindow, Screen!SetWindow
  <2>3. windows' = [ windows EXCEPT ![w] = [ Screen!NewScreenWindow(s) EXCEPT !.exposed = compositing ] ]
    BY <1>13 DEF Screen!CreatePlatformWindow
  <2>4. /\ DOMAIN screens' = DOMAIN screens /\ screens' = [ r \in DOMAIN screens |-> screens'[r] ]
        /\ \A r \in DOMAIN screens \ { s } : screens'[r] = screens[r]
        /\ screens'[s] = [ screens[s] EXCEPT !.window = w ]
    BY <2>1, <2>2
  <2>5. /\ windows' = [ v \in Windows |-> windows'[v] ]
        /\ \A v \in Windows \ { w } : windows'[v] = windows[v]
        /\ windows'[w] = [ Screen!NewScreenWindow(s) EXCEPT !.exposed = compositing ]
    BY <1>3, <2>3 DEF ScreenTypes
  <2>6. /\ screens'[s] \in Record /\ screens'[s].window = w
        /\ screens'[s].lit = screens[s].lit /\ screens'[s].buffer = screens[s].buffer
    <3>1. screens[s] \in Record /\ w \in Windows \cup { NoWindow }
      BY <1>3, <2>1 DEF ScreenTypes
    <3> QED
      BY <2>4, <3>1, WindowSet
  <2>7. windows'[w] = [ screen |-> s, exposed |-> compositing ]
    BY <2>5, Zenon DEF Screen!NewScreenWindow
  <2>8. windows'[w].screen = s /\ windows'[w].exposed = compositing
    <3>1. compositing \in BOOLEAN /\ s \in DOMAIN screens
      BY <1>3, <2>1 DEF Dark
    <3> QED
      BY <2>7, <3>1, WindowMade
  <2>9. ScreenTypes'
    <3>1. screens' \in [ DOMAIN screens -> Record ]
      BY <1>3, <2>4, <2>6 DEF ScreenTypes
    <3>2. compositing \in BOOLEAN /\ s \in DOMAIN screens \cup { Screen!NoScreen }
      BY <1>3, <2>1 DEF Dark
    <3>3. windows'[w] \in [ screen : DOMAIN screens \cup { Screen!NoScreen }, exposed : BOOLEAN ]
      BY <2>7, <3>2, WindowMade
    <3>4. \A v \in Windows : windows'[v] \in [ screen : DOMAIN screens \cup { Screen!NoScreen }, exposed : BOOLEAN ]
      BY <1>3, <2>5, <3>3 DEF ScreenTypes
    <3>5. windows' \in [ Windows -> [ screen : DOMAIN screens \cup { Screen!NoScreen }, exposed : BOOLEAN ] ]
      BY <2>5, <3>4, Zenon
    <3> QED
      BY <1>3, <2>4, <3>1, <3>5 DEF ScreenTypes, Record, Screen!NoScreen
  <2>10. Lists' /\ OnePerOutput'
    BY <1>3, <2>1, <2>4 DEF Lists, Screen!Updating, Screen!Threads, OnePerOutput, Screen!OutputOf
  <2>11. Screen!NotCreated.screen = Screen!NoScreen /\ s # Screen!NoScreen /\ w # NoWindow
    BY <1>3, <2>1 DEF Screen!NotCreated, ScreenTypes, Screen!WindowsAssumption
  <2>12. \A r \in DOMAIN screens : screens[r].window # w
    BY <1>3, <2>1, <2>11 DEF WindowsKnown, ScreenTypes
  <2>13. WindowsKnown'
    <3>1. \A r \in DOMAIN screens : screens[r].window \in Windows \cup { NoWindow }
      BY <1>3 DEF ScreenTypes, Record
    <3>2. ASSUME NEW r \in DOMAIN screens, screens'[r].window # NoWindow
          PROVE  windows'[screens'[r].window].screen = r
      <4>1. CASE r = s
        BY <2>6, <2>8, <4>1
      <4>2. CASE r # s
        <5>1. PICK v : v = screens[r].window
          OBVIOUS
        <5>2. screens'[r].window = v /\ v \in Windows \ { w } /\ windows[v].screen = r
          BY <1>3, <2>4, <2>12, <3>1, <3>2, <4>2, <5>1 DEF WindowsKnown
        <5> QED
          BY <2>5, <5>2
      <4> QED
        BY <4>1, <4>2
    <3>3. \A v \in Windows : windows'[v].exposed => windows'[v].screen # Screen!NoScreen
      BY <1>3, <2>5, <2>8, <2>11 DEF WindowsKnown
    <3> QED
      BY <2>4, <3>2, <3>3 DEF WindowsKnown, Screen!NoScreen
  <2>14. ASSUME Halted, NEW v \in Windows
         PROVE  ~ Renders(v)'
    <3>1. CASE v = w
      BY <1>3, <2>8, <2>14, <3>1 DEF Dark, Renders
    <3>2. CASE v # w
      <4>1. windows'[v] = windows[v] /\ ~ Renders(v)
        BY <1>3, <2>5, <2>14, <3>2 DEF Dark
      <4>2. windows[v].exposed => windows[v].screen \in DOMAIN screens
        BY <1>3 DEF ScreenTypes, WindowsKnown
      <4> QED
        <5> SUFFICES ASSUME Renders(v)'
                     PROVE  FALSE
          OBVIOUS
        <5>1. PICK r \in DOMAIN screens : r = windows[v].screen
          BY <4>1, <4>2 DEF Renders
        <5>2. windows[v].exposed /\ screens'[r].window = v
          BY <4>1, <5>1 DEF Renders
        <5>3. r # s
          BY <2>6, <3>2, <5>2
        <5> QED
          BY <2>4, <4>1, <5>1, <5>2, <5>3 DEF Renders
    <3> QED
      BY <3>1, <3>2
  <2>15. Dark'
    BY <1>3, <2>1, <2>14 DEF Dark, Halted, HeadStarting
  <2>16. Fresh'
    BY <1>3, <2>1, <2>4, <2>6 DEF Fresh, HeadStarting
  <2> QED
    BY <2>9, <2>10, <2>13, <2>15, <2>16 DEF OneUpdate
<1>14. ASSUME NEW w \in Windows, Screen!DestroyWindow(w)
       PROVE  OneUpdate'
  <2> DEFINE s == windows[w].screen
  <2>1. /\ UNCHANGED << config, mir, queue, gui, compositing, listed, old >> /\ gui # "starting"
        /\ windows' = [ windows EXCEPT ![w] = Screen!NotCreated ]
        /\ screens' = [ screens EXCEPT ![s] = [ screens[s] EXCEPT !.window = NoWindow ] ]
    BY <1>14 DEF Screen!DestroyWindow, Screen!SetWindow
  <2> HIDE DEF s
  <2>2. /\ DOMAIN screens' = DOMAIN screens /\ screens' = [ r \in DOMAIN screens |-> screens'[r] ]
        /\ \A r \in DOMAIN screens \ { s } : screens'[r] = screens[r]
        /\ s \in DOMAIN screens => screens'[s] = [ screens[s] EXCEPT !.window = NoWindow ]
    BY <2>1
  <2>3. /\ windows' = [ v \in Windows |-> windows'[v] ]
        /\ \A v \in Windows \ { w } : windows'[v] = windows[v]
        /\ windows'[w] = Screen!NotCreated
    BY <1>3, <2>1 DEF ScreenTypes
  <2>4. Screen!NotCreated.screen = Screen!NoScreen /\ ~ Screen!NotCreated.exposed
    BY DEF Screen!NotCreated
  <2>5. ASSUME NEW r \in DOMAIN screens
        PROVE  /\ screens'[r] \in Record
               /\ screens'[r].window = IF r = s THEN NoWindow ELSE screens[r].window
               /\ screens'[r].lit = screens[r].lit /\ screens'[r].buffer = screens[r].buffer
    <3>1. screens[r] \in Record
      BY <1>3 DEF ScreenTypes
    <3> QED
      <4>1. CASE r = s
        <5>1. screens'[r] = [ screens[r] EXCEPT !.window = NoWindow ] /\ NoWindow \in Windows \cup { NoWindow }
          BY <2>2, <4>1
        <5> QED
          BY <3>1, <4>1, <5>1, WindowSet
      <4>2. CASE r # s
        BY <2>2, <3>1, <4>2
      <4> QED
        BY <4>1, <4>2
  <2>6. ScreenTypes'
    <3>1. screens' \in [ DOMAIN screens -> Record ]
      BY <2>2, <2>5, Zenon
    <3>2. Screen!NotCreated \in [ screen : DOMAIN screens \cup { Screen!NoScreen }, exposed : BOOLEAN ]
      BY Zenon DEF Screen!NotCreated
    <3>3. \A v \in Windows : windows'[v] \in [ screen : DOMAIN screens \cup { Screen!NoScreen }, exposed : BOOLEAN ]
      BY <1>3, <2>3, <3>2 DEF ScreenTypes
    <3>4. windows' \in [ Windows -> [ screen : DOMAIN screens \cup { Screen!NoScreen }, exposed : BOOLEAN ] ]
      BY <2>3, <3>3, Zenon
    <3> QED
      BY <1>3, <2>2, <3>1, <3>4 DEF ScreenTypes, Record, Screen!NoScreen
  <2>7. Lists' /\ OnePerOutput'
    BY <1>3, <2>1, <2>2 DEF Lists, Screen!Updating, Screen!Threads, OnePerOutput, Screen!OutputOf
  <2>8. WindowsKnown'
    <3>1. ASSUME NEW r \in DOMAIN screens, screens'[r].window # NoWindow
          PROVE  windows'[screens'[r].window].screen = r
      <4> DEFINE v == screens[r].window
      <4>1. r # s /\ screens'[r].window = v
        BY <2>5, <3>1
      <4>2. v \in Windows /\ windows[v].screen = r
        BY <1>3, <3>1, <4>1 DEF ScreenTypes, Record, WindowsKnown
      <4>3. v # w
        BY <4>1, <4>2 DEF s
      <4> HIDE DEF v
      <4> QED
        BY <2>3, <4>1, <4>2, <4>3
    <3>2. \A v \in Windows : windows'[v].exposed => windows'[v].screen # Screen!NoScreen
      BY <1>3, <2>3, <2>4 DEF WindowsKnown
    <3> QED
      BY <2>2, <3>1, <3>2 DEF WindowsKnown, Screen!NoScreen
  <2>9. ASSUME NEW v \in Windows, Renders(v)'
        PROVE  Renders(v)
    <3>1. v # w /\ windows'[v] = windows[v] /\ v # NoWindow
      BY <2>3, <2>4, <2>9 DEF Renders, Screen!WindowsAssumption
    <3>2. windows[v].exposed /\ windows[v].screen \in DOMAIN screens
      BY <1>3, <2>9, <3>1 DEF ScreenTypes, WindowsKnown, Renders
    <3> QED
      BY <2>5, <2>9, <3>1, <3>2 DEF Renders
  <2>10. Dark'
    BY <1>3, <2>1, <2>9 DEF Dark, Halted, HeadStarting
  <2>11. Fresh'
    BY <1>3, <2>1, <2>2, <2>5 DEF Fresh, HeadStarting
  <2> QED
    BY <2>6, <2>7, <2>8, <2>10, <2>11 DEF OneUpdate
<1>15. CASE \/ Screen!Stop \/ Screen!Wait \/ Screen!Killed \/ Screen!StopCompositor \/ Screen!Terminate
            \/ Screen!Shutdown \/ UNCHANGED screenVars
            \/ Screen!AdviseOutput /\ mir' = "started"
  <2>1. UNCHANGED << config, compositing, screens, listed, old, windows >>
    BY <1>15 DEF Screen!Stop, Screen!Wait, Screen!Killed, Screen!StopCompositor, Screen!Terminate,
       Screen!Shutdown, Screen!AdviseOutput, screenVars
  <2>2. /\ gui' = gui \/ (gui \in { "idle", "waiting" } /\ gui' \in { "waiting", "ended" })
        /\ mir' = mir \/ (mir # "updating" /\ mir' # "updating")
        /\ mir' = "stopped" => mir = "stopped"
    BY <1>2, <1>15 DEF Screen!Stop, Screen!Wait, Screen!Killed, Screen!StopCompositor, Screen!Terminate,
       Screen!Shutdown, Screen!AdviseOutput, Screen!EmitStopping,
       screenVars, Handshake
  <2>3. HeadStarting' <=> HeadStarting
    <3>1. CASE UNCHANGED queue
      BY <3>1 DEF HeadStarting
    <3>2. CASE queue' = Append(queue, "stopping") /\ queue \in { << >>, << "starting" >> }
      BY <1>4, <3>2, Pair DEF HeadStarting
    <3> QED
      BY <1>2, <1>15, <3>1, <3>2 DEF Screen!Stop, Screen!Wait, Screen!Killed, Screen!StopCompositor,
         Screen!Terminate, Screen!Shutdown, Screen!AdviseOutput,
         Screen!EmitStopping, screenVars, Handshake
  <2>4. Lists'
    BY <1>3, <2>1, <2>2 DEF Lists, Screen!Updating, Screen!Threads
  <2>5. Halted' => Halted
    BY <2>2, <2>3 DEF Halted
  <2>6. \A w \in Windows : Renders(w)' <=> Renders(w)
    BY <2>1 DEF Renders
  <2> QED
    BY <1>3, <2>1, <2>2, <2>3, <2>4, <2>5, <2>6 DEF OneUpdate, ScreenTypes, OnePerOutput,
       WindowsKnown,
       Dark, Fresh
<1> QED
  BY <1>6, <1>7, <1>8, <1>9, <1>10, <1>11, <1>12, <1>13, <1>14, <1>15 DEF Screen!Next,
     Screen!AdviseOutput

(* For any outputs and windows: unless two threads were in update() at a    *)
(* time, outputs show the same, or a window was overwritten by another on   *)
(* its screen, what renders on a lit screen renders into a buffer that is   *)
(* there, however often Mir stops its compositor and configures its         *)
(* outputs: see ScreensModel.                                               *)
THEOREM BuffersAreThere == Spec => []RendersOnBuffer
<1> USE ScreensAssumption
<1>1. Init => ScreenInv
  BY ScreensInit DEF Init
<1>2. ScreenInv /\ [Next]_<< part, frameVars, screenVars >> => ScreenInv'
  <2> SUFFICES ASSUME ScreenInv, [Next]_<< part, frameVars, screenVars >>
               PROVE  ScreenInv'
    OBVIOUS
  <2>1. [Screen!Next]_screenVars
    BY DEF Next, frameVars, screenVars
  <2> QED
    BY <2>1, ScreensKept
<1>3. ScreenInv => RendersOnBuffer
  BY LitIsCurrent DEF RendersOnBuffer
<1> QED
  BY <1>1, <1>2, <1>3, PTL DEF Spec

==============================================================================

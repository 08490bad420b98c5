--------------------------- MODULE SurfacePosition ---------------------------
(***************************************************************************)
(* Where a window is, as its MirSurface says it relative to its parent.    *)
(*                                                                         *)
(* MirAL moves a window, and the tree of its children after it, as far as  *)
(* confirm_inherited_move() lets each: one that is confined stays put. It  *)
(* tells of each move through a posted signal that carries the position on *)
(* the display. MirSurface takes the position of the parent from that,     *)
(* which it reads from Mir at the time: the parent may have moved since,   *)
(* or not yet, as MirAL may tell of a move before it is made. A surface    *)
(* that moves has its children look where they are, and these theirs.      *)
(***************************************************************************)
EXTENDS Integers, Sequences

CONSTANTS
  Depth,          (* windows 1 .. Depth; 1 is a top-level window, any other *)
                  (* is a child of the one before it                        *)
  Edge,           (* a bound: pixels of the display, along one axis         *)
  Requesting,     (* a bound: windows that the shell moves too              *)
  MaxNotices,     (* a bound: signals posted once all of a tree has moved   *)
  None            (* not a window, nor a position                           *)

DepthAssumption == Depth \in Nat \ {0} /\ Edge \in Nat
BoundAssumption == Requesting \subseteq 1 .. Depth /\ MaxNotices \in Nat /\ MaxNotices >= Depth

Members == 1 .. Depth
Pixels == 0 .. Edge
Moves == [ window : Members, from : Pixels, to : Pixels, told : BOOLEAN, byShell : BOOLEAN ]
Added == -1       (* of a notice: a window that is new, not where it is     *)

NoneAssumption == None \notin Moves /\ None \notin Members \X Pixels

VARIABLES
  topLeft,        (* Mir: each window's top_left(), on the display          *)
  moving,         (* MirAL: the window of a tree that is being moved, from  *)
                  (* where to where, and whether it has told of that        *)
  notices,        (* windowAdded() and windowMoved() posted                 *)
  request,        (* the shell waits for MirAL's lock to move a window      *)
  requested,      (* each surface's m_requestedPosition                     *)
  position,       (* each surface's m_position, of those that there are     *)
  unasked         (* history: surfaces whose parent heard of its move before*)
                  (* that was made, or of one that left it where it is      *)
                  (* relative to its own parent; and not asked since        *)

vars == << topLeft, moving, notices, request, requested, position, unasked >>

Positions == -Edge .. Edge

TypeOK ==
  /\ topLeft \in [ Members -> Pixels ]
  /\ moving \in Moves \cup { None }
  /\ notices \in Seq(Members \X (Pixels \cup { Added }))
  /\ request = None \/ request \in Members \X Pixels
  /\ DOMAIN position \subseteq Members /\ \A w \in DOMAIN position : position[w] \in Positions
  /\ requested \in [ Requesting -> Positions \cup { None } ] /\ unasked \subseteq Members

(* The windows are new, and their surfaces are yet to be made.              *)
Init ==
  /\ topLeft \in [ Members -> Pixels ]
  /\ notices = [ w \in Members |-> << w, Added >> ]
  /\ moving = None /\ request = None
  /\ requested = [ w \in Requesting |-> None ]
  /\ position = << >> /\ unasked = {}

Parent(w) == IF w = 1 THEN 0 ELSE topLeft[w - 1]
ConvertDisplayToLocalCoords(w, at) == at - Parent(w)
ConvertLocalToDisplayCoords(w, at) == at + Parent(w)

------------------------------------------------------------------------------
(* MirAL, under its lock.                                                   *)

MoveTree(w, to, byShell) ==
  moving' = IF to = topLeft[w] THEN None
            ELSE [ window |-> w, from |-> topLeft[w], to |-> to, told |-> FALSE, byShell |-> byShell ]

(* A client or MirAL itself moves a window.                                 *)
Move(w, to) ==
  /\ moving = None /\ Len(notices) + Depth <= MaxNotices
  /\ MoveTree(w, to, FALSE)
  /\ UNCHANGED << topLeft, notices, request, requested, position, unasked >>

(* advise_move_to()                                                         *)
AdviseMoveTo ==
  /\ moving # None /\ ~ moving.told
  /\ moving' = [ moving EXCEPT !.told = TRUE ]
  /\ notices' = Append(notices, << moving.window, moving.to >>)
  /\ UNCHANGED << topLeft, request, requested, position, unasked >>

MoveTo ==
  /\ moving # None /\ topLeft[moving.window] # moving.to
  /\ topLeft' = [ topLeft EXCEPT ![moving.window] = moving.to ]
  /\ UNCHANGED << moving, notices, request, requested, position, unasked >>

(* confirm_inherited_move(): the child goes as far as it may: see           *)
(* Confinement.                                                             *)
ConfirmInheritedMove ==
  /\ moving # None /\ moving.told /\ topLeft[moving.window] = moving.to
  /\ LET child == moving.window + 1
         by == moving.to - moving.from
     IN  IF child > Depth THEN moving' = None
         ELSE \E d \in (0 .. by) \cup (by .. 0) :
                /\ topLeft[child] + d \in Pixels
                /\ MoveTree(child, topLeft[child] + d, moving.byShell)
  /\ UNCHANGED << topLeft, notices, request, requested, position, unasked >>

------------------------------------------------------------------------------
(* MirSurface, in the main thread, unless that is busy moving a window.     *)
Busy == request # None \/ (moving # None /\ moving.byShell)

(* A fault: the children are not asked.                                     *)
SetPositionOnly(w, at) ==
  /\ position' = [ position EXCEPT ![w] = ConvertDisplayToLocalCoords(w, at) ]
  /\ unasked' = unasked \ { w }

(* What surface w is told, that it is at one place, makes of a surface: its *)
(* descendants are asked, and look where their windows are, as far as those *)
(* between them and w have moved.                                           *)
Heard(w, at, v) == ConvertDisplayToLocalCoords(v, IF v = w THEN at ELSE topLeft[v])
Asked(w, at) ==
  { v \in (w .. Depth) \cap DOMAIN position : \A u \in w .. v - 1 : Heard(w, at, u) # position[u] }

SetPosition(w, at) ==
  /\ position' = [ v \in DOMAIN position |->
                     IF v \in Asked(w, at) THEN Heard(w, at, v) ELSE position[v] ]
  /\ LET early == moving # None /\ topLeft[moving.window] # moving.to
         late == { v \in Members : \/ v = w + 1 /\ Heard(w, at, w) = position[w]
                                   \/ early /\ v = moving.window + 1 }
     IN  unasked' = (unasked \ Asked(w, at)) \cup late

(* The constructor, which reads both from Mir, and its parent's list.       *)
OnWindowAdded(w) ==
  /\ position' = [ v \in DOMAIN position \cup { w } |->
                     IF v = w THEN ConvertDisplayToLocalCoords(w, topLeft[w]) ELSE position[v] ]
  /\ UNCHANGED unasked

Hear ==
  /\ ~ Busy /\ notices # << >> /\ notices' = Tail(notices)
  /\ LET w == Head(notices)[1]
         at == Head(notices)[2]
     IN  IF at = Added THEN OnWindowAdded(w) ELSE SetPosition(w, at)
  /\ UNCHANGED << topLeft, moving, request, requested >>

(* setRequestedPosition(), and WindowController::move(), which waits for the*)
(* lock; the parent's position is read before.                              *)
SetRequestedPosition(w, at) ==
  /\ ~ Busy /\ w \in DOMAIN position /\ at # requested[w] /\ Len(notices) + Depth <= MaxNotices
  /\ requested' = [ requested EXCEPT ![w] = at ]
  /\ ConvertLocalToDisplayCoords(w, at) \in Pixels
  /\ request' = << w, ConvertLocalToDisplayCoords(w, at) >>
  /\ UNCHANGED << topLeft, moving, notices, position, unasked >>

MoveRequested ==
  /\ request # None /\ moving = None
  /\ request' = None
  /\ MoveTree(request[1], request[2], TRUE)
  /\ UNCHANGED << topLeft, notices, requested, position, unasked >>

Next ==
  \/ \E w \in Members, to \in Pixels : Move(w, to)
  \/ AdviseMoveTo \/ MoveTo \/ ConfirmInheritedMove \/ MoveRequested
  \/ Hear
  \/ \E w \in Requesting, at \in Positions : SetRequestedPosition(w, at)

Spec == Init /\ [][Next]_vars

------------------------------------------------------------------------------
(* Once all is moved and heard, a surface is where its window is, relative  *)
(* to its parent's; unless it stayed there while its parent heard of a move *)
(* that was yet to be made, or that left it where it is in its own parent.  *)
PositionsAgree ==
  moving = None /\ notices = << >> =>
    \A w \in Members \ unasked : position[w] = topLeft[w] - Parent(w)
==============================================================================

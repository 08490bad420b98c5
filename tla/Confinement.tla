---------------------------- MODULE Confinement ------------------------------
(***************************************************************************)
(* Where a child window may follow its parent, as the policy confirms it,  *)
(* along one axis: a window with its margins is an interval, and so is the *)
(* region it is confined to, a region it does not overlap being none of    *)
(* its business. Intervals are << first, last >> pixels, as QRect's left() *)
(* and right() are.                                                        *)
(***************************************************************************)
EXTENDS Integers, Sequences, FiniteSetsExt

Width(i) == i[2] - i[1] + 1
Shifted(i, by) == << i[1] + by, i[2] + by >>
Intersects(r, i) == r[1] <= i[2] /\ i[1] <= r[2]

(* The first region that overlaps; a null QRect where none does.            *)
NullRect == << 0, -1 >>
GetConfinementRect(regions, geom) ==
  LET overlapping == { n \in 1 .. Len(regions) : Intersects(regions[n], geom) }
  IN  IF overlapping = {} THEN NullRect ELSE regions[Min(overlapping)]

(* confirm_inherited_move(): the first pixel that window gets.              *)
ConfirmInheritedMove(regions, geom, move) ==
  LET region == GetConfinementRect(regions, geom)
      asked == geom[1] + move
  IN
  IF regions = << >> THEN asked
  ELSE IF move > 0
    THEN IF geom[2] < region[2] THEN Min({ asked, region[2] + 1 - Width(geom) })
                                ELSE geom[1]
    ELSE IF geom[1] > region[1] THEN Max({ asked, region[1] })
                                ELSE geom[1]

Child(regions, geom, move) ==
  Shifted(geom, ConfirmInheritedMove(regions, geom, move) - geom[1])

------------------------------------------------------------------------------
(* A child goes no further than its parent, and never the other way; one    *)
(* that is inside its region stays there, and one that is partly outside is *)
(* neither pushed further out nor pulled back by a move the other way.      *)
MovesWithin(regions, geom, move) ==
  LET by == Child(regions, geom, move)[1] - geom[1]
      after == Child(regions, geom, move)
      region == GetConfinementRect(regions, geom)
  IN
  /\ IF move > 0 THEN 0 <= by /\ by <= move ELSE move <= by /\ by <= 0
  /\ regions # << >> /\ region # NullRect =>
       /\ region[1] <= geom[1] => region[1] <= after[1]
       /\ geom[2] <= region[2] => after[2] <= region[2]
       /\ geom[1] < region[1] => after[1] >= geom[1]
       /\ geom[2] > region[2] => after[2] <= geom[2]
==============================================================================

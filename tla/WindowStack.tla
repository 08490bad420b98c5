----------------------------- MODULE WindowStack -----------------------------
(***************************************************************************)
(* What a model of the windows on the screen promises to those that draw   *)
(* it: a list from the lowest window to the highest, to which windows are  *)
(* added on top, from which they are taken, and in which some are raised   *)
(* over all others, the last one named highest, no other two changing      *)
(* their order.                                                            *)
(***************************************************************************)
EXTENDS Integers, Sequences, SequencesExt, Rows

CONSTANT Windows

VARIABLE stack

(* The windows of s that are in t brought to its top, in the order of t.    *)
OnTop(s, t) == Without(s, ToSet(t)) \o Kept(t, ToSet(s))

Init == stack = << >>

Added(w) == ~ Contains(stack, w) /\ stack' = Append(stack, w)

Removed(w) == Contains(stack, w) /\ stack' = Without(stack, { w })

Raised(t) == stack' = OnTop(stack, t)

(* Several windows are raised at once, so that they keep an order.          *)
Next ==
  \/ \E w \in Windows : Added(w) \/ Removed(w)
  \/ \E n \in 1 .. Len(stack) : \E t \in [1 .. n -> ToSet(stack)] :
       IsInjective(t) /\ Raised(t)

Spec == Init /\ [][Next]_stack
==============================================================================

-------------------------------- MODULE Rows ---------------------------------
(* Lists: the part of one that has some elements, as SelectSeq() has it,    *)
(* but by a recursive function, of which something can be proved.           *)
EXTENDS Integers, Sequences, SequencesExt

Kept(s, S) ==
  LET upTo[n \in 0 .. Len(s)] ==
        IF n = 0 THEN << >>
        ELSE IF s[n] \in S THEN Append(upTo[n - 1], s[n]) ELSE upTo[n - 1]
  IN  upTo[Len(s)]

Without(s, S) == Kept(s, ToSet(s) \ S)
==============================================================================

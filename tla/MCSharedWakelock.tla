-------------------------- MODULE MCSharedWakelock --------------------------
(***************************************************************************)
(* Instances of SharedWakelock for TLC.                                    *)
(***************************************************************************)
EXTENDS SharedWakelock, TLC

Symmetry == Permutations(Owners) \cup Permutations(Cookies)

=============================================================================

------------------------ MODULE MCApplicationManager ------------------------
(***************************************************************************)
(* Instances of ApplicationManager for TLC.                                *)
(***************************************************************************)
EXTENDS ApplicationManager, TLC

Symmetry == Permutations(Clients) \cup Permutations(Objects)

=============================================================================

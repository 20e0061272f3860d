---------------------------- MODULE MCScreens ----------------------------
(* Screens on a small instance. *)
EXTENDS Screens, TLC

Symmetry == Permutations(Mutations)
=============================================================================

------------------------------ MODULE MCEditors ------------------------------
(* Editors, with values and mutations that are all alike. *)
EXTENDS Editors, TLC

Symmetry == Permutations(Values) \cup Permutations(Mutations)
=============================================================================

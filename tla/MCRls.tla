-------------------------------- MODULE MCRls --------------------------------
(* Rls on two clans, a user who joins either or both, and an admin in none.  *)
EXTENDS Rls, TLC

CONSTANTS q1, q2, c1, c2, u1, u2, m1, m2, r1, r2

Rows == m1 :> u1 @@ m2 :> u1
Symmetry ==
    Permutations({q1, q2}) \cup Permutations({c1, c2}) \cup Permutations({m1, m2})
    \cup Permutations({r1, r2})
=============================================================================

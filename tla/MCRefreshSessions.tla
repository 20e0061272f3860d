------------------------ MODULE MCRefreshSessions ------------------------
(* RefreshSessions on small instances. *)
EXTENDS RefreshSessions, TLC

Symmetry ==
    Permutations(Users) \cup Permutations(Tokens) \cup Permutations(Requests)
        \cup Permutations(Passwords)
=============================================================================

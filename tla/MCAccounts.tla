----------------------------- MODULE MCAccounts -----------------------------
(* Accounts: two users, one of them from before the migration, and two      *)
(* avatars.                                                                 *)
EXTENDS Accounts, TLC
Symmetry == Permutations(Names) \cup Permutations(Displays) \cup Permutations(Keys)
            \cup Permutations(Requests)
=============================================================================

---------------------------- MODULE MCClanInvites ----------------------------
(* ClanInvites and InviteOffers with two users. *)
EXTENDS InviteOffers, TLC

Symmetry == Permutations(Users) \cup Permutations(Invites) \cup Permutations(Requests)
=============================================================================

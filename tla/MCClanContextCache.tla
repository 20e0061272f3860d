------------------------ MODULE MCClanContextCache ------------------------
(* ClanContextCache on a small instance: two requests of one user in one    *)
(* process, which can share a load.                                         *)
EXTENDS ClanContextCache, TLC

CONSTANTS u1, p1, r1, r2

SameUser == r1 :> u1 @@ r2 :> u1
SameProc == r1 :> p1 @@ r2 :> p1
=============================================================================
